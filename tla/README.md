# Verification of the two-way superscalar out-of-order RISC-V core

TLA+ models of the processor in `src/PIPELINE_ASSEMBLE/verilog`, of the caches of
`src/PIPELINE_ASSEMBLE_no_cache`, and of the software that comes with them (visual debugger,
instruction tables, test programs), the TLC configurations that check the models, and
proofs checked by TLAPS. Line numbers below are those of `src/PIPELINE_ASSEMBLE/verilog`
unless another path is given; `no_cache/` is `src/PIPELINE_ASSEMBLE_no_cache/verilog/`.
`PROJECT.json` maps every definition to the lines it models.

## 1. The system

The design is an R10K-style core for RV32IM: physical registers, a reorder
buffer, two reservation-station banks, two ways in every stage. All state is in
flip-flops on one clock; one rising edge is one step, and everything between two
edges is a function of the registers and of what memory answers. What makes the
design hard is not preemption but *simultaneity*: in every cycle up to two
instructions are renamed, issued, completed and retired, and each structure must
account for all of them, and for a rollback, in the same step.

| Component | File | State | Operations | What makes it correct |
|---|---|---|---|---|
| Fetch | `if_stage.sv` | `PC_reg` | fetch 1 or 2, hold, redirect | no instruction lost, repeated or split |
| Decoder | `id_stage.sv` | - | decode | operands and function of every opcode |
| Rename | `rn_stage.sv` | - | rename two | second way sees the first |
| Free list | `freelist.sv` | ring of registers | allocate 0-2, release 0-2, rollback | every register is in one place |
| Map tables | `RAT.sv`, `RRAT.sv` | two maps, ready bits | rename, wakeup, commit, restore | map = youngest writer; restore = committed map |
| Reorder buffer | `rob.sv`, `circular_buffer.sv` | ring, completion bits, count | dispatch, complete, branch result, violation, retire, flush | in-order commit, nothing lost |
| Reservation stations | `rs_super.sv`, `rs_bank.sv` | 2 x 8 entries | dispatch, wakeup, select, release | every ready entry is eventually issued, once |
| Execution | `ex_stage.sv`, `mult*.sv`, `delay_chain.sv` | multiplier pipes | execute, arbitrate two result ports | each result leaves once |
| Completion | `cm_stage.sv`, EX/CM register | two results | broadcast | results belong to live instructions |
| Branch resolution | `branch.sv`, equations of `pipeline.sv` | - | redirect at retirement | the oldest event wins |
| Branch predictor | `branch_predictor.sv` | BTB, PHT, RAS | predict, update | (its prediction is tied to "not taken") |
| Store queue, load queue | `LSQ.sv` | two rings | dispatch, execute, forward, detect, retire | a load sees the youngest older store |
| Retire store buffer | `retire_store_buffer.sv` | queue | push 0-2, drain, search | stores reach memory in order |
| Load buffer | `load_buffer.sv` | ring | push, answer, return | every missed load returns once |
| Memory | `mem_stage.sv`, `testbench/mem.sv` | memory | load, store, fetch on one bus | sizes and sign extension |
| Register file | `regfile.sv` | registers | read 4, write 2 | reads see the writes of the cycle |
| Instruction cache | `no_cache/cache/icache*.sv` | lines, the miss | look up, ask, fill | what it gives out is memory's; no miss is forgotten |
| Data cache | `no_cache/dcache_*.sv` | lines, ages, controller | load, write through, fetch, fill | lines agree with memory; loads are answered |
| Visual debugger | `visual_testbench/visual_c_hooks.cpp`, `visual_testbench.v` | ring of frames, pipes, what is shown | receive, keys, quit | shows what it says; never waits for ever |
| Instruction tables | `testbench/riscv_inst.h`, `testbench/pipe_print.c` | - | decode, encode, print | agree with the processor |
| Test programs | `test_progs/*.c`, `tj_malloc.h` | heap, queue | allocate, push, sort, search, multiply | compute what they are named for |

How they interact, in the order of an instruction's life: fetch hands a bundle of
at most two instructions (an aligned double word, or its upper half alone) to
rename; rename takes registers from the free list and mappings from the RAT and
hands the bundle to reorder buffer, reservation station and load and store
queues, which take it in the same cycle unless `dp_stall`; the station issues
what is ready; execution puts at most two results into the EX/CM register, which
drives the two completion buses; these wake up the station, the RAT and the
reorder buffer. Retirement looks at the two oldest slots: it commits into the
RRAT, frees the old registers, moves stores to the retire buffer, and on a
mispredicted branch or a load that read too early restores the RAT from the
RRAT, empties everything and redirects fetch.

Hard behaviours, in this design: pairs in one cycle (a rename that depends on
its neighbour, a completion in the cycle of a rename, a retirement pair of which
one must not commit); results in any order against retirement in order; flushes
that meet results of flushed instructions; structures at their limits; and
waits on other structures (dispatch on slots and station, issue on registers,
retirement on the oldest). `PROJECT.json` lists each at its line as a hazard.

Of the other directories: `PIPELINE_ASSEMBLE_no_cache` is a near copy of
`PIPELINE_ASSEMBLE` which, its name notwithstanding, has both caches and the branch
predictor connected; `Freelist`, `Maptables`, `ROB`, `Reservation_station`,
`load_buffer`, `retire_store_buffer`, `icache`, `dcache`, `basic_icache`,
`writeback_dcache`, `writethrough_dcache` hold earlier versions of single units with their
testbenches, `original_file` the course's starting point, `visual_testbench` and
`example_output` tools and outputs.

## 2. The modules

A register of the Verilog is a variable, a wire is an operator, a rising edge is
one action (`Clock` of the module, taking the wires as parameters). A module that
composes units takes the `Clock` of each of them in one step, as the hardware does.

| Module | Models | State and actions |
|---|---|---|
| `Rob` | `rob.sv`, `circular_buffer.sv` | the ring registers; `Cycle` (any input) and `Flush` (the stage reset of `pipeline.sv:576`) |
| `CommitQueue` | (abstract) | a sequence; up to two completed items leave the front, up to two enter |
| `FreeList` | `freelist.sv` | ring of register numbers, two pointers, count; `Clock` |
| `MapTables` | `RAT.sv`, `RRAT.sv` | two maps, ready bits; `Clock` |
| `Core` | `rn_stage.sv`, `branch.sv`, `dp_is_stage.sv`, `cm_stage.sv`, `if_stage.sv`, glue of `pipeline.sv` | composes `Rob`, `FreeList`, `MapTables`; `Cycle`, and `Halted` once the system has halted |
| `InOrder` | (abstract) | a program counter that follows the program, at most two steps at a time |
| `StoreQueue`, `LoadQueue` | modules `SQ` and `LQ` of `LSQ.sv` | two rings with their searches; `Clock` |
| `LoadBuffer` | `load_buffer.sv` | ring of loads that wait for memory, four registers per place; `Clock` |
| `RetireStoreBuffer` | `retire_store_buffer.sv` | queue of retired stores; `Clock` |
| `MemPipe` | `LSQ.sv`, the ports of `ex_stage.sv`, the memory side of `pipeline.sv` | composes `Rob` and the four above with the station's two banks, IS/EX, EX/CM and memory; `Cycle`, and `Stopped` at the end of the program |
| `SeqMemory` | (abstract) | one memory, one operation after the other, at most two in a step |
| `RsBank` | `rs_bank.sv` | a bank of entries: allocation, wakeup, selection by place |
| `MultTop` | `mult_top.sv`, `delay_chain.sv` | the two chains of a multiplier: done bits and packets |
| `Issue` | `rs_super.sv`, `ex_stage.sv`, `regfile.sv`, IS/EX, EX/CM | composes `Rob`, two `RsBank`, two `MultTop`, the register file; `Cycle` |
| `ICache` | `icache_controller.sv`, `icache_mem.sv` | the miss register and a direct mapped memory; `Clock` |
| `Fetch` | `if_stage.sv`, bus and `mem.sv` | composes `ICache` with the PC, the memory's tags and data traffic; `Cycle` |
| `DCache` | `dcache_controller.sv`, `dcache_mem.sv`, bus and `mem.sv` | controller, sets with ages, memory, tags, the heads of both buffers; `Cycle` |
| `Debugger` | `visual_c_hooks.cpp`, `visual_testbench.v` | simulator, debugger, two pipes, user; one action per step of each |
| `TjMalloc`, `PriorityQueue` | `tj_malloc.h`, `priority_queue.c` | headers, ring of free blocks, nodes; `First`, `push`, `pop` |
| `Decode` | `ISA.svh`, `id_stage.sv`, `ex_stage.sv`, `riscv_inst.h`, `pipe_print.c` | operators: names, immediates, encodings of a word |
| `MultProduct` | `mult.sv`, `mult_stage.sv`, `mult_top.sv` | operators: what the stages compute |
| `MemAccess` | `mem.sv`, `mem_stage.sv` | operators: loads and stores of all sizes in a double word |
| `Programs` | sorting, searching, multiplying and neural network `test_progs` | operators, one per function of the sources |
| `MCRob`, `MCCore`, `MCMemPipe`, `MCIssue`, `MCDCache`, `MCDebugger` | - | bounded inputs and programs, the defects not looked behind |
| `MCFunctions` | - | chooses an input of each pure function and computes the answer in one step |
| `RobRefinement` | - | `Rob` with the mapping of its slots to `CommitQueue` |
| `RobProofs` | - | theorems about `Rob` and its refinement |
| `CoreProofs` | - | theorems about `Core`: types and counts; maps, registers and wakeup; the program's path and the refinement of `InOrder` |
| `MemPipeProofs` | - | theorems about `MemPipe`: queues and places; what loads read and the refinement of `SeqMemory` |
| `PriorityQueueProofs` | - | theorems about `TjMalloc` and `PriorityQueue`: the heap and the list in it |
| `FetchProofs`, `DCacheProofs`, `IssueProofs`, `DebuggerProofs` | - | theorems about `Fetch`, `DCache`, `Issue` and `Debugger` |

### Rob

The ring stores instructions of which it knows three things: valid, branch, load.
All inputs of a cycle are free, constrained only by `IsInput`: the second packet
comes with a first (`if_stage.sv:75-76`; the one exception, an illegal instruction
in the first place, is followed in `Core`). Completion buses may name any slot, branch results
and store verdicts too. `dp_stall` is part of the module: the ring on its own takes the second packet of a
bundle without the first when it is full, and it is `pipeline.sv:548` that keeps it from it.

### Core

One step is one cycle of the whole core. `Clock` takes the choices the rest of
the machine makes: `go` (memory answers the fetch), `rs_full`, `leave` (which at
most two ready instructions leave execution), `taken` (which of the leaving branches
are taken) and `verdict` (what the leaving stores report). Everything else follows
from the registers.

Abstractions, each of which only adds behaviours or merges equal ones:

- One source operand per instruction stands for two, which the RTL treats by two
  copies of the same lines.
- IF/ID and ID/RN are one register: both stall and flush on the same wires, and nothing between them is looked at by another unit.
- An instruction that is ready may leave in the same cycle; issue and the IS/EX
  register would make it wait longer, which `leave` may choose as well.
- A store may report any load the load queue could name (`Verdict`): a younger load that may
  have executed as a hit; without a hit, the slot its stale pointer names.
- A branch goes either way each time it executes; the branch predictor is tied to
  "not taken" (`pipeline.sv`), so mispredicted is the same as taken.
- `arch_pc` is a history variable: the address behind the last committed instruction.

### MemPipe

`Core` leaves open what a store reports of the loads that ran ahead of it, and when
a load returns; `MemPipe` is the other half: one step is a cycle of everything between
dispatch and memory, with programs of loads, stores, ALU operations and taken jumps.
`Clock` takes two choices, `go` (fetch has a bundle) and `port` (what each bank of the
station issues); the rest follows from the registers: both searches of `LSQ.sv`, which
result gets the port, which loads go to the load buffer, what is held, what memory
takes or answers, what retires and what is rolled back.

Abstractions:

- Which waiting instruction issues is free, as it depends on operands and on a priority
  encoder; kept is that each bank issues to its own port, that neither issues while the port is held
  and that a load is not issued next to a store (`rs_bank.sv:120`).
- A bundle fetched is dispatched at once. Fetch waits for the bus while a store drains or a
  load is answered; `go` may choose so, and may also choose not to.
- The register of an instruction is named by its slot (`preg`), for the value that a load
  leaves in it; `Core` has the naming of registers.
- Data are words at a few addresses; operation k stores k + 1, so that a value tells which
  store it comes from. The ALU's result of any instruction is an address of the same set,
  because both searches are made for whatever a port holds.
- The multiplier, which can take a port from a load (`rd_ld_buffer_stall`), is left to `Issue`.
- The retire buffer has no size: it drains in every cycle that it has a store in, and
  what retires in pairs meanwhile is bounded by the stores in flight. The RTL has 32 places.
- `arch` and `reads` are history variables: how many operations have committed, and what the loads among them have read.

### Issue

`Issue` is the middle of the machine with nothing left out between dispatch and
completion: the station's entries and both selections, the exclusions between the banks,
IS/EX, the register file with its forwarding, both multipliers, the loads put aside, EX/CM
and the buses, above the ring of `Rob`. The program is a loop without end, given by the kind of
each instruction and by how far in front of it its producers are. Of a value it is kept
whether it is the one the program defines: a register that is read before it is written, or
after it has been given to another, reads as wrong, and so does what is computed from it.

- The exclusion between the banks is combinational and runs in a circle; `Settled` is the
  set of its fixed points, of which the step chooses one.
- Registers are handed out in a ring that is just long enough; `FreeList` has the real order.
- The memory answers the oldest load at any time; whether a load finds a store is part of
  the program. The queues themselves are `MemPipe`'s.
- Only branches flush; a load rollback resets the same registers but EX/CM, which is `Core`'s.

### Fetch and DCache

Both are about `PIPELINE_ASSEMBLE_no_cache`. A cycle has one memory request, the data
cache's before the instruction cache's; the memory takes it under a tag or refuses it, and
returns what it has taken by tag. `Fetch` leaves the data side open, `DCache` the instruction side.

- `Fetch`: an address is a double word; data are the number of the double word they come from, so
  that a value tells whether it is the right one. Flush, stall and prediction are inputs of
  each cycle, and any order of the memory's answers is possible.
- `DCache`: loads and stores are of words. In sizes, `dcache_controller.sv:161-225` ignores
  the lower two bits of the address, and takes the sign from bit 7 or 15 of the double word, whichever
  half is read; forwarding of sizes is likewise described below only. The memory's latency is one constant of
  unknown length: at most one tag ends in a cycle. The highest tag looks like none to the
  controller (`Seen`), as its port is one bit too narrow.

### Debugger

`sim` follows `visual_testbench.v` (dump, wait, read the answer byte by byte), `pc` the main loop of
`visual_c_hooks.cpp`. A frame is one clock edge's dump; `ring` is the contents arrays, indexed as in the
source by one variable that is index and count at once. Every key of the source is an action.
Reading past a slot nothing was received into gives frame 0; a time read from there is any (`garbage`).

### Functions and test programs

`Decode` has the instruction set four times, once per source, and nothing in it refers from one to
another. `Programs` follows the C functions with their arrays, index arithmetic and, where they are static or
global, their state threaded through. `TjMalloc` is the allocator with its ring of
free blocks; `PriorityQueue` calls it as `priority_queue.c` does, without a look at what it returns: `node[NULL]` is what a
push that finds the heap used up writes at address 0. That these are also the program's first words is left out.

## 3. Runs

The pass runs explore the whole state space of their instance, some up to the states that a
constraint names (below).

| Run | Shows | Bounds |
|---|---|---|
| `rob` | `TypeOK`, `WindowExact`, `NoStaleCompletion`; refinement of `CommitQueue` | 4 slots, two kinds of instruction |
| `core` | register accounting, rename, wakeup, program order, exact path, rollback, refinement of `InOrder`, termination | 4 slots, 2 writable registers, three programs of 12 words |
| `mem` | `QueuesExact`, `OnePlace`, `LoadsRight`; refinement of `SeqMemory`; termination but for one kind of starvation | 4 slots, queues of 4, load buffer of 8, eight programs of 10 operations, 3 addresses |
| `issue` | `OnePlace`, `OperandsRight`, `AlwaysRetires` | 4 slots, banks of 2, multiplier of 2 stages, four loops |
| `fetch` | `ValueIsMemory`, `TagIsOwn`, `MissPending`, `HeldIsFetched` | 2 lines, 2 tags, 4 double words, 2 memory tags |
| `dcache` | `LoadsFresh`, `LinesExact`, `VictimExists`, `LoadAnswered` | 1 set of 2 ways, 3 double words, 2 memory tags, one word at a time off its first value |
| `debugger` | `InStep`, `ShowsSelected`, `KeysShow`, `SessionsEnd` | ring of 3, program of 5 edges |
| `queue` | `HeapExact`, `Ordered` | heap of 17 words, 3 priorities |
| `functions` | `DecodersAgree`, `ProductsRight`, `BytesLoaded`, `SearchesRight`, `ProgramsMultiply` | see below |
| `lost_load`, `mark_lost`, `fetch_hang` | violations, see findings | one program each; predictions into the own double word |

Why the bounds are enough. Four slots is the least ring in which a pair can be
dispatched while a pair retires and neither touches the other, with both the full and the almost
full case, and both pointers wrap many times; the free list has the same size and
goes round more than twice. Two writable registers make every kind of collision in a
bundle (read after write, write after write, both). The programs of `core` contain each pair
of kinds the commit equations distinguish: branch and load first or second, a
store in front of the load it invalidates, a branch that links, jumps into the upper half of a double
word, and addresses that wrap. In `rob` the two completion buses are exchanged
freely (the ring treats them alike) and a cycle brings completions, branch
results or store verdicts, not several kinds: they write different fields under
conditions on different inputs. In `mem`, four slots and queues of four let every load and store in flight be in the
window at once, and the rings wrap in every program; a load buffer of eight is not passed once
around by the at most six loads between two flushes (section 4 says why that matters). Banks of two fill
up, so that dispatch waits for them, and a selection by place can pass one entry over for another. Two
lines of two tags have every relation of two addresses: same line, same index, different index; four double words are all of them.
One set of the data cache is as any other, two ways and three double words replace lines, and two memory tags are one that
can be seen and one that cannot. A ring of three frames wraps within five edges, before and after the
program's end. A heap of 17 words is full
after three nodes with two words left over (for other sizes, and other places of `base`, see section 5); a push at that point finds its place
before the head, between two nodes and at the end, and pushes and pops go on behind it. `functions` takes all values of opcode and function fields the
sources name and one they do not, with registers and immediates that tell one bit from another; all
products of 4-bit operands in 4 stages; two stores and a load of every size and place in a double word; all
arrays up to 5 of 4 values; all graphs of 5 vertices; boards up to
4x4 with the knight's moves and a 3x3 one with others, on which there are tours (a knight has none there); all 2x2
matrices over small values; layers on images of one pixel, which as a layer is linear tell all its windows; whole
iterations of `alexnet.c` from three random states, its own first one among them.

What the properties say:

- `Rob`: `WindowExact` ties count, pointers and valid bits, which
  `circular_buffer.sv` keeps apart; `NoStaleCompletion` bars a completion from
  reaching the next tenant of a slot; `ImplementsCommitQueue` says that the ring is
  a queue whose completed front leaves at once and in order.
- `Core`: `NoRegisterLost` (each physical register is in one place),
  `ProgramOrder` (nothing lost between fetch and reorder buffer, and registers handed out in
  order, which makes the free list's one-pointer rollback right), `MappingsExact` (each source
  and each old register is that of the youngest older writer), `WakeupExact` (an operand
  waits exactly as long as its producer, and results on the buses belong to live
  instructions), `PreciseRollback` (a rollback resumes at the first uncommitted instruction
  with the committed map), `CommitsInProgramOrder` (refinement of `InOrder`),
  `PrecisePath`, `Terminates`.
- `MemPipe`: `QueuesExact` (the rings hold exactly the stores and loads in flight in program
  order, and the places copied into the station at dispatch still mean the same at
  execution), `OnePlace` (every instruction in flight is in one of station, port, load
  buffer, EX/CM or completed), `LoadsRight` (a completed load whose older
  stores have executed holds the value of the youngest of them to its address, unless it or a
  load before it is marked to be executed again),
  `ImplementsSeqMemory` (committed loads and stores act on memory, seen through the retire
  buffer, one by one in program order), `Terminates` (a program ends, unless an idle port keeps the load buffer
  from returning for ever).
- `Issue`: `OnePlace`, here with the multipliers' stages; `OperandsRight` (what executes has
  read the values of its producers); `AlwaysRetires` (retirement never stops).
- `Fetch`: `ValueIsMemory`, `TagIsOwn` (the tag waited for belongs to the address of the cycle
  before), `MissPending` (a miss is never forgotten: it is asked for or waited for) and `HeldIsFetched` (whichever
  address fetch comes to stay at, after however many others, is in the cache in the end). With `TightLoops` both fail,
  which is finding 3.
- `DCache`: `LoadsFresh` (whichever answer comes now, the load gets memory's word), `LinesExact`
  (valid lines are memory's and unique), `VictimExists`, `LoadAnswered`.
- `Debugger`: `InStep` (neither process reads an answer that is not there or is for another), `ShowsSelected`,
  `KeysShow` (n and b move by one edge, g and c land on the nearest frame, what is inverted
  is what differs), `SessionsEnd` (a quit ends the simulator, a run ends).

The type invariant of a module is a conjunct of one of these where it is not a property of its own.

**What the runs do not look behind.** Several parts have defects that strike in ordinary
use, and behind them nothing holds. A state constraint ends a path in a state in which one
strikes; the state itself is still checked. The constraints are described by what
the code does in that cycle, not by the properties.

- `core`, `UntilLost`: a violating load retires beside a taken branch (finding 1).
- `mem`, `UntilDefect`: a load is put into the load buffer and held (`HeldLoad`), a mark is taken
  back (`MarkLost`, finding 2), a marked load retires with a store or a taken branch behind it (`PairLost`),
  two retired stores to the address of a load wait when it is served from them (`OldestGiven`).
  Two of its programs meet none of them, and it is these that `Terminates` sees to the end. A third, also inside the
  constraint, meets the starvation of the load buffer (section 4): `Terminates` says that a program ends or is `Starved`
  for ever, and nothing else.
- `issue`, `UntilDefect`: a load that is buffered and held, a multiplication that is held and so
  started twice, a returned load that is dropped for an empty port.
- `dcache`, `UntilDefect`: a store that the memory cannot take, a store during a
  fetch, a miss in the upper half. Its bound is named there too.
- `debugger`, `UntilDefect`: the keys at the ends of the history, and the program's end while stepping.
- `fetch`: `TightLoops` keeps branches from being predicted into their own double word (finding 3).

The passing programs have no illegal instruction and nothing behind their halt.

Deadlock is checked in every run but `functions`, which computes one answer and stops; `Halted`
stutters after a halt, `Stopped` after the last store has left the retire buffer (where the
simulation ends, `pipeline.sv:187`), `Left` after the debugger has been left.

**Fairness.** In `Core`, weak fairness of `Progress`: again and again there is
a cycle in which memory answers the fetch and, if anything is ready, something
leaves execution. Memory answers because data accesses, which have priority on the bus,
are finite in number between fetches, and something leaves because the station
selects whenever it has a ready entry and the multiplier is a fixed pipeline. Neither retirement, nor dispatch, nor
wakeup is assumed. In `MemPipe`, `Progress` is a
cycle in which fetch has a bundle and each bank that may issue does, except that one of the two
waits when both would put a load next to a store. In `Issue` the station is modelled, so
all that is assumed is a clock, and that memory now and then answers a load that waits; even
fetch need not deliver. In `Fetch`, the clock ticks, the memory takes a request that is made again and
again (strong fairness: the bus is shared and the memory may be full, but neither for ever), and
returns what it has taken. In `DCache`, the clock ticks and every tag comes free; that a
request is taken is not assumed. `LoadAnswered` is about times without stores, which come first.
In `Debugger`, simulator, main loop and a keyboard poll with timeout 0 go on; no key is assumed ever to be pressed.

## 4. Findings

Three places where the code and what the repository says of it differ; each is a
run whose counterexample shows it.

1. `lost_load`: a load that must be executed again is skipped when a taken branch
   behind it retires in the same cycle (`if_stage.sv:54`, `branch.sv:109`).
2. `mark_lost`: a store that finds no violation clears the mark another store has put
   on a load (`circular_buffer.sv:95`).
3. `fetch_hang`: a late answer for an earlier address overwrites the line in the very cycle in which
   fetch hits it and a branch is predicted into the same double word. The address does not
   change, the next cycle misses, and nobody asks (`no_cache/cache/icache_controller.sv:47`).

Seen in the models, or while writing them, and without a run. In the core:

- An illegal instruction is never reported and the program goes on behind it (`pipeline.sv:186`);
  in the first way of a bundle it takes the valid one beside it with it,
  since the ring has no arm for a second packet without a first (`circular_buffer.sv:124`).
- The instruction behind a halt commits into the RRAT when both are ready in one cycle
  (`pipeline.sv:456`).
- A load that misses on port 0 while another returns, or a product comes, is both buffered
  and held, so it is returned twice; the second return completes whatever has its slot by then
  (`ex_stage.sv:337`). A multiplication that is held is started again likewise.
- A load of slot 0 that returns together with a product to an idle port is lost: the slots are compared
  without asking whether the port holds anything (`ex_stage.sv:323`).
- A store that retires beside a load to be executed again goes to memory
  (`pipeline.sv:894`); executed again, the load may read it.
- Of several retired stores to its address a load is given the oldest
  (`retire_store_buffer.sv:130`; `no_cache` has a `break` there).
- Nothing looks at `LSQ_dispatch_valid`; a queue that is full looks empty to
  a load (`LSQ.sv:591`).
- An idle port 0 holds address 0 and store-queue index 0; while it finds a store there,
  buffered loads are not returned (`LSQ.sv:404`), for ever if that store is behind the load. The last program of
  `MCMemPipe` reaches it; it is the exception in `Terminates`.
- The occupied bit of a load that leaves the load buffer in a cycle without a new load stays
  set (`load_buffer.sv:90`); once every place has been used between two flushes the buffer counts
  as full, which holds both ports while what they hold completes again every cycle, and head sends
  empty places to memory and returns them as loads of slot 0.
- The second read port of the register file forwards under the first one's enable
  (`regfile.sv:74`); `OperandsRight` holds nevertheless.
- MULHSU extends its operands the other way round (`mult_top.sv:25` against
  `testbench/riscv_inst.h:82`); `ProductsRight` leaves it out.
- `mem_stage.sv:56-68` extends signed loads with zeros and unsigned ones with the sign (`no_cache` tests
  the opposite); forwarding from stores compares addresses only and gives the whole register, whatever the sizes.

In the caches of `no_cache`:

- The data cache acknowledges a store whether or not the memory takes it
  (`dcache_controller.sv:127`): with 8 tags and a latency of 10, the ninth of nine stores in a row is lost.
- A store that comes while a double word is fetched is taken for its address: the request, and
  the line that is filled in, are then the store's, and the line is zero (`dcache_controller.sv:142-151`).
- A miss in the upper half of a double word is given the lower: `offset` is only set in the
  idle state (`dcache_controller.sv:195`).
- Byte and half-word loads from the cache take bytes 0 or 4 whatever the address, and the sign from bit 7 or 15.
- The instruction cache compares tags of 32 KB of the 64 KB of memory (`sys_defs.svh:38-40,81`), and would hang with a memory of
  latency 0.

In the debugger (`visual_c_hooks.cpp`): the program's end shows a slot nothing was received into while
stepping, and slot -1 in a run that has just filled the last; n at the newest frame in the
last slot goes to the oldest; b at the oldest frame of a wrapped ring goes to the newest; searching
backwards from slot 0 visits slots nothing was received into, and from the second-oldest frame it runs
forward; a search forward into the future stops one edge late.

In the tables and programs: `newNode` does not test what `tj_malloc` returns, so that a push that finds the heap used up writes
through NULL, over address 0, and links NULL into the list (`priority_queue.c:26-29,60-79`): before the head the whole list is lost,
elsewhere what comes behind (the run `queue` goes there, and `Ordered` says what is left); `select` gives JAL the format of LUI, and `encode` drops the sign of a store's offset
(`riscv_inst.h`; `RoundTrip` names both); `tj_malloc` adds sizes in bytes to pointers that move by headers, so that
blocks of several sizes overlap once one is split, which the shipped programs never do,
and would take `base` for a block's neighbour if the linker put it 96 bytes behind one (`BaseApart`); `mergesort.c` sorts the indices 0 to 23 of 23
elements; `alexnet.c` shifts by the stride where it should divide, so that its convolution computes 2x2 of 4x4
outputs, of which its pool reads no more, subtracts the window's size for an average, and overwrites what the convolution found with
random inputs of the next layer; `omegalul.c` writes through a pointer that was never set.

## 5. Proofs

Each theorem holds for every value of the constants, under the named assumptions of
the module it is about and the hypotheses given here. All but `Rob`'s refinement
follow one scheme: an inductive invariant, that `Init` gives it, that every step keeps it, and
that it gives the property.

**Reorder buffer** (`RobProofs`). For every `ROB_SIZE >= 2`, every set of instructions and every
set of inputs that satisfies `IsInput`. The inductive invariant of the three ring invariants is their
conjunction `RingInv`, and none of the three is inductive alone: that nothing is popped
from an empty ring needs `NoStaleCompletion` (a completed head is valid) *and*
`WindowExact` (valid means inside the window), and with it the count stays within
its range; `WindowExact` is kept only because
the case statement never takes its default arm with something enabled (`Movement`),
which in turn rests on the stall (`DispatchEnables`) and on the retire enables coming in
order (`RetireEnables`). The argument counts slots by age from the head:
`SlotsAfter` says that after an edge with n dispatches and r retirements the
valid slots are those of age r up to `entry_cnt + n`. `RobImplementsCommitQueue` then maps the slot of
age n to the (n+1)-th item of the queue (`QueueExact`): what is popped is the longest completed prefix of at most
two, what is written lands behind the last, and every other item keeps its place with
the verdicts of this cycle. Assumptions: `RobAssumption` (`ROB_SIZE >= 2`) and
`InputsAssumption`. `Wrap` subtracts once, which for a power of two is what dropping the carry does.

**Core** (`CoreProofs`). For every ring size, number of registers and set of programs without an illegal
instruction (`NoIllegal`). The decoder takes the valid bit from an illegal instruction and from no other
(`id_stage.sv:50`); one in the first way makes the bundle the ring has no arm for
(section 4), after which the invariants do not hold, so the hypothesis is needed, and it
is the only one on programs.

- Types: `CoreInv` is the types, `RingInv` of the ring (cited from `RobProofs` through an
  instance; `InputTyped` shows that rename, buses and execution only make inputs that satisfy `IsInput`),
  and what keeps the parts in step: an entry in flight is what its address says
  (`EntriesExact`), the free list's count is that of the writers in flight (`FreeCount`), and what is in the
  station or on its way belongs to an instruction in flight and not completed (`StationLive`,
  `ResultsLive`). The count needs ranks: the rank of age n is how many of the n oldest write a register.
- Renaming: `IsMapping(a, n, x)` says that x is what register a is mapped to behind the n oldest, by
  the youngest writer among them instead of by a fold; `MapsExact` states the RAT and all that was read from it
  in these terms and is inductive over `CoreInv`. `CoreNoRegisterLost` rests on two facts that are inductive
  together: the registers of the writers are those of the free list's window in order (`AllocExact`), and committed map
  and free list together cover the registers (`Coverage`), since a commit exchanges the register it puts into the map with the one it
  frees (`Exchange`). As there are as many places as registers, covering means once each.
  `CoreProgramOrder` adds `Sequence`: neighbours in flight are neighbours in the program, and what is fetched
  next follows the last.
- Wakeup: `OncePlaced` turns the coverage into uniqueness, so that a bus that names a
  register in use names its producer (`Heard`). `Wakes` adds to `WakeupExact` that a register that
  is handed out is nowhere waited for (`GivenFresh`).
- The program's path: `CorePrecisePath`, `CorePreciseRollback` and the refinement of `InOrder` are about the
  behaviours in which no clock edge finds a load to be executed again beside a taken branch (`[][LoadKept]_vars`),
  which is finding 1 and what the run `core` does not look behind. Every other
  behaviour is in: mispredictions, rollbacks of either way, stalls, halts.

**Fetch** (`FetchProofs`). The cache looks at an address up to `Short`, its index and tag. `FetchInv` says what lines and tag in wait are,
up to `Short`, and is inductive for every memory (`FetchAlways`). The three invariants of the
runs follow where no two double words that are fetched from are one to the cache (`NoAlias`). In
the source they are not: 16 lines and 8 bits of tag tell 4096 double words of 8192
apart (section 4), so the hypothesis says that the program lies in one half of memory, and it cannot be dropped.
`FetchMissPending` also takes `~TightLoops`, which finding 3 is about, and a cache that tells two double words apart: one that does
not would take the address after reset for one it has asked for.

**Data cache** (`DCacheProofs`). `VictimExists` for every number of ways and sets, every memory and every
behaviour, the defects of section 4 included. That some age is 0 is not inductive: a write hit on
the only way of age 0 takes it away, and it is kept only because another comes down from 1.
The inductive invariant `AgesInv` says that ages above 0 are distinct (`AgesDistinct`), which every
step keeps (`AgedDistinct`); with it, no way of age 0 would mean `WAYS` ways with `WAYS - 1`
different ages (`DistinctLeavesVictim`). `LinesExact` and `LoadsFresh` for the behaviours in which none of the
three defects that `UntilDefect` names strikes (`[][NoDefect]_vars`). Besides the lines, `CacheInv` says that a controller that is not idle
works for a load that misses (`WorksForMiss`), and that memory holds the tag it waits for, with
that load's double word (`WaitsForMiss`): the requests that rollbacks leave behind do no harm, as
a tag is given out again only after it has come back. Assumption: `DCacheAssumption`; that
the largest age is `WAYS - 1` is the source's `{$clog2(WAYS){1'b1}}` for a power of two.

**Station, ports and multipliers** (`IssueProofs`). `OnePlace` and `OperandsRight`, for every size of ring, banks and
multipliers and every loop, under two hypotheses. `DELAY = STAGES`: the tag travels through a delay chain beside the
product, and both have 8 stages in `mult_top.sv`; with another length a product is written to another
instruction's register. And `[][UntilDefect]_vars`: none of the three port defects of section 4 strikes, the behaviours the
run `issue` looks at. The inductive invariant `IssueInv` consists of

- the types and the ring's invariant (cited from `RobProofs` through an instance);
- `Placed`: `In(p, i)` says that slot i is found in place p (an entry of the station, a port, a stage of a multiplier, a place of the load
  buffer, a bus, completed), and what is in flight is in one place and nothing else is in any. A cycle moves
  all of them at once, so the step is not proved place by place: `To` says where each thing goes, `Forward` that it is found there,
  `Backward` that whatever is found somewhere came from a place that goes there, or has just been dispatched, and uniqueness carries over.
  The holds of the ports (a product or a returned load takes the bus) are where the defects are left out. That the load buffer
  never outgrows the ring follows from there being one place per slot (`BufferFits`);
- `Packets` and `TagsOwn`: what a place holds names its instruction's register, so that a bus wakes and writes for the right one;
- `ValuesRight`, `OperandsWritten`: a register has its value once a ready bit says so, its instruction has completed or
  it is being read. A result that is on a bus while the register is read is forwarded, one that is written while an entry is allocated
  sets the ready bit there, and the proof has a case for each;
- `RegistersRecent`: how long ago (`Back`) a register that is still read was handed out, by the reader's age in the ring. The model hands
  registers out in a ring of `2 * ROB_SIZE` (the free list is `Core`'s), and this is why one in use is never given to another.

**Memory path** (`MemPipeProofs`). `QueuesExact`, `OnePlace`, `LoadsRight` and the refinement of `SeqMemory`, for every
size of ring, queues and load buffer, every set of addresses and every program. The hypotheses are about behaviours, and each stands for
something the code does not guard against (section 4):

- `QueueRoom`, fewer stores and fewer loads in flight than a queue has places: nothing looks at `LSQ_dispatch_valid`, and a full queue looks
  empty. A ring smaller than the queues, or a program that spreads its loads and stores, gives it.
- `BufferRoom`, the next place of the load buffer does not count as occupied: the bit that `load_buffer.sv:90` puts back does not go away.
- `~HeldLoad` and `~PairLost` for all four results, and for the values also `~MarkLost` and `~OldestGiven`: the four defects of `MCMemPipe`. `Explored`
  is all of it together; the run `mem` looks at such behaviours, and in its programs `QueueRoom` and `BufferRoom` hold in every state.

The inductive invariant of the queues, `QueueInv`, says everything by counting: operation k has in a queue the place that lies as many places
behind its head as operations of that kind are in front of k and in flight (`SqOf`, `LqOf`). Its parts are

- the types, the ring's invariant (cited from `RobProofs`), and `InOrder`: what is in flight are the operations from `arch` to `fpc`;
- `Pointers`: both tails are the places of `fpc`; a cycle that takes operations in and lets others go moves heads and tails by the counts of each
  (`PointersMove`, `PlacesKept`), and with `QueueRoom` no two operations have one place (`PlacesApart`);
- `Carried`: what waits and what executes carries the places of its operation, however far both queues have moved on since dispatch;
- `Placed`: what is in flight is in one place and nothing else is in any. As in `IssueProofs` a relation, `Moves`, says where a cycle takes what is
  where; each place goes to one (`MovesOne`), where it is found (`MovesThere`), and what is found somewhere has come from one (`MovesFrom`). A load that is
  held beside its copy is what breaks it (`HeldLoad`). `RingMoves` is the load buffer's ring in numbers;
- `StoresFilled`, `LoadsKnown`: a place of a queue is filled exactly from the execution of its operation on, and with what belongs to it;
- `PortsApart`: a load executes beside a store only if that has executed before and is held, since the banks do not issue one with the other, so a store
  and a load never pass each other in one cycle unseen;
- `BufferExact`: the load buffer holds loads in flight, and an answer only at its head.

After a rollback nothing is in flight and the invariant holds as after reset (`EmptiedIs`); that fetch then resumes at the operation that is next to be committed
is where `PairLost` is left out (`RollbackAt`).

`ValuesInv` says what loads have. `Sources(i)` are the stores in flight that load i can read from: older, to its address, executed; `Visible(i)` is what
the last of them stores, or what `SeenMemory` has if there is none. A load not to be executed again has `Visible` on its bus and in its register,
and so has an answer in the load buffer; one that waits there for an answer is `Alone`: no store in the queue, and none in the retire buffer, is left for it. Why
this is inductive:

- the search of the store queue, which counts places from the load's index downwards, finds the last of the `Sources` (`HitIs`), and the retire buffer the last
  of what has retired, where two do not wait (`PortValue`);
- a store that executes behind the back of a load that has already read marks it, or one between the two (`Named`, `StoreMarks`); marks stay where none
  is taken back (`MarksStay`), and a marked load takes all behind it along (`DoubtStays`). So an unmarked load gets no new source (`SourcesMove`);
- a store that leaves the queue enters the retire buffer, and one that leaves that enters memory, in one step each, so `Visible` stays what it is
  (`SeenMoves`, `VisibleKept`) although its parts move through three units.

`LoadsRight` follows, as with all older stores executed `Sources` are all that `Expected` looks at. For `MemPipeImplementsSeqMemory` a cycle that commits nothing, one or two
operations is none, one or two steps of `SeqMemory` (`CycleMapped`): what is committed is marked nowhere (`CommittedSure`), the first reads what retired
stores have left (`FirstReads`), and the second may read from the first, which has not left the store queue (`SecondReads`). Assumption: `MemPipeAssumption`.

**Visual debugger** (`DebuggerProofs`). `InStep`, `ShowsSelected` and the action property `KeysShow`, for every `NUM_HISTORY >= 2` and every
length of the program, in the behaviours in which none of the five defects of section 4 strikes (`[][UntilDefect]_vars` of `MCDebugger`, what the
run `debugger` looks at). The inductive invariant `DebuggerInv` says

- whose turn it is (`Turns`): a frame is in one pipe, or its answer in the other, or neither, and a debugger that has been left has
  written its Z behind whatever was there. `InStep` follows, and that `DONE` is never met without a frame to show (`EndKnown`);
- what the ring holds (`RingExact`): the slot `Back` n from the next one to fill holds the n-th latest frame, so that wrapping, which
  the code does by a remainder, is arithmetic without one;
- what is drawn (`ScreenExact`): the selected slot whenever a key is asked for, and otherwise a frame that is still in its slot or has
  left the ring. The keys are silent exactly while the simulation runs (`echo_data <=> ~running`).

For searches `VisitedForth` and `VisitedBack` turn the slots that are visited into frames, one after the other; `LandForth` and `LandBack` then say
that none is skipped. From the oldest frame of a wrapped ring a search backwards goes to the newest and comes down,
and it can only land next to where it was, and so skips none either. Assumption: `DebuggerAssumption`.

**Heap and queue** (`PriorityQueueProofs`). `HeapExact` and `Ordered`, for every heap of at least one node and every set of priorities, wherever `base` is
as long as no block seems to end there (`BaseApart`): the pointers of `tj_free` move by headers, so a block of 12 bytes seems to end
96 bytes behind its header. `linker.lds` gives that, putting `base` below the heap (`.sbss` before `.bss`), and so does the run's value; with
`HEAP_SIZE = 15` and `BASE = 29` TLC finds `base` joined to a block and lost from its ring. The inductive invariant `QueueInv` has two parts:

- `HeapInv`: what is carved off the heap is blocks of one size side by side (`Blocks`), and those that are not in use are, with `base`, exactly the free
  list. That is `Cyclic`: each points at the next higher one and the highest back at the lowest, from which `FreeListSorted` follows, and that a walk as
  long as the table of headers meets every block (`RingVisited`). `CyclicInsert` and `CyclicRemove` are freeing and taking; `BetweenSome` says the search for a
  neighbour ends. Nothing is ever joined or split (`FreeApart`, `TakeOne`), and a block that is carved off is the one that is taken (`GrowOne`);
- `ListInv`: there is a set of nodes in use (`Listed`), all of them while `NeverExhausted`, with a numbering (`Chain`) that starts at `head`, follows `next`
  to NULL, meets each once and never falls in priority. `AtChain` says that walking finds it; `ChainInsert` and `ChainRest` are `push` at either
  place and `pop`, `StartStops` is where the search stops, and `ChainCut` is what a push leaves of the list when it links NULL. A list whose head is NULL
  is pushed to at address 0 (`ThroughNull`), which lengthens no list.

What `newNode` returns was not in use or is NULL (`NewKeepsHeap`), which is why the list stays without repetition. Neither theorem assumes that the heap lasts;
`HeapExact` holds behind a push through NULL too, as address 0 is no part of the heap. Assumptions: `MallocAssumption`, `QueueAssumption`.

**Only model-checked.** Liveness (`Terminates`, `AlwaysRetires`, `HeldIsFetched`, `LoadAnswered`, `SessionsEnd`), as TLAPS does not reason
about fairness. `Decode`, `MultProduct`, `MemAccess` and `Programs` with `MCFunctions`: their
algorithms are recursive or loops over data, and what those compute for every input takes an induction
that the provers at hand cannot instantiate.

## 6. Plan

Done: the reorder buffer with its refinement; renaming, commit, rollback and wakeup (`Core`) with
their proofs; the memory path (`MemPipe`) with its proofs and refinement; the station, ports, multipliers and register file (`Issue`) with their proofs;
fetch and both caches with their proofs; the debugger with its proofs; decoders, products, memory accesses and test
programs as functions; allocator and queue with their proofs. Every safety property of a component that is a state
machine is proved; what is left to the runs is named at the end of section 5.

## 7. Not modelled

- The branch predictor (`branch_predictor.sv`): a hint, which `PIPELINE_ASSEMBLE` ties to "not taken"
  and `Fetch` replaces by any prediction, so that what fetch and commit do with a wrong one is
  covered. Its return stack has no arm for a call in way 1 alone and wraps at 0; nothing depends on it but speed.
- `omegalul.c`, `basic_malloc.c` (the allocator it calls is modelled), the programs written in assembly, and
  overflow of the programs' integers.
- The drawing of the debugger's windows: what is shown is modelled, where it is drawn is not.
- The write-back cache in `PIPELINE_ASSEMBLE`, which is commented out, and the earlier copies of units in
  other directories.
- Test benches, generated simulator sources, synthesis and build scripts: no state of the design.
