-------------------------------- MODULE Core --------------------------------
(***************************************************************************)
(* Rename, dispatch, completion and retirement of the two-way core: the    *)
(* reorder buffer, the free list and the two map tables on one clock, with *)
(* the glue of pipeline.sv between them (rn_stage.sv, branch.sv,           *)
(* dp_is_stage.sv and the commit, free and redirect equations).            *)
(*                                                                         *)
(* Around them only what decides when things happen is kept: the program   *)
(* counter of if_stage.sv, one register between fetch and rename (IF/ID    *)
(* and ID/RN, which flush and stall together), a reservation station that  *)
(* remembers for each instruction whether its operand is there, execution  *)
(* that may let any two ready instructions go in a cycle, and the EX/CM    *)
(* register that drives the completion buses one cycle later.  One source  *)
(* operand stands for the two, which are treated alike.                    *)
(***************************************************************************)
EXTENDS Integers, FiniteSets

CONSTANTS
  ROB_SIZE,   \* `ROB_SIZE, and the size of the free list as well (`FL_SIZE)
  NUM_ARCH,   \* architectural registers
  NUM_PC,     \* bound: instruction addresses, in words; they wrap
  Programs    \* the instruction memories considered

PC   == 0 .. NUM_PC - 1
Slot == 0 .. ROB_SIZE - 1
Ways == {0, 1}
Kind == {"alu", "branch", "load", "store", "halt", "illegal"}
Inst == [kind : Kind, rd : 0 .. NUM_ARCH - 1, rs : 0 .. NUM_ARCH - 1, target : PC]

ASSUME CoreAssumption ==
  /\ ROB_SIZE \in Nat /\ ROB_SIZE >= 2
  /\ NUM_ARCH \in Nat /\ NUM_ARCH >= 2
  /\ NUM_PC \in Nat /\ NUM_PC >= 2 /\ NUM_PC % 2 = 0
  /\ Programs \subseteq [PC -> Inst]
  /\ \A p \in Programs : \A a \in PC : p[a].kind \in {"store", "halt", "illegal"} => p[a].rd = 0

VARIABLES
  prog,       \* instruction memory
  PC_reg,     \* if_stage.sv: next address to fetch
  id_rn,      \* the bundle waiting to be renamed
  rob_head, rob_tail, data, retire_tag, rob_cnt,        \* reorder buffer
  fl_table, fl_head, fl_tail, fl_cnt,                   \* free list
  rat_tag, preg_ready, rrat_tag,                        \* map tables
  rs,         \* reservation station: what each slot's instruction waits for
  ex_cm,      \* results on their way to the completion buses
  system_halt,
  arch_pc     \* history: the address of the next instruction to commit

robVars == <<rob_head, rob_tail, data, retire_tag, rob_cnt>>
flVars  == <<fl_table, fl_head, fl_tail, fl_cnt>>
mapVars == <<rat_tag, preg_ready, rrat_tag>>
vars == <<prog, PC_reg, id_rn, robVars, flVars, mapVars, rs, ex_cm, system_halt, arch_pc>>

PReg == 0 .. NUM_ARCH + ROB_SIZE - 1

(* What the reorder buffer carries of an instruction: its address (which gives
   the rest of it), its registers new, old and read. *)
Payload == [pc : PC, T_new : PReg, T_old : PReg, src : PReg]

Rob == INSTANCE Rob WITH head <- rob_head, tail <- rob_tail, entry_cnt <- rob_cnt,
                         Instr <- Payload, Inputs <- {}
FL  == INSTANCE FreeList WITH FL_SIZE <- ROB_SIZE, head <- fl_head, tail <- fl_tail,
                              entry_cnt <- fl_cnt
Map == INSTANCE MapTables

Plus(pc, n) == (pc + n) % NUM_PC

-----------------------------------------------------------------------------
(* Completion buses: cm_stage.sv, from the EX/CM register.  Which of the two
   buses carries which result makes no difference; the older slot number is on
   bus 0. *)
NoResult == [valid |-> FALSE, rob_idx |-> 0, tag |-> 0]
OnBus(r) == [valid |-> TRUE, rob_idx |-> r.rob_idx, tag |-> r.tag]
Lowest(S)  == CHOOSE r \in S : \A x \in S : r.rob_idx <= x.rob_idx
Highest(S) == CHOOSE r \in S : \A x \in S : r.rob_idx >= x.rob_idx

cdb == [w \in Ways |->
          IF ex_cm = {} THEN NoResult
          ELSE IF w = 0 THEN OnBus(Lowest(ex_cm))
          ELSE IF Cardinality(ex_cm) = 2 THEN OnBus(Highest(ex_cm)) ELSE NoResult]

-----------------------------------------------------------------------------
(* Retirement: what pipeline.sv and branch.sv make of the two oldest slots.
   branch_predictor.sv never predicts a branch taken, so a mispredicted branch
   is one that was taken. *)
first  == data[rob_head]
second == data[Rob!head_p1]

Kinds(d) == prog[d.ins.pc].kind

(* Mutant: the second instruction leaves with a mispredicted branch in front. *)
head_p1_retire_rdy_always == Rob!head_p1_retire_rdy(cdb)

head_retire_rdy    == Rob!head_retire_rdy(cdb)
head_p1_retire_rdy == Rob!head_p1_retire_rdy(cdb) /\ ~first.ex_take_branch

misp0 == head_retire_rdy /\ first.is_branch /\ first.ex_take_branch
misp1 == head_p1_retire_rdy /\ second.is_branch /\ second.ex_take_branch
viol0 == head_retire_rdy /\ first.rd_mem_violation
viol1 == head_p1_retire_rdy /\ second.rd_mem_violation

mispredict  == misp0 \/ misp1
(* Mutant: a violation in the second place is not acted upon. *)
ld_rollback_first == viol0 /\ first.rd_mem

ld_rollback == (viol0 /\ first.rd_mem) \/ (viol1 /\ second.rd_mem)
rollback    == mispredict \/ ld_rollback

mispredict_target_pc ==
  IF misp0 THEN prog[first.ins.pc].target ELSE prog[second.ins.pc].target

(* Mutant: fetch goes on behind the load instead of at the load. *)
ld_rollback_pc_next ==
  IF viol0 THEN Plus(first.ins.pc, 1) ELSE Plus(second.ins.pc, 1)

ld_rollback_pc == IF viol0 THEN first.ins.pc ELSE second.ins.pc

(* pipeline.sv:452-458: the commits into the retirement map. *)
NoWrite == [en |-> FALSE, addr |-> 0, tag |-> 0]
Commit(en, d) ==
  IF en THEN [en |-> TRUE, addr |-> prog[d.ins.pc].rd, tag |-> d.ins.T_new] ELSE NoWrite

rrat_write ==
  [w \in Ways |->
     IF w = 0
     THEN Commit(head_retire_rdy /\ first.ins.T_new # 0 /\ ~viol0, first)
     ELSE Commit(head_p1_retire_rdy /\ second.ins.T_new # 0 /\ ~viol1 /\ ~viol0
                   /\ ~(mispredict /\ ~second.is_branch), second)]

(* Mutant: the second register is freed although the first load is executed again. *)
retire_en_second ==
  [w \in Ways |->
     IF w = 0
     THEN head_retire_rdy /\ first.ins.T_old # 0 /\ ~viol0
     ELSE head_p1_retire_rdy /\ second.ins.T_old # 0 /\ ~viol1]

(* rn_stage.sv:38-39: the registers that go back to the free list. *)
retire_en ==
  [w \in Ways |->
     IF w = 0
     THEN head_retire_rdy /\ first.ins.T_old # 0 /\ ~viol0
     ELSE head_p1_retire_rdy /\ second.ins.T_old # 0 /\ ~viol1 /\ ~viol0
            /\ ~(rollback /\ ~second.is_branch)]

retire_T_old ==
  [w \in Ways |-> IF ~retire_en[w] THEN 0
                  ELSE IF w = 0 THEN first.ins.T_old ELSE second.ins.T_old]

-----------------------------------------------------------------------------
(* Rename: rn_stage.sv. *)
Decoded(w) == prog[id_rn[w].pc]

dispatch_en == [w \in Ways |-> id_rn[w].valid /\ Decoded(w).rd # 0]
T_idx(w)    == FL!dout(dispatch_en, w)

rat_write ==
  [w \in Ways |-> IF id_rn[w].valid
                  THEN [en |-> TRUE, addr |-> Decoded(w).rd, tag |-> T_idx(w)] ELSE NoWrite]

(* A halt reads no register (rn_stage.sv:61-69). *)
Operand(w) ==
  IF Decoded(w).kind = "halt" THEN [tag |-> 0, ready |-> TRUE]
  ELSE Map!Source(rat_write, cdb, w, Decoded(w).rs)

Renamed(w) ==
  IF ~id_rn[w].valid THEN [valid |-> FALSE]
  ELSE [valid |-> TRUE,
        ins |-> [pc |-> id_rn[w].pc, T_new |-> T_idx(w),
                 T_old |-> Map!T_old(rat_write, w), src |-> Operand(w).tag],
        is_branch |-> Decoded(w).kind = "branch",
        rd_mem |-> Decoded(w).kind = "load"]

rn_dp == [w \in Ways |-> Renamed(w)]

-----------------------------------------------------------------------------
(* Execution.  leave: the slots whose result leaves EX in this cycle; a branch
   takes the direction taken says, a store reports the verdict given for it. *)
Ready    == {i \in Slot : rs[i] = "ready"}
Leaving  == {S \in SUBSET Ready : Cardinality(S) <= 2}
Outcomes(leave) == {T \in SUBSET leave : \A i \in T : data[i].is_branch}

(* A store reports a violation by a younger load whose address is known; without one
   it still names a slot, and circular_buffer.sv:94-100 writes the flag of a load there. *)
Younger(st) ==
  {i \in Slot : data[i].valid /\ data[i].rd_mem /\ Rob!Age(i) > Rob!Age(st) /\ rs[i] # "wait"}
Verdict(st) ==
  [ld : Younger(st), hit : {TRUE}]
  \cup [ld : {i \in Slot : data[i].valid /\ data[i].rd_mem} \cup {st}, hit : {FALSE}]

Stores(leave) == {i \in leave : Kinds(data[i]) = "store"}
Verdicts(leave) ==
  {v \in [Stores(leave) -> UNION {Verdict(i) : i \in Stores(leave)}] :
     \A i \in Stores(leave) : v[i] \in Verdict(i)}

(* The port of way w among the slots in S. *)
OnPort(S, w) == IF w = 0 THEN CHOOSE x \in S : \A y \in S : x <= y
                         ELSE CHOOSE x \in S : \A y \in S : x >= y

BranchPort(leave, taken, w) ==
  LET S == {i \in leave : data[i].is_branch}
      i == OnPort(S, w)
  IN  IF S = {} THEN [branch_done |-> FALSE, rob_idx |-> 0, take_branch |-> FALSE]
      ELSE [branch_done |-> TRUE, rob_idx |-> i, take_branch |-> i \in taken]

StorePort(verdict, w) ==
  LET S == DOMAIN verdict
      i == OnPort(S, w)
  IN  IF S = {} THEN [done |-> FALSE, ld_rob_idx |-> 0, mem_violation |-> FALSE]
      ELSE [done |-> TRUE, ld_rob_idx |-> verdict[i].ld, mem_violation |-> verdict[i].hit]

Results(leave) == {[rob_idx |-> i, tag |-> data[i].ins.T_new] : i \in leave}

(* The station: an entry is written at dispatch with the readiness rename read,
   woken by the buses, and released when its instruction is let go. *)
Station(leave, n) ==
  [i \in Slot |->
     IF n >= 1 /\ i = rob_tail THEN IF Operand(0).ready THEN "ready" ELSE "wait"
     ELSE IF n = 2 /\ i = Rob!tail_p1 THEN IF Operand(1).ready THEN "ready" ELSE "wait"
     ELSE IF i \in leave THEN "none"
     ELSE IF rs[i] = "wait" /\ Map!Broadcast(cdb, data[i].ins.src) THEN "ready"
     ELSE rs[i]]

-----------------------------------------------------------------------------
(* Fetch and decode: if_stage.sv, id_stage.sv.  An odd word address is the upper
   half of the fetched double word, and the bundle then has one instruction.  The
   decoder takes the valid bit from an illegal instruction, on its own. *)
NoInst   == [valid |-> FALSE, pc |-> 0]
NoBundle == [w \in Ways |-> NoInst]
Decode(pc) == IF prog[pc].kind = "illegal" THEN NoInst ELSE [valid |-> TRUE, pc |-> pc]
Fetched ==
  [w \in Ways |-> IF w = 0 THEN Decode(PC_reg)
                  ELSE IF PC_reg % 2 = 0 THEN Decode(Plus(PC_reg, 1)) ELSE NoInst]

Sequential == Plus(PC_reg, IF PC_reg % 2 = 0 THEN 2 ELSE 1)

(* History: the instruction after the last one that commits in this cycle, where
   a halt is the last instruction (as inst_cnt counts, pipeline.sv:181-183). *)
After(d) == IF d.ex_take_branch THEN prog[d.ins.pc].target ELSE Plus(d.ins.pc, 1)
commit0 == head_retire_rdy /\ ~viol0
commit1 == head_p1_retire_rdy /\ ~viol0 /\ ~viol1 /\ Kinds(first) # "halt"

(* One rising edge.  go: the instruction memory answers (it does not while the
   data side has the bus, pipeline.sv:281); rs_full: a station bank is full. *)
Clock(go, rs_full, leave, taken, verdict) ==
  LET stall == Rob!dp_stall(rs_full)
      ex    == [w \in Ways |-> BranchPort(leave, taken, w)]
      sq    == [w \in Ways |-> StorePort(verdict, w)]
      n     == Rob!Dispatches(rn_dp, stall, cdb)
  IN  /\ IF rollback THEN Rob!Flush ELSE Rob!Clock(rn_dp, stall, cdb, ex, sq)
      /\ FL!Clock(dispatch_en, stall, retire_en, retire_T_old, rollback)
      /\ Map!Clock(rat_write, stall, rollback, cdb, rrat_write)
      /\ rs' = IF rollback THEN [i \in Slot |-> "none"] ELSE Station(leave, n)
      /\ ex_cm' = IF mispredict THEN {} ELSE Results(leave)
      /\ id_rn' = IF rollback THEN NoBundle ELSE IF stall THEN id_rn
                  ELSE IF go THEN Fetched ELSE NoBundle
      /\ PC_reg' = IF mispredict THEN mispredict_target_pc
                   ELSE IF ld_rollback THEN ld_rollback_pc
                   ELSE IF go /\ ~stall THEN Sequential ELSE PC_reg
      /\ system_halt' = (system_halt
                         \/ (head_retire_rdy /\ Kinds(first) = "halt")
                         \/ (head_p1_retire_rdy /\ Kinds(second) = "halt" /\ ~rollback))
      /\ arch_pc' = IF commit1 THEN After(second) ELSE IF commit0 THEN After(first) ELSE arch_pc
      /\ UNCHANGED prog

Init ==
  /\ prog \in Programs
  /\ PC_reg = 0 /\ arch_pc = 0
  /\ id_rn = NoBundle
  /\ Rob!Init /\ FL!Init /\ Map!Init
  /\ rs = [i \in Slot |-> "none"]
  /\ ex_cm = {}
  /\ system_halt = FALSE

(* A bank is full only when something waits in it. *)
MayBeFull == \E i \in Slot : rs[i] # "none"

Cycle ==
  /\ ~system_halt
  /\ \E go \in BOOLEAN, rs_full \in {FALSE, MayBeFull}, leave \in Leaving :
       \E taken \in Outcomes(leave), verdict \in Verdicts(leave) :
         Clock(go, rs_full, leave, taken, verdict)

(* A halt ends the run (pipeline.sv:186, HALTED_ON_WFI). *)
Halted == system_halt /\ UNCHANGED vars

Next == Cycle \/ Halted

Spec == Init /\ [][Next]_vars

(* Execution and the instruction memory keep moving: a cycle in which memory
   answers the fetch and, if anything is ready, something leaves EX. *)
Progress ==
  /\ ~system_halt
  /\ \E rs_full \in {FALSE, MayBeFull}, leave \in Leaving :
       /\ Ready # {} => leave # {}
       /\ \E taken \in Outcomes(leave), verdict \in Verdicts(leave) :
            Clock(TRUE, rs_full, leave, taken, verdict)

FairSpec == Spec /\ WF_vars(Progress)

-----------------------------------------------------------------------------
(* The registers keep their ranges. *)
RobTypeOK ==
  /\ rob_head \in Slot /\ rob_tail \in Slot /\ rob_cnt \in 0 .. ROB_SIZE
  /\ data \in [Slot -> Rob!Entry]
  /\ retire_tag \in [Slot -> BOOLEAN]

MapTypeOK ==
  /\ rat_tag \in [Map!AReg -> PReg]
  /\ rrat_tag \in [Map!AReg -> PReg]
  /\ preg_ready \in [Map!AReg -> BOOLEAN]

TypeOK ==
  /\ prog \in Programs
  /\ PC_reg \in PC /\ arch_pc \in PC
  /\ id_rn \in [Ways -> [valid : BOOLEAN, pc : PC]]
  /\ RobTypeOK /\ FL!TypeOK /\ MapTypeOK
  /\ rs \in [Slot -> {"none", "wait", "ready"}]
  /\ ex_cm \subseteq [rob_idx : Slot, tag : PReg]
  /\ system_halt \in BOOLEAN

-----------------------------------------------------------------------------
(* The instructions in flight, oldest first, and those that write a register. *)
InFlight == {i \in Slot : data[i].valid}
Writers  == {i \in InFlight : data[i].ins.T_new # 0}
OlderThan(i) == {j \in InFlight : Rob!Age(j) < Rob!Age(i)}

(* The mapping of register a seen behind the writers in W. *)
Mapping(a, W) ==
  LET S == {i \in W \cap Writers : prog[data[i].ins.pc].rd = a}
  IN  IF S = {} THEN rrat_tag[a]
      ELSE data[CHOOSE i \in S : \A j \in S : Rob!Age(j) <= Rob!Age(i)].ins.T_new

(* The reorder buffer has an unfinished instruction that will produce t. *)
Pending(t) == t # 0 /\ \E i \in Writers : data[i].ins.T_new = t /\ ~retire_tag[i]

(* Every physical register but the zero register is in exactly one place: a
   committed mapping, the destination of one instruction in flight, or the free
   list.  There are as many registers as places, so a union that misses none has
   none twice.  The three are updated by freelist.sv, RRAT.sv and circular_buffer.sv
   from conditions that pipeline.sv and rn_stage.sv write out separately. *)
NoRegisterLost ==
  /\ {rrat_tag[a] : a \in 1 .. NUM_ARCH - 1}
       \cup {data[i].ins.T_new : i \in Writers} \cup FL!FreeRegs = PReg \ {0}
  /\ fl_cnt = Cardinality(Writers)

(* The free list keeps, from head on, the destinations of the instructions in
   flight in program order.  On a rollback it forgets all of them by moving one
   pointer (freelist.sv:112-115); that gives back exactly the registers of the
   flushed instructions only because of this order. *)
AllocatedInOrder ==
  \A i \in Writers :
    LET k == Cardinality({j \in OlderThan(i) : j \in Writers})
    IN  fl_table[FL!Wrap(fl_head + k)] = data[i].ins.T_new

(* The RAT maps every register to the destination of its youngest writer in
   flight, and to the committed mapping when there is none: after any sequence of
   two-wide renames, commits and rollbacks. *)
RatCurrent == \A a \in Map!AReg : rat_tag[a] = Mapping(a, InFlight)

(* Every instruction in flight reads the register, and will free the register, of
   the youngest older writer in program order, also when that writer was renamed
   in the same cycle. *)
RenamedInOrder ==
  \A i \in InFlight :
    LET d == prog[data[i].ins.pc]
    IN  /\ d.kind # "halt" => data[i].ins.src = Mapping(d.rs, OlderThan(i))
        /\ i \in Writers => data[i].ins.T_old = Mapping(d.rd, OlderThan(i))

(* Both maps, and what the instructions in flight have read of them, are those of a
   program that is renamed one instruction at a time. *)
MappingsExact == RatCurrent /\ RenamedInOrder

(* An instruction waits in the station, and a mapping is not ready, exactly as
   long as the producer of its register has not been on a completion bus: a
   wakeup is neither lost (the broadcast of the very cycle of the rename, or while
   dispatch stalls) nor early (a register number used a second time). *)
WokenInTime ==
  /\ \A i \in Slot : rs[i] = "wait" <=> rs[i] # "none" /\ Pending(data[i].ins.src)
  /\ \A a \in 1 .. NUM_ARCH - 1 : preg_ready[a] <=> ~Pending(rat_tag[a])

(* A result on its way to the buses belongs to an instruction in flight that has
   not completed, and carries its register; the EX/CM register is not cleared by a
   load rollback (pipeline.sv:754), and what it then still holds meets an empty
   reorder buffer. *)
ResultsLive ==
  \A r \in ex_cm :
    \/ rob_cnt = 0
    \/ /\ data[r.rob_idx].valid /\ data[r.rob_idx].ins.T_new = r.tag
       /\ ~retire_tag[r.rob_idx] /\ rs[r.rob_idx] = "none"

(* Wakeups are exact, and no result of a flushed instruction causes one. *)
WakeupExact == WokenInTime /\ ResultsLive

(* The instructions from the reorder buffer through the rename register to the
   program counter are consecutive: no bundle is lost, repeated or split by a
   stall, a full buffer or a fetch that gets no answer. *)
NextFetched == IF id_rn[0].valid THEN id_rn[0].pc ELSE PC_reg
Consecutive ==
  /\ \A i, j \in InFlight : Rob!Age(j) = Rob!Age(i) + 1 => data[j].ins.pc = Plus(data[i].ins.pc, 1)
  /\ \A i \in InFlight :
       Rob!Age(i) = rob_cnt - 1 => NextFetched = Plus(data[i].ins.pc, 1)
  /\ id_rn[0].valid => PC_reg = Plus(id_rn[0].pc, IF id_rn[1].valid THEN 2 ELSE 1)
  /\ id_rn[1].valid => id_rn[0].valid /\ id_rn[1].pc = Plus(id_rn[0].pc, 1)

(* What is in flight is in program order, in the pipeline and in the free list. *)
ProgramOrder == Consecutive /\ AllocatedInOrder

(* A mispredicted branch alone, or a violating load alone, sends fetch to the
   instruction after the last one committed, drops everything in flight and leaves
   the speculative map equal to the committed one. *)
PreciseRollback ==
  [][rollback =>
       /\ ~(mispredict /\ ld_rollback) /\ ~system_halt' => PC_reg' = arch_pc'
       /\ rat_tag' = rrat_tag' /\ InFlight' = {} /\ fl_cnt' = 0]_vars

(* Instructions commit in program order, each exactly once. *)
InOrder == INSTANCE InOrder WITH pc <- arch_pc, halted <- system_halt
CommitsInProgramOrder == InOrder!Spec

(* A load that read too early is executed again: what commits is always the next
   instruction of the program. *)
PrecisePath == rob_cnt > 0 /\ ~system_halt => first.ins.pc = arch_pc

(* A program that reaches a halt on every path does halt: no instruction waits for
   ever for a register, a slot or a place at the head, whatever the stalls, the
   mispredictions and the rollbacks on the way. *)
Terminates == <>system_halt
=============================================================================
