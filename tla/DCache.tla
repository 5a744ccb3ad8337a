------------------------------- MODULE DCache -------------------------------
(***************************************************************************)
(* The data cache of PIPELINE_ASSEMBLE_no_cache: the blocking controller   *)
(* (dcache_controller.sv), which writes stores through to memory at once   *)
(* and fetches a double word for a load that misses, and the sets of       *)
(* dcache_mem.sv with their ages.  Around it: the load that waits at the   *)
(* head of the load buffer, the retired store that is to be written next,  *)
(* the memory of mem.sv with its tags, and the instruction cache, which    *)
(* gets the bus when the data cache does not want it.                      *)
(*                                                                         *)
(* All accesses are of words.  An address is a double word, called block,  *)
(* and which half of it.                                                   *)
(***************************************************************************)
EXTENDS Integers

CONSTANTS
  WAYS,          \* 4 in sys_defs.svh
  SETS,          \* 4
  BLOCKS,        \* double words of memory, numbered from 0
  NUM_MEM_TAGS,  \* 8
  Value,         \* contents of a word, 0 among them
  None           \* no load, or no store

ASSUME DCacheAssumption ==
  /\ WAYS \in Nat /\ WAYS > 1 /\ SETS \in Nat \ {0}
  /\ BLOCKS \in Nat \ {0} /\ NUM_MEM_TAGS \in Nat \ {0} /\ 0 \in Value

VARIABLES
  state, waiting_memtag,  \* of the controller
  line,                   \* validbit, tag and data of each way of each set
  flag_recent,            \* its age: WAYS - 1 is the latest, 0 may be replaced
  memory,                 \* unified_memory
  transaction,            \* what each of the memory's tags is in use for
  load,                   \* the load at the head of the load buffer, if it has no value yet
  store                   \* the first of the retired stores

cacheVars == <<state, waiting_memtag, line, flag_recent>>
vars == <<cacheVars, memory, transaction, load, store>>

Block  == 0 .. BLOCKS - 1
Set    == 0 .. SETS - 1
Way    == 0 .. WAYS - 1
MemTag == 1 .. NUM_MEM_TAGS
Half   == {0, 1}
Double == [Half -> Value]
Zero   == [h \in Half |-> 0]

idx(b) == b % SETS
tag(b) == b \div SETS

Lowest(S)  == CHOOSE x \in S : \A y \in S : x <= y
Highest(S) == CHOOSE x \in S : \A y \in S : y <= x

-----------------------------------------------------------------------------
rd_mem == load # None
wr_mem == store # None

(* pipeline.sv: one address for both, the store's if there is one. *)
addr == IF wr_mem THEN store.block ELSE IF rd_mem THEN load.block ELSE 0

read_hit_entry(b) == {w \in Way : line[idx(b)][w].valid /\ line[idx(b)][w].tag = tag(b)}

(* A load in the idle state, and whether its word is there. *)
rd_en      == state = "DIDLE" /\ rd_mem /\ ~wr_mem
rd_valid_i == rd_en /\ read_hit_entry(addr) # {}

(* Mutant: nothing is fetched into a set that is full. *)
Miss_room == rd_en /\ ~rd_valid_i /\ \E w \in Way : ~line[idx(addr)][w].valid

Miss == rd_en /\ ~rd_valid_i

(* A store is acknowledged at once, whatever the memory responds. *)
wr_valid_o(rollback) == state = "DIDLE" /\ wr_mem /\ ~rollback

(* The tags of the memory come in one bit too few: the highest looks like none. *)
Seen(k) == k % NUM_MEM_TAGS

Arrived(memtag) == state = "DWAIT" /\ Seen(memtag) = waiting_memtag

rd_valid_o(memtag) == rd_valid_i \/ (Arrived(memtag) /\ rd_mem /\ ~wr_mem)

(* What the load is given: a half of the line, or the lower half of what has arrived, as
   offset is only set in the idle state. *)
data2lsq(memtag) ==
  IF state = "DIDLE" THEN line[idx(addr)][Highest(read_hit_entry(addr))].data[load.half]
  ELSE transaction[memtag].data[0]

-----------------------------------------------------------------------------
(* The sets, at an edge with a store, or with a double word from memory. *)

(* Mutant: a line of the same index is taken for a hit. *)
write_hit_entry_valid(b) == {w \in Way : line[idx(b)][w].valid}

write_hit_entry(b) == read_hit_entry(b)

victims(s) == {w \in Way : flag_recent[s][w] = 0}

(* Mutant: the ages of the others stay. *)
Aged_kept(flags, way) == [flags EXCEPT ![way] = WAYS - 1]

(* The way becomes the latest, and the others one older. *)
Aged(flags, way) ==
  [w \in Way |-> IF w = way THEN WAYS - 1 ELSE IF flags[w] = 0 THEN 0 ELSE flags[w] - 1]

Filled(b, data) ==
  LET way == Highest(victims(idx(b)))
  IN  /\ line' = [line EXCEPT ![idx(b)][way] = [valid |-> TRUE, tag |-> tag(b), data |-> data]]
      /\ flag_recent' = [flag_recent EXCEPT ![idx(b)] = Aged(@, way)]

Stored(b, half, value) ==
  LET way == Highest(write_hit_entry(b))
  IN  IF write_hit_entry(b) = {} THEN UNCHANGED <<line, flag_recent>>
      ELSE /\ line' = [line EXCEPT ![idx(b)][way].data[half] = value]
           /\ flag_recent' = IF flag_recent[idx(b)][way] = WAYS - 1 THEN flag_recent
                             ELSE [flag_recent EXCEPT ![idx(b)] = Aged(@, way)]

(* A double word is filled in for the address of the moment; it is zero if that is not a
   load's. *)
Sets(rollback, memtag) ==
  IF wr_valid_o(rollback) THEN Stored(store.block, store.half, store.value)
  ELSE IF Arrived(memtag) /\ ~rollback
    THEN Filled(addr, IF rd_mem /\ ~wr_mem THEN transaction[memtag].data ELSE Zero)
  ELSE UNCHANGED <<line, flag_recent>>

(* The controller. *)
next_state(response, memtag) ==
  CASE state = "DIDLE"    -> IF Miss THEN "DREQUEST" ELSE "DIDLE"
    [] state = "DREQUEST" -> IF Seen(response) # 0 THEN "DWAIT" ELSE "DREQUEST"
    [] state = "DWAIT"    -> IF Arrived(memtag) THEN "DIDLE" ELSE "DWAIT"

(* Mutant: a rollback does not reset it. *)
Controller_kept(rollback, response, memtag) ==
  /\ state' = next_state(response, memtag)
  /\ waiting_memtag' = IF state = "DREQUEST" THEN Seen(response) ELSE waiting_memtag

Controller(rollback, response, memtag) ==
  /\ state' = IF rollback THEN "DIDLE" ELSE next_state(response, memtag)
  /\ waiting_memtag' = IF rollback THEN 0
                       ELSE IF state = "DREQUEST" THEN Seen(response) ELSE waiting_memtag

-----------------------------------------------------------------------------
(* The memory. *)

Free      == [use |-> "free", data |-> Zero]
free_tags == {k \in MemTag : transaction[k] = Free}

(* mem.sv gives out the first tag that is free, and 0 if there is none. *)
accepted(request) == IF request /\ free_tags # {} THEN Lowest(free_tags) ELSE 0

proc2Dmem_command(rollback) ==
  IF wr_valid_o(rollback) THEN "BUS_STORE"
  ELSE IF state = "DREQUEST" THEN "BUS_LOAD" ELSE "BUS_NONE"

(* Whether the instruction cache, which gets the bus if the data cache does not want it,
   has a request. *)
Fetches(rollback) == IF proc2Dmem_command(rollback) = "BUS_NONE" THEN BOOLEAN ELSE {FALSE}

(* What the memory does for the request it takes. *)
Transaction(rollback) ==
  CASE proc2Dmem_command(rollback) = "BUS_STORE" -> [use |-> "store", data |-> Zero]
    [] proc2Dmem_command(rollback) = "BUS_LOAD"  -> [use |-> "load", data |-> memory[addr]]
    [] proc2Dmem_command(rollback) = "BUS_NONE"  -> [use |-> "fetch", data |-> Zero]

(* ended: the tag whose latency is over in this cycle, or 0.  There is one at most, as the
   memory takes one request in a cycle and its latency is constant. *)
Memory(rollback, response, ended) ==
  /\ transaction' = [k \in MemTag |->
                       IF k = response THEN Transaction(rollback)
                       ELSE IF k = ended THEN Free ELSE transaction[k]]
  /\ memory' = IF wr_valid_o(rollback) /\ response # 0
               THEN [memory EXCEPT ![store.block][store.half] = store.value] ELSE memory

(* A tag is put on the bus with what was loaded; that of a store just ends. *)
mem2proc_tag(ended) ==
  IF ended # 0 /\ transaction[ended].use \in {"load", "fetch"} THEN ended ELSE 0

Loads  == [block : Block, half : Half]
Stores == [block : Block, half : Half, value : Value]

(* The buffers: a load leaves with its value or by a rollback, and the next comes at the
   earliest one cycle later; a store leaves when it is acknowledged. *)
Buffers(rollback, memtag) ==
  /\ load' \in IF rollback \/ rd_valid_o(memtag) THEN {None}
               ELSE IF rd_mem THEN {load} ELSE Loads \cup {None}
  /\ store' \in IF wr_mem /\ ~wr_valid_o(rollback) THEN {store} ELSE Stores \cup {None}

(* One cycle. *)
Cycle(rollback, fetch, ended) ==
  LET memtag   == mem2proc_tag(ended)
      Dcache   == proc2Dmem_command(rollback) # "BUS_NONE"
      response == accepted(Dcache \/ fetch)
      Dmem2proc_response == IF Dcache THEN response ELSE 0
  IN  /\ Controller(rollback, Dmem2proc_response, memtag)
      /\ Sets(rollback, memtag)
      /\ Memory(rollback, response, ended)
      /\ Buffers(rollback, memtag)

InUse == {k \in MemTag : transaction[k] # Free}

Next == \E rollback \in BOOLEAN, ended \in {0} \cup InUse : \E fetch \in Fetches(rollback) :
          Cycle(rollback, fetch, ended)

Init ==
  /\ state = "DIDLE" /\ waiting_memtag = 0
  /\ line = [s \in Set |-> [w \in Way |-> [valid |-> FALSE, tag |-> 0, data |-> Zero]]]
  /\ flag_recent = [s \in Set |-> [w \in Way |-> 0]]
  /\ memory = [b \in Block |-> Zero]
  /\ transaction = [k \in MemTag |-> Free]
  /\ load = None /\ store = None

Spec == Init /\ [][Next]_vars

(* The clock ticks, and the memory's latency passes: each tag comes free again. *)
Released(k) == /\ k \in InUse
               /\ \E rollback \in BOOLEAN : \E fetch \in Fetches(rollback) : Cycle(rollback, fetch, k)

FairSpec == Spec /\ WF_vars(Next) /\ \A k \in MemTag : WF_vars(Released(k))

-----------------------------------------------------------------------------
(* The type invariant. *)
TypeOK ==
  /\ state \in {"DIDLE", "DREQUEST", "DWAIT"}
  /\ waiting_memtag \in 0 .. NUM_MEM_TAGS - 1
  /\ line \in [Set -> [Way -> [valid : BOOLEAN, tag : {tag(b) : b \in Block}, data : Double]]]
  /\ flag_recent \in [Set -> [Way -> 0 .. WAYS - 1]]
  /\ memory \in [Block -> Double]
  /\ transaction \in [MemTag -> [use : {"free", "load", "store", "fetch"}, data : Double]]
  /\ load \in Loads \cup {None} /\ store \in Stores \cup {None}

(* Whichever tag the memory may return now, what a load would be given is the memory's
   word: rollbacks may leave requests behind whose tags are given out again, and lines
   and memory are written by the same stores at the same time. *)
LoadsFresh ==
  \A ended \in {0} \cup InUse :
    LET memtag == mem2proc_tag(ended)
    IN  rd_valid_o(memtag) => data2lsq(memtag) = memory[load.block][load.half]

(* A valid line is the memory's double word, and no double word has two lines, of which a
   store would only find one. *)
LinesExact ==
  /\ TypeOK
  /\ \A b \in Block : \A w \in read_hit_entry(b) :
       line[idx(b)][w].data = memory[b] /\ read_hit_entry(b) = {w}

(* No two ways have the same age, unless they may both be replaced. *)
AgesDistinct ==
  \A s \in Set : \A v, w \in Way :
    v # w /\ flag_recent[s][v] = flag_recent[s][w] => flag_recent[s][v] = 0

(* dcache_mem.sv:143 looks for a way of age 0 and has no answer if there is none; there
   always is. *)
VictimExists == \A s \in Set : victims(s) # {}

(* A load gets its value in the end, unless it is flushed, once there are no more stores. *)
LoadAnswered == <>[](store = None) => (load # None ~> load = None)
=============================================================================
