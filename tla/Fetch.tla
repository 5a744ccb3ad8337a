------------------------------- MODULE Fetch -------------------------------
(***************************************************************************)
(* The fetch side of a pipeline with the instruction cache, as the one in  *)
(* PIPELINE_ASSEMBLE_no_cache: if_stage.sv, the cache, the memory bus that *)
(* loads and stores come first on, and the memory (mem.sv), which takes a  *)
(* request or not and answers after a while, by tag and in any order.      *)
(* Flushes, stalls, predictions and data traffic come at any time.         *)
(***************************************************************************)
EXTENDS Integers

CONSTANTS
  LINES, TAGS,    \* the cache
  BLOCKS,         \* double words of memory, 8192
  NUM_MEM_TAGS,   \* requests the memory can hold, 8
  TightLoops      \* whether a branch may be predicted into its own double word

ASSUME FetchAssumption ==
  /\ LINES \in Nat \ {0} /\ TAGS \in Nat \ {0}
  /\ BLOCKS \in Nat \ {0} /\ NUM_MEM_TAGS \in Nat \ {0} /\ TightLoops \in BOOLEAN

NoData  == -1     \* a line that was never written; a bus that carries nothing
Nothing == -2     \* a tag that is not in use
Load    == -3     \* a tag that belongs to a load

VARIABLES
  PC,             \* the double word that PC_reg is in
  empty,          \* nothing was fetched since the last flush: nothing flushes or stalls
  last, current_mem_tag, miss_outstanding, line,
  waiting         \* what was asked for under each tag of the memory

cacheVars == <<last, current_mem_tag, miss_outstanding, line>>
vars == <<PC, empty, cacheVars, waiting>>

IC == INSTANCE ICache

Block  == 0 .. BLOCKS - 1
MemTag == 1 .. NUM_MEM_TAGS

Icache_valid == IC!Icache_valid_out(PC)

(* What the memory can return in this cycle: a request of an earlier cycle, or nothing.
   Its latency is at least one cycle: with none, the answer would come together with the
   tag, which the cache does not look for. *)
Returns == {0} \union {k \in MemTag : waiting[k] # Nothing}

(* The command on the bus: a load of the memory stage comes before the cache.  A store is
   a load whose tag is not kept. *)
asked(load) == IF load THEN Load ELSE IF IC!proc2Imem_command(PC) THEN PC ELSE Nothing

Responses(load) ==
  {0} \union {k \in MemTag : waiting[k] = Nothing /\ asked(load) # Nothing}

Imem2proc_response(load, response) == IF load THEN 0 ELSE response

Memory(load, response, memtag) ==
  waiting' = [k \in MemTag |-> IF k = response THEN asked(load)
                               ELSE IF k = memtag THEN Nothing ELSE waiting[k]]

(* if_stage.sv: PC_reg moves on a mispredicted branch or a load rollback, and when the
   cache has the double word and nothing stalls.  Without a branch it moves to the next
   double word. *)
Fetches(flush, stall) == ~flush /\ Icache_valid /\ ~stall

NextPC(flush, stall, next) == IF flush \/ Fetches(flush, stall) THEN next ELSE PC

Cycle(flush, stall, next, load, response, memtag) ==
  /\ empty => ~flush /\ ~stall
  /\ Fetches(flush, stall) /\ ~TightLoops => next # PC
  /\ IC!Clock(PC, Imem2proc_response(load, response), memtag,
              IF memtag = 0 THEN NoData ELSE waiting[memtag])
  /\ Memory(load, response, memtag)
  /\ PC' = NextPC(flush, stall, next)
  /\ empty' = (flush \/ (empty /\ ~Fetches(flush, stall)))

(* One cycle: the bus taken by load or not, what the memory responds and returns. *)
Step(load, response, memtag) ==
  \E flush, stall \in BOOLEAN, next \in Block : Cycle(flush, stall, next, load, response, memtag)

Next == \E load \in BOOLEAN, memtag \in Returns :
          \E response \in Responses(load) : Step(load, response, memtag)

Init == PC = 0 /\ empty = TRUE /\ IC!Init /\ waiting = [k \in MemTag |-> Nothing]

Spec == Init /\ [][Next]_vars

(* The clock ticks.  The memory takes a request of the cache if the cache asks again and again: it is not
   full for ever, and the loads in flight do not occupy the bus for ever.  It returns what
   it has taken. *)
Taken == \E response \in MemTag, memtag \in Returns :
           response \in Responses(FALSE) /\ Step(FALSE, response, memtag)

Returned(k) == /\ k \in Returns
               /\ \E load \in BOOLEAN : \E response \in Responses(load) : Step(load, response, k)

FairSpec == Spec /\ WF_vars(Next) /\ SF_vars(Taken) /\ \A k \in MemTag : WF_vars(Returned(k))

-----------------------------------------------------------------------------
(* The type invariant. *)
TypeOK ==
  /\ PC \in Block /\ empty \in BOOLEAN
  /\ last \in 0 .. LINES * TAGS - 1
  /\ current_mem_tag \in 0 .. NUM_MEM_TAGS
  /\ miss_outstanding \in BOOLEAN
  /\ line \in [0 .. LINES - 1 ->
                 [valid : BOOLEAN, tag : 0 .. TAGS - 1, data : Block \union {NoData, Load}]]
  /\ waiting \in [MemTag -> Block \union {Nothing, Load}]

(* icache_controller.sv, at its outputs: what the cache gives out as valid is the memory's
   double word at the address, wherever the address has been in the meantime. *)
ValueIsMemory == \A b \in Block : IC!Icache_valid_out(b) => IC!Icache_data_out(b) = b

(* The tag the cache waits for is one the memory holds for the address of the cycle before,
   never one of a load, of an address that was left, or one used anew. *)
TagIsOwn == TypeOK /\ (current_mem_tag # 0 => waiting[current_mem_tag] = last)

(* An address that is held and is not in the cache is being asked for or waited for. *)
MissPending ==
  IC!Short(PC) = last /\ ~Icache_valid => miss_outstanding \/ current_mem_tag # 0

(* Whichever address fetch comes to stay at, after however many others, the cache has it in
   the end: a miss does not outlive all flushes, refusals of the memory and late answers to
   addresses that were left (icache_controller.sv:41-48). *)
HeldIsFetched == <>[][UNCHANGED PC]_vars => []<>Icache_valid
=============================================================================
