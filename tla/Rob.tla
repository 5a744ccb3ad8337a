-------------------------------- MODULE Rob --------------------------------
(***************************************************************************)
(* The reorder buffer: rob.sv and the ring it wraps, circular_buffer.sv.   *)
(*                                                                         *)
(* The registers of the ring are the variables; everything the Verilog     *)
(* derives combinationally from them and from the inputs of the cycle is   *)
(* an operator.  Clock is one rising edge, Flush is the edge on which the  *)
(* stage is held in reset, which pipeline.sv does on a misprediction or a  *)
(* load rollback (pipeline.sv:576).                                        *)
(***************************************************************************)
EXTENDS Integers

CONSTANTS
  ROB_SIZE,   \* number of slots (`ROB_SIZE, 32 in sys_defs.svh)
  Instr,      \* what a slot holds of an instruction that the ring never looks at
  Inputs      \* the inputs the surrounding stages can present in one cycle

ASSUME RobAssumption == ROB_SIZE \in Nat /\ ROB_SIZE >= 2

VARIABLES
  head,        \* slot of the oldest instruction
  tail,        \* next slot to fill
  data,        \* the slots
  retire_tag,  \* retire_tag[i]: the instruction in slot i has completed
  entry_cnt    \* number of filled slots

vars == <<head, tail, data, retire_tag, entry_cnt>>

Idx  == 0 .. ROB_SIZE - 1
Ways == {0, 1}

(* Pointers are CB_IDX_WIDTH bits wide and CB_SIZE is a power of two, so an
   addition of at most two wraps at most once. *)
Wrap(x) == IF x < ROB_SIZE THEN x ELSE x - ROB_SIZE
head_p1 == Wrap(head + 1)
tail_p1 == Wrap(tail + 1)

-----------------------------------------------------------------------------
(* What a slot holds.  The cleared slot of the Verilog is all zeroes: it is
   not valid, and no branch and no load. *)
Entry ==
  [valid : BOOLEAN, ins : Instr, is_branch : BOOLEAN, rd_mem : BOOLEAN,
   ex_take_branch : BOOLEAN, rd_mem_violation : BOOLEAN]
  \cup [valid : {FALSE}]

Zero == [valid |-> FALSE]

Filled(p) ==
  [valid |-> TRUE, ins |-> p.ins, is_branch |-> p.is_branch, rd_mem |-> p.rd_mem,
   ex_take_branch |-> FALSE, rd_mem_violation |-> FALSE]

(* The inputs of one cycle: the two packets from rename, the two completion
   buses, the two branch results from EX, the two stores' violation results.
   Fetch never leaves the first way empty and fills the second
   (if_stage.sv:75-76), and the two ways advance together; only an illegal
   instruction, whose valid bit the decoder clears (id_stage.sv:50), makes such a
   bundle, and the ring is not up to it: that case is Core's.  The rest is free. *)
Dispatched  == {[valid |-> FALSE]}
               \cup [valid : {TRUE}, ins : Instr, is_branch : BOOLEAN, rd_mem : BOOLEAN]
Completions == [valid : BOOLEAN, rob_idx : Idx]
BranchDone  == [branch_done : BOOLEAN, rob_idx : Idx, take_branch : BOOLEAN]
StoreDone   == [done : BOOLEAN, ld_rob_idx : Idx, mem_violation : BOOLEAN]

IsInput(in) ==
  /\ in.din \in [Ways -> Dispatched] /\ (in.din[1].valid => in.din[0].valid)
  /\ in.rs_full \in BOOLEAN
  /\ \A w \in Ways :   \* a bus also has the register, which the ring does not look at
       [valid |-> in.cdb[w].valid, rob_idx |-> in.cdb[w].rob_idx] \in Completions
  /\ in.ex \in [Ways -> BranchDone]
  /\ in.sq \in [Ways -> StoreDone]

ASSUME InputsAssumption == \A in \in Inputs : IsInput(in)

-----------------------------------------------------------------------------
(* Combinational outputs. *)
(* Mutant: full is seen one instruction too late. *)
cb_full_late == entry_cnt = ROB_SIZE + 1

cb_full        == entry_cnt = ROB_SIZE
cb_almost_full == entry_cnt = ROB_SIZE - 1

(* Mutant: a completion counts for an empty slot as well. *)
CompletesNow_unchecked(cdb, i) == \E w \in Ways : cdb[w].valid /\ cdb[w].rob_idx = i

CompletesNow(cdb, i) ==
  data[i].valid /\ \E w \in Ways : cdb[w].valid /\ cdb[w].rob_idx = i

Completed(cdb, i) == retire_tag[i] \/ CompletesNow(cdb, i)

head_retire_rdy(cdb)    == Completed(cdb, head)
head_p1_retire_rdy(cdb) == Completed(cdb, head) /\ Completed(cdb, head_p1)

dp_en1(din, stall) == din[0].valid /\ ~stall /\ ~cb_full
dp_en2(din, stall) == din[1].valid /\ ~stall /\ ~cb_almost_full
reti_en1(cdb) == head_retire_rdy(cdb) /\ entry_cnt # 0
reti_en2(cdb) == head_p1_retire_rdy(cdb) /\ entry_cnt # 1

(* How far the pointers move.  The case statement lists the combinations in
   which the second enable comes with the first; its default moves nothing. *)
Listed(din, stall, cdb) ==
  /\ dp_en2(din, stall) => dp_en1(din, stall)
  /\ reti_en2(cdb) => reti_en1(cdb)

Count(first, second) == IF second THEN 2 ELSE IF first THEN 1 ELSE 0

Dispatches(din, stall, cdb) ==
  IF Listed(din, stall, cdb)
  THEN Count(dp_en1(din, stall), dp_en2(din, stall)) ELSE 0

Retires(din, stall, cdb) ==
  IF Listed(din, stall, cdb) THEN Count(reti_en1(cdb), reti_en2(cdb)) ELSE 0

-----------------------------------------------------------------------------
(* A result written into a slot: the second way's write is the later one. *)
WithBranchResult(e, i, ex) ==
  LET Hits(w) == ex[w].branch_done /\ ex[w].rob_idx = i /\ data[i].valid /\ data[i].is_branch
  IN  CASE Hits(1) -> [e EXCEPT !.ex_take_branch = ex[1].take_branch]
        [] Hits(0) /\ ~Hits(1) -> [e EXCEPT !.ex_take_branch = ex[0].take_branch]
        [] OTHER -> e

WithViolation(e, i, sq) ==
  LET Hits(w) == sq[w].done /\ sq[w].ld_rob_idx = i /\ data[i].valid /\ data[i].rd_mem
  IN  CASE Hits(1) -> [e EXCEPT !.rd_mem_violation = sq[1].mem_violation]
        [] Hits(0) /\ ~Hits(1) -> [e EXCEPT !.rd_mem_violation = sq[0].mem_violation]
        [] OTHER -> e

(* Mutant: of two instructions that retire together only the first is cleared. *)
Popped_first_only(cdb, i) == reti_en1(cdb) /\ i = head

Popped(cdb, i) ==
  reti_en1(cdb) /\ (i = head \/ (reti_en2(cdb) /\ i = head_p1))

NextSlot(din, stall, cdb, ex, sq, i) ==
  LET n == Dispatches(din, stall, cdb)
  IN  IF Popped(cdb, i) THEN Zero
      ELSE IF n >= 1 /\ i = tail THEN Filled(din[0])
      ELSE IF n = 2 /\ i = tail_p1 THEN Filled(din[1])
      ELSE WithViolation(WithBranchResult(data[i], i, ex), i, sq)

(* Mutant: a completion that cannot retire at once is forgotten. *)
NextRetireTag_forgets(cdb, i) ==
  CompletesNow(cdb, i) /\ i # head /\ ~(head_p1_retire_rdy(cdb) /\ i = head_p1)

(* A completed instruction is remembered until it is at the head (or just
   behind a head that is ready too), and then leaves. *)
NextRetireTag(cdb, i) ==
  /\ Completed(cdb, i)
  /\ ~(head_retire_rdy(cdb) /\ i = head)
  /\ ~(head_p1_retire_rdy(cdb) /\ i = head_p1)

Clock(din, stall, cdb, ex, sq) ==
  LET n == Dispatches(din, stall, cdb)
      r == Retires(din, stall, cdb)
  IN  /\ head' = Wrap(head + r)
      /\ tail' = Wrap(tail + n)
      /\ entry_cnt' = entry_cnt + n - r
      /\ data' = [i \in Idx |-> NextSlot(din, stall, cdb, ex, sq, i)]
      /\ retire_tag' = [i \in Idx |-> NextRetireTag(cdb, i)]

Init ==
  /\ head = 0
  /\ tail = 0
  /\ entry_cnt = 0
  /\ data = [i \in Idx |-> Zero]
  /\ retire_tag = [i \in Idx |-> FALSE]

Flush ==
  /\ head' = 0
  /\ tail' = 0
  /\ entry_cnt' = 0
  /\ data' = [i \in Idx |-> Zero]
  /\ retire_tag' = [i \in Idx |-> FALSE]

(* Dispatch stalls on a full reservation station, and, in pipeline.sv:548, on a
   ring with fewer than two free slots.  The ring needs it: on its own, a full
   ring accepts the second packet of a bundle without the first. *)
dp_stall(rs_full) == rs_full \/ cb_full \/ cb_almost_full

Cycle ==
  \E in \in Inputs : Clock(in.din, dp_stall(in.rs_full), in.cdb, in.ex, in.sq)

Next == Cycle \/ Flush

Spec == Init /\ [][Next]_vars

-----------------------------------------------------------------------------
(* The registers keep their ranges. *)
TypeOK ==
  /\ head \in Idx
  /\ tail \in Idx
  /\ entry_cnt \in 0 .. ROB_SIZE
  /\ data \in [Idx -> Entry]
  /\ retire_tag \in [Idx -> BOOLEAN]

(* How many slots after head slot i comes. *)
Age(i) == IF i >= head THEN i - head ELSE i - head + ROB_SIZE

(* circular_buffer.sv keeps the fill count beside the two pointers and takes
   "full" and "empty" from the count alone: the count is the distance from head
   to tail, and exactly the slots of that window are valid, so a dispatch never
   lands on an instruction in flight and a retirement never pops an empty slot. *)
WindowExact ==
  /\ tail = Wrap(head + entry_cnt)
  /\ \A i \in Idx : data[i].valid <=> Age(i) < entry_cnt

(* A completion is remembered only for a slot in flight (the indicator of
   circular_buffer.sv:194 asks for data[i].valid): a stale completion bus can
   never make the next instruction to use that slot look complete. *)
NoStaleCompletion == \A i \in Idx : retire_tag[i] => data[i].valid

RingInv == TypeOK /\ WindowExact /\ NoStaleCompletion
=============================================================================
