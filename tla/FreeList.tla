------------------------------ MODULE FreeList ------------------------------
(***************************************************************************)
(* The free list of physical registers, freelist.sv: a ring in which the   *)
(* slots from tail up to head are free.  Allocating moves tail and leaves  *)
(* the register's number in its slot; freeing writes a number at head.     *)
(* Nothing checks for an empty list (the tests on fl_empty are commented   *)
(* out): that it never runs dry is up to the modules around it.            *)
(***************************************************************************)
EXTENDS Integers

CONSTANTS
  FL_SIZE,   \* slots of the ring (`FL_SIZE = `ROB_SIZE)
  NUM_ARCH   \* architectural registers, 32 in the RTL

VARIABLES fl_table, head, tail, entry_cnt

ZERO_PREG == 0
Slots     == 0 .. FL_SIZE - 1
PReg      == 0 .. NUM_ARCH + FL_SIZE - 1

Wrap(x) == IF x < FL_SIZE THEN x ELSE x - FL_SIZE

-----------------------------------------------------------------------------
(* Mutant: the two ways are offered their registers in the other order. *)
dout_swapped(rd, w) ==
  IF ~rd[w] THEN ZERO_PREG
  ELSE IF w = 0 /\ rd[1] THEN fl_table[Wrap(tail + 1)] ELSE fl_table[tail]

(* The registers offered to the two ways; rd[w]: way w wants one. *)
dout(rd, w) ==
  IF ~rd[w] THEN ZERO_PREG
  ELSE IF w = 1 /\ rd[0] THEN fl_table[Wrap(tail + 1)] ELSE fl_table[tail]

(* Mutant: two in one cycle move pointer and count by one. *)
Number_one(en) == IF en[0] \/ en[1] THEN 1 ELSE 0

Number(en) == (IF en[0] THEN 1 ELSE 0) + (IF en[1] THEN 1 ELSE 0)

(* What the frees of this cycle leave in the ring: the first one at head, the
   second, if both ways free, behind it. *)
Freed(wr, din) ==
  [i \in Slots |->
     IF wr[0] /\ i = head THEN din[0]
     ELSE IF wr[1] /\ ~wr[0] /\ i = head THEN din[1]
     ELSE IF wr[0] /\ wr[1] /\ i = Wrap(head + 1) THEN din[1]
     ELSE fl_table[i]]

(* One rising edge.  On a rollback the pointers meet where head is: whatever the
   ring holds is free again, the registers freed in this very cycle included. *)
Clock(rd, dp_stall, wr, din, rollback_en) ==
  LET n == IF dp_stall THEN 0 ELSE Number(rd)
      r == Number(wr)
  IN  /\ fl_table' = Freed(wr, din)
      /\ IF rollback_en
         THEN head' = head /\ tail' = head /\ entry_cnt' = 0
         ELSE /\ head' = Wrap(head + r)
              /\ tail' = Wrap(tail + n)
              /\ entry_cnt' = entry_cnt + n - r

Init ==
  /\ fl_table = [i \in Slots |-> NUM_ARCH + i]
  /\ head = 0
  /\ tail = 0
  /\ entry_cnt = 0

-----------------------------------------------------------------------------
TypeOK ==
  /\ fl_table \in [Slots -> PReg]
  /\ head \in Slots
  /\ tail \in Slots
  /\ entry_cnt \in 0 .. FL_SIZE

(* The slots that are free, and the registers in them. *)
FreeSlots == {Wrap(tail + k) : k \in 0 .. FL_SIZE - entry_cnt - 1}
FreeRegs  == {fl_table[i] : i \in FreeSlots}
=============================================================================
