----------------------------- MODULE LoadBuffer -----------------------------
(***************************************************************************)
(* The load buffer, load_buffer.sv: loads that found no store to read from *)
(* wait in a ring for the data memory, which answers the one at head; the  *)
(* answer is held there until way 0 has a completion to spare.             *)
(***************************************************************************)
EXTENDS Integers

CONSTANTS
  LOAD_BUFFER_NUM,   \* places, 32 in load_buffer.sv
  NoLoad             \* what a cleared place holds

VARIABLES buf, head, tail

Idx  == 0 .. LOAD_BUFFER_NUM - 1
Wrap(x) == x % LOAD_BUFFER_NUM

(* The four registers of a place. *)
Empty == [occupied |-> FALSE, valid |-> FALSE, load |-> NoLoad, value |-> 0]

-----------------------------------------------------------------------------
full     == \A i \in Idx : buf[i].occupied
dout     == buf[head]
rd_cache == buf[head].occupied /\ ~buf[head].valid

(* What is written at a place: a single load at tail, whichever way it came from;
   two at tail and behind it. *)
Incoming(wr, din, i) ==
  IF wr[0] /\ wr[1] THEN IF i = tail THEN <<din[0]>> ELSE IF i = Wrap(tail + 1) THEN <<din[1]>> ELSE <<>>
  ELSE IF wr[0] /\ i = tail THEN <<din[0]>>
  ELSE IF wr[1] /\ i = tail THEN <<din[1]>> ELSE <<>>

(* The load at head leaves when rd_en, but in a cycle that writes nothing its
   occupied bit is put back (load_buffer.sv:90), and, when tail is there too, its
   entry (load_buffer.sv:89). *)
NextPlace(wr, din, rd_en, answered, data, i) ==
  LET idle   == ~wr[0] /\ ~wr[1]
      popped == IF ~(rd_en /\ i = head) THEN buf[i]
                ELSE [occupied |-> idle /\ buf[i].occupied, valid |-> FALSE,
                      load |-> IF idle /\ i = tail THEN buf[i].load ELSE NoLoad, value |-> 0]
      new    == Incoming(wr, din, i)
      stored == IF new = <<>> THEN popped
                ELSE [popped EXCEPT !.occupied = TRUE, !.load = new[1]]
  IN  IF answered /\ i = head /\ buf[i].occupied
      THEN [stored EXCEPT !.valid = TRUE, !.value = data] ELSE stored

(* wr, din: the loads written by the two ways; answered, data: the memory. *)
Clock(wr, din, rd_en, answered, data, rollback) ==
  IF rollback
  THEN head' = 0 /\ tail' = 0 /\ buf' = [i \in Idx |-> Empty]
  ELSE /\ head' = IF rd_en THEN Wrap(head + 1) ELSE head
       /\ tail' = Wrap(tail + (IF wr[0] THEN 1 ELSE 0) + (IF wr[1] THEN 1 ELSE 0))
       /\ buf' = [i \in Idx |-> NextPlace(wr, din, rd_en, answered, data, i)]

Init == head = 0 /\ tail = 0 /\ buf = [i \in Idx |-> Empty]
=============================================================================
