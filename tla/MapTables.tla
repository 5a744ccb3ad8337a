----------------------------- MODULE MapTables -----------------------------
(***************************************************************************)
(* The two map tables: the speculative one that rename reads and writes    *)
(* (RAT.sv), and the retirement one, written as instructions commit        *)
(* (RRAT.sv), from which a rollback restores the first (maptables.sv).     *)
(***************************************************************************)
EXTENDS Integers

CONSTANTS NUM_ARCH

VARIABLES
  rat_tag,     \* RAT: physical register an architectural register is mapped to
  preg_ready,  \* RAT: its value has been produced
  rrat_tag     \* RRAT: the committed mapping

ZERO_REG == 0
AReg     == 0 .. NUM_ARCH - 1
Ways     == {0, 1}

(* Mutant: only the first bus is looked at. *)
Broadcast_first(cdb, t) == cdb[0].valid /\ cdb[0].tag = t

(* Tag t is on a completion bus in this cycle. *)
Broadcast(cdb, t) == \E w \in Ways : cdb[w].valid /\ cdb[w].tag = t

-----------------------------------------------------------------------------
(* Mutant: a source without the broadcast of the same cycle. *)
Source_unwoken(wr, cdb, w, addr) ==
  IF addr = ZERO_REG THEN [tag |-> 0, ready |-> TRUE]
  ELSE IF w = 1 /\ wr[0].en /\ addr = wr[0].addr THEN [tag |-> wr[0].tag, ready |-> FALSE]
  ELSE [tag |-> rat_tag[addr], ready |-> preg_ready[addr]]

(* Ports of RAT.sv.  wr[w] = [en, addr, tag] is the rename of way w, a source of
   way w is read at addr.  The test on register zero uses the enable of way 0 for
   every port. *)
T_old(wr, w) ==
  IF w = 1 /\ wr[0].addr = wr[1].addr THEN wr[0].tag ELSE rat_tag[wr[w].addr]

Source(wr, cdb, w, addr) ==
  LET raw == IF wr[0].en /\ addr = ZERO_REG THEN [tag |-> 0, ready |-> TRUE]
             ELSE IF w = 1 /\ wr[0].en /\ addr = wr[0].addr
                  THEN [tag |-> wr[0].tag, ready |-> FALSE]
             ELSE [tag |-> rat_tag[addr], ready |-> preg_ready[addr]]
  IN  [tag |-> raw.tag, ready |-> raw.ready \/ Broadcast(cdb, raw.tag)]

-----------------------------------------------------------------------------
(* The committed map after this cycle's commits com[w] = [en, addr, tag]; the
   second way writes last. *)
Committed(com) ==
  [a \in AReg |->
     IF com[1].en /\ com[1].addr = a THEN com[1].tag
     ELSE IF com[0].en /\ com[0].addr = a THEN com[0].tag
     ELSE rrat_tag[a]]

(* The copy RRAT.sv hands the RAT on a rollback lets way 0 win; RAT.sv overrides
   it with the commits of the cycle, way 1 first. *)
RratCopy(com) ==
  [a \in AReg |->
     IF com[0].en /\ com[0].addr = a THEN com[0].tag
     ELSE IF com[1].en /\ com[1].addr = a THEN com[1].tag
     ELSE rrat_tag[a]]

(* Mutant: the copy is taken as it is. *)
Restored_copy(com) == RratCopy(com)

Restored(com) ==
  [a \in AReg |->
     IF com[1].en /\ com[1].addr = a THEN com[1].tag
     ELSE IF com[0].en /\ com[0].addr = a THEN com[0].tag
     ELSE RratCopy(com)[a]]

(* One rising edge. *)
Clock(wr, stall, rollback, cdb, com) ==
  LET Written(w, a) == wr[w].en /\ wr[w].addr = a /\ ~stall
      Woken(a)      == preg_ready[a] \/ Broadcast(cdb, rat_tag[a])
  IN  /\ rrat_tag' = Committed(com)
      /\ IF rollback
         THEN /\ rat_tag' = Restored(com)
              /\ preg_ready' = [a \in AReg |-> TRUE]
         ELSE /\ rat_tag' = [a \in AReg |->
                               IF Written(1, a) THEN wr[1].tag
                               ELSE IF Written(0, a) THEN wr[0].tag ELSE rat_tag[a]]
              /\ preg_ready' = [a \in AReg |-> ~Written(0, a) /\ ~Written(1, a) /\ Woken(a)]

Init ==
  /\ rat_tag = [a \in AReg |-> a]
  /\ rrat_tag = [a \in AReg |-> a]
  /\ preg_ready = [a \in AReg |-> TRUE]
=============================================================================
