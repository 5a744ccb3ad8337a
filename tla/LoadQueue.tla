----------------------------- MODULE LoadQueue ------------------------------
(***************************************************************************)
(* The load queue, module LQ of LSQ.sv: a ring that takes a place for      *)
(* every load at dispatch, keeps the address of the load once it executes, *)
(* and is searched by every store that executes for a younger load that    *)
(* went ahead of it.                                                       *)
(***************************************************************************)
EXTENDS Integers, FiniteSets

CONSTANTS LSQ_SIZE, Addr,
          Rob_idx   \* slots of the reorder buffer

VARIABLES lq, head, tail

Idx  == 0 .. LSQ_SIZE - 1
Ways == {0, 1}
Wrap(x) == x % LSQ_SIZE

Entry == [valid : BOOLEAN, addr : Addr, rob_idx : Rob_idx]
Reset == [valid |-> FALSE, addr |-> 0, rob_idx |-> 0]

Upto(en, w) == Cardinality({v \in Ways : v <= w /\ en[v]})

-----------------------------------------------------------------------------
LQ_idx(rd, w) == Wrap(tail + Upto(rd, w))

(* Mutant: only a load right behind the store is looked at. *)
Younger_next(st) ==
  {j \in {0} : /\ j < Wrap(tail - st.LQ_idx)
               /\ LET e == lq[Wrap(st.LQ_idx + j)] IN e.valid /\ e.addr = st.addr}

(* The loads younger than a store that have executed with its address. *)
Younger(st) ==
  {j \in Idx : /\ j < Wrap(tail - st.LQ_idx)
               /\ LET e == lq[Wrap(st.LQ_idx + j)] IN e.valid /\ e.addr = st.addr}

ld_hit(st) == Younger(st) # {}
ld_idx(st) == IF ld_hit(st) THEN CHOOSE j \in Younger(st) : \A k \in Younger(st) : j <= k ELSE 0

(* What the store reports: without a hit it still names the load in its place. *)
Verdict(st) ==
  [done |-> st.done, ld_rob_idx |-> lq[Wrap(st.LQ_idx + ld_idx(st))].rob_idx,
   mem_violation |-> ld_hit(st)]

-----------------------------------------------------------------------------
(* One place after the edge; a dispatch is written after an execution. *)
NextEntry(rd, rob_idx, ld, i) ==
  LET Executes(w)  == ld[w].done /\ Wrap(ld[w].LQ_idx - 1) = i
      Allocated(w) == rd[w] /\ Wrap(LQ_idx(rd, w) - 1) = i
      Known(w)     == [lq[i] EXCEPT !.valid = TRUE, !.addr = ld[w].addr]
  IN  IF Allocated(1) THEN [Reset EXCEPT !.rob_idx = rob_idx[1]]
      ELSE IF Allocated(0) THEN [Reset EXCEPT !.rob_idx = rob_idx[0]]
      ELSE IF Executes(1) THEN Known(1)
      ELSE IF Executes(0) THEN Known(0) ELSE lq[i]

Clock(rd, rob_idx, ld, retire, rollback) ==
  IF rollback
  THEN head' = 0 /\ tail' = 0 /\ lq' = [i \in Idx |-> Reset]
  ELSE /\ head' = Wrap(head + Upto(retire, 1))
       /\ tail' = Wrap(tail + Upto(rd, 1))
       /\ lq' = [i \in Idx |-> NextEntry(rd, rob_idx, ld, i)]

Init == head = 0 /\ tail = 0 /\ lq = [i \in Idx |-> Reset]

TypeOK == head \in Idx /\ tail \in Idx /\ lq \in [Idx -> Entry]
=============================================================================
