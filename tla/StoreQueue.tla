----------------------------- MODULE StoreQueue -----------------------------
(***************************************************************************)
(* The store queue, module SQ of LSQ.sv, without the retire buffer inside  *)
(* it: a ring that takes a place for every store at dispatch, is filled    *)
(* when the store executes, and is searched by every load that executes.   *)
(* A store is given the index one behind its own place; a load is given    *)
(* the index of the next place.                                            *)
(***************************************************************************)
EXTENDS Integers, FiniteSets

CONSTANTS
  LSQ_SIZE,   \* places (`LSQ_SIZE, 8 in sys_defs.svh)
  Addr, Value

VARIABLES sq, head, tail

Idx  == 0 .. LSQ_SIZE - 1
Ways == {0, 1}

(* LSQ_SIZE is a power of two and the indices are LSQ_IDX_WIDTH bits wide. *)
Wrap(x) == x % LSQ_SIZE

Entry == [valid : BOOLEAN, addr : Addr, value : Value]
Reset == [valid |-> FALSE, addr |-> 0, value |-> 0]

(* How many of the ways up to w are enabled. *)
Upto(en, w) == Cardinality({v \in Ways : v <= w /\ en[v]})

-----------------------------------------------------------------------------
(* The index given to way w of a bundle whose stores are those of wr. *)
SQ_idx(wr, w) == Wrap(tail + Upto(wr, w))

(* The places a load may be forwarded from, counted from its index on: those
   behind head, that is before the load, that hold its address. *)
Older(ld) ==
  {j \in Idx : /\ j > Wrap(LSQ_SIZE - 1 - ld.SQ_idx + head)
               /\ LET e == sq[Wrap(ld.SQ_idx + j)] IN e.valid /\ e.addr = ld.addr}

(* Mutant: the oldest of the stores found instead of the youngest. *)
Nearest_first(ld) == CHOOSE j \in Older(ld) : \A k \in Older(ld) : j <= k

Nearest(ld) == CHOOSE j \in Older(ld) : \A k \in Older(ld) : j >= k

st_hit(ld)   == Older(ld) # {}
st_value(ld) == sq[Wrap(ld.SQ_idx + Nearest(ld))].value

-----------------------------------------------------------------------------
(* One place after the edge: emptied for a store that is dispatched, and filled by
   one that executes; the execution of way 1 is the last to be written. *)
NextEntry(wr, st, i) ==
  LET Executes(w) == st[w].done /\ Wrap(st[w].SQ_idx - 1) = i
      Filled(w)   == [valid |-> TRUE, addr |-> st[w].addr, value |-> st[w].value]
  IN  IF Executes(1) THEN Filled(1)
      ELSE IF Executes(0) THEN Filled(0)
      ELSE IF \E k \in 0 .. Upto(wr, 1) - 1 : i = Wrap(tail + k) THEN Reset
      ELSE sq[i]

(* The places that go to the retire buffer, oldest first: way 1 alone takes head. *)
Retired(retire) == [k \in 1 .. Upto(retire, 1) |-> sq[Wrap(head + k - 1)]]

(* wr: the stores dispatched; st: those executing; retire: those retiring. *)
Clock(wr, st, retire, rollback) ==
  IF rollback
  THEN head' = 0 /\ tail' = 0 /\ sq' = [i \in Idx |-> Reset]
  ELSE /\ head' = Wrap(head + Upto(retire, 1))
       /\ tail' = Wrap(tail + Upto(wr, 1))
       /\ sq' = [i \in Idx |-> NextEntry(wr, st, i)]

Init == head = 0 /\ tail = 0 /\ sq = [i \in Idx |-> Reset]

TypeOK == head \in Idx /\ tail \in Idx /\ sq \in [Idx -> Entry]
=============================================================================
