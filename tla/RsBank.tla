------------------------------- MODULE RsBank -------------------------------
(***************************************************************************)
(* One bank of the reservation station, rs_bank.sv: entries wait for their *)
(* two operands, and of those that have both one is issued in a cycle.     *)
(* Every choice in the bank is made by the priority selector ps, which     *)
(* grants the highest request, so a newcomer may be put above, and chosen  *)
(* before, what has waited longer.                                         *)
(***************************************************************************)
EXTENDS Integers, FiniteSets, FiniteSetsExt

CONSTANTS
  NUM_RS_ENTRIES,   \* entries of a bank, 8 in sys_defs.svh
  NoOp              \* what an entry holds after reset

VARIABLE entry      \* the entries: busy, what waits, and its two ready bits

Free == [busy |-> FALSE, op |-> NoOp, prega_ready |-> FALSE, pregb_ready |-> FALSE]

Index   == 0 .. NUM_RS_ENTRIES - 1
Classes == {"alu", "store", "load", "mult", "branch"}

(* The priority selector: the highest request, if there is one. *)
ps(req) == IF req = {} THEN {} ELSE {Max(req)}

Busy    == {i \in Index : entry[i].busy}
rs_full == Busy = Index

-----------------------------------------------------------------------------
(* A ready bit together with the completion buses of this cycle. *)
Heard(ready, preg, cdb) == ready \/ \E w \in {0, 1} : cdb[w].valid /\ cdb[w].tag = preg

preg_ready(i, cdb) ==
  /\ entry[i].busy
  /\ Heard(entry[i].prega_ready, entry[i].op.prega, cdb)
  /\ Heard(entry[i].pregb_ready, entry[i].op.pregb, cdb)

(* One selector for each class, loads only when the other bank issues no store,
   and one over what these have chosen. *)
entry_sel(cdb, ld_issue_stall) ==
  UNION {ps({i \in Index : entry[i].op.class = c /\ preg_ready(i, cdb)}) :
           c \in Classes \ (IF ld_issue_stall THEN {"load"} ELSE {})}

entry_issue(cdb, is_stall, ld_issue_stall) ==
  IF is_stall THEN {} ELSE ps(entry_sel(cdb, ld_issue_stall))

(* What goes to the port of the way; idle without a choice. *)
issued(cdb, is_stall, ld_issue_stall, idle) ==
  LET S == entry_issue(cdb, is_stall, ld_issue_stall)
  IN  IF S = {} THEN idle ELSE entry[CHOOSE i \in S : TRUE].op

(* The other bank holds its loads back while this one issues a store. *)
ld_issue_stall_o(cdb, is_stall, ld_issue_stall) ==
  \E i \in entry_issue(cdb, is_stall, ld_issue_stall) : entry[i].op.class = "store"

-----------------------------------------------------------------------------
(* Mutant: an entry listens to the first completion bus only. *)
Waiting_deaf(e, cdb) ==
  [e EXCEPT !.prega_ready = @ \/ (cdb[0].valid /\ cdb[0].tag = e.op.prega),
            !.pregb_ready = @ \/ (cdb[0].valid /\ cdb[0].tag = e.op.pregb)]

(* A waiting entry remembers what it has heard. *)
Waiting(e, cdb) ==
  [e EXCEPT !.prega_ready = Heard(@, e.op.prega, cdb),
            !.pregb_ready = Heard(@, e.op.pregb, cdb)]

(* The entries after an edge.  packet: what is dispatched to this bank, with the
   ready bits of its operands.  An entry that is left is cleared here; the RTL
   clears its busy bit, and looks at nothing else of it. *)
NextEntry(enable, packet, cdb, is_stall, ld_issue_stall) ==
  LET new  == IF enable THEN ps(Index \ Busy) ELSE {}
      gone == entry_issue(cdb, is_stall, ld_issue_stall)
  IN  [i \in Index |->
        IF i \in new
        THEN [busy |-> TRUE, op |-> packet.op,
              prega_ready |-> packet.prega_ready, pregb_ready |-> packet.pregb_ready]
        ELSE IF ~entry[i].busy \/ i \in gone THEN Free ELSE Waiting(entry[i], cdb)]

Reset == [i \in Index |-> Free]
=============================================================================
