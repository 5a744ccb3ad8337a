------------------------------- MODULE MCRob -------------------------------
(* The reorder buffer on a ring of four slots, against the commit queue. *)
EXTENDS RobRefinement

CONSTANTS br, ld   \* the two kinds of instruction the ring treats specially

MCInstr == {br, ld}

Packet(x) == [valid |-> TRUE, ins |-> x, is_branch |-> x = br, rd_mem |-> x = ld]
Nothing   == [valid |-> FALSE]
Both(p, q) == [w \in Ways |-> IF w = 0 THEN p ELSE q]

Empty     == Both(Nothing, Nothing)
Pairs     == {Both(Packet(x), Packet(y)) : <<x, y>> \in {<<br, ld>>, <<ld, br>>}}
Singles   == {Both(Packet(x), Nothing) : x \in MCInstr}

(* An input that is not valid is not looked at, so one such value is enough.
   The two completion buses are alike: the smaller slot is on bus 0, unless bus 0
   is idle. *)
Idle(i) == [valid |-> FALSE, rob_idx |-> i]
Done(i) == [valid |-> TRUE, rob_idx |-> i]
MCCompletions ==
  {Both(Idle(0), Idle(0))}
  \cup {Both(Done(i), Idle(0)) : i \in Idx} \cup {Both(Idle(0), Done(i)) : i \in Idx}
  \cup {Both(Done(p[1]), Done(p[2])) : p \in {q \in Idx \X Idx : q[1] < q[2]}}

NoResult(i) == [branch_done |-> FALSE, rob_idx |-> i, take_branch |-> FALSE]
Result(i, t) == [branch_done |-> TRUE, rob_idx |-> i, take_branch |-> t]
NoVerdict(i) == [done |-> FALSE, ld_rob_idx |-> i, mem_violation |-> FALSE]
Verdict(i, v) == [done |-> TRUE, ld_rob_idx |-> i, mem_violation |-> v]

(* Results for two different slots do not meet; those for one slot do. *)
MCBranches ==
  UNION {{Both(Result(i, t), NoResult(0)), Both(NoResult(0), Result(i, t)),
          Both(Result(i, t), Result(i, ~t))} : i \in Idx, t \in BOOLEAN}
MCStores ==
  UNION {{Both(Verdict(i, v), NoVerdict(0)), Both(NoVerdict(0), Verdict(i, v)),
          Both(Verdict(i, v), Verdict(i, ~v))} : i \in Idx, v \in BOOLEAN}

NoCompletion == Both(Idle(0), Idle(0))
NoBranch     == Both(NoResult(0), NoResult(0))
NoStore      == Both(NoVerdict(0), NoVerdict(0))

In(din, full, cdb, ex, sq) ==
  [din |-> din, rs_full |-> full, cdb |-> cdb, ex |-> ex, sq |-> sq]

(* Completions, branch results and store verdicts are independent of each other
   inside the ring, so a cycle brings one kind. *)
MCInputs ==
  {In(d, FALSE, c, NoBranch, NoStore) : d \in {Empty} \cup Pairs \cup Singles, c \in MCCompletions}
  \cup {In(d, FALSE, NoCompletion, b, NoStore) : d \in {Empty} \cup Pairs, b \in MCBranches}
  \cup {In(d, FALSE, NoCompletion, NoBranch, s) : d \in {Empty} \cup Pairs, s \in MCStores}
  \cup {In(d, TRUE, NoCompletion, NoBranch, NoStore) : d \in Pairs}
=============================================================================
