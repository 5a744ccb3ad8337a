---------------------------- MODULE CommitQueue ----------------------------
(***************************************************************************)
(* What the reorder buffer promises the rest of the core: a queue of the   *)
(* instructions in program order, from whose front the completed ones, and *)
(* only those, leave at once, at most two per cycle.                       *)
(***************************************************************************)
EXTENDS Integers, Sequences

CONSTANTS
  CAPACITY,   \* instructions in flight at most
  Instr

VARIABLE queue

Item == [ins : Instr, is_branch : BOOLEAN, rd_mem : BOOLEAN,
         taken : BOOLEAN, violated : BOOLEAN, done : BOOLEAN]

Fresh(x) == x \in Item /\ ~x.taken /\ ~x.violated /\ ~x.done

(* What one cycle may do to an instruction that stays: complete it, and give a
   branch its direction or a load its verdict; everything else it keeps. *)
Progress(x, y) ==
  /\ y.ins = x.ins /\ y.is_branch = x.is_branch /\ y.rd_mem = x.rd_mem
  /\ x.done => y.done
  /\ y.taken # x.taken => x.is_branch
  /\ y.violated # x.violated => x.rd_mem

(* The positions that complete in a cycle in which the first n leave. *)
CompleteNow(n) ==
  {k \in 1 .. Len(queue) : ~queue[k].done /\ (k <= n \/ queue'[k - n].done)}

(* n instructions leave and m enter. *)
Cycle(n, m) ==
  /\ n <= Len(queue)
  /\ Len(queue) + m <= CAPACITY
  /\ Len(queue') = Len(queue) - n + m
  /\ \A k \in n + 1 .. Len(queue) : Progress(queue[k], queue'[k - n])
  /\ \A k \in Len(queue) - n + 1 .. Len(queue') : Fresh(queue'[k])
  /\ \A i, j, k \in CompleteNow(n) : i = j \/ j = k \/ i = k   \* two at most
  /\ n < 2 /\ n < Len(queue) => ~queue'[1].done

Init == queue = <<>>
Next == queue' = <<>> \/ \E n, m \in 0 .. 2 : Cycle(n, m)
Spec == Init /\ [][Next]_queue
=============================================================================
