--------------------------- MODULE RobRefinement ---------------------------
(***************************************************************************)
(* The reorder buffer as the commit queue that it implements.              *)
(***************************************************************************)
EXTENDS Rob, Sequences

(* The queue the ring stands for. *)
InFlight ==
  [k \in 1 .. entry_cnt |->
     LET i == Wrap(head + k - 1)
     IN  [ins |-> data[i].ins, is_branch |-> data[i].is_branch, rd_mem |-> data[i].rd_mem,
          taken |-> data[i].ex_take_branch, violated |-> data[i].rd_mem_violation,
          done |-> retire_tag[i]]]

Abstract == INSTANCE CommitQueue WITH CAPACITY <- ROB_SIZE, queue <- InFlight

(* rob.sv implements the commit queue: instructions leave in the order they
   came, each exactly once and only when completed, no completion and no branch
   or load verdict is lost or lands on another instruction, and none waits once
   the front is complete. *)
ImplementsCommitQueue == Abstract!Spec
=============================================================================
