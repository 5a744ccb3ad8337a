------------------------------- MODULE MCCore -------------------------------
EXTENDS Core

I(k, d, s, t) == [kind |-> k, rd |-> d, rs |-> s, target |-> t]

(* Chains of renames through a free list that goes round twice, a write of a
   register that is read in the same bundle, branches over one instruction and
   into the middle of a double word. *)
Renames == [a \in PC |->
  CASE a = 0 -> I("alu", 1, 2, 0)
    [] a = 1 -> I("alu", 2, 1, 0)
    [] a = 2 -> I("load", 1, 1, 0)
    [] a = 3 -> I("alu", 1, 1, 0)
    [] a = 4 -> I("branch", 0, 1, 7)
    [] a = 5 -> I("alu", 2, 1, 0)
    [] a = 6 -> I("alu", 1, 2, 0)
    [] a = 7 -> I("store", 0, 1, 0)
    [] a = 8 -> I("branch", 2, 0, 11)
    [] a = 9 -> I("alu", 2, 1, 0)
    [] a = 10 -> I("alu", 1, 2, 0)
    [] a = 11 -> I("halt", 0, 0, 0)]

(* A store that may find the load behind it too early, in front of a branch that
   links; a target in the middle of a double word; a second store and load. *)
Memory == [a \in PC |->
  CASE a = 0 -> I("alu", 1, 2, 0)
    [] a = 1 -> I("store", 0, 2, 0)
    [] a = 2 -> I("load", 2, 1, 0)
    [] a = 3 -> I("branch", 2, 0, 5)
    [] a = 4 -> I("alu", 1, 2, 0)
    [] a = 5 -> I("store", 0, 2, 0)
    [] a = 6 -> I("load", 1, 2, 0)
    [] a = 7 -> I("alu", 2, 2, 0)
    [] a >= 8 -> I("halt", 0, 0, 0)]

(* A load of which a branch depends, and loads between stores. *)
Path == [a \in PC |->
  CASE a = 0 -> I("load", 1, 2, 0)
    [] a = 1 -> I("alu", 2, 1, 0)
    [] a = 2 -> I("branch", 1, 2, 5)
    [] a = 3 -> I("store", 0, 1, 0)
    [] a = 4 -> I("load", 2, 1, 0)
    [] a = 5 -> I("store", 0, 2, 0)
    [] a = 6 -> I("load", 1, 0, 0)
    [] a >= 7 -> I("halt", 0, 0, 0)]

MCPrograms == {Renames, Memory, Path}
OnlyMemory == {Memory}

(* The known defect of finding lost_load: fetch goes to the target of a branch that
   retires beside a load to be executed again.  What comes behind is not explored. *)
UntilLost == ~(viol0 /\ misp1)
=============================================================================
