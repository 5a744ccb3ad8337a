----------------------------- MODULE SeqMemory -----------------------------
(***************************************************************************)
(* What the memory path promises a program: its loads and stores act on    *)
(* one memory, one after the other, in program order, and two of them may  *)
(* act in one step.                                                        *)
(***************************************************************************)
EXTENDS Integers

CONSTANTS NUM_OPS

VARIABLES
  prog,    \* the operations, [kind, addr]
  pc,      \* the next operation to act
  memory,
  reads    \* reads[k]: what load k found; 0 as long as it has not acted

vars == <<prog, pc, memory, reads>>

(* Operation k stores k + 1. *)
Written(m, k) == IF prog[k].kind = "store" THEN [m EXCEPT ![prog[k].addr] = k + 1] ELSE m
Found(r, m, k) == IF prog[k].kind = "load" THEN [r EXCEPT ![k] = m[prog[k].addr]] ELSE r

One ==
  /\ pc < NUM_OPS /\ pc' = pc + 1
  /\ memory' = Written(memory, pc)
  /\ reads' = Found(reads, memory, pc)

Two ==
  /\ pc < NUM_OPS - 1 /\ pc' = pc + 2
  /\ memory' = Written(Written(memory, pc), pc + 1)
  /\ reads' = Found(Found(reads, memory, pc), Written(memory, pc), pc + 1)

Init ==
  /\ pc = 0
  /\ \A a \in DOMAIN memory : memory[a] = 0
  /\ \A k \in DOMAIN reads : reads[k] = 0

Next == (One \/ Two) /\ UNCHANGED prog

Spec == Init /\ [][Next]_vars
=============================================================================
