------------------------------ MODULE InOrder ------------------------------
(***************************************************************************)
(* What the core promises a program: its instructions take effect one      *)
(* after the other along the program's own control flow, at most two per   *)
(* cycle, until a halt.                                                    *)
(***************************************************************************)
EXTENDS Integers

CONSTANTS NUM_PC

VARIABLES
  prog,    \* instruction memory
  pc,      \* the next instruction to take effect
  halted

vars == <<prog, pc, halted>>

(* Where control may go from the instruction at address a. *)
Succ(a) ==
  {(a + 1) % NUM_PC} \cup (IF prog[a].kind = "branch" THEN {prog[a].target} ELSE {})

(* A halt stops the program once it takes effect. *)
Stops(a) == prog[a].kind = "halt"

One == pc' \in Succ(pc)
Two == ~Stops(pc) /\ \E a \in Succ(pc) : a = (pc + 1) % NUM_PC /\ pc' \in Succ(a)

Step ==
  /\ ~halted /\ UNCHANGED prog
  /\ \/ One /\ halted' = Stops(pc)
     \/ Two /\ halted' = Stops((pc + 1) % NUM_PC)

Init == pc = 0 /\ halted = FALSE
Next == Step
Spec == Init /\ [][Next]_vars
=============================================================================
