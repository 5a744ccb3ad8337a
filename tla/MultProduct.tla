---------------------------- MODULE MultProduct ----------------------------
(***************************************************************************)
(* What the multiplier computes: the operands extended by mult_top.sv, the *)
(* stages of mult_stage.sv that each take a piece of the multiplier, and   *)
(* the half of the product that the function asks for.  MultTop has the    *)
(* time this takes.                                                        *)
(***************************************************************************)
EXTENDS Integers, SequencesExt

CONSTANTS
  XLEN,     \* bits of a register, 32
  STAGES,   \* stages of mult.sv, 8
  CHUNK     \* bits of the multiplier a stage takes, 8

ASSUME MultAssumption ==
  /\ XLEN \in Nat \ {0} /\ STAGES \in Nat \ {0} /\ CHUNK \in Nat \ {0}
  /\ STAGES * CHUNK = 2 * XLEN

Functions == {"MUL", "MULH", "MULHSU", "MULHU"}
Registers == 0 .. 2^XLEN - 1
Wide      == 2^(2 * XLEN)

(* The signs for mcand, which is rs1, and mplier, which is rs2. *)
mcandSigned(f)  == f \in {"MUL", "MULH"}
mplierSigned(f) == f \in {"MUL", "MULH", "MULHSU"}

(* Mutant: the sign bit is not copied upwards. *)
Extended_zero(x, signed) == x

Extended(x, signed) ==
  IF signed /\ x >= 2^(XLEN - 1) THEN x + Wide - 2^XLEN ELSE x

(* mult_stage.sv: one piece of the multiplier, added in; what is carried on to the next
   stage is cut to the width of its registers. *)
stage(s, k) ==
  [product |-> (s.product + (((s.mplier % 2^CHUNK) * s.mcand) % Wide)) % Wide,
   mplier  |-> s.mplier \div 2^CHUNK,
   mcand   |-> (s.mcand * 2^CHUNK) % Wide]

product_out(mcand, mplier) ==
  FoldLeft(stage, [product |-> 0, mplier |-> mplier, mcand |-> mcand],
           [k \in 1 .. STAGES |-> k]).product

product(f, mcand, mplier) ==
  LET p == product_out(Extended(mcand, mcandSigned(f)), Extended(mplier, mplierSigned(f)))
  IN  IF f = "MUL" THEN p % 2^XLEN ELSE p \div 2^XLEN
=============================================================================
