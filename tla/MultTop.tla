------------------------------ MODULE MultTop ------------------------------
(***************************************************************************)
(* The multiplier of a way, mult_top.sv: the partial products and their    *)
(* done bits run through the stages of mult.sv, while everything else that *)
(* belongs to the instruction runs through delay chains beside them.       *)
(* Neither can be stopped: one step each cycle.                            *)
(***************************************************************************)
EXTENDS Integers

CONSTANTS
  STAGES,     \* stages of mult.sv, 8
  DELAY,      \* flip-flops of a delay_chain, 8 in mult_top.sv
  Payload,    \* what a delay chain carries
  NoPayload   \* what its flip-flops hold after reset

VARIABLES
  dones,      \* the done bits, first stage first
  chain       \* the delay chains

Shifted(s, n, x) == [i \in 1 .. n |-> IF i = 1 THEN x ELSE s[i - 1]]

done            == dones[STAGES]
mult_packet_out == chain[DELAY]

NextDones(start)  == Shifted(dones, STAGES, start)
NextChain(packet) == Shifted(chain, DELAY, packet)

(* One rising edge; the reset is that of ex_stage.sv. *)
Clock(start, packet) == dones' = NextDones(start) /\ chain' = NextChain(packet)

NoDones == [i \in 1 .. STAGES |-> FALSE]
NoChain == [i \in 1 .. DELAY |-> NoPayload]

Init  == dones = NoDones /\ chain = NoChain
Reset == dones' = NoDones /\ chain' = NoChain
=============================================================================
