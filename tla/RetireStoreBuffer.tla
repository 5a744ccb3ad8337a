------------------------- MODULE RetireStoreBuffer -------------------------
(***************************************************************************)
(* The buffer of retired stores, retire_store_buffer.sv: a queue that      *)
(* sends its first store to memory in every cycle it has one, and that     *)
(* loads search when the store queue has nothing for them.                 *)
(* The register pointer is the length of the queue; what lies behind it in *)
(* the array has its valid bit cleared and is never read.                  *)
(***************************************************************************)
EXTENDS Sequences, Integers

VARIABLE entry

empty == entry = <<>>

(* The write to memory: the first store, once executed. *)
wr_en == ~empty /\ entry[1].valid

(* The search passes over the first store, which memory takes in this very cycle. *)
Found(addr) == {j \in 2 .. Len(entry) : entry[j].addr = addr}
load_value_valid(addr) == Found(addr) # {}
load_value_o(addr)     == entry[CHOOSE j \in Found(addr) : \A k \in Found(addr) : j <= k].value

(* Mutant: the store sent to memory stays. *)
Clock_stays(din) == entry' = entry \o din

(* din: the stores retiring, oldest first. *)
Clock(din) == entry' = (IF wr_en THEN Tail(entry) ELSE entry) \o din

Init == entry = <<>>
=============================================================================
