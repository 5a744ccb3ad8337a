----------------------------- MODULE MemAccess -----------------------------
(***************************************************************************)
(* Sizes of loads and stores: which bytes of a double word the memory      *)
(* (mem.sv) writes and reads, and what mem_stage.sv makes of what comes    *)
(* back.  A register is its four bytes, the lowest first; a double word is *)
(* its eight.                                                              *)
(***************************************************************************)
EXTENDS Integers

(* mem_size is the funct3 of the instruction; its two lower bits are the size. *)
Width(mem_size) == 2^(mem_size % 4)

(* The place that the address bits above the size choose among the bytes, half words or
   words of the double word. *)
level(mem_size, addr) == addr \div Width(mem_size)

(* Mutant: the place among the half words or words is taken for a byte's. *)
loaded_data_byte(block, mem_size, addr) ==
  [i \in 0 .. 3 |-> IF i < Width(mem_size) THEN block[level(mem_size, addr) + i] ELSE 0]

loaded_data(block, mem_size, addr) ==
  [i \in 0 .. 3 |-> IF i < Width(mem_size)
                    THEN block[Width(mem_size) * level(mem_size, addr) + i] ELSE 0]

stored(block, mem_size, addr, data) ==
  [b \in 0 .. 7 |-> IF b \div Width(mem_size) = level(mem_size, addr)
                    THEN data[b % Width(mem_size)] ELSE block[b]]

(* The bytes above what was loaded copy the highest bit of it when bit 2 of mem_size is set.
   That is the wrong way round: LBU and LHU have it set. *)
mem_result_out(mem_size, data) ==
  [i \in 0 .. 3 |-> IF i < Width(mem_size) THEN data[i]
                    ELSE IF mem_size \div 4 = 1 /\ data[Width(mem_size) - 1] >= 128
                         THEN 255 ELSE 0]
=============================================================================
