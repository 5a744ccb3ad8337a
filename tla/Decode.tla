------------------------------- MODULE Decode -------------------------------
(***************************************************************************)
(* What an instruction word means: to the processor (the patterns of       *)
(* ISA.svh, the decoder of id_stage.sv and the immediates of ex_stage.sv), *)
(* to the visual debugger (riscv_inst.h, which can also encode) and to the *)
(* pipeline printer (pipe_print.c).                                        *)
(*                                                                         *)
(* A word is the record of its fields; an immediate is its signed value.   *)
(***************************************************************************)
EXTENDS Integers, SequencesExt

Word == [opcode : 0 .. 127, rd : 0 .. 31, funct3 : 0 .. 7, rs1 : 0 .. 31, rs2 : 0 .. 31,
         funct7 : 0 .. 127]

funct12(w) == w.funct7 * 32 + w.rs2
Bit(n, k)  == (n \div 2^k) % 2
Signed(n, bit, k) == n - bit * 2^k     \* bit copied to all places from k on

-----------------------------------------------------------------------------
(* The processor. *)

(* ISA.svh: the names and their patterns, <<opcode, funct3, funct7>>; -1 is any. *)
Patterns ==
  [LUI |-> <<55, -1, -1>>, AUIPC |-> <<23, -1, -1>>, JAL |-> <<111, -1, -1>>,
   JALR |-> <<103, 0, -1>>,
   BEQ |-> <<99, 0, -1>>, BNE |-> <<99, 1, -1>>, BLT |-> <<99, 4, -1>>,
   BGE |-> <<99, 5, -1>>, BLTU |-> <<99, 6, -1>>, BGEU |-> <<99, 7, -1>>,
   LB |-> <<3, 0, -1>>, LH |-> <<3, 1, -1>>, LW |-> <<3, 2, -1>>,
   LBU |-> <<3, 4, -1>>, LHU |-> <<3, 5, -1>>,
   SB |-> <<35, 0, -1>>, SH |-> <<35, 1, -1>>, SW |-> <<35, 2, -1>>,
   ADDI |-> <<19, 0, -1>>, SLTI |-> <<19, 2, -1>>, SLTIU |-> <<19, 3, -1>>,
   XORI |-> <<19, 4, -1>>, ORI |-> <<19, 6, -1>>, ANDI |-> <<19, 7, -1>>,
   SLLI |-> <<19, 1, 0>>, SRLI |-> <<19, 5, 0>>, SRAI |-> <<19, 5, 32>>,
   ADD |-> <<51, 0, 0>>, SUB |-> <<51, 0, 32>>, SLL |-> <<51, 1, 0>>, SLT |-> <<51, 2, 0>>,
   SLTU |-> <<51, 3, 0>>, XOR |-> <<51, 4, 0>>, SRL |-> <<51, 5, 0>>, SRA |-> <<51, 5, 32>>,
   OR |-> <<51, 6, 0>>, AND |-> <<51, 7, 0>>,
   MUL |-> <<51, 0, 1>>, MULH |-> <<51, 1, 1>>, MULHSU |-> <<51, 2, 1>>,
   MULHU |-> <<51, 3, 1>>,
   CSRRW |-> <<115, 1, -1>>, CSRRS |-> <<115, 2, -1>>, CSRRC |-> <<115, 3, -1>>]

(* WFI is one word and no other. *)
WFI == [opcode |-> 115, rd |-> 0, funct3 |-> 0, rs1 |-> 0, rs2 |-> 5, funct7 |-> 8]

Matches(w, p) ==
  /\ w.opcode = p[1] /\ p[2] \in {-1, w.funct3} /\ p[3] \in {-1, w.funct7}

Branches == {"BEQ", "BNE", "BLT", "BGE", "BLTU", "BGEU"}
Loads    == {"LB", "LH", "LW", "LBU", "LHU"}
Stores   == {"SB", "SH", "SW"}
Csr      == {"CSRRW", "CSRRS", "CSRRC"}
OpImm    == {"ADDI", "SLTI", "SLTIU", "XORI", "ORI", "ANDI", "SLLI", "SRLI", "SRAI"}

(* The decoder of id_stage.sv: which instruction the word is, whether it is illegal, and
   where its second operand comes from. *)
named(w) == {n \in DOMAIN Patterns : Matches(w, Patterns[n])}

illegal(w) == named(w) = {} /\ w # WFI

opb_select(n) ==
  CASE n \in {"LUI", "AUIPC"} -> "U" [] n = "JAL" -> "J" [] n \in Branches -> "B"
    [] n \in {"JALR"} \cup Loads \cup OpImm -> "I" [] n \in Stores -> "S" [] OTHER -> "RS2"

(* The immediates of ISA.svh, from the bits of the word. *)
RV32_signext_Iimm(w) == Signed((w.funct7 % 64) * 32 + w.rs2, w.funct7 \div 64, 11)

RV32_signext_Simm(w) == Signed((w.funct7 % 64) * 32 + w.rd, w.funct7 \div 64, 11)

RV32_signext_Bimm(w) ==
  Signed((w.rd % 2) * 2048 + (w.funct7 % 64) * 32 + (w.rd \div 2) * 2, w.funct7 \div 64, 12)

(* Bits 31 to 12, as a number of 20 bits: the shift by 12 is left out. *)
RV32_signext_Uimm(w) == w.funct7 * 2^13 + w.rs2 * 2^8 + w.rs1 * 2^3 + w.funct3

RV32_signext_Jimm(w) ==
  Signed((w.rs1 * 8 + w.funct3) * 2^12 + (w.rs2 % 2) * 2^11
           + ((w.funct7 % 64) * 16 + w.rs2 \div 2) * 2,
         w.funct7 \div 64, 20)

immediate(w, n) ==
  CASE opb_select(n) = "U" -> RV32_signext_Uimm(w) [] opb_select(n) = "J" -> RV32_signext_Jimm(w)
    [] opb_select(n) = "B" -> RV32_signext_Bimm(w) [] opb_select(n) = "I" -> RV32_signext_Iimm(w)
    [] opb_select(n) = "S" -> RV32_signext_Simm(w)

-----------------------------------------------------------------------------
(* riscv_inst.h: decode, by opcode; "INVALID" is an instruction it knows no meaning of. *)

Nth(names, k) == IF k \in DOMAIN names THEN names[k] ELSE "INVALID"
I == "INVALID"

decode_branch(w) == Nth(<<"BEQ", "BNE", I, I, "BLT", "BGE", "BLTU", "BGEU">>, w.funct3 + 1)
decode_load(w)   == Nth(<<"LB", "LH", "LW", I, "LBU", "LHU">>, w.funct3 + 1)
decode_store(w)  == Nth(<<"SB", "SH", "SW">>, w.funct3 + 1)

(* Mutant: a shift with bits above its amount is taken for a shift. *)
decode_imm_shift(w) ==
  Nth(<<"ADDI", "SLLI", "SLTI", "SLTIU", "XORI", IF w.funct7 = 32 THEN "SRAI" ELSE "SRLI",
        "ORI", "ANDI">>, w.funct3 + 1)

decode_imm(w) ==
  Nth(<<"ADDI", IF w.funct7 = 0 THEN "SLLI" ELSE I, "SLTI", "SLTIU", "XORI",
        CASE w.funct7 = 0 -> "SRLI" [] w.funct7 = 32 -> "SRAI" [] OTHER -> I,
        "ORI", "ANDI">>, w.funct3 + 1)

decode_arith(w) ==
  LET key == w.funct7 * 16 + w.funct3
  IN  CASE key \in 0 .. 7 ->
             Nth(<<"ADD", "SLL", "SLT", "SLTU", "XOR", "SRL", "OR", "AND">>, key + 1)
        [] key = 512 -> "SUB"
        [] key = 517 -> "SRA"
        [] key \in 16 .. 19 -> Nth(<<"MUL", "MULH", "MULHSU", "MULHU">>, key - 15)
        [] OTHER -> I

decode_system(w) == IF w.funct3 = 0 /\ funct12(w) = 261 THEN "WFI" ELSE I

decode(w) ==
  CASE w.opcode = 55 -> "LUI" [] w.opcode = 23 -> "AUIPC" [] w.opcode = 111 -> "JAL"
    [] w.opcode = 103 -> "JALR" [] w.opcode = 99 -> decode_branch(w)
    [] w.opcode = 3 -> decode_load(w) [] w.opcode = 35 -> decode_store(w)
    [] w.opcode = 19 -> decode_imm(w) [] w.opcode = 51 -> decode_arith(w)
    [] w.opcode = 115 -> decode_system(w) [] OTHER -> I

(* The format of a word, and its kind of immediate. *)
riscv(w) ==
  CASE w.opcode \in {55, 23, 111} -> "U" [] w.opcode \in {103, 3, 19} -> "I"
    [] w.opcode \in {99, 35} -> "S" [] w.opcode = 51 -> "R" [] OTHER -> "P"

imm(w) ==
  CASE w.opcode \in {55, 23} -> "U" [] w.opcode = 111 -> "J" [] w.opcode \in {103, 3, 19} -> "I"
    [] w.opcode = 99 -> "B" [] w.opcode = 35 -> "S" [] OTHER -> "R"

(* analyze: the immediate of a word, put together from the shifted word. *)
wordBit(w, k) ==
  CASE k < 7 -> Bit(w.opcode, k) [] k \in 7 .. 11 -> Bit(w.rd, k - 7)
    [] k \in 12 .. 14 -> Bit(w.funct3, k - 12) [] k \in 15 .. 19 -> Bit(w.rs1, k - 15)
    [] k \in 20 .. 24 -> Bit(w.rs2, k - 20) [] OTHER -> Bit(w.funct7, k - 25)

inst(w, from, bits) ==   \* (inst >> from) & (2^bits - 1)
  FoldLeft(LAMBDA sum, k : sum + wordBit(w, from + k - 1) * 2^(k - 1), 0, [k \in 1 .. bits |-> k])

analyze(w) ==
  LET sign == inst(w, 31, 1)
  IN  CASE imm(w) = "I" ->
             IF w.opcode = 19 /\ w.funct3 \in {1, 5} THEN inst(w, 20, 5)
             ELSE Signed(inst(w, 20, 11), sign, 11)
        [] imm(w) = "S" -> Signed(inst(w, 7, 5) + inst(w, 25, 6) * 2^5, sign, 11)
        [] imm(w) = "B" ->
             Signed(2 * (inst(w, 8, 4) + inst(w, 25, 6) * 2^4 + inst(w, 7, 1) * 2^10), sign, 12)
        [] imm(w) = "U" -> inst(w, 12, 20)
        [] imm(w) = "J" ->
             Signed(2 * (inst(w, 21, 10) + inst(w, 20, 1) * 2^10 + inst(w, 12, 8) * 2^11), sign, 20)
        [] OTHER -> 0

(* select: the fixed fields of an instruction that is to be put together. *)
Fixed(format, kind, opcode, f3, f7) ==
  [riscv |-> format, imm |-> kind, opcode |-> opcode, funct3 |-> f3, funct7 |-> f7]

Index(names, op) == (CHOOSE k \in DOMAIN names : names[k] = op) - 1

select_imm(op) ==
  Fixed("I", "I", 19,
        CASE op = "ADDI" -> 0 [] op = "SLTI" -> 2 [] op = "SLTIU" -> 3 [] op = "ANDI" -> 7
          [] op = "ORI" -> 6 [] op = "XORI" -> 4 [] op = "SLLI" -> 1 [] OTHER -> 5,
        IF op = "SRAI" THEN 32 ELSE 0)

select_arith(op) ==
  Fixed("R", "R", 51,
        CASE op \in {"ADD", "SUB"} -> 0 [] op = "SLT" -> 2 [] op = "SLTU" -> 3 [] op = "AND" -> 7
          [] op = "OR" -> 6 [] op = "XOR" -> 4 [] op = "SLL" -> 1 [] OTHER -> 5,
        IF op \in {"SRA", "SUB"} THEN 32 ELSE 0)

select_branch(op) ==
  Fixed("S", "B", 99, Index(<<"BEQ", "BNE", I, I, "BLT", "BGE", "BLTU", "BGEU">>, op), 0)

select_load(op)  == Fixed("I", "I", 3, Index(<<"LB", "LH", "LW", I, "LBU", "LHU">>, op), 0)
select_store(op) == Fixed("S", "S", 35, Index(<<"SB", "SH", "SW">>, op), 0)
select_mul(op)   == Fixed("R", "R", 51, Index(<<"MUL", "MULH", "MULHSU", "MULHU">>, op), 1)

(* A JAL is given the immediate of a LUI. *)
select(op) ==
  CASE op \in OpImm -> select_imm(op) [] op \in Branches -> select_branch(op)
    [] op \in Loads -> select_load(op) [] op \in Stores -> select_store(op)
    [] op \in {"MUL", "MULH", "MULHU", "MULHSU"} -> select_mul(op)
    [] op = "LUI" -> Fixed("U", "U", 55, 0, 0) [] op = "AUIPC" -> Fixed("U", "U", 23, 0, 0)
    [] op = "JAL" -> Fixed("U", "U", 111, 0, 0) [] op = "JALR" -> Fixed("I", "I", 103, 0, 0)
    [] op = "WFI" -> Fixed("P", "R", 115, 0, 8) [] OTHER -> select_arith(op)

(* encode: the word with the fixed fields s of op, the registers of w and the immediate
   value.  The sign of a store's offset is left out. *)
Places(value, from, bits) == (value \div 2^from) % 2^bits

encode(op, s, w, value) ==
  LET base == [opcode |-> s.opcode, rd |-> w.rd, funct3 |-> s.funct3, rs1 |-> w.rs1,
               rs2 |-> w.rs2, funct7 |-> s.funct7]
  IN  CASE s.riscv = "R" -> base
        [] s.riscv = "P" -> [base EXCEPT !.rs2 = 5]     \* funct12, 0x105
        [] s.riscv = "I" ->
             [base EXCEPT !.rs2 = Places(value, 0, 5),
                          !.funct7 = IF op \in {"SLLI", "SRLI", "SRAI"} THEN s.funct7
                                     ELSE Places(value, 5, 7)]
        [] s.riscv = "S" /\ s.imm = "S" ->
             [base EXCEPT !.rd = Places(value, 0, 5), !.funct7 = Places(value, 5, 6)]
        [] s.riscv = "S" /\ s.imm = "B" ->
             [base EXCEPT !.rd = Places(value, 11, 1) + Places(value, 1, 4) * 2,
                          !.funct7 = Places(value, 5, 6) + Places(value, 12, 1) * 64]
        [] s.riscv = "U" /\ s.imm = "U" ->
             [base EXCEPT !.funct3 = Places(value, 0, 3), !.rs1 = Places(value, 3, 5),
                          !.rs2 = Places(value, 8, 5), !.funct7 = Places(value, 13, 7)]
        [] s.riscv = "U" /\ s.imm = "J" ->
             [base EXCEPT !.funct3 = Places(value, 12, 3), !.rs1 = Places(value, 15, 5),
                          !.rs2 = Places(value, 11, 1) + Places(value, 1, 4) * 2,
                          !.funct7 = Places(value, 5, 6) + Places(value, 20, 1) * 64]

-----------------------------------------------------------------------------
(* pipe_print.c: the name print_stage writes for a valid word; NOP is the ADDI of zeros. *)
NOOP_INST == [opcode |-> 19, rd |-> 0, funct3 |-> 0, rs1 |-> 0, rs2 |-> 0, funct7 |-> 0]

print_arith(w) ==
  IF w.funct7 = 1 /\ w.funct3 \in 4 .. 7 THEN <<"DIV", "DIVU", "REM", "REMU">>[w.funct3 - 3]
  ELSE decode_arith(w)

print_system(w) ==
  IF w.funct3 # 0
  THEN <<"CSRRW", "CSRRS", "CSRRC", I, "CSRRWI", "CSRRSI", "CSRRCI">>[w.funct3]
  ELSE CASE funct12(w) = 0 -> "ECALL" [] funct12(w) = 1 -> "EBREAK" [] funct12(w) = 261 -> "WFI"
         [] OTHER -> "SYSTEM"

print_stage(w) ==
  CASE w = NOOP_INST -> "NOP"
    [] w.opcode \in {55, 23, 111, 103, 99, 19} -> decode(w)
    [] w.opcode = 3 -> decode_load(w)
    [] w.opcode = 35 -> decode_store(w)
    [] w.opcode = 51 -> print_arith(w)
    [] w.opcode = 15 -> "FENCE"
    [] w.opcode = 115 -> print_system(w)
    [] OTHER -> I
=============================================================================
