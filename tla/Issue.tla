------------------------------- MODULE Issue -------------------------------
(***************************************************************************)
(* What happens to an instruction between dispatch and completion: the two *)
(* banks of the reservation station (rs_super.sv), the IS/EX registers,    *)
(* the register file, the two execution ports with their multipliers       *)
(* (ex_stage.sv), the loads put aside by LSQ.sv, the EX/CM register and    *)
(* the completion buses, above the reorder buffer, which bounds what can   *)
(* be in flight and flushes on a taken branch.                             *)
(*                                                                         *)
(* The program is a loop without end.  An operand is given by how many     *)
(* instructions before its reader its producer comes; a producer that has  *)
(* retired is a register that is ready.  Of a value only whether it is the *)
(* one the program defines is kept.                                        *)
(***************************************************************************)
EXTENDS Integers, Sequences, FiniteSets

CONSTANTS
  ROB_SIZE, NUM_RS_ENTRIES, STAGES, DELAY,
  Programs    \* the loops considered: sequences of [class, hit, a, b]

Classes == {"alu", "store", "load", "mult", "branch"}

ASSUME IssueAssumption ==
  /\ ROB_SIZE \in Nat /\ ROB_SIZE >= 2 /\ NUM_RS_ENTRIES \in Nat \ {0}
  /\ STAGES \in Nat \ {0} /\ DELAY \in Nat \ {0}
  /\ \A p \in Programs :
       /\ p # <<>>
       /\ p \in Seq([class : Classes, hit : BOOLEAN, a : Nat, b : Nat])

VARIABLES
  prog, fpc,       \* the loop, and its next instruction to dispatch
  head, tail, data, retire_tag, entry_cnt,   \* reorder buffer
  rs,              \* the two banks
  is_ex,           \* the IS/EX registers
  mult_dones, mult_chain,   \* the multipliers
  load_buffer,     \* loads that wait for memory, oldest first
  dout_valid,      \* the memory has answered the oldest of them
  ex_cm,           \* the EX/CM registers
  registers,       \* registers[r]: r holds the value of its last owner
  next_preg        \* the register that is handed out next

robVars == <<head, tail, data, retire_tag, entry_cnt>>
vars == <<prog, fpc, robVars, rs, is_ex, mult_dones, mult_chain, load_buffer, dout_valid,
          ex_cm, registers, next_preg>>

Ways == {0, 1}
Slot == 0 .. ROB_SIZE - 1

(* Registers 1, 2, ... are handed out in a ring, so long that a register comes round
   again only when its last reader has retired; Core has the free list. *)
ZERO_PREG == 0
Preg      == 1 .. 2 * ROB_SIZE
Tag       == Preg \cup {ZERO_PREG}

(* An instruction on its way; the bubble of a port that gets none carries slot 0. *)
Bubble == [valid |-> FALSE, class |-> "alu", hit |-> FALSE, rob_idx |-> 0,
           pdest |-> ZERO_PREG, prega |-> ZERO_PREG, pregb |-> ZERO_PREG]

(* A result: [valid, rob_idx, tag, value]; value says whether it is the right one. *)
NoResult == [valid |-> FALSE, rob_idx |-> 0, tag |-> ZERO_PREG, value |-> TRUE]
Result(op, val) == [valid |-> op.valid, rob_idx |-> op.rob_idx, tag |-> op.pdest, value |-> val]

Rob     == INSTANCE Rob WITH Instr <- [pc : Nat, pdest : Tag], Inputs <- {}
Bank(w) == INSTANCE RsBank WITH entry <- rs[w], NoOp <- Bubble
Mult(w) == INSTANCE MultTop WITH dones <- mult_dones[w], chain <- mult_chain[w],
             Payload <- [valid : BOOLEAN, rob_idx : Slot, tag : Tag, value : BOOLEAN],
             NoPayload <- NoResult

cdb == ex_cm

-----------------------------------------------------------------------------
(* Retirement, as in Core; a taken branch is a mispredicted one. *)
first  == data[head]
second == data[Rob!head_p1]

head_retire_rdy    == Rob!head_retire_rdy(cdb)
head_p1_retire_rdy == Rob!head_p1_retire_rdy(cdb) /\ ~first.ex_take_branch

misp0 == head_retire_rdy /\ first.is_branch /\ first.ex_take_branch
misp1 == head_p1_retire_rdy /\ second.is_branch /\ second.ex_take_branch
mispredict == misp0 \/ misp1

-----------------------------------------------------------------------------
(* The register file: two ports for each way, which forward what is being written. *)
wb_en(w) == cdb[w].valid /\ cdb[w].tag # ZERO_PREG
Writes(enable, w, r) == wb_en(enable) /\ cdb[w].tag = r

Read(second_enable, r) ==
  IF r = ZERO_PREG THEN TRUE
  ELSE IF Writes(0, 0, r) THEN cdb[0].value
  ELSE IF Writes(second_enable, 1, r) THEN cdb[1].value ELSE registers[r]

(* The b port of way 0 looks at the wrong enable (regfile.sv:74). *)
rega_value(w) == Read(1, is_ex[w].prega)
regb_value(w) == Read(IF w = 0 THEN 0 ELSE 1, is_ex[w].pregb)
alu_result(w) == rega_value(w) /\ regb_value(w)

(* Mutant: the second write port is used only when the first is not. *)
Written_one == [r \in Preg |->
                  IF wb_en(0) THEN IF cdb[0].tag = r THEN cdb[0].value ELSE registers[r]
                  ELSE IF wb_en(1) /\ cdb[1].tag = r THEN cdb[1].value ELSE registers[r]]

Written == [r \in Preg |->
              IF wb_en(1) /\ cdb[1].tag = r THEN cdb[1].value
              ELSE IF wb_en(0) /\ cdb[0].tag = r THEN cdb[0].value ELSE registers[r]]

-----------------------------------------------------------------------------
(* The execution ports.  A load that finds an older store has its value at once;
   which loads do is part of the program here, MemPipe has the search.  Port 0 alone
   takes what comes back from memory. *)
Is(w, class) == is_ex[w].valid /\ is_ex[w].class = class
hit(w)       == Is(w, "load") /\ is_ex[w].hit
mult_en(w)   == Is(w, "mult")
mult_done(w) == Mult(w)!done

LQ_FU_out ==
  [w \in Ways |->
     IF hit(w) THEN Result(is_ex[w], rega_value(w))
     ELSE IF w = 0 /\ dout_valid THEN Head(load_buffer) ELSE NoResult]

(* A load that finds no store goes to the load buffer. *)
wr_en(w) == Is(w, "load") /\ ~hit(w)

(* Mutant: the port is not asked whether it gives its result to a load. *)
ex_stall_mult_only(w) == mult_done(w) /\ ~mult_en(w) /\ is_ex[w].valid

(* Who has to stay: whoever finds the port taken by a product, and, on port 0,
   by a load that comes back.  A product does not stop a multiplication from
   starting. *)
ex_stall(w) ==
  LET lq == LQ_FU_out[w]
  IN  IF mult_done(w) THEN ~mult_en(w) /\ (is_ex[w].valid \/ (w = 0 /\ lq.valid))
      ELSE w = 0 /\ lq.valid /\ is_ex[w].valid /\ is_ex[w].rob_idx # lq.rob_idx

(* A load that comes back while a product takes the port is to be returned again,
   unless the port holds the same slot. *)
rd_ld_buffer_stall ==
  LET lq == LQ_FU_out[0]
  IN  mult_done(0) /\ lq.valid /\ is_ex[0].rob_idx # lq.rob_idx

rd_en == ~hit(0) /\ dout_valid /\ ~rd_ld_buffer_stall

ex_packet ==
  [w \in Ways |->
     IF mult_done(w) THEN Mult(w)!mult_packet_out
     ELSE IF LQ_FU_out[w].valid THEN LQ_FU_out[w]
     ELSE IF is_ex[w].class \in {"alu", "branch", "store"} THEN Result(is_ex[w], alu_result(w))
     ELSE NoResult]

branch_done(taken) ==
  [w \in Ways |->
     [branch_done |-> Is(w, "branch") /\ ~mult_done(w) /\ ~LQ_FU_out[w].valid,
      rob_idx |-> is_ex[w].rob_idx, take_branch |-> w \in taken]]

-----------------------------------------------------------------------------
(* Issue.  Each bank keeps its loads back while the other issues a store, which
   depends on whether that one keeps its loads back: st must agree with itself,
   and where two choices do, the loop of gates settles on either. *)
Settled ==
  {st \in [Ways -> BOOLEAN] :
     \A w \in Ways : st[w] = Bank(w)!ld_issue_stall_o(cdb, ex_stall(w), st[1 - w])}

NextPort(st, w) ==
  IF ex_stall(w) THEN is_ex[w]
  ELSE Bank(w)!issued(cdb, FALSE, st[1 - w], Bubble)

-----------------------------------------------------------------------------
(* Dispatch of the next n instructions of the loop. *)
At(pc)  == prog[(pc % Len(prog)) + 1]
Writer(pc) == At(pc).class \in {"alu", "mult", "load"}

RingPreg(k) == ((next_preg + k - 1) % (2 * ROB_SIZE)) + 1

(* The register of the w-th of them. *)
PdestOf(w) ==
  IF ~Writer(fpc + w) THEN ZERO_PREG
  ELSE RingPreg(IF w = 1 /\ Writer(fpc) THEN 1 ELSE 0)

(* What the map tables say of the instruction d before the w-th: that of the
   same bundle, one in flight, or one that has left. *)
Operand(w, d) ==
  IF d = 0 \/ d > entry_cnt + w THEN [preg |-> ZERO_PREG, ready |-> TRUE]
  ELSE IF w = 1 /\ d = 1 THEN [preg |-> PdestOf(0), ready |-> PdestOf(0) = ZERO_PREG]
  ELSE LET i == (tail + w - d) % ROB_SIZE
       IN  [preg |-> data[i].ins.pdest,
            ready |-> data[i].ins.pdest = ZERO_PREG \/ Rob!Completed(cdb, i)]

rob_idx(w) == IF w = 0 THEN tail ELSE Rob!tail_p1

dp_stall == Rob!dp_stall(\E w \in Ways : Bank(w)!rs_full)
rs_enable(n, w) == w < n /\ ~Bank(w)!rs_full /\ ~dp_stall

packet(w) ==
  LET i == At(fpc + w)
  IN  [op |-> [valid |-> TRUE, class |-> i.class, hit |-> i.hit, rob_idx |-> rob_idx(w), pdest |-> PdestOf(w),
               prega |-> Operand(w, i.a).preg, pregb |-> Operand(w, i.b).preg],
       prega_ready |-> Operand(w, i.a).ready, pregb_ready |-> Operand(w, i.b).ready]

rn_dp(n) ==
  [w \in Ways |->
     IF w >= n THEN [valid |-> FALSE]
     ELSE [valid |-> TRUE, ins |-> [pc |-> (fpc + w) % Len(prog), pdest |-> PdestOf(w)],
           is_branch |-> At(fpc + w).class = "branch", rd_mem |-> At(fpc + w).class = "load"]]

-----------------------------------------------------------------------------
NoVerdict == [w \in Ways |-> [done |-> FALSE, ld_rob_idx |-> 0, mem_violation |-> FALSE]]

(* The registers of the execution stage and of issue are reset with the station. *)
Flushed ==
  /\ Rob!Flush
  /\ rs' = [w \in Ways |-> Bank(w)!Reset]
  /\ is_ex' = [w \in Ways |-> Bubble]
  /\ mult_dones' = [w \in Ways |-> Mult(w)!NoDones]
  /\ mult_chain' = [w \in Ways |-> Mult(w)!NoChain]
  /\ load_buffer' = <<>> /\ dout_valid' = FALSE
  /\ ex_cm' = [w \in Ways |-> NoResult]
  /\ registers' = Written /\ next_preg' = next_preg
  /\ fpc' = ((IF misp0 THEN first ELSE second).ins.pc + 1) % Len(prog)

(* The load buffer after an edge: the oldest leaves, at most two come. *)
NextLoads ==
  LET In(w) == IF wr_en(w) THEN <<Result(is_ex[w], rega_value(w))>> ELSE <<>>
  IN  (IF rd_en THEN Tail(load_buffer) ELSE load_buffer) \o In(0) \o In(1)

(* One rising edge without a flush.  n: how many instructions fetch has; answered:
   memory answers the oldest waiting load. *)
Advance(n, taken, st, answered) ==
  LET m == Rob!Dispatches(rn_dp(n), dp_stall, cdb)
      Into(w) == rs_enable(n, w)
  IN  /\ Rob!Clock(rn_dp(n), dp_stall, cdb, branch_done(taken), NoVerdict)
      /\ rs' = [w \in Ways |-> Bank(w)!NextEntry(Into(w), packet(w), cdb, ex_stall(w), st[1 - w])]
      /\ is_ex' = [w \in Ways |-> NextPort(st, w)]
      /\ mult_dones' = [w \in Ways |-> Mult(w)!NextDones(mult_en(w))]
      /\ mult_chain' = [w \in Ways |-> Mult(w)!NextChain(
                          IF mult_en(w) THEN Result(is_ex[w], alu_result(w)) ELSE NoResult)]
      /\ load_buffer' = NextLoads
      /\ dout_valid' = IF rd_en THEN FALSE ELSE dout_valid \/ answered
      /\ ex_cm' = ex_packet
      /\ registers' = [r \in DOMAIN registers |->
                         Written[r] /\ \A w \in Ways : w < m => PdestOf(w) # r]
      /\ next_preg' = RingPreg(Cardinality({w \in Ways : w < m /\ Writer(fpc + w)}))
      /\ fpc' = (fpc + m) % Len(prog)

Clock(n, taken, st, answered) ==
  /\ IF mispredict THEN Flushed ELSE Advance(n, taken, st, answered)
  /\ UNCHANGED prog

Init ==
  /\ prog \in Programs /\ fpc = 0
  /\ Rob!Init
  /\ rs = [w \in Ways |-> Bank(w)!Reset]
  /\ is_ex = [w \in Ways |-> Bubble]
  /\ mult_dones = [w \in Ways |-> Mult(w)!NoDones]
  /\ mult_chain = [w \in Ways |-> Mult(w)!NoChain]
  /\ load_buffer = <<>> /\ dout_valid = FALSE
  /\ ex_cm = [w \in Ways |-> NoResult]
  /\ registers = [r \in Preg |-> FALSE]
  /\ next_preg = 1

Branches == {w \in Ways : Is(w, "branch")}
Waits    == load_buffer # <<>> /\ ~dout_valid

Cycle ==
  \E st \in Settled, n \in 0 .. 2, taken \in SUBSET Branches,
     answered \in IF Waits THEN BOOLEAN ELSE {FALSE} : Clock(n, taken, st, answered)

Next == Cycle

Spec == Init /\ [][Next]_vars

(* The clock runs, and now and then memory answers a load that waits. *)
Progress ==
  \E st \in Settled, n \in 0 .. 2, taken \in SUBSET Branches : Clock(n, taken, st, Waits)

FairSpec == Spec /\ WF_vars(Progress)

-----------------------------------------------------------------------------
InFlight == {i \in Slot : data[i].valid}

Op == [valid : BOOLEAN, class : Classes, hit : BOOLEAN, rob_idx : Slot,
       pdest : Tag, prega : Tag, pregb : Tag]
Results == [valid : BOOLEAN, rob_idx : Slot, tag : Tag, value : BOOLEAN]

(* The registers keep their ranges. *)
TypeOK ==
  /\ prog \in Programs /\ fpc \in 0 .. Len(prog) - 1
  /\ Rob!TypeOK
  /\ rs \in [Ways -> [0 .. NUM_RS_ENTRIES - 1 ->
                        [busy : BOOLEAN, op : Op, prega_ready : BOOLEAN, pregb_ready : BOOLEAN]]]
  /\ is_ex \in [Ways -> Op]
  /\ mult_dones \in [Ways -> [1 .. STAGES -> BOOLEAN]]
  /\ mult_chain \in [Ways -> [1 .. DELAY -> Results]]
  /\ load_buffer \in Seq(Results) /\ Len(load_buffer) <= ROB_SIZE
  /\ dout_valid \in BOOLEAN /\ (dout_valid => load_buffer # <<>>)
  /\ ex_cm \in [Ways -> Results]
  /\ registers \in [Preg -> BOOLEAN]
  /\ next_preg \in Preg

(* An instruction in flight is in one place: an entry of the station, a port, a
   stage of a multiplier, the load buffer, EX/CM, or it is completed; so no result
   is lost or comes twice, whichever of product, returning load and the port's own
   instruction gets the completion bus, and a flush leaves nothing behind. *)
OnePlace ==
  LET Entries(i) == {k \in Ways \X (0 .. NUM_RS_ENTRIES - 1) :
                       rs[k[1]][k[2]].busy /\ rs[k[1]][k[2]].op.rob_idx = i}
      Ports(i)   == {w \in Ways : is_ex[w].valid /\ is_ex[w].rob_idx = i}
      Stages(i)  == {k \in Ways \X (1 .. STAGES) :
                       mult_dones[k[1]][k[2]] /\ mult_chain[k[1]][k[2]].rob_idx = i}
      Loading(i) == {k \in DOMAIN load_buffer : load_buffer[k].rob_idx = i}
      Buses(i)   == {w \in Ways : ex_cm[w].valid /\ ex_cm[w].rob_idx = i}
  IN  /\ TypeOK
      /\ \A i \in Slot :
        Cardinality(Entries(i)) + Cardinality(Ports(i)) + Cardinality(Stages(i))
          + Cardinality(Loading(i)) + Cardinality(Buses(i)) + (IF retire_tag[i] THEN 1 ELSE 0)
        = IF data[i].valid THEN 1 ELSE 0

(* What a port reads is right: the register file, with its four forwarding ports,
   one of which looks at the wrong enable, has by then got every operand that the
   station has heard of, and what is in flight has a register to itself. *)
OperandsRight == \A w \in Ways : is_ex[w].valid => alu_result(w)

(* Retirement never comes to an end while anything is in flight: whatever newer
   instructions are put above it in the station, ports are held, and loads give way to
   stores, each instruction is issued before long, as the reorder buffer is full
   before it can be passed for ever. *)
AlwaysRetires == []<>(entry_cnt = 0 \/ head_retire_rdy)
=============================================================================
