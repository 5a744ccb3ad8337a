------------------------------ MODULE MemPipe ------------------------------
(***************************************************************************)
(* The memory path of the core on one clock: dispatch into the reorder     *)
(* buffer and the load and store queues, issue, the two execution ports    *)
(* with what ex_stage.sv and LSQ.sv make of them, the load buffer, the     *)
(* retire store buffer, data memory, and the retirement of pipeline.sv.    *)
(*                                                                         *)
(* Of an instruction only its kind, its address (for the others: the       *)
(* result of its ALU, which is compared with addresses just the same) and  *)
(* the value it stores are kept.  Register operands decide when a waiting  *)
(* instruction issues, and any waiting one may; Core has the exact         *)
(* wakeup.  The register an instruction writes is named by its slot.       *)
(***************************************************************************)
EXTENDS Integers, Sequences, FiniteSets

CONSTANTS
  ROB_SIZE, LSQ_SIZE, LOAD_BUFFER_NUM,
  Addr,       \* data addresses, 0 among them
  NUM_OPS,    \* bound: operations of a program
  Programs    \* the programs considered

Op   == 0 .. NUM_OPS - 1
Kind == {"load", "store", "alu", "jump"}
Slot == 0 .. ROB_SIZE - 1
Ways == {0, 1}

(* Operation k stores k + 1; memory holds 0 at first.  A jump is taken, to the
   operation behind it. *)
Value == 0 .. NUM_OPS

ASSUME MemPipeAssumption ==
  /\ ROB_SIZE \in Nat /\ ROB_SIZE >= 2
  /\ LSQ_SIZE \in Nat /\ LSQ_SIZE >= 2 /\ LOAD_BUFFER_NUM \in Nat /\ LOAD_BUFFER_NUM >= 2
  /\ 0 \in Addr
  /\ NUM_OPS \in Nat
  /\ Programs \subseteq [Op -> [kind : Kind, addr : Addr]]

VARIABLES
  prog,      \* the program
  fpc,       \* next operation to dispatch
  rob_head, rob_tail, data, retire_tag, rob_cnt,   \* reorder buffer
  rs,        \* what waits in the reservation station
  is_ex,     \* what each execution port holds
  ex_cm,     \* the results on their way to the completion buses
  preg,      \* the register of each slot's instruction
  sq, sq_head, sq_tail,
  lq, lq_head, lq_tail,
  rtb,       \* retire store buffer
  lb, lb_head, lb_tail,   \* load buffer
  unified_memory,
  arch,      \* history: operations committed
  reads      \* history: what the committed loads have read

robVars == <<rob_head, rob_tail, data, retire_tag, rob_cnt>>
lsqVars == <<sq, sq_head, sq_tail, lq, lq_head, lq_tail, rtb, lb, lb_head, lb_tail>>
vars == <<prog, fpc, robVars, rs, is_ex, ex_cm, preg, lsqVars, unified_memory, arch, reads>>

(* An entry of the reservation station, in the bank of the way that dispatched it.
   The reorder buffer carries only the number of the operation. *)
RsEntry == [op : Op, bank : Ways, rob_idx : Slot,
            SQ_idx : 0 .. LSQ_SIZE - 1, LQ_idx : 0 .. LSQ_SIZE - 1]

NoLoad == [rob_idx |-> 0, addr |-> 0]

Rob == INSTANCE Rob WITH head <- rob_head, tail <- rob_tail, entry_cnt <- rob_cnt,
                         Instr <- Op, Inputs <- {}
SQ  == INSTANCE StoreQueue WITH head <- sq_head, tail <- sq_tail
LQ  == INSTANCE LoadQueue WITH head <- lq_head, tail <- lq_tail, Rob_idx <- Slot
RTB == INSTANCE RetireStoreBuffer WITH entry <- rtb
LB  == INSTANCE LoadBuffer WITH buf <- lb, head <- lb_head, tail <- lb_tail

-----------------------------------------------------------------------------
(* Retirement, as in Core; a taken branch is a mispredicted one. *)
first  == data[rob_head]
second == data[Rob!head_p1]

NoResult == [valid |-> FALSE, rob_idx |-> 0, value |-> 0]

head_retire_rdy    == Rob!head_retire_rdy(ex_cm)
head_p1_retire_rdy == Rob!head_p1_retire_rdy(ex_cm) /\ ~first.ex_take_branch

misp0 == head_retire_rdy /\ first.is_branch /\ first.ex_take_branch
misp1 == head_p1_retire_rdy /\ second.is_branch /\ second.ex_take_branch
viol0 == head_retire_rdy /\ first.rd_mem_violation
viol1 == head_p1_retire_rdy /\ second.rd_mem_violation

mispredict  == misp0 \/ misp1
ld_rollback == (viol0 /\ first.rd_mem) \/ (viol1 /\ second.rd_mem)
rollback    == mispredict \/ ld_rollback

(* Mutant: the queues do not see what the second way retires. *)
Retiring_first(kind) ==
  [w \in Ways |-> w = 0 /\ head_retire_rdy /\ prog[first.ins].kind = kind]

(* The stores, or the loads, among the two that retire. *)
Retiring(kind) ==
  [w \in Ways |->
     IF w = 0 THEN head_retire_rdy /\ prog[first.ins].kind = kind
              ELSE head_p1_retire_rdy /\ prog[second.ins].kind = kind]

-----------------------------------------------------------------------------
(* Execution: what the ports offer to the queues. *)
Idle == [valid |-> FALSE, kind |-> "none", addr |-> 0, value |-> 0,
         rob_idx |-> 0, SQ_idx |-> 0, LQ_idx |-> 0]

Issued(e) ==
  [valid |-> TRUE, kind |-> prog[e.op].kind, addr |-> prog[e.op].addr, value |-> e.op + 1,
   rob_idx |-> e.rob_idx, SQ_idx |-> e.SQ_idx, LQ_idx |-> e.LQ_idx]

LOAD_ready(w) == is_ex[w].kind = "load"

FU_SQ_out ==
  [w \in Ways |-> [done |-> is_ex[w].kind = "store", addr |-> is_ex[w].addr, value |-> is_ex[w].value,
                   SQ_idx |-> is_ex[w].SQ_idx, LQ_idx |-> is_ex[w].LQ_idx]]
FU_LQ_out ==
  [w \in Ways |-> [done |-> LOAD_ready(w), addr |-> is_ex[w].addr, LQ_idx |-> is_ex[w].LQ_idx]]

(* The search for an older store, in the store queue and then in the retire
   buffer; it is made for whatever the port holds. *)
hit(w)   == SQ!st_hit(is_ex[w]) \/ RTB!load_value_valid(is_ex[w].addr)
value(w) == IF SQ!st_hit(is_ex[w]) THEN SQ!st_value(is_ex[w]) ELSE RTB!load_value_o(is_ex[w].addr)

(* Mutant: the load buffer is popped although port 0 has a result of its own. *)
rd_en_always == LB!dout.valid

(* The loads that found nothing go to the load buffer.  Only port 0 takes what
   comes back from there, unless it found a store itself. *)
wr_en  == [w \in Ways |-> LOAD_ready(w) /\ ~hit(w) /\ ~LB!full]
din    == [w \in Ways |-> [rob_idx |-> is_ex[w].rob_idx, addr |-> is_ex[w].addr]]
rd_en  == ~hit(0) /\ LB!dout.valid

LQ_FU_out ==
  [w \in Ways |->
     IF hit(w)
     THEN IF LOAD_ready(w) THEN [valid |-> TRUE, rob_idx |-> is_ex[w].rob_idx, value |-> value(w)]
          ELSE NoResult
     ELSE IF w = 0 /\ rd_en
     THEN [valid |-> TRUE, rob_idx |-> LB!dout.load.rob_idx, value |-> LB!dout.value]
     ELSE NoResult]

(* Port 0 waits while it passes a load on; both wait for a full load buffer. *)
ex_stall(w) ==
  w = 0 /\ LQ_FU_out[0].valid /\ is_ex[0].valid /\ is_ex[0].rob_idx # LQ_FU_out[0].rob_idx
is_stall(w) == ex_stall(w) \/ LB!full

ex_packet ==
  [w \in Ways |->
     IF LQ_FU_out[w].valid THEN LQ_FU_out[w]
     ELSE IF is_ex[w].kind \in {"alu", "jump", "store"}
     THEN [valid |-> TRUE, rob_idx |-> is_ex[w].rob_idx, value |-> 0] ELSE NoResult]

branch_done ==
  [w \in Ways |-> [branch_done |-> ~LQ_FU_out[w].valid /\ is_ex[w].kind = "jump",
                   rob_idx |-> is_ex[w].rob_idx, take_branch |-> TRUE]]

SQ_FU_out == [w \in Ways |-> LQ!Verdict(FU_SQ_out[w])]

-----------------------------------------------------------------------------
(* Issue: at most one instruction from each bank to the port of its way; a load
   does not issue next to a store of the other bank. *)
Choices(w) == {{}} \cup (IF is_stall(w) THEN {} ELSE {{e} : e \in {x \in rs : x.bank = w}})
Apart(p0, p1) == ~({"load", "store"} \subseteq {prog[e.op].kind : e \in p0 \cup p1})

NextPort(w, S) ==
  IF is_stall(w) THEN is_ex[w]
  ELSE IF S = {} THEN Idle ELSE Issued(CHOOSE e \in S : TRUE)

(* Dispatch: the aligned pair from fpc on, or the upper half of it. *)
Fetched(w) == w = 0 \/ fpc % 2 = 0
Bundle(go) == {w \in Ways : go /\ Fetched(w) /\ fpc + w < NUM_OPS}

Dispatched(go, kind) == [w \in Ways |-> w \in Bundle(go) /\ ~Rob!dp_stall(FALSE)
                                          /\ prog[fpc + w].kind = kind]

rn_dp(go) ==
  [w \in Ways |->
     IF w \notin Bundle(go) THEN [valid |-> FALSE]
     ELSE [valid |-> TRUE, ins |-> fpc + w, is_branch |-> prog[fpc + w].kind = "jump",
           rd_mem |-> prog[fpc + w].kind = "load"]]

dp_rob_idx == [w \in Ways |-> IF w = 0 THEN rob_tail ELSE Rob!tail_p1]

NewEntry(go, w) ==
  [op |-> fpc + w, bank |-> w, rob_idx |-> dp_rob_idx[w],
   SQ_idx |-> SQ!SQ_idx(Dispatched(go, "store"), w),
   LQ_idx |-> LQ!LQ_idx(Dispatched(go, "load"), w)]

-----------------------------------------------------------------------------
(* The register of slot i once the buses of this cycle have written. *)
Written(i) ==
  IF ex_cm[1].valid /\ ex_cm[1].rob_idx = i THEN ex_cm[1].value
  ELSE IF ex_cm[0].valid /\ ex_cm[0].rob_idx = i THEN ex_cm[0].value ELSE preg[i]

commit0 == head_retire_rdy /\ ~viol0
commit1 == head_p1_retire_rdy /\ ~viol0 /\ ~viol1

(* History: the value a load commits with. *)
ReadsAfter ==
  LET C == (IF commit0 THEN {rob_head} ELSE {}) \cup (IF commit1 THEN {Rob!head_p1} ELSE {})
      L == {i \in C : data[i].rd_mem}
  IN  [k \in Op |-> IF \E i \in L : data[i].ins = k
                    THEN Written(CHOOSE i \in L : data[i].ins = k) ELSE reads[k]]

(* The data side of the bus: a retired store first, else a buffered load. *)
Memory ==
  /\ unified_memory' = IF RTB!wr_en THEN [unified_memory EXCEPT ![rtb[1].addr] = rtb[1].value]
                       ELSE unified_memory
  /\ RTB!Clock(SQ!Retired(Retiring("store")))
  /\ LB!Clock(wr_en, din, rd_en, LB!rd_cache /\ ~RTB!wr_en,
              unified_memory[LB!dout.load.addr], rollback)

(* One rising edge.  go: fetch has a bundle; port: what the banks issue. *)
Clock(go, port) ==
  LET n == Rob!Dispatches(rn_dp(go), Rob!dp_stall(FALSE), ex_cm)
      new == {NewEntry(go, w) : w \in {v \in Ways : v < n}}
  IN  /\ IF rollback THEN Rob!Flush
         ELSE Rob!Clock(rn_dp(go), Rob!dp_stall(FALSE), ex_cm, branch_done, SQ_FU_out)
      /\ SQ!Clock(Dispatched(go, "store"), FU_SQ_out, Retiring("store"), rollback)
      /\ LQ!Clock(Dispatched(go, "load"), dp_rob_idx, FU_LQ_out, Retiring("load"), rollback)
      /\ Memory
      /\ rs' = IF rollback THEN {} ELSE (rs \ (port[0] \cup port[1])) \cup new
      /\ is_ex' = IF rollback THEN [w \in Ways |-> Idle] ELSE [w \in Ways |-> NextPort(w, port[w])]
      /\ ex_cm' = IF mispredict THEN [w \in Ways |-> NoResult] ELSE ex_packet
      /\ preg' = [i \in Slot |-> IF data[i].valid /\ data'[i].valid THEN Written(i) ELSE 0]
      /\ fpc' = IF misp0 THEN first.ins + 1 ELSE IF misp1 THEN second.ins + 1
                ELSE IF viol0 THEN first.ins ELSE IF ld_rollback THEN second.ins ELSE fpc + n
      /\ arch' = arch + (IF commit1 THEN 2 ELSE IF commit0 THEN 1 ELSE 0)
      /\ reads' = ReadsAfter
      /\ UNCHANGED prog

Init ==
  /\ prog \in Programs
  /\ fpc = 0 /\ arch = 0
  /\ Rob!Init /\ SQ!Init /\ LQ!Init /\ RTB!Init /\ LB!Init
  /\ rs = {}
  /\ is_ex = [w \in Ways |-> Idle]
  /\ ex_cm = [w \in Ways |-> NoResult]
  /\ preg = [i \in Slot |-> 0]
  /\ unified_memory = [a \in Addr |-> 0]
  /\ reads = [k \in Op |-> 0]

Finished == arch = NUM_OPS /\ RTB!empty

Cycle ==
  /\ ~Finished
  /\ \E go \in BOOLEAN, p0 \in Choices(0), p1 \in Choices(1) :
       Apart(p0, p1) /\ Clock(go, [w \in Ways |-> IF w = 0 THEN p0 ELSE p1])

(* The program has ended. *)
Stopped == Finished /\ UNCHANGED vars

Next == Cycle \/ Stopped

Spec == Init /\ [][Next]_vars

(* Fetch, issue and memory keep moving: a cycle in which there is a bundle and
   each bank that may issue does. *)
Progress ==
  /\ ~Finished
  /\ \E p0 \in Choices(0), p1 \in Choices(1) :
       /\ Apart(p0, p1)
       /\ p0 = {} => Choices(0) = {{}} \/ p1 # {}
       /\ p1 = {} => Choices(1) = {{}} \/ p0 # {}
       /\ Clock(TRUE, [w \in Ways |-> IF w = 0 THEN p0 ELSE p1])

FairSpec == Spec /\ WF_vars(Progress)

-----------------------------------------------------------------------------
(* The registers keep their ranges. *)
Result == [valid : BOOLEAN, rob_idx : Slot, value : Value]

TypeOK ==
  /\ prog \in Programs
  /\ fpc \in 0 .. NUM_OPS /\ arch \in 0 .. NUM_OPS
  /\ Rob!TypeOK /\ SQ!TypeOK /\ LQ!TypeOK
  /\ rs \subseteq RsEntry
  /\ \A w \in Ways : is_ex[w] = Idle \/ \E o \in Op : /\ is_ex[w].kind = prog[o].kind
                                                     /\ is_ex[w].addr = prog[o].addr
                                                     /\ is_ex[w].value = o + 1
  /\ ex_cm \in [Ways -> Result]
  /\ preg \in [Slot -> Value]
  /\ rtb \in Seq(SQ!Entry)
  /\ lb \in [LB!Idx -> [occupied : BOOLEAN, valid : BOOLEAN, value : Value,
                        load : [rob_idx : Slot, addr : Addr]]]
  /\ lb_head \in LB!Idx /\ lb_tail \in LB!Idx
  /\ unified_memory \in [Addr -> Value]
  /\ reads \in [Op -> Value]

-----------------------------------------------------------------------------
InFlight == {i \in Slot : data[i].valid}
KindOf(i) == prog[data[i].ins].kind
AddrOf(i) == prog[data[i].ins].addr
Flying(kind) == {i \in InFlight : KindOf(i) = kind}
Before(i, S) == {j \in S : Rob!Age(j) < Rob!Age(i)}

(* The place that the k-th oldest of the stores, or loads, in flight has. *)
SqPlace(i) == SQ!Wrap(sq_head + Cardinality(Before(i, Flying("store"))))
LqPlace(i) == LQ!Wrap(lq_head + Cardinality(Before(i, Flying("load"))))

(* The queues hold exactly the stores, and the loads, in flight, in program order,
   and the indices that an instruction carries to its port still point at its
   place: ring pointers moved by dispatch and by retirement, and copies of them
   taken at dispatch, have to agree whatever executes in between. *)
QueuesExact ==
  /\ TypeOK
  /\ SQ!Wrap(sq_tail - sq_head) = Cardinality(Flying("store"))
  /\ LQ!Wrap(lq_tail - lq_head) = Cardinality(Flying("load"))
  /\ \A e \in rs \cup {is_ex[w] : w \in {v \in Ways : is_ex[v].valid}} :
       LET i == e.rob_idx
       IN  /\ e.SQ_idx = SQ!Wrap(SqPlace(i) + (IF KindOf(i) = "store" THEN 1 ELSE 0))
           /\ e.LQ_idx = LQ!Wrap(LqPlace(i) + (IF KindOf(i) = "load" THEN 1 ELSE 0))
  /\ \A i \in Flying("store") : retire_tag[i] =>
       sq[SqPlace(i)] = [valid |-> TRUE, addr |-> AddrOf(i), value |-> data[i].ins + 1]
  /\ \A i \in Flying("load") :
       lq[LqPlace(i)].rob_idx = i /\ (retire_tag[i] => lq[LqPlace(i)].valid)

(* The places of the load buffer in use; their occupied bits do not say it. *)
InBuffer == {j \in LB!Idx : LB!Wrap(j - lb_head) < LB!Wrap(lb_tail - lb_head)}

(* Every instruction in flight is in exactly one place: the station, a port, the
   load buffer, the EX/CM register, or completed; so its result comes once and is
   never lost, however ports are held, loads are put aside and returns are put
   off.  What a load rollback leaves in EX/CM meets an empty reorder buffer. *)
OnePlace ==
  LET places(i) == {<<"station", e>> : e \in {x \in rs : x.rob_idx = i}}
                   \cup {<<"port", w>> : w \in {v \in Ways : is_ex[v].valid /\ is_ex[v].rob_idx = i}}
                   \cup {<<"buffer", j>> : j \in {k \in InBuffer : lb[k].load.rob_idx = i}}
                   \cup {<<"bus", w>> : w \in {v \in Ways : ex_cm[v].valid /\ ex_cm[v].rob_idx = i}}
                   \cup (IF retire_tag[i] THEN {<<"done", 0>>} ELSE {})
  IN  rob_cnt > 0 => \A i \in Slot : Cardinality(places(i)) = IF data[i].valid THEN 1 ELSE 0

(* Memory as the program sees it: what waits in the retire buffer counts. *)
SeenMemory ==
  [a \in Addr |->
     LET S == {k \in 1 .. Len(rtb) : rtb[k].addr = a}
     IN  IF S = {} THEN unified_memory[a]
         ELSE rtb[CHOOSE k \in S : \A l \in S : l <= k].value]

(* What a load in flight has to find: the youngest older store to its address. *)
Expected(i) ==
  LET S == {j \in Before(i, Flying("store")) : AddrOf(j) = AddrOf(i)}
  IN  IF S = {} THEN SeenMemory[AddrOf(i)]
      ELSE data[CHOOSE j \in S : \A k \in S : Rob!Age(k) <= Rob!Age(j)].ins + 1

(* A load before i, or i itself, is marked: it will be executed again, and i with it. *)
Doubtful(i) ==
  \E j \in Flying("load") : data[j].rd_mem_violation /\ Rob!Age(j) <= Rob!Age(i)

(* A load that has completed, with every older store executed, holds the value of the
   youngest older store to its address, or it or a load before it is marked to be
   executed again: a store marks the first of the loads that went ahead of it, and its
   rollback has to take the others along. *)
LoadsRight ==
  \A i \in Flying("load") :
    /\ retire_tag[i] /\ ~Doubtful(i)
    /\ \A j \in Before(i, Flying("store")) : retire_tag[j]
    => preg[i] = Expected(i)

Sequential == INSTANCE SeqMemory WITH pc <- arch, memory <- SeenMemory

(* LSQ.sv with its buffers implements one memory on which loads and stores act in
   program order: out-of-order loads, forwarding, re-execution and the delayed
   writes of the retire buffer do not show. *)
ImplementsSeqMemory == Sequential!Spec

(* An idle port 0 finds a store to the address 0 that it holds, and keeps the load buffer
   from returning a load whose data is there. *)
Starved == ~is_ex[0].valid /\ hit(0) /\ LB!dout.valid

(* Every program ends with its stores in memory: no load waits for ever for a port, the
   bus or the load buffer.  There is one exception, a defect of the code: the store that an
   idle port 0 finds (LSQ.sv:404) stays where it is when it is behind the load that is kept
   from returning.  Nothing else stops a program. *)
Terminates == <>Finished \/ <>[]Starved
=============================================================================
