---------------------------- MODULE CoreProofs ----------------------------
(***************************************************************************)
(* The core, for every size, every number of registers and every program   *)
(* without an illegal instruction.                                         *)
(*                                                                         *)
(* Types and what they rest on: the ring of the reorder buffer is that of  *)
(* RobProofs, seen through the inputs that rename, the completion buses    *)
(* and execution give it.  Renaming: the maps are those of a program that  *)
(* is renamed one instruction at a time, registers are given out in        *)
(* program order, and every register is in one place.  Wakeup: what waits  *)
(* for a register in the reservation station or in the map waits for       *)
(* exactly the results that have not been on a bus.  The path of the       *)
(* program: what commits and where a rollback resumes.                     *)
(***************************************************************************)
EXTENDS Core, FiniteSetTheorems, TLAPS

R == INSTANCE RobProofs WITH head <- rob_head, tail <- rob_tail,
                                       entry_cnt <- rob_cnt, Instr <- Payload, Inputs <- {}

(* What the compiler makes of a program: the decoder takes the valid bit from an illegal
   instruction alone (id_stage.sv:50), and a bundle whose first is illegal is one the
   reorder buffer is not up to. *)
NoIllegal == \A p \in Programs : \A a \in PC : p[a].kind # "illegal"

(* A bundle is filled from the first way on. *)
BundleOrder == id_rn[1].valid => id_rn[0].valid

(* An instruction in flight is what its address says; only a branch is found taken, only a
   load violated; and it has a register to free exactly when it writes one. *)
EntryExact(d, c) ==
  /\ d.is_branch = (c.kind = "branch") /\ d.rd_mem = (c.kind = "load")
  /\ d.ex_take_branch => d.is_branch
  /\ d.rd_mem_violation => d.rd_mem
  /\ d.ins.T_new # 0 <=> c.rd # 0
  /\ d.ins.T_old # 0 <=> c.rd # 0
EntriesExact == \A i \in InFlight : EntryExact(data[i], prog[data[i].ins.pc])

(* The zero register is renamed to the zero register, and nothing else is. *)
ZeroExact ==
  /\ \A a \in Map!AReg : (rat_tag[a] = 0 <=> a = 0) /\ (rrat_tag[a] = 0 <=> a = 0)
  /\ \A i \in Slot : fl_table[i] # 0

(* The free list has given out one register for each instruction in flight that writes. *)
FreeCount == fl_cnt = Cardinality(Writers) /\ fl_tail = FL!Wrap(fl_head + fl_cnt)

(* What is in the station is in flight and has not completed. *)
StationLive == \A i \in Slot : rs[i] # "none" => data[i].valid /\ ~retire_tag[i]

CoreInv ==
  /\ TypeOK /\ R!RingInv
  /\ BundleOrder /\ EntriesExact /\ ZeroExact /\ FreeCount /\ StationLive /\ ResultsLive

-----------------------------------------------------------------------------
LEMMA Sizes == ROB_SIZE \in Nat /\ ROB_SIZE >= 2 /\ NUM_ARCH \in Nat /\ NUM_ARCH >= 2
  BY CoreAssumption

(* The ring as Core and as RobProofs see it. *)
LEMMA RobParams == R!RobAssumption /\ R!InputsAssumption
  BY Sizes DEF R!RobAssumption, R!InputsAssumption

LEMMA SameStall == \A f : R!dp_stall(f) = Rob!dp_stall(f)
  BY DEF R!dp_stall, Rob!dp_stall, R!cb_full, R!cb_almost_full, Rob!cb_full, Rob!cb_almost_full

LEMMA SameAge == \A i : R!Age(i) = Rob!Age(i)
  BY DEF R!Age, Rob!Age

LEMMA SameReady ==
  /\ \A c : R!head_retire_rdy(c) = Rob!head_retire_rdy(c)
  /\ \A c : R!head_p1_retire_rdy(c) = Rob!head_p1_retire_rdy(c)
  /\ R!head_p1 = Rob!head_p1 /\ R!tail_p1 = Rob!tail_p1
  BY DEF R!head_retire_rdy, R!head_p1_retire_rdy, R!Completed, R!CompletesNow, R!head_p1,
         R!tail_p1, R!Wrap, R!Ways, Rob!head_retire_rdy, Rob!head_p1_retire_rdy,
         Rob!Completed, Rob!CompletesNow, Rob!head_p1, Rob!tail_p1, Rob!Wrap, Rob!Ways

LEMMA SameCompleted == \A c, i : R!Completed(c, i) = Rob!Completed(c, i)
  BY DEF R!Completed, R!CompletesNow, R!Ways, Rob!Completed, Rob!CompletesNow, Rob!Ways

LEMMA SameDispatches ==
  \A d, s, c : R!Dispatches(d, s, c) = Rob!Dispatches(d, s, c)
  BY DEF R!Dispatches, R!Listed, R!Count, R!dp_en1, R!dp_en2, R!reti_en1, R!reti_en2,
         R!cb_full, R!cb_almost_full, R!head_retire_rdy, R!head_p1_retire_rdy, R!Completed,
         R!CompletesNow, R!head_p1, R!Wrap, R!Ways,
         Rob!Dispatches, Rob!Listed, Rob!Count, Rob!dp_en1, Rob!dp_en2, Rob!reti_en1,
         Rob!reti_en2, Rob!cb_full, Rob!cb_almost_full, Rob!head_retire_rdy,
         Rob!head_p1_retire_rdy, Rob!Completed, Rob!CompletesNow, Rob!head_p1, Rob!Wrap, Rob!Ways

LEMMA SameClock ==
  ASSUME NEW d, NEW s, NEW c, NEW e, NEW q
  PROVE  Rob!Clock(d, s, c, e, q) <=> R!Clock(d, s, c, e, q)
  BY DEF R!Clock, R!Dispatches, R!Retires, R!Listed, R!Count, R!dp_en1, R!dp_en2, R!reti_en1,
         R!reti_en2, R!cb_full, R!cb_almost_full, R!NextSlot, R!NextRetireTag, R!WithViolation,
         R!WithBranchResult, R!Popped, R!Filled, R!Zero, R!Idx, R!tail_p1, R!head_retire_rdy,
         R!head_p1_retire_rdy, R!Completed, R!CompletesNow, R!head_p1, R!Wrap, R!Ways,
         Rob!Clock, Rob!Dispatches, Rob!Retires, Rob!Listed, Rob!Count, Rob!dp_en1, Rob!dp_en2,
         Rob!reti_en1, Rob!reti_en2, Rob!cb_full, Rob!cb_almost_full, Rob!NextSlot,
         Rob!NextRetireTag, Rob!WithViolation, Rob!WithBranchResult, Rob!Popped, Rob!Filled,
         Rob!Zero, Rob!Idx, Rob!tail_p1, Rob!head_retire_rdy, Rob!head_p1_retire_rdy,
         Rob!Completed, Rob!CompletesNow, Rob!head_p1, Rob!Wrap, Rob!Ways

-----------------------------------------------------------------------------
(* A finite set has an element whose number is lowest, and one whose number is highest. *)
LEMMA HighestExists ==
  ASSUME NEW S, IsFiniteSet(S), S # {}, NEW num, \A i \in S : num[i] \in Int
  PROVE  \E i \in S : \A j \in S : num[j] <= num[i]
<1> DEFINE Above(i) == {j \in S : num[j] > num[i]}
           T == {Above(i) : i \in S}
<1>1. T \subseteq FiniteSubsetsOf(S)
  <2>1. FiniteSubsetsOf(S) = SUBSET S
    BY FS_FiniteSubsetsOfFinite
  <2>2. QED
    BY <2>1
<1>2. T # {}
  OBVIOUS
<1>3. PICK A \in T : \A B \in T : ~(<<B, A>> \in StrictSubsetOrdering(S))
  <2> HIDE DEF T
  <2>1. IsWellFoundedOn(StrictSubsetOrdering(S), FiniteSubsetsOf(S))
    BY FS_StrictSubsetOrderingWellFounded
  <2>2. QED
    BY <1>1, <1>2, <2>1, WFMin
<1>4. PICK i \in S : A = Above(i)
  OBVIOUS
<1>5. Above(i) = {}
  <2>1. SUFFICES ASSUME NEW j \in Above(i) PROVE FALSE
    OBVIOUS
  <2>2. Above(j) \in T /\ Above(j) \subseteq Above(i) /\ j \notin Above(j)
    OBVIOUS
  <2>3. <<Above(j), Above(i)>> \in StrictSubsetOrdering(S)
    BY <2>2 DEF StrictSubsetOrdering
  <2>4. QED
    BY <1>3, <1>4, <2>2, <2>3
<1>6. QED
  BY <1>5

LEMMA LowestExists ==
  ASSUME NEW S, IsFiniteSet(S), S # {}, NEW num, \A i \in S : num[i] \in Int
  PROVE  \E i \in S : \A j \in S : num[i] <= num[j]
<1> DEFINE neg == [i \in S |-> -num[i]]
<1>1. \E i \in S : \A j \in S : neg[j] <= neg[i]
  <2>1. \A i \in S : neg[i] \in Int
    OBVIOUS
  <2> HIDE DEF neg
  <2>2. QED
    BY <2>1, HighestExists
<1>2. QED
  BY <1>1

(* The same for a set of slots. *)
LEMMA SlotsFinite == IsFiniteSet(Slot) /\ Cardinality(Slot) = ROB_SIZE
  BY Sizes, FS_Interval DEF Slot

LEMMA EndsExist ==
  ASSUME NEW S \in SUBSET Slot, S # {}
  PROVE  /\ \E x \in S : \A y \in S : x <= y
         /\ \E x \in S : \A y \in S : x >= y
<1> DEFINE num == [i \in S |-> i]
<1>1. IsFiniteSet(S) /\ \A i \in S : num[i] \in Int
  <2>1. IsFiniteSet(S)
    BY SlotsFinite, FS_Subset
  <2>2. \A i \in S : i \in Int
    BY Sizes DEF Slot
  <2>3. QED
    BY <2>1, <2>2
<1>2. /\ \E i \in S : \A j \in S : num[i] <= num[j]
      /\ \E i \in S : \A j \in S : num[j] <= num[i]
  <2> HIDE DEF num
  <2>1. QED
    BY <1>1, LowestExists, HighestExists
<1>3. QED
  BY <1>1, <1>2 DEF Slot

LEMMA PortInSet ==
  ASSUME NEW S \in SUBSET Slot, S # {}, NEW w \in Ways
  PROVE  OnPort(S, w) \in S
  BY EndsExist DEF OnPort

(* The two results that go on the buses are results. *)
LEMMA ResultEnds ==
  ASSUME TypeOK, ex_cm # {}
  PROVE  Lowest(ex_cm) \in ex_cm /\ Highest(ex_cm) \in ex_cm
<1> DEFINE S == {r.rob_idx : r \in ex_cm}
<1>1. S \in SUBSET Slot /\ S # {}
  BY DEF TypeOK
<1>2. (\E x \in S : \A y \in S : x <= y) /\ (\E x \in S : \A y \in S : x >= y)
  <2> HIDE DEF S
  <2>1. QED
    BY <1>1, EndsExist
<1>3. /\ \E r \in ex_cm : \A x \in ex_cm : r.rob_idx <= x.rob_idx
      /\ \E r \in ex_cm : \A x \in ex_cm : r.rob_idx >= x.rob_idx
  BY <1>2
<1>4. QED
  BY <1>3 DEF Lowest, Highest

-----------------------------------------------------------------------------
(* The inputs of one cycle of the ring. *)
RingInput(f, leave, taken, verdict) ==
  [din |-> rn_dp, rs_full |-> f, cdb |-> cdb,
   ex |-> [w \in Ways |-> BranchPort(leave, taken, w)],
   sq |-> [w \in Ways |-> StorePort(verdict, w)]]

LEMMA Sets ==
  /\ R!Idx = Slot /\ FL!Slots = Slot /\ FL!PReg = PReg /\ Map!AReg = 0 .. NUM_ARCH - 1
  /\ R!Ways = Ways /\ Map!Ways = Ways
  BY DEF R!Idx, Slot, FL!Slots, FL!PReg, PReg, Map!AReg, R!Ways, Ways, Map!Ways

LEMMA ProgTyped ==
  ASSUME TypeOK, NEW a \in PC
  PROVE  prog[a] \in Inst /\ prog[a].rd \in Map!AReg /\ prog[a].rs \in Map!AReg
         /\ prog[a].target \in PC /\ prog[a].kind \in Kind
<1>1. prog[a] \in Inst
  BY CoreAssumption DEF TypeOK
<1>2. QED
  BY <1>1 DEF Inst, Map!AReg

LEMMA EntryTyped ==
  ASSUME CoreInv, NEW i \in InFlight
  PROVE  LET d == data[i]
         IN  /\ i \in Slot /\ R!Age(i) \in 0 .. rob_cnt - 1
             /\ d.ins \in Payload /\ d.ins.pc \in PC
             /\ d.ins.T_new \in PReg /\ d.ins.T_old \in PReg /\ d.ins.src \in PReg
             /\ d.is_branch \in BOOLEAN /\ d.rd_mem \in BOOLEAN
             /\ d.ex_take_branch \in BOOLEAN /\ d.rd_mem_violation \in BOOLEAN
             /\ prog[d.ins.pc] \in Inst
<1>1. i \in Slot /\ data[i].valid /\ data[i] \in R!Entry
  BY Sets DEF CoreInv, InFlight, R!RingInv, R!TypeOK
<1>2. /\ data[i].ins \in Payload
      /\ data[i].is_branch \in BOOLEAN /\ data[i].rd_mem \in BOOLEAN
      /\ data[i].ex_take_branch \in BOOLEAN /\ data[i].rd_mem_violation \in BOOLEAN
  BY <1>1 DEF R!Entry
<1>3. /\ data[i].ins.pc \in PC /\ data[i].ins.T_new \in PReg
      /\ data[i].ins.T_old \in PReg /\ data[i].ins.src \in PReg
  BY <1>2 DEF Payload
<1>4. prog[data[i].ins.pc] \in Inst
  BY <1>3, ProgTyped DEF CoreInv
<1>5. R!Age(i) \in 0 .. rob_cnt - 1
  <2>1. R!Age(i) \in Slot /\ R!Age(i) < rob_cnt /\ rob_cnt \in 0 .. ROB_SIZE
    BY <1>1, R!AgeType, RobParams, Sets DEF CoreInv, R!RingInv, R!WindowExact, R!TypeOK
  <2>2. QED
    BY <2>1, Sizes DEF Slot
<1>6. QED
  BY <1>1, <1>2, <1>3, <1>4, <1>5

(* What rename makes of a bundle. *)
LEMMA RenameTyped ==
  ASSUME CoreInv, NEW w \in Ways
  PROVE  /\ id_rn[w].valid \in BOOLEAN /\ id_rn[w].pc \in PC
         /\ Decoded(w) \in Inst /\ Decoded(w).rd \in Map!AReg /\ Decoded(w).rs \in Map!AReg
         /\ T_idx(w) \in PReg
         /\ Map!T_old(rat_write, w) \in PReg
         /\ Operand(w).tag \in PReg
         /\ rn_dp[w] = Renamed(w)
         /\ rn_dp[w].valid <=> id_rn[w].valid
<1>1. id_rn[w].valid \in BOOLEAN /\ \A x \in Ways : id_rn[x].pc \in PC
  BY DEF CoreInv, TypeOK
<1>2. \A x \in Ways : /\ Decoded(x) \in Inst /\ Decoded(x).rd \in Map!AReg
                     /\ Decoded(x).rs \in Map!AReg
  BY <1>1, ProgTyped DEF Decoded, CoreInv
<1>3. \A x \in Ways : T_idx(x) \in PReg
  <2>1. fl_table \in [Slot -> PReg] /\ fl_tail \in Slot /\ FL!Wrap(fl_tail + 1) \in Slot
    BY Sets, Sizes DEF CoreInv, TypeOK, FL!TypeOK, FL!Wrap, Slot
  <2>2. 0 \in PReg
    BY Sizes DEF PReg
  <2>3. QED
    BY <2>1, <2>2 DEF T_idx, FL!dout, FL!ZERO_PREG
<1>4. \A a \in Map!AReg : rat_tag[a] \in PReg
  BY DEF CoreInv, TypeOK, MapTypeOK
<1>5. 0 \in PReg /\ 0 \in Map!AReg
  BY Sizes, Sets DEF PReg
<1>6. \A x \in Ways : rat_write[x].addr \in Map!AReg /\ rat_write[x].tag \in PReg
  BY <1>2, <1>3, <1>5 DEF rat_write, NoWrite, Ways
<1>7. Map!T_old(rat_write, w) \in PReg
  BY <1>4, <1>6 DEF Map!T_old, Ways
<1>8. Operand(w).tag \in PReg
  BY <1>2, <1>4, <1>5, <1>6 DEF Operand, Map!Source, Map!ZERO_REG, Ways
<1>9. rn_dp[w] = Renamed(w) /\ (rn_dp[w].valid <=> id_rn[w].valid)
  BY <1>1 DEF rn_dp, Renamed
<1>10. QED
  BY <1>1, <1>2, <1>3, <1>7, <1>8, <1>9

LEMMA InputTyped ==
  ASSUME CoreInv, NEW f \in BOOLEAN, NEW leave \in Leaving,
         NEW taken \in Outcomes(leave), NEW verdict \in Verdicts(leave)
  PROVE  R!Edge(RingInput(f, leave, taken, verdict))
<1> DEFINE in == RingInput(f, leave, taken, verdict)
<1>1. \A w \in Ways : rn_dp[w] \in R!Dispatched
  <2>1. SUFFICES ASSUME NEW w \in Ways PROVE rn_dp[w] \in R!Dispatched
    OBVIOUS
  <2>2. CASE ~id_rn[w].valid
    BY <2>2, RenameTyped DEF Renamed, R!Dispatched
  <2>3. CASE id_rn[w].valid
    <3>1. PICK p \in Payload : p = [pc |-> id_rn[w].pc, T_new |-> T_idx(w),
                                    T_old |-> Map!T_old(rat_write, w), src |-> Operand(w).tag]
      BY RenameTyped DEF Payload
    <3>2. PICK b \in BOOLEAN, l \in BOOLEAN :
            b = (Decoded(w).kind = "branch") /\ l = (Decoded(w).kind = "load")
      OBVIOUS
    <3>3. rn_dp[w] = [valid |-> TRUE, ins |-> p, is_branch |-> b, rd_mem |-> l]
      BY <2>3, <3>1, <3>2, RenameTyped DEF Renamed
    <3>4. QED
      BY <3>3 DEF R!Dispatched
  <2>4. QED
    BY <2>2, <2>3
<1>2. in.din \in [R!Ways -> R!Dispatched] /\ (in.din[1].valid => in.din[0].valid)
  BY <1>1, RenameTyped, Sets DEF RingInput, rn_dp, Ways, CoreInv, BundleOrder
<1>3. \A w \in R!Ways :
        [valid |-> in.cdb[w].valid, rob_idx |-> in.cdb[w].rob_idx] \in R!Completions
  <2>1. ex_cm # {} => Lowest(ex_cm) \in ex_cm /\ Highest(ex_cm) \in ex_cm
    BY ResultEnds DEF CoreInv
  <2>2. ex_cm # {} => Lowest(ex_cm).rob_idx \in Slot /\ Highest(ex_cm).rob_idx \in Slot
    BY <2>1 DEF CoreInv, TypeOK
  <2>3. 0 \in Slot
    BY Sizes DEF Slot
  <2>4. \A w \in Ways : cdb[w].valid \in BOOLEAN /\ cdb[w].rob_idx \in Slot
    BY <2>2, <2>3 DEF cdb, OnBus, NoResult
  <2>5. QED
    BY <2>4, Sets DEF RingInput, R!Completions
<1>4. in.ex \in [R!Ways -> R!BranchDone]
  <2>1. \A w \in Ways : BranchPort(leave, taken, w) \in R!BranchDone
    <3>1. SUFFICES ASSUME NEW w \in Ways PROVE BranchPort(leave, taken, w) \in R!BranchDone
      OBVIOUS
    <3> DEFINE S == {i \in leave : data[i].is_branch}
    <3>2. S \in SUBSET Slot
      BY DEF Leaving, Ready
    <3>3. 0 \in Slot
      BY Sizes DEF Slot
    <3>4. S # {} => OnPort(S, w) \in Slot
      BY <3>2, PortInSet
    <3> HIDE DEF S
    <3>5. BranchPort(leave, taken, w) =
            IF S = {} THEN [branch_done |-> FALSE, rob_idx |-> 0, take_branch |-> FALSE]
            ELSE [branch_done |-> TRUE, rob_idx |-> OnPort(S, w),
                  take_branch |-> OnPort(S, w) \in taken]
      BY DEF BranchPort, S
    <3>6. (OnPort(S, w) \in taken) \in BOOLEAN
      OBVIOUS
    <3>7. QED
      BY <3>3, <3>4, <3>5, <3>6, Sets DEF R!BranchDone
  <2>2. QED
    BY <2>1, Sets DEF RingInput
<1>5. in.sq \in [R!Ways -> R!StoreDone]
  <2>1. \A w \in Ways : StorePort(verdict, w) \in R!StoreDone
    <3>1. SUFFICES ASSUME NEW w \in Ways PROVE StorePort(verdict, w) \in R!StoreDone
      OBVIOUS
    <3> DEFINE S == Stores(leave)
               i == OnPort(S, w)
    <3>2. S \in SUBSET Slot /\ DOMAIN verdict = S
      BY DEF Leaving, Ready, Stores, Verdicts
    <3>3. 0 \in Slot
      BY Sizes DEF Slot
    <3>4. S # {} => verdict[i] \in Verdict(i) /\ i \in Slot
      BY <3>2, PortInSet DEF Verdicts
    <3>5. S # {} => verdict[i].ld \in Slot /\ verdict[i].hit \in BOOLEAN
      BY <3>4 DEF Verdict, Younger
    <3> HIDE DEF S
    <3>6. StorePort(verdict, w) =
            IF S = {} THEN [done |-> FALSE, ld_rob_idx |-> 0, mem_violation |-> FALSE]
            ELSE [done |-> TRUE, ld_rob_idx |-> verdict[i].ld, mem_violation |-> verdict[i].hit]
      BY <3>2 DEF StorePort
    <3> HIDE DEF i
    <3>7. QED
      BY <3>3, <3>5, <3>6, Sets DEF R!StoreDone
  <2>2. QED
    BY <2>1, Sets DEF RingInput
<1>6. QED
  BY <1>2, <1>3, <1>4, <1>5 DEF R!Edge, R!IsInput, CoreInv, RingInput

-----------------------------------------------------------------------------
(* What a cycle without a rollback does to the reorder buffer: r instructions leave, m enter. *)
Kept(i) ==
  /\ data'[i].ins = data[i].ins
  /\ data'[i].is_branch = data[i].is_branch /\ data'[i].rd_mem = data[i].rd_mem
  /\ data'[i].ex_take_branch # data[i].ex_take_branch => data[i].is_branch
  /\ data'[i].rd_mem_violation # data[i].rd_mem_violation => data[i].rd_mem

Moves(r, m) ==
  /\ r \in 0 .. 2 /\ m \in 0 .. 2 /\ r <= rob_cnt /\ rob_cnt + m <= ROB_SIZE
  /\ r >= 1 <=> head_retire_rdy
  /\ r = 2 <=> head_p1_retire_rdy
  /\ m >= 1 => id_rn[0].valid /\ rob_cnt + 2 <= ROB_SIZE
  /\ m = 2 => id_rn[1].valid
  /\ rob_head' = R!Wrap(rob_head + r)
  /\ rob_cnt' = rob_cnt + m - r
  /\ \A i \in Slot :
       /\ data'[i].valid <=> r <= R!Age(i) /\ R!Age(i) < rob_cnt + m
       /\ r <= R!Age(i) => R!Age(i)' = R!Age(i) - r
       /\ r <= R!Age(i) /\ R!Age(i) < rob_cnt => Kept(i)
       /\ m >= 1 /\ R!Age(i) = rob_cnt => data'[i] = R!Filled(rn_dp[0])
       /\ m = 2 /\ R!Age(i) = rob_cnt + 1 => data'[i] = R!Filled(rn_dp[1])
       /\ retire_tag'[i] <=> R!NextRetireTag(cdb, i)

(* How many enter depends on the stall and on the bundle. *)
Entering(f) ==
  IF R!dp_stall(f) \/ ~id_rn[0].valid THEN 0 ELSE IF id_rn[1].valid THEN 2 ELSE 1

(* The head and the slot behind it, when they retire, are in flight. *)
LEMMA Heads ==
  ASSUME CoreInv
  PROVE  /\ rob_head \in Slot /\ R!Age(rob_head) = 0
         /\ Rob!head_p1 \in Slot /\ R!Age(Rob!head_p1) = 1
         /\ head_retire_rdy => rob_head \in InFlight /\ rob_cnt >= 1
         /\ head_p1_retire_rdy => head_retire_rdy /\ Rob!head_p1 \in InFlight /\ rob_cnt >= 2
<1>1. R!RingInv /\ rob_head \in Slot /\ rob_cnt \in 0 .. ROB_SIZE
  BY Sets DEF CoreInv, R!RingInv, R!TypeOK
<1>2. R!Age(rob_head) = 0 /\ Rob!head_p1 \in Slot /\ R!Age(Rob!head_p1) = 1
  BY <1>1, R!AgeType, RobParams, Sets, SameReady
<1>3. head_retire_rdy => rob_cnt >= 1
  BY <1>1, R!RetireEnables, RobParams, SameReady DEF head_retire_rdy
<1>4. head_p1_retire_rdy => head_retire_rdy /\ rob_cnt >= 2
  BY <1>1, R!RetireEnables, RobParams, SameReady DEF head_retire_rdy, head_p1_retire_rdy
<1>5. \A i \in Slot : data[i].valid <=> R!Age(i) < rob_cnt
  BY <1>1, Sets DEF R!RingInv, R!WindowExact
<1>6. QED
  BY <1>1, <1>2, <1>3, <1>4, <1>5, Sizes DEF InFlight

(* Without a rollback both of the two oldest leave that the ring lets go. *)
LEMMA NoRollbackReady ==
  ASSUME CoreInv, ~rollback
  PROVE  /\ head_p1_retire_rdy <=> Rob!head_p1_retire_rdy(cdb)
         /\ ~viol0 /\ ~viol1 /\ ~mispredict
<1>1. first.ex_take_branch /\ head_retire_rdy => misp0
  BY Heads, EntryTyped DEF CoreInv, EntriesExact, EntryExact, misp0, first
<1>2. Rob!head_p1_retire_rdy(cdb) => head_retire_rdy
  BY DEF head_retire_rdy, Rob!head_retire_rdy, Rob!head_p1_retire_rdy
<1>3. ~mispredict /\ ~misp0
  BY DEF rollback, mispredict
<1>4. viol0 => first.rd_mem
  BY Heads, EntryTyped DEF CoreInv, EntriesExact, EntryExact, viol0, first
<1>5. viol1 => second.rd_mem
  BY Heads, EntryTyped DEF CoreInv, EntriesExact, EntryExact, viol1, second
<1>6. QED
  BY <1>1, <1>2, <1>3, <1>4, <1>5 DEF rollback, ld_rollback, head_p1_retire_rdy

(* What enters, as the ring counts it. *)
LEMMA DispatchCount ==
  ASSUME CoreInv, NEW f
  PROVE  /\ R!Dispatches(rn_dp, R!dp_stall(f), cdb) = Entering(f)
         /\ Entering(f) >= 1 => id_rn[0].valid /\ rob_cnt + 2 <= ROB_SIZE
         /\ Entering(f) = 2 => id_rn[1].valid
<1> DEFINE s == R!dp_stall(f)
<1>1. (rn_dp[0].valid <=> id_rn[0].valid) /\ (rn_dp[1].valid <=> id_rn[1].valid)
  BY RenameTyped DEF Ways
<1>2. ~s => ~R!cb_full /\ ~R!cb_almost_full /\ rob_cnt + 2 <= ROB_SIZE
  BY Sizes DEF R!dp_stall, R!cb_full, R!cb_almost_full, CoreInv, TypeOK, RobTypeOK
<1>3. id_rn[1].valid => id_rn[0].valid
  BY DEF CoreInv, BundleOrder
<1>4. R!Listed(rn_dp, s, cdb)
  BY <1>1, <1>2, <1>3, R!RetireEnables, RobParams DEF R!Listed, R!dp_en1, R!dp_en2, CoreInv
<1>5. QED
  BY <1>1, <1>2, <1>3, <1>4 DEF R!Dispatches, R!Count, R!dp_en1, R!dp_en2, Entering

LEMMA StepMoves ==
  ASSUME CoreInv, NEW go, NEW f \in BOOLEAN, NEW leave \in Leaving,
         NEW taken \in Outcomes(leave), NEW verdict \in Verdicts(leave),
         Clock(go, f, leave, taken, verdict), ~rollback
  PROVE  \E r \in 0 .. 2 : Moves(r, Entering(f)) /\ R!RingInv'
<1>1. PICK in : in = RingInput(f, leave, taken, verdict)
  OBVIOUS
<1>2. R!Edge(in)
  BY <1>1, InputTyped
<1>3. R!Clock(in.din, R!dp_stall(in.rs_full), in.cdb, in.ex, in.sq)
  <2>1. Rob!Clock(in.din, Rob!dp_stall(in.rs_full), in.cdb, in.ex, in.sq)
    BY <1>1 DEF Clock, RingInput
  <2>2. QED
    BY <2>1, SameClock, SameStall
<1>4. R!RingInv'
  BY <1>2, <1>3, R!ClockRing, RobParams
<1> DEFINE s == R!dp_stall(in.rs_full)
<1>5. PICK r, m : r = R!Retires(in.din, s, in.cdb) /\ m = R!Dispatches(in.din, s, in.cdb)
  OBVIOUS
<1>6. /\ m \in 0 .. 2 /\ rob_cnt + m <= ROB_SIZE
      /\ r \in 0 .. 2 /\ r <= rob_cnt
      /\ r >= 1 <=> R!head_retire_rdy(in.cdb)
      /\ r = 2 <=> R!head_p1_retire_rdy(in.cdb)
  BY <1>2, <1>5, R!Movement, RobParams
<1>7. (r >= 1 <=> head_retire_rdy) /\ (r = 2 <=> head_p1_retire_rdy)
  BY <1>1, <1>6, SameReady, NoRollbackReady DEF head_retire_rdy, RingInput
<1>8. /\ rob_head' = R!Wrap(rob_head + r) /\ rob_cnt' = rob_cnt + m - r
      /\ data' = [i \in Slot |-> R!NextSlot(in.din, s, in.cdb, in.ex, in.sq, i)]
      /\ retire_tag' = [i \in Slot |-> R!NextRetireTag(in.cdb, i)]
  BY <1>3, <1>5, Sets DEF R!Clock
<1>9. m = Entering(f) /\ (m >= 1 => id_rn[0].valid /\ rob_cnt + 2 <= ROB_SIZE)
      /\ (m = 2 => id_rn[1].valid)
  BY <1>1, <1>5, DispatchCount DEF RingInput
<1>10. ASSUME NEW i \in Slot
       PROVE  /\ data'[i].valid <=> r <= R!Age(i) /\ R!Age(i) < rob_cnt + m
              /\ r <= R!Age(i) /\ R!Age(i) < rob_cnt => Kept(i)
              /\ m >= 1 /\ R!Age(i) = rob_cnt => data'[i] = R!Filled(rn_dp[0])
              /\ m = 2 /\ R!Age(i) = rob_cnt + 1 => data'[i] = R!Filled(rn_dp[1])
              /\ retire_tag'[i] <=> R!NextRetireTag(cdb, i)
  <2>1. i \in R!Idx /\ R!Age(i) \in Nat /\ rob_cnt \in Nat
    BY R!AgeType, RobParams, Sets, Sizes DEF CoreInv, R!RingInv, R!TypeOK, Slot
  <2>2. data'[i] = R!NextSlot(in.din, s, in.cdb, in.ex, in.sq, i)
        /\ retire_tag'[i] = R!NextRetireTag(in.cdb, i)
    BY <1>8
  <2>3. data'[i].valid <=> r <= R!Age(i) /\ R!Age(i) < rob_cnt + m
    BY <1>2, <1>5, <2>1, <2>2, R!SlotsAfter, RobParams
  <2>4. r <= R!Age(i) /\ R!Age(i) < rob_cnt => Kept(i)
    BY <1>2, <1>5, <2>1, <2>2, R!SlotKept, RobParams DEF Kept
  <2>5. rob_cnt <= R!Age(i) /\ R!Age(i) < rob_cnt + m =>
          data'[i] = R!Filled(in.din[IF R!Age(i) = rob_cnt THEN 0 ELSE 1])
    BY <1>2, <1>5, <2>1, <2>2, R!SlotFilled, RobParams
  <2>6. in.din = rn_dp /\ in.cdb = cdb
    BY <1>1 DEF RingInput
  <2>7. QED
    BY <1>6, <2>1, <2>2, <2>3, <2>4, <2>5, <2>6
<1>11. \A i \in Slot : r <= R!Age(i) => R!Age(i)' = R!Age(i) - r
  BY <1>6, <1>8, Sizes DEF R!Age, R!Wrap, Slot, CoreInv, TypeOK, RobTypeOK
<1>12. QED
  BY <1>4, <1>6, <1>7, <1>8, <1>9, <1>10, <1>11 DEF Moves

(* The enables of the free list's write ports, and of the dispatches, one by one. *)
LEMMA Frees ==
  /\ retire_en[0] <=> head_retire_rdy /\ first.ins.T_old # 0 /\ ~viol0
  /\ retire_en[1] <=> head_p1_retire_rdy /\ second.ins.T_old # 0 /\ ~viol1 /\ ~viol0
                        /\ ~(rollback /\ ~second.is_branch)
  /\ retire_en[0] \in BOOLEAN /\ retire_en[1] \in BOOLEAN
<1>1. 0 \in Ways /\ 1 \in Ways
  BY DEF Ways
<1>2. retire_en[0] = (head_retire_rdy /\ first.ins.T_old # 0 /\ ~viol0)
  BY <1>1 DEF retire_en
<1>3. retire_en[1] = (head_p1_retire_rdy /\ second.ins.T_old # 0 /\ ~viol1 /\ ~viol0
                        /\ ~(rollback /\ ~second.is_branch))
  BY <1>1 DEF retire_en
<1>4. QED
  BY <1>2, <1>3, Zenon

-----------------------------------------------------------------------------
(* Types. *)
LEMMA TypeKept ==
  ASSUME CoreInv, R!RingInv', Cardinality(Writers') \in 0 .. ROB_SIZE,
         fl_cnt' = Cardinality(Writers'),
         NEW go, NEW f \in BOOLEAN, NEW leave \in Leaving,
         NEW taken \in Outcomes(leave), NEW verdict \in Verdicts(leave),
         Clock(go, f, leave, taken, verdict)
  PROVE  TypeOK'
<1>1. prog' = prog /\ prog \in Programs
  BY DEF Clock, CoreInv, TypeOK
<1>2. \A x \in Int : \A n \in {1, 2} : x \in PC => Plus(x, n) \in PC
  BY CoreAssumption DEF Plus, PC
<1>3. 0 \in PC /\ PC_reg \in PC /\ arch_pc \in PC /\ (\A x \in PC : x \in Int)
  BY CoreAssumption DEF PC, CoreInv, TypeOK
<1>4. /\ head_retire_rdy => first.ins.pc \in PC /\ prog[first.ins.pc].target \in PC
      /\ head_p1_retire_rdy => second.ins.pc \in PC /\ prog[second.ins.pc].target \in PC
  BY Heads, EntryTyped, ProgTyped DEF CoreInv, first, second
<1>5. PC_reg' \in PC
  <2>1. mispredict => mispredict_target_pc \in PC
    BY <1>4 DEF mispredict, mispredict_target_pc, misp0, misp1
  <2>2. ld_rollback => ld_rollback_pc \in PC
    BY <1>4 DEF ld_rollback, ld_rollback_pc, viol0, viol1
  <2>3. Sequential \in PC
    BY <1>2, <1>3 DEF Sequential
  <2>4. QED
    BY <1>3, <2>1, <2>2, <2>3 DEF Clock
<1>6. arch_pc' \in PC
  <2>1. commit0 => After(first) \in PC
    BY <1>2, <1>3, <1>4 DEF After, commit0
  <2>2. commit1 => After(second) \in PC
    BY <1>2, <1>3, <1>4 DEF After, commit1
  <2>3. QED
    BY <1>3, <2>1, <2>2 DEF Clock
<1>7. id_rn' \in [Ways -> [valid : BOOLEAN, pc : PC]]
  <2>1. NoInst \in [valid : BOOLEAN, pc : PC]
    BY <1>3 DEF NoInst
  <2>2. \A x \in PC : Decode(x) \in [valid : BOOLEAN, pc : PC]
    BY <2>1 DEF Decode
  <2>3. Fetched \in [Ways -> [valid : BOOLEAN, pc : PC]]
    BY <1>2, <1>3, <2>1, <2>2 DEF Fetched
  <2>4. NoBundle \in [Ways -> [valid : BOOLEAN, pc : PC]]
    BY <2>1 DEF NoBundle
  <2>5. QED
    BY <2>3, <2>4 DEF Clock, CoreInv, TypeOK
<1>8. RobTypeOK'
  <2>1. R!Entry = Rob!Entry
    BY DEF R!Entry, Rob!Entry
  <2>2. QED
    BY <2>1, Sets DEF R!RingInv, R!TypeOK, RobTypeOK
<1>9. FL!TypeOK'
  <2>1. fl_head' \in Slot /\ fl_tail' \in Slot
    BY Sizes DEF Clock, FL!Clock, FL!Number, FL!Wrap, Slot, CoreInv, TypeOK, FL!TypeOK, FL!Slots
  <2>2. fl_table' \in [Slot -> PReg]
    <3>1. \A w \in Ways : retire_T_old[w] \in PReg
      <4>1. /\ retire_en[0] => first.ins.T_old \in PReg
            /\ retire_en[1] => second.ins.T_old \in PReg
        BY Heads, EntryTyped, Frees DEF first, second
      <4>2. 0 \in PReg
        BY Sizes DEF PReg
      <4>3. QED
        BY <4>1, <4>2 DEF retire_T_old, Ways
    <3>2. QED
      BY <3>1, Sets DEF Clock, FL!Clock, FL!Freed, CoreInv, TypeOK, FL!TypeOK, Ways
  <2>3. QED
    BY <2>1, <2>2, Sets DEF FL!TypeOK
<1>10. MapTypeOK'
  <2>1. \A w \in Ways : rat_write[w].en => rat_write[w].tag \in PReg
    BY RenameTyped DEF rat_write, NoWrite
  <2>2. \A w \in Ways : rrat_write[w].en => rrat_write[w].tag \in PReg
    BY Heads, EntryTyped DEF rrat_write, Commit, NoWrite, first, second
  <2>3. \A a \in Map!AReg : rat_tag[a] \in PReg /\ rrat_tag[a] \in PReg /\ preg_ready[a] \in BOOLEAN
    BY DEF CoreInv, TypeOK, MapTypeOK
  <2>4. rrat_tag' \in [Map!AReg -> PReg]
    BY <2>2, <2>3 DEF Clock, Map!Clock, Map!Committed, Ways
  <2>5. rat_tag' \in [Map!AReg -> PReg]
    BY <2>1, <2>2, <2>3 DEF Clock, Map!Clock, Map!Restored, Map!RratCopy, Ways
  <2>6. preg_ready' \in [Map!AReg -> BOOLEAN]
    <3>1. CASE rollback
      BY <3>1 DEF Clock, Map!Clock
    <3>2. CASE ~rollback
      BY <3>2 DEF Clock, Map!Clock
    <3>3. QED
      BY <3>1, <3>2
  <2>7. QED
    BY <2>4, <2>5, <2>6 DEF MapTypeOK
<1>11. rs' \in [Slot -> {"none", "wait", "ready"}]
  <2>1. \A n : Station(leave, n) \in [Slot -> {"none", "wait", "ready"}]
    BY DEF Station, CoreInv, TypeOK
  <2>2. QED
    BY <2>1 DEF Clock
<1>12. ex_cm' \subseteq [rob_idx : Slot, tag : PReg]
  <2>1. \A i \in leave : i \in InFlight
    BY DEF Leaving, Ready, CoreInv, StationLive, InFlight
  <2>2. Results(leave) \subseteq [rob_idx : Slot, tag : PReg]
    BY <2>1, EntryTyped DEF Results
  <2>3. QED
    BY <2>2 DEF Clock
<1>13. system_halt' \in BOOLEAN
  BY DEF Clock
<1>14. QED
  BY <1>1, <1>5, <1>6, <1>7, <1>8, <1>9, <1>10, <1>11, <1>12, <1>13, Zenon DEF TypeOK

-----------------------------------------------------------------------------
(* Bundles: the second way is filled with the first, there being no illegal instruction. *)
LEMMA BundleKept ==
  ASSUME CoreInv, NoIllegal,
         NEW go, NEW f, NEW leave, NEW taken, NEW verdict,
         Clock(go, f, leave, taken, verdict)
  PROVE  BundleOrder'
<1>1. PC_reg \in PC /\ prog[PC_reg].kind # "illegal"
  BY DEF CoreInv, TypeOK, NoIllegal
<1>2. Fetched[0].valid
  BY <1>1 DEF Fetched, Decode, Ways
<1>3. ~NoBundle[1].valid
  BY DEF NoBundle, NoInst, Ways
<1>4. id_rn' = NoBundle \/ id_rn' = id_rn \/ id_rn' = Fetched
  BY DEF Clock
<1>5. QED
  BY <1>2, <1>3, <1>4 DEF BundleOrder, CoreInv

(* Registers: what rename offers is zero for the zero register alone. *)
LEMMA Offers ==
  /\ dispatch_en[0] <=> id_rn[0].valid /\ Decoded(0).rd # 0
  /\ dispatch_en[1] <=> id_rn[1].valid /\ Decoded(1).rd # 0
  /\ dispatch_en[0] \in BOOLEAN /\ dispatch_en[1] \in BOOLEAN
<1>1. 0 \in Ways /\ 1 \in Ways
  BY DEF Ways
<1>2. dispatch_en[0] = (id_rn[0].valid /\ Decoded(0).rd # 0)
  BY <1>1 DEF dispatch_en
<1>3. dispatch_en[1] = (id_rn[1].valid /\ Decoded(1).rd # 0)
  BY <1>1 DEF dispatch_en
<1>4. QED
  BY <1>2, <1>3, Zenon

LEMMA RenameExact ==
  ASSUME CoreInv, NEW w \in Ways, id_rn[w].valid
  PROVE  /\ T_idx(w) # 0 <=> Decoded(w).rd # 0
         /\ Map!T_old(rat_write, w) # 0 <=> Decoded(w).rd # 0
<1>1. fl_table[fl_tail] # 0 /\ fl_table[FL!Wrap(fl_tail + 1)] # 0
  <2>1. fl_tail \in Slot /\ FL!Wrap(fl_tail + 1) \in Slot
    BY Sets, Sizes DEF CoreInv, TypeOK, FL!TypeOK, FL!Wrap, Slot
  <2>2. QED
    BY <2>1 DEF CoreInv, ZeroExact
<1>2. \A x \in Ways : id_rn[x].valid => (T_idx(x) # 0 <=> Decoded(x).rd # 0)
  BY <1>1, Offers DEF T_idx, FL!dout, FL!ZERO_PREG, Ways
<1>3. \A x \in Ways : Decoded(x).rd \in Map!AReg
  BY RenameTyped
<1>4. id_rn[1].valid => id_rn[0].valid
  BY DEF CoreInv, BundleOrder
<1>5. \A x \in Ways : id_rn[x].valid =>
         rat_write[x].addr = Decoded(x).rd /\ rat_write[x].tag = T_idx(x)
  BY DEF rat_write
<1>6. Map!T_old(rat_write, w) # 0 <=> Decoded(w).rd # 0
  <2>1. \A a \in Map!AReg : rat_tag[a] # 0 <=> a # 0
    BY DEF CoreInv, ZeroExact
  <2>2. w = 0 \/ w = 1
    BY DEF Ways
  <2>3. 0 \in Ways
    BY DEF Ways
  <2>4. QED
    BY <1>2, <1>3, <1>4, <1>5, <2>1, <2>2, <2>3 DEF Map!T_old
<1>7. QED
  BY <1>2, <1>6

(* What enters the reorder buffer. *)
LEMMA FilledExact ==
  ASSUME CoreInv, NEW w \in Ways, id_rn[w].valid
  PROVE  LET d == R!Filled(rn_dp[w])
         IN  /\ d.ins = [pc |-> id_rn[w].pc, T_new |-> T_idx(w),
                         T_old |-> Map!T_old(rat_write, w), src |-> Operand(w).tag]
             /\ EntryExact(d, Decoded(w))
<1>1. rn_dp[w] = Renamed(w)
  BY RenameTyped
<1>2. Renamed(w) =
        [valid |-> TRUE,
         ins |-> [pc |-> id_rn[w].pc, T_new |-> T_idx(w),
                  T_old |-> Map!T_old(rat_write, w), src |-> Operand(w).tag],
         is_branch |-> Decoded(w).kind = "branch",
         rd_mem |-> Decoded(w).kind = "load"]
  BY DEF Renamed
<1>3. QED
  BY <1>1, <1>2, RenameExact DEF R!Filled, EntryExact

LEMMA EntriesKept ==
  ASSUME CoreInv, NEW r, NEW m, Moves(r, m), prog' = prog
  PROVE  EntriesExact'
<1> SUFFICES ASSUME NEW i \in InFlight'
             PROVE  EntryExact(data'[i], prog[data'[i].ins.pc])
  BY DEF EntriesExact, EntryExact
<1>1. /\ i \in Slot /\ r <= R!Age(i) /\ R!Age(i) < rob_cnt + m /\ R!Age(i) \in Nat
      /\ rob_cnt \in Nat /\ m \in 0 .. 2
  <2>1. i \in Slot /\ data'[i].valid
    BY DEF InFlight
  <2>2. R!Age(i) \in Slot
    BY <2>1, R!AgeType, RobParams, Sets DEF CoreInv
  <2>3. QED
    BY <2>1, <2>2, Sizes DEF Moves, Slot, CoreInv, TypeOK, RobTypeOK
<1>2. CASE R!Age(i) < rob_cnt
  <2>1. i \in InFlight
    BY <1>1, <1>2, Sets DEF InFlight, CoreInv, R!RingInv, R!WindowExact
  <2>2. Kept(i)
    BY <1>1, <1>2 DEF Moves
  <2>3. EntryExact(data[i], prog[data[i].ins.pc])
    BY <2>1 DEF CoreInv, EntriesExact
  <2>4. QED
    BY <2>2, <2>3 DEF Kept, EntryExact
<1>3. CASE R!Age(i) = rob_cnt
  <2>1. m >= 1 /\ data'[i] = R!Filled(rn_dp[0]) /\ id_rn[0].valid
    BY <1>1, <1>3 DEF Moves
  <2>2. QED
    BY <2>1, FilledExact DEF Ways, Decoded
<1>4. CASE R!Age(i) = rob_cnt + 1
  <2>1. m = 2 /\ data'[i] = R!Filled(rn_dp[1]) /\ id_rn[1].valid
    BY <1>1, <1>4 DEF Moves
  <2>2. QED
    BY <2>1, FilledExact DEF Ways, Decoded
<1>5. QED
  BY <1>1, <1>2, <1>3, <1>4

(* What the commits write is no zero register and no register zero. *)
LEMMA CommitExact ==
  ASSUME CoreInv, NEW w \in Ways, rrat_write[w].en
  PROVE  /\ rrat_write[w].addr \in Map!AReg /\ rrat_write[w].addr # 0
         /\ rrat_write[w].tag # 0
<1>1. CASE w = 0
  <2>1. rob_head \in InFlight /\ first.ins.T_new # 0
    BY <1>1, Heads DEF rrat_write, Commit, NoWrite
  <2>2. prog[first.ins.pc] \in Inst /\ EntryExact(first, prog[first.ins.pc])
    BY <2>1, EntryTyped DEF first, CoreInv, EntriesExact
  <2>3. rrat_write[w].addr = prog[first.ins.pc].rd /\ rrat_write[w].tag = first.ins.T_new
    BY <1>1 DEF rrat_write, Commit, NoWrite
  <2>4. QED
    BY <2>1, <2>2, <2>3 DEF EntryExact, Inst, Map!AReg
<1>2. CASE w = 1
  <2>1. Rob!head_p1 \in InFlight /\ second.ins.T_new # 0
    BY <1>2, Heads DEF rrat_write, Commit, NoWrite
  <2>2. prog[second.ins.pc] \in Inst /\ EntryExact(second, prog[second.ins.pc])
    BY <2>1, EntryTyped DEF second, CoreInv, EntriesExact
  <2>3. rrat_write[w].addr = prog[second.ins.pc].rd /\ rrat_write[w].tag = second.ins.T_new
    BY <1>2 DEF rrat_write, Commit, NoWrite
  <2>4. QED
    BY <2>1, <2>2, <2>3 DEF EntryExact, Inst, Map!AReg
<1>3. QED
  BY <1>1, <1>2 DEF Ways

LEMMA ZeroKept ==
  ASSUME CoreInv, NEW go, NEW f, NEW leave, NEW taken, NEW verdict,
         Clock(go, f, leave, taken, verdict)
  PROVE  ZeroExact'
<1>1. \A i \in Slot : fl_table'[i] # 0
  <2>1. \A w \in Ways : retire_en[w] => retire_T_old[w] # 0
    BY Frees DEF retire_T_old, Ways
  <2>2. QED
    BY <2>1, Sets DEF Clock, FL!Clock, FL!Freed, CoreInv, ZeroExact, Ways
<1>2. \A a \in Map!AReg : rrat_tag'[a] = 0 <=> a = 0
  BY CommitExact DEF Clock, Map!Clock, Map!Committed, Ways, CoreInv, ZeroExact
<1>3. \A a \in Map!AReg : rat_tag'[a] = 0 <=> a = 0
  <2>1. CASE rollback
    BY <2>1, CommitExact DEF Clock, Map!Clock, Map!Restored, Map!RratCopy, Ways, CoreInv, ZeroExact
  <2>2. CASE ~rollback
    <3>1. \A w \in Ways : rat_write[w].en => (rat_write[w].tag = 0 <=> rat_write[w].addr = 0)
      BY RenameExact DEF rat_write, NoWrite
    <3>2. QED
      BY <2>2, <3>1 DEF Clock, Map!Clock, Ways, CoreInv, ZeroExact
  <2>3. QED
    BY <2>1, <2>2
<1>4. QED
  BY <1>1, <1>2, <1>3 DEF ZeroExact

-----------------------------------------------------------------------------
(* How many of the n oldest instructions write a register. *)
Below(n) == {j \in Writers : R!Age(j) < n}
Rank(n)  == Cardinality(Below(n))

Wrote(i) == IF data[i].ins.T_new # 0 THEN 1 ELSE 0

RankExact ==
  /\ \A n \in Nat : IsFiniteSet(Below(n)) /\ Rank(n) \in 0 .. n /\ Rank(n) <= ROB_SIZE
  /\ \A i \in InFlight : Rank(R!Age(i) + 1) = Rank(R!Age(i)) + Wrote(i)
  /\ \A a, b \in Nat : a <= b => Rank(a) <= Rank(b)
  /\ Below(rob_cnt) = Writers

LEMMA Ranks == R!RingInv => RankExact
<1> SUFFICES ASSUME R!RingInv PROVE RankExact
  OBVIOUS
<1>1. /\ rob_cnt \in 0 .. ROB_SIZE
      /\ \A i \in Slot : R!Age(i) \in Slot /\ (data[i].valid <=> R!Age(i) < rob_cnt)
      /\ \A i, j \in Slot : R!Age(i) = R!Age(j) => i = j
  <2>1. /\ rob_cnt \in 0 .. ROB_SIZE
        /\ \A i \in Slot : R!Age(i) \in Slot /\ (data[i].valid <=> R!Age(i) < rob_cnt)
    BY R!AgeType, RobParams, Sets DEF R!RingInv, R!TypeOK, R!WindowExact
  <2>2. \A i, j \in Slot : R!Age(i) = R!Age(j) => i = j
    BY Sets, Sizes DEF R!RingInv, R!TypeOK, R!Age, Slot
  <2>3. QED
    BY <2>1, <2>2
<1>2. \A n : Below(n) \in SUBSET Slot /\ Writers \subseteq Slot
  BY DEF Below, Writers, InFlight
<1>3. ASSUME NEW n \in Nat
      PROVE  IsFiniteSet(Below(n)) /\ Rank(n) \in 0 .. n /\ Rank(n) <= ROB_SIZE
  <2>1. IsFiniteSet(Below(n)) /\ Rank(n) <= ROB_SIZE
    BY <1>2, SlotsFinite, FS_Subset DEF Rank
  <2> DEFINE age == [i \in Below(n) |-> R!Age(i)]
  <2>2. age \in Injection(Below(n), 0 .. n - 1)
    <3>1. \A i \in Below(n) : i \in Slot /\ R!Age(i) \in 0 .. n - 1
      BY <1>1, <1>2, Sizes DEF Below, Slot
    <3>2. age \in [Below(n) -> 0 .. n - 1]
      BY <3>1
    <3>3. \A i, j \in Below(n) : age[i] = age[j] => i = j
      BY <1>1, <3>1
    <3>4. QED
      BY <3>2, <3>3 DEF Injection, IsInjective
  <2>3. IsFiniteSet(0 .. n - 1) /\ Cardinality(0 .. n - 1) = n
    BY FS_Interval
  <2>4. Rank(n) <= n
    BY <2>2, <2>3, FS_Injection DEF Rank
  <2>5. Rank(n) \in Nat
    BY <2>1, FS_CardinalityType DEF Rank
  <2>6. QED
    BY <2>1, <2>4, <2>5
<1>4. ASSUME NEW i \in InFlight
      PROVE  Rank(R!Age(i) + 1) = Rank(R!Age(i)) + Wrote(i)
  <2>1. i \in Slot /\ R!Age(i) \in Nat
    BY <1>1, Sizes DEF InFlight, Slot
  <2>2. IsFiniteSet(Below(R!Age(i))) /\ Rank(R!Age(i)) \in Nat
    BY <1>3, <2>1
  <2>3. ASSUME NEW j \in Writers PROVE R!Age(j) \in Nat /\ (R!Age(j) = R!Age(i) <=> j = i)
    <3>1. j \in Slot /\ R!Age(j) \in Slot
      BY <1>1, <1>2
    <3>2. R!Age(j) = R!Age(i) => j = i
      BY <1>1, <2>1, <3>1
    <3>3. R!Age(j) \in Nat
      BY <3>1, Sizes DEF Slot
    <3>4. QED
      BY <3>2, <3>3
  <2>4. i \in Writers <=> data[i].ins.T_new # 0
    BY DEF Writers
  <2>5. CASE i \in Writers
    <3>1. Below(R!Age(i) + 1) = Below(R!Age(i)) \cup {i} /\ i \notin Below(R!Age(i))
      BY <2>1, <2>3, <2>5 DEF Below
    <3>2. QED
      BY <2>2, <2>4, <2>5, <3>1, FS_AddElement DEF Rank, Wrote
  <2>6. CASE i \notin Writers
    <3>1. Below(R!Age(i) + 1) = Below(R!Age(i))
      BY <2>1, <2>3, <2>6 DEF Below
    <3>2. QED
      BY <2>2, <2>4, <2>6, <3>1 DEF Rank, Wrote
  <2>7. QED
    BY <2>5, <2>6
<1>5. ASSUME NEW a \in Nat, NEW b \in Nat, a <= b PROVE Rank(a) <= Rank(b)
  <2>1. Below(a) \in SUBSET Below(b)
    BY <1>1, <1>2, <1>5, Sizes DEF Below, Slot
  <2>2. QED
    BY <1>3, <2>1, FS_Subset DEF Rank
<1>6. Below(rob_cnt) = Writers
  BY <1>1 DEF Below, Writers, InFlight
<1>7. QED
  BY <1>3, <1>4, <1>5, <1>6 DEF RankExact

LEMMA RanksNext == R!RingInv' => RankExact'
  BY Ranks, PTL

(* Ages, and the slots that are filled. *)
LEMMA Ages ==
  ASSUME CoreInv
  PROVE  /\ rob_cnt \in 0 .. ROB_SIZE /\ rob_cnt \in Nat
         /\ \A i \in Slot : R!Age(i) \in Slot /\ R!Age(i) \in Nat
         /\ \A i \in Slot : data[i].valid <=> R!Age(i) < rob_cnt
  BY R!AgeType, RobParams, Sets, Sizes DEF CoreInv, R!RingInv, R!TypeOK, R!WindowExact, Slot

LEMMA Tails ==
  ASSUME CoreInv
  PROVE  /\ rob_cnt < ROB_SIZE => rob_tail \in Slot /\ R!Age(rob_tail) = rob_cnt
         /\ rob_cnt + 1 < ROB_SIZE =>
              Rob!tail_p1 \in Slot /\ R!Age(Rob!tail_p1) = rob_cnt + 1
         /\ \A i \in Slot : R!Age(i) = rob_cnt => i = rob_tail
         /\ \A i \in Slot : R!Age(i) = rob_cnt + 1 => i = Rob!tail_p1
<1>1. /\ rob_head \in Slot /\ rob_cnt \in 0 .. ROB_SIZE /\ rob_tail = R!Wrap(rob_head + rob_cnt)
  BY Sets DEF CoreInv, R!RingInv, R!TypeOK, R!WindowExact
<1>2. Rob!tail_p1 = R!Wrap(rob_tail + 1)
  BY SameReady DEF R!tail_p1
<1>3. QED
  BY <1>1, <1>2, Sizes DEF Slot, R!Wrap, R!Age

LEMMA Entered ==
  ASSUME CoreInv, NEW r, NEW m, Moves(r, m)
  PROVE  /\ m >= 1 => /\ rob_tail \in Slot /\ rob_tail \in InFlight' /\ R!Age(rob_tail) = rob_cnt
                      /\ \A i \in {rob_tail} : R!Age(i)' = rob_cnt - r
                      /\ data'[rob_tail] = R!Filled(rn_dp[0]) /\ id_rn[0].valid
         /\ m = 2 => /\ Rob!tail_p1 \in Slot /\ Rob!tail_p1 \in InFlight'
                     /\ R!Age(Rob!tail_p1) = rob_cnt + 1
                     /\ \A i \in {Rob!tail_p1} : R!Age(i)' = rob_cnt + 1 - r
                     /\ data'[Rob!tail_p1] = R!Filled(rn_dp[1]) /\ id_rn[1].valid
<1>1. /\ r \in 0 .. 2 /\ m \in 0 .. 2 /\ r <= rob_cnt /\ rob_cnt \in 0 .. ROB_SIZE
      /\ m >= 1 => id_rn[0].valid /\ rob_cnt + 2 <= ROB_SIZE
      /\ m = 2 => id_rn[1].valid
  BY Ages DEF Moves
<1>2. \A i \in Slot :
        /\ data'[i].valid <=> r <= R!Age(i) /\ R!Age(i) < rob_cnt + m
        /\ r <= R!Age(i) => R!Age(i)' = R!Age(i) - r
        /\ m >= 1 /\ R!Age(i) = rob_cnt => data'[i] = R!Filled(rn_dp[0])
        /\ m = 2 /\ R!Age(i) = rob_cnt + 1 => data'[i] = R!Filled(rn_dp[1])
  BY DEF Moves
<1>3. ASSUME m >= 1
      PROVE  /\ rob_tail \in Slot /\ rob_tail \in InFlight' /\ R!Age(rob_tail) = rob_cnt
             /\ \A i \in {rob_tail} : R!Age(i)' = rob_cnt - r
             /\ data'[rob_tail] = R!Filled(rn_dp[0])
  <2>1. rob_tail \in Slot /\ R!Age(rob_tail) = rob_cnt
    BY <1>1, <1>3, Tails, Sizes
  <2>2. QED
    BY <1>1, <1>2, <1>3, <2>1, Sizes DEF InFlight
<1>4. ASSUME m = 2
      PROVE  /\ Rob!tail_p1 \in Slot /\ Rob!tail_p1 \in InFlight'
             /\ R!Age(Rob!tail_p1) = rob_cnt + 1
             /\ \A i \in {Rob!tail_p1} : R!Age(i)' = rob_cnt + 1 - r
             /\ data'[Rob!tail_p1] = R!Filled(rn_dp[1])
  <2>1. Rob!tail_p1 \in Slot /\ R!Age(Rob!tail_p1) = rob_cnt + 1
    BY <1>1, <1>4, Tails, Sizes
  <2>2. QED
    BY <1>1, <1>2, <1>4, <2>1, Sizes DEF InFlight
<1>5. QED
  BY <1>1, <1>3, <1>4

(* What stays moves up by r places. *)
LEMMA RankShift ==
  ASSUME CoreInv, R!RingInv', NEW r, NEW m, Moves(r, m), NEW n \in Nat, r <= n, n <= rob_cnt
  PROVE  Below(n - r)' = Below(n) \ Below(r) /\ Rank(n - r)' = Rank(n) - Rank(r)
<1>1. /\ r \in 0 .. 2 /\ m \in 0 .. 2 /\ rob_cnt \in Nat /\ r <= rob_cnt
      /\ \A i \in Slot : R!Age(i) \in Nat /\ (data[i].valid <=> R!Age(i) < rob_cnt)
      /\ \A i \in Slot :
           /\ data'[i].valid <=> r <= R!Age(i) /\ R!Age(i) < rob_cnt + m
           /\ r <= R!Age(i) => R!Age(i)' = R!Age(i) - r
           /\ r <= R!Age(i) /\ R!Age(i) < rob_cnt => data'[i].ins = data[i].ins
  <2>1. r \in 0 .. 2 /\ m \in 0 .. 2 /\ r <= rob_cnt
    BY DEF Moves
  <2>2. rob_cnt \in Nat
        /\ \A i \in Slot : R!Age(i) \in Nat /\ (data[i].valid <=> R!Age(i) < rob_cnt)
    BY Ages
  <2>3. \A i \in Slot :
           /\ data'[i].valid <=> r <= R!Age(i) /\ R!Age(i) < rob_cnt + m
           /\ r <= R!Age(i) => R!Age(i)' = R!Age(i) - r
           /\ r <= R!Age(i) /\ R!Age(i) < rob_cnt => Kept(i)
    BY DEF Moves
  <2>4. QED
    BY <2>1, <2>2, <2>3 DEF Kept
<1>2. Below(n - r)' = Below(n) \ Below(r)
  <2>1. ASSUME NEW i \in Slot
        PROVE  i \in Below(n - r)' <=> i \in Below(n) /\ i \notin Below(r)
    <3>1. i \in Below(n - r)' <=> data'[i].valid /\ data'[i].ins.T_new # 0 /\ R!Age(i)' < n - r
      BY DEF Below, Writers, InFlight
    <3>2. i \in Below(n) <=> data[i].valid /\ data[i].ins.T_new # 0 /\ R!Age(i) < n
      BY DEF Below, Writers, InFlight
    <3>3. i \in Below(r) <=> data[i].valid /\ data[i].ins.T_new # 0 /\ R!Age(i) < r
      BY DEF Below, Writers, InFlight
    <3>4. QED
      BY <1>1, <3>1, <3>2, <3>3
  <2>2. Below(n - r)' \subseteq Slot /\ Below(n) \subseteq Slot
    BY DEF Below, Writers, InFlight
  <2>3. QED
    BY <2>1, <2>2
<1>3. Below(r) \in SUBSET Below(n) /\ IsFiniteSet(Below(n)) /\ Rank(n) \in Nat /\ Rank(r) \in Nat
  <2>1. Below(r) \subseteq Below(n)
    BY <1>1 DEF Below, Writers, InFlight
  <2>2. r \in Nat
    BY <1>1
  <2>3. QED
    BY <2>1, <2>2, Ranks DEF CoreInv, RankExact
<1>4. Cardinality(Below(n) \ Below(r)) = Cardinality(Below(n)) - Cardinality(Below(r))
  <2>1. Below(n) \cap Below(r) = Below(r)
    BY <1>3
  <2>2. QED
    BY <1>3, <2>1, FS_Difference
<1>5. Rank(n - r)' = Cardinality(Below(n - r)')
  BY DEF Rank
<1>6. QED
  BY <1>2, <1>4, <1>5 DEF Rank

(* The two oldest have ranks 0 and at most 1. *)
LEMMA HeadRanks ==
  ASSUME CoreInv
  PROVE  /\ Rank(0) = 0
         /\ rob_head \in InFlight => Rank(1) = Wrote(rob_head)
         /\ rob_head \in InFlight /\ Rob!head_p1 \in InFlight =>
              Rank(2) = Wrote(rob_head) + Wrote(Rob!head_p1)
<1>1. RankExact
  BY Ranks DEF CoreInv
<1>2. Rank(0) = 0
  <2>1. Rank(0) \in 0 .. 0
    BY <1>1 DEF RankExact
  <2>2. QED
    BY <2>1
<1>3. R!Age(rob_head) = 0 /\ R!Age(Rob!head_p1) = 1
  BY Heads
<1>4. rob_head \in InFlight => Rank(0 + 1) = Rank(0) + Wrote(rob_head)
  BY <1>1, <1>3 DEF RankExact
<1>5. Rob!head_p1 \in InFlight => Rank(1 + 1) = Rank(1) + Wrote(Rob!head_p1)
  BY <1>1, <1>3 DEF RankExact
<1>6. 0 + 1 = 1 /\ 1 + 1 = 2 /\ Wrote(rob_head) \in 0 .. 1 /\ Wrote(Rob!head_p1) \in 0 .. 1
  BY DEF Wrote
<1>7. QED
  BY <1>2, <1>4, <1>5, <1>6

(* As many registers are freed as instructions leave that write one. *)
LEMMA FreedCount ==
  ASSUME CoreInv, ~rollback, NEW r, NEW m, Moves(r, m)
  PROVE  FL!Number(retire_en) = Rank(r)
<1>1. /\ r \in 0 .. 2
      /\ r >= 1 <=> head_retire_rdy
      /\ r = 2 <=> head_p1_retire_rdy
  BY DEF Moves
<1>2. /\ r >= 1 => rob_head \in InFlight /\ (first.ins.T_old # 0 <=> Wrote(rob_head) = 1)
      /\ r = 2 => Rob!head_p1 \in InFlight /\ (second.ins.T_old # 0 <=> Wrote(Rob!head_p1) = 1)
  BY <1>1, Heads DEF first, second, Wrote, CoreInv, EntriesExact, EntryExact
<1>3. /\ retire_en[0] <=> r >= 1 /\ Wrote(rob_head) = 1
      /\ retire_en[1] <=> r = 2 /\ Wrote(Rob!head_p1) = 1
  BY <1>1, <1>2, Frees, NoRollbackReady
<1>4. Wrote(rob_head) \in 0 .. 1 /\ Wrote(Rob!head_p1) \in 0 .. 1
  BY DEF Wrote
<1>5. QED
  BY <1>1, <1>2, <1>3, <1>4, HeadRanks DEF FL!Number

(* And as many are given out as enter that write one. *)
LEMMA GivenCount ==
  ASSUME CoreInv, R!RingInv', NEW r, NEW f, Moves(r, Entering(f))
  PROVE  /\ \A c \in {rob_cnt'} : Rank(c)' =
               Rank(rob_cnt) - Rank(r) + (IF R!dp_stall(f) THEN 0 ELSE FL!Number(dispatch_en))
         /\ R!dp_stall(f) \/ Rank(rob_cnt) <= ROB_SIZE - 2
<1>1. PICK m : m = Entering(f)
  OBVIOUS
<1>2. /\ r \in 0 .. 2 /\ m \in 0 .. 2 /\ r <= rob_cnt /\ rob_cnt \in Nat
      /\ rob_cnt' = rob_cnt + m - r
  BY <1>1, Ages DEF Moves
<1>3. PICK k : k = rob_cnt - r
  OBVIOUS
<1>4. k \in Nat /\ rob_cnt' = k + m
  BY <1>2, <1>3
<1>5. PICK c : c = rob_cnt
  OBVIOUS
<1>6. Rank(k)' = Rank(c) - Rank(r)
  BY <1>1, <1>2, <1>3, <1>5, RankShift
<1>7. RankExact /\ RankExact'
  BY Ranks, RanksNext DEF CoreInv
<1>8. Rank(c) \in Nat /\ Rank(r) \in Nat /\ Rank(c) <= c
  BY <1>2, <1>5, <1>7 DEF RankExact
<1>9. m >= 1 => Rank(k + 1)' = Rank(k)' + (IF Decoded(0).rd # 0 THEN 1 ELSE 0)
  <2>1. SUFFICES ASSUME m >= 1
                 PROVE Rank(k + 1)' = Rank(k)' + (IF Decoded(0).rd # 0 THEN 1 ELSE 0)
    OBVIOUS
  <2>2. PICK i : i = rob_tail
    OBVIOUS
  <2>3. /\ i \in InFlight' /\ R!Age(i)' = k /\ data'[i] = R!Filled(rn_dp[0]) /\ id_rn[0].valid
    BY <1>1, <1>2, <1>3, <2>1, <2>2, Entered
  <2>4. Wrote(i)' = IF Decoded(0).rd # 0 THEN 1 ELSE 0
    BY <2>3, FilledExact DEF Wrote, EntryExact, Ways
  <2>5. QED
    BY <1>7, <2>3, <2>4 DEF RankExact
<1>10. m = 2 => Rank(k + 1 + 1)' = Rank(k + 1)' + (IF Decoded(1).rd # 0 THEN 1 ELSE 0)
  <2>1. SUFFICES ASSUME m = 2
                 PROVE Rank(k + 1 + 1)' = Rank(k + 1)' + (IF Decoded(1).rd # 0 THEN 1 ELSE 0)
    OBVIOUS
  <2>2. PICK i : i = Rob!tail_p1
    OBVIOUS
  <2>3. /\ i \in InFlight' /\ R!Age(i)' = k + 1 /\ data'[i] = R!Filled(rn_dp[1]) /\ id_rn[1].valid
    BY <1>1, <1>2, <1>3, <2>1, <2>2, Entered
  <2>4. Wrote(i)' = IF Decoded(1).rd # 0 THEN 1 ELSE 0
    BY <2>3, FilledExact DEF Wrote, EntryExact, Ways
  <2>5. QED
    BY <1>7, <2>3, <2>4 DEF RankExact
<1>11. FL!Number(dispatch_en) = (IF id_rn[0].valid /\ Decoded(0).rd # 0 THEN 1 ELSE 0)
                               + (IF id_rn[1].valid /\ Decoded(1).rd # 0 THEN 1 ELSE 0)
  BY Offers DEF FL!Number
<1>12. id_rn[1].valid => id_rn[0].valid
  BY DEF CoreInv, BundleOrder
<1>13. ASSUME NEW d \in {rob_cnt'}
       PROVE  Rank(d)' = Rank(c) - Rank(r) + (IF R!dp_stall(f) THEN 0 ELSE FL!Number(dispatch_en))
  <2>1. CASE m = 0
    <3>1. d = k
      BY <1>4, <2>1
    <3>2. R!dp_stall(f) \/ FL!Number(dispatch_en) = 0
      BY <1>1, <1>11, <1>12, <2>1 DEF Entering
    <3>3. QED
      BY <1>6, <1>8, <3>1, <3>2
  <2>2. CASE m = 1
    <3>1. d = k + 1
      BY <1>4, <2>2
    <3>2. ~R!dp_stall(f) /\ id_rn[0].valid /\ ~id_rn[1].valid
      BY <1>1, <2>2 DEF Entering
    <3>3. QED
      BY <1>6, <1>8, <1>9, <1>11, <2>2, <3>1, <3>2
  <2>3. CASE m = 2
    <3>1. d = k + 1 + 1
      BY <1>4, <2>3
    <3>2. ~R!dp_stall(f) /\ id_rn[0].valid /\ id_rn[1].valid
      BY <1>1, <2>3 DEF Entering
    <3>3. QED
      BY <1>6, <1>8, <1>9, <1>10, <1>11, <2>3, <3>1, <3>2
  <2>4. QED
    BY <1>2, <2>1, <2>2, <2>3
<1>14. R!dp_stall(f) \/ c <= ROB_SIZE - 2
  BY <1>5, Ages, Sizes DEF R!dp_stall, R!cb_full, R!cb_almost_full
<1>15. R!dp_stall(f) \/ Rank(rob_cnt) <= ROB_SIZE - 2
  BY <1>2, <1>5, <1>8, <1>14, Sizes
<1>16. QED
  BY <1>5, <1>13, <1>15

LEMMA FreeKept ==
  ASSUME CoreInv, R!RingInv', ~rollback, NEW r, NEW f, Moves(r, Entering(f)),
         FL!Clock(dispatch_en, Rob!dp_stall(f), retire_en, retire_T_old, rollback)
  PROVE  FreeCount' /\ fl_cnt' \in 0 .. ROB_SIZE
<1>1. PICK n, q : /\ n = IF R!dp_stall(f) THEN 0 ELSE FL!Number(dispatch_en)
                  /\ q = FL!Number(retire_en)
  OBVIOUS
<1>2. /\ fl_head' = FL!Wrap(fl_head + q) /\ fl_tail' = FL!Wrap(fl_tail + n)
      /\ fl_cnt' = fl_cnt + n - q
  BY <1>1, SameStall DEF FL!Clock
<1>3. n \in 0 .. 2 /\ q \in 0 .. 2
  BY <1>1 DEF FL!Number
<1>4. q = Rank(r)
  BY <1>1, FreedCount
<1>5. RankExact /\ RankExact'
  BY Ranks, RanksNext DEF CoreInv
<1>6. /\ r \in Nat /\ r <= rob_cnt /\ rob_cnt \in Nat
  BY Ages DEF Moves
<1>7. /\ fl_cnt = Rank(rob_cnt) /\ fl_cnt \in 0 .. ROB_SIZE /\ q <= fl_cnt
      /\ n = 0 \/ fl_cnt <= ROB_SIZE - 2
  <2>1. fl_cnt = Rank(rob_cnt)
    BY <1>5 DEF CoreInv, FreeCount, RankExact, Rank
  <2>2. Rank(rob_cnt) \in Nat /\ Rank(rob_cnt) <= ROB_SIZE /\ Rank(r) <= Rank(rob_cnt)
    BY <1>5, <1>6 DEF RankExact
  <2>3. QED
    BY <1>1, <1>4, <2>1, <2>2, GivenCount, Sizes
<1>8. fl_cnt' \in 0 .. ROB_SIZE
  BY <1>2, <1>3, <1>7, Sizes
<1>9. fl_cnt' = Cardinality(Writers')
  <2>1. PICK c : c = rob_cnt'
    OBVIOUS
  <2>2. Rank(c)' = fl_cnt'
    BY <1>1, <1>2, <1>3, <1>4, <1>7, <2>1, GivenCount
  <2>3. Below(c)' = Writers'
    BY <1>5, <2>1 DEF RankExact, Below
  <2>4. Rank(c)' = Cardinality(Below(c)')
    BY DEF Rank
  <2>5. QED
    BY <2>2, <2>3, <2>4
<1>10. fl_tail' = FL!Wrap(fl_head' + fl_cnt')
  <2>1. fl_head \in 0 .. ROB_SIZE - 1 /\ fl_tail = FL!Wrap(fl_head + fl_cnt)
    BY DEF CoreInv, FreeCount, TypeOK, FL!TypeOK, FL!Slots
  <2>2. \A h \in 0 .. ROB_SIZE - 1, c \in 0 .. ROB_SIZE, x, y \in 0 .. 2 :
          y <= c /\ c + x - y <= ROB_SIZE /\ c + x <= ROB_SIZE =>
            FL!Wrap(FL!Wrap(h + c) + x) = FL!Wrap(FL!Wrap(h + y) + (c + x - y))
    BY Sizes DEF FL!Wrap
  <2>3. fl_cnt + n <= ROB_SIZE /\ fl_cnt + n - q <= ROB_SIZE
    BY <1>3, <1>7, Sizes
  <2>4. FL!Wrap(FL!Wrap(fl_head + fl_cnt) + n) = FL!Wrap(FL!Wrap(fl_head + q) + (fl_cnt + n - q))
    BY <1>3, <1>7, <2>1, <2>2, <2>3
  <2>5. QED
    BY <1>2, <2>1, <2>4
<1>11. QED
  BY <1>8, <1>9, <1>10 DEF FreeCount

-----------------------------------------------------------------------------
(* Execution: what is in the station or on its way to the buses is in flight. *)
LEMMA OnBuses ==
  ASSUME TypeOK, NEW i
  PROVE  (\E w \in Ways : cdb[w].valid /\ cdb[w].rob_idx = i) => \E r \in ex_cm : r.rob_idx = i
<1>1. ex_cm # {} => Lowest(ex_cm) \in ex_cm /\ Highest(ex_cm) \in ex_cm
  BY ResultEnds
<1>2. QED
  BY <1>1 DEF cdb, OnBus, NoResult

(* A slot that waits to be executed does not complete. *)
LEMMA StationWaits ==
  ASSUME CoreInv, NEW i \in Slot, rs[i] # "none"
  PROVE  ~R!Completed(cdb, i) /\ i \in InFlight
<1>1. data[i].valid /\ ~retire_tag[i] /\ i \in InFlight
  BY DEF CoreInv, StationLive, InFlight
<1>2. rob_cnt # 0
  BY <1>1, Ages
<1>3. \A r \in ex_cm : r.rob_idx # i
  BY <1>2 DEF CoreInv, ResultsLive
<1>4. ~\E w \in Ways : cdb[w].valid /\ cdb[w].rob_idx = i
  BY <1>3, OnBuses DEF CoreInv
<1>5. QED
  BY <1>1, <1>4, Sets DEF R!Completed, R!CompletesNow

(* So it stays, and is not marked as completed. *)
LEMMA StationStays ==
  ASSUME CoreInv, NEW i \in Slot, rs[i] # "none", NEW r, NEW m, Moves(r, m)
  PROVE  data'[i].valid /\ ~retire_tag'[i] /\ data'[i].ins = data[i].ins
         /\ r <= R!Age(i) /\ R!Age(i) < rob_cnt
<1>1. ~R!Completed(cdb, i) /\ i \in InFlight
  BY StationWaits
<1>2. ~R!NextRetireTag(cdb, i)
  BY <1>1 DEF R!NextRetireTag
<1>3. R!Age(i) < rob_cnt /\ R!Age(i) \in Nat /\ rob_cnt \in Nat
  BY <1>1, Ages DEF InFlight
<1>4. r <= R!Age(i)
  <2>1. /\ r \in 0 .. 2
        /\ r >= 1 => i # rob_head
        /\ r = 2 => i # Rob!head_p1
    BY <1>1, SameReady, SameCompleted
    DEF Moves, head_retire_rdy, head_p1_retire_rdy, Rob!head_retire_rdy, Rob!head_p1_retire_rdy
  <2>2. (R!Age(i) = 0 => i = rob_head) /\ (R!Age(i) = 1 => i = Rob!head_p1)
    BY R!AgeType, RobParams, Sets, SameReady DEF CoreInv
  <2>3. QED
    BY <1>3, <2>1, <2>2
<1>5. Kept(i) /\ (retire_tag'[i] <=> R!NextRetireTag(cdb, i)) /\ data'[i].valid
  BY <1>3, <1>4 DEF Moves
<1>6. QED
  BY <1>2, <1>3, <1>4, <1>5 DEF Kept

LEMMA StationKept ==
  ASSUME CoreInv, NEW go, NEW f, NEW leave \in Leaving, NEW taken, NEW verdict,
         Clock(go, f, leave, taken, verdict), ~rollback, NEW r, Moves(r, Entering(f))
  PROVE  StationLive' /\ ResultsLive'
<1>1. PICK m : m = Entering(f)
  OBVIOUS
<1>2. Moves(r, m) /\ m \in 0 .. 2
  BY <1>1 DEF Moves
<1>3. R!Dispatches(rn_dp, R!dp_stall(f), cdb) = m
  BY <1>1, <1>2, DispatchCount
<1>4. rs' = Station(leave, m)
  BY <1>3, SameStall, SameDispatches DEF Clock
<1>5. ASSUME NEW i \in Slot, rs'[i] # "none"
      PROVE  data'[i].valid /\ ~retire_tag'[i]
  <2>1. CASE (m >= 1 /\ i = rob_tail) \/ (m = 2 /\ i = Rob!tail_p1)
    <3>1. i \in InFlight' /\ rob_cnt <= R!Age(i)
      BY <1>2, <2>1, Entered, Ages
    <3>2. ~data[i].valid
      BY <3>1, Ages
    <3>3. ~R!NextRetireTag(cdb, i)
      BY <3>2, Sets DEF R!NextRetireTag, R!Completed, R!CompletesNow, CoreInv, R!RingInv, R!NoStaleCompletion
    <3>4. QED
      BY <1>2, <3>1, <3>3 DEF Moves, InFlight
  <2>2. CASE ~((m >= 1 /\ i = rob_tail) \/ (m = 2 /\ i = Rob!tail_p1))
    <3>1. rs[i] # "none"
      BY <1>4, <1>5, <2>2 DEF Station
    <3>2. QED
      BY <1>2, <3>1, StationStays
  <2>3. QED
    BY <2>1, <2>2
<1>6. ASSUME NEW x \in ex_cm'
      PROVE  /\ data'[x.rob_idx].valid /\ data'[x.rob_idx].ins.T_new = x.tag
             /\ ~retire_tag'[x.rob_idx] /\ rs'[x.rob_idx] = "none"
  <2>1. PICK i \in leave : x = [rob_idx |-> i, tag |-> data[i].ins.T_new]
    BY NoRollbackReady DEF Clock, Results
  <2>2. i \in Slot /\ rs[i] = "ready"
    BY DEF Leaving, Ready
  <2>3. data'[i].valid /\ ~retire_tag'[i] /\ data'[i].ins = data[i].ins /\ R!Age(i) < rob_cnt
    BY <1>2, <2>2, StationStays
  <2>4. ~((m >= 1 /\ i = rob_tail) \/ (m = 2 /\ i = Rob!tail_p1))
    BY <1>2, <2>2, <2>3, Entered, Ages
  <2>5. rs'[i] = "none"
    BY <1>4, <2>2, <2>4 DEF Station
  <2>6. QED
    BY <2>1, <2>3, <2>5
<1>7. QED
  BY <1>5, <1>6 DEF StationLive, ResultsLive

-----------------------------------------------------------------------------
(* A rollback leaves nothing in flight. *)
LEMMA RollbackEmpties ==
  ASSUME CoreInv, rollback, NEW go, NEW f, NEW leave, NEW taken, NEW verdict,
         Clock(go, f, leave, taken, verdict)
  PROVE  /\ R!RingInv' /\ InFlight' = {} /\ Writers' = {} /\ rob_cnt' = 0
         /\ EntriesExact' /\ FreeCount' /\ fl_cnt' = 0 /\ StationLive' /\ ResultsLive'
<1>1. Rob!Flush
  BY DEF Clock
<1>2. R!RingInv'
  <2>1. R!Flush
    BY <1>1 DEF R!Flush, Rob!Flush, R!Idx, Rob!Idx, R!Zero, Rob!Zero
  <2>2. QED
    BY <2>1, R!FlushRing, RobParams DEF CoreInv
<1>3. InFlight' = {} /\ Writers' = {} /\ rob_cnt' = 0
  BY <1>1 DEF Rob!Flush, Rob!Idx, Rob!Zero, InFlight, Writers, Slot
<1>4. EntriesExact'
  BY <1>3 DEF EntriesExact
<1>5. fl_cnt' = 0 /\ fl_head' = fl_head /\ fl_tail' = fl_head
  BY DEF Clock, FL!Clock
<1>6. FreeCount'
  <2>1. Cardinality(Writers') = 0
    BY <1>3, FS_EmptySet
  <2>2. fl_head = FL!Wrap(fl_head + 0)
    BY Sizes DEF CoreInv, TypeOK, FL!TypeOK, FL!Slots, FL!Wrap
  <2>3. QED
    BY <1>5, <2>1, <2>2 DEF FreeCount
<1>7. StationLive'
  BY DEF Clock, StationLive
<1>8. ResultsLive'
  BY <1>3 DEF ResultsLive
<1>9. QED
  BY <1>2, <1>3, <1>4, <1>5, <1>6, <1>7, <1>8

LEMMA CoreInit == Init => CoreInv
<1> SUFFICES ASSUME Init PROVE CoreInv
  OBVIOUS
<1>1. R!RingInv
  <2>1. R!Init
    BY DEF Init, Rob!Init, R!Init, R!Idx, Rob!Idx, R!Zero, Rob!Zero
  <2>2. QED
    BY <2>1, R!InitRing, RobParams
<1>2. 0 \in PC
  BY CoreAssumption DEF PC
<1>3. id_rn \in [Ways -> [valid : BOOLEAN, pc : PC]] /\ BundleOrder
  BY <1>2 DEF Init, NoBundle, NoInst, BundleOrder, Ways
<1>4. RobTypeOK
  <2>1. R!Entry = Rob!Entry
    BY DEF R!Entry, Rob!Entry
  <2>2. QED
    BY <1>1, <2>1, Sets DEF R!RingInv, R!TypeOK, RobTypeOK
<1>5. FL!TypeOK
  BY Sizes DEF Init, FL!Init, FL!TypeOK, FL!Slots, FL!PReg
<1>6. MapTypeOK
  BY Sizes DEF Init, Map!Init, MapTypeOK, Map!AReg, PReg
<1>7. TypeOK
  <2>1. rs \in [Slot -> {"none", "wait", "ready"}]
    BY DEF Init
  <2>2. ex_cm \subseteq [rob_idx : Slot, tag : PReg]
    BY DEF Init
  <2>3. prog \in Programs /\ PC_reg \in PC /\ arch_pc \in PC /\ system_halt \in BOOLEAN
    BY <1>2 DEF Init
  <2>4. QED
    BY <1>3, <1>4, <1>5, <1>6, <2>1, <2>2, <2>3, Zenon DEF TypeOK
<1>8. InFlight = {} /\ Writers = {}
  BY DEF Init, Rob!Init, Rob!Idx, Rob!Zero, InFlight, Writers, Slot
<1>9. EntriesExact
  BY <1>8 DEF EntriesExact
<1>10. ZeroExact
  BY Sizes, Sets DEF Init, FL!Init, Map!Init, ZeroExact, Slot
<1>11. FreeCount
  BY <1>8, FS_EmptySet, Sizes DEF Init, FL!Init, FreeCount, FL!Wrap
<1>12. StationLive /\ ResultsLive
  BY DEF Init, StationLive, ResultsLive
<1>13. QED
  BY <1>1, <1>3, <1>7, <1>9, <1>10, <1>11, <1>12 DEF CoreInv

LEMMA CoreCycle == NoIllegal /\ CoreInv /\ Cycle => CoreInv'
<1> SUFFICES ASSUME NoIllegal, CoreInv, Cycle PROVE CoreInv'
  OBVIOUS
<1>1. PICK go \in BOOLEAN, f \in {FALSE, MayBeFull}, leave \in Leaving :
        \E t \in Outcomes(leave), v \in Verdicts(leave) : Clock(go, f, leave, t, v)
  BY DEF Cycle
<1>2. PICK taken \in Outcomes(leave), verdict \in Verdicts(leave) :
        Clock(go, f, leave, taken, verdict)
  BY <1>1
<1>3. f \in BOOLEAN
  BY DEF MayBeFull
<1>4. BundleOrder' /\ ZeroExact'
  BY <1>2, BundleKept, ZeroKept
<1>5. CASE rollback
  <2>1. /\ R!RingInv' /\ Writers' = {} /\ fl_cnt' = 0
        /\ EntriesExact' /\ FreeCount' /\ StationLive' /\ ResultsLive'
    BY <1>2, <1>5, RollbackEmpties
  <2>2. Cardinality(Writers') \in 0 .. ROB_SIZE /\ fl_cnt' = Cardinality(Writers')
    BY <2>1, FS_EmptySet, Sizes
  <2>3. TypeOK'
    BY <1>2, <1>3, <2>1, <2>2, TypeKept
  <2>4. QED
    BY <1>4, <2>1, <2>3 DEF CoreInv
<1>6. CASE ~rollback
  <2>1. PICK r \in 0 .. 2 : Moves(r, Entering(f)) /\ R!RingInv'
    BY <1>2, <1>3, <1>6, StepMoves
  <2>2. FL!Clock(dispatch_en, Rob!dp_stall(f), retire_en, retire_T_old, rollback)
    BY <1>2 DEF Clock
  <2>3. FreeCount' /\ fl_cnt' \in 0 .. ROB_SIZE
    BY <1>6, <2>1, <2>2, FreeKept
  <2>4. TypeOK'
    BY <1>2, <1>3, <2>1, <2>3, TypeKept DEF FreeCount
  <2>5. EntriesExact'
    BY <1>2, <2>1, EntriesKept DEF Clock
  <2>6. StationLive' /\ ResultsLive'
    BY <1>2, <1>6, <2>1, StationKept
  <2>7. QED
    BY <1>4, <2>1, <2>3, <2>4, <2>5, <2>6 DEF CoreInv
<1>7. QED
  BY <1>5, <1>6

LEMMA CoreStutter == CoreInv /\ UNCHANGED vars => CoreInv'
<1> SUFFICES ASSUME CoreInv, UNCHANGED vars PROVE CoreInv'
  OBVIOUS
<1> USE DEF vars, robVars, flVars, mapVars
<1>1. TypeOK'
  BY DEF CoreInv, TypeOK, RobTypeOK, FL!TypeOK, MapTypeOK
<1>2. R!RingInv'
  BY DEF CoreInv, R!RingInv, R!TypeOK, R!WindowExact, R!NoStaleCompletion, R!Age
<1>3. BundleOrder' /\ ZeroExact'
  BY DEF CoreInv, BundleOrder, ZeroExact
<1>4. InFlight' = InFlight /\ Writers' = Writers
  BY DEF InFlight, Writers
<1>5. EntriesExact' /\ FreeCount'
  BY <1>4 DEF CoreInv, EntriesExact, EntryExact, FreeCount
<1>6. StationLive' /\ ResultsLive'
  BY DEF CoreInv, StationLive, ResultsLive
<1>7. QED
  BY <1>1, <1>2, <1>3, <1>5, <1>6 DEF CoreInv

(* The core, whatever the instruction memory answers, stalls, executes in which order and
   finds of branches and loads: every register keeps its range, an instruction in flight is
   what its address says, the free list counts the writers in flight, and what executes is
   in flight and has not completed.  For every number of slots and registers and every
   program without an illegal instruction. *)
THEOREM CoreAlways ==
  ASSUME NoIllegal
  PROVE  Spec => []CoreInv
<1>1. CoreInv /\ [Next]_vars => CoreInv'
  BY CoreCycle, CoreStutter DEF Next, Halted
<1>2. QED
  BY <1>1, CoreInit, PTL DEF Spec

(* No counter, pointer or tag of the core leaves its range: in particular the free list
   never gives out more registers than it has (nothing in freelist.sv checks that). *)
THEOREM CoreTypeCorrect ==
  ASSUME NoIllegal
  PROVE  Spec => []TypeOK
<1>1. CoreInv => TypeOK
  BY DEF CoreInv
<1>2. QED
  BY <1>1, CoreAlways, PTL

-----------------------------------------------------------------------------
(* Renaming. *)

Reg(i) == prog[data[i].ins.pc].rd

(* x is what register a is mapped to behind the n oldest instructions: the destination of
   the youngest of them that writes a, or the committed register. *)
Writes(i, a, n) == i \in Writers /\ Reg(i) = a /\ R!Age(i) < n
IsMapping(a, n, x) ==
  \/ x = rrat_tag[a] /\ \A i \in Slot : ~Writes(i, a, n)
  \/ \E i \in Slot : /\ Writes(i, a, n) /\ x = data[i].ins.T_new
                     /\ \A j \in Slot : Writes(j, a, n) => R!Age(j) <= R!Age(i)

(* Both maps, and what instructions in flight have read of them, in these terms. *)
MapExact(a)  == IsMapping(a, rob_cnt, rat_tag[a])
ReadExact(i) ==
  LET d == prog[data[i].ins.pc]
  IN  /\ d.kind # "halt" => IsMapping(d.rs, R!Age(i), data[i].ins.src)
      /\ d.rd # 0 => IsMapping(d.rd, R!Age(i), data[i].ins.T_old)
MapsExact ==
  /\ \A a \in Map!AReg : MapExact(a)
  /\ \A i \in InFlight : ReadExact(i)

-----------------------------------------------------------------------------
(* No two slots have the same age. *)
LEMMA AgeOwn ==
  ASSUME CoreInv, NEW i \in Slot, NEW j \in Slot, R!Age(i) = R!Age(j)
  PROVE  i = j
  BY Sizes, Sets DEF CoreInv, R!RingInv, R!TypeOK, R!Age, Slot

(* The mapping behind n instructions is one, and is what the model calls Mapping. *)
LEMMA MapUnique ==
  ASSUME CoreInv, NEW a, NEW n, NEW x, NEW y, IsMapping(a, n, x), IsMapping(a, n, y)
  PROVE  x = y
<1>1. CASE \A i \in Slot : ~Writes(i, a, n)
  BY <1>1 DEF IsMapping
<1>2. CASE \E i \in Slot : Writes(i, a, n)
  <2>1. PICK i \in Slot : /\ Writes(i, a, n) /\ x = data[i].ins.T_new
                          /\ \A k \in Slot : Writes(k, a, n) => R!Age(k) <= R!Age(i)
    BY <1>2 DEF IsMapping
  <2>2. PICK j \in Slot : /\ Writes(j, a, n) /\ y = data[j].ins.T_new
                          /\ \A k \in Slot : Writes(k, a, n) => R!Age(k) <= R!Age(j)
    BY <1>2 DEF IsMapping
  <2>3. R!Age(i) = R!Age(j)
    BY <2>1, <2>2, Ages
  <2>4. QED
    BY <2>1, <2>2, <2>3, AgeOwn
<1>3. QED
  BY <1>1, <1>2

LEMMA MapIs ==
  ASSUME CoreInv, NEW a, NEW n, NEW x, NEW W, IsMapping(a, n, x),
         \A i \in Writers : i \in W <=> R!Age(i) < n
  PROVE  x = Mapping(a, W)
<1> DEFINE S == {i \in W \cap Writers : prog[data[i].ins.pc].rd = a}
           oldest(i) == i \in S /\ \A j \in S : Rob!Age(j) <= Rob!Age(i)
<1>1. \A i : i \in S <=> i \in Slot /\ Writes(i, a, n)
  BY DEF Writes, Reg, Writers, InFlight
<1>2. CASE \A i \in Slot : ~Writes(i, a, n)
  <2>1. S = {}
    BY <1>1, <1>2
  <2>2. QED
    BY <1>2, <2>1 DEF IsMapping, Mapping
<1>3. CASE \E i \in Slot : Writes(i, a, n)
  <2>1. PICK i \in Slot : /\ Writes(i, a, n) /\ x = data[i].ins.T_new
                          /\ \A k \in Slot : Writes(k, a, n) => R!Age(k) <= R!Age(i)
    BY <1>3 DEF IsMapping
  <2>2. i \in S /\ \A j \in S : Rob!Age(j) <= Rob!Age(i)
    BY <1>1, <2>1, SameAge
  <2>3. ASSUME NEW k \in S, \A j \in S : Rob!Age(j) <= Rob!Age(k)
        PROVE  k = i
    <3>1. k \in Slot /\ R!Age(k) = R!Age(i)
      BY <1>1, <2>2, <2>3, SameAge, Ages
    <3>2. QED
      BY <3>1, AgeOwn
  <2> HIDE DEF S
  <2>4. (CHOOSE k \in S : \A j \in S : Rob!Age(j) <= Rob!Age(k)) = i
    BY <2>2, <2>3
  <2>5. Mapping(a, W) = data[CHOOSE k \in S : \A j \in S : Rob!Age(j) <= Rob!Age(k)].ins.T_new
    BY <2>2 DEF Mapping, S
  <2>6. QED
    BY <2>1, <2>4, <2>5
<1>4. QED
  BY <1>2, <1>3

(* One more instruction in flight is the youngest. *)
AddsOne ==
  \A a \in Map!AReg, n \in Nat, i \in InFlight, x \in PReg :
    R!Age(i) = n /\ IsMapping(a, n, x) =>
      IsMapping(a, n + 1, IF i \in Writers /\ Reg(i) = a THEN data[i].ins.T_new ELSE x)

LEMMA MapAdds == CoreInv => AddsOne
<1> SUFFICES ASSUME CoreInv, NEW a, NEW n \in Nat, NEW i \in InFlight, NEW x,
                    R!Age(i) = n, IsMapping(a, n, x)
             PROVE  IsMapping(a, n + 1, IF i \in Writers /\ Reg(i) = a
                                        THEN data[i].ins.T_new ELSE x)
  BY DEF AddsOne
<1>1. i \in Slot /\ (\A j \in Slot : R!Age(j) \in Nat)
  BY Ages DEF InFlight
<1>2. \A j \in Slot : R!Age(j) = n => j = i
  BY <1>1, AgeOwn
<1>3. \A j \in Slot : Writes(j, a, n + 1) <=> Writes(j, a, n) \/ (j = i /\ i \in Writers /\ Reg(i) = a)
  BY <1>1, <1>2 DEF Writes
<1>4. CASE i \in Writers /\ Reg(i) = a
  <2>1. Writes(i, a, n + 1) /\ \A j \in Slot : Writes(j, a, n + 1) => R!Age(j) <= R!Age(i)
    BY <1>1, <1>4 DEF Writes
  <2>2. QED
    BY <1>1, <1>4, <2>1 DEF IsMapping
<1>5. CASE ~(i \in Writers /\ Reg(i) = a)
  <2>1. \A j \in Slot : Writes(j, a, n + 1) <=> Writes(j, a, n)
    BY <1>3, <1>5
  <2>2. QED
    BY <1>5, <2>1 DEF IsMapping
<1>6. QED
  BY <1>4, <1>5

LEMMA MapAddsNext == CoreInv' => AddsOne'
  BY MapAdds, PTL

-----------------------------------------------------------------------------
(* Commit: the enables of the two write ports of the retirement map. *)
LEMMA Commits ==
  /\ rrat_write[0] = Commit(head_retire_rdy /\ first.ins.T_new # 0 /\ ~viol0, first)
  /\ rrat_write[1] = Commit(head_p1_retire_rdy /\ second.ins.T_new # 0 /\ ~viol1 /\ ~viol0
                              /\ ~(mispredict /\ ~second.is_branch), second)
  BY DEF rrat_write, Ways

(* The committed map after a cycle in which the r oldest leave is the map behind them. *)
LEMMA CommitsOldest ==
  ASSUME CoreInv, ~rollback, NEW r, NEW m, Moves(r, m),
         rrat_tag' = Map!Committed(rrat_write), NEW a \in Map!AReg
  PROVE  IsMapping(a, r, rrat_tag'[a])
<1>1. /\ r \in 0 .. 2
      /\ r >= 1 <=> head_retire_rdy
      /\ r = 2 <=> head_p1_retire_rdy
  BY DEF Moves
<1>2. /\ rrat_write[0].en <=> r >= 1 /\ first.ins.T_new # 0
      /\ rrat_write[1].en <=> r = 2 /\ second.ins.T_new # 0
  BY <1>1, Commits, NoRollbackReady DEF Commit, NoWrite
<1>3. /\ rrat_write[0].en => rrat_write[0].addr = Reg(rob_head) /\ rrat_write[0].tag = first.ins.T_new
      /\ rrat_write[1].en => rrat_write[1].addr = Reg(Rob!head_p1)
                              /\ rrat_write[1].tag = second.ins.T_new
  BY Commits DEF Commit, NoWrite, Reg, first, second
<1>4. /\ rob_head \in Slot /\ R!Age(rob_head) = 0
      /\ Rob!head_p1 \in Slot /\ R!Age(Rob!head_p1) = 1
      /\ \A i \in Slot : R!Age(i) \in Nat
      /\ \A i \in Slot : R!Age(i) = 0 => i = rob_head
      /\ \A i \in Slot : R!Age(i) = 1 => i = Rob!head_p1
  BY Heads, Ages, AgeOwn
<1>5. /\ r >= 1 => (rob_head \in Writers <=> first.ins.T_new # 0)
      /\ r = 2 => (Rob!head_p1 \in Writers <=> second.ins.T_new # 0)
  BY <1>1, Heads DEF Writers, first, second
<1>6. \A i \in Slot : Writes(i, a, r) <=>
        \/ i = rob_head /\ rrat_write[0].en /\ rrat_write[0].addr = a
        \/ i = Rob!head_p1 /\ rrat_write[1].en /\ rrat_write[1].addr = a
  <2>1. \A i \in Slot : Writes(i, a, r) => i = rob_head \/ (i = Rob!head_p1 /\ r = 2)
    BY <1>1, <1>4 DEF Writes
  <2>2. Writes(rob_head, a, r) <=> rrat_write[0].en /\ rrat_write[0].addr = a
    BY <1>1, <1>2, <1>3, <1>4, <1>5 DEF Writes
  <2>3. r = 2 => (Writes(Rob!head_p1, a, r) <=> rrat_write[1].en /\ rrat_write[1].addr = a)
    BY <1>1, <1>2, <1>3, <1>4, <1>5 DEF Writes
  <2>4. QED
    BY <1>2, <2>1, <2>2, <2>3, <1>4
<1>7. rrat_tag'[a] = IF rrat_write[1].en /\ rrat_write[1].addr = a THEN rrat_write[1].tag
                     ELSE IF rrat_write[0].en /\ rrat_write[0].addr = a THEN rrat_write[0].tag
                     ELSE rrat_tag[a]
  BY DEF Map!Committed
<1>8. CASE rrat_write[1].en /\ rrat_write[1].addr = a
  BY <1>3, <1>4, <1>6, <1>7, <1>8 DEF IsMapping, second
<1>9. CASE ~(rrat_write[1].en /\ rrat_write[1].addr = a) /\ rrat_write[0].en /\ rrat_write[0].addr = a
  BY <1>3, <1>4, <1>6, <1>7, <1>9 DEF IsMapping, first
<1>10. CASE ~(rrat_write[1].en /\ rrat_write[1].addr = a)
            /\ ~(rrat_write[0].en /\ rrat_write[0].addr = a)
  BY <1>6, <1>7, <1>10 DEF IsMapping
<1>11. QED
  BY <1>8, <1>9, <1>10

(* What stays sees the same mappings. *)
LEMMA MapShift ==
  ASSUME CoreInv, ~rollback, NEW r, NEW m, Moves(r, m), prog' = prog,
         rrat_tag' = Map!Committed(rrat_write), NEW a \in Map!AReg,
         NEW n \in Nat, r <= n, n <= rob_cnt, NEW x, IsMapping(a, n, x)
  PROVE  IsMapping(a, n - r, x)'
<1>1. /\ r \in 0 .. 2 /\ m \in 0 .. 2 /\ rob_cnt \in Nat
      /\ \A i \in Slot : R!Age(i) \in Nat
      /\ \A i \in Slot : data[i].valid <=> R!Age(i) < rob_cnt
  BY Ages DEF Moves
<1>2. \A i \in Slot :
        /\ data'[i].valid <=> r <= R!Age(i) /\ R!Age(i) < rob_cnt + m
        /\ r <= R!Age(i) => R!Age(i)' = R!Age(i) - r
        /\ r <= R!Age(i) /\ R!Age(i) < rob_cnt => Kept(i)
  BY DEF Moves
<1>3. ASSUME NEW i \in Slot
      PROVE  /\ Writes(i, a, n - r)' <=> Writes(i, a, n) /\ r <= R!Age(i)
             /\ Writes(i, a, n - r)' => /\ R!Age(i)' = R!Age(i) - r
                                        /\ data'[i].ins.T_new = data[i].ins.T_new
  <2>1. Writes(i, a, n - r)' <=> /\ data'[i].valid /\ data'[i].ins.T_new # 0
                                 /\ prog'[data'[i].ins.pc].rd = a /\ R!Age(i)' < n - r
    BY DEF Writes, Writers, InFlight, Reg
  <2>2. Writes(i, a, n) <=> /\ data[i].valid /\ data[i].ins.T_new # 0
                            /\ prog[data[i].ins.pc].rd = a /\ R!Age(i) < n
    BY DEF Writes, Writers, InFlight, Reg
  <2>3. CASE r <= R!Age(i) /\ R!Age(i) < n
    <3>1. data'[i].ins = data[i].ins /\ data'[i].valid /\ data[i].valid /\ R!Age(i)' = R!Age(i) - r
      BY <1>1, <1>2, <2>3 DEF Kept
    <3>2. R!Age(i)' < n - r
      BY <1>1, <2>3, <3>1
    <3>3. QED
      BY <2>1, <2>2, <2>3, <3>1, <3>2
  <2>4. CASE R!Age(i) < r
    BY <1>1, <1>2, <2>1, <2>4
  <2>5. CASE r <= R!Age(i) /\ n <= R!Age(i)
    BY <1>1, <1>2, <2>1, <2>2, <2>5
  <2>6. QED
    BY <1>1, <2>3, <2>4, <2>5
<1>4. CASE \E i \in Slot : /\ Writes(i, a, n) /\ r <= R!Age(i) /\ x = data[i].ins.T_new
                          /\ \A j \in Slot : Writes(j, a, n) => R!Age(j) <= R!Age(i)
  <2>1. PICK i \in Slot : /\ Writes(i, a, n) /\ r <= R!Age(i) /\ x = data[i].ins.T_new
                          /\ \A j \in Slot : Writes(j, a, n) => R!Age(j) <= R!Age(i)
    BY <1>4
  <2>2. Writes(i, a, n - r)' /\ x = data'[i].ins.T_new
    BY <1>3, <2>1
  <2>3. \A j \in Slot : Writes(j, a, n - r)' => R!Age(j)' <= R!Age(i)'
    BY <1>1, <1>3, <2>1, <2>2
  <2>4. QED
    BY <2>2, <2>3 DEF IsMapping
<1>5. CASE \A i \in Slot : Writes(i, a, n) => R!Age(i) < r
  <2>1. \A i \in Slot : ~Writes(i, a, n - r)'
    BY <1>1, <1>3, <1>5
  <2>2. IsMapping(a, r, x)
    <3>1. \A i \in Slot : Writes(i, a, n) <=> Writes(i, a, r)
      BY <1>1, <1>5 DEF Writes
    <3>2. QED
      BY <3>1 DEF IsMapping
  <2>3. x = rrat_tag'[a]
    BY <2>2, CommitsOldest, MapUnique
  <2>4. QED
    BY <2>1, <2>3 DEF IsMapping
<1>6. QED
  <2>1. CASE \A i \in Slot : ~Writes(i, a, n)
    BY <1>5, <2>1
  <2>2. CASE ~\A i \in Slot : ~Writes(i, a, n)
    <3>1. PICK i \in Slot : /\ Writes(i, a, n) /\ x = data[i].ins.T_new
                            /\ \A j \in Slot : Writes(j, a, n) => R!Age(j) <= R!Age(i)
      BY <2>2 DEF IsMapping
    <3>2. CASE r <= R!Age(i)
      BY <1>4, <3>1, <3>2
    <3>3. CASE R!Age(i) < r
      BY <1>1, <1>5, <3>1, <3>3
    <3>4. QED
      BY <1>1, <3>2, <3>3
  <2>3. QED
    BY <2>1, <2>2

-----------------------------------------------------------------------------
(* Rename: the map behind the first and behind the second instruction of the bundle. *)
Behind0(a) == IF Decoded(0).rd = a /\ a # 0 THEN T_idx(0) ELSE rat_tag[a]
Behind1(a) == IF Decoded(1).rd = a /\ a # 0 THEN T_idx(1) ELSE Behind0(a)

LEMMA BehindTyped ==
  ASSUME CoreInv, NEW a \in Map!AReg
  PROVE  rat_tag[a] \in PReg /\ Behind0(a) \in PReg
  BY RenameTyped DEF Behind0, CoreInv, TypeOK, MapTypeOK, Ways

(* The first reads the map, the second the map behind the first. *)
LEMMA Reads ==
  ASSUME CoreInv
  PROVE  /\ id_rn[0].valid =>
              /\ Decoded(0).kind # "halt" => Operand(0).tag = rat_tag[Decoded(0).rs]
              /\ Map!T_old(rat_write, 0) = rat_tag[Decoded(0).rd]
         /\ id_rn[1].valid =>
              /\ Decoded(1).kind # "halt" => Operand(1).tag = Behind0(Decoded(1).rs)
              /\ Decoded(1).rd # 0 => Map!T_old(rat_write, 1) = Behind0(Decoded(1).rd)
<1>1. \A w \in Ways : id_rn[w].valid =>
        rat_write[w].en /\ rat_write[w].addr = Decoded(w).rd /\ rat_write[w].tag = T_idx(w)
  BY DEF rat_write
<1>2. 0 \in Ways /\ 1 \in Ways /\ 0 \in Map!AReg
  BY Sizes, Sets DEF Ways
<1>3. id_rn[1].valid => id_rn[0].valid
  BY DEF CoreInv, BundleOrder
<1>4. rat_tag[0] = 0
  BY <1>2 DEF CoreInv, ZeroExact
<1>5. id_rn[0].valid =>
        /\ Decoded(0).kind # "halt" => Operand(0).tag = rat_tag[Decoded(0).rs]
        /\ Map!T_old(rat_write, 0) = rat_tag[Decoded(0).rd]
  BY <1>1, <1>2, <1>4 DEF Operand, Map!Source, Map!T_old, Map!ZERO_REG
<1>6. id_rn[1].valid =>
        /\ Decoded(1).kind # "halt" => Operand(1).tag = Behind0(Decoded(1).rs)
        /\ Decoded(1).rd # 0 => Map!T_old(rat_write, 1) = Behind0(Decoded(1).rd)
  BY <1>1, <1>2, <1>3, <1>4 DEF Operand, Map!Source, Map!T_old, Map!ZERO_REG, Behind0
<1>7. QED
  BY <1>5, <1>6

(* The map after the cycle is that behind what entered. *)
LEMMA RatAfter ==
  ASSUME CoreInv, ~rollback, NEW f, NEW a \in Map!AReg,
         Map!Clock(rat_write, Rob!dp_stall(f), rollback, cdb, rrat_write)
  PROVE  /\ Entering(f) \in 0 .. 2
         /\ Entering(f) = 0 => rat_tag'[a] = rat_tag[a]
         /\ Entering(f) = 1 => rat_tag'[a] = Behind0(a)
         /\ Entering(f) = 2 => rat_tag'[a] = Behind1(a)
<1>2. 0 \in Ways /\ 1 \in Ways /\ 0 \in Map!AReg
  BY Sizes, Sets DEF Ways
<1>3. id_rn[1].valid => id_rn[0].valid
  BY DEF CoreInv, BundleOrder
<1>4. rat_tag[0] = 0
  BY <1>2 DEF CoreInv, ZeroExact
<1>5. \A w \in Ways : id_rn[w].valid /\ Decoded(w).rd = 0 => T_idx(w) = 0
  BY RenameExact
<1>6. rat_tag'[a] = IF rat_write[1].en /\ rat_write[1].addr = a /\ ~R!dp_stall(f) THEN rat_write[1].tag
                    ELSE IF rat_write[0].en /\ rat_write[0].addr = a /\ ~R!dp_stall(f)
                         THEN rat_write[0].tag ELSE rat_tag[a]
  BY SameStall DEF Map!Clock
<1>7. /\ rat_write[0].en <=> id_rn[0].valid
      /\ rat_write[1].en <=> id_rn[1].valid
      /\ id_rn[0].valid => rat_write[0].addr = Decoded(0).rd /\ rat_write[0].tag = T_idx(0)
      /\ id_rn[1].valid => rat_write[1].addr = Decoded(1).rd /\ rat_write[1].tag = T_idx(1)
  <2>1. \A w \in Ways : rat_write[w] = IF id_rn[w].valid
                                       THEN [en |-> TRUE, addr |-> Decoded(w).rd, tag |-> T_idx(w)]
                                       ELSE [en |-> FALSE, addr |-> 0, tag |-> 0]
    BY DEF rat_write, NoWrite
  <2>2. /\ id_rn[0].valid => rat_write[0] = [en |-> TRUE, addr |-> Decoded(0).rd, tag |-> T_idx(0)]
        /\ ~id_rn[0].valid => rat_write[0] = [en |-> FALSE, addr |-> 0, tag |-> 0]
        /\ id_rn[1].valid => rat_write[1] = [en |-> TRUE, addr |-> Decoded(1).rd, tag |-> T_idx(1)]
        /\ ~id_rn[1].valid => rat_write[1] = [en |-> FALSE, addr |-> 0, tag |-> 0]
    BY <1>2, <2>1
  <2>3. QED
    BY <2>2
<1>8. CASE R!dp_stall(f) \/ ~id_rn[0].valid
  <2>1. Entering(f) = 0
    BY <1>8 DEF Entering
  <2>2. rat_tag'[a] = rat_tag[a]
    BY <1>3, <1>6, <1>7, <1>8
  <2>3. QED
    BY <2>1, <2>2
<1>9. CASE ~R!dp_stall(f) /\ id_rn[0].valid /\ ~id_rn[1].valid
  <2>1. Entering(f) = 1
    BY <1>9 DEF Entering
  <2>2. rat_tag'[a] = Behind0(a)
    BY <1>2, <1>4, <1>5, <1>6, <1>7, <1>9 DEF Behind0
  <2>3. QED
    BY <2>1, <2>2
<1>10. CASE ~R!dp_stall(f) /\ id_rn[0].valid /\ id_rn[1].valid
  <2>1. Entering(f) = 2
    BY <1>10 DEF Entering
  <2>2. rat_tag'[a] = Behind1(a)
    BY <1>2, <1>4, <1>5, <1>6, <1>7, <1>10 DEF Behind0, Behind1
  <2>3. QED
    BY <2>1, <2>2
<1>11. QED
  BY <1>8, <1>9, <1>10

LEMMA MapsKept ==
  ASSUME CoreInv, CoreInv', MapsExact, ~rollback, prog' = prog,
         NEW r, NEW f, Moves(r, Entering(f)),
         Map!Clock(rat_write, Rob!dp_stall(f), rollback, cdb, rrat_write)
  PROVE  MapsExact'
<1>1. PICK m : m = Entering(f)
  OBVIOUS
<1>2. Moves(r, m)
  BY <1>1
<1>3. PICK c, k : c = rob_cnt /\ k = rob_cnt - r
  OBVIOUS
<1>4. /\ r \in 0 .. 2 /\ m \in 0 .. 2 /\ r <= c /\ c \in Nat /\ k \in Nat /\ k = c - r
      /\ rob_cnt' = k + m
  BY <1>2, <1>3, Ages DEF Moves
<1>5. rrat_tag' = Map!Committed(rrat_write)
  BY DEF Map!Clock
<1>6. AddsOne'
  BY MapAddsNext
<1>7. ASSUME NEW a \in Map!AReg, NEW x, x = rat_tag[a]
      PROVE  IsMapping(a, k, x)'
  <2>1. IsMapping(a, c, x)
    BY <1>3, <1>7 DEF MapsExact, MapExact
  <2>2. QED
    BY <1>2, <1>3, <1>4, <1>5, <2>1, MapShift
<1>8. ASSUME m >= 1, NEW a \in Map!AReg, NEW x, x = Behind0(a)
      PROVE  IsMapping(a, k + 1, x)'
  <2>1. PICK i, y : i = rob_tail /\ y = rat_tag[a]
    OBVIOUS
  <2>2. /\ i \in InFlight' /\ R!Age(i)' = k /\ data'[i] = R!Filled(rn_dp[0]) /\ id_rn[0].valid
    BY <1>2, <1>3, <1>8, <2>1, Entered
  <2>3. data'[i].ins.pc = id_rn[0].pc /\ data'[i].ins.T_new = T_idx(0)
    BY <2>2, FilledExact DEF Ways
  <2>4. (i \in Writers' <=> Decoded(0).rd # 0) /\ Reg(i)' = Decoded(0).rd
    BY <2>2, <2>3, RenameExact DEF Writers, Ways, Reg, Decoded
  <2>5. x = IF i \in Writers' /\ Reg(i)' = a THEN data'[i].ins.T_new ELSE y
    BY <1>8, <2>1, <2>3, <2>4 DEF Behind0
  <2>6. IsMapping(a, k, y)' /\ y \in PReg
    BY <1>7, <2>1, BehindTyped
  <2>7. QED
    BY <1>4, <1>6, <2>2, <2>5, <2>6 DEF AddsOne
<1>9. ASSUME m = 2, NEW a \in Map!AReg, NEW x, x = Behind1(a)
      PROVE  IsMapping(a, k + 2, x)'
  <2>1. PICK i, y : i = Rob!tail_p1 /\ y = Behind0(a)
    OBVIOUS
  <2>2. /\ i \in InFlight' /\ R!Age(i)' = k + 1 /\ data'[i] = R!Filled(rn_dp[1]) /\ id_rn[1].valid
    BY <1>2, <1>3, <1>4, <1>9, <2>1, Entered
  <2>3. data'[i].ins.pc = id_rn[1].pc /\ data'[i].ins.T_new = T_idx(1)
    BY <2>2, FilledExact DEF Ways
  <2>4. (i \in Writers' <=> Decoded(1).rd # 0) /\ Reg(i)' = Decoded(1).rd
    BY <2>2, <2>3, RenameExact DEF Writers, Ways, Reg, Decoded
  <2>5. x = IF i \in Writers' /\ Reg(i)' = a THEN data'[i].ins.T_new ELSE y
    BY <1>9, <2>1, <2>3, <2>4 DEF Behind1
  <2>6. IsMapping(a, k + 1, y)' /\ y \in PReg
    BY <1>8, <1>9, <2>1, BehindTyped
  <2>7. k + 1 \in Nat /\ k + 1 + 1 = k + 2
    BY <1>4
  <2>8. QED
    BY <1>6, <2>2, <2>5, <2>6, <2>7 DEF AddsOne
<1>10. ASSUME NEW a \in Map!AReg
       PROVE  MapExact(a)'
  <2>1. PICK n, x, b0, b1 : n = rob_cnt' /\ x = rat_tag'[a] /\ b0 = Behind0(a) /\ b1 = Behind1(a)
    OBVIOUS
  <2>4. /\ m = 0 => rat_tag'[a] = rat_tag[a]
        /\ m = 1 => rat_tag'[a] = Behind0(a)
        /\ m = 2 => rat_tag'[a] = Behind1(a)
    BY <1>1, RatAfter
  <2>2. IsMapping(a, n, x)'
    <3>1. CASE m = 0
      <4>1. n = k /\ x = rat_tag[a]
        BY <1>4, <2>1, <2>4, <3>1
      <4>2. QED
        BY <4>1, <1>7
    <3>2. CASE m = 1
      <4>1. n = k + 1 /\ x = Behind0(a) /\ m >= 1
        BY <1>4, <2>1, <2>4, <3>2
      <4>2. QED
        BY <4>1, <1>8
    <3>3. CASE m = 2
      <4>1. n = k + 2 /\ x = Behind1(a)
        BY <1>4, <2>1, <2>4, <3>3
      <4>2. QED
        BY <3>3, <4>1, <1>9
    <3>4. QED
      BY <1>4, <3>1, <3>2, <3>3
  <2>3. QED
    BY <2>1, <2>2 DEF MapExact, IsMapping, Writes
<1>11. ASSUME NEW i \in InFlight'
       PROVE  ReadExact(i)'
  <2>1. PICK d, n, s, t : /\ d = prog'[data'[i].ins.pc] /\ n = R!Age(i)'
                          /\ s = data'[i].ins.src /\ t = data'[i].ins.T_old
    OBVIOUS
  <2>2. SUFFICES /\ d.kind # "halt" => IsMapping(d.rs, n, s)'
                 /\ d.rd # 0 => IsMapping(d.rd, n, t)'
    BY <2>1 DEF ReadExact, IsMapping, Writes
  <2>3. i \in Slot /\ data'[i].valid
    BY DEF InFlight
  <2>5. CASE R!Age(i) < c
    <3>1. PICK q : q = R!Age(i)
      OBVIOUS
    <3>2. /\ r <= q /\ data'[i].ins = data[i].ins /\ n = q - r /\ q \in Nat /\ q < c
          /\ i \in InFlight
      BY <1>2, <1>3, <2>1, <2>3, <2>5, <3>1, Ages DEF Moves, Kept, InFlight
    <3>3. /\ d = prog[data[i].ins.pc] /\ s = data[i].ins.src /\ t = data[i].ins.T_old
      BY <2>1, <3>2
    <3>4. d.rs \in Map!AReg /\ d.rd \in Map!AReg
      BY <3>2, <3>3, EntryTyped, ProgTyped DEF CoreInv
    <3>5. /\ d.kind # "halt" => IsMapping(d.rs, q, s)
          /\ d.rd # 0 => IsMapping(d.rd, q, t)
      BY <3>1, <3>2, <3>3 DEF MapsExact, ReadExact
    <3>6. q <= rob_cnt
      BY <1>3, <1>4, <3>2
    <3>7. ASSUME NEW a \in Map!AReg, NEW x, IsMapping(a, q, x)
          PROVE  IsMapping(a, n, x)'
      <4>1. IsMapping(a, q - r, x)'
        BY <1>2, <1>5, <3>2, <3>6, <3>7, MapShift
      <4>2. QED
        BY <3>2, <4>1
    <3>8. QED
      BY <3>4, <3>5, <3>7
  <2>6. CASE R!Age(i) = c
    <3>1. m >= 1 /\ i = rob_tail
      BY <1>2, <1>3, <1>4, <2>3, <2>6, Tails DEF Moves
    <3>2. n = k /\ data'[i] = R!Filled(rn_dp[0]) /\ id_rn[0].valid
      BY <1>2, <1>3, <2>1, <3>1, Entered
    <3>3. d = Decoded(0) /\ s = Operand(0).tag /\ t = Map!T_old(rat_write, 0)
      BY <2>1, <3>2, FilledExact DEF Ways, Decoded
    <3>4. d.rs \in Map!AReg /\ d.rd \in Map!AReg
      BY <3>3, RenameTyped DEF Ways
    <3>5. /\ d.kind # "halt" => s = rat_tag[d.rs]
          /\ t = rat_tag[d.rd]
      BY <3>2, <3>3, Reads
    <3>6. QED
      BY <1>7, <3>2, <3>4, <3>5
  <2>7. CASE R!Age(i) = c + 1
    <3>1. m = 2 /\ i = Rob!tail_p1
      BY <1>2, <1>3, <1>4, <2>3, <2>7, Tails DEF Moves
    <3>2. n = k + 1 /\ data'[i] = R!Filled(rn_dp[1]) /\ id_rn[1].valid
      BY <1>2, <1>3, <1>4, <2>1, <3>1, Entered
    <3>3. d = Decoded(1) /\ s = Operand(1).tag /\ t = Map!T_old(rat_write, 1)
      BY <2>1, <3>2, FilledExact DEF Ways, Decoded
    <3>4. d.rs \in Map!AReg /\ d.rd \in Map!AReg
      BY <3>3, RenameTyped DEF Ways
    <3>5. /\ d.kind # "halt" => s = Behind0(d.rs)
          /\ d.rd # 0 => t = Behind0(d.rd)
      BY <3>2, <3>3, Reads
    <3>6. m >= 1
      BY <3>1
    <3>7. QED
      BY <1>8, <3>2, <3>4, <3>5, <3>6
  <2>8. QED
    BY <2>3, <2>5, <2>6, <2>7, <1>2, <1>3, <1>4, Ages DEF Moves
<1>12. QED
  BY <1>10, <1>11 DEF MapsExact

-----------------------------------------------------------------------------
(* The committed map after a rollback is what the speculative one is restored to. *)
LEMMA Restores ==
  ASSUME rollback, NEW f, Map!Clock(rat_write, Rob!dp_stall(f), rollback, cdb, rrat_write)
  PROVE  rat_tag' = rrat_tag'
<1>1. rrat_tag' = Map!Committed(rrat_write) /\ rat_tag' = Map!Restored(rrat_write)
  BY DEF Map!Clock
<1>2. QED
  BY <1>1 DEF Map!Restored, Map!RratCopy, Map!Committed

LEMMA MapsInit == Init /\ CoreInv => MapsExact
<1> SUFFICES ASSUME Init, CoreInv PROVE MapsExact
  OBVIOUS
<1>1. rat_tag = rrat_tag /\ \A i \in Slot : ~data[i].valid
  BY Sets DEF Init, Rob!Init, Map!Init, Rob!Zero, Rob!Idx, Slot
<1>2. QED
  BY <1>1 DEF MapsExact, MapExact, IsMapping, Writes, Writers, InFlight

LEMMA MapsCycle == CoreInv /\ CoreInv' /\ MapsExact /\ Cycle => MapsExact'
<1> SUFFICES ASSUME CoreInv, CoreInv', MapsExact, Cycle PROVE MapsExact'
  OBVIOUS
<1>1. PICK go \in BOOLEAN, f \in {FALSE, MayBeFull}, leave \in Leaving :
        \E taken \in Outcomes(leave), verdict \in Verdicts(leave) :
          Clock(go, f, leave, taken, verdict)
  BY DEF Cycle
<1>2. PICK taken \in Outcomes(leave), verdict \in Verdicts(leave) :
        Clock(go, f, leave, taken, verdict)
  BY <1>1
<1>3. f \in BOOLEAN
  BY DEF MayBeFull
<1>4. prog' = prog /\ Map!Clock(rat_write, Rob!dp_stall(f), rollback, cdb, rrat_write)
  BY <1>2 DEF Clock
<1>5. CASE rollback
  <2>1. InFlight' = {} /\ Writers' = {} /\ rat_tag' = rrat_tag'
    BY <1>2, <1>4, <1>5, RollbackEmpties, Restores
  <2>2. QED
    BY <2>1 DEF MapsExact, MapExact, IsMapping, Writes
<1>6. CASE ~rollback
  <2>1. PICK r \in 0 .. 2 : Moves(r, Entering(f))
    BY <1>2, <1>3, <1>6, StepMoves
  <2>2. QED
    BY <1>4, <1>6, <2>1, MapsKept
<1>7. QED
  BY <1>5, <1>6

LEMMA MapsStutter == MapsExact /\ UNCHANGED vars => MapsExact'
  BY DEF MapsExact, MapExact, ReadExact, IsMapping, Writes, Writers, InFlight, Reg, R!Age, R!Wrap,
         vars, robVars, mapVars

LEMMA MapsAlways ==
  ASSUME NoIllegal
  PROVE  Spec => []MapsExact
<1>1. Init /\ CoreInv => MapsExact
  BY MapsInit
<1>2. CoreInv /\ CoreInv' /\ MapsExact /\ [Next]_vars => MapsExact'
  BY MapsCycle, MapsStutter DEF Next, Halted
<1>3. QED
  BY <1>1, <1>2, CoreAlways, PTL DEF Spec

LEMMA MapsMean == CoreInv /\ MapsExact => MappingsExact
<1> SUFFICES ASSUME CoreInv, MapsExact PROVE MappingsExact
  OBVIOUS
<1>1. ASSUME NEW a \in Map!AReg
      PROVE  rat_tag[a] = Mapping(a, InFlight)
  <2>1. \A i \in Writers : i \in InFlight <=> R!Age(i) < rob_cnt
    BY Ages DEF Writers, InFlight
  <2>2. IsMapping(a, rob_cnt, rat_tag[a])
    BY DEF MapsExact, MapExact
  <2>3. QED
    BY <2>1, <2>2, MapIs
<1>2. ASSUME NEW i \in InFlight, NEW a, NEW x, IsMapping(a, R!Age(i), x)
      PROVE  x = Mapping(a, OlderThan(i))
  <2>1. \A j \in Writers : j \in OlderThan(i) <=> R!Age(j) < R!Age(i)
    BY SameAge DEF OlderThan, Writers
  <2>2. QED
    BY <1>2, <2>1, MapIs
<1>3. ASSUME NEW i \in InFlight
      PROVE  LET d == prog[data[i].ins.pc]
             IN  /\ d.kind # "halt" => data[i].ins.src = Mapping(d.rs, OlderThan(i))
                 /\ i \in Writers => data[i].ins.T_old = Mapping(d.rd, OlderThan(i))
  <2>1. i \in Writers => prog[data[i].ins.pc].rd # 0
    BY DEF CoreInv, EntriesExact, EntryExact, Writers
  <2>2. ReadExact(i)
    BY DEF MapsExact
  <2>3. QED
    BY <1>2, <2>1, <2>2 DEF ReadExact
<1>4. QED
  BY <1>1, <1>3 DEF MappingsExact, RatCurrent, RenamedInOrder

(* The speculative map gives every register the destination of its youngest writer in flight,
   the committed register when there is none, and each instruction in flight reads, and will
   free, what the youngest older writer wrote, for every size of the reorder buffer, every
   number of registers and every program: maptables.sv and the bypasses of RAT.sv between the
   two ways, with the commits of pipeline.sv:452-458. *)
THEOREM CoreMappingsExact ==
  ASSUME NoIllegal
  PROVE  Spec => []MappingsExact
<1>1. CoreInv /\ MapsExact => MappingsExact
  BY MapsMean
<1>2. QED
  BY <1>1, CoreAlways, MapsAlways, PTL

-----------------------------------------------------------------------------
(* The free list holds, from its head on, the destinations of those in flight that write a
   register, oldest first; and it holds, with the committed map, every register. *)
Given(n) == fl_table[FL!Wrap(fl_head + n)]
AllocExact == \A i \in Writers : Given(Rank(R!Age(i))) = data[i].ins.T_new

Committed == {rrat_tag[a] : a \in 1 .. NUM_ARCH - 1}
Held      == {fl_table[i] : i \in Slot}
Coverage  == Committed \cup Held = PReg \ {0}

LEMMA Places ==
  ASSUME CoreInv
  PROVE  /\ fl_head \in Slot /\ fl_tail = FL!Wrap(fl_head + fl_cnt)
         /\ fl_cnt \in 0 .. ROB_SIZE /\ fl_cnt = Rank(rob_cnt)
         /\ \A n \in Slot : FL!Wrap(fl_head + n) \in Slot
<1>1. /\ fl_head \in Slot /\ fl_tail = FL!Wrap(fl_head + fl_cnt) /\ fl_cnt \in 0 .. ROB_SIZE
  BY Sets DEF CoreInv, TypeOK, FL!TypeOK, FreeCount
<1>2. fl_cnt = Rank(rob_cnt)
  BY Ranks DEF CoreInv, RankExact, FreeCount, Rank
<1>3. QED
  BY <1>1, <1>2, Sizes DEF FL!Wrap, Slot

LEMMA WriterRank ==
  ASSUME CoreInv, NEW i \in Writers
  PROVE  Rank(R!Age(i)) \in Nat /\ Rank(R!Age(i)) < fl_cnt
<1>1. i \in InFlight /\ i \in Slot /\ Wrote(i) = 1
  BY DEF Writers, InFlight, Wrote
<1>2. R!Age(i) \in Nat /\ rob_cnt \in Nat /\ R!Age(i) < rob_cnt
  BY <1>1, Ages DEF InFlight
<1>3. /\ Rank(R!Age(i)) \in Nat
      /\ Rank(R!Age(i) + 1) = Rank(R!Age(i)) + 1
      /\ Rank(R!Age(i) + 1) <= Rank(rob_cnt)
  BY <1>1, <1>2, Ranks DEF CoreInv, RankExact
<1>4. QED
  BY <1>3, Places

(* What the two ways are offered. *)
LEMMA Taken ==
  ASSUME CoreInv, fl_cnt + 2 <= ROB_SIZE, id_rn[0].valid
  PROVE  /\ Decoded(0).rd # 0 => T_idx(0) = Given(fl_cnt)
         /\ id_rn[1].valid /\ Decoded(1).rd # 0 =>
              T_idx(1) = Given(fl_cnt + (IF Decoded(0).rd # 0 THEN 1 ELSE 0))
<1>1. /\ fl_head \in 0 .. ROB_SIZE - 1 /\ fl_tail = FL!Wrap(fl_head + fl_cnt)
      /\ fl_cnt \in 0 .. ROB_SIZE
  BY Places DEF Slot
<1>2. FL!Wrap(fl_tail + 1) = FL!Wrap(fl_head + (fl_cnt + 1)) /\ fl_cnt + 0 = fl_cnt
  BY <1>1, Sizes DEF FL!Wrap
<1>3. Decoded(0).rd # 0 => T_idx(0) = fl_table[fl_tail]
  BY Offers DEF T_idx, FL!dout
<1>4. id_rn[1].valid /\ Decoded(1).rd # 0 =>
        T_idx(1) = IF Decoded(0).rd # 0 THEN fl_table[FL!Wrap(fl_tail + 1)] ELSE fl_table[fl_tail]
  BY Offers DEF T_idx, FL!dout
<1>5. QED
  BY <1>1, <1>2, <1>3, <1>4 DEF Given

(* The places behind those that are freed keep their registers. *)
LEMMA PlacesKept ==
  ASSUME CoreInv, ~rollback, NEW r, NEW m, Moves(r, m), NEW s,
         FL!Clock(dispatch_en, s, retire_en, retire_T_old, rollback),
         NEW p \in Slot, Rank(r) <= p, NEW n, n = p - Rank(r)
  PROVE  Given(n)' = Given(p)
<1>1. PICK q : q = Rank(r)
  OBVIOUS
<1>2. q = FL!Number(retire_en) /\ fl_table' = FL!Freed(retire_en, retire_T_old)
      /\ fl_head' = FL!Wrap(fl_head + q)
  BY <1>1, FreedCount DEF FL!Clock
<1>3. q \in 0 .. 2 /\ (q = 0 => ~retire_en[0] /\ ~retire_en[1])
      /\ (q = 1 => ~(retire_en[0] /\ retire_en[1]))
  BY <1>2 DEF FL!Number
<1>4. p \in 0 .. ROB_SIZE - 1 /\ q <= p /\ n = p - q /\ fl_head \in 0 .. ROB_SIZE - 1
  BY <1>1, Places DEF Slot
<1>5. FL!Wrap(FL!Wrap(fl_head + q) + n) = FL!Wrap(fl_head + p)
  BY <1>3, <1>4, Sizes DEF FL!Wrap
<1>6. /\ FL!Wrap(fl_head + p) \in FL!Slots
      /\ q >= 1 => FL!Wrap(fl_head + p) # fl_head
      /\ q = 2 => FL!Wrap(fl_head + p) # FL!Wrap(fl_head + 1)
  BY <1>3, <1>4, Sizes DEF FL!Wrap, FL!Slots
<1>7. fl_table'[FL!Wrap(fl_head + p)] = fl_table[FL!Wrap(fl_head + p)]
  BY <1>2, <1>3, <1>6 DEF FL!Freed
<1>8. QED
  BY <1>2, <1>5, <1>7 DEF Given

LEMMA AllocKept ==
  ASSUME CoreInv, CoreInv', AllocExact, ~rollback, NEW r, NEW f, Moves(r, Entering(f)),
         FL!Clock(dispatch_en, Rob!dp_stall(f), retire_en, retire_T_old, rollback)
  PROVE  AllocExact'
<1>1. PICK m, c, k, q, u : /\ m = Entering(f) /\ c = rob_cnt /\ k = rob_cnt - r
                           /\ q = Rank(r) /\ u = fl_cnt
  OBVIOUS
<1>2. Moves(r, m)
  BY <1>1
<1>3. /\ r \in 0 .. 2 /\ m \in 0 .. 2 /\ r <= c /\ c \in Nat /\ k \in Nat /\ k = c - r
      /\ rob_cnt' = k + m /\ r \in Nat
      /\ m >= 1 => c + 2 <= ROB_SIZE
  BY <1>1, <1>2, Ages DEF Moves
<1>4. RankExact /\ RankExact' /\ R!RingInv'
  BY Ranks, RanksNext DEF CoreInv
<1>5. /\ u = Rank(c) /\ u \in 0 .. ROB_SIZE /\ q \in Nat /\ q <= u /\ u <= c
  BY <1>1, <1>3, <1>4, Places DEF RankExact
<1>6. Rank(k)' = u - q
  BY <1>1, <1>2, <1>3, <1>4, <1>5, RankShift
<1>7. ASSUME NEW p \in Slot, q <= p
      PROVE  Given(p - q)' = Given(p)
  <2>1. PICK n : n = p - Rank(r)
    OBVIOUS
  <2>2. Given(n)' = Given(p)
    BY <1>1, <1>2, <1>7, <2>1, PlacesKept
  <2>3. QED
    BY <1>1, <2>1, <2>2
<1>8. ASSUME NEW i \in Writers'
      PROVE  Given(Rank(R!Age(i)))' = data'[i].ins.T_new
  <2>1. PICK n, p : n = R!Age(i)' /\ p = Rank(n)'
    OBVIOUS
  <2>2. SUFFICES Given(p)' = data'[i].ins.T_new
    BY <2>1 DEF Given, Rank, Below
  <2>3. i \in Slot /\ data'[i].valid /\ data'[i].ins.T_new # 0
    BY DEF InFlight, Writers
  <2>4. CASE R!Age(i) < c
    <3>1. PICK a, b : a = R!Age(i) /\ b = Rank(a)
      OBVIOUS
    <3>2. /\ r <= a /\ data'[i].ins = data[i].ins /\ n = a - r /\ a \in Nat /\ a < c
          /\ i \in Writers
      BY <1>1, <1>2, <2>1, <2>3, <2>4, <3>1, Ages DEF Moves, Kept, InFlight, Writers
    <3>3. p = b - q
      <4>1. Rank(a - r)' = Rank(a) - Rank(r)
        <5>1. a <= rob_cnt
          BY <1>1, <1>3, <3>2
        <5>2. QED
          BY <1>2, <1>4, <3>2, <5>1, RankShift
      <4>2. Rank(n)' = Rank(a - r)'
        BY <3>2
      <4>3. QED
        BY <1>1, <2>1, <3>1, <4>1, <4>2
    <3>4. b \in Nat /\ b < u /\ q <= b /\ b \in Slot
      <4>1. b \in Nat /\ b < u
        BY <1>1, <3>1, <3>2, WriterRank
      <4>2. q <= b
        BY <1>1, <1>3, <1>4, <3>1, <3>2 DEF RankExact
      <4>3. QED
        BY <1>5, <4>1, <4>2, Sizes DEF Slot
    <3>5. Given(b) = data[i].ins.T_new
      BY <3>1, <3>2 DEF AllocExact
    <3>6. QED
      BY <1>7, <3>2, <3>3, <3>4, <3>5
  <2>5. CASE R!Age(i) = c
    <3>1. m >= 1 /\ i = rob_tail
      BY <1>1, <1>2, <1>3, <2>3, <2>5, Tails DEF Moves
    <3>2. n = k /\ data'[i] = R!Filled(rn_dp[0]) /\ id_rn[0].valid
      BY <1>1, <1>2, <2>1, <3>1, Entered
    <3>3. data'[i].ins.T_new = T_idx(0) /\ Decoded(0).rd # 0
      BY <2>3, <3>2, FilledExact, RenameExact DEF Ways
    <3>4. p = u - q /\ u \in Slot /\ u + 2 <= ROB_SIZE
      <4>1. Rank(n)' = Rank(k)'
        BY <3>2
      <4>2. QED
        BY <1>3, <1>5, <1>6, <2>1, <3>1, <4>1, Sizes DEF Slot
    <3>5. T_idx(0) = Given(u)
      BY <1>1, <3>2, <3>3, <3>4, Taken
    <3>6. QED
      BY <1>5, <1>7, <3>3, <3>4, <3>5
  <2>6. CASE R!Age(i) = c + 1
    <3>1. m = 2 /\ i = Rob!tail_p1
      BY <1>1, <1>2, <1>3, <2>3, <2>6, Tails DEF Moves
    <3>2. n = k + 1 /\ data'[i] = R!Filled(rn_dp[1]) /\ id_rn[1].valid
      BY <1>1, <1>2, <1>3, <2>1, <3>1, Entered
    <3>3. data'[i].ins.T_new = T_idx(1) /\ Decoded(1).rd # 0
      BY <2>3, <3>2, FilledExact, RenameExact DEF Ways
    <3>4. PICK j, e : j = rob_tail /\ e = IF Decoded(0).rd # 0 THEN 1 ELSE 0
      OBVIOUS
    <3>5. /\ j \in InFlight' /\ R!Age(j)' = k /\ data'[j] = R!Filled(rn_dp[0]) /\ id_rn[0].valid
      BY <1>1, <1>2, <1>3, <3>1, <3>4, Entered
    <3>6. Wrote(j)' = e
      BY <3>4, <3>5, FilledExact DEF Wrote, EntryExact, Ways
    <3>7. p = u - q + e
      BY <1>4, <1>6, <2>1, <3>2, <3>5, <3>6 DEF RankExact
    <3>8. e \in 0 .. 1 /\ u + e \in Slot /\ u + 2 <= ROB_SIZE /\ p = (u + e) - q /\ q <= u + e
      BY <1>3, <1>5, <3>1, <3>4, <3>7, Sizes DEF Slot
    <3>9. T_idx(1) = Given(u + e)
      BY <1>1, <3>2, <3>3, <3>4, <3>5, <3>8, Taken
    <3>10. QED
      BY <1>7, <3>3, <3>8, <3>9
  <2>7. QED
    BY <1>1, <1>2, <1>3, <2>3, <2>4, <2>5, <2>6, Ages DEF Moves
<1>9. QED
  BY <1>8 DEF AllocExact

-----------------------------------------------------------------------------
(* To exchange an element of one array with one of another changes nothing that they hold
   together. *)
LEMMA Exchange ==
  ASSUME NEW A, NEW S, NEW g, NEW h, NEW g1, NEW h1, NEW a \in A, NEW s \in S,
         \A x \in A : g1[x] = IF x = a THEN h[s] ELSE g[x],
         \A y \in S : h1[y] = IF y = s THEN g[a] ELSE h[y]
  PROVE  {g1[x] : x \in A} \cup {h1[y] : y \in S} = {g[x] : x \in A} \cup {h[y] : y \in S}
<1>1. g1[a] = h[s] /\ h1[s] = g[a]
  OBVIOUS
<1>2. ASSUME NEW v, v \in {g1[x] : x \in A} \cup {h1[y] : y \in S}
      PROVE  v \in {g[x] : x \in A} \cup {h[y] : y \in S}
  BY <1>2
<1>3. ASSUME NEW v, v \in {g[x] : x \in A} \cup {h[y] : y \in S}
      PROVE  v \in {g1[x] : x \in A} \cup {h1[y] : y \in S}
  <2>1. CASE v \in {g[x] : x \in A}
    <3>1. PICK x \in A : v = g[x]
      BY <2>1
    <3>2. v = IF x = a THEN h1[s] ELSE g1[x]
      BY <1>1, <3>1
    <3>3. QED
      BY <3>1, <3>2
  <2>2. CASE v \in {h[y] : y \in S}
    <3>1. PICK y \in S : v = h[y]
      BY <2>2
    <3>2. v = IF y = s THEN g1[a] ELSE h1[y]
      BY <1>1, <3>1
    <3>3. QED
      BY <3>1, <3>2
  <2>3. QED
    BY <1>3, <2>1, <2>2
<1>4. QED
  BY <1>2, <1>3

(* The same cycle commits a register and frees the one it replaces: pipeline.sv:452-458 and
   rn_stage.sv:38-39 say when with two conditions. *)
LEMMA SameEnables ==
  ASSUME CoreInv
  PROVE  /\ retire_en[0] <=> head_retire_rdy /\ ~viol0 /\ rob_head \in Writers
         /\ retire_en[1] <=> /\ head_p1_retire_rdy /\ ~viol0 /\ ~viol1
                             /\ ~(mispredict /\ ~second.is_branch) /\ Rob!head_p1 \in Writers
         /\ rrat_write[0].en <=> retire_en[0]
         /\ rrat_write[1].en <=> retire_en[1]
         /\ retire_en[0] => rrat_write[0].addr = Reg(rob_head) /\ rrat_write[0].tag = first.ins.T_new
                            /\ retire_T_old[0] = first.ins.T_old
         /\ retire_en[1] => rrat_write[1].addr = Reg(Rob!head_p1)
                            /\ rrat_write[1].tag = second.ins.T_new
                            /\ retire_T_old[1] = second.ins.T_old
<1>1. /\ head_retire_rdy => (rob_head \in Writers <=> first.ins.T_new # 0)
                            /\ (first.ins.T_new # 0 <=> first.ins.T_old # 0)
      /\ head_p1_retire_rdy => (Rob!head_p1 \in Writers <=> second.ins.T_new # 0)
                               /\ (second.ins.T_new # 0 <=> second.ins.T_old # 0)
  BY Heads DEF Writers, first, second, CoreInv, EntriesExact, EntryExact
<1>2. ~viol0 /\ ~viol1 => (rollback <=> mispredict)
  BY DEF rollback, ld_rollback
<1>3. /\ retire_en[0] <=> head_retire_rdy /\ ~viol0 /\ rob_head \in Writers
      /\ retire_en[1] <=> /\ head_p1_retire_rdy /\ ~viol0 /\ ~viol1
                          /\ ~(mispredict /\ ~second.is_branch) /\ Rob!head_p1 \in Writers
  BY <1>1, <1>2, Frees
<1>4. /\ rrat_write[0].en <=> retire_en[0]
      /\ rrat_write[1].en <=> retire_en[1]
  BY <1>1, <1>3, Commits DEF Commit, NoWrite
<1>5. /\ rrat_write[0].en => rrat_write[0].addr = Reg(rob_head) /\ rrat_write[0].tag = first.ins.T_new
      /\ rrat_write[1].en => rrat_write[1].addr = Reg(Rob!head_p1)
                              /\ rrat_write[1].tag = second.ins.T_new
  BY Commits DEF Commit, NoWrite, Reg, first, second
<1>6. /\ retire_en[0] => retire_T_old[0] = first.ins.T_old
      /\ retire_en[1] => retire_T_old[1] = second.ins.T_old
  BY DEF retire_T_old, Ways
<1>7. QED
  BY <1>3, <1>4, <1>5, <1>6

(* What is committed is what the free list has at its head, and what is freed what the map had. *)
LEMMA Swapped ==
  ASSUME CoreInv, MapsExact, AllocExact
  PROVE  /\ retire_en[0] => /\ Reg(rob_head) \in 1 .. NUM_ARCH - 1
                            /\ first.ins.T_new = Given(0) /\ first.ins.T_old = rrat_tag[Reg(rob_head)]
         /\ retire_en[1] =>
              /\ Reg(Rob!head_p1) \in 1 .. NUM_ARCH - 1
              /\ second.ins.T_new = Given(IF retire_en[0] THEN 1 ELSE 0)
              /\ second.ins.T_old = IF retire_en[0] /\ Reg(rob_head) = Reg(Rob!head_p1)
                                    THEN first.ins.T_new ELSE rrat_tag[Reg(Rob!head_p1)]
<1>1. ASSUME NEW i \in Writers
      PROVE  /\ Reg(i) \in 1 .. NUM_ARCH - 1 /\ IsMapping(Reg(i), R!Age(i), data[i].ins.T_old)
             /\ data[i].ins.T_new = Given(Rank(R!Age(i)))
  <2>1. i \in InFlight /\ data[i].ins.T_new # 0
    BY DEF Writers
  <2>2. Reg(i) \in Map!AReg /\ Reg(i) # 0
    BY <2>1, EntryTyped, ProgTyped DEF CoreInv, EntriesExact, EntryExact, Reg
  <2>3. IsMapping(Reg(i), R!Age(i), data[i].ins.T_old)
    BY <2>1, <2>2 DEF MapsExact, ReadExact, Reg
  <2>4. QED
    BY <2>2, <2>3, Sets, Sizes DEF AllocExact
<1>2. /\ R!Age(rob_head) = 0 /\ R!Age(Rob!head_p1) = 1 /\ rob_head \in Slot
      /\ \A i \in Slot : R!Age(i) \in Nat
      /\ \A i \in Slot : R!Age(i) = 0 => i = rob_head
  BY Heads, Ages, AgeOwn
<1>3. ASSUME retire_en[0]
      PROVE  /\ Reg(rob_head) \in 1 .. NUM_ARCH - 1
             /\ first.ins.T_new = Given(0) /\ first.ins.T_old = rrat_tag[Reg(rob_head)]
  <2>1. rob_head \in Writers
    BY <1>3, SameEnables
  <2>2. \A i \in Slot : \A a : ~Writes(i, a, 0)
    BY <1>2 DEF Writes
  <2>3. QED
    BY <1>1, <1>2, <2>1, <2>2, HeadRanks DEF IsMapping, first
<1>4. ASSUME retire_en[1]
      PROVE  /\ Reg(Rob!head_p1) \in 1 .. NUM_ARCH - 1
             /\ second.ins.T_new = Given(IF retire_en[0] THEN 1 ELSE 0)
             /\ second.ins.T_old = IF retire_en[0] /\ Reg(rob_head) = Reg(Rob!head_p1)
                                   THEN first.ins.T_new ELSE rrat_tag[Reg(Rob!head_p1)]
  <2>1. Rob!head_p1 \in Writers /\ rob_head \in InFlight /\ (retire_en[0] <=> rob_head \in Writers)
    BY <1>4, SameEnables, Heads
  <2>2. Rank(1) = IF retire_en[0] THEN 1 ELSE 0
    BY <2>1, HeadRanks DEF Wrote, Writers
  <2>3. \A i \in Slot : \A a : Writes(i, a, 1) <=> i = rob_head /\ retire_en[0] /\ Reg(rob_head) = a
    BY <1>2, <2>1 DEF Writes
  <2>4. second.ins.T_old = IF retire_en[0] /\ Reg(rob_head) = Reg(Rob!head_p1)
                           THEN first.ins.T_new ELSE rrat_tag[Reg(Rob!head_p1)]
    BY <1>1, <1>2, <2>1, <2>3 DEF IsMapping, first, second
  <2>5. QED
    BY <1>1, <1>2, <2>1, <2>2, <2>4 DEF second
<1>5. QED
  BY <1>3, <1>4

LEMMA CoverageKept ==
  ASSUME CoreInv, MapsExact, AllocExact, Coverage, NEW s,
         FL!Clock(dispatch_en, s, retire_en, retire_T_old, rollback),
         rrat_tag' = Map!Committed(rrat_write)
  PROVE  Coverage'
<1> DEFINE A == 1 .. NUM_ARCH - 1
           a0 == Reg(rob_head)
           a1 == Reg(Rob!head_p1)
           p0 == fl_head
           p1 == FL!Wrap(fl_head + (IF retire_en[0] THEN 1 ELSE 0))
           g1 == [x \in A |-> IF retire_en[0] /\ x = a0 THEN fl_table[p0] ELSE rrat_tag[x]]
           h1 == [y \in Slot |-> IF retire_en[0] /\ y = p0 THEN rrat_tag[a0] ELSE fl_table[y]]
           Both(g, h) == {g[x] : x \in A} \cup {h[y] : y \in Slot}
<1>1. /\ fl_head \in 0 .. ROB_SIZE - 1 /\ p0 \in Slot /\ p1 \in Slot
      /\ FL!Wrap(fl_head + 0) = fl_head
      /\ retire_en[0] => p1 # p0
  BY Places, Sizes DEF FL!Wrap, Slot
<1>2. Both(g1, h1) = Both(rrat_tag, fl_table)
  <2>1. CASE retire_en[0]
    <3>1. /\ \A x \in A : g1[x] = IF x = a0 THEN fl_table[p0] ELSE rrat_tag[x]
          /\ \A y \in Slot : h1[y] = IF y = p0 THEN rrat_tag[a0] ELSE fl_table[y]
      BY <2>1
    <3>2. a0 \in A
      BY <2>1, Swapped
    <3> HIDE DEF g1, h1, A, a0, a1, p0, p1
    <3>3. QED
      BY <1>1, <3>1, <3>2, Exchange
  <2>2. CASE ~retire_en[0]
    BY <2>2
  <2>3. QED
    BY <2>1, <2>2
<1>3. /\ retire_en[0] => first.ins.T_new = fl_table[p0] /\ first.ins.T_old = rrat_tag[a0] /\ a0 \in A
      /\ retire_en[1] => second.ins.T_new = fl_table[p1] /\ a1 \in A
      /\ retire_en[1] => second.ins.T_old = g1[a1]
  <2>1. retire_en[0] => first.ins.T_new = fl_table[p0] /\ first.ins.T_old = rrat_tag[a0] /\ a0 \in A
    BY <1>1, Swapped DEF Given
  <2>2. retire_en[1] => second.ins.T_new = fl_table[p1] /\ a1 \in A
    BY <1>1, Swapped DEF Given
  <2>3. retire_en[1] => second.ins.T_old = g1[a1]
    BY <2>1, <2>2, Swapped
  <2>4. QED
    BY <2>1, <2>2, <2>3
<1>4. \A x \in A : rrat_tag'[x] = IF retire_en[1] /\ x = a1 THEN h1[p1] ELSE g1[x]
  <2>1. ASSUME NEW x \in A
        PROVE  rrat_tag'[x] = IF retire_en[1] /\ x = a1 THEN second.ins.T_new
                              ELSE IF retire_en[0] /\ x = a0 THEN first.ins.T_new ELSE rrat_tag[x]
    <3>1. x \in Map!AReg
      BY Sets, Sizes
    <3>2. QED
      BY <3>1, SameEnables DEF Map!Committed
  <2>2. retire_en[1] => h1[p1] = fl_table[p1]
    BY <1>1
  <2>3. QED
    BY <1>3, <2>1, <2>2
<1>5. \A y \in Slot : fl_table'[y] = IF retire_en[1] /\ y = p1 THEN g1[a1] ELSE h1[y]
  <2>1. \A y \in Slot :
          fl_table'[y] = IF retire_en[0] /\ y = p0 THEN retire_T_old[0]
                         ELSE IF retire_en[1] /\ y = p1 THEN retire_T_old[1] ELSE fl_table[y]
    BY <1>1, Sets DEF FL!Clock, FL!Freed
  <2>2. QED
    BY <1>1, <1>3, <2>1, SameEnables
<1>6. Both(rrat_tag', fl_table') = Both(g1, h1)
  <2> HIDE DEF g1, h1, A, a1, p1
  <2>1. CASE retire_en[1]
    BY <1>1, <1>3, <1>4, <1>5, <2>1, Exchange
  <2>2. CASE ~retire_en[1]
    BY <1>4, <1>5, <2>2
  <2>3. QED
    BY <2>1, <2>2
<1>7. QED
  BY <1>2, <1>6 DEF Coverage, Committed, Held

LEMMA FreeInit == Init => AllocExact /\ Coverage
<1> SUFFICES ASSUME Init PROVE AllocExact /\ Coverage
  OBVIOUS
<1>1. /\ \A a \in 1 .. NUM_ARCH - 1 : rrat_tag[a] = a
      /\ \A i \in Slot : fl_table[i] = NUM_ARCH + i /\ ~data[i].valid
  BY Sets, Sizes DEF Init, Rob!Init, FL!Init, Map!Init, Rob!Zero, Rob!Idx, Slot
<1>2. AllocExact
  BY <1>1 DEF AllocExact, Writers, InFlight
<1>3. ASSUME NEW v
      PROVE  v \in Committed \cup Held <=> v \in PReg \ {0}
  <2>1. v \in Committed <=> v \in 1 .. NUM_ARCH - 1
    BY <1>1 DEF Committed
  <2>2. v \in Held <=> v \in NUM_ARCH .. NUM_ARCH + ROB_SIZE - 1
    <3>1. v \in Held <=> \E i \in Slot : v = NUM_ARCH + i
      BY <1>1 DEF Held
    <3>2. v \in NUM_ARCH .. NUM_ARCH + ROB_SIZE - 1 => v - NUM_ARCH \in Slot /\ v = NUM_ARCH + (v - NUM_ARCH)
      BY Sizes DEF Slot
    <3>3. (\E i \in Slot : v = NUM_ARCH + i) => v \in NUM_ARCH .. NUM_ARCH + ROB_SIZE - 1
      BY Sizes DEF Slot
    <3>4. QED
      BY <3>1, <3>2, <3>3
  <2>3. QED
    BY <2>1, <2>2, Sizes DEF PReg
<1>4. QED
  BY <1>2, <1>3 DEF Coverage

LEMMA FreeCycle ==
  CoreInv /\ CoreInv' /\ MapsExact /\ AllocExact /\ Coverage /\ Cycle => AllocExact' /\ Coverage'
<1> SUFFICES ASSUME CoreInv, CoreInv', MapsExact, AllocExact, Coverage, Cycle
             PROVE  AllocExact' /\ Coverage'
  OBVIOUS
<1>1. PICK go \in BOOLEAN, f \in {FALSE, MayBeFull}, leave \in Leaving :
        \E taken \in Outcomes(leave), verdict \in Verdicts(leave) :
          Clock(go, f, leave, taken, verdict)
  BY DEF Cycle
<1>2. PICK taken \in Outcomes(leave), verdict \in Verdicts(leave) :
        Clock(go, f, leave, taken, verdict)
  BY <1>1
<1>3. f \in BOOLEAN
  BY DEF MayBeFull
<1>4. /\ FL!Clock(dispatch_en, Rob!dp_stall(f), retire_en, retire_T_old, rollback)
      /\ rrat_tag' = Map!Committed(rrat_write)
  BY <1>2 DEF Clock, Map!Clock
<1>5. AllocExact'
  <2>1. CASE rollback
    <3>1. Writers' = {}
      BY <1>2, <2>1, RollbackEmpties
    <3>2. QED
      BY <3>1 DEF AllocExact
  <2>2. CASE ~rollback
    <3>1. PICK r \in 0 .. 2 : Moves(r, Entering(f))
      BY <1>2, <1>3, <2>2, StepMoves
    <3>2. QED
      BY <1>4, <2>2, <3>1, AllocKept
  <2>3. QED
    BY <2>1, <2>2
<1>6. QED
  BY <1>4, <1>5, CoverageKept

LEMMA FreeStutter == UNCHANGED vars /\ AllocExact /\ Coverage => AllocExact' /\ Coverage'
  BY DEF AllocExact, Coverage, Committed, Held, Given, Rank, Below, Writers, InFlight, R!Age,
         FL!Wrap, vars, robVars, flVars, mapVars

LEMMA FreeAlways ==
  ASSUME NoIllegal
  PROVE  Spec => [](AllocExact /\ Coverage)
<1>1. CoreInv /\ CoreInv' /\ MapsExact /\ AllocExact /\ Coverage /\ [Next]_vars
        => AllocExact' /\ Coverage'
  BY FreeCycle, FreeStutter DEF Next, Halted
<1>2. QED
  BY <1>1, FreeInit, CoreAlways, MapsAlways, PTL DEF Spec

(* Each of the first places of the free list belongs to an instruction in flight. *)
LEMMA RankHit ==
  ASSUME CoreInv, NEW q \in Nat, q < fl_cnt
  PROVE  \E i \in Writers : Rank(R!Age(i)) = q
<1>1. RankExact /\ rob_cnt \in Nat /\ fl_cnt = Rank(rob_cnt)
  BY Ranks, Ages, Places DEF CoreInv
<1> DEFINE T == {n \in 0 .. rob_cnt : Rank(n) > q}
           id == [n \in T |-> n]
<1>2. IsFiniteSet(T) /\ T # {}
  <2>1. rob_cnt \in T
    BY <1>1
  <2>2. IsFiniteSet(0 .. rob_cnt)
    BY <1>1, FS_Interval
  <2>3. QED
    BY <2>1, <2>2, FS_Subset
<1>3. PICK n \in T : \A k \in T : id[n] <= id[k]
  <2>1. \A k \in T : id[k] \in Int
    BY <1>1
  <2> HIDE DEF T, id
  <2>2. QED
    BY <1>2, <2>1, LowestExists
<1>4. n \in Nat /\ n <= rob_cnt /\ Rank(n) > q /\ n # 0
  <2>1. n \in Nat /\ n <= rob_cnt /\ Rank(n) > q
    BY <1>1
  <2>2. QED
    BY <2>1, HeadRanks
<1>5. PICK k \in Nat : n = k + 1
  <2>1. n - 1 \in Nat /\ n = (n - 1) + 1
    BY <1>4
  <2>2. QED
    BY <2>1
<1>6. k \notin T /\ k \in 0 .. rob_cnt /\ k < rob_cnt /\ Rank(k) \in Nat
  <2>1. k \in 0 .. rob_cnt /\ k < rob_cnt /\ k < n
    BY <1>1, <1>4, <1>5
  <2>2. k \notin T
    BY <1>3, <2>1
  <2>3. QED
    BY <1>1, <2>1, <2>2 DEF RankExact
<1>7. Rank(k) <= q
  BY <1>6
<1>8. PICK i \in InFlight : R!Age(i) = k
  <2>1. /\ rob_head \in 0 .. ROB_SIZE - 1 /\ rob_cnt \in 0 .. ROB_SIZE
        /\ \A j \in Slot : data[j].valid <=> R!Age(j) < rob_cnt
    BY Heads, Ages DEF Slot
  <2>2. PICK j : j = IF rob_head + k < ROB_SIZE THEN rob_head + k ELSE rob_head + k - ROB_SIZE
    OBVIOUS
  <2>3. j \in Slot /\ R!Age(j) = k
    BY <1>6, <2>1, <2>2, Sizes DEF Slot, R!Age
  <2>4. QED
    BY <1>6, <2>1, <2>3 DEF InFlight
<1>9. Rank(k + 1) = Rank(k) + Wrote(i)
  BY <1>1, <1>8 DEF RankExact
<1>10. i \in Writers /\ Rank(k) = q
  BY <1>4, <1>5, <1>6, <1>7, <1>8, <1>9 DEF Wrote, Writers
<1>11. QED
  BY <1>8, <1>10

LEMMA FreeMeans == CoreInv /\ AllocExact /\ Coverage => NoRegisterLost
<1> SUFFICES ASSUME CoreInv, AllocExact, Coverage PROVE NoRegisterLost
  OBVIOUS
<1> DEFINE Alive == {data[i].ins.T_new : i \in Writers}
<1>1. /\ fl_head \in 0 .. ROB_SIZE - 1 /\ fl_tail = FL!Wrap(fl_head + fl_cnt)
      /\ fl_cnt \in 0 .. ROB_SIZE /\ \A n \in Slot : FL!Wrap(fl_head + n) \in Slot
  BY Places DEF Slot
<1>2. ASSUME NEW k \in 0 .. ROB_SIZE - fl_cnt - 1
      PROVE  /\ fl_cnt + k \in Slot
             /\ FL!Wrap(fl_tail + k) = FL!Wrap(fl_head + (fl_cnt + k))
  BY <1>1, Sizes DEF FL!Wrap, Slot
<1>3. Alive \subseteq Held
  <2>1. ASSUME NEW i \in Writers PROVE data[i].ins.T_new \in Held
    <3>1. Rank(R!Age(i)) \in Slot
      BY <1>1, WriterRank, Sizes DEF Slot
    <3>2. QED
      BY <1>1, <3>1 DEF AllocExact, Given, Held
  <2>2. QED
    BY <2>1
<1>4. FL!FreeRegs \subseteq Held
  BY <1>1, <1>2 DEF FL!FreeRegs, FL!FreeSlots, Held
<1>5. Held \subseteq Alive \cup FL!FreeRegs
  <2>1. ASSUME NEW p \in Slot PROVE fl_table[p] \in Alive \cup FL!FreeRegs
    <3>1. PICK q : q = IF p >= fl_head THEN p - fl_head ELSE p - fl_head + ROB_SIZE
      OBVIOUS
    <3>2. q \in Slot /\ q \in Nat /\ p = FL!Wrap(fl_head + q)
      BY <1>1, <3>1, Sizes DEF FL!Wrap, Slot
    <3>3. CASE q < fl_cnt
      <4>1. PICK i \in Writers : Rank(R!Age(i)) = q
        BY <3>2, <3>3, RankHit
      <4>2. QED
        BY <3>2, <4>1 DEF AllocExact, Given
    <3>4. CASE ~(q < fl_cnt)
      <4>1. PICK k : k = q - fl_cnt
        OBVIOUS
      <4>2. k \in 0 .. ROB_SIZE - fl_cnt - 1 /\ q = fl_cnt + k
        BY <1>1, <3>2, <3>4, <4>1, Sizes DEF Slot
      <4>3. p = FL!Wrap(fl_tail + k)
        BY <1>2, <3>2, <4>2
      <4>4. QED
        BY <4>2, <4>3 DEF FL!FreeRegs, FL!FreeSlots
    <3>5. QED
      BY <3>3, <3>4
  <2>2. QED
    BY <2>1 DEF Held
<1>6. Committed \cup Alive \cup FL!FreeRegs = PReg \ {0}
  BY <1>3, <1>4, <1>5 DEF Coverage
<1>7. QED
  BY <1>6 DEF NoRegisterLost, Committed, CoreInv, FreeCount

(* No physical register is ever lost, and none is in two places: each is a committed mapping,
   the destination of one instruction in flight, or free, whatever dispatches, stalls, commits
   and rollbacks are mixed (freelist.sv, RRAT.sv and circular_buffer.sv, which are updated from
   conditions written out in three places), for every size and every program. *)
THEOREM CoreNoRegisterLost ==
  ASSUME NoIllegal
  PROVE  Spec => []NoRegisterLost
<1>1. CoreInv /\ AllocExact /\ Coverage => NoRegisterLost
  BY FreeMeans
<1>2. QED
  BY <1>1, CoreAlways, FreeAlways, PTL

-----------------------------------------------------------------------------
(* Addresses: two steps of one are one step of two. *)
LEMMA PlusIs ==
  \A pc \in PC : /\ Plus(pc, 1) = IF pc + 1 < NUM_PC THEN pc + 1 ELSE pc + 1 - NUM_PC
                 /\ Plus(pc, 2) = IF pc + 2 < NUM_PC THEN pc + 2 ELSE pc + 2 - NUM_PC
                 /\ Plus(pc, 1) \in PC /\ Plus(Plus(pc, 1), 1) = Plus(pc, 2)
<1>1. NUM_PC \in Nat /\ NUM_PC >= 2
  BY CoreAssumption
<1>2. \A x \in 0 .. NUM_PC + 1 : x % NUM_PC = IF x < NUM_PC THEN x ELSE x - NUM_PC
  BY <1>1
<1>3. QED
  BY <1>1, <1>2 DEF PC, Plus

(* What is in flight is followed by the next in flight, the last by what waits to be renamed,
   and that by what is fetched next. *)
Sequence ==
  /\ \A i, j \in InFlight : R!Age(j) = R!Age(i) + 1 => data[j].ins.pc = Plus(data[i].ins.pc, 1)
  /\ \A i \in InFlight : R!Age(i) + 1 = rob_cnt => NextFetched = Plus(data[i].ins.pc, 1)
  /\ id_rn[0].valid => PC_reg = Plus(id_rn[0].pc, IF id_rn[1].valid THEN 2 ELSE 1)
  /\ id_rn[1].valid => id_rn[0].valid /\ id_rn[1].pc = Plus(id_rn[0].pc, 1)

(* The bundle stays while dispatch stalls and is followed by the next one when it goes. *)
LEMMA BundleMoves ==
  ASSUME CoreInv, NoIllegal, Sequence, ~rollback,
         NEW go \in BOOLEAN, NEW f, NEW leave, NEW taken, NEW verdict,
         Clock(go, f, leave, taken, verdict)
  PROVE  /\ R!dp_stall(f) => NextFetched' = NextFetched
         /\ ~R!dp_stall(f) => NextFetched' = PC_reg
         /\ id_rn'[0].valid => PC_reg' = Plus(id_rn'[0].pc, IF id_rn'[1].valid THEN 2 ELSE 1)
         /\ id_rn'[1].valid => id_rn'[0].valid /\ id_rn'[1].pc = Plus(id_rn'[0].pc, 1)
<1>1. \A pc \in PC : Decode(pc) = [valid |-> TRUE, pc |-> pc]
  BY DEF NoIllegal, Decode, CoreInv, TypeOK
<1>2. PC_reg \in PC /\ Plus(PC_reg, 1) \in PC
  BY PlusIs DEF CoreInv, TypeOK
<1>3. /\ id_rn' = IF R!dp_stall(f) THEN id_rn ELSE IF go THEN Fetched ELSE NoBundle
      /\ PC_reg' = IF go /\ ~R!dp_stall(f) THEN Sequential ELSE PC_reg
  BY SameStall DEF Clock, rollback
<1>4. CASE R!dp_stall(f)
  BY <1>3, <1>4 DEF NextFetched, Sequence
<1>5. CASE ~R!dp_stall(f) /\ ~go
  <2>1. ~id_rn'[0].valid /\ ~id_rn'[1].valid /\ PC_reg' = PC_reg
    BY <1>3, <1>5 DEF NoBundle, NoInst, Ways
  <2>2. QED
    BY <1>5, <2>1 DEF NextFetched
<1>6. CASE ~R!dp_stall(f) /\ go
  <2>1. /\ id_rn'[0] = [valid |-> TRUE, pc |-> PC_reg]
        /\ PC_reg % 2 = 0 => id_rn'[1] = [valid |-> TRUE, pc |-> Plus(PC_reg, 1)]
        /\ PC_reg % 2 # 0 => id_rn'[1] = [valid |-> FALSE, pc |-> 0]
        /\ PC_reg' = Plus(PC_reg, IF PC_reg % 2 = 0 THEN 2 ELSE 1)
    <3>1. Decode(PC_reg) = [valid |-> TRUE, pc |-> PC_reg]
          /\ Decode(Plus(PC_reg, 1)) = [valid |-> TRUE, pc |-> Plus(PC_reg, 1)]
      BY <1>1, <1>2
    <3>2. id_rn' = Fetched /\ PC_reg' = Sequential
      BY <1>3, <1>6
    <3>3. /\ Fetched[0] = Decode(PC_reg)
          /\ PC_reg % 2 = 0 => Fetched[1] = Decode(Plus(PC_reg, 1))
          /\ PC_reg % 2 # 0 => Fetched[1] = [valid |-> FALSE, pc |-> 0]
      <4>1. 0 \in Ways /\ 1 \in Ways /\ 1 # 0
        BY DEF Ways
      <4>2. Fetched[0] = Decode(PC_reg)
        BY <4>1, Zenon DEF Fetched
      <4>3. Fetched[1] = IF PC_reg % 2 = 0 THEN Decode(Plus(PC_reg, 1)) ELSE NoInst
        BY <4>1, Zenon DEF Fetched
      <4>4. QED
        BY <4>2, <4>3, Zenon DEF NoInst
    <3>4. QED
      BY <3>1, <3>2, <3>3, Zenon DEF Sequential
  <2>2. QED
    BY <1>6, <2>1 DEF NextFetched
<1>7. QED
  BY <1>4, <1>5, <1>6

LEMMA SequenceKept ==
  ASSUME CoreInv, CoreInv', NoIllegal, Sequence, ~rollback,
         NEW go \in BOOLEAN, NEW f, NEW leave, NEW taken, NEW verdict,
         Clock(go, f, leave, taken, verdict), NEW r, Moves(r, Entering(f))
  PROVE  Sequence'
<1>1. PICK m, c, k : m = Entering(f) /\ c = rob_cnt /\ k = rob_cnt - r
  OBVIOUS
<1>2. Moves(r, m)
  BY <1>1
<1>3. /\ r \in 0 .. 2 /\ m \in 0 .. 2 /\ r <= c /\ c \in Nat /\ k \in Nat /\ k = c - r
      /\ rob_cnt' = k + m
  BY <1>1, <1>2, Ages DEF Moves
<1>4. ASSUME NEW i \in InFlight'
      PROVE  /\ i \in Slot /\ R!Age(i) \in Nat /\ r <= R!Age(i) /\ R!Age(i) < c + m
             /\ R!Age(i)' = R!Age(i) - r
             /\ R!Age(i) < c => i \in InFlight /\ data'[i].ins.pc = data[i].ins.pc
             /\ R!Age(i) = c => m >= 1 /\ id_rn[0].valid /\ data'[i].ins.pc = id_rn[0].pc
             /\ R!Age(i) = c + 1 => m = 2 /\ id_rn[1].valid /\ data'[i].ins.pc = id_rn[1].pc
  <2>1. i \in Slot /\ data'[i].valid /\ R!Age(i) \in Nat
    BY Ages DEF InFlight
  <2>2. r <= R!Age(i) /\ R!Age(i) < c + m /\ R!Age(i)' = R!Age(i) - r
    BY <1>1, <1>2, <2>1 DEF Moves
  <2>3. R!Age(i) < c => i \in InFlight /\ data'[i].ins.pc = data[i].ins.pc
    BY <1>1, <1>2, <2>1, <2>2, Ages DEF Moves, Kept, InFlight
  <2>4. ASSUME R!Age(i) = c
        PROVE  m >= 1 /\ id_rn[0].valid /\ data'[i].ins.pc = id_rn[0].pc
    <3>1. m >= 1 /\ i = rob_tail
      BY <1>1, <1>3, <2>1, <2>2, <2>4, Tails
    <3>2. data'[i] = R!Filled(rn_dp[0]) /\ id_rn[0].valid
      BY <1>2, <3>1, Entered
    <3>3. QED
      BY <3>1, <3>2, FilledExact DEF Ways
  <2>5. ASSUME R!Age(i) = c + 1
        PROVE  m = 2 /\ id_rn[1].valid /\ data'[i].ins.pc = id_rn[1].pc
    <3>1. m = 2 /\ i = Rob!tail_p1
      BY <1>1, <1>3, <2>1, <2>2, <2>5, Tails
    <3>2. data'[i] = R!Filled(rn_dp[1]) /\ id_rn[1].valid
      BY <1>2, <3>1, Entered
    <3>3. QED
      BY <3>1, <3>2, FilledExact DEF Ways
  <2>6. QED
    BY <2>1, <2>2, <2>3, <2>4, <2>5
<1>5. /\ \A i, j \in InFlight : R!Age(j) = R!Age(i) + 1 => data[j].ins.pc = Plus(data[i].ins.pc, 1)
      /\ \A i \in InFlight : R!Age(i) + 1 = c => NextFetched = Plus(data[i].ins.pc, 1)
      /\ id_rn[0].valid => PC_reg = Plus(id_rn[0].pc, IF id_rn[1].valid THEN 2 ELSE 1)
      /\ id_rn[1].valid => id_rn[1].pc = Plus(id_rn[0].pc, 1)
  BY <1>1 DEF Sequence
<1>6. ASSUME NEW i \in InFlight', NEW j \in InFlight', R!Age(j)' = R!Age(i)' + 1
      PROVE  data'[j].ins.pc = Plus(data'[i].ins.pc, 1)
  <2>1. R!Age(j) = R!Age(i) + 1
    BY <1>3, <1>4, <1>6
  <2>2. CASE R!Age(j) < c
    BY <1>3, <1>4, <1>5, <2>1, <2>2
  <2>3. CASE R!Age(j) = c
    <3>1. R!Age(i) + 1 = c /\ R!Age(i) < c
      BY <1>3, <1>4, <2>1, <2>3
    <3>2. /\ i \in InFlight /\ data'[i].ins.pc = data[i].ins.pc
          /\ id_rn[0].valid /\ data'[j].ins.pc = id_rn[0].pc
      BY <1>4, <2>3, <3>1
    <3>3. QED
      BY <1>5, <3>1, <3>2 DEF NextFetched
  <2>4. CASE R!Age(j) = c + 1
    <3>1. R!Age(i) = c
      BY <1>3, <1>4, <2>1, <2>4
    <3>2. QED
      BY <1>4, <1>5, <2>4, <3>1
  <2>5. QED
    BY <1>3, <1>4, <2>2, <2>3, <2>4
<1>7. ASSUME NEW i \in InFlight', R!Age(i)' + 1 = rob_cnt'
      PROVE  NextFetched' = Plus(data'[i].ins.pc, 1)
  <2>1. R!Age(i) + 1 = c + m /\ R!Age(i) \in Nat
    BY <1>3, <1>4, <1>7
  <2>2. CASE m = 0
    <3>1. i \in InFlight /\ data'[i].ins.pc = data[i].ins.pc /\ R!Age(i) + 1 = c
      BY <1>3, <1>4, <2>1, <2>2
    <3>2. R!dp_stall(f) \/ ~id_rn[0].valid
      BY <1>1, <2>2 DEF Entering
    <3>3. ~R!dp_stall(f) => NextFetched = PC_reg
      BY <3>2 DEF NextFetched
    <3>4. NextFetched' = NextFetched
      BY <3>3, BundleMoves
    <3>5. QED
      BY <1>5, <3>1, <3>4
  <2>3. CASE m = 1
    <3>1. id_rn[0].valid /\ data'[i].ins.pc = id_rn[0].pc
      BY <1>3, <1>4, <2>1, <2>3
    <3>2. ~R!dp_stall(f) /\ ~id_rn[1].valid
      BY <1>1, <2>3 DEF Entering
    <3>3. NextFetched' = PC_reg
      BY <3>2, BundleMoves
    <3>4. QED
      BY <1>5, <3>1, <3>2, <3>3
  <2>4. CASE m = 2
    <3>1. id_rn[1].valid /\ data'[i].ins.pc = id_rn[1].pc
      BY <1>3, <1>4, <2>1, <2>4
    <3>2. ~R!dp_stall(f) /\ id_rn[0].valid
      BY <1>1, <2>4 DEF Entering
    <3>3. NextFetched' = PC_reg
      BY <3>2, BundleMoves
    <3>4. id_rn[0].pc \in PC
      BY RenameTyped DEF Ways
    <3>5. QED
      BY <1>5, <3>1, <3>2, <3>3, <3>4, PlusIs
  <2>5. QED
    BY <1>3, <2>2, <2>3, <2>4
<1>8. QED
  BY <1>6, <1>7, BundleMoves DEF Sequence

LEMMA SequenceCycle == NoIllegal /\ CoreInv /\ CoreInv' /\ Sequence /\ Cycle => Sequence'
<1> SUFFICES ASSUME NoIllegal, CoreInv, CoreInv', Sequence, Cycle PROVE Sequence'
  OBVIOUS
<1>1. PICK go \in BOOLEAN, f \in {FALSE, MayBeFull}, leave \in Leaving :
        \E taken \in Outcomes(leave), verdict \in Verdicts(leave) :
          Clock(go, f, leave, taken, verdict)
  BY DEF Cycle
<1>2. PICK taken \in Outcomes(leave), verdict \in Verdicts(leave) :
        Clock(go, f, leave, taken, verdict)
  BY <1>1
<1>3. f \in BOOLEAN
  BY DEF MayBeFull
<1>4. CASE rollback
  <2>1. InFlight' = {} /\ id_rn' = NoBundle
    BY <1>2, <1>4, RollbackEmpties DEF Clock
  <2>2. QED
    BY <2>1 DEF Sequence, NoBundle, NoInst, Ways
<1>5. CASE ~rollback
  <2>1. PICK r \in 0 .. 2 : Moves(r, Entering(f))
    BY <1>2, <1>3, <1>5, StepMoves
  <2>2. QED
    BY <1>2, <1>5, <2>1, SequenceKept
<1>6. QED
  BY <1>4, <1>5

LEMMA SequenceInit == Init => Sequence
<1> SUFFICES ASSUME Init PROVE Sequence
  OBVIOUS
<1>1. InFlight = {} /\ ~id_rn[0].valid /\ ~id_rn[1].valid
  BY Sets DEF Init, Rob!Init, Rob!Zero, Rob!Idx, Slot, InFlight, NoBundle, NoInst, Ways
<1>2. QED
  BY <1>1 DEF Sequence

LEMMA SequenceStutter == UNCHANGED vars /\ Sequence => Sequence'
  BY DEF Sequence, NextFetched, InFlight, R!Age, vars, robVars

LEMMA SequenceAlways ==
  ASSUME NoIllegal
  PROVE  Spec => []Sequence
<1>1. CoreInv /\ CoreInv' /\ Sequence /\ [Next]_vars => Sequence'
  BY SequenceCycle, SequenceStutter DEF Next, Halted
<1>2. QED
  BY <1>1, SequenceInit, CoreAlways, PTL DEF Spec

LEMMA OrderMeans == CoreInv /\ AllocExact /\ Sequence => ProgramOrder
<1> SUFFICES ASSUME CoreInv, AllocExact, Sequence PROVE ProgramOrder
  OBVIOUS
<1>1. \A i \in InFlight : R!Age(i) \in Nat /\ rob_cnt \in Nat
  BY Ages DEF InFlight
<1>2. Consecutive
  BY <1>1, SameAge DEF Sequence, Consecutive
<1>3. \A i \in Writers : {j \in OlderThan(i) : j \in Writers} = Below(R!Age(i))
  BY SameAge DEF OlderThan, Below, Writers
<1>4. AllocatedInOrder
  BY <1>3 DEF AllocatedInOrder, AllocExact, Given, Rank
<1>5. QED
  BY <1>2, <1>4 DEF ProgramOrder

(* What is in flight is in program order, from the head of the reorder buffer through the
   rename register to the program counter, and the free list holds its registers in the same
   order, which is what lets a rollback give them all back by moving one pointer
   (freelist.sv:112-115): for every size and every program. *)
THEOREM CoreProgramOrder ==
  ASSUME NoIllegal
  PROVE  Spec => []ProgramOrder
<1>1. CoreInv /\ AllocExact /\ Sequence => ProgramOrder
  BY OrderMeans
<1>2. QED
  BY <1>1, CoreAlways, FreeAlways, SequenceAlways, PTL

-----------------------------------------------------------------------------
(* Every register is in one place: there are as many registers as places. *)
LEMMA OncePlaced ==
  ASSUME Coverage
  PROVE  /\ \A i, j \in Slot : fl_table[i] = fl_table[j] => i = j
         /\ \A a \in 1 .. NUM_ARCH - 1, i \in Slot : rrat_tag[a] # fl_table[i]
<1> DEFINE D == 1 .. NUM_ARCH + ROB_SIZE - 1
           g == [n \in D |-> IF n < NUM_ARCH THEN rrat_tag[n] ELSE fl_table[n - NUM_ARCH]]
<1>1. D = PReg \ {0}
  BY Sizes DEF PReg
<1>2. /\ \A i \in Slot : NUM_ARCH + i \in D /\ g[NUM_ARCH + i] = fl_table[i]
      /\ \A a \in 1 .. NUM_ARCH - 1 : a \in D /\ g[a] = rrat_tag[a]
  BY Sizes DEF Slot
<1>3. ASSUME NEW n \in D PROVE g[n] \in D
  <2>1. CASE n < NUM_ARCH
    BY <1>1, <2>1, Sizes DEF Coverage, Committed
  <2>2. CASE n >= NUM_ARCH
    <3>1. n - NUM_ARCH \in Slot
      BY <2>2, Sizes DEF Slot
    <3>2. QED
      BY <1>1, <2>2, <3>1, Sizes DEF Coverage, Held
  <2>3. QED
    BY <2>1, <2>2, Sizes
<1>4. ASSUME NEW v \in D PROVE \E n \in D : g[n] = v
  <2>1. v \in Committed \/ v \in Held
    BY <1>1 DEF Coverage
  <2>2. CASE v \in Committed
    BY <1>2, <2>2 DEF Committed
  <2>3. CASE v \in Held
    BY <1>2, <2>3 DEF Held
  <2>4. QED
    BY <2>1, <2>2, <2>3
<1>5. IsFiniteSet(D)
  BY Sizes, FS_Interval
<1>6. g \in Surjection(D, D)
  <2>1. g \in [D -> D]
    BY <1>3
  <2> HIDE DEF D, g
  <2>2. QED
    BY <1>4, <2>1 DEF Surjection
<1> HIDE DEF D, g
<1>7. g \in Injection(D, D)
  BY <1>5, <1>6, FS_SurjSameCardinalityImpliesInj
<1>8. \A m, n \in D : g[m] = g[n] => m = n
  BY <1>7 DEF Injection, IsInjective
<1>9. /\ \A i, j \in Slot : NUM_ARCH + i = NUM_ARCH + j => i = j
      /\ \A a \in 1 .. NUM_ARCH - 1, i \in Slot : a # NUM_ARCH + i
  BY Sizes DEF Slot
<1>10. QED
  BY <1>2, <1>8, <1>9

(* A register is used when it is mapped by the committed map or the destination of an
   instruction in flight.  What is given out next is not. *)
InUse(t) == t \in Committed \/ \E i \in Writers : t = data[i].ins.T_new

LEMMA Fresh ==
  ASSUME CoreInv, AllocExact, Coverage, NEW t, InUse(t), NEW n \in Slot, fl_cnt <= n
  PROVE  t # Given(n)
<1>1. /\ fl_head \in 0 .. ROB_SIZE - 1 /\ fl_cnt \in 0 .. ROB_SIZE
      /\ \A k \in Slot : FL!Wrap(fl_head + k) \in Slot
  BY Places DEF Slot
<1>2. CASE t \in Committed
  BY <1>1, <1>2, OncePlaced DEF Committed, Given
<1>3. CASE \E i \in Writers : t = data[i].ins.T_new
  <2>1. PICK i \in Writers : t = data[i].ins.T_new
    BY <1>3
  <2>2. PICK k : k = Rank(R!Age(i))
    OBVIOUS
  <2>3. k \in Slot /\ k < fl_cnt /\ t = Given(k)
    BY <1>1, <2>1, <2>2, WriterRank, Sizes DEF Slot, AllocExact
  <2>4. FL!Wrap(fl_head + k) # FL!Wrap(fl_head + n)
    BY <1>1, <2>3, Sizes DEF FL!Wrap, Slot
  <2>5. QED
    BY <1>1, <2>3, <2>4, OncePlaced DEF Given
<1>4. QED
  BY <1>2, <1>3 DEF InUse

LEMMA OwnTag ==
  ASSUME CoreInv, AllocExact, Coverage, NEW i \in Writers, NEW j \in Writers,
         data[i].ins.T_new = data[j].ins.T_new
  PROVE  i = j
<1>1. /\ fl_head \in 0 .. ROB_SIZE - 1 /\ fl_cnt \in 0 .. ROB_SIZE
      /\ \A k \in Slot : FL!Wrap(fl_head + k) \in Slot
  BY Places DEF Slot
<1>2. RankExact
  BY Ranks DEF CoreInv
<1>3. i \in InFlight /\ j \in InFlight /\ Wrote(i) = 1 /\ Wrote(j) = 1 /\ i \in Slot /\ j \in Slot
  BY DEF Writers, InFlight, Wrote
<1>4. R!Age(i) \in Nat /\ R!Age(j) \in Nat
  BY <1>3, Ages
<1>5. PICK p, q : p = Rank(R!Age(i)) /\ q = Rank(R!Age(j))
  OBVIOUS
<1>6. p \in Slot /\ q \in Slot /\ data[i].ins.T_new = Given(p) /\ data[j].ins.T_new = Given(q)
  BY <1>1, <1>5, WriterRank, Sizes DEF Slot, AllocExact
<1>7. FL!Wrap(fl_head + p) = FL!Wrap(fl_head + q)
  BY <1>1, <1>6, OncePlaced DEF Given
<1>8. p = q
  BY <1>1, <1>6, <1>7, Sizes DEF FL!Wrap, Slot
<1>9. /\ R!Age(i) + 1 <= R!Age(j) => p + 1 <= q
      /\ R!Age(j) + 1 <= R!Age(i) => q + 1 <= p
  BY <1>2, <1>3, <1>4, <1>5 DEF RankExact
<1>10. R!Age(i) = R!Age(j)
  BY <1>4, <1>6, <1>8, <1>9 DEF Slot
<1>11. QED
  BY <1>3, <1>10, AgeOwn

-----------------------------------------------------------------------------
(* The buses show every result there is: at most two leave EX in a cycle. *)
BusesExact ==
  /\ \A x, y \in ex_cm : x.rob_idx = y.rob_idx => x = y
  /\ \A x, y, z \in ex_cm : x = y \/ x = z \/ y = z

LEMMA BusShows ==
  ASSUME TypeOK, BusesExact
  PROVE  /\ \A w \in Ways : cdb[w].valid =>
              \E x \in ex_cm : x.rob_idx = cdb[w].rob_idx /\ x.tag = cdb[w].tag
         /\ \A x \in ex_cm : \E w \in Ways :
              cdb[w].valid /\ cdb[w].rob_idx = x.rob_idx /\ cdb[w].tag = x.tag
<1>1. CASE ex_cm = {}
  <2>1. \A w \in Ways : cdb[w] = NoResult
    BY <1>1 DEF cdb
  <2>2. QED
    BY <1>1, <2>1 DEF NoResult
<1>2. CASE ex_cm # {}
  <2>1. PICK l, h : l = Lowest(ex_cm) /\ h = Highest(ex_cm)
    OBVIOUS
  <2>2. /\ l \in ex_cm /\ h \in ex_cm
        /\ cdb[0] = OnBus(l)
        /\ cdb[1] = IF Cardinality(ex_cm) = 2 THEN OnBus(h) ELSE NoResult
    BY <1>2, <2>1, ResultEnds DEF cdb, Ways
  <2>3. ASSUME NEW x \in ex_cm, x # l
        PROVE  x = h /\ Cardinality(ex_cm) = 2
    <3>1. /\ \E r \in ex_cm : \A y \in ex_cm : r.rob_idx <= y.rob_idx
          /\ \E r \in ex_cm : \A y \in ex_cm : r.rob_idx >= y.rob_idx
      <4> DEFINE S == {r.rob_idx : r \in ex_cm}
      <4>1. S \in SUBSET Slot /\ S # {}
        BY <1>2 DEF TypeOK
      <4>2. (\E p \in S : \A q \in S : p <= q) /\ (\E p \in S : \A q \in S : p >= q)
        <5> HIDE DEF S
        <5>1. QED
          BY <4>1, EndsExist
      <4>3. QED
        BY <4>2
    <3>2. /\ \A y \in ex_cm : l.rob_idx <= y.rob_idx
          /\ \A y \in ex_cm : h.rob_idx >= y.rob_idx
      BY <2>1, <3>1 DEF Lowest, Highest
    <3>3. \A y \in ex_cm : y.rob_idx \in Int
      BY Sizes DEF TypeOK, Slot
    <3>4. l # h
      BY <2>2, <2>3, <3>2, <3>3 DEF BusesExact
    <3>5. x = h /\ ex_cm = {l, h}
      BY <2>2, <2>3, <3>4 DEF BusesExact
    <3>6. Cardinality({l, h}) = 2
      <4>1. IsFiniteSet({l}) /\ Cardinality({l}) = 1
        BY FS_Singleton
      <4>2. {l, h} = {l} \cup {h} /\ h \notin {l}
        BY <3>4
      <4>3. QED
        BY <4>1, <4>2, FS_AddElement
    <3>7. QED
      BY <3>5, <3>6
  <2>4. QED
    BY <2>2, <2>3 DEF OnBus, NoResult, Ways
<1>3. QED
  BY <1>1, <1>2

LEMMA ResultsNext ==
  ASSUME CoreInv, NEW go, NEW f, NEW leave \in Leaving, NEW taken, NEW verdict,
         Clock(go, f, leave, taken, verdict)
  PROVE  BusesExact'
<1>1. ex_cm' = {} \/ ex_cm' = Results(leave)
  BY DEF Clock
<1>2. ASSUME NEW i \in leave, NEW j \in leave, NEW k \in leave
      PROVE  i = j \/ i = k \/ j = k
  <2>1. SUFFICES ASSUME i # j, i # k, j # k PROVE FALSE
    OBVIOUS
  <2>2. leave \in SUBSET Slot /\ Cardinality(leave) <= 2
    BY DEF Leaving, Ready
  <2>3. IsFiniteSet({i}) /\ Cardinality({i}) = 1
    BY FS_Singleton
  <2>4. IsFiniteSet({i} \cup {j}) /\ Cardinality({i} \cup {j}) = 2
    BY <2>1, <2>3, FS_AddElement
  <2>5. Cardinality(({i} \cup {j}) \cup {k}) = 3
    BY <2>1, <2>4, FS_AddElement
  <2>6. Cardinality(({i} \cup {j}) \cup {k}) <= Cardinality(leave)
    <3>1. IsFiniteSet(leave) /\ ({i} \cup {j}) \cup {k} \in SUBSET leave
      BY <2>2, SlotsFinite, FS_Subset
    <3>2. QED
      BY <3>1, FS_Subset
  <2>7. Cardinality(leave) \in Nat
    BY <2>2, SlotsFinite, FS_Subset, FS_CardinalityType
  <2>8. QED
    BY <2>2, <2>5, <2>6, <2>7
<1>3. QED
  BY <1>1, <1>2 DEF BusesExact, Results

-----------------------------------------------------------------------------
(* A halt reads nothing, and when results of flushed instructions are on the buses nothing is
   there to hear them. *)
HaltReads == \A i \in InFlight : prog[data[i].ins.pc].kind = "halt" => data[i].ins.src = 0
Quiet     == rob_cnt = 0 /\ ex_cm # {} => ~id_rn[0].valid /\ ~id_rn[1].valid

Wakes == WokenInTime /\ BusesExact /\ HaltReads /\ Quiet

RenameInv == CoreInv /\ MapsExact /\ AllocExact /\ Coverage

(* A register is on a bus exactly if its producer completes. *)
LEMMA Heard ==
  ASSUME RenameInv, BusesExact, rob_cnt # 0 \/ ex_cm = {}
  PROVE  /\ \A i \in Writers : Map!Broadcast(cdb, data[i].ins.T_new) <=> R!CompletesNow(cdb, i)
         /\ \A t : t # 0 /\ Map!Broadcast(cdb, t) => InUse(t)
<1>1. /\ \A w \in Ways : cdb[w].valid =>
           \E x \in ex_cm : x.rob_idx = cdb[w].rob_idx /\ x.tag = cdb[w].tag
      /\ \A x \in ex_cm : \E w \in Ways :
           cdb[w].valid /\ cdb[w].rob_idx = x.rob_idx /\ cdb[w].tag = x.tag
  BY BusShows DEF RenameInv, CoreInv
<1>2. \A x \in ex_cm : x.rob_idx \in InFlight /\ data[x.rob_idx].ins.T_new = x.tag
  BY DEF RenameInv, CoreInv, ResultsLive, TypeOK, InFlight
<1>3. \A t : Map!Broadcast(cdb, t) <=> \E x \in ex_cm : x.tag = t
  BY <1>1, Sets DEF Map!Broadcast
<1>4. ASSUME NEW i \in Writers
      PROVE  Map!Broadcast(cdb, data[i].ins.T_new) <=> R!CompletesNow(cdb, i)
  <2>1. data[i].valid /\ data[i].ins.T_new # 0
    BY DEF Writers, InFlight
  <2>2. R!CompletesNow(cdb, i) <=> \E x \in ex_cm : x.rob_idx = i
    BY <1>1, <2>1, Sets DEF R!CompletesNow
  <2>3. ASSUME NEW x \in ex_cm, x.tag = data[i].ins.T_new
        PROVE  x.rob_idx = i
    <3>1. x.rob_idx \in Writers /\ data[x.rob_idx].ins.T_new = data[i].ins.T_new
      BY <1>2, <2>1, <2>3 DEF Writers
    <3>2. QED
      BY <3>1, OwnTag DEF RenameInv
  <2>4. QED
    BY <1>2, <1>3, <2>2, <2>3
<1>5. ASSUME NEW t, t # 0, Map!Broadcast(cdb, t)
      PROVE  InUse(t)
  BY <1>2, <1>3, <1>5 DEF InUse, Writers
<1>6. QED
  BY <1>4, <1>5

(* What is given out in a cycle was free. *)
LEMMA GivenFresh ==
  ASSUME RenameInv, NEW f, Entering(f) >= 1, NEW w \in Ways, w = 1 => Entering(f) = 2,
         Decoded(w).rd # 0
  PROVE  ~InUse(T_idx(w))
<1>1. id_rn[0].valid /\ rob_cnt + 2 <= ROB_SIZE /\ (w = 1 => id_rn[1].valid)
  BY DispatchCount DEF RenameInv
<1>2. /\ fl_cnt \in 0 .. ROB_SIZE /\ fl_cnt <= rob_cnt /\ rob_cnt \in Nat
  BY Places, Ages, Ranks DEF RenameInv, CoreInv, RankExact
<1>3. fl_cnt \in Slot /\ fl_cnt + 1 \in Slot /\ fl_cnt + 0 = fl_cnt /\ fl_cnt + 2 <= ROB_SIZE
  BY <1>1, <1>2, Sizes DEF Slot
<1>4. \E n \in Slot : fl_cnt <= n /\ T_idx(w) = Given(n)
  <2>1. CASE w = 0
    BY <1>1, <1>2, <1>3, <2>1, Taken DEF RenameInv
  <2>2. CASE w = 1
    <3>1. T_idx(1) = Given(fl_cnt + (IF Decoded(0).rd # 0 THEN 1 ELSE 0))
      BY <1>1, <1>3, <2>2, Taken DEF RenameInv
    <3>2. fl_cnt <= fl_cnt + 1 /\ fl_cnt <= fl_cnt + 0
      BY <1>2
    <3>3. QED
      BY <1>3, <2>2, <3>1, <3>2
  <2>3. QED
    BY <2>1, <2>2 DEF Ways
<1>5. QED
  BY <1>4, Fresh DEF RenameInv

(* What is waited for: after the cycle as before it, without those that completed. *)
LEMMA PendingKept ==
  ASSUME RenameInv, BusesExact, rob_cnt # 0 \/ ex_cm = {}, ~rollback,
         NEW r, NEW f, Moves(r, Entering(f)), NEW t, t # 0, InUse(t)
  PROVE  Pending(t)' <=> Pending(t) /\ ~Map!Broadcast(cdb, t)
<1>1. PICK m, c : m = Entering(f) /\ c = rob_cnt
  OBVIOUS
<1>2. Moves(r, m) /\ r \in 0 .. 2 /\ m \in 0 .. 2 /\ r <= c /\ c \in Nat
  BY <1>1, Ages DEF Moves, RenameInv
<1>3. \A i \in Slot : R!Age(i) \in Nat /\ (data[i].valid <=> R!Age(i) < c)
  BY <1>1, Ages DEF RenameInv
<1>4. \A i \in Slot : retire_tag'[i] <=> R!NextRetireTag(cdb, i)
  BY <1>2 DEF Moves
<1>5. ASSUME NEW i \in Writers
      PROVE  /\ R!Completed(cdb, i) \/ (i \in Writers' /\ data'[i].ins.T_new = data[i].ins.T_new
                                         /\ ~retire_tag'[i])
             /\ R!Completed(cdb, i) => i \notin Writers' \/ retire_tag'[i]
  <2>1. i \in Slot /\ data[i].valid /\ R!Age(i) < c /\ data[i].ins.T_new # 0
    BY <1>3 DEF Writers, InFlight
  <2>2. (r <= R!Age(i) => data'[i].valid /\ data'[i].ins = data[i].ins)
        /\ (R!Age(i) < r => ~data'[i].valid)
    BY <1>1, <1>2, <1>3, <2>1 DEF Moves, Kept
  <2>3. /\ i = rob_head => R!Age(i) = 0
        /\ i = Rob!head_p1 => R!Age(i) = 1
        /\ R!Age(i) = 0 => i = rob_head
        /\ R!Age(i) = 1 => i = Rob!head_p1
    BY <2>1, Heads, AgeOwn DEF RenameInv
  <2>4. /\ r >= 1 <=> Rob!head_retire_rdy(cdb)
        /\ r = 2 <=> Rob!head_p1_retire_rdy(cdb)
    BY NoRollbackReady DEF Moves, head_retire_rdy, RenameInv
  <2>5. /\ R!Age(i) < r => R!Completed(cdb, i)
        /\ r <= R!Age(i) /\ R!Completed(cdb, i) => R!NextRetireTag(cdb, i)
        /\ R!NextRetireTag(cdb, i) => R!Completed(cdb, i)
    <3>1. R!Age(i) < r => R!Completed(cdb, i)
      BY <1>2, <1>3, <2>1, <2>3, <2>4, SameCompleted DEF Rob!head_retire_rdy, Rob!head_p1_retire_rdy
    <3>2. r <= R!Age(i) /\ R!Completed(cdb, i) => R!NextRetireTag(cdb, i)
      BY <1>2, <1>3, <2>1, <2>3, <2>4, SameReady DEF R!NextRetireTag
    <3>3. QED
      BY <3>1, <3>2 DEF R!NextRetireTag
  <2>6. i \in Writers' <=> data'[i].valid /\ data'[i].ins.T_new # 0
    BY <2>1 DEF Writers, InFlight
  <2>7. CASE r <= R!Age(i)
    BY <1>4, <2>1, <2>2, <2>5, <2>6, <2>7
  <2>8. CASE R!Age(i) < r
    BY <2>2, <2>5, <2>6, <2>8
  <2>9. QED
    BY <1>2, <1>3, <2>1, <2>7, <2>8
<1>6. ASSUME NEW i \in Writers', data'[i].ins.T_new = t
      PROVE  i \in Writers /\ data[i].ins.T_new = t
  <2>1. i \in Slot /\ data'[i].valid
    BY DEF Writers, InFlight
  <2>2. r <= R!Age(i) /\ R!Age(i) < c + m
    BY <1>1, <1>2, <2>1 DEF Moves
  <2>3. CASE R!Age(i) < c
    <3>1. data[i].valid /\ data'[i].ins = data[i].ins
      BY <1>1, <1>2, <1>3, <2>1, <2>2, <2>3 DEF Moves, Kept
    <3>2. QED
      BY <1>6, <2>1, <3>1 DEF Writers, InFlight
  <2>4. CASE R!Age(i) = c
    <3>1. m >= 1 /\ i = rob_tail
      BY <1>1, <1>2, <1>3, <2>1, <2>2, <2>4, Tails DEF RenameInv
    <3>2. data'[i] = R!Filled(rn_dp[0]) /\ id_rn[0].valid
      BY <1>2, <3>1, Entered DEF RenameInv
    <3>3. t = T_idx(0) /\ Decoded(0).rd # 0
      BY <1>6, <3>2, FilledExact, RenameExact DEF Ways, RenameInv
    <3>4. QED
      BY <1>1, <3>1, <3>3, GivenFresh DEF Ways
  <2>5. CASE R!Age(i) = c + 1
    <3>1. m = 2 /\ i = Rob!tail_p1
      BY <1>1, <1>2, <1>3, <2>1, <2>2, <2>5, Tails DEF RenameInv
    <3>2. data'[i] = R!Filled(rn_dp[1]) /\ id_rn[1].valid
      BY <1>2, <3>1, Entered DEF RenameInv
    <3>3. t = T_idx(1) /\ Decoded(1).rd # 0
      BY <1>6, <3>2, FilledExact, RenameExact DEF Ways, RenameInv
    <3>4. Entering(f) = 2 /\ Entering(f) >= 1 /\ 1 \in Ways
      BY <1>1, <3>1 DEF Ways
    <3>5. ~InUse(T_idx(1))
      BY <3>3, <3>4, GivenFresh
    <3>6. QED
      BY <3>3, <3>5
  <2>6. QED
    BY <1>2, <1>3, <2>1, <2>2, <2>3, <2>4, <2>5
<1>7. Pending(t)' <=> \E i \in Writers' : data'[i].ins.T_new = t /\ ~retire_tag'[i]
  BY DEF Pending
<1>8. Pending(t)' <=> \E i \in Writers : data[i].ins.T_new = t /\ ~R!Completed(cdb, i)
  BY <1>5, <1>6, <1>7
<1>9. Pending(t) <=> \E i \in Writers : data[i].ins.T_new = t /\ ~retire_tag[i]
  BY DEF Pending
<1>10. \A i \in Writers : R!Completed(cdb, i) <=> retire_tag[i] \/ Map!Broadcast(cdb, data[i].ins.T_new)
  BY Heard DEF R!Completed
<1>11. QED
  BY <1>8, <1>9, <1>10

(* What enters is waited for. *)
LEMMA PendingGiven ==
  ASSUME RenameInv, NEW r, NEW f, Moves(r, Entering(f)), NEW w \in Ways,
         Entering(f) >= 1, w = 1 => Entering(f) = 2, Decoded(w).rd # 0, NEW t, t = T_idx(w)
  PROVE  Pending(t)'
<1>1. PICK m, i : m = Entering(f) /\ i = IF w = 0 THEN rob_tail ELSE Rob!tail_p1
  OBVIOUS
<1>2. Moves(r, m)
  BY <1>1
<1>3. /\ i \in Slot /\ i \in InFlight' /\ rob_cnt <= R!Age(i) /\ data'[i] = R!Filled(rn_dp[w])
      /\ id_rn[w].valid
  BY <1>1, <1>2, Entered, Ages DEF Ways, RenameInv
<1>4. data'[i].ins.T_new = t /\ t # 0
  <2>1. T_idx(w) # 0
    BY <1>3, RenameExact DEF RenameInv
  <2>2. R!Filled(rn_dp[w]).ins.T_new = T_idx(w)
    <3>1. R!Filled(rn_dp[w]).ins = [pc |-> id_rn[w].pc, T_new |-> T_idx(w),
                                    T_old |-> Map!T_old(rat_write, w), src |-> Operand(w).tag]
      BY <1>3, FilledExact DEF RenameInv
    <3>2. QED
      BY <3>1
  <2>3. QED
    BY <1>3, <2>1, <2>2
<1>5. ~data[i].valid
  BY <1>3, Ages DEF RenameInv
<1>6. ~R!NextRetireTag(cdb, i)
  BY <1>3, <1>5, Sets DEF R!NextRetireTag, R!Completed, R!CompletesNow, RenameInv, CoreInv, R!RingInv,
                          R!NoStaleCompletion
<1>7. ~retire_tag'[i]
  BY <1>2, <1>3, <1>6 DEF Moves
<1>8. i \in Writers'
  BY <1>3, <1>4 DEF Writers
<1>9. QED
  BY <1>4, <1>7, <1>8 DEF Pending

LEMMA MappedUsed ==
  ASSUME CoreInv, NEW a \in Map!AReg, NEW n, NEW x, IsMapping(a, n, x)
  PROVE  x = 0 \/ InUse(x)
<1>1. CASE x = rrat_tag[a]
  <2>1. CASE a = 0
    BY <1>1, <2>1 DEF CoreInv, ZeroExact
  <2>2. CASE a # 0
    <3>1. a \in 1 .. NUM_ARCH - 1
      BY <2>2, Sets, Sizes
    <3>2. QED
      BY <1>1, <3>1 DEF InUse, Committed
  <2>3. QED
    BY <2>1, <2>2
<1>2. CASE x # rrat_tag[a]
  BY <1>2 DEF IsMapping, Writes, InUse
<1>3. QED
  BY <1>1, <1>2

(* What enters knows whether its operand is there: the broadcast of the very cycle included. *)
LEMMA OperandReady ==
  ASSUME RenameInv, WokenInTime, BusesExact, rob_cnt # 0 \/ ex_cm = {}, ~rollback,
         NEW r, NEW f, Moves(r, Entering(f)), NEW w \in Ways,
         Entering(f) >= 1, w = 1 => Entering(f) = 2, NEW t, t = Operand(w).tag
  PROVE  Operand(w).ready <=> ~Pending(t)'
<1>1. id_rn[0].valid /\ id_rn[w].valid /\ 0 \in Ways
  BY DispatchCount DEF RenameInv, Ways
<1>2. /\ rat_write[0].en /\ rat_write[0].addr = Decoded(0).rd /\ rat_write[0].tag = T_idx(0)
  BY <1>1 DEF rat_write
<1>3. PICK a : a = Decoded(w).rs
  OBVIOUS
<1>4. a \in Map!AReg
  BY <1>3, RenameTyped DEF RenameInv
<1>5. t = 0 => ~Pending(t)'
  BY DEF Pending
<1>6. CASE Decoded(w).kind = "halt"
  <2>1. Operand(w) = [tag |-> 0, ready |-> TRUE]
    BY <1>6 DEF Operand
  <2>2. QED
    BY <1>5, <2>1
<1>7. CASE Decoded(w).kind # "halt" /\ a = 0
  <2>1. Operand(w) = [tag |-> 0, ready |-> TRUE \/ Map!Broadcast(cdb, 0)]
    BY <1>2, <1>3, <1>7 DEF Operand, Map!Source, Map!ZERO_REG
  <2>2. t = 0 /\ Operand(w).ready
    <3>1. Operand(w).tag = 0
      BY <2>1
    <3>2. Operand(w).ready = (TRUE \/ Map!Broadcast(cdb, 0))
      BY <2>1
    <3>3. QED
      BY <3>1, <3>2
  <2>3. QED
    BY <1>5, <2>2
<1>8. CASE Decoded(w).kind # "halt" /\ a # 0 /\ w = 1 /\ a = Decoded(0).rd
  <2>1. Operand(w) = [tag |-> T_idx(0), ready |-> FALSE \/ Map!Broadcast(cdb, T_idx(0))]
    BY <1>2, <1>3, <1>8 DEF Operand, Map!Source, Map!ZERO_REG
  <2>2. t = T_idx(0) /\ (Operand(w).ready <=> Map!Broadcast(cdb, T_idx(0)))
    <3>1. Operand(w).tag = T_idx(0)
      BY <2>1
    <3>2. Operand(w).ready = (FALSE \/ Map!Broadcast(cdb, T_idx(0)))
      BY <2>1
    <3>3. QED
      BY <3>1, <3>2
  <2>3. Decoded(0).rd # 0 /\ T_idx(0) # 0
    BY <1>1, <1>8, RenameExact DEF RenameInv
  <2>4. ~InUse(T_idx(0))
    BY <1>1, <2>3, GivenFresh
  <2>5. ~Map!Broadcast(cdb, T_idx(0))
    BY <2>3, <2>4, Heard
  <2>6. Pending(t)'
    BY <1>1, <2>2, <2>3, PendingGiven
  <2>7. QED
    BY <2>2, <2>5, <2>6
<1>9. CASE Decoded(w).kind # "halt" /\ a # 0 /\ ~(w = 1 /\ a = Decoded(0).rd)
  <2>1. Operand(w) = [tag |-> rat_tag[a], ready |-> preg_ready[a] \/ Map!Broadcast(cdb, rat_tag[a])]
    BY <1>2, <1>3, <1>9 DEF Operand, Map!Source, Map!ZERO_REG
  <2>2. t = rat_tag[a] /\ (Operand(w).ready <=> preg_ready[a] \/ Map!Broadcast(cdb, t))
    <3>1. Operand(w).tag = rat_tag[a]
      BY <2>1
    <3>2. Operand(w).ready = (preg_ready[a] \/ Map!Broadcast(cdb, rat_tag[a]))
      BY <2>1
    <3>3. QED
      BY <3>1, <3>2
  <2>3. t # 0 /\ InUse(t)
    BY <1>4, <1>9, <2>2, MappedUsed DEF RenameInv, CoreInv, ZeroExact, MapsExact, MapExact
  <2>4. Pending(t)' <=> Pending(t) /\ ~Map!Broadcast(cdb, t)
    BY <2>3, PendingKept
  <2>5. preg_ready[a] <=> ~Pending(t)
    <3>1. a \in 1 .. NUM_ARCH - 1
      BY <1>4, <1>9, Sets, Sizes
    <3>2. QED
      BY <2>2, <3>1 DEF WokenInTime
  <2>6. QED
    BY <2>2, <2>4, <2>5
<1>10. QED
  BY <1>6, <1>7, <1>8, <1>9

(* What the instructions in the station read is in use. *)
LEMMA SourcesUsed ==
  ASSUME RenameInv, HaltReads, NEW i \in InFlight
  PROVE  data[i].ins.src = 0 \/ InUse(data[i].ins.src)
<1>1. CASE prog[data[i].ins.pc].kind = "halt"
  BY <1>1 DEF HaltReads
<1>2. CASE prog[data[i].ins.pc].kind # "halt"
  <2>1. IsMapping(prog[data[i].ins.pc].rs, R!Age(i), data[i].ins.src)
    BY <1>2 DEF RenameInv, MapsExact, ReadExact
  <2>2. prog[data[i].ins.pc].rs \in Map!AReg
    BY EntryTyped, ProgTyped DEF RenameInv, CoreInv
  <2>3. QED
    BY <2>1, <2>2, MappedUsed DEF RenameInv
<1>3. QED
  BY <1>1, <1>2

LEMMA StationWakes ==
  ASSUME RenameInv, RenameInv', Wakes, rob_cnt # 0 \/ ex_cm = {}, ~rollback,
         NEW go, NEW f, NEW leave \in Leaving, NEW taken, NEW verdict,
         Clock(go, f, leave, taken, verdict), NEW r, Moves(r, Entering(f)),
         NEW i \in Slot, NEW t, t = data'[i].ins.src
  PROVE  rs'[i] = "wait" <=> rs'[i] # "none" /\ Pending(t)'
<1>1. PICK m : m = Entering(f)
  OBVIOUS
<1>2. Moves(r, m) /\ m \in 0 .. 2
  BY <1>1 DEF Moves
<1>3. R!Dispatches(rn_dp, R!dp_stall(f), cdb) = m
  BY <1>1, DispatchCount DEF RenameInv
<1>4. rs' = Station(leave, m)
  BY <1>3, SameStall, SameDispatches DEF Clock
<1>5. CASE m >= 1 /\ i = rob_tail
  <2>1. data'[i] = R!Filled(rn_dp[0]) /\ id_rn[0].valid
    BY <1>2, <1>5, Entered DEF RenameInv
  <2>2. t = Operand(0).tag
    BY <2>1, FilledExact DEF RenameInv, Ways
  <2>3. Operand(0).ready <=> ~Pending(t)'
    BY <1>1, <1>5, <2>2, OperandReady DEF Wakes, Ways
  <2>4. rs'[i] = IF Operand(0).ready THEN "ready" ELSE "wait"
    BY <1>4, <1>5 DEF Station
  <2>5. QED
    BY <2>3, <2>4
<1>6. CASE m = 2 /\ i = Rob!tail_p1
  <2>1. data'[i] = R!Filled(rn_dp[1]) /\ id_rn[1].valid /\ R!Age(i) = rob_cnt + 1 /\ rob_cnt \in Nat
    BY <1>2, <1>6, Entered, Ages DEF RenameInv
  <2>2. t = Operand(1).tag /\ i # rob_tail
    <3>1. R!Age(rob_tail) = rob_cnt
      BY <1>2, <1>6, Entered DEF RenameInv
    <3>2. QED
      BY <2>1, <3>1, FilledExact DEF RenameInv, Ways
  <2>3. Operand(1).ready <=> ~Pending(t)'
    <3>1. Entering(f) = 2 /\ Entering(f) >= 1 /\ 1 \in Ways
      BY <1>1, <1>6 DEF Ways
    <3>2. QED
      BY <2>2, <3>1, OperandReady DEF Wakes
  <2>4. rs'[i] = IF Operand(1).ready THEN "ready" ELSE "wait"
    BY <1>4, <1>6, <2>2 DEF Station
  <2>5. QED
    BY <2>3, <2>4
<1>7. CASE ~(m >= 1 /\ i = rob_tail) /\ ~(m = 2 /\ i = Rob!tail_p1)
  <2>1. rs'[i] = IF i \in leave THEN "none"
                 ELSE IF rs[i] = "wait" /\ Map!Broadcast(cdb, data[i].ins.src) THEN "ready" ELSE rs[i]
    BY <1>4, <1>7 DEF Station
  <2>2. CASE rs[i] = "none" \/ i \in leave
    BY <2>1, <2>2
  <2>3. CASE rs[i] # "none" /\ i \notin leave
    <3>1. i \in InFlight /\ t = data[i].ins.src
      BY <1>2, <2>3, StationStays DEF RenameInv, CoreInv, StationLive, InFlight
    <3>2. rs[i] = "wait" <=> Pending(t)
      BY <2>3, <3>1 DEF Wakes, WokenInTime
    <3>3. t = 0 => ~Pending(t) /\ ~Pending(t)'
      BY DEF Pending
    <3>4. t # 0 => (Pending(t)' <=> Pending(t) /\ ~Map!Broadcast(cdb, t))
      BY <3>1, SourcesUsed, PendingKept DEF Wakes
    <3>5. QED
      BY <2>1, <2>3, <3>1, <3>2, <3>3, <3>4
  <2>4. QED
    BY <2>2, <2>3
<1>8. QED
  BY <1>5, <1>6, <1>7

LEMMA MapWakes ==
  ASSUME RenameInv, RenameInv', Wakes, rob_cnt # 0 \/ ex_cm = {}, ~rollback,
         NEW r, NEW f, Moves(r, Entering(f)), NEW a \in 1 .. NUM_ARCH - 1,
         Map!Clock(rat_write, Rob!dp_stall(f), rollback, cdb, rrat_write),
         NEW t, t = rat_tag'[a]
  PROVE  preg_ready'[a] <=> ~Pending(t)'
<1>1. a \in Map!AReg /\ a # 0
  BY Sets, Sizes
<1>2. /\ rat_write[0].en <=> id_rn[0].valid
      /\ rat_write[1].en <=> id_rn[1].valid
      /\ id_rn[0].valid => rat_write[0].addr = Decoded(0).rd
      /\ id_rn[1].valid => rat_write[1].addr = Decoded(1).rd
  <2>1. \A w \in Ways : rat_write[w] = IF id_rn[w].valid
                                       THEN [en |-> TRUE, addr |-> Decoded(w).rd, tag |-> T_idx(w)]
                                       ELSE [en |-> FALSE, addr |-> 0, tag |-> 0]
    BY DEF rat_write, NoWrite
  <2>2. /\ id_rn[0].valid => rat_write[0] = [en |-> TRUE, addr |-> Decoded(0).rd, tag |-> T_idx(0)]
        /\ ~id_rn[0].valid => rat_write[0] = [en |-> FALSE, addr |-> 0, tag |-> 0]
        /\ id_rn[1].valid => rat_write[1] = [en |-> TRUE, addr |-> Decoded(1).rd, tag |-> T_idx(1)]
        /\ ~id_rn[1].valid => rat_write[1] = [en |-> FALSE, addr |-> 0, tag |-> 0]
    BY <2>1 DEF Ways
  <2>3. QED
    BY <2>2
<1>3. id_rn[1].valid => id_rn[0].valid
  BY DEF RenameInv, CoreInv, BundleOrder
<1> DEFINE Sets0 == id_rn[0].valid /\ Decoded(0).rd = a /\ ~R!dp_stall(f)
           Sets1 == id_rn[1].valid /\ Decoded(1).rd = a /\ ~R!dp_stall(f)
<1>4. preg_ready'[a] <=> ~Sets0 /\ ~Sets1 /\ (preg_ready[a] \/ Map!Broadcast(cdb, rat_tag[a]))
  <2>1. preg_ready'[a] = /\ ~(rat_write[0].en /\ rat_write[0].addr = a /\ ~Rob!dp_stall(f))
                         /\ ~(rat_write[1].en /\ rat_write[1].addr = a /\ ~Rob!dp_stall(f))
                         /\ (preg_ready[a] \/ Map!Broadcast(cdb, rat_tag[a]))
    BY <1>1 DEF Map!Clock
  <2>2. /\ (rat_write[0].en /\ rat_write[0].addr = a /\ ~Rob!dp_stall(f)) <=> Sets0
        /\ (rat_write[1].en /\ rat_write[1].addr = a /\ ~Rob!dp_stall(f)) <=> Sets1
    BY <1>2, SameStall
  <2>3. QED
    BY <2>1, <2>2
<1>5. /\ Entering(f) = 0 => rat_tag'[a] = rat_tag[a]
      /\ Entering(f) = 1 => rat_tag'[a] = Behind0(a)
      /\ Entering(f) = 2 => rat_tag'[a] = Behind1(a)
  BY <1>1, RatAfter DEF RenameInv
<1>6. CASE Sets1
  <2>1. Entering(f) = 2 /\ Entering(f) >= 1 /\ 1 \in Ways /\ Decoded(1).rd = a
    BY <1>3, <1>6 DEF Entering, Ways
  <2>2. t = T_idx(1)
    BY <1>1, <1>5, <2>1 DEF Behind1
  <2>3. Pending(t)'
    BY <1>1, <2>1, <2>2, PendingGiven
  <2>4. QED
    BY <1>4, <1>6, <2>3
<1>7. CASE Sets0 /\ ~Sets1
  <2>1. Entering(f) >= 1 /\ Entering(f) \in {1, 2} /\ 0 \in Ways /\ Decoded(0).rd = a
        /\ (Entering(f) = 2 => Decoded(1).rd # a)
    BY <1>7 DEF Entering, Ways
  <2>2. t = T_idx(0)
    BY <1>1, <1>5, <2>1 DEF Behind0, Behind1
  <2>3. Pending(t)'
    BY <1>1, <2>1, <2>2, PendingGiven
  <2>4. QED
    BY <1>4, <1>7, <2>3
<1>8. CASE ~Sets0 /\ ~Sets1
  <2>1. t = rat_tag[a]
    BY <1>1, <1>3, <1>5, <1>8 DEF Entering, Behind0, Behind1
  <2>2. t # 0 /\ InUse(t)
    BY <1>1, <2>1, MappedUsed DEF RenameInv, CoreInv, ZeroExact, MapsExact, MapExact
  <2>3. Pending(t)' <=> Pending(t) /\ ~Map!Broadcast(cdb, t)
    BY <2>2, PendingKept DEF Wakes
  <2>4. preg_ready[a] <=> ~Pending(t)
    BY <2>1 DEF Wakes, WokenInTime
  <2>5. QED
    BY <1>4, <1>8, <2>1, <2>3, <2>4
<1>9. QED
  BY <1>6, <1>7, <1>8

LEMMA WakesMoves ==
  ASSUME RenameInv, RenameInv', Wakes, ~rollback,
         NEW go \in BOOLEAN, NEW f, NEW leave \in Leaving, NEW taken, NEW verdict,
         Clock(go, f, leave, taken, verdict), NEW r, Moves(r, Entering(f))
  PROVE  Wakes'
<1>1. Map!Clock(rat_write, Rob!dp_stall(f), rollback, cdb, rrat_write) /\ prog' = prog
  BY DEF Clock
<1>2. PICK m : m = Entering(f)
  OBVIOUS
<1>3. Moves(r, m)
  BY <1>2
<1>4. BusesExact'
  BY ResultsNext DEF RenameInv
<1>5. HaltReads'
  <2>1. SUFFICES ASSUME NEW i \in InFlight', prog[data'[i].ins.pc].kind = "halt"
                 PROVE  data'[i].ins.src = 0
    BY <1>1 DEF HaltReads
  <2>2. i \in Slot /\ data'[i].valid /\ R!Age(i) \in Nat /\ rob_cnt \in Nat /\ m \in 0 .. 2 /\ r \in 0 .. 2
    BY <1>3, Ages DEF InFlight, RenameInv, Moves
  <2>3. r <= R!Age(i) /\ R!Age(i) < rob_cnt + m
    BY <1>3, <2>2 DEF Moves
  <2>4. CASE R!Age(i) < rob_cnt
    <3>1. i \in InFlight /\ data'[i].ins = data[i].ins
      BY <1>3, <2>2, <2>3, <2>4, Ages DEF Moves, Kept, InFlight, RenameInv
    <3>2. QED
      BY <2>1, <3>1 DEF Wakes, HaltReads
  <2>5. ASSUME NEW w \in Ways, data'[i] = R!Filled(rn_dp[w]), id_rn[w].valid
        PROVE  data'[i].ins.src = 0
    <3>1. R!Filled(rn_dp[w]).ins = [pc |-> id_rn[w].pc, T_new |-> T_idx(w), T_old |-> Map!T_old(rat_write, w),
                                    src |-> Operand(w).tag]
      BY <2>5, FilledExact DEF RenameInv
    <3>2. data'[i].ins.pc = id_rn[w].pc /\ data'[i].ins.src = Operand(w).tag
      BY <2>5, <3>1
    <3>3. QED
      BY <2>1, <3>2 DEF Operand, Decoded
  <2>6. CASE R!Age(i) = rob_cnt
    <3>1. m >= 1 /\ i = rob_tail
      BY <2>2, <2>3, <2>6, Tails DEF RenameInv
    <3>2. QED
      BY <1>3, <2>5, <3>1, Entered DEF Ways, RenameInv
  <2>7. CASE R!Age(i) = rob_cnt + 1
    <3>1. m = 2 /\ i = Rob!tail_p1
      BY <2>2, <2>3, <2>7, Tails DEF RenameInv
    <3>2. QED
      BY <1>3, <2>5, <3>1, Entered DEF Ways, RenameInv
  <2>8. QED
    BY <2>2, <2>3, <2>4, <2>6, <2>7
<1>6. Quiet'
  <2>1. SUFFICES ASSUME rob_cnt' = 0, ex_cm' # {} PROVE FALSE
    BY DEF Quiet
  <2>2. PICK i \in leave : TRUE
    BY <2>1, NoRollbackReady DEF Clock, Results, RenameInv
  <2>3. i \in Slot /\ rs[i] # "none"
    BY DEF Leaving, Ready
  <2>4. data'[i].valid
    BY <1>3, <2>3, StationStays DEF RenameInv
  <2>5. \A j \in Slot : data'[j].valid => rob_cnt' # 0
    <3>2. CoreInv' => \A j \in Slot : data'[j].valid => rob_cnt' # 0
      <4>1. ASSUME CoreInv' PROVE R!RingInv' /\ rob_cnt' \in 0 .. ROB_SIZE
        BY <4>1, Sets DEF CoreInv, R!RingInv, R!TypeOK
      <4>2. ASSUME CoreInv', NEW j \in Slot, data'[j].valid PROVE rob_cnt' # 0
        <5>1. j \in InFlight'
          BY <4>2 DEF InFlight
        <5>2. R!Age(j)' = R!Age(j) - r /\ r <= R!Age(j) /\ R!Age(j) < rob_cnt + m
          BY <1>3, <4>2 DEF Moves
        <5>3. rob_cnt' = rob_cnt + m - r
          BY <1>3 DEF Moves
        <5>4. QED
          BY <1>3, <5>2, <5>3, Ages DEF Moves, RenameInv
      <4>3. QED
        BY <4>2
    <3>3. QED
      BY <3>2 DEF RenameInv
  <2>6. QED
    BY <2>1, <2>3, <2>4, <2>5
<1>7. CASE rob_cnt # 0 \/ ex_cm = {}
  <2>1. ASSUME NEW i \in Slot
        PROVE  rs'[i] = "wait" <=> rs'[i] # "none" /\ Pending(data[i].ins.src)'
    <3>1. PICK t : t = data'[i].ins.src
      OBVIOUS
    <3>2. rs'[i] = "wait" <=> rs'[i] # "none" /\ Pending(t)'
      BY <1>7, <3>1, StationWakes
    <3>3. QED
      BY <3>1, <3>2 DEF Pending
  <2>2. ASSUME NEW a \in 1 .. NUM_ARCH - 1
        PROVE  preg_ready'[a] <=> ~Pending(rat_tag[a])'
    <3>1. PICK t : t = rat_tag'[a]
      OBVIOUS
    <3>2. preg_ready'[a] <=> ~Pending(t)'
      BY <1>1, <1>7, <3>1, MapWakes
    <3>3. QED
      BY <3>1, <3>2 DEF Pending
  <2>3. WokenInTime'
    BY <2>1, <2>2 DEF WokenInTime
  <2>4. QED
    BY <1>4, <1>5, <1>6, <2>3 DEF Wakes
<1>8. CASE rob_cnt = 0 /\ ex_cm # {}
  <2>1. ~id_rn[0].valid /\ ~id_rn[1].valid
    BY <1>8 DEF Wakes, Quiet
  <2>2. m = 0 /\ R!Dispatches(rn_dp, R!dp_stall(f), cdb) = 0
    BY <1>2, <2>1, DispatchCount DEF Entering, RenameInv
  <2>3. \A i \in Slot : ~data[i].valid /\ rs[i] = "none"
    BY <1>8, Ages DEF RenameInv, CoreInv, StationLive
  <2>4. r = 0 /\ \A i \in Slot : ~data'[i].valid
    <3>1. r \in 0 .. 2 /\ r <= rob_cnt
      BY <1>3 DEF Moves
    <3>2. \A i \in Slot : data'[i].valid <=> r <= R!Age(i) /\ R!Age(i) < rob_cnt + m
      BY <1>3 DEF Moves
    <3>3. \A i \in Slot : R!Age(i) \in Nat
      BY Ages DEF RenameInv
    <3>4. r = 0
      BY <1>8, <3>1
    <3>5. ASSUME NEW i \in Slot PROVE ~data'[i].valid
      BY <1>8, <2>2, <3>2, <3>3
    <3>6. QED
      BY <3>4, <3>5
  <2>5. \A i \in Slot : rs'[i] = "none"
    <3>1. rs' = Station(leave, 0)
      BY <2>2, SameStall, SameDispatches DEF Clock
    <3>2. QED
      BY <2>3, <3>1 DEF Station
  <2>6. Writers = {} /\ Writers' = {}
    BY <2>3, <2>4 DEF Writers, InFlight
  <2>7. ASSUME NEW a \in 1 .. NUM_ARCH - 1 PROVE preg_ready'[a]
    <3>1. a \in Map!AReg /\ preg_ready[a]
      BY <2>6, Sets, Sizes DEF Wakes, WokenInTime, Pending
    <3>2. ~rat_write[0].en /\ ~rat_write[1].en
      <4>1. rat_write[0] = NoWrite /\ rat_write[1] = NoWrite
        BY <2>1 DEF rat_write, Ways
      <4>2. QED
        BY <4>1 DEF NoWrite
    <3>3. preg_ready'[a] = /\ ~(rat_write[0].en /\ rat_write[0].addr = a /\ ~Rob!dp_stall(f))
                           /\ ~(rat_write[1].en /\ rat_write[1].addr = a /\ ~Rob!dp_stall(f))
                           /\ (preg_ready[a] \/ Map!Broadcast(cdb, rat_tag[a]))
      BY <1>1, <3>1 DEF Map!Clock
    <3>4. QED
      BY <3>1, <3>2, <3>3
  <2>8. \A t : ~Pending(t)'
    BY <2>6 DEF Pending
  <2>9. WokenInTime'
    BY <2>5, <2>6, <2>7 DEF WokenInTime, Pending
  <2>10. QED
    BY <1>4, <1>5, <1>6, <2>9 DEF Wakes
<1>9. QED
  BY <1>7, <1>8

LEMMA WakesCycle == RenameInv /\ RenameInv' /\ Wakes /\ Cycle => Wakes'
<1> SUFFICES ASSUME RenameInv, RenameInv', Wakes, Cycle PROVE Wakes'
  OBVIOUS
<1>1. PICK go \in BOOLEAN, f \in {FALSE, MayBeFull}, leave \in Leaving :
        \E taken \in Outcomes(leave), verdict \in Verdicts(leave) :
          Clock(go, f, leave, taken, verdict)
  BY DEF Cycle
<1>2. PICK taken \in Outcomes(leave), verdict \in Verdicts(leave) :
        Clock(go, f, leave, taken, verdict)
  BY <1>1
<1>3. f \in BOOLEAN
  BY DEF MayBeFull
<1>4. CASE rollback
  <2>1. InFlight' = {} /\ Writers' = {} /\ id_rn' = NoBundle /\ rs' = [i \in Slot |-> "none"]
    BY <1>2, <1>4, RollbackEmpties DEF Clock, RenameInv
  <2>2. \A a \in 1 .. NUM_ARCH - 1 : preg_ready'[a]
    <3>1. preg_ready' = [a \in Map!AReg |-> TRUE]
      BY <1>2, <1>4 DEF Clock, Map!Clock
    <3>2. QED
      BY <3>1, Sets, Sizes
  <2>3. WokenInTime'
    BY <2>1, <2>2 DEF WokenInTime, Pending
  <2>4. BusesExact'
    BY <1>2, ResultsNext DEF RenameInv
  <2>5. QED
    BY <2>1, <2>3, <2>4 DEF Wakes, HaltReads, Quiet, NoBundle, NoInst, Ways
<1>5. CASE ~rollback
  <2>1. PICK r \in 0 .. 2 : Moves(r, Entering(f))
    BY <1>2, <1>3, <1>5, StepMoves DEF RenameInv
  <2>2. QED
    BY <1>2, <1>5, <2>1, WakesMoves
<1>6. QED
  BY <1>4, <1>5

LEMMA WakesInit == Init => Wakes
<1> SUFFICES ASSUME Init PROVE Wakes
  OBVIOUS
<1>1. /\ InFlight = {} /\ Writers = {} /\ ex_cm = {} /\ \A i \in Slot : rs[i] = "none"
      /\ \A a \in 1 .. NUM_ARCH - 1 : preg_ready[a]
  BY Sets, Sizes DEF Init, Rob!Init, Map!Init, Rob!Zero, Rob!Idx, Slot, InFlight, Writers
<1>2. QED
  BY <1>1 DEF Wakes, WokenInTime, Pending, BusesExact, HaltReads, Quiet

LEMMA WakesStutter == UNCHANGED vars /\ Wakes => Wakes'
  BY DEF Wakes, WokenInTime, Pending, BusesExact, HaltReads, Quiet, Writers, InFlight,
         vars, robVars, mapVars

(* A wakeup is neither lost nor early: what waits in the station waits for exactly the results
   that have not been on a bus, and the results on their way belong to instructions in flight,
   although physical registers are used again and the EX/CM register survives a load rollback
   (dp_is_stage.sv, RAT.sv and pipeline.sv:754), for every size and every program. *)
THEOREM CoreWakeupExact ==
  ASSUME NoIllegal
  PROVE  Spec => []WakeupExact
<1>1. RenameInv /\ RenameInv' /\ Wakes /\ [Next]_vars => Wakes'
  BY WakesCycle, WakesStutter DEF Next, Halted
<1>2. CoreInv /\ MapsExact /\ AllocExact /\ Coverage => RenameInv
  BY DEF RenameInv
<1>3. RenameInv /\ Wakes => WakeupExact
  BY DEF RenameInv, CoreInv, Wakes, WakeupExact
<1>4. Init => Wakes
  BY WakesInit
<1>5. QED
  BY <1>1, <1>2, <1>3, <1>4, CoreAlways, MapsAlways, FreeAlways, PTL DEF Spec

-----------------------------------------------------------------------------
(* The path of the program: the oldest instruction in flight is the next one of the
   program, a rollback resumes there, and what commits is what a machine that executes
   one instruction after the other commits.

   The code breaks this in one case, which finding lost_load is about: a load to be
   executed again that retires beside a taken branch.  The theorems are about the
   behaviours in which this does not happen: no clock edge finds such a load. *)

LoadKept == ~(viol0 /\ misp1)

(* The n-th place of what is in flight, or what is behind all of it, is address x. *)
At(n, x) ==
  /\ \A i \in InFlight : R!Age(i) = n => data[i].ins.pc = x
  /\ n = rob_cnt => NextFetched = x

OnPath == ~system_halt => At(0, arch_pc)

(* What retires: its flags, and what its address makes of them. *)
LEMMA HeadFlags ==
  ASSUME CoreInv
  PROVE  /\ head_retire_rdy =>
              /\ rob_head \in InFlight /\ R!Age(rob_head) = 0 /\ first.ins.pc \in PC
              /\ first.is_branch <=> Kinds(first) = "branch"
              /\ first.rd_mem <=> Kinds(first) = "load"
              /\ first.ex_take_branch => first.is_branch
              /\ first.rd_mem_violation => first.rd_mem
         /\ head_p1_retire_rdy =>
              /\ head_retire_rdy /\ ~first.ex_take_branch
              /\ Rob!head_p1 \in InFlight /\ R!Age(Rob!head_p1) = 1 /\ second.ins.pc \in PC
              /\ second.is_branch <=> Kinds(second) = "branch"
              /\ second.rd_mem <=> Kinds(second) = "load"
              /\ second.ex_take_branch => second.is_branch
              /\ second.rd_mem_violation => second.rd_mem
<1>1. ASSUME NEW i \in InFlight
      PROVE  /\ data[i].ins.pc \in PC
             /\ data[i].is_branch <=> Kinds(data[i]) = "branch"
             /\ data[i].rd_mem <=> Kinds(data[i]) = "load"
             /\ data[i].ex_take_branch => data[i].is_branch
             /\ data[i].rd_mem_violation => data[i].rd_mem
  BY EntryTyped DEF CoreInv, EntriesExact, EntryExact, Kinds
<1>2. head_p1_retire_rdy => ~first.ex_take_branch
  BY DEF head_p1_retire_rdy
<1>3. QED
  BY <1>1, <1>2, Heads DEF first, second

(* The addresses at the two oldest places. *)
LEMMA HeadPath ==
  ASSUME CoreInv, Sequence, At(0, arch_pc)
  PROVE  /\ head_retire_rdy => first.ins.pc = arch_pc
         /\ head_p1_retire_rdy => second.ins.pc = Plus(arch_pc, 1)
<1>1. head_retire_rdy => first.ins.pc = arch_pc
  BY HeadFlags DEF At, first
<1>2. head_p1_retire_rdy => second.ins.pc = Plus(first.ins.pc, 1)
  BY HeadFlags DEF Sequence, first, second
<1>3. QED
  BY <1>1, <1>2, HeadFlags

LEMMA AtNext ==
  ASSUME CoreInv, Sequence, NEW n \in Nat, n < rob_cnt, NEW x, At(n, x)
  PROVE  At(n + 1, Plus(x, 1))
<1>1. rob_cnt \in 0 .. ROB_SIZE /\ \A i \in Slot : data[i].valid <=> R!Age(i) < rob_cnt
  BY Ages
<1>2. PICK i \in InFlight : R!Age(i) = n
  <2>1. rob_head \in 0 .. ROB_SIZE - 1
    BY Heads DEF Slot
  <2>2. PICK j : j = IF rob_head + n < ROB_SIZE THEN rob_head + n ELSE rob_head + n - ROB_SIZE
    OBVIOUS
  <2>3. j \in Slot /\ R!Age(j) = n
    BY <1>1, <2>1, <2>2, Sizes DEF Slot, R!Age
  <2>4. QED
    BY <1>1, <2>3 DEF InFlight
<1>3. data[i].ins.pc = x
  BY <1>2 DEF At
<1>4. QED
  BY <1>2, <1>3 DEF At, Sequence

(* Without a rollback the place behind what leaves becomes the first. *)
LEMMA AtMoves ==
  ASSUME CoreInv, CoreInv', NoIllegal, Sequence, ~rollback,
         NEW go \in BOOLEAN, NEW f, NEW leave, NEW taken, NEW verdict,
         Clock(go, f, leave, taken, verdict), NEW r, Moves(r, Entering(f)),
         NEW x, At(r, x)
  PROVE  At(0, x)'
<1>1. PICK m, c : m = Entering(f) /\ c = rob_cnt
  OBVIOUS
<1>2. Moves(r, m)
  BY <1>1
<1>3. /\ r \in 0 .. 2 /\ m \in 0 .. 2 /\ r <= c /\ c \in Nat /\ rob_cnt' = c + m - r
  BY <1>1, <1>2, Ages DEF Moves
<1>4. ASSUME NEW i \in InFlight', R!Age(i)' = 0
      PROVE  data'[i].ins.pc = x
  <2>1. i \in Slot /\ data'[i].valid /\ R!Age(i) \in Nat
    BY Ages DEF InFlight
  <2>2. R!Age(i) = r /\ r < c + m
    BY <1>1, <1>2, <1>3, <1>4, <2>1 DEF Moves
  <2>3. CASE r < c
    <3>1. i \in InFlight /\ data'[i].ins = data[i].ins
      BY <1>1, <1>2, <1>3, <2>1, <2>2, <2>3, Ages DEF Moves, Kept, InFlight
    <3>2. QED
      BY <2>2, <3>1 DEF At
  <2>4. CASE r = c
    <3>1. m >= 1 /\ i = rob_tail
      BY <1>1, <1>3, <2>1, <2>2, <2>4, Tails
    <3>2. data'[i] = R!Filled(rn_dp[0]) /\ id_rn[0].valid
      BY <1>2, <3>1, Entered
    <3>3. data'[i].ins.pc = id_rn[0].pc
      BY <3>2, FilledExact DEF Ways
    <3>4. QED
      BY <1>1, <2>4, <3>2, <3>3 DEF At, NextFetched
  <2>5. QED
    BY <1>3, <2>3, <2>4
<1>5. ASSUME rob_cnt' = 0
      PROVE  NextFetched' = x
  <2>1. r = c /\ m = 0
    BY <1>3, <1>5
  <2>2. R!dp_stall(f) \/ ~id_rn[0].valid
    BY <1>1, <2>1 DEF Entering
  <2>3. ~R!dp_stall(f) => NextFetched = PC_reg
    BY <2>2 DEF NextFetched
  <2>4. NextFetched' = NextFetched
    BY <2>3, BundleMoves
  <2>5. QED
    BY <1>1, <2>1, <2>4 DEF At
<1>6. QED
  BY <1>4, <1>5 DEF At

-----------------------------------------------------------------------------
(* What commits in a cycle, and what is then the next instruction. *)
LEMMA Halts ==
  ASSUME NEW go, NEW f, NEW leave, NEW taken, NEW verdict,
         Clock(go, f, leave, taken, verdict), ~system_halt
  PROVE  system_halt' <=> \/ head_retire_rdy /\ Kinds(first) = "halt"
                          \/ head_p1_retire_rdy /\ Kinds(second) = "halt" /\ ~rollback
  BY DEF Clock

LEMMA Follows ==
  ASSUME CoreInv
  PROVE  /\ head_retire_rdy /\ ~misp0 => After(first) = Plus(first.ins.pc, 1)
         /\ misp0 => After(first) = prog[first.ins.pc].target
         /\ head_p1_retire_rdy /\ ~misp1 => After(second) = Plus(second.ins.pc, 1)
         /\ misp1 => After(second) = prog[second.ins.pc].target
  BY HeadFlags DEF After, misp0, misp1

(* A cycle without a rollback commits all that leaves. *)
LEMMA PathMoves ==
  ASSUME CoreInv, CoreInv', NoIllegal, Sequence, ~rollback, ~system_halt, OnPath,
         NEW go \in BOOLEAN, NEW f, NEW leave, NEW taken, NEW verdict,
         Clock(go, f, leave, taken, verdict), NEW r, Moves(r, Entering(f))
  PROVE  OnPath'
<1>1. At(0, arch_pc)
  BY DEF OnPath
<1>2. /\ r \in 0 .. 2 /\ r <= rob_cnt /\ rob_cnt \in Nat
      /\ r >= 1 <=> head_retire_rdy
      /\ r = 2 <=> head_p1_retire_rdy
  BY Ages DEF Moves
<1>3. ~viol0 /\ ~viol1 /\ ~misp0 /\ ~misp1
  BY NoRollbackReady DEF mispredict
<1>4. SUFFICES ASSUME ~system_halt' PROVE At(0, arch_pc)'
  BY DEF OnPath
<1>5. ~(head_retire_rdy /\ Kinds(first) = "halt")
  BY <1>4, Halts
<1>6. arch_pc' = IF commit1 THEN After(second) ELSE IF commit0 THEN After(first) ELSE arch_pc
  BY DEF Clock
<1>7. PICK x : x = arch_pc'
  OBVIOUS
<1>8. At(r, x)
  <2>1. CASE r = 0
    BY <1>1, <1>2, <1>6, <1>7, <2>1 DEF commit0, commit1
  <2>2. CASE r = 1
    <3>1. x = Plus(arch_pc, 1)
      BY <1>1, <1>2, <1>3, <1>6, <1>7, <2>2, Follows, HeadPath DEF commit0, commit1
    <3>2. At(0 + 1, Plus(arch_pc, 1))
      BY <1>1, <1>2, <2>2, AtNext
    <3>3. QED
      BY <2>2, <3>1, <3>2
  <2>3. CASE r = 2
    <3>1. x = Plus(Plus(arch_pc, 1), 1)
      BY <1>1, <1>2, <1>3, <1>5, <1>6, <1>7, <2>3, Follows, HeadPath, HeadFlags DEF commit0, commit1
    <3>2. At(0 + 1, Plus(arch_pc, 1))
      BY <1>1, <1>2, <2>3, AtNext
    <3>3. At(1 + 1, Plus(Plus(arch_pc, 1), 1))
      BY <1>2, <2>3, <3>2, AtNext
    <3>4. QED
      BY <2>3, <3>1, <3>3
  <2>4. QED
    BY <1>2, <2>1, <2>2, <2>3
<1>9. At(0, x)'
  BY <1>8, AtMoves
<1>10. QED
  BY <1>7, <1>9 DEF At

(* A rollback goes to the instruction after the last one that commits. *)
LEMMA RollbackResumes ==
  ASSUME CoreInv, Sequence, rollback, ~system_halt, OnPath, LoadKept,
         NEW go, NEW f, NEW leave, NEW taken, NEW verdict,
         Clock(go, f, leave, taken, verdict), ~system_halt'
  PROVE  PC_reg' = arch_pc'
<1>1. At(0, arch_pc)
  BY DEF OnPath
<1>2. ~(head_retire_rdy /\ Kinds(first) = "halt")
  BY Halts
<1>3. /\ arch_pc' = IF commit1 THEN After(second) ELSE IF commit0 THEN After(first) ELSE arch_pc
      /\ PC_reg' = IF mispredict THEN mispredict_target_pc
                   ELSE IF ld_rollback THEN ld_rollback_pc
                   ELSE IF go /\ ~Rob!dp_stall(f) THEN Sequential ELSE PC_reg
  BY DEF Clock
<1>4. CASE misp0
  <2>1. head_retire_rdy /\ ~viol0 /\ ~head_p1_retire_rdy
    BY <1>4, HeadFlags DEF misp0, viol0
  <2>2. PC_reg' = prog[first.ins.pc].target
    BY <1>3, <1>4 DEF mispredict, mispredict_target_pc
  <2>3. QED
    BY <1>3, <1>4, <2>1, <2>2, Follows DEF commit0, commit1
<1>5. CASE misp1 /\ ~misp0
  <2>1. head_p1_retire_rdy /\ head_retire_rdy /\ ~viol0 /\ ~viol1
    BY <1>5, HeadFlags DEF misp1, viol1, LoadKept
  <2>2. PC_reg' = prog[second.ins.pc].target
    BY <1>3, <1>5 DEF mispredict, mispredict_target_pc
  <2>3. QED
    BY <1>2, <1>3, <1>5, <2>1, <2>2, Follows DEF commit1
<1>6. CASE ~mispredict /\ viol0
  <2>1. ld_rollback /\ head_retire_rdy
    BY <1>6 DEF rollback, viol0
  <2>2. PC_reg' = first.ins.pc
    BY <1>3, <1>6, <2>1 DEF ld_rollback_pc
  <2>3. QED
    BY <1>1, <1>3, <1>6, <2>1, <2>2, HeadPath DEF commit0, commit1
<1>7. CASE ~mispredict /\ ~viol0
  <2>1. ld_rollback /\ viol1 /\ head_p1_retire_rdy /\ head_retire_rdy /\ ~misp0
    BY <1>7, HeadFlags DEF rollback, ld_rollback, viol1, mispredict
  <2>2. PC_reg' = second.ins.pc
    BY <1>3, <1>7, <2>1 DEF ld_rollback_pc
  <2>3. QED
    BY <1>1, <1>3, <1>7, <2>1, <2>2, Follows, HeadPath DEF commit0, commit1
<1>8. QED
  BY <1>4, <1>5, <1>6, <1>7 DEF mispredict

LEMMA PathCycle ==
  NoIllegal /\ CoreInv /\ CoreInv' /\ Sequence /\ OnPath /\ LoadKept /\ Cycle => OnPath'
<1> SUFFICES ASSUME NoIllegal, CoreInv, CoreInv', Sequence, OnPath, LoadKept, Cycle PROVE OnPath'
  OBVIOUS
<1>1. PICK go \in BOOLEAN, f \in {FALSE, MayBeFull}, leave \in Leaving :
        \E taken \in Outcomes(leave), verdict \in Verdicts(leave) :
          Clock(go, f, leave, taken, verdict)
  BY DEF Cycle
<1>2. PICK taken \in Outcomes(leave), verdict \in Verdicts(leave) :
        Clock(go, f, leave, taken, verdict)
  BY <1>1
<1>3. f \in BOOLEAN /\ ~system_halt
  BY DEF MayBeFull, Cycle
<1>4. CASE rollback
  <2>1. InFlight' = {} /\ id_rn' = NoBundle
    BY <1>2, <1>4, RollbackEmpties DEF Clock
  <2>2. NextFetched' = PC_reg'
    BY <2>1 DEF NextFetched, NoBundle, NoInst, Ways
  <2>3. ~system_halt' => PC_reg' = arch_pc'
    BY <1>2, <1>3, <1>4, RollbackResumes
  <2>4. QED
    BY <2>1, <2>2, <2>3 DEF OnPath, At
<1>5. CASE ~rollback
  <2>1. PICK r \in 0 .. 2 : Moves(r, Entering(f))
    BY <1>2, <1>3, <1>5, StepMoves
  <2>2. QED
    BY <1>2, <1>3, <1>5, <2>1, PathMoves
<1>6. QED
  BY <1>4, <1>5

LEMMA PathInit == Init => OnPath
<1> SUFFICES ASSUME Init PROVE OnPath
  OBVIOUS
<1>1. InFlight = {} /\ ~id_rn[0].valid /\ PC_reg = 0 /\ arch_pc = 0
  BY Sets DEF Init, Rob!Init, Rob!Zero, Rob!Idx, Slot, InFlight, NoBundle, NoInst, Ways
<1>2. QED
  BY <1>1 DEF OnPath, At, NextFetched

LEMMA PathStutter == UNCHANGED vars /\ OnPath => OnPath'
  BY DEF OnPath, At, NextFetched, InFlight, R!Age, vars, robVars

LEMMA PathAlways ==
  ASSUME NoIllegal
  PROVE  Spec /\ [][LoadKept]_vars => []OnPath
<1>1. CoreInv /\ CoreInv' /\ Sequence /\ OnPath /\ [LoadKept]_vars /\ [Next]_vars => OnPath'
  BY PathCycle, PathStutter DEF Next, Halted
<1>2. QED
  BY <1>1, PathInit, CoreAlways, SequenceAlways, PTL DEF Spec

(* What waits at the head of the reorder buffer is the next instruction of the program, for
   every size and program, as long as no load to be executed again retires beside a taken
   branch: a load that read too early is executed again (if_stage.sv:54, branch.sv). *)
THEOREM CorePrecisePath ==
  ASSUME NoIllegal
  PROVE  Spec /\ [][LoadKept]_vars => []PrecisePath
<1>1. CoreInv /\ OnPath => PrecisePath
  <2> SUFFICES ASSUME CoreInv, OnPath, rob_cnt > 0, ~system_halt
               PROVE  first.ins.pc = arch_pc
    BY DEF PrecisePath
  <2>1. rob_head \in InFlight /\ R!Age(rob_head) = 0
    BY Heads, Ages DEF InFlight
  <2>2. QED
    BY <2>1 DEF OnPath, At, first
<1>2. QED
  BY <1>1, CoreAlways, PathAlways, PTL

(* A rollback sends fetch to the instruction after the last one committed, empties the reorder
   buffer and the free list's allocations, and leaves the speculative map equal to the
   committed one. *)
THEOREM CorePreciseRollback ==
  ASSUME NoIllegal
  PROVE  Spec /\ [][LoadKept]_vars => PreciseRollback
<1>1. ASSUME CoreInv, Sequence, OnPath, LoadKept, Cycle, rollback
      PROVE  /\ ~(mispredict /\ ld_rollback) /\ ~system_halt' => PC_reg' = arch_pc'
             /\ rat_tag' = rrat_tag' /\ InFlight' = {} /\ fl_cnt' = 0
  <2>1. PICK go \in BOOLEAN, f \in {FALSE, MayBeFull}, leave \in Leaving :
          \E taken \in Outcomes(leave), verdict \in Verdicts(leave) :
            Clock(go, f, leave, taken, verdict)
    BY <1>1 DEF Cycle
  <2>2. PICK taken \in Outcomes(leave), verdict \in Verdicts(leave) :
          Clock(go, f, leave, taken, verdict)
    BY <2>1
  <2>3. ~system_halt
    BY <1>1 DEF Cycle
  <2>4. ~system_halt' => PC_reg' = arch_pc'
    BY <1>1, <2>2, <2>3, RollbackResumes
  <2>5. InFlight' = {} /\ fl_cnt' = 0
    BY <1>1, <2>2, RollbackEmpties
  <2>6. rat_tag' = rrat_tag'
    BY <1>1, <2>2, Restores DEF Clock
  <2>7. QED
    BY <2>4, <2>5, <2>6
<1>2. CoreInv /\ Sequence /\ OnPath /\ [LoadKept]_vars /\ [Next]_vars =>
        [rollback =>
           /\ ~(mispredict /\ ld_rollback) /\ ~system_halt' => PC_reg' = arch_pc'
           /\ rat_tag' = rrat_tag' /\ InFlight' = {} /\ fl_cnt' = 0]_vars
  BY <1>1 DEF Next, Halted
<1>3. QED
  BY <1>2, CoreAlways, SequenceAlways, PathAlways, PTL DEF Spec, PreciseRollback

-----------------------------------------------------------------------------
(* The core implements the machine that executes one instruction after the other. *)
LEMMA CommitStep ==
  ASSUME CoreInv, Sequence, OnPath, LoadKept, Cycle
  PROVE  InOrder!Step \/ UNCHANGED InOrder!vars
<1>1. PICK go \in BOOLEAN, f \in {FALSE, MayBeFull}, leave \in Leaving :
        \E taken \in Outcomes(leave), verdict \in Verdicts(leave) :
          Clock(go, f, leave, taken, verdict)
  BY DEF Cycle
<1>2. PICK taken \in Outcomes(leave), verdict \in Verdicts(leave) :
        Clock(go, f, leave, taken, verdict)
  BY <1>1
<1>3. ~system_halt /\ system_halt \in BOOLEAN /\ system_halt' \in BOOLEAN /\ prog' = prog
  BY <1>2 DEF Clock, Cycle, CoreInv, TypeOK
<1>4. At(0, arch_pc)
  BY <1>3 DEF OnPath
<1>5. arch_pc' = IF commit1 THEN After(second) ELSE IF commit0 THEN After(first) ELSE arch_pc
  BY <1>2 DEF Clock
<1>6. system_halt' <=> \/ head_retire_rdy /\ Kinds(first) = "halt"
                       \/ head_p1_retire_rdy /\ Kinds(second) = "halt" /\ ~rollback
  BY <1>2, <1>3, Halts
<1>7. /\ head_retire_rdy => first.ins.pc = arch_pc
      /\ head_p1_retire_rdy => second.ins.pc = Plus(arch_pc, 1)
  BY <1>4, HeadPath
<1>8. /\ viol0 => rollback /\ Kinds(first) # "halt"
      /\ viol1 => rollback
  BY HeadFlags DEF viol0, viol1, rollback, ld_rollback
<1>9. /\ head_retire_rdy => After(first) \in InOrder!Succ(arch_pc)
      /\ head_p1_retire_rdy =>
           /\ After(second) \in InOrder!Succ(Plus(arch_pc, 1))
           /\ Plus(arch_pc, 1) \in InOrder!Succ(arch_pc)
  <2>1. head_retire_rdy => After(first) \in InOrder!Succ(arch_pc)
    BY <1>7, HeadFlags DEF After, InOrder!Succ, Kinds, Plus
  <2>2. head_p1_retire_rdy => After(second) \in InOrder!Succ(Plus(arch_pc, 1))
    BY <1>7, HeadFlags DEF After, InOrder!Succ, Kinds, Plus
  <2>3. Plus(arch_pc, 1) \in InOrder!Succ(arch_pc)
    BY DEF InOrder!Succ, Plus
  <2>4. QED
    BY <2>1, <2>2, <2>3
<1>10. CASE commit1
  <2>1. /\ head_p1_retire_rdy /\ head_retire_rdy /\ Kinds(first) # "halt" /\ ~viol0 /\ ~viol1
        /\ arch_pc' = After(second)
    BY <1>5, <1>10, HeadFlags DEF commit1
  <2>2. Kinds(second) = "halt" => ~rollback
    BY <2>1, HeadFlags DEF rollback, mispredict, ld_rollback, misp0, misp1
  <2>3. system_halt' <=> InOrder!Stops(Plus(arch_pc, 1))
    BY <1>6, <1>7, <2>1, <2>2 DEF InOrder!Stops, Kinds
  <2>4. ~InOrder!Stops(arch_pc)
    BY <1>7, <2>1 DEF InOrder!Stops, Kinds
  <2>5. InOrder!Two
    BY <1>9, <2>1, <2>4 DEF InOrder!Two, Plus
  <2>6. InOrder!Stops(Plus(arch_pc, 1)) \in BOOLEAN
    BY DEF InOrder!Stops
  <2>7. system_halt' = InOrder!Stops((arch_pc + 1) % NUM_PC)
    BY <1>3, <2>3, <2>6 DEF Plus
  <2>8. QED
    BY <1>3, <2>5, <2>7 DEF InOrder!Step
<1>11. CASE ~commit1 /\ commit0
  <2>1. head_retire_rdy /\ ~viol0 /\ arch_pc' = After(first)
    BY <1>5, <1>11 DEF commit0
  <2>2. head_p1_retire_rdy => viol1 \/ Kinds(first) = "halt"
    BY <1>11, <2>1 DEF commit1
  <2>3. system_halt' <=> InOrder!Stops(arch_pc)
    BY <1>6, <1>7, <1>8, <2>1, <2>2 DEF InOrder!Stops, Kinds
  <2>4. system_halt' = InOrder!Stops(arch_pc)
    BY <1>3, <2>3 DEF InOrder!Stops
  <2>5. QED
    BY <1>3, <1>9, <2>1, <2>4 DEF InOrder!Step, InOrder!One
<1>12. CASE ~commit1 /\ ~commit0
  <2>1. arch_pc' = arch_pc
    BY <1>5, <1>12
  <2>2. head_retire_rdy => viol0
    BY <1>12 DEF commit0
  <2>3. ~system_halt'
    BY <1>6, <1>8, <2>2, HeadFlags
  <2>4. QED
    BY <1>3, <2>1, <2>3 DEF InOrder!vars
<1>13. QED
  BY <1>10, <1>11, <1>12

(* What commits, and when the program stops, is what a machine that executes one instruction
   after the other does: no instruction commits twice, none is left out, and none commits behind
   a halt, whatever mispredictions, load rollbacks and stalls there are on the way. *)
THEOREM CoreCommitsInProgramOrder ==
  ASSUME NoIllegal
  PROVE  Spec /\ [][LoadKept]_vars => CommitsInProgramOrder
<1>1. Init => InOrder!Init
  BY DEF Init, InOrder!Init
<1>2. CoreInv /\ Sequence /\ OnPath /\ [LoadKept]_vars /\ [Next]_vars => [InOrder!Next]_(InOrder!vars)
  <2>1. UNCHANGED vars => UNCHANGED InOrder!vars
    BY DEF vars, InOrder!vars
  <2>2. QED
    BY <2>1, CommitStep DEF Next, Halted, InOrder!Next
<1>3. QED
  BY <1>1, <1>2, CoreAlways, SequenceAlways, PathAlways, PTL
     DEF Spec, CommitsInProgramOrder, InOrder!Spec
=============================================================================
