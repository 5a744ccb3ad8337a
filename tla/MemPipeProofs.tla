--------------------------- MODULE MemPipeProofs ---------------------------
(***************************************************************************)
(* The queues of loads and stores: every operation in flight has the place *)
(* of each queue that a count of the operations in front of it gives, and  *)
(* is in one place of the pipeline; a load that will not be executed again *)
(* has the value of the youngest older store to its address, from the      *)
(* store queue, the retire buffer or memory; and the memory path           *)
(* implements SeqMemory.  All for every size and every program of loads    *)
(* and stores.                                                             *)
(*                                                                         *)
(* The code breaks the queues in two cases, which MCMemPipe names: a load  *)
(* that is held at its port beside its copy in the load buffer (HeldLoad), *)
(* and a load that is rolled back with a store beside it that retires      *)
(* (PairLost).  It gives a load a wrong value when a mark is taken back    *)
(* (MarkLost) and when two retired stores to its address wait              *)
(* (OldestGiven).  Two of its queues are not watched for being full.  The  *)
(* theorems are about behaviours in which none of that happens and no      *)
(* queue overflows (QueueRoom, BufferRoom).                                *)
(***************************************************************************)
EXTENDS MCMemPipe, FiniteSetTheorems, SequenceTheorems, WellFoundedInduction, TLAPS

R == INSTANCE RobProofs WITH head <- rob_head, tail <- rob_tail, entry_cnt <- rob_cnt,
                             Instr <- Op, Inputs <- {}

-----------------------------------------------------------------------------
(* What the queues do not survive: a load that is held beside its copy in the load
   buffer, and a load rolled back with what retires behind it; they need no more. *)
Unbroken == ~HeldLoad /\ ~PairLost

(* The operations from a to b - 1 of a kind, and how many they are. *)
Among(p, kind, a, b) == {k \in Op : a <= k /\ k < b /\ p[k].kind = kind}
Count(p, kind, a, b) == Cardinality(Among(p, kind, a, b))

(* The place in a queue of operation k, or of the next one of its kind behind it. *)
SqOf(k) == SQ!Wrap(sq_head + Count(prog, "store", arch, k))
LqOf(k) == LQ!Wrap(lq_head + Count(prog, "load", arch, k))

Ins(i) == data[i].ins

(* What is in flight are the operations from the last one committed to the last one
   dispatched, in order, and each is what the program says. *)
EntryExact(d) ==
  /\ d.is_branch <=> prog[d.ins].kind = "jump"
  /\ d.rd_mem <=> prog[d.ins].kind = "load"
  /\ d.ex_take_branch => d.is_branch
  /\ d.rd_mem_violation => d.rd_mem
InOrder ==
  /\ fpc = arch + rob_cnt
  /\ \A i \in InFlight : Ins(i) = arch + R!Age(i) /\ EntryExact(data[i])

(* The queues reach from the first operation in flight to the last. *)
Pointers == sq_tail = SqOf(fpc) /\ lq_tail = LqOf(fpc)

(* What waits and what is executed carry what belongs to the operation. *)
Waiting(i, w) ==
  [op |-> Ins(i), bank |-> w, rob_idx |-> i, SQ_idx |-> SqOf(Ins(i) + 1), LQ_idx |-> LqOf(Ins(i) + 1)]
Packet(i) ==
  [valid |-> TRUE, kind |-> KindOf(i), addr |-> AddrOf(i), value |-> Ins(i) + 1,
   rob_idx |-> i, SQ_idx |-> SqOf(Ins(i) + 1), LQ_idx |-> LqOf(Ins(i) + 1)]
Carried ==
  /\ \A e \in rs : e.rob_idx \in InFlight /\ e.bank \in Ways /\ e = Waiting(e.rob_idx, e.bank)
  /\ \A w \in Ways : is_ex[w] = Idle \/ \E i \in InFlight : is_ex[w] = Packet(i)

(* The places an instruction in flight can be in, and who is in them. *)
InStation(e) == <<"station", e>>
AtPort(w)    == <<"port", w>>
Buffered(j)  == <<"buffer", j>>
OnBus(w)     == <<"bus", w>>
Done         == <<"done", 0>>

In(p, i) ==
  \/ \E e \in rs : p = InStation(e) /\ e.rob_idx = i
  \/ \E w \in Ways : p = AtPort(w) /\ is_ex[w].valid /\ is_ex[w].rob_idx = i
  \/ \E j \in InBuffer : p = Buffered(j) /\ lb[j].load.rob_idx = i
  \/ \E w \in Ways : p = OnBus(w) /\ ex_cm[w].valid /\ ex_cm[w].rob_idx = i
  \/ p = Done /\ i \in Slot /\ retire_tag[i]

(* Everything in flight is somewhere, in one place; what a load rollback has left on a
   bus meets an empty ring. *)
Placed ==
  /\ \A i \in InFlight : \E p : In(p, i)
  /\ \A p, i : In(p, i) => i \in InFlight \/ (rob_cnt = 0 /\ \E w \in Ways : p = OnBus(w))
  /\ \A p, q, i : In(p, i) /\ In(q, i) /\ i \in InFlight => p = q

(* The place of a store is filled, with what it stores, between its stay in the station
   and its result. *)
StoresFilled ==
  \A i \in Flying("store") :
    LET e == sq[SqOf(Ins(i))]
    IN  /\ e.valid => e.addr = AddrOf(i) /\ e.value = Ins(i) + 1
        /\ \A x \in rs : In(InStation(x), i) => ~e.valid
        /\ \A w \in Ways : In(OnBus(w), i) => e.valid
        /\ In(Done, i) => e.valid

(* The place of a load has its slot, and its address exactly from its execution on. *)
LoadsKnown ==
  \A i \in Flying("load") :
    LET e == lq[LqOf(Ins(i))]
    IN  /\ e.rob_idx = i
        /\ e.valid => e.addr = AddrOf(i)
        /\ e.valid <=> ~((\E x \in rs : In(InStation(x), i)) \/ \E w \in Ways : In(AtPort(w), i))

(* A load executes beside a store only when that has been held and is in its place. *)
PortsApart ==
  \A w, v \in Ways :
    is_ex[w].kind = "load" /\ is_ex[v].kind = "store" => sq[SQ!Wrap(is_ex[v].SQ_idx - 1)].valid

(* The load buffer holds loads in flight, and the answer for its first. *)
BufferExact ==
  \A j \in LB!Idx :
    /\ j \in InBuffer =>
         LET i == lb[j].load.rob_idx
         IN  lb[j].occupied /\ i \in Flying("load") /\ lb[j].load.addr = AddrOf(i)
    /\ lb[j].valid => j = lb_head /\ j \in InBuffer

(* The inductive invariant of the queues. *)
QueueInv ==
  /\ TypeOK /\ R!RingInv /\ InOrder /\ Pointers /\ Carried /\ Placed
  /\ StoresFilled /\ LoadsKnown /\ PortsApart /\ BufferExact

-----------------------------------------------------------------------------
LEMMA Sizes ==
  /\ ROB_SIZE \in Nat /\ ROB_SIZE >= 2 /\ LSQ_SIZE \in Nat /\ LSQ_SIZE >= 2
  /\ LOAD_BUFFER_NUM \in Nat /\ LOAD_BUFFER_NUM >= 2 /\ NUM_OPS \in Nat /\ 0 \in Addr
  BY MemPipeAssumption

LEMMA RobParams == R!RobAssumption /\ R!InputsAssumption
  BY Sizes DEF R!RobAssumption, R!InputsAssumption

LEMMA Sets ==
  /\ Slot = R!Idx /\ Ways = R!Ways /\ Ways = {0, 1} /\ 0 \in Slot
  /\ SQ!Idx = 0 .. LSQ_SIZE - 1 /\ LQ!Idx = 0 .. LSQ_SIZE - 1
  /\ LB!Idx = 0 .. LOAD_BUFFER_NUM - 1
  BY Sizes DEF Slot, Ways, R!Idx, R!Ways, SQ!Idx, LQ!Idx, LB!Idx

(* The ring as MemPipe and as RobProofs see it. *)
LEMMA SameRing ==
  /\ \A f : R!dp_stall(f) = Rob!dp_stall(f)
  /\ \A c, i : R!Completed(c, i) = Rob!Completed(c, i)
  /\ \A c : R!head_retire_rdy(c) = Rob!head_retire_rdy(c)
  /\ \A c : R!head_p1_retire_rdy(c) = Rob!head_p1_retire_rdy(c)
  /\ \A i : R!Age(i) = Rob!Age(i)
  /\ R!head_p1 = Rob!head_p1 /\ R!tail_p1 = Rob!tail_p1 /\ R!TypeOK = Rob!TypeOK
  BY DEF R!dp_stall, Rob!dp_stall, R!cb_full, R!cb_almost_full, Rob!cb_full, Rob!cb_almost_full,
         R!Completed, R!CompletesNow, R!Ways, Rob!Completed, Rob!CompletesNow, Rob!Ways,
         R!head_retire_rdy, R!head_p1_retire_rdy, Rob!head_retire_rdy, Rob!head_p1_retire_rdy,
         R!head_p1, Rob!head_p1, R!tail_p1, R!Wrap, Rob!tail_p1, Rob!Wrap, R!Age, Rob!Age,
         R!TypeOK, Rob!TypeOK, R!Idx, Rob!Idx, R!Entry, Rob!Entry

LEMMA SameDispatches ==
  \A d, s, c : R!Dispatches(d, s, c) = Rob!Dispatches(d, s, c)
  BY DEF R!Dispatches, R!Listed, R!Count, R!dp_en1, R!dp_en2, R!reti_en1, R!reti_en2,
         R!cb_full, R!cb_almost_full, R!head_retire_rdy, R!head_p1_retire_rdy, R!Completed,
         R!CompletesNow, R!head_p1, R!Wrap, R!Ways,
         Rob!Dispatches, Rob!Listed, Rob!Count, Rob!dp_en1, Rob!dp_en2, Rob!reti_en1,
         Rob!reti_en2, Rob!cb_full, Rob!cb_almost_full, Rob!head_retire_rdy,
         Rob!head_p1_retire_rdy, Rob!Completed, Rob!CompletesNow, Rob!head_p1, Rob!Wrap, Rob!Ways

LEMMA SameClock ==
  ASSUME NEW d, NEW s, NEW c, NEW e, NEW q
  PROVE  Rob!Clock(d, s, c, e, q) <=> R!Clock(d, s, c, e, q)
  BY DEF R!Clock, R!Dispatches, R!Retires, R!Listed, R!Count, R!dp_en1, R!dp_en2, R!reti_en1,
         R!reti_en2, R!cb_full, R!cb_almost_full, R!NextSlot, R!NextRetireTag, R!WithViolation,
         R!WithBranchResult, R!Popped, R!Filled, R!Zero, R!Idx, R!tail_p1, R!head_retire_rdy,
         R!head_p1_retire_rdy, R!Completed, R!CompletesNow, R!head_p1, R!Wrap, R!Ways,
         Rob!Clock, Rob!Dispatches, Rob!Retires, Rob!Listed, Rob!Count, Rob!dp_en1, Rob!dp_en2,
         Rob!reti_en1, Rob!reti_en2, Rob!cb_full, Rob!cb_almost_full, Rob!NextSlot,
         Rob!NextRetireTag, Rob!WithViolation, Rob!WithBranchResult, Rob!Popped, Rob!Filled,
         Rob!Zero, Rob!Idx, Rob!tail_p1, Rob!head_retire_rdy, Rob!head_p1_retire_rdy,
         Rob!Completed, Rob!CompletesNow, Rob!head_p1, Rob!Wrap, Rob!Ways

LEMMA SameEdges ==
  /\ Rob!Flush <=> R!Flush
  /\ Rob!Init <=> R!Init
  BY DEF R!Flush, Rob!Flush, R!Init, Rob!Init, R!Zero, Rob!Zero, R!Idx, Rob!Idx

-----------------------------------------------------------------------------
(* Remainders of what is less than one size away. *)
LEMMA DivModUnique ==
  ASSUME NEW n \in Nat \ {0}, NEW q \in Int, NEW r \in 0 .. n - 1
  PROVE  (n * q + r) % n = r
  OBVIOUS

LEMMA Modulus ==
  ASSUME NEW M \in Nat \ {0}, NEW x \in Int
  PROVE  /\ x % M \in 0 .. M - 1
         /\ 0 <= x /\ x < M => x % M = x
         /\ M <= x /\ x < 2 * M => x % M = x - M
         /\ 2 * M <= x /\ x < 3 * M => x % M = x - 2 * M
         /\ -M <= x /\ x < 0 => x % M = x + M
<1>1. x % M \in 0 .. M - 1
  OBVIOUS
<1>2. ASSUME 0 <= x, x < M PROVE x % M = x
  <2>1. x = M * 0 + x /\ x \in 0 .. M - 1
    BY <1>2
  <2>2. (M * 0 + x) % M = x
    BY <2>1, DivModUnique
  <2>3. QED
    BY <2>1, <2>2
<1>3. ASSUME M <= x, x < 2 * M PROVE x % M = x - M
  <2>1. x = M * 1 + (x - M) /\ x - M \in 0 .. M - 1
    BY <1>3
  <2>2. (M * 1 + (x - M)) % M = x - M
    BY <2>1, DivModUnique
  <2>3. QED
    BY <2>1, <2>2
<1>4. ASSUME 2 * M <= x, x < 3 * M PROVE x % M = x - 2 * M
  <2>1. x = M * 2 + (x - 2 * M) /\ x - 2 * M \in 0 .. M - 1
    BY <1>4
  <2>2. (M * 2 + (x - 2 * M)) % M = x - 2 * M
    BY <2>1, DivModUnique
  <2>3. QED
    BY <2>1, <2>2
<1>5. ASSUME -M <= x, x < 0 PROVE x % M = x + M
  <2>1. x = M * (-1) + (x + M) /\ x + M \in 0 .. M - 1
    BY <1>5
  <2>2. (M * (-1) + (x + M)) % M = x + M
    BY <2>1, DivModUnique
  <2>3. QED
    BY <2>1, <2>2
<1>6. QED
  BY <1>1, <1>2, <1>3, <1>4, <1>5

(* A number below the size, n, as it is seen from h on: with n places behind h and
   without. *)
LEMMA SqWraps ==
  ASSUME NEW x \in Int
  PROVE  /\ SQ!Wrap(x) \in SQ!Idx /\ LQ!Wrap(x) \in LQ!Idx
         /\ SQ!Wrap(x) = LQ!Wrap(x)
         /\ 0 <= x /\ x < LSQ_SIZE => SQ!Wrap(x) = x
         /\ LSQ_SIZE <= x /\ x < 2 * LSQ_SIZE => SQ!Wrap(x) = x - LSQ_SIZE
         /\ 2 * LSQ_SIZE <= x /\ x < 3 * LSQ_SIZE => SQ!Wrap(x) = x - 2 * LSQ_SIZE
         /\ -LSQ_SIZE <= x /\ x < 0 => SQ!Wrap(x) = x + LSQ_SIZE
<1>1. LSQ_SIZE \in Nat \ {0}
  BY Sizes
<1>2. QED
  BY <1>1, Modulus, Sets DEF SQ!Wrap, LQ!Wrap

LEMMA LbWraps ==
  ASSUME NEW x \in Int
  PROVE  /\ LB!Wrap(x) \in LB!Idx
         /\ 0 <= x /\ x < LOAD_BUFFER_NUM => LB!Wrap(x) = x
         /\ LOAD_BUFFER_NUM <= x /\ x < 2 * LOAD_BUFFER_NUM => LB!Wrap(x) = x - LOAD_BUFFER_NUM
         /\ -LOAD_BUFFER_NUM <= x /\ x < 0 => LB!Wrap(x) = x + LOAD_BUFFER_NUM
<1>1. LOAD_BUFFER_NUM \in Nat \ {0}
  BY Sizes
<1>2. QED
  BY <1>1, Modulus, Sets DEF LB!Wrap

-----------------------------------------------------------------------------
(* Counting. *)
LEMMA OpsFinite == IsFiniteSet(Op)
  BY Sizes, FS_Interval DEF Op

LEMMA CountType ==
  ASSUME NEW p, NEW kind, NEW a \in Int, NEW b \in Int
  PROVE  IsFiniteSet(Among(p, kind, a, b)) /\ Count(p, kind, a, b) \in Nat
<1>1. Among(p, kind, a, b) \subseteq Op
  BY DEF Among
<1>2. QED
  BY <1>1, OpsFinite, FS_Subset, FS_CardinalityType DEF Count

LEMMA CountNone ==
  ASSUME NEW p, NEW kind, NEW a \in Int
  PROVE  Count(p, kind, a, a) = 0
<1>1. Among(p, kind, a, a) = {}
  BY DEF Among, Op
<1>2. QED
  BY <1>1, FS_EmptySet DEF Count

LEMMA CountSplit ==
  ASSUME NEW p, NEW kind, NEW a \in Int, NEW b \in Int, NEW c \in Int, a <= b, b <= c
  PROVE  Count(p, kind, a, c) = Count(p, kind, a, b) + Count(p, kind, b, c)
<1>1. Among(p, kind, a, c) = Among(p, kind, a, b) \cup Among(p, kind, b, c)
  BY DEF Among, Op
<1>2. Among(p, kind, a, b) \cap Among(p, kind, b, c) = {}
  BY DEF Among, Op
<1>3. IsFiniteSet(Among(p, kind, a, b)) /\ IsFiniteSet(Among(p, kind, b, c))
  BY CountType
<1>4. Cardinality(Among(p, kind, a, b) \cap Among(p, kind, b, c)) = 0
  BY <1>2, FS_EmptySet
<1>5. Cardinality(Among(p, kind, a, b)) \in Nat /\ Cardinality(Among(p, kind, b, c)) \in Nat
  BY <1>3, FS_CardinalityType
<1>6. QED
  BY <1>1, <1>3, <1>4, <1>5, FS_Union DEF Count

LEMMA CountOne ==
  ASSUME NEW p, NEW kind, NEW k \in Op
  PROVE  Count(p, kind, k, k + 1) = IF p[k].kind = kind THEN 1 ELSE 0
<1>1. Among(p, kind, k, k + 1) = IF p[k].kind = kind THEN {k} ELSE {}
  BY DEF Among, Op
<1>2. QED
  BY <1>1, FS_EmptySet, FS_Singleton DEF Count

LEMMA CountStep ==
  ASSUME NEW p, NEW kind, NEW a \in Int, NEW k \in Op, a <= k
  PROVE  Count(p, kind, a, k + 1) = Count(p, kind, a, k) + IF p[k].kind = kind THEN 1 ELSE 0
  BY CountOne, CountSplit, Sizes DEF Op

(* Sets of numbers have a least and, when bounded, a greatest element. *)
LEMMA LowestIn ==
  ASSUME NEW T, T \subseteq Nat, T # {}
  PROVE  \E j \in T : \A k \in T : j <= k
<1>1. PICK x \in T : \A y \in T : ~(<<y, x>> \in OpToRel(<, Nat))
  BY WFMin, NatLessThanWellFounded
<1>2. ASSUME NEW y \in T PROVE x <= y
  <2>1. <<y, x>> \in Nat \X Nat /\ <<y, x>>[1] = y /\ <<y, x>>[2] = x
    OBVIOUS
  <2>2. ~(y < x)
    BY <1>1, <2>1 DEF OpToRel
  <2>3. QED
    BY <2>2
<1>3. QED
  BY <1>2

LEMMA HighestIn ==
  ASSUME NEW n \in Nat, NEW T, T \subseteq 0 .. n, T # {}
  PROVE  \E j \in T : \A k \in T : k <= j
<1> DEFINE U == {n - k : k \in T}
<1>1. U \subseteq Nat /\ U # {}
  <2>1. \A k \in T : n - k \in Nat
    OBVIOUS
  <2>2. QED
    BY <2>1
<1>2. PICK x \in U : \A y \in U : x <= y
  <2> HIDE DEF U
  <2>1. QED
    BY <1>1, LowestIn
<1>3. PICK k \in T : x = n - k
  OBVIOUS
<1>4. \A l \in T : n - k <= n - l
  BY <1>2, <1>3
<1>5. QED
  BY <1>4

(* The m-th operation of a kind exists. *)
LEMMA RankExists ==
  ASSUME NEW p, NEW kind, NEW a \in Nat, NEW b \in 0 .. NUM_OPS, a <= b,
         NEW m \in Nat, m < Count(p, kind, a, b)
  PROVE  \E k \in Among(p, kind, a, b) : Count(p, kind, a, k) = m
<1> DEFINE T == {x \in Nat : a <= x /\ x <= b /\ m < Count(p, kind, a, x)}
<1>1. b \in T
  BY Sizes
<1>2. PICK x \in T : \A y \in T : x <= y
  <2>1. T \subseteq Nat /\ T # {}
    BY <1>1
  <2> HIDE DEF T
  <2>2. QED
    BY <2>1, LowestIn
<1>4. x # a
  BY CountNone
<1>5. x - 1 \in Op /\ a <= x - 1 /\ x - 1 \notin T /\ x - 1 + 1 = x
  BY <1>2, <1>4, Sizes DEF Op
<1>6. Count(p, kind, a, x - 1) <= m /\ Count(p, kind, a, x - 1) \in Nat
  BY <1>5, CountType DEF Op
<1>7. Count(p, kind, a, x) = Count(p, kind, a, x - 1) + IF p[x - 1].kind = kind THEN 1 ELSE 0
  BY <1>5, CountStep
<1>8. Count(p, kind, a, x - 1) = m /\ p[x - 1].kind = kind
  BY <1>6, <1>7
<1>9. x - 1 \in Among(p, kind, a, b)
  BY <1>5, <1>8 DEF Among
<1>10. QED
  BY <1>8, <1>9

(* Of two operations the later one has the higher count. *)
LEMMA CountOrder ==
  ASSUME NEW p, NEW kind, NEW a \in Int, NEW k \in Op, NEW l \in Int, a <= k, k < l
  PROVE  /\ Count(p, kind, a, k) <= Count(p, kind, a, l)
         /\ p[k].kind = kind => Count(p, kind, a, k) < Count(p, kind, a, l)
<1>1. Count(p, kind, a, l) = Count(p, kind, a, k + 1) + Count(p, kind, k + 1, l)
  BY CountSplit, Sizes DEF Op
<1>2. Count(p, kind, a, k + 1) = Count(p, kind, a, k) + IF p[k].kind = kind THEN 1 ELSE 0
  BY CountStep
<1>3. Count(p, kind, a, k) \in Nat /\ Count(p, kind, k + 1, l) \in Nat
  BY CountType, Sizes DEF Op
<1>4. QED
  BY <1>1, <1>2, <1>3

-----------------------------------------------------------------------------
(* The cycle seen from the ring of the reorder buffer. *)

(* The inputs of the ring in a cycle. *)
stall == Rob!dp_stall(FALSE)
RingInput(go) ==
  [din |-> rn_dp(go), rs_full |-> FALSE, cdb |-> ex_cm, ex |-> branch_done, sq |-> SQ_FU_out]

(* How many operations are dispatched and retired. *)
Entering(go) == Rob!Dispatches(rn_dp(go), stall, ex_cm)
Leaving      == IF head_p1_retire_rdy THEN 2 ELSE IF head_retire_rdy THEN 1 ELSE 0

LEMMA Typed ==
  ASSUME QueueInv
  PROVE  /\ prog \in [Op -> [kind : Kind, addr : Addr]]
         /\ fpc \in 0 .. NUM_OPS /\ arch \in 0 .. NUM_OPS /\ rob_cnt \in 0 .. ROB_SIZE
         /\ rob_head \in Slot /\ rob_tail \in Slot
         /\ sq_head \in SQ!Idx /\ sq_tail \in SQ!Idx /\ lq_head \in SQ!Idx /\ lq_tail \in SQ!Idx
         /\ sq \in [SQ!Idx -> SQ!Entry] /\ lq \in [SQ!Idx -> LQ!Entry]
         /\ lb_head \in LB!Idx /\ lb_tail \in LB!Idx
         /\ lb \in [LB!Idx -> [occupied : BOOLEAN, valid : BOOLEAN, value : Value,
                               load : [rob_idx : Slot, addr : Addr]]]
         /\ ex_cm \in [Ways -> Result] /\ rtb \in Seq(SQ!Entry)
         /\ preg \in [Slot -> Value] /\ reads \in [Op -> Value] /\ unified_memory \in [Addr -> Value]
         /\ rs \subseteq RsEntry
         /\ retire_tag \in [Slot -> BOOLEAN]
<1>1. TypeOK /\ R!TypeOK
  BY DEF QueueInv, R!RingInv
<1>2. prog \in [Op -> [kind : Kind, addr : Addr]]
  BY <1>1, MemPipeAssumption DEF TypeOK
<1>3. SQ!TypeOK /\ LQ!TypeOK
  BY <1>1 DEF TypeOK
<1>4. /\ sq_head \in SQ!Idx /\ sq_tail \in SQ!Idx /\ lq_head \in SQ!Idx /\ lq_tail \in SQ!Idx
      /\ sq \in [SQ!Idx -> SQ!Entry] /\ lq \in [SQ!Idx -> LQ!Entry]
  BY <1>3, Sets DEF SQ!TypeOK, LQ!TypeOK
<1>5. rob_cnt \in 0 .. ROB_SIZE /\ retire_tag \in [Slot -> BOOLEAN] /\ rob_head \in Slot /\ rob_tail \in Slot
  BY <1>1, Sets DEF R!TypeOK
<1>6. QED
  BY <1>1, <1>2, <1>4, <1>5 DEF TypeOK

(* The window and what is in it. *)
Front ==
  /\ prog \in [Op -> [kind : Kind, addr : Addr]]
  /\ fpc \in 0 .. NUM_OPS /\ arch \in 0 .. NUM_OPS
  /\ R!RingInv /\ InOrder

LEMMA QueueFront == QueueInv => Front
  BY Typed DEF Front, QueueInv

(* What is in flight, and what it is. *)
LEMMA FrontFlight ==
  ASSUME Front, NEW i \in Slot
  PROVE  /\ R!Age(i) \in 0 .. ROB_SIZE - 1
         /\ i \in InFlight <=> data[i].valid
         /\ i \in InFlight <=> R!Age(i) < rob_cnt
         /\ i \in InFlight => /\ Ins(i) \in Op /\ Ins(i) = arch + R!Age(i)
                              /\ arch <= Ins(i) /\ Ins(i) < fpc
                              /\ KindOf(i) \in Kind /\ AddrOf(i) \in Addr
                              /\ data[i].is_branch \in BOOLEAN /\ data[i].rd_mem \in BOOLEAN
                              /\ data[i].ex_take_branch \in BOOLEAN
                              /\ data[i].rd_mem_violation \in BOOLEAN
                              /\ EntryExact(data[i])
         /\ retire_tag[i] => i \in InFlight
<1>1. R!RingInv /\ R!TypeOK /\ InOrder /\ prog \in [Op -> [kind : Kind, addr : Addr]]
      /\ fpc \in 0 .. NUM_OPS /\ arch \in 0 .. NUM_OPS /\ rob_cnt \in 0 .. ROB_SIZE
  BY DEF Front, R!RingInv, R!TypeOK
<1>2. R!Age(i) \in 0 .. ROB_SIZE - 1
  BY <1>1, R!AgeType, RobParams, Sets DEF R!Idx
<1>3. i \in InFlight <=> data[i].valid
  BY DEF InFlight
<1>4. data[i].valid <=> R!Age(i) < rob_cnt
  BY <1>1, Sets DEF R!RingInv, R!WindowExact
<1>5. retire_tag[i] => data[i].valid
  BY <1>1, Sets DEF R!RingInv, R!NoStaleCompletion
<1>6. ASSUME i \in InFlight
      PROVE  /\ Ins(i) \in Op /\ Ins(i) = arch + R!Age(i)
             /\ arch <= Ins(i) /\ Ins(i) < fpc
             /\ data[i].is_branch \in BOOLEAN /\ data[i].rd_mem \in BOOLEAN
             /\ data[i].ex_take_branch \in BOOLEAN
             /\ data[i].rd_mem_violation \in BOOLEAN
             /\ EntryExact(data[i])
  <2>1. data[i] \in R!Entry /\ data[i].valid
    BY <1>1, <1>3, <1>6, Sets DEF R!TypeOK
  <2>2. /\ data[i].ins \in Op
        /\ data[i].is_branch \in BOOLEAN /\ data[i].rd_mem \in BOOLEAN
        /\ data[i].ex_take_branch \in BOOLEAN
        /\ data[i].rd_mem_violation \in BOOLEAN
    BY <2>1 DEF R!Entry
  <2>3. Ins(i) = arch + R!Age(i) /\ EntryExact(data[i]) /\ fpc = arch + rob_cnt
    BY <1>1, <1>6 DEF InOrder
  <2>4. QED
    BY <1>1, <1>2, <1>3, <1>4, <1>6, <2>2, <2>3 DEF Ins
<1>7. i \in InFlight => KindOf(i) \in Kind /\ AddrOf(i) \in Addr
  BY <1>1, <1>6 DEF KindOf, AddrOf, Ins
<1>8. QED
  BY <1>2, <1>3, <1>4, <1>5, <1>6, <1>7

(* Every operation between is in flight, in one slot. *)
LEMMA FrontSlot ==
  ASSUME Front, NEW k \in Int, arch <= k, k < fpc
  PROVE  k \in Op /\ \E i \in InFlight : Ins(i) = k
<1>1. fpc = arch + rob_cnt /\ fpc \in 0 .. NUM_OPS /\ arch \in 0 .. NUM_OPS /\ rob_cnt \in 0 .. ROB_SIZE
  BY DEF Front, InOrder, R!RingInv, R!TypeOK
<1>2. PICK n \in 1 .. ROB_SIZE : n = k - arch + 1
  BY <1>1, Sizes
<1>3. R!RingInv
  BY DEF Front
<1> DEFINE i == R!Slot(n)
<1>4. i \in Slot /\ R!Age(i) = n - 1
  BY <1>3, R!SlotAge, RobParams, Sets
<1> HIDE DEF i
<1>5. i \in InFlight /\ Ins(i) = k
  BY <1>1, <1>2, <1>4, FrontFlight
<1>6. k \in Op
  BY <1>1, Sizes DEF Op
<1>7. QED
  BY <1>5, <1>6

LEMMA FrontOne ==
  ASSUME Front, NEW i \in InFlight, NEW j \in InFlight, Ins(i) = Ins(j)
  PROVE  i = j
<1>1. i \in Slot /\ j \in Slot /\ R!Age(i) = R!Age(j)
  <2>1. i \in Slot /\ j \in Slot
    BY DEF InFlight
  <2>2. Ins(i) = arch + R!Age(i) /\ Ins(j) = arch + R!Age(j) /\ R!Age(i) \in Int /\ R!Age(j) \in Int
    BY <2>1, FrontFlight
  <2>3. arch \in Int
    BY DEF Front
  <2>4. R!Age(i) = Ins(i) - arch /\ R!Age(j) = Ins(j) - arch
    <3>1. \A a, b, c \in Int : c = a + b => b = c - a
      OBVIOUS
    <3>2. Ins(i) \in Int /\ Ins(j) \in Int
      BY <2>1, FrontFlight, Sizes DEF Op
    <3>3. QED
      BY <2>2, <2>3, <3>1, <3>2
  <2>5. QED
    BY <2>1, <2>4
<1>2. QED
  BY <1>1, Sizes DEF R!Age, Slot, Front, R!RingInv, R!TypeOK, R!Idx

(* The same from the invariant. *)
LEMMA FlightIs ==
  ASSUME QueueInv, NEW i \in Slot
  PROVE  /\ R!Age(i) \in 0 .. ROB_SIZE - 1
         /\ i \in InFlight <=> data[i].valid
         /\ i \in InFlight <=> R!Age(i) < rob_cnt
         /\ i \in InFlight => /\ Ins(i) \in Op /\ Ins(i) = arch + R!Age(i)
                              /\ arch <= Ins(i) /\ Ins(i) < fpc
                              /\ KindOf(i) \in Kind /\ AddrOf(i) \in Addr
                              /\ data[i].is_branch \in BOOLEAN /\ data[i].rd_mem \in BOOLEAN
                              /\ data[i].ex_take_branch \in BOOLEAN
                              /\ data[i].rd_mem_violation \in BOOLEAN
                              /\ EntryExact(data[i])
         /\ retire_tag[i] => i \in InFlight
  BY FrontFlight, QueueFront

LEMMA SlotOf ==
  ASSUME QueueInv, NEW k \in Int, arch <= k, k < fpc
  PROVE  k \in Op /\ \E i \in InFlight : Ins(i) = k
  BY FrontSlot, QueueFront

LEMMA OneSlot ==
  ASSUME QueueInv, NEW i \in InFlight, NEW j \in InFlight, Ins(i) = Ins(j)
  PROVE  i = j
  BY FrontOne, QueueFront

(* What a port holds. *)
LEMMA PortIs ==
  ASSUME QueueInv, NEW w \in Ways
  PROVE  /\ is_ex[w].rob_idx \in Slot /\ is_ex[w].SQ_idx \in Int /\ is_ex[w].LQ_idx \in Int
         /\ is_ex[w].addr \in Addr /\ is_ex[w].value \in Value
         /\ is_ex[w].valid \in BOOLEAN
         /\ \/ is_ex[w] = Idle /\ ~is_ex[w].valid /\ is_ex[w].kind \notin Kind
            \/ LET i == is_ex[w].rob_idx
               IN  /\ is_ex[w].valid /\ i \in InFlight /\ is_ex[w] = Packet(i)
                   /\ is_ex[w].kind = KindOf(i) /\ is_ex[w].addr = AddrOf(i)
                   /\ is_ex[w].value = Ins(i) + 1
                   /\ is_ex[w].SQ_idx = SqOf(Ins(i) + 1) /\ is_ex[w].LQ_idx = LqOf(Ins(i) + 1)
<1>1. CASE is_ex[w] = Idle
  <2>1. "none" \notin Kind
    BY DEF Kind
  <2>2. QED
    BY <1>1, <2>1, Sets, Sizes DEF Idle, Value
<1>2. CASE is_ex[w] # Idle
  <2>1. PICK i \in InFlight : is_ex[w] = Packet(i)
    BY <1>2 DEF QueueInv, Carried
  <2>2. i \in Slot /\ Ins(i) \in Op /\ AddrOf(i) \in Addr
    BY FlightIs DEF InFlight
  <2>3. SqOf(Ins(i) + 1) \in Int /\ LqOf(Ins(i) + 1) \in Int
    <3>1. Ins(i) + 1 \in Int /\ arch \in Int /\ sq_head \in Int /\ lq_head \in Int
      BY <2>2, Typed, Sets DEF Op
    <3>2. Count(prog, "store", arch, Ins(i) + 1) \in Nat /\ Count(prog, "load", arch, Ins(i) + 1) \in Nat
      BY <3>1, CountType
    <3>3. QED
      BY <3>1, <3>2, SqWraps, Sets, Sizes DEF SqOf, LqOf
  <2>4. Ins(i) + 1 \in Value
    BY <2>2, Sizes DEF Value, Op
  <2>5. QED
    BY <2>1, <2>2, <2>3, <2>4 DEF Packet
<1>3. QED
  BY <1>1, <1>2

-----------------------------------------------------------------------------
(* What is dispatched and retired, in numbers of operations. *)

LEMMA FetchedTyped ==
  ASSUME QueueInv, NEW go \in BOOLEAN
  PROVE  /\ rn_dp(go) \in [Ways -> R!Dispatched]
         /\ \A w \in Ways : rn_dp(go)[w].valid <=> w \in Bundle(go)
         /\ \A w \in Ways : w \in Bundle(go) =>
              /\ fpc + w \in Op /\ rn_dp(go)[w].ins = fpc + w
              /\ rn_dp(go)[w].is_branch <=> prog[fpc + w].kind = "jump"
              /\ rn_dp(go)[w].rd_mem <=> prog[fpc + w].kind = "load"
         /\ 1 \in Bundle(go) => 0 \in Bundle(go)
<1>1. ASSUME NEW w \in Ways
      PROVE  /\ rn_dp(go)[w] \in R!Dispatched
             /\ rn_dp(go)[w].valid <=> w \in Bundle(go)
             /\ w \in Bundle(go) =>
                  /\ fpc + w \in Op /\ rn_dp(go)[w].ins = fpc + w
                  /\ rn_dp(go)[w].is_branch <=> prog[fpc + w].kind = "jump"
                  /\ rn_dp(go)[w].rd_mem <=> prog[fpc + w].kind = "load"
  <2>1. CASE w \notin Bundle(go)
    <3>1. rn_dp(go)[w] = [valid |-> FALSE]
      BY <2>1 DEF rn_dp
    <3>2. QED
      BY <2>1, <3>1 DEF R!Dispatched
  <2>2. CASE w \in Bundle(go)
    <3>1. fpc + w \in Op
      BY <2>2, Typed, Sets, Sizes DEF Bundle, Op
    <3>2. PICK b \in BOOLEAN, l \in BOOLEAN :
            /\ b = (prog[fpc + w].kind = "jump")
            /\ l = (prog[fpc + w].kind = "load")
      OBVIOUS
    <3>3. rn_dp(go)[w] = [valid |-> TRUE, ins |-> fpc + w, is_branch |-> b, rd_mem |-> l]
      BY <2>2, <3>2 DEF rn_dp
    <3>4. rn_dp(go)[w] \in R!Dispatched
      BY <3>1, <3>2, <3>3 DEF R!Dispatched
    <3>5. rn_dp(go)[w].valid /\ rn_dp(go)[w].ins = fpc + w /\ rn_dp(go)[w].is_branch = b
          /\ rn_dp(go)[w].rd_mem = l
      BY <3>3
    <3>6. (b <=> prog[fpc + w].kind = "jump") /\ (l <=> prog[fpc + w].kind = "load")
      BY <3>2, Zenon
    <3>7. QED
      BY <2>2, <3>1, <3>4, <3>5, <3>6
  <2>3. QED
    BY <2>1, <2>2
<1>2. rn_dp(go) \in [Ways -> R!Dispatched]
  BY <1>1 DEF rn_dp
<1>3. 1 \in Bundle(go) => 0 \in Bundle(go)
  BY Typed, Sets, Sizes DEF Bundle, Fetched
<1>4. QED
  BY <1>1, <1>2, <1>3

(* The verdict of the load queue names a slot. *)
LEMMA VerdictTyped ==
  ASSUME QueueInv, NEW w \in Ways
  PROVE  /\ SQ_FU_out[w].done <=> is_ex[w].kind = "store"
         /\ SQ_FU_out[w] \in R!StoreDone
<1> DEFINE st == FU_SQ_out[w]
<1>1. st.done = (is_ex[w].kind = "store") /\ st.LQ_idx = is_ex[w].LQ_idx /\ st.LQ_idx \in Int
  BY PortIs DEF FU_SQ_out
<1>2. SQ_FU_out[w] = LQ!Verdict(st)
  BY DEF SQ_FU_out
<1> HIDE DEF st
<1>3. LQ!ld_idx(st) \in Int
  <2>1. LQ!Younger(st) \subseteq Nat
    BY Sets, Sizes DEF LQ!Younger
  <2>2. LQ!ld_hit(st) => \E j \in LQ!Younger(st) : \A k \in LQ!Younger(st) : j <= k
    BY <2>1, LowestIn DEF LQ!ld_hit
  <2>3. QED
    BY <2>1, <2>2 DEF LQ!ld_idx
<1>4. LQ!Wrap(st.LQ_idx + LQ!ld_idx(st)) \in SQ!Idx
  <2>1. st.LQ_idx + LQ!ld_idx(st) \in Int
    BY <1>1, <1>3
  <2>2. QED
    BY <2>1, SqWraps, Sets
<1>5. lq[LQ!Wrap(st.LQ_idx + LQ!ld_idx(st))].rob_idx \in Slot
  BY <1>4, Typed DEF LQ!Entry
<1>6. PICK d \in BOOLEAN, h \in BOOLEAN, r \in Slot :
        /\ d = st.done /\ h = LQ!ld_hit(st)
        /\ r = lq[LQ!Wrap(st.LQ_idx + LQ!ld_idx(st))].rob_idx
  BY <1>1, <1>5 DEF LQ!ld_hit
<1>7. LQ!Verdict(st) = [done |-> d, ld_rob_idx |-> r, mem_violation |-> h]
  BY <1>6 DEF LQ!Verdict
<1>8. d <=> is_ex[w].kind = "store"
  BY <1>1, <1>6, Zenon
<1>9. SQ_FU_out[w] \in R!StoreDone /\ SQ_FU_out[w].done = d
  BY <1>2, <1>6, <1>7, Sets DEF R!StoreDone
<1>10. QED
  BY <1>8, <1>9

LEMMA InputTyped ==
  ASSUME QueueInv, NEW go \in BOOLEAN
  PROVE  R!Edge(RingInput(go))
<1> DEFINE in == RingInput(go)
<1>1. in.din \in [R!Ways -> R!Dispatched] /\ (in.din[1].valid => in.din[0].valid)
  BY FetchedTyped, Sets DEF RingInput
<1>2. in.rs_full \in BOOLEAN
  BY DEF RingInput
<1>3. \A w \in R!Ways :
        [valid |-> in.cdb[w].valid, rob_idx |-> in.cdb[w].rob_idx] \in R!Completions
  BY Sets, Typed DEF RingInput, Result, R!Completions
<1>4. in.ex \in [R!Ways -> R!BranchDone]
  <2>1. ASSUME NEW w \in Ways PROVE branch_done[w] \in R!BranchDone
    <3>1. PICK b \in BOOLEAN : b = (~LQ_FU_out[w].valid /\ is_ex[w].kind = "jump")
      <4>1. (~LQ_FU_out[w].valid /\ is_ex[w].kind = "jump") \in BOOLEAN
        OBVIOUS
      <4>2. QED
        BY <4>1, Zenon
    <3>2. branch_done[w] = [branch_done |-> b, rob_idx |-> is_ex[w].rob_idx, take_branch |-> TRUE]
      BY <3>1 DEF branch_done
    <3>3. is_ex[w].rob_idx \in R!Idx
      BY PortIs, Sets
    <3>4. QED
      BY <3>2, <3>3 DEF R!BranchDone
  <2>2. QED
    BY <2>1, Sets DEF RingInput, branch_done
<1>5. in.sq \in [R!Ways -> R!StoreDone]
  BY VerdictTyped, Sets DEF RingInput, SQ_FU_out
<1>6. QED
  BY <1>1, <1>2, <1>3, <1>4, <1>5 DEF R!Edge, R!IsInput, QueueInv

(* How many operations of the bundle enter. *)
LEMMA DispatchCount ==
  ASSUME QueueInv, NEW go \in BOOLEAN
  PROVE  /\ Entering(go) \in 0 .. 2 /\ fpc + Entering(go) <= NUM_OPS
         /\ rob_cnt + Entering(go) <= ROB_SIZE
         /\ \A w \in Ways : w < Entering(go) <=> w \in Bundle(go) /\ ~stall
         /\ \A w \in Ways : w < Entering(go) =>
              /\ fpc + w \in Op /\ rn_dp(go)[w].ins = fpc + w
              /\ rn_dp(go)[w].is_branch <=> prog[fpc + w].kind = "jump"
              /\ rn_dp(go)[w].rd_mem <=> prog[fpc + w].kind = "load"
<1>1. rob_cnt \in 0 .. ROB_SIZE /\ fpc \in 0 .. NUM_OPS
  BY Typed
<1>2. ~stall => ~R!cb_full /\ ~R!cb_almost_full /\ rob_cnt + 2 <= ROB_SIZE
  BY <1>1, Sizes DEF stall, Rob!dp_stall, R!cb_full, R!cb_almost_full, Rob!cb_full,
                     Rob!cb_almost_full
<1>3. R!reti_en2(ex_cm) => R!reti_en1(ex_cm)
  BY R!RetireEnables, RobParams DEF QueueInv
<1>4. R!dp_en1(rn_dp(go), stall) <=> ~stall /\ 0 \in Bundle(go)
  BY <1>2, FetchedTyped, Sets DEF R!dp_en1
<1>5. R!dp_en2(rn_dp(go), stall) <=> ~stall /\ 1 \in Bundle(go)
  BY <1>2, FetchedTyped, Sets DEF R!dp_en2
<1>6. 1 \in Bundle(go) => 0 \in Bundle(go)
  BY FetchedTyped
<1>7. Entering(go) = IF stall \/ 0 \notin Bundle(go) THEN 0 ELSE IF 1 \in Bundle(go) THEN 2 ELSE 1
  BY <1>3, <1>4, <1>5, <1>6, SameDispatches
  DEF R!Dispatches, R!Listed, R!Count, Entering
<1>8. \A w \in Ways : w < Entering(go) <=> w \in Bundle(go) /\ ~stall
  BY <1>6, <1>7, Sets
<1>9. 0 \in Bundle(go) => fpc + 0 < NUM_OPS
  BY DEF Bundle
<1>10. 1 \in Bundle(go) => fpc + 1 < NUM_OPS
  BY DEF Bundle
<1>11. Entering(go) \in 0 .. 2 /\ fpc + Entering(go) <= NUM_OPS /\ rob_cnt + Entering(go) <= ROB_SIZE
  BY <1>1, <1>2, <1>7, <1>9, <1>10, Sizes
<1>12. QED
  BY <1>8, <1>11, FetchedTyped

-----------------------------------------------------------------------------
(* What is ready to retire is the front. *)
LEMMA Heads ==
  ASSUME QueueInv
  PROVE  /\ rob_head \in Slot /\ Rob!head_p1 \in Slot /\ R!Age(rob_head) = 0 /\ R!Age(Rob!head_p1) = 1
         /\ \A i \in Slot : R!Age(i) = 0 => i = rob_head
         /\ \A i \in Slot : R!Age(i) = 1 => i = Rob!head_p1
         /\ head_retire_rdy <=> R!head_retire_rdy(ex_cm)
         /\ head_p1_retire_rdy <=> R!head_p1_retire_rdy(ex_cm) /\ ~first.ex_take_branch
         /\ head_retire_rdy => /\ rob_head \in InFlight /\ rob_cnt >= 1 /\ first.ins = arch
                               /\ EntryExact(first) /\ R!Completed(ex_cm, rob_head)
         /\ head_p1_retire_rdy => /\ head_retire_rdy
                                  /\ Rob!head_p1 \in InFlight /\ rob_cnt >= 2 /\ second.ins = arch + 1
                                  /\ EntryExact(second) /\ R!Completed(ex_cm, Rob!head_p1)
<1>1. R!RingInv
  BY DEF QueueInv
<1>2. /\ rob_head \in Slot /\ Rob!head_p1 \in Slot /\ R!Age(rob_head) = 0 /\ R!Age(Rob!head_p1) = 1
      /\ \A i \in Slot : R!Age(i) = 0 => i = rob_head
      /\ \A i \in Slot : R!Age(i) = 1 => i = Rob!head_p1
  BY <1>1, R!AgeType, RobParams, Sets, SameRing, Typed
<1>3. /\ head_retire_rdy <=> R!head_retire_rdy(ex_cm)
      /\ head_p1_retire_rdy <=> R!head_p1_retire_rdy(ex_cm) /\ ~first.ex_take_branch
  BY SameRing DEF head_retire_rdy, head_p1_retire_rdy
<1>4. /\ R!head_retire_rdy(ex_cm) <=> R!Completed(ex_cm, rob_head)
      /\ R!head_p1_retire_rdy(ex_cm) <=> R!Completed(ex_cm, rob_head) /\ R!Completed(ex_cm, Rob!head_p1)
  BY SameRing DEF R!head_retire_rdy, R!head_p1_retire_rdy
<1>5. /\ R!Completed(ex_cm, rob_head) => data[rob_head].valid
      /\ R!Completed(ex_cm, Rob!head_p1) => data[Rob!head_p1].valid
  BY <1>1, <1>2, R!CompletedIsValid, RobParams, Sets
<1>6. rob_cnt \in Int /\ arch \in Int
  BY Typed
<1>7. R!Completed(ex_cm, rob_head) =>
        /\ rob_head \in InFlight /\ rob_cnt >= 1 /\ first.ins = arch /\ EntryExact(first)
  BY <1>2, <1>5, <1>6, FlightIs DEF first, Ins
<1>8. R!Completed(ex_cm, Rob!head_p1) =>
        /\ Rob!head_p1 \in InFlight /\ rob_cnt >= 2 /\ second.ins = arch + 1 /\ EntryExact(second)
  BY <1>2, <1>5, <1>6, FlightIs DEF second, Ins
<1>9. QED
  BY <1>2, <1>3, <1>4, <1>7, <1>8

-----------------------------------------------------------------------------
(* A cycle that does not roll back: what stays in flight and what comes. *)

(* A cycle that does not roll back. *)
Step(go, port) ==
  /\ QueueInv /\ Unbroken /\ QueueRoom /\ BufferRoom /\ QueueRoom' /\ BufferRoom'
  /\ go \in BOOLEAN /\ \A w \in Ways : port[w] \in Choices(w)
  /\ Apart(port[0], port[1])
  /\ ~rollback /\ Clock(go, port)

LEMMA NothingLost ==
  ASSUME QueueInv, ~rollback
  PROVE  /\ head_retire_rdy => ~first.ex_take_branch /\ ~first.rd_mem_violation
         /\ head_p1_retire_rdy => ~second.ex_take_branch /\ ~second.rd_mem_violation
         /\ head_p1_retire_rdy <=> R!head_p1_retire_rdy(ex_cm)
         /\ ~viol0 /\ ~viol1 /\ ~misp0 /\ ~misp1
         /\ commit0 <=> head_retire_rdy
         /\ commit1 <=> head_p1_retire_rdy
<1>1. /\ head_retire_rdy => EntryExact(first)
      /\ head_p1_retire_rdy => EntryExact(second)
  BY Heads
<1>2. ~misp0 /\ ~misp1 /\ ~(viol0 /\ first.rd_mem) /\ ~(viol1 /\ second.rd_mem)
  BY DEF rollback, mispredict, ld_rollback
<1>3. /\ head_retire_rdy => ~first.ex_take_branch /\ ~first.rd_mem_violation
      /\ head_p1_retire_rdy => ~second.ex_take_branch /\ ~second.rd_mem_violation
  BY <1>1, <1>2 DEF EntryExact, misp0, misp1, viol0, viol1
<1>4. R!head_p1_retire_rdy(ex_cm) => head_retire_rdy
  BY Heads, SameRing DEF R!head_p1_retire_rdy, R!head_retire_rdy
<1>5. QED
  BY <1>2, <1>3, <1>4, Heads DEF viol0, viol1, commit0, commit1

(* What an edge does to the slots. *)
LEMMA StepMoves ==
  ASSUME NEW go, NEW port, Step(go, port)
  PROVE  LET n == Entering(go)
         IN  /\ R!RingInv' /\ prog' = prog
             /\ Leaving \in 0 .. 2 /\ Leaving <= rob_cnt
             /\ Leaving >= 1 <=> head_retire_rdy
             /\ Leaving = 2 <=> head_p1_retire_rdy
             /\ rob_head' = R!Wrap(rob_head + Leaving) /\ rob_cnt' = rob_cnt + n - Leaving
             /\ fpc' = fpc + n /\ arch' = arch + Leaving
             /\ \A i \in Slot :
                  /\ data'[i].valid <=> Leaving <= R!Age(i) /\ R!Age(i) < rob_cnt + n
                  /\ Leaving <= R!Age(i) => R!Age(i)' = R!Age(i) - Leaving
                  /\ Leaving <= R!Age(i) /\ R!Age(i) < rob_cnt =>
                       /\ data'[i].ins = data[i].ins
                       /\ data'[i].is_branch = data[i].is_branch
                       /\ data'[i].rd_mem = data[i].rd_mem
                       /\ data'[i].ex_take_branch # data[i].ex_take_branch => data[i].is_branch
                       /\ data'[i] = R!WithViolation(R!WithBranchResult(data[i], i, branch_done), i, SQ_FU_out)
                  /\ rob_cnt <= R!Age(i) /\ R!Age(i) < rob_cnt + n =>
                       data'[i] = R!Filled(rn_dp(go)[R!Age(i) - rob_cnt])
                  /\ retire_tag'[i] <=> R!Completed(ex_cm, i) /\ Leaving <= R!Age(i)
                  /\ R!Age(i) < Leaving => R!Completed(ex_cm, i)
<1> DEFINE n == Entering(go)
           in == RingInput(go)
           s == R!dp_stall(in.rs_full)
<1>1. QueueInv /\ go \in BOOLEAN /\ ~rollback /\ Clock(go, port)
  BY DEF Step
<1>2. R!Edge(in)
  BY <1>1, InputTyped
<1>3. /\ Rob!Clock(rn_dp(go), Rob!dp_stall(FALSE), ex_cm, branch_done, SQ_FU_out)
      /\ prog' = prog
      /\ arch' = arch + (IF commit1 THEN 2 ELSE IF commit0 THEN 1 ELSE 0)
      /\ fpc' = IF misp0 THEN first.ins + 1 ELSE IF misp1 THEN second.ins + 1
                ELSE IF viol0 THEN first.ins ELSE IF ld_rollback THEN second.ins
                ELSE fpc + Rob!Dispatches(rn_dp(go), Rob!dp_stall(FALSE), ex_cm)
  BY <1>1 DEF Clock
<1>4. R!Clock(in.din, s, in.cdb, in.ex, in.sq)
  BY <1>3, SameClock, SameRing DEF RingInput
<1>5. R!RingInv'
  BY <1>2, <1>4, R!ClockRing, RobParams
<1>6. /\ in.din = rn_dp(go) /\ in.cdb = ex_cm /\ in.ex = branch_done /\ in.sq = SQ_FU_out
      /\ s = stall
  BY SameRing DEF RingInput, stall
<1>7. n = R!Dispatches(in.din, s, in.cdb)
  BY <1>6, SameDispatches DEF Entering
<1>8. PICK r : r = R!Retires(in.din, s, in.cdb)
  OBVIOUS
<1>9. /\ n \in 0 .. 2 /\ rob_cnt + n <= ROB_SIZE
      /\ r \in 0 .. 2 /\ r <= rob_cnt
      /\ r >= 1 <=> R!head_retire_rdy(ex_cm)
      /\ r = 2 <=> R!head_p1_retire_rdy(ex_cm)
  BY <1>2, <1>6, <1>7, <1>8, R!Movement, RobParams
<1>10. /\ R!head_retire_rdy(ex_cm) <=> head_retire_rdy
       /\ R!head_p1_retire_rdy(ex_cm) <=> head_p1_retire_rdy
       /\ commit0 <=> head_retire_rdy
       /\ commit1 <=> head_p1_retire_rdy
       /\ ~viol0 /\ ~viol1 /\ ~misp0 /\ ~misp1 /\ ~ld_rollback
       /\ head_p1_retire_rdy => head_retire_rdy
  BY <1>1, Heads, NothingLost DEF rollback
<1>11. r = Leaving /\ Leaving \in 0 .. 2
  BY <1>9, <1>10 DEF Leaving
<1>12. fpc' = fpc + n /\ arch' = arch + Leaving
  BY <1>3, <1>10 DEF Leaving, Entering, stall
<1>13. /\ rob_head' = R!Wrap(rob_head + r) /\ rob_cnt' = rob_cnt + n - r
       /\ data' = [i \in Slot |-> R!NextSlot(in.din, s, in.cdb, in.ex, in.sq, i)]
       /\ retire_tag' = [i \in Slot |-> R!NextRetireTag(in.cdb, i)]
  BY <1>4, <1>7, <1>8, Sets DEF R!Clock
<1>14. R!RingInv /\ rob_cnt \in 0 .. ROB_SIZE /\ rob_head \in Slot
  BY <1>1, Typed DEF QueueInv
<1> HIDE DEF in, s, n
<1>15. ASSUME NEW i \in Slot
       PROVE  /\ data'[i].valid <=> r <= R!Age(i) /\ R!Age(i) < rob_cnt + n
              /\ r <= R!Age(i) /\ R!Age(i) < rob_cnt =>
                   /\ data'[i].ins = data[i].ins
                   /\ data'[i].is_branch = data[i].is_branch
                   /\ data'[i].rd_mem = data[i].rd_mem
                   /\ data'[i].ex_take_branch # data[i].ex_take_branch => data[i].is_branch
                   /\ data'[i] = R!WithViolation(R!WithBranchResult(data[i], i, branch_done), i, SQ_FU_out)
              /\ rob_cnt <= R!Age(i) /\ R!Age(i) < rob_cnt + n =>
                   data'[i] = R!Filled(rn_dp(go)[R!Age(i) - rob_cnt])
              /\ retire_tag'[i] <=> R!Completed(ex_cm, i) /\ r <= R!Age(i)
              /\ R!Age(i) < r => R!Completed(ex_cm, i)
  <2>1. i \in R!Idx /\ R!Age(i) \in 0 .. ROB_SIZE - 1
    BY <1>1, FlightIs, Sets
  <2>2. data'[i] = R!NextSlot(in.din, s, in.cdb, in.ex, in.sq, i)
        /\ retire_tag'[i] = R!NextRetireTag(in.cdb, i)
    BY <1>13
  <2>3. data'[i].valid <=> r <= R!Age(i) /\ R!Age(i) < rob_cnt + n
    BY <1>2, <1>7, <1>8, <2>1, <2>2, R!SlotsAfter, RobParams DEF s
  <2>4. (R!Age(i) = 0 <=> i = rob_head) /\ (R!Age(i) = 1 <=> i = R!head_p1)
    BY <1>1, Heads, SameRing
  <2>5. ASSUME r <= R!Age(i), R!Age(i) < rob_cnt
        PROVE  /\ data'[i].ins = data[i].ins
               /\ data'[i].is_branch = data[i].is_branch
               /\ data'[i].rd_mem = data[i].rd_mem
               /\ data'[i].ex_take_branch # data[i].ex_take_branch => data[i].is_branch
               /\ data'[i] = R!WithViolation(R!WithBranchResult(data[i], i, branch_done), i, SQ_FU_out)
    <3>1. /\ data'[i].ins = data[i].ins
          /\ data'[i].is_branch = data[i].is_branch
          /\ data'[i].rd_mem = data[i].rd_mem
          /\ data'[i].ex_take_branch # data[i].ex_take_branch => data[i].is_branch
      BY <1>2, <1>8, <2>1, <2>2, <2>5, R!SlotKept, RobParams DEF s
    <3>2. ~R!Popped(in.cdb, i)
      <4>1. /\ R!reti_en1(ex_cm) <=> R!head_retire_rdy(ex_cm)
            /\ R!reti_en2(ex_cm) <=> R!head_p1_retire_rdy(ex_cm)
        BY <1>14, R!RetireEnables, RobParams
      <4>2. QED
        BY <1>6, <1>9, <2>1, <2>4, <2>5, <4>1 DEF R!Popped
    <3>3. ~(n >= 1 /\ i = rob_tail) /\ ~(n = 2 /\ i = R!tail_p1)
      BY <1>9, <1>14, <2>1, <2>5, Sizes DEF R!RingInv, R!TypeOK, R!WindowExact, R!Idx, R!Age, R!Wrap, R!tail_p1
    <3>4. data'[i] = R!WithViolation(R!WithBranchResult(data[i], i, in.ex), i, in.sq)
      BY <1>7, <2>2, <3>2, <3>3 DEF R!NextSlot
    <3>5. QED
      BY <1>6, <3>1, <3>4
  <2>6. rob_cnt <= R!Age(i) /\ R!Age(i) < rob_cnt + n =>
          data'[i] = R!Filled(rn_dp(go)[R!Age(i) - rob_cnt])
    <3>1. rob_cnt <= R!Age(i) /\ R!Age(i) < rob_cnt + n =>
            data'[i] = R!Filled(rn_dp(go)[IF R!Age(i) = rob_cnt THEN 0 ELSE 1])
      BY <1>2, <1>6, <1>7, <2>1, <2>2, R!SlotFilled, RobParams DEF s
    <3>2. rob_cnt <= R!Age(i) /\ R!Age(i) < rob_cnt + n =>
            R!Age(i) - rob_cnt = IF R!Age(i) = rob_cnt THEN 0 ELSE 1
      BY <1>9, <1>14, <2>1
    <3>3. QED
      BY <3>1, <3>2
  <2>7. R!Age(i) < r => R!Completed(ex_cm, i)
    BY <1>9, <2>1, <2>4 DEF R!head_retire_rdy, R!head_p1_retire_rdy
  <2>8. retire_tag'[i] <=> R!Completed(ex_cm, i) /\ r <= R!Age(i)
    BY <1>6, <1>9, <2>1, <2>2, <2>4 DEF R!NextRetireTag
  <2>9. QED
    BY <2>3, <2>5, <2>6, <2>7, <2>8
<1>16. \A i \in Slot : r <= R!Age(i) => R!Age(i)' = R!Age(i) - r
  BY <1>9, <1>13, <1>14, Sizes DEF R!Age, R!Wrap, Slot
<1>17. /\ Leaving >= 1 <=> head_retire_rdy
       /\ Leaving = 2 <=> head_p1_retire_rdy
  BY <1>9, <1>10, <1>11
<1>18. QED
  BY <1>3, <1>5, <1>9, <1>11, <1>12, <1>13, <1>15, <1>16, <1>17 DEF n

-----------------------------------------------------------------------------
(* Ranks: the number of operations of a kind in front. *)

(* The slots of a bundle come behind the window. *)
LEMMA NewSlots ==
  ASSUME NEW go, NEW port, Step(go, port), NEW w \in Ways, w < Entering(go)
  PROVE  /\ dp_rob_idx[w] \in Slot /\ R!Age(dp_rob_idx[w]) = rob_cnt + w
         /\ \A i \in Slot : R!Age(i) = rob_cnt + w => i = dp_rob_idx[w]
<1>1. QueueInv /\ go \in BOOLEAN
  BY DEF Step
<1>2. Entering(go) \in 0 .. 2 /\ rob_cnt + Entering(go) <= ROB_SIZE
  BY <1>1, DispatchCount
<1>3. rob_cnt \in 0 .. ROB_SIZE /\ rob_head \in Slot /\ rob_tail = R!Wrap(rob_head + rob_cnt)
  BY <1>1, Typed DEF QueueInv, R!RingInv, R!WindowExact
<1>4. w \in {0, 1}
  BY Sets
<1>5. dp_rob_idx[w] = IF w = 0 THEN rob_tail ELSE R!tail_p1
  BY SameRing DEF dp_rob_idx
<1>6. dp_rob_idx[w] \in Slot /\ R!Age(dp_rob_idx[w]) = rob_cnt + w
  BY <1>2, <1>3, <1>4, <1>5, Sizes DEF R!Wrap, R!Age, R!tail_p1, Slot
<1>7. PICK j \in Slot : j = dp_rob_idx[w]
  BY <1>6
<1>8. \A i \in Slot : R!Age(i) = R!Age(j) => i = j
  BY <1>3, Sizes DEF R!Age, Slot
<1>9. QED
  BY <1>6, <1>7, <1>8

(* The same as StepMoves, said by the operations. *)
LEMMA OpsMove ==
  ASSUME NEW go, NEW port, Step(go, port)
  PROVE  /\ arch <= arch' /\ arch' <= fpc /\ arch' \in Int
         /\ fpc' = fpc + Entering(go) /\ fpc' = arch' + rob_cnt' /\ fpc' \in 0 .. NUM_OPS
         /\ arch' \in 0 .. NUM_OPS
         /\ \A i \in InFlight : arch' <= Ins(i) =>
              /\ i \in InFlight' /\ Ins(i)' = Ins(i)
              /\ KindOf(i)' = KindOf(i) /\ AddrOf(i)' = AddrOf(i)
              /\ retire_tag'[i] <=> R!Completed(ex_cm, i)
         /\ \A i \in InFlight : Ins(i) < arch' => i \notin InFlight' /\ R!Completed(ex_cm, i)
         /\ \A i \in InFlight' : i \notin InFlight =>
              \E w \in Ways : w < Entering(go) /\ i = dp_rob_idx[w]
         /\ \A w \in Ways : w < Entering(go) =>
              dp_rob_idx[w] \in Slot /\ \A i \in Slot : i = dp_rob_idx[w] =>
                  /\ i \in InFlight' /\ i \notin InFlight /\ Ins(i)' = fpc + w
                  /\ KindOf(i)' = prog[fpc + w].kind /\ AddrOf(i)' = prog[fpc + w].addr
                  /\ ~retire_tag'[i] /\ ~data'[i].rd_mem_violation
<1> DEFINE n == Entering(go)
<1>1. QueueInv /\ go \in BOOLEAN
  BY DEF Step
<1>2. /\ R!RingInv' /\ prog' = prog
      /\ Leaving \in 0 .. 2 /\ Leaving <= rob_cnt
      /\ rob_cnt' = rob_cnt + n - Leaving
      /\ fpc' = fpc + n /\ arch' = arch + Leaving
      /\ \A i \in Slot :
           /\ data'[i].valid <=> Leaving <= R!Age(i) /\ R!Age(i) < rob_cnt + n
           /\ Leaving <= R!Age(i) /\ R!Age(i) < rob_cnt => data'[i].ins = data[i].ins
           /\ rob_cnt <= R!Age(i) /\ R!Age(i) < rob_cnt + n =>
                data'[i] = R!Filled(rn_dp(go)[R!Age(i) - rob_cnt])
           /\ retire_tag'[i] <=> R!Completed(ex_cm, i) /\ Leaving <= R!Age(i)
           /\ R!Age(i) < Leaving => R!Completed(ex_cm, i)
  BY StepMoves
<1>3. n \in 0 .. 2 /\ fpc + n <= NUM_OPS /\ rob_cnt + n <= ROB_SIZE
      /\ \A w \in Ways : w < n => fpc + w \in Op /\ rn_dp(go)[w].ins = fpc + w
  BY <1>1, DispatchCount
<1>4. fpc = arch + rob_cnt /\ fpc \in 0 .. NUM_OPS /\ arch \in 0 .. NUM_OPS /\ rob_cnt \in 0 .. ROB_SIZE
  BY <1>1, Typed DEF QueueInv, InOrder
<1>5. /\ arch <= arch' /\ arch' <= fpc /\ arch' \in Int
      /\ fpc' = fpc + n /\ fpc' = arch' + rob_cnt' /\ fpc' \in 0 .. NUM_OPS
      /\ arch' \in 0 .. NUM_OPS
  BY <1>2, <1>3, <1>4, Sizes
<1> HIDE DEF n
<1>6. ASSUME NEW i \in InFlight
      PROVE  /\ arch' <= Ins(i) =>
                  /\ i \in InFlight' /\ Ins(i)' = Ins(i)
                  /\ KindOf(i)' = KindOf(i) /\ AddrOf(i)' = AddrOf(i)
                  /\ retire_tag'[i] <=> R!Completed(ex_cm, i)
             /\ Ins(i) < arch' => i \notin InFlight' /\ R!Completed(ex_cm, i)
  <2>1. i \in Slot /\ Ins(i) = arch + R!Age(i) /\ R!Age(i) \in 0 .. ROB_SIZE - 1 /\ R!Age(i) < rob_cnt
    BY <1>1, FlightIs DEF InFlight
  <2>2. arch' <= Ins(i) <=> Leaving <= R!Age(i)
    BY <1>2, <1>4, <2>1
  <2>3. Ins(i) < arch' <=> R!Age(i) < Leaving
    BY <1>2, <1>4, <2>1
  <2>4. R!Age(i) < rob_cnt + n
    BY <1>3, <1>4, <2>1
  <2>5. ASSUME arch' <= Ins(i)
        PROVE  /\ i \in InFlight' /\ Ins(i)' = Ins(i)
               /\ KindOf(i)' = KindOf(i) /\ AddrOf(i)' = AddrOf(i)
               /\ retire_tag'[i] <=> R!Completed(ex_cm, i)
    <3>1. data'[i].valid /\ data'[i].ins = data[i].ins /\ (retire_tag'[i] <=> R!Completed(ex_cm, i))
      BY <1>2, <2>1, <2>2, <2>4, <2>5
    <3>2. QED
      BY <1>2, <2>1, <3>1 DEF InFlight, Ins, KindOf, AddrOf
  <2>6. ASSUME Ins(i) < arch' PROVE i \notin InFlight' /\ R!Completed(ex_cm, i)
    <3>1. ~(Leaving <= R!Age(i)) /\ R!Age(i) < Leaving
      BY <1>2, <2>1, <2>3, <2>6
    <3>2. QED
      BY <1>2, <2>1, <3>1 DEF InFlight
  <2>7. QED
    BY <2>5, <2>6
<1>7. ASSUME NEW i \in InFlight', i \notin InFlight
      PROVE  \E w \in Ways : w < n /\ i = dp_rob_idx[w]
  <2>1. i \in Slot /\ data'[i].valid
    BY <1>7 DEF InFlight
  <2>2. R!Age(i) \in 0 .. ROB_SIZE - 1 /\ ~(R!Age(i) < rob_cnt) /\ R!Age(i) < rob_cnt + n
    BY <1>1, <1>2, <1>7, <2>1, FlightIs
  <2>3. PICK w \in Ways : w < n /\ R!Age(i) = rob_cnt + w
    BY <1>3, <1>4, <2>2, Sets
  <2>4. i = dp_rob_idx[w]
    BY <2>1, <2>3, NewSlots DEF n
  <2>5. QED
    BY <2>3, <2>4
<1>8. ASSUME NEW w \in Ways, w < n
      PROVE  dp_rob_idx[w] \in Slot /\ \A i \in Slot : i = dp_rob_idx[w] =>
                 /\ i \in InFlight' /\ i \notin InFlight /\ Ins(i)' = fpc + w
                 /\ KindOf(i)' = prog[fpc + w].kind /\ AddrOf(i)' = prog[fpc + w].addr
                 /\ ~retire_tag'[i] /\ ~data'[i].rd_mem_violation
  <2>1. PICK i \in Slot : i = dp_rob_idx[w]
    BY <1>8, NewSlots DEF n
  <2>2. R!Age(i) = rob_cnt + w
    BY <1>8, <2>1, NewSlots DEF n
  <2>3. w \in {0, 1}
    BY Sets
  <2>4. rob_cnt <= R!Age(i) /\ R!Age(i) < rob_cnt + n /\ R!Age(i) - rob_cnt = w /\ Leaving <= R!Age(i)
    BY <1>2, <1>3, <1>4, <1>8, <2>2, <2>3
  <2>5. data'[i].valid /\ data'[i] = R!Filled(rn_dp(go)[w])
    BY <1>2, <2>1, <2>4
  <2>6. data'[i].ins = fpc + w /\ ~data'[i].rd_mem_violation
    BY <1>3, <1>8, <2>5 DEF R!Filled
  <2>7. i \notin InFlight
    BY <1>1, <1>4, <2>1, <2>2, <2>4, FlightIs
  <2>8. ~R!Completed(ex_cm, i)
    <3>1. R!RingInv
      BY <1>1 DEF QueueInv
    <3>2. R!Completed(ex_cm, i) => data[i].valid
      BY <3>1, R!CompletedIsValid, RobParams, Sets
    <3>3. QED
      BY <2>7, <3>2 DEF InFlight
  <2>9. ~retire_tag'[i]
    BY <1>2, <2>1, <2>8
  <2>10. i \in InFlight' /\ Ins(i)' = fpc + w /\ KindOf(i)' = prog[fpc + w].kind
         /\ AddrOf(i)' = prog[fpc + w].addr
    BY <1>2, <2>1, <2>5, <2>6 DEF InFlight, Ins, KindOf, AddrOf
  <2>11. QED
    BY <2>1, <2>6, <2>7, <2>9, <2>10
<1>9. QED
  BY <1>5, <1>6, <1>7, <1>8 DEF n

LEMMA InOrderStep ==
  ASSUME NEW go, NEW port, Step(go, port)
  PROVE  InOrder'
<1> DEFINE n == Entering(go)
<1>1. QueueInv /\ go \in BOOLEAN
  BY DEF Step
<1>2. /\ prog' = prog
      /\ Leaving \in 0 .. 2 /\ Leaving <= rob_cnt
      /\ fpc' = fpc + n /\ arch' = arch + Leaving
      /\ \A i \in Slot :
           /\ data'[i].valid <=> Leaving <= R!Age(i) /\ R!Age(i) < rob_cnt + n
           /\ Leaving <= R!Age(i) => R!Age(i)' = R!Age(i) - Leaving
           /\ Leaving <= R!Age(i) /\ R!Age(i) < rob_cnt =>
                /\ data'[i].ins = data[i].ins
                /\ data'[i].is_branch = data[i].is_branch
                /\ data'[i].rd_mem = data[i].rd_mem
                /\ data'[i].ex_take_branch # data[i].ex_take_branch => data[i].is_branch
                /\ data'[i] = R!WithViolation(R!WithBranchResult(data[i], i, branch_done), i, SQ_FU_out)
           /\ rob_cnt <= R!Age(i) /\ R!Age(i) < rob_cnt + n =>
                data'[i] = R!Filled(rn_dp(go)[R!Age(i) - rob_cnt])
  BY StepMoves
<1>3. /\ n \in 0 .. 2
      /\ \A w \in Ways : w < n =>
           /\ fpc + w \in Op /\ rn_dp(go)[w].ins = fpc + w
           /\ rn_dp(go)[w].is_branch <=> prog[fpc + w].kind = "jump"
           /\ rn_dp(go)[w].rd_mem <=> prog[fpc + w].kind = "load"
  BY <1>1, DispatchCount
<1>4. fpc = arch + rob_cnt /\ fpc \in 0 .. NUM_OPS /\ arch \in 0 .. NUM_OPS /\ rob_cnt \in 0 .. ROB_SIZE
  BY <1>1, Typed DEF QueueInv, InOrder
<1> HIDE DEF n
<1>5. ASSUME NEW i \in InFlight'
      PROVE  Ins(i)' = arch' + R!Age(i)' /\ EntryExact(data[i])'
  <2>1. i \in Slot /\ data'[i].valid /\ R!Age(i) \in 0 .. ROB_SIZE - 1
    <3>1. i \in Slot /\ data'[i].valid
      BY <1>5 DEF InFlight
    <3>2. QED
      BY <1>1, <3>1, FlightIs
  <2>2. Leaving <= R!Age(i) /\ R!Age(i) < rob_cnt + n /\ R!Age(i)' = R!Age(i) - Leaving
    BY <1>2, <2>1
  <2>3. CASE R!Age(i) < rob_cnt
    <3>1. i \in InFlight /\ Ins(i) = arch + R!Age(i) /\ EntryExact(data[i])
      BY <1>1, <2>1, <2>3, FlightIs
    <3>2. /\ data'[i].ins = data[i].ins
          /\ data'[i].is_branch = data[i].is_branch
          /\ data'[i].rd_mem = data[i].rd_mem
          /\ data'[i].ex_take_branch # data[i].ex_take_branch => data[i].is_branch
          /\ data'[i] = R!WithViolation(R!WithBranchResult(data[i], i, branch_done), i, SQ_FU_out)
      BY <1>2, <2>1, <2>2, <2>3
    <3>3. data'[i].rd_mem_violation # data[i].rd_mem_violation => data[i].rd_mem
      <4>1. PICK e : e = R!WithBranchResult(data[i], i, branch_done)
        OBVIOUS
      <4>2. data[i] \in R!Entry /\ data[i].valid
        BY <1>1, <2>1, <3>1, Sets DEF QueueInv, R!RingInv, R!TypeOK, InFlight
      <4>3. e.rd_mem_violation = data[i].rd_mem_violation
        BY <4>1, <4>2 DEF R!WithBranchResult, R!Entry
      <4>4. ~data[i].rd_mem => R!WithViolation(e, i, SQ_FU_out) = e
        BY DEF R!WithViolation
      <4>5. data[i].rd_mem \in BOOLEAN
        BY <4>2 DEF R!Entry
      <4>6. QED
        BY <3>2, <4>1, <4>3, <4>4, <4>5
    <3>4. Ins(i)' = Ins(i) /\ arch' + R!Age(i)' = arch + R!Age(i)
      BY <1>2, <1>4, <2>1, <2>2, <3>2 DEF Ins
    <3>5. EntryExact(data[i])'
      BY <1>2, <3>1, <3>2, <3>3 DEF EntryExact
    <3>6. QED
      BY <3>1, <3>4, <3>5
  <2>4. CASE ~(R!Age(i) < rob_cnt)
    <3>1. PICK w \in Ways : w < n /\ R!Age(i) - rob_cnt = w
      BY <1>3, <1>4, <2>1, <2>2, <2>4, Sets
    <3>2. data'[i] = R!Filled(rn_dp(go)[w])
      BY <1>2, <1>4, <2>1, <2>2, <2>4, <3>1
    <3>3. /\ data'[i].ins = fpc + w
          /\ data'[i].is_branch <=> prog[fpc + w].kind = "jump"
          /\ data'[i].rd_mem <=> prog[fpc + w].kind = "load"
          /\ ~data'[i].ex_take_branch /\ ~data'[i].rd_mem_violation
      BY <1>3, <3>1, <3>2 DEF R!Filled
    <3>4. arch' + R!Age(i)' = fpc + w
      BY <1>2, <1>4, <2>1, <2>2, <3>1, Sets
    <3>5. QED
      BY <1>2, <3>3, <3>4 DEF EntryExact, Ins
  <2>5. QED
    BY <2>3, <2>4
<1>6. fpc' = arch' + rob_cnt'
  BY OpsMove
<1>7. QED
  BY <1>5, <1>6 DEF InOrder

-----------------------------------------------------------------------------
(* The store queue and the load queue move with the ring. *)

(* Slots in flight are as many as their operations. *)
LEMMA SlotsCount ==
  ASSUME Front, NEW T, T \subseteq InFlight, NEW U, U = {Ins(i) : i \in T}
  PROVE  IsFiniteSet(U) /\ IsFiniteSet(T) /\ Cardinality(T) = Cardinality(U)
<1> DEFINE f == [i \in T |-> Ins(i)]
<1>1. \A i, j \in T : Ins(i) = Ins(j) => i = j
  BY FrontOne
<1>2. f \in Bijection(T, U)
  BY <1>1 DEF Bijection, Injection, Surjection, IsInjective
<1>3. ExistsBijection(T, U)
  BY <1>2 DEF ExistsBijection
<1>4. IsFiniteSet(T)
  <2>1. T \subseteq Slot
    BY DEF InFlight
  <2>2. IsFiniteSet(Slot)
    BY Sizes, FS_Interval DEF Slot
  <2>3. QED
    BY <2>1, <2>2, FS_Subset
<1>5. QED
  BY <1>3, <1>4, FS_Bijection

(* The operations of a kind in flight, all and those before one of them. *)
LEMMA FlyingCount ==
  ASSUME Front, NEW kind
  PROVE  /\ Cardinality(Flying(kind)) = Count(prog, kind, arch, fpc)
         /\ \A i \in InFlight : Cardinality(Before(i, Flying(kind))) = Count(prog, kind, arch, Ins(i))
<1>0. arch \in Nat /\ fpc \in Nat
  BY Sizes DEF Front
<1>1. \A i \in InFlight : /\ i \in Slot /\ Ins(i) \in Op /\ arch <= Ins(i) /\ Ins(i) < fpc
                          /\ R!Age(i) \in Int /\ Ins(i) = arch + R!Age(i)
  BY FrontFlight DEF InFlight
<1>2. \A k \in Op : arch <= k /\ k < fpc => \E i \in InFlight : Ins(i) = k
  <2>1. \A k \in Op : k \in Int
    BY DEF Op
  <2>2. QED
    BY <2>1, FrontSlot
<1>3. \A i \in InFlight : i \in Flying(kind) <=> prog[Ins(i)].kind = kind
  BY DEF Flying, KindOf, Ins
<1>4. Among(prog, kind, arch, fpc) = {Ins(i) : i \in Flying(kind)}
  <2>1. ASSUME NEW k \in Among(prog, kind, arch, fpc) PROVE k \in {Ins(i) : i \in Flying(kind)}
    BY <1>2, <1>3 DEF Among
  <2>2. ASSUME NEW i \in Flying(kind) PROVE Ins(i) \in Among(prog, kind, arch, fpc)
    <3>1. i \in InFlight
      BY DEF Flying
    <3>2. QED
      BY <1>1, <1>3, <3>1 DEF Among
  <2>3. QED
    BY <2>1, <2>2
<1>5. Flying(kind) \subseteq InFlight
  BY DEF Flying
<1>6. ASSUME NEW i \in InFlight
      PROVE  Among(prog, kind, arch, Ins(i)) = {Ins(j) : j \in Before(i, Flying(kind))}
  <2>1. \A j \in InFlight : j \in Before(i, Flying(kind)) <=> prog[Ins(j)].kind = kind /\ Ins(j) < Ins(i)
    <3>1. \A j \in InFlight : Ins(j) < Ins(i) <=> R!Age(j) < R!Age(i)
      BY <1>0, <1>1
    <3>2. QED
      BY <1>3, <3>1, SameRing DEF Before
  <2>2. ASSUME NEW k \in Among(prog, kind, arch, Ins(i))
        PROVE  k \in {Ins(j) : j \in Before(i, Flying(kind))}
    <3>1. k \in Op /\ arch <= k /\ k < Ins(i) /\ prog[k].kind = kind /\ k \in Int /\ Ins(i) \in Int
      BY <1>1 DEF Among, Op
    <3>2. k < fpc
      BY <1>0, <1>1, <3>1
    <3>3. PICK j \in InFlight : Ins(j) = k
      BY <1>2, <3>1, <3>2
    <3>4. QED
      BY <2>1, <3>1, <3>3
  <2>3. ASSUME NEW j \in Before(i, Flying(kind)) PROVE Ins(j) \in Among(prog, kind, arch, Ins(i))
    <3>1. j \in InFlight
      BY DEF Before, Flying
    <3>2. QED
      BY <1>1, <2>1, <3>1 DEF Among
  <2>4. QED
    BY <2>2, <2>3
<1>7. ASSUME NEW i \in InFlight
      PROVE  Cardinality(Before(i, Flying(kind))) = Count(prog, kind, arch, Ins(i))
  <2>1. Before(i, Flying(kind)) \subseteq InFlight
    BY DEF Before, Flying
  <2>2. QED
    BY <1>6, <2>1, SlotsCount DEF Count
<1>8. QED
  BY <1>4, <1>5, <1>7, SlotsCount DEF Count

LEMMA FlyingCountNext ==
  Front' => (\A kind : Cardinality(Flying(kind)) = Count(prog, kind, arch, fpc))'
<1>1. Front => \A kind : Cardinality(Flying(kind)) = Count(prog, kind, arch, fpc)
  BY FlyingCount
<1>2. QED
  BY <1>1, PTL

LEMMA FrontStep ==
  ASSUME NEW go, NEW port, Step(go, port)
  PROVE  Front'
<1>1. QueueInv
  BY DEF Step
<1>2. R!RingInv' /\ prog' = prog
  BY StepMoves
<1>3. QED
  BY <1>1, <1>2, OpsMove, InOrderStep, QueueFront DEF Front

-----------------------------------------------------------------------------
LEMMA SameCardinality ==
  ASSUME NEW T
  PROVE  SQ!Cardinality(T) = Cardinality(T) /\ LQ!Cardinality(T) = Cardinality(T)
  BY DEF SQ!Cardinality, LQ!Cardinality, Cardinality

(* The ways up to w that are enabled. *)
LEMMA UptoIs ==
  ASSUME NEW en
  PROVE  /\ SQ!Upto(en, 0) = IF en[0] THEN 1 ELSE 0
         /\ SQ!Upto(en, 1) = (IF en[0] THEN 1 ELSE 0) + (IF en[1] THEN 1 ELSE 0)
         /\ LQ!Upto(en, 0) = SQ!Upto(en, 0) /\ LQ!Upto(en, 1) = SQ!Upto(en, 1)
<1>1. {v \in {0, 1} : v <= 0 /\ en[v]} = IF en[0] THEN {0} ELSE {}
  OBVIOUS
<1>2. {v \in {0, 1} : v <= 1 /\ en[v]} = (IF en[0] THEN {0} ELSE {}) \cup (IF en[1] THEN {1} ELSE {})
  OBVIOUS
<1>3. Cardinality({}) = 0 /\ Cardinality({0}) = 1 /\ Cardinality({1}) = 1 /\ Cardinality({0} \cup {1}) = 2
  <2>1. IsFiniteSet({0}) /\ Cardinality({0}) = 1 /\ Cardinality({1}) = 1
    BY FS_Singleton
  <2>2. Cardinality({0} \cup {1}) = Cardinality({0}) + 1
    BY <2>1, FS_AddElement
  <2>3. QED
    BY <2>1, <2>2, FS_EmptySet
<1>4. SQ!Upto(en, 0) = IF en[0] THEN 1 ELSE 0
  BY <1>1, <1>3, SameCardinality DEF SQ!Upto, SQ!Ways
<1>5. SQ!Upto(en, 1) = Cardinality((IF en[0] THEN {0} ELSE {}) \cup (IF en[1] THEN {1} ELSE {}))
  BY <1>2, SameCardinality DEF SQ!Upto, SQ!Ways
<1>6. SQ!Upto(en, 1) = (IF en[0] THEN 1 ELSE 0) + (IF en[1] THEN 1 ELSE 0)
  <2>1. CASE en[0] /\ en[1]
    BY <1>3, <1>5, <2>1
  <2>2. CASE en[0] /\ ~en[1]
    <3>1. {0} \cup {} = {0}
      OBVIOUS
    <3>2. QED
      BY <1>3, <1>5, <2>2, <3>1
  <2>3. CASE ~en[0] /\ en[1]
    <3>1. {} \cup {1} = {1}
      OBVIOUS
    <3>2. QED
      BY <1>3, <1>5, <2>3, <3>1
  <2>4. CASE ~en[0] /\ ~en[1]
    BY <1>3, <1>5, <2>4
  <2>5. QED
    BY <2>1, <2>2, <2>3, <2>4
<1>7. QED
  BY <1>4, <1>6, SameCardinality DEF SQ!Upto, LQ!Upto, SQ!Ways, LQ!Ways

(* What enters the queues of a kind, and what leaves them. *)
LEMMA DispatchedCount ==
  ASSUME QueueInv, NEW go \in BOOLEAN, NEW kind
  PROVE  /\ \A w \in Ways : w < Entering(go) =>
              SQ!Upto(Dispatched(go, kind), w) = Count(prog, kind, fpc, fpc + w + 1)
         /\ SQ!Upto(Dispatched(go, kind), 1) = Count(prog, kind, fpc, fpc + Entering(go))
         /\ \A w \in Ways : Dispatched(go, kind)[w] <=> w < Entering(go) /\ prog[fpc + w].kind = kind
<1> DEFINE n == Entering(go)
<1>1. n \in 0 .. 2 /\ fpc \in Nat /\ Ways = {0, 1}
  BY DispatchCount, Typed, Sets
<1>2. \A w \in Ways : w < n <=> w \in Bundle(go) /\ ~stall
  BY DispatchCount
<1>3. \A w \in Ways : w < n => fpc + w \in Op
  BY DispatchCount
<1> HIDE DEF n
<1>4. \A w \in Ways : Dispatched(go, kind)[w] <=> w < n /\ prog[fpc + w].kind = kind
  <2>1. \A w \in Ways : Dispatched(go, kind)[w] = (w \in Bundle(go) /\ ~stall /\ prog[fpc + w].kind = kind)
    BY DEF Dispatched, stall
  <2>2. ASSUME NEW w \in Ways
        PROVE  Dispatched(go, kind)[w] <=> w < n /\ prog[fpc + w].kind = kind
    BY <1>2, <2>1, Zenon
  <2>3. QED
    BY <2>2
<1>5. PICK d \in [Ways -> BOOLEAN] : d = Dispatched(go, kind)
  BY DEF Dispatched
<1>6. d[0] <=> 0 < n /\ prog[fpc].kind = kind
  <2>1. d[0] <=> 0 < n /\ prog[fpc + 0].kind = kind
    BY <1>1, <1>4, <1>5
  <2>2. QED
    BY <1>1, <2>1
<1>7. d[1] <=> 1 < n /\ prog[fpc + 1].kind = kind
  BY <1>1, <1>4, <1>5
<1>8. /\ SQ!Upto(d, 0) = IF d[0] THEN 1 ELSE 0
      /\ SQ!Upto(d, 1) = (IF d[0] THEN 1 ELSE 0) + (IF d[1] THEN 1 ELSE 0)
  BY UptoIs
<1>9. Count(prog, kind, fpc, fpc) = 0
  BY <1>1, CountNone
<1>10. 0 < n => Count(prog, kind, fpc, fpc + 1) = IF prog[fpc].kind = kind THEN 1 ELSE 0
  <2>1. 0 < n => fpc \in Op
    BY <1>1, <1>3
  <2>2. QED
    BY <2>1, CountOne
<1>11. 1 < n => Count(prog, kind, fpc, fpc + 2)
                  = Count(prog, kind, fpc, fpc + 1) + IF prog[fpc + 1].kind = kind THEN 1 ELSE 0
  <2>1. 1 < n => fpc + 1 \in Op
    BY <1>1, <1>3
  <2>2. 1 < n => Count(prog, kind, fpc, fpc + 1 + 1)
                   = Count(prog, kind, fpc, fpc + 1) + IF prog[fpc + 1].kind = kind THEN 1 ELSE 0
    BY <1>1, <2>1, CountStep
  <2>3. fpc + 1 + 1 = fpc + 2
    BY <1>1
  <2>4. QED
    BY <2>2, <2>3
<1>12. SQ!Upto(d, 1) = Count(prog, kind, fpc, fpc + n)
  <2>1. CASE n = 0
    BY <1>1, <1>6, <1>7, <1>8, <1>9, <2>1
  <2>2. CASE n = 1
    BY <1>1, <1>6, <1>7, <1>8, <1>10, <2>2
  <2>3. CASE n = 2
    BY <1>1, <1>6, <1>7, <1>8, <1>10, <1>11, <2>3
  <2>4. QED
    BY <1>1, <2>1, <2>2, <2>3
<1>13. ASSUME NEW w \in Ways, w < n
       PROVE  SQ!Upto(d, w) = Count(prog, kind, fpc, fpc + w + 1)
  <2>1. CASE w = 0
    BY <1>1, <1>6, <1>8, <1>10, <1>13, <2>1
  <2>2. CASE w = 1
    <3>1. fpc + 1 + 1 = fpc + n /\ n = 2
      BY <1>1, <1>13, <2>2
    <3>2. QED
      BY <1>12, <2>2, <3>1
  <2>3. QED
    BY <1>1, <2>1, <2>2
<1>14. QED
  BY <1>4, <1>5, <1>12, <1>13 DEF n

LEMMA RetiringCount ==
  ASSUME QueueInv, NEW kind
  PROVE  /\ SQ!Upto(Retiring(kind), 1) = Count(prog, kind, arch, arch + Leaving)
         /\ Retiring(kind)[0] <=> Leaving >= 1 /\ prog[arch].kind = kind
         /\ Retiring(kind)[1] <=> Leaving = 2 /\ prog[arch + 1].kind = kind
         /\ Leaving \in 0 .. 2 /\ arch + Leaving <= fpc
<1>1. /\ head_retire_rdy => rob_head \in InFlight /\ rob_cnt >= 1 /\ first.ins = arch
      /\ head_p1_retire_rdy => /\ head_retire_rdy
                               /\ Rob!head_p1 \in InFlight /\ rob_cnt >= 2 /\ second.ins = arch + 1
  BY Heads
<1>2. /\ Leaving \in 0 .. 2
      /\ Leaving >= 1 <=> head_retire_rdy
      /\ Leaving = 2 <=> head_p1_retire_rdy
  BY <1>1 DEF Leaving
<1>3. arch \in Nat /\ rob_cnt \in Nat /\ fpc = arch + rob_cnt /\ fpc \in 0 .. NUM_OPS
  BY Typed, Sizes DEF QueueInv, InOrder
<1>4. PICK r \in [Ways -> BOOLEAN] : r = Retiring(kind)
  BY DEF Retiring
<1>5. r[0] <=> head_retire_rdy /\ prog[first.ins].kind = kind
  <2>1. r[0] = (head_retire_rdy /\ prog[first.ins].kind = kind)
    BY <1>4, Sets DEF Retiring
  <2>2. QED
    BY <2>1, Zenon
<1>6. r[1] <=> head_p1_retire_rdy /\ prog[second.ins].kind = kind
  <2>1. r[1] = (head_p1_retire_rdy /\ prog[second.ins].kind = kind)
    BY <1>4, Sets DEF Retiring
  <2>2. QED
    BY <2>1, Zenon
<1>7. r[0] <=> Leaving >= 1 /\ prog[arch].kind = kind
  BY <1>1, <1>2, <1>5
<1>8. r[1] <=> Leaving = 2 /\ prog[arch + 1].kind = kind
  BY <1>1, <1>2, <1>6
<1>9. SQ!Upto(r, 1) = (IF r[0] THEN 1 ELSE 0) + (IF r[1] THEN 1 ELSE 0)
  BY UptoIs
<1>10. arch + Leaving <= fpc
  BY <1>1, <1>2, <1>3
<1>11. SQ!Upto(r, 1) = Count(prog, kind, arch, arch + Leaving)
  <2>1. CASE Leaving = 0
    <3>1. Count(prog, kind, arch, arch) = 0
      BY <1>3, CountNone
    <3>2. QED
      BY <1>3, <1>7, <1>8, <1>9, <2>1, <3>1
  <2>2. CASE Leaving >= 1
    <3>1. arch \in Op
      BY <1>3, <1>10, <2>2, <1>2, Sizes DEF Op
    <3>2. Count(prog, kind, arch, arch + 1) = IF prog[arch].kind = kind THEN 1 ELSE 0
      BY <3>1, CountOne
    <3>3. CASE Leaving = 1
      BY <1>7, <1>8, <1>9, <3>2, <3>3
    <3>4. CASE Leaving = 2
      <4>1. arch + 1 \in Op /\ arch + 1 + 1 = arch + 2
        BY <1>3, <1>10, <3>4, Sizes DEF Op
      <4>2. Count(prog, kind, arch, arch + 1 + 1)
              = Count(prog, kind, arch, arch + 1) + IF prog[arch + 1].kind = kind THEN 1 ELSE 0
        BY <1>3, <4>1, CountStep
      <4>3. QED
        BY <1>7, <1>8, <1>9, <3>2, <3>4, <4>1, <4>2
    <3>5. QED
      BY <1>2, <2>2, <3>3, <3>4
  <2>3. QED
    BY <1>2, <2>1, <2>2
<1>12. QED
  BY <1>2, <1>4, <1>7, <1>8, <1>10, <1>11

-----------------------------------------------------------------------------
(* Their pointers stay exact, and they have room. *)

(* Two steps around a queue are one. *)
LEMMA WrapAdd ==
  ASSUME NEW x \in Nat, NEW y \in Nat, x + y < 3 * LSQ_SIZE
  PROVE  SQ!Wrap(SQ!Wrap(x) + y) = SQ!Wrap(x + y)
<1>0. LSQ_SIZE \in Nat /\ LSQ_SIZE >= 2
  BY Sizes
<1>1. CASE x < LSQ_SIZE
  BY <1>0, <1>1, SqWraps
<1>2. CASE LSQ_SIZE <= x /\ x < 2 * LSQ_SIZE
  <2>1. SQ!Wrap(x) = x - LSQ_SIZE
    BY <1>0, <1>2, SqWraps
  <2>2. x - LSQ_SIZE + y \in Nat /\ x - LSQ_SIZE + y < 2 * LSQ_SIZE /\ x + y \in Nat
    BY <1>0, <1>2
  <2>3. SQ!Wrap(x + y) = SQ!Wrap(x - LSQ_SIZE + y)
    <3>1. CASE x - LSQ_SIZE + y < LSQ_SIZE
      <4>1. SQ!Wrap(x - LSQ_SIZE + y) = x - LSQ_SIZE + y
        BY <2>2, <3>1, SqWraps
      <4>2. SQ!Wrap(x + y) = x + y - LSQ_SIZE
        BY <1>0, <1>2, <2>2, <3>1, SqWraps
      <4>3. QED
        BY <1>0, <4>1, <4>2
    <3>2. CASE LSQ_SIZE <= x - LSQ_SIZE + y
      <4>1. SQ!Wrap(x - LSQ_SIZE + y) = x - LSQ_SIZE + y - LSQ_SIZE
        BY <1>0, <2>2, <3>2, SqWraps
      <4>2. SQ!Wrap(x + y) = x + y - 2 * LSQ_SIZE
        BY <1>0, <1>2, <2>2, <3>2, SqWraps
      <4>3. QED
        BY <1>0, <4>1, <4>2
    <3>3. QED
      BY <1>0, <2>2, <3>1, <3>2
  <2>4. QED
    BY <2>1, <2>3
<1>3. CASE 2 * LSQ_SIZE <= x
  <2>1. SQ!Wrap(x) = x - 2 * LSQ_SIZE
    BY <1>0, <1>3, SqWraps
  <2>2. x - 2 * LSQ_SIZE + y \in Nat /\ x - 2 * LSQ_SIZE + y < LSQ_SIZE /\ x + y \in Nat
    BY <1>0, <1>3
  <2>3. SQ!Wrap(x - 2 * LSQ_SIZE + y) = x - 2 * LSQ_SIZE + y
    BY <2>2, SqWraps
  <2>4. SQ!Wrap(x + y) = x + y - 2 * LSQ_SIZE
    BY <1>0, <1>3, <2>2, SqWraps
  <2>5. QED
    BY <1>0, <2>1, <2>3, <2>4
<1>4. QED
  BY <1>0, <1>1, <1>2, <1>3

(* The place of operation k, from the place of b and from the one of a. *)
LEMMA PlaceMove ==
  ASSUME NEW p, NEW kind, NEW h \in SQ!Idx, NEW a \in Nat, NEW b \in Nat, NEW k \in Nat,
         a <= b, b <= k, Count(p, kind, a, k) < 2 * LSQ_SIZE
  PROVE  SQ!Wrap(SQ!Wrap(h + Count(p, kind, a, b)) + Count(p, kind, b, k))
           = SQ!Wrap(h + Count(p, kind, a, k))
<1>1. PICK c \in Nat, d \in Nat : c = Count(p, kind, a, b) /\ d = Count(p, kind, b, k)
  BY CountType
<1>2. Count(p, kind, a, k) = c + d
  BY <1>1, CountSplit
<1>3. h + c \in Nat /\ h + c + d < 3 * LSQ_SIZE
  BY <1>2, Sizes, Sets
<1>4. SQ!Wrap(SQ!Wrap(h + c) + d) = SQ!Wrap(h + c + d)
  BY <1>3, WrapAdd
<1>5. h + c + d = h + (c + d)
  BY Sets
<1>6. QED
  BY <1>1, <1>2, <1>4, <1>5

(* Different operations have different places, while there is room. *)
LEMMA PlaceApart ==
  ASSUME NEW p, NEW kind, NEW h \in SQ!Idx, NEW a \in Nat, NEW k \in Op, NEW l \in Nat,
         a <= k, k < l, p[k].kind = kind, Count(p, kind, a, l) < LSQ_SIZE
  PROVE  SQ!Wrap(h + Count(p, kind, a, k)) # SQ!Wrap(h + Count(p, kind, a, l))
<1>1. PICK c \in Nat, d \in Nat : c = Count(p, kind, a, k) /\ d = Count(p, kind, a, l)
  BY CountType DEF Op
<1>2. c < d /\ d < LSQ_SIZE
  BY <1>1, CountOrder
<1>3. h + c \in Int /\ h + d \in Int /\ h \in 0 .. LSQ_SIZE - 1 /\ LSQ_SIZE \in Nat
  BY Sizes, Sets
<1>4. SQ!Wrap(h + c) = IF h + c < LSQ_SIZE THEN h + c ELSE h + c - LSQ_SIZE
  BY <1>2, <1>3, SqWraps
<1>5. SQ!Wrap(h + d) = IF h + d < LSQ_SIZE THEN h + d ELSE h + d - LSQ_SIZE
  BY <1>2, <1>3, SqWraps
<1>6. QED
  BY <1>1, <1>2, <1>3, <1>4, <1>5

(* So it is in the state. *)
PlacesApart ==
  \A k \in Op : \A l \in arch .. fpc : arch <= k /\ k < l =>
    /\ prog[k].kind = "store" => SqOf(k) # SqOf(l)
    /\ prog[k].kind = "load" => LqOf(k) # LqOf(l)

RoomCounts ==
  \A k \in arch .. fpc : Count(prog, "store", arch, k) < LSQ_SIZE
                         /\ Count(prog, "load", arch, k) < LSQ_SIZE

LEMMA RoomIs == Front /\ QueueRoom => RoomCounts
<1>1. SUFFICES ASSUME Front, QueueRoom, NEW k \in arch .. fpc
               PROVE  /\ Count(prog, "store", arch, k) < LSQ_SIZE
                      /\ Count(prog, "load", arch, k) < LSQ_SIZE
  BY DEF RoomCounts
<1>2. arch \in Nat /\ fpc \in Nat /\ LSQ_SIZE \in Nat
  BY <1>1, Sizes DEF Front
<1>3. /\ Count(prog, "store", arch, fpc) < LSQ_SIZE
      /\ Count(prog, "load", arch, fpc) < LSQ_SIZE
  BY <1>1, FlyingCount DEF QueueRoom
<1>4. ASSUME NEW kind PROVE Count(prog, kind, arch, k) <= Count(prog, kind, arch, fpc)
  <2>1. Count(prog, kind, arch, k) \in Nat /\ Count(prog, kind, k, fpc) \in Nat
    BY <1>2, CountType
  <2>2. Count(prog, kind, arch, fpc) = Count(prog, kind, arch, k) + Count(prog, kind, k, fpc)
    BY <1>2, CountSplit
  <2>3. QED
    BY <2>1, <2>2
<1>5. \A kind : Count(prog, kind, arch, k) \in Nat /\ Count(prog, kind, arch, fpc) \in Nat
  BY <1>2, CountType
<1>6. QED
  BY <1>2, <1>3, <1>4, <1>5

LEMMA PlacesApartIs ==
  Front /\ QueueRoom /\ sq_head \in SQ!Idx /\ lq_head \in SQ!Idx => PlacesApart
<1>1. SUFFICES ASSUME Front, QueueRoom, sq_head \in SQ!Idx, lq_head \in SQ!Idx,
                      NEW k \in Op, NEW l \in arch .. fpc, arch <= k, k < l
               PROVE  /\ prog[k].kind = "store" => SqOf(k) # SqOf(l)
                      /\ prog[k].kind = "load" => LqOf(k) # LqOf(l)
  BY DEF PlacesApart
<1>2. arch \in Nat /\ fpc \in Nat /\ l \in Nat
  BY <1>1, Sizes DEF Front
<1>3. Count(prog, "store", arch, l) < LSQ_SIZE /\ Count(prog, "load", arch, l) < LSQ_SIZE
  BY <1>1, RoomIs DEF RoomCounts
<1>4. prog[k].kind = "store" => SqOf(k) # SqOf(l)
  BY <1>1, <1>2, <1>3, PlaceApart DEF SqOf
<1>5. prog[k].kind = "load" => LqOf(k) # LqOf(l)
  <2>1. SQ!Wrap(lq_head + Count(prog, "load", arch, k)) = LqOf(k)
        /\ SQ!Wrap(lq_head + Count(prog, "load", arch, l)) = LqOf(l)
    BY DEF LqOf, SQ!Wrap, LQ!Wrap
  <2>2. QED
    BY <1>1, <1>2, <1>3, <2>1, PlaceApart
<1>6. QED
  BY <1>4, <1>5

-----------------------------------------------------------------------------
(* Where the queues move. *)
LEMMA PointersMove ==
  ASSUME NEW go, NEW port, Step(go, port)
  PROVE  /\ sq_head' = SQ!Wrap(sq_head + Count(prog, "store", arch, arch'))
         /\ lq_head' = SQ!Wrap(lq_head + Count(prog, "load", arch, arch'))
         /\ sq_tail' = SQ!Wrap(sq_tail + Count(prog, "store", fpc, fpc'))
         /\ lq_tail' = SQ!Wrap(lq_tail + Count(prog, "load", fpc, fpc'))
         /\ sq' = [i \in SQ!Idx |-> SQ!NextEntry(Dispatched(go, "store"), FU_SQ_out, i)]
         /\ lq' = [i \in LQ!Idx |-> LQ!NextEntry(Dispatched(go, "load"), dp_rob_idx, FU_LQ_out, i)]
         /\ sq_head' \in SQ!Idx /\ lq_head' \in SQ!Idx /\ sq_tail' \in SQ!Idx /\ lq_tail' \in SQ!Idx
<1>1. QueueInv /\ go \in BOOLEAN /\ ~rollback /\ Clock(go, port)
  BY DEF Step
<1>2. /\ SQ!Clock(Dispatched(go, "store"), FU_SQ_out, Retiring("store"), rollback)
      /\ LQ!Clock(Dispatched(go, "load"), dp_rob_idx, FU_LQ_out, Retiring("load"), rollback)
  BY <1>1 DEF Clock
<1>3. arch' = arch + Leaving /\ fpc' = fpc + Entering(go)
  BY StepMoves
<1>4. /\ sq_head' = SQ!Wrap(sq_head + SQ!Upto(Retiring("store"), 1))
      /\ sq_tail' = SQ!Wrap(sq_tail + SQ!Upto(Dispatched(go, "store"), 1))
      /\ sq' = [i \in SQ!Idx |-> SQ!NextEntry(Dispatched(go, "store"), FU_SQ_out, i)]
  BY <1>1, <1>2 DEF SQ!Clock
<1>5. /\ lq_head' = LQ!Wrap(lq_head + LQ!Upto(Retiring("load"), 1))
      /\ lq_tail' = LQ!Wrap(lq_tail + LQ!Upto(Dispatched(go, "load"), 1))
      /\ lq' = [i \in LQ!Idx |-> LQ!NextEntry(Dispatched(go, "load"), dp_rob_idx, FU_LQ_out, i)]
  BY <1>1, <1>2 DEF LQ!Clock
<1>6. /\ lq_head' = SQ!Wrap(lq_head + SQ!Upto(Retiring("load"), 1))
      /\ lq_tail' = SQ!Wrap(lq_tail + SQ!Upto(Dispatched(go, "load"), 1))
  <2>1. \A x : SQ!Wrap(x) = LQ!Wrap(x)
    BY DEF SQ!Wrap, LQ!Wrap
  <2>2. QED
    BY <1>5, <2>1, UptoIs
<1>7. \A kind : SQ!Upto(Retiring(kind), 1) = Count(prog, kind, arch, arch')
  BY <1>1, <1>3, RetiringCount
<1>8. \A kind : SQ!Upto(Dispatched(go, kind), 1) = Count(prog, kind, fpc, fpc')
  BY <1>1, <1>3, DispatchedCount
<1>9. /\ sq_head \in Int /\ lq_head \in Int /\ sq_tail \in Int /\ lq_tail \in Int
      /\ arch \in Int /\ arch' \in Int /\ fpc \in Int /\ fpc' \in Int
  BY <1>1, Typed, OpsMove, Sets
<1>10. \A kind : Count(prog, kind, arch, arch') \in Nat /\ Count(prog, kind, fpc, fpc') \in Nat
  BY <1>9, CountType
<1>11. /\ sq_head' = SQ!Wrap(sq_head + Count(prog, "store", arch, arch'))
       /\ lq_head' = SQ!Wrap(lq_head + Count(prog, "load", arch, arch'))
       /\ sq_tail' = SQ!Wrap(sq_tail + Count(prog, "store", fpc, fpc'))
       /\ lq_tail' = SQ!Wrap(lq_tail + Count(prog, "load", fpc, fpc'))
  BY <1>4, <1>6, <1>7, <1>8
<1>12. sq_head' \in SQ!Idx /\ lq_head' \in SQ!Idx /\ sq_tail' \in SQ!Idx /\ lq_tail' \in SQ!Idx
  BY <1>9, <1>10, <1>11, SqWraps
<1>13. QED
  BY <1>4, <1>5, <1>11, <1>12

(* The places of the operations in flight stay; those that enter are behind them. *)
LEMMA PlacesKept ==
  ASSUME NEW go, NEW port, Step(go, port)
  PROVE  /\ Pointers'
         /\ RoomCounts /\ RoomCounts' /\ PlacesApart /\ PlacesApart'
         /\ \A k \in arch' .. fpc : SqOf(k)' = SqOf(k) /\ LqOf(k)' = LqOf(k)
         /\ \A k \in fpc .. fpc' : /\ SqOf(k)' = SQ!Wrap(sq_tail + Count(prog, "store", fpc, k))
                                   /\ LqOf(k)' = SQ!Wrap(lq_tail + Count(prog, "load", fpc, k))
         /\ \A k \in arch .. fpc : SqOf(k) \in SQ!Idx /\ LqOf(k) \in SQ!Idx
<1>1. QueueInv /\ go \in BOOLEAN /\ QueueRoom /\ QueueRoom' /\ Front /\ Front'
  BY FrontStep, QueueFront DEF Step
<1>2. /\ arch \in Nat /\ arch' \in Nat /\ fpc \in Nat /\ fpc' \in Nat
      /\ arch <= arch' /\ arch' <= fpc /\ fpc <= fpc' /\ prog' = prog
  <2>1. Entering(go) \in 0 .. 2
    BY <1>1, DispatchCount
  <2>2. QED
    BY <1>1, <2>1, Typed, OpsMove, StepMoves, Sizes
<1>3. /\ sq_head \in SQ!Idx /\ lq_head \in SQ!Idx /\ sq_tail \in SQ!Idx /\ lq_tail \in SQ!Idx
      /\ sq_head' \in SQ!Idx /\ lq_head' \in SQ!Idx
  BY <1>1, Typed, PointersMove
<1>4. RoomCounts /\ PlacesApart
  BY <1>1, <1>3, RoomIs, PlacesApartIs
<1>5. RoomCounts' /\ PlacesApart'
  <2>1. (Front /\ QueueRoom)' => RoomCounts'
    BY RoomIs, PTL
  <2>2. (Front /\ QueueRoom /\ sq_head \in SQ!Idx /\ lq_head \in SQ!Idx)' => PlacesApart'
    BY PlacesApartIs, PTL
  <2>3. SQ!Idx' = SQ!Idx
    BY Sets
  <2>4. QED
    BY <1>1, <1>3, <2>1, <2>2, <2>3
<1>6. /\ \A k \in arch .. fpc : /\ Count(prog, "store", arch, k) < LSQ_SIZE
                                /\ Count(prog, "load", arch, k) < LSQ_SIZE
      /\ \A k \in arch' .. fpc' : /\ Count(prog, "store", arch', k) < LSQ_SIZE
                                  /\ Count(prog, "load", arch', k) < LSQ_SIZE
  BY <1>2, <1>4, <1>5 DEF RoomCounts
<1>7. \A k \in arch .. fpc : SqOf(k) \in SQ!Idx /\ LqOf(k) \in SQ!Idx
  <2>1. ASSUME NEW k \in arch .. fpc PROVE SqOf(k) \in SQ!Idx /\ LqOf(k) \in SQ!Idx
    <3>1. Count(prog, "store", arch, k) \in Nat /\ Count(prog, "load", arch, k) \in Nat
      BY <1>2, CountType
    <3>2. sq_head + Count(prog, "store", arch, k) \in Int /\ lq_head + Count(prog, "load", arch, k) \in Int
      BY <1>3, <3>1, Sets
    <3>3. QED
      BY <3>2, SqWraps, Sets DEF SqOf, LqOf
  <2>2. QED
    BY <2>1
<1>8. \A k : /\ SqOf(k) = SQ!Wrap(sq_head + Count(prog, "store", arch, k))
             /\ LqOf(k) = SQ!Wrap(lq_head + Count(prog, "load", arch, k))
             /\ SqOf(k)' = SQ!Wrap(sq_head' + Count(prog, "store", arch', k))
             /\ LqOf(k)' = SQ!Wrap(lq_head' + Count(prog, "load", arch', k))
  BY <1>2 DEF SqOf, LqOf, SQ!Wrap, LQ!Wrap
<1>9. ASSUME NEW k \in arch' .. fpc PROVE SqOf(k)' = SqOf(k) /\ LqOf(k)' = LqOf(k)
  <2>1. /\ k \in Nat /\ arch' <= k
        /\ Count(prog, "store", arch, k) < 2 * LSQ_SIZE /\ Count(prog, "load", arch, k) < 2 * LSQ_SIZE
    <3>1. k \in arch .. fpc /\ k \in Nat /\ arch' <= k
      BY <1>2
    <3>2. Count(prog, "store", arch, k) \in Nat /\ Count(prog, "load", arch, k) \in Nat
      BY <1>2, <3>1, CountType
    <3>3. QED
      BY <1>6, <3>1, <3>2, Sizes
  <2>2. QED
    BY <1>2, <1>3, <1>8, <2>1, PointersMove, PlaceMove
<1>10. ASSUME NEW k \in fpc .. fpc'
       PROVE  /\ SqOf(k)' = SQ!Wrap(sq_tail + Count(prog, "store", fpc, k))
              /\ LqOf(k)' = SQ!Wrap(lq_tail + Count(prog, "load", fpc, k))
  <2>1. k \in Nat /\ arch' <= k /\ fpc <= k /\ arch' \in arch .. fpc /\ k \in arch' .. fpc'
    BY <1>2
  <2>2. ASSUME NEW kind \in {"store", "load"} PROVE Count(prog, kind, arch, k) < 2 * LSQ_SIZE
    <3>1. Count(prog, kind, arch, k) = Count(prog, kind, arch, arch') + Count(prog, kind, arch', k)
      BY <1>2, <2>1, CountSplit
    <3>2. Count(prog, kind, arch, arch') \in Nat /\ Count(prog, kind, arch', k) \in Nat
      BY <1>2, <2>1, CountType
    <3>3. Count(prog, kind, arch, arch') < LSQ_SIZE /\ Count(prog, kind, arch', k) < LSQ_SIZE
      BY <1>6, <2>1, <2>2
    <3>4. QED
      BY <3>1, <3>2, <3>3, Sizes
  <2>3. sq_tail = SqOf(fpc) /\ lq_tail = LqOf(fpc)
    BY <1>1 DEF QueueInv, Pointers
  <2>4. /\ SQ!Wrap(sq_tail + Count(prog, "store", fpc, k)) = SQ!Wrap(sq_head + Count(prog, "store", arch, k))
        /\ SQ!Wrap(lq_tail + Count(prog, "load", fpc, k)) = SQ!Wrap(lq_head + Count(prog, "load", arch, k))
    BY <1>2, <1>3, <1>8, <2>1, <2>2, <2>3, PlaceMove
  <2>5. /\ SQ!Wrap(sq_head' + Count(prog, "store", arch', k)) = SQ!Wrap(sq_head + Count(prog, "store", arch, k))
        /\ SQ!Wrap(lq_head' + Count(prog, "load", arch', k)) = SQ!Wrap(lq_head + Count(prog, "load", arch, k))
    BY <1>2, <1>3, <2>1, <2>2, PointersMove, PlaceMove
  <2>6. QED
    BY <1>8, <2>4, <2>5
<1>11. Pointers'
  <2>1. fpc' \in fpc .. fpc'
    BY <1>2
  <2>2. (SqOf(fpc))' = SQ!Wrap(sq_tail + Count(prog, "store", fpc, fpc'))
        /\ (LqOf(fpc))' = SQ!Wrap(lq_tail + Count(prog, "load", fpc, fpc'))
    <3>1. PICK k \in fpc .. fpc' : k = fpc'
      BY <2>1
    <3>2. (SqOf(fpc))' = SqOf(k)' /\ (LqOf(fpc))' = LqOf(k)'
      BY <3>1 DEF SqOf, LqOf
    <3>3. QED
      BY <1>10, <3>1, <3>2
  <2>3. QED
    BY <2>2, PointersMove DEF Pointers
<1>12. QED
  BY <1>4, <1>5, <1>7, <1>9, <1>10, <1>11

-----------------------------------------------------------------------------
(* The load buffer: what is in it and what leaves it. *)

(* The answered load, and what it is. *)
LEMMA HeadIs ==
  ASSUME QueueInv, LB!dout.valid
  PROVE  LET i == LB!dout.load.rob_idx
         IN  /\ lb_head \in InBuffer /\ i \in Flying("load") /\ i \in InFlight /\ i \in Slot
             /\ KindOf(i) = "load"
             /\ LB!dout.load.addr = AddrOf(i) /\ In(Buffered(lb_head), i)
<1>1. lb_head \in LB!Idx /\ lb[lb_head].valid
  BY Typed DEF LB!dout
<1>2. /\ lb_head \in InBuffer
      /\ lb[lb_head].load.rob_idx \in Flying("load")
      /\ lb[lb_head].load.addr = AddrOf(lb[lb_head].load.rob_idx)
  BY <1>1 DEF QueueInv, BufferExact
<1>3. In(Buffered(lb_head), lb[lb_head].load.rob_idx)
  BY <1>2 DEF In
<1>4. QED
  BY <1>2, <1>3 DEF LB!dout, Flying, InFlight

(* Who is at a port is nowhere else. *)
LEMMA PortAlone ==
  ASSUME QueueInv, NEW w \in Ways, is_ex[w].valid
  PROVE  LET i == is_ex[w].rob_idx
         IN  /\ i \in InFlight /\ i \in Slot /\ In(AtPort(w), i)
             /\ \A p : In(p, i) => p = AtPort(w)
<1>1. is_ex[w].rob_idx \in InFlight
  BY PortIs
<1>2. In(AtPort(w), is_ex[w].rob_idx)
  BY DEF In
<1>3. QED
  BY <1>1, <1>2 DEF QueueInv, Placed, InFlight

(* The tags of the places differ. *)
LEMMA TagsApart ==
  /\ \A e, w : InStation(e) # AtPort(w) /\ InStation(e) # Buffered(w) /\ InStation(e) # OnBus(w)
               /\ InStation(e) # Done
  /\ \A e, w : AtPort(e) # Buffered(w) /\ AtPort(e) # OnBus(w) /\ AtPort(e) # Done
  /\ \A e, w : Buffered(e) # OnBus(w) /\ Buffered(e) # Done /\ OnBus(e) # Done
  /\ \A e, w : InStation(e) = InStation(w) => e = w
  /\ \A e, w : AtPort(e) = AtPort(w) => e = w
  /\ \A e, w : Buffered(e) = Buffered(w) => e = w
  /\ \A e, w : OnBus(e) = OnBus(w) => e = w
  BY DEF InStation, AtPort, Buffered, OnBus, Done

(* What a place says of who is in it. *)
LEMMA InMeans ==
  /\ \A e, i : In(InStation(e), i) <=> e \in rs /\ e.rob_idx = i
  /\ \A w, i : In(AtPort(w), i) <=> w \in Ways /\ is_ex[w].valid /\ is_ex[w].rob_idx = i
  /\ \A j, i : In(Buffered(j), i) <=> j \in InBuffer /\ lb[j].load.rob_idx = i
  /\ \A w, i : In(OnBus(w), i) <=> w \in Ways /\ ex_cm[w].valid /\ ex_cm[w].rob_idx = i
  /\ \A i : In(Done, i) <=> i \in Slot /\ retire_tag[i]
  BY DEF In, InStation, AtPort, Buffered, OnBus, Done

(* The value that a search finds is one. *)
LEMMA HitTyped ==
  ASSUME QueueInv, NEW w \in Ways, hit(w)
  PROVE  value(w) \in Value
<1>1. is_ex[w].SQ_idx \in Int
  BY PortIs
<1>2. CASE SQ!st_hit(is_ex[w])
  <2>1. SQ!Older(is_ex[w]) \subseteq 0 .. LSQ_SIZE /\ LSQ_SIZE \in Nat /\ SQ!Older(is_ex[w]) # {}
    BY <1>2, Sets, Sizes DEF SQ!Older, SQ!st_hit
  <2>2. \E j \in SQ!Older(is_ex[w]) : \A k \in SQ!Older(is_ex[w]) : k <= j
    BY <2>1, HighestIn
  <2>3. SQ!Nearest(is_ex[w]) \in SQ!Older(is_ex[w])
    <3>1. \E j \in SQ!Older(is_ex[w]) : \A k \in SQ!Older(is_ex[w]) : j >= k
      BY <2>1, <2>2
    <3>2. QED
      BY <3>1 DEF SQ!Nearest
  <2>4. is_ex[w].SQ_idx + SQ!Nearest(is_ex[w]) \in Int
    BY <1>1, <2>1, <2>3
  <2>5. SQ!Wrap(is_ex[w].SQ_idx + SQ!Nearest(is_ex[w])) \in SQ!Idx
    BY <2>4, SqWraps
  <2>6. SQ!st_value(is_ex[w]) \in Value
    BY <2>5, Typed DEF SQ!st_value, SQ!Entry
  <2>7. QED
    BY <1>2, <2>6 DEF value
<1>3. CASE ~SQ!st_hit(is_ex[w])
  <2>1. RTB!Found(is_ex[w].addr) # {}
    BY <1>3 DEF hit, RTB!load_value_valid
  <2>2. RTB!Found(is_ex[w].addr) \subseteq 1 .. Len(rtb) /\ Len(rtb) \in Nat
    BY Typed DEF RTB!Found
  <2>3. \E j \in RTB!Found(is_ex[w].addr) : \A k \in RTB!Found(is_ex[w].addr) : j <= k
    BY <2>1, <2>2, LowestIn
  <2>4. RTB!load_value_o(is_ex[w].addr) \in Value
    <3>1. PICK n \in 1 .. Len(rtb) :
            n = CHOOSE j \in RTB!Found(is_ex[w].addr) : \A k \in RTB!Found(is_ex[w].addr) : j <= k
      BY <2>2, <2>3
    <3>2. rtb[n] \in SQ!Entry
      BY Typed
    <3>3. QED
      BY <3>1, <3>2 DEF RTB!load_value_o, SQ!Entry
  <2>5. QED
    BY <1>3, <2>4 DEF value
<1>4. QED
  BY <1>2, <1>3

-----------------------------------------------------------------------------
(* What the ports do in a cycle. *)
Ends(w) == is_ex[w].valid /\ ~is_stall(w) /\ ~wr_en[w]

LEMMA PortsMove ==
  ASSUME QueueInv, Unbroken, BufferRoom
  PROVE  /\ ~LB!full /\ ~is_stall(1)
         /\ is_stall(0) <=> rd_en /\ is_ex[0].valid
         /\ \A w \in Ways : LOAD_ready(w) => ~is_stall(w) /\ is_ex[w].valid
         /\ \A w \in Ways : wr_en[w] <=> LOAD_ready(w) /\ ~hit(w)
         /\ rd_en => LB!dout.valid
         /\ \A w \in Ways :
              /\ ex_packet[w] \in Result
              /\ ex_packet[w].valid <=> (w = 0 /\ rd_en) \/ Ends(w)
              /\ w = 0 /\ rd_en => /\ ~Ends(w) /\ ~wr_en[w]
                                   /\ ex_packet[w].rob_idx = LB!dout.load.rob_idx
                                   /\ ex_packet[w].value = LB!dout.value
              /\ Ends(w) => /\ ex_packet[w].rob_idx = is_ex[w].rob_idx
                            /\ LOAD_ready(w) => hit(w) /\ ex_packet[w].value = value(w)
<1>1. ~LB!full
  BY Typed DEF BufferRoom, LB!full
<1>2. ASSUME NEW w \in Ways
      PROVE  LOAD_ready(w) => is_ex[w].valid
  <2>1. Idle.kind # "load"
    BY DEF Idle
  <2>2. QED
    BY <2>1, PortIs DEF LOAD_ready
<1>3. rd_en => LB!dout.valid
  BY DEF rd_en
<1>4. rd_en => ~LOAD_ready(0)
  BY DEF Unbroken, HeldLoad, rd_en
<1>5. rd_en => ~hit(0)
  BY DEF rd_en
<1>6. rd_en /\ is_ex[0].valid => is_ex[0].rob_idx # LB!dout.load.rob_idx
  <2>1. SUFFICES ASSUME rd_en, is_ex[0].valid, is_ex[0].rob_idx = LB!dout.load.rob_idx PROVE FALSE
    OBVIOUS
  <2>2. In(Buffered(lb_head), LB!dout.load.rob_idx)
    BY <1>3, <2>1, HeadIs
  <2>3. Buffered(lb_head) = AtPort(0)
    BY <2>1, <2>2, PortAlone, Sets
  <2>4. QED
    BY <2>3, TagsApart
<1>7. 0 \in Ways /\ 1 \in Ways
  BY Sets
<1>8. LQ_FU_out[0] = IF hit(0) THEN IF LOAD_ready(0) THEN [valid |-> TRUE, rob_idx |-> is_ex[0].rob_idx, value |-> value(0)]
                                   ELSE NoResult
                     ELSE IF rd_en THEN [valid |-> TRUE, rob_idx |-> LB!dout.load.rob_idx, value |-> LB!dout.value]
                     ELSE NoResult
  BY <1>7 DEF LQ_FU_out
<1>9. LQ_FU_out[1] = IF hit(1) /\ LOAD_ready(1)
                     THEN [valid |-> TRUE, rob_idx |-> is_ex[1].rob_idx, value |-> value(1)] ELSE NoResult
  BY <1>7 DEF LQ_FU_out
<1>10. ex_stall(0) <=> rd_en /\ is_ex[0].valid
  <2>1. CASE hit(0)
    <3>1. LQ_FU_out[0].valid => LQ_FU_out[0].rob_idx = is_ex[0].rob_idx
      BY <1>8, <2>1 DEF NoResult
    <3>2. QED
      BY <1>5, <2>1, <3>1 DEF ex_stall
  <2>2. CASE ~hit(0) /\ rd_en
    BY <1>6, <1>8, <2>2 DEF ex_stall
  <2>3. CASE ~hit(0) /\ ~rd_en
    BY <1>8, <2>3 DEF ex_stall, NoResult
  <2>4. QED
    BY <2>1, <2>2, <2>3
<1>11. is_stall(0) <=> rd_en /\ is_ex[0].valid
  BY <1>1, <1>10 DEF is_stall
<1>12. ~is_stall(1)
  BY <1>1 DEF is_stall, ex_stall
<1>13. \A w \in Ways : LOAD_ready(w) => ~is_stall(w)
  BY <1>4, <1>11, <1>12, Sets
<1>14. ASSUME NEW w \in Ways
       PROVE  wr_en[w] <=> LOAD_ready(w) /\ ~hit(w)
  <2>1. wr_en[w] = (LOAD_ready(w) /\ ~hit(w) /\ ~LB!full)
    BY DEF wr_en
  <2>2. QED
    BY <1>1, <2>1, Zenon
<1>15. ASSUME NEW w \in Ways
       PROVE  /\ ex_packet[w] \in Result
              /\ ex_packet[w].valid <=> (w = 0 /\ rd_en) \/ Ends(w)
              /\ w = 0 /\ rd_en => /\ ~Ends(w) /\ ~wr_en[w]
                                   /\ ex_packet[w].rob_idx = LB!dout.load.rob_idx
                                   /\ ex_packet[w].value = LB!dout.value
              /\ Ends(w) => /\ ex_packet[w].rob_idx = is_ex[w].rob_idx
                            /\ LOAD_ready(w) => hit(w) /\ ex_packet[w].value = value(w)
  <2>1. ex_packet[w] = IF LQ_FU_out[w].valid THEN LQ_FU_out[w]
                       ELSE IF is_ex[w].kind \in {"alu", "jump", "store"}
                       THEN [valid |-> TRUE, rob_idx |-> is_ex[w].rob_idx, value |-> 0] ELSE NoResult
    BY DEF ex_packet
  <2>2. is_ex[w].rob_idx \in Slot /\ 0 \in Value /\ 0 \in Slot
    BY PortIs, Sets, Sizes DEF Value
  <2>3. is_ex[w].valid <=> is_ex[w].kind \in Kind
    <3>1. is_ex[w].kind \in Kind \/ ~is_ex[w].valid
      <4>1. \A i \in InFlight : KindOf(i) \in Kind
        BY FlightIs DEF InFlight
      <4>2. QED
        BY <4>1, PortIs
    <3>2. QED
      BY <3>1, PortIs
  <2>4. is_ex[w].valid <=> LOAD_ready(w) \/ is_ex[w].kind \in {"alu", "jump", "store"}
    BY <2>3 DEF Kind, LOAD_ready
  <2>5. LOAD_ready(w) => is_ex[w].kind \notin {"alu", "jump", "store"}
    BY DEF LOAD_ready
  <2>6. CASE w = 0 /\ rd_en
    <3>1. LQ_FU_out[w] = [valid |-> TRUE, rob_idx |-> LB!dout.load.rob_idx, value |-> LB!dout.value]
      BY <1>5, <1>8, <2>6
    <3>2. LB!dout.load.rob_idx \in Slot /\ LB!dout.value \in Value
      BY Typed DEF LB!dout
    <3>3. ~Ends(w) /\ ~wr_en[w]
      BY <1>4, <1>11, <1>14, <2>6 DEF Ends
    <3>4. QED
      BY <2>1, <2>6, <3>1, <3>2, <3>3 DEF Result
  <2>7. CASE ~(w = 0 /\ rd_en) /\ LOAD_ready(w) /\ hit(w)
    <3>1. LQ_FU_out[w] = [valid |-> TRUE, rob_idx |-> is_ex[w].rob_idx, value |-> value(w)]
      BY <1>8, <1>9, <2>7, Sets
    <3>2. value(w) \in Value
      BY <2>7, HitTyped
    <3>3. Ends(w)
      BY <1>2, <1>13, <1>14, <2>7 DEF Ends
    <3>4. QED
      BY <2>1, <2>2, <2>7, <3>1, <3>2, <3>3 DEF Result
  <2>8. CASE ~(w = 0 /\ rd_en) /\ ~(LOAD_ready(w) /\ hit(w))
    <3>1. LQ_FU_out[w] = NoResult
      BY <1>8, <1>9, <2>8, Sets
    <3>2. ~LQ_FU_out[w].valid
      BY <3>1 DEF NoResult
    <3>3. Ends(w) <=> is_ex[w].kind \in {"alu", "jump", "store"}
      BY <1>11, <1>12, <1>14, <2>4, <2>5, <2>8, Sets DEF Ends
    <3>4. CASE is_ex[w].kind \in {"alu", "jump", "store"}
      BY <2>1, <2>2, <2>5, <2>8, <3>2, <3>3, <3>4 DEF Result
    <3>5. CASE is_ex[w].kind \notin {"alu", "jump", "store"}
      BY <2>1, <2>2, <2>8, <3>2, <3>3, <3>5 DEF Result, NoResult
    <3>6. QED
      BY <3>4, <3>5
  <2>9. QED
    BY <2>6, <2>7, <2>8
<1>16. QED
  BY <1>1, <1>2, <1>3, <1>11, <1>12, <1>13, <1>14, <1>15

-----------------------------------------------------------------------------
(* What is written into the load buffer, and where. *)

(* Where the load of way w is put in the load buffer. *)
Into(w) == IF w = 1 /\ wr_en[0] THEN LB!Wrap(lb_tail + 1) ELSE lb_tail
(* The place of the load that leaves. *)
Popped(j) == rd_en /\ j = lb_head
answered  == LB!rd_cache /\ ~RTB!wr_en

(* What an edge does to one place. *)
LEMMA PlaceMoves ==
  ASSUME NEW go, NEW port, Step(go, port), NEW j \in LB!Idx
  PROVE  /\ (\A w \in Ways : wr_en[w] => j # Into(w)) /\ ~Popped(j) =>
              /\ lb'[j].load = lb[j].load
              /\ lb'[j].occupied = lb[j].occupied
              /\ lb'[j].valid <=> lb[j].valid \/ (answered /\ j = lb_head)
              /\ lb'[j].value = IF answered /\ j = lb_head THEN unified_memory[LB!dout.load.addr]
                                ELSE lb[j].value
         /\ (\A w \in Ways : wr_en[w] => j # Into(w)) /\ Popped(j) => ~lb'[j].valid
         /\ \A w \in Ways : wr_en[w] /\ j = Into(w) /\ (w = 0 => ~wr_en[1] \/ j # Into(1)) =>
              /\ lb'[j].load = din[w] /\ lb'[j].occupied
              /\ lb'[j].valid => lb[j].valid \/ (answered /\ j = lb_head)
         /\ lb'[j] \in [occupied : BOOLEAN, valid : BOOLEAN, value : Value,
                        load : [rob_idx : Slot, addr : Addr]]
<1>1. QueueInv /\ ~rollback /\ Clock(go, port) /\ lb_tail \in LB!Idx /\ lb_head \in LB!Idx
  BY Typed DEF Step
<1>2. lb' = [i \in LB!Idx |-> LB!NextPlace(wr_en, din, rd_en, LB!rd_cache /\ ~RTB!wr_en,
                                          unified_memory[LB!dout.load.addr], i)]
  BY <1>1 DEF Clock, Memory, LB!Clock
<1>3. PICK a \in BOOLEAN, r \in BOOLEAN, c0 \in BOOLEAN, c1 \in BOOLEAN :
        /\ a = (LB!rd_cache /\ ~RTB!wr_en) /\ r = rd_en
        /\ c0 = wr_en[0] /\ c1 = wr_en[1]
  <2>1. rd_en \in BOOLEAN /\ wr_en[0] \in BOOLEAN /\ wr_en[1] \in BOOLEAN
    BY Sets DEF rd_en, wr_en
  <2>2. (LB!rd_cache /\ ~RTB!wr_en) \in BOOLEAN
    OBVIOUS
  <2>3. QED
    BY <2>1, <2>2, Zenon
<1>4. (a <=> answered) /\ (r <=> rd_en) /\ (c0 <=> wr_en[0]) /\ (c1 <=> wr_en[1])
  <2>1. (a <=> LB!rd_cache /\ ~RTB!wr_en) /\ (r <=> rd_en) /\ (c0 <=> wr_en[0]) /\ (c1 <=> wr_en[1])
    BY <1>3, Zenon
  <2>2. QED
    BY <2>1 DEF answered
<1>5. PICK m : m = unified_memory[LB!dout.load.addr]
  OBVIOUS
<1>6. lb'[j] = LB!NextPlace(wr_en, din, r, a, m, j)
  BY <1>2, <1>3, <1>5
<1>7. lb[j] \in [occupied : BOOLEAN, valid : BOOLEAN, value : Value, load : [rob_idx : Slot, addr : Addr]]
  BY <1>1, Typed
<1>8. m \in Value /\ 0 \in Value /\ NoLoad \in [rob_idx : Slot, addr : Addr]
  <2>1. LB!dout.load.addr \in Addr
    BY <1>1, Typed DEF LB!dout
  <2>2. m \in Value
    BY <1>1, <1>5, <2>1, Typed
  <2>3. QED
    BY <2>2, Sets, Sizes DEF NoLoad, Value
<1>9. \A w \in Ways : din[w] \in [rob_idx : Slot, addr : Addr]
  <2>1. ASSUME NEW w \in Ways PROVE din[w] \in [rob_idx : Slot, addr : Addr]
    <3>1. din[w] = [rob_idx |-> is_ex[w].rob_idx, addr |-> is_ex[w].addr]
      BY DEF din
    <3>2. QED
      BY <1>1, <3>1, PortIs
  <2>2. QED
    BY <2>1
<1>10. a /\ j = lb_head => lb[j].occupied
  BY <1>4 DEF answered, LB!rd_cache
<1>11. 0 \in Ways /\ 1 \in Ways /\ Ways = {0, 1}
  BY Sets
<1>12. PICK e : /\ e = IF ~(r /\ j = lb_head) THEN lb[j]
                       ELSE [occupied |-> (~c0 /\ ~c1) /\ lb[j].occupied, valid |-> FALSE,
                             load |-> IF (~c0 /\ ~c1) /\ j = lb_tail THEN lb[j].load ELSE NoLoad, value |-> 0]
  OBVIOUS
<1>13. /\ e \in [occupied : BOOLEAN, valid : BOOLEAN, value : Value, load : [rob_idx : Slot, addr : Addr]]
       /\ ~Popped(j) => e = lb[j]
       /\ Popped(j) => ~e.valid
  <2>1. CASE r /\ j = lb_head
    <3>1. PICK b \in BOOLEAN : b = ((~c0 /\ ~c1) /\ lb[j].occupied)
      OBVIOUS
    <3>2. e = [occupied |-> b, valid |-> FALSE,
               load |-> IF (~c0 /\ ~c1) /\ j = lb_tail THEN lb[j].load ELSE NoLoad, value |-> 0]
      BY <1>12, <2>1, <3>1
    <3>3. (IF (~c0 /\ ~c1) /\ j = lb_tail THEN lb[j].load ELSE NoLoad) \in [rob_idx : Slot, addr : Addr]
      BY <1>7, <1>8
    <3>4. QED
      BY <1>4, <1>8, <2>1, <3>2, <3>3 DEF Popped
  <2>2. CASE ~(r /\ j = lb_head)
    BY <1>4, <1>7, <1>12, <2>2 DEF Popped
  <2>3. QED
    BY <2>1, <2>2
<1>14. PICK s : /\ s = LB!Incoming(wr_en, din, j)
  OBVIOUS
<1>15. s = IF c0 /\ c1 THEN IF j = lb_tail THEN <<din[0]>> ELSE IF j = LB!Wrap(lb_tail + 1) THEN <<din[1]>> ELSE <<>>
           ELSE IF c0 /\ j = lb_tail THEN <<din[0]>>
           ELSE IF c1 /\ j = lb_tail THEN <<din[1]>> ELSE <<>>
  BY <1>3, <1>14 DEF LB!Incoming
<1>16. PICK st : st = IF s = <<>> THEN e ELSE [e EXCEPT !.occupied = TRUE, !.load = s[1]]
  OBVIOUS
<1>17. lb'[j] = IF a /\ j = lb_head /\ lb[j].occupied THEN [st EXCEPT !.valid = TRUE, !.value = m] ELSE st
  BY <1>3, <1>6, <1>12, <1>14, <1>16 DEF LB!NextPlace
<1>18. st \in [occupied : BOOLEAN, valid : BOOLEAN, value : Value, load : [rob_idx : Slot, addr : Addr]]
       /\ st.valid = e.valid /\ st.value = e.value
  <2>1. s = <<>> \/ s = <<din[0]>> \/ s = <<din[1]>>
    BY <1>15
  <2>2. CASE s = <<>>
    BY <1>13, <1>16, <2>2
  <2>3. CASE s # <<>>
    <3>1. s[1] \in [rob_idx : Slot, addr : Addr]
      BY <1>9, <1>11, <2>1, <2>3
    <3>2. st = [e EXCEPT !.occupied = TRUE, !.load = s[1]]
      BY <1>16, <2>3
    <3>3. QED
      BY <1>13, <3>1, <3>2
  <2>4. QED
    BY <2>2, <2>3
<1>19. /\ lb'[j] \in [occupied : BOOLEAN, valid : BOOLEAN, value : Value, load : [rob_idx : Slot, addr : Addr]]
       /\ lb'[j].load = st.load /\ lb'[j].occupied = st.occupied
       /\ lb'[j].valid <=> e.valid \/ (answered /\ j = lb_head)
       /\ lb'[j].value = IF answered /\ j = lb_head THEN m ELSE e.value
  <2>1. CASE a /\ j = lb_head
    <3>1. lb'[j] = [st EXCEPT !.valid = TRUE, !.value = m]
      BY <1>10, <1>17, <2>1
    <3>2. lb'[j].valid = TRUE
      BY <1>18, <3>1
    <3>3. QED
      BY <1>4, <1>8, <1>18, <2>1, <3>1, <3>2
  <2>2. CASE ~(a /\ j = lb_head)
    BY <1>4, <1>13, <1>17, <1>18, <2>2
  <2>3. QED
    BY <2>1, <2>2
<1>20. ASSUME \A w \in Ways : wr_en[w] => j # Into(w)
       PROVE  s = <<>>
  BY <1>4, <1>11, <1>15, <1>20 DEF Into
<1>21. ASSUME NEW w \in Ways, wr_en[w], j = Into(w), w = 0 => ~wr_en[1] \/ j # Into(1)
       PROVE  s = <<din[w]>>
  <2>1. CASE w = 0
    BY <1>4, <1>11, <1>15, <1>21, <2>1 DEF Into
  <2>2. CASE w = 1
    <3>1. CASE c0
      <4>1. j = LB!Wrap(lb_tail + 1) /\ c1
        BY <1>4, <1>21, <2>2, <3>1 DEF Into
      <4>2. j # lb_tail
        <5>1. lb_tail \in 0 .. LOAD_BUFFER_NUM - 1 /\ LOAD_BUFFER_NUM \in Nat /\ LOAD_BUFFER_NUM >= 2
          BY <1>1, Sizes, Sets
        <5>2. LB!Wrap(lb_tail + 1) = IF lb_tail + 1 < LOAD_BUFFER_NUM THEN lb_tail + 1 ELSE 0
          BY <5>1, LbWraps
        <5>3. QED
          BY <4>1, <5>1, <5>2
      <4>3. QED
        BY <1>15, <2>2, <3>1, <4>1, <4>2
    <3>2. CASE ~c0
      BY <1>4, <1>15, <1>21, <2>2, <3>2 DEF Into
    <3>3. QED
      BY <3>1, <3>2
  <2>3. QED
    BY <1>11, <2>1, <2>2
<1>22. s = <<>> => st = e
  BY <1>16
<1>23. ASSUME NEW w \in Ways, s = <<din[w]>> PROVE st.load = din[w] /\ st.occupied
  <2>1. s # <<>> /\ s[1] = din[w]
    BY <1>23
  <2>2. st = [e EXCEPT !.occupied = TRUE, !.load = din[w]]
    BY <1>16, <2>1
  <2>3. QED
    BY <1>13, <2>2
<1>24. e.valid => lb[j].valid
  BY <1>13
<1>25. Popped(j) => ~answered
  BY DEF Popped, answered, rd_en, LB!rd_cache, LB!dout
<1>26. (\A w \in Ways : wr_en[w] => j # Into(w)) /\ ~Popped(j) =>
         /\ lb'[j].load = lb[j].load
         /\ lb'[j].occupied = lb[j].occupied
         /\ lb'[j].valid <=> lb[j].valid \/ (answered /\ j = lb_head)
         /\ lb'[j].value = IF answered /\ j = lb_head THEN unified_memory[LB!dout.load.addr]
                           ELSE lb[j].value
  <2>1. SUFFICES ASSUME \A w \in Ways : wr_en[w] => j # Into(w), ~Popped(j)
                 PROVE  /\ lb'[j].load = lb[j].load
                        /\ lb'[j].occupied = lb[j].occupied
                        /\ lb'[j].valid <=> lb[j].valid \/ (answered /\ j = lb_head)
                        /\ lb'[j].value = IF answered /\ j = lb_head
                                          THEN unified_memory[LB!dout.load.addr] ELSE lb[j].value
    OBVIOUS
  <2>2. st = lb[j] /\ e = lb[j]
    BY <1>13, <1>20, <1>22, <2>1
  <2>3. QED
    BY <1>5, <1>19, <2>2
<1>27. (\A w \in Ways : wr_en[w] => j # Into(w)) /\ Popped(j) => ~lb'[j].valid
  BY <1>13, <1>19, <1>25
<1>28. \A w \in Ways : wr_en[w] /\ j = Into(w) /\ (w = 0 => ~wr_en[1] \/ j # Into(1)) =>
         /\ lb'[j].load = din[w] /\ lb'[j].occupied
         /\ lb'[j].valid => lb[j].valid \/ (answered /\ j = lb_head)
  BY <1>19, <1>21, <1>23, <1>24
<1>29. QED
  BY <1>19, <1>26, <1>27, <1>28

-----------------------------------------------------------------------------
(* Its ring moves as a ring of numbers. *)

(* How the ring of the load buffer moves: plain numbers.  d places are in use from h on,
   c are written at t, r leaves; o says which are occupied afterwards. *)
LEMMA RingMoves ==
  ASSUME NEW N \in Nat, N >= 2, NEW h \in 0 .. N - 1, NEW d \in 0 .. N - 1,
         NEW t, t = IF h + d < N THEN h + d ELSE h + d - N,
         NEW c \in 0 .. 2, NEW r \in 0 .. 1, r <= d,
         NEW h2, h2 = IF h + r < N THEN h + r ELSE 0,
         NEW t2, t2 = IF t + c < N THEN t + c ELSE t + c - N,
         NEW o,
         \A j \in 0 .. N - 1 :
           LET x == IF j >= h THEN j - h ELSE j - h + N
               y == IF j >= t THEN j - t ELSE j - t + N
           IN  (x < d /\ r <= x) \/ y < c => j \in o,
         t2 \notin o
  PROVE  /\ d - r + c < N
         /\ \A j \in 0 .. N - 1 :
              LET x == IF j >= h THEN j - h ELSE j - h + N
                  y == IF j >= t THEN j - t ELSE j - t + N
                  x2 == IF j >= h2 THEN j - h2 ELSE j - h2 + N
              IN  /\ x2 < d - r + c <=> (x < d /\ r <= x) \/ y < c
                  /\ ~(x < d /\ y < c)
         /\ (IF t2 >= h2 THEN t2 - h2 ELSE t2 - h2 + N) = d - r + c
<1>1. t \in 0 .. N - 1 /\ t2 \in 0 .. N - 1 /\ h2 \in 0 .. N - 1
  OBVIOUS
<1>2. d - r + c < N
  <2>1. SUFFICES ASSUME d - r + c >= N PROVE FALSE
    OBVIOUS
  <2>2. LET x == IF t2 >= h THEN t2 - h ELSE t2 - h + N
            y == IF t2 >= t THEN t2 - t ELSE t2 - t + N
        IN  ~((x < d /\ r <= x) \/ y < c)
    BY <1>1
  <2>3. PICK x, y : x = (IF t2 >= h THEN t2 - h ELSE t2 - h + N) /\ y = (IF t2 >= t THEN t2 - t ELSE t2 - t + N)
    OBVIOUS
  <2>4. x \in 0 .. N - 1 /\ y \in 0 .. N - 1 /\ (x >= d \/ x < r) /\ y >= c
    BY <1>1, <2>2, <2>3
  <2>5. CASE c = 0
    BY <1>1, <2>1, <2>5
  <2>6. CASE c = 1
    BY <1>1, <2>1, <2>3, <2>4, <2>6
  <2>7. CASE c = 2
    BY <1>1, <2>1, <2>3, <2>4, <2>7
  <2>8. QED
    BY <2>5, <2>6, <2>7
<1>3. (IF t2 >= h2 THEN t2 - h2 ELSE t2 - h2 + N) = d - r + c
  BY <1>1, <1>2
<1>4. ASSUME NEW j \in 0 .. N - 1,
             NEW x, x = (IF j >= h THEN j - h ELSE j - h + N),
             NEW y, y = (IF j >= t THEN j - t ELSE j - t + N),
             NEW x2, x2 = (IF j >= h2 THEN j - h2 ELSE j - h2 + N)
      PROVE  /\ x2 < d - r + c <=> (x < d /\ r <= x) \/ y < c
             /\ ~(x < d /\ y < c)
  <2>1. x \in 0 .. N - 1 /\ y \in 0 .. N - 1 /\ x2 \in 0 .. N - 1
    BY <1>1, <1>4
  <2>2. ~(x < d /\ y < c)
    <3>1. y = IF x >= d THEN x - d ELSE x - d + N
      BY <1>1, <1>4
    <3>2. CASE d + c <= N
      BY <2>1, <3>1, <3>2
    <3>3. CASE d + c > N
      BY <1>2, <2>1, <3>1, <3>3
    <3>4. QED
      BY <3>2, <3>3
  <2>3. x2 = IF x >= r THEN x - r ELSE x - r + N
    BY <1>1, <1>4
  <2>4. y = IF x >= d THEN x - d ELSE x - d + N
    BY <1>1, <1>4
  <2>5. QED
    BY <1>2, <2>1, <2>2, <2>3, <2>4
<1>5. QED
  BY <1>2, <1>3, <1>4

(* The load buffer loses its first load or keeps it, and takes those of the ports. *)
LEMMA BufferMoves ==
  ASSUME NEW go, NEW port, Step(go, port)
  PROVE  /\ lb_head' \in LB!Idx /\ lb_tail' \in LB!Idx
         /\ lb_head' = IF rd_en THEN LB!Wrap(lb_head + 1) ELSE lb_head
         /\ InBuffer' = (InBuffer \ {j \in LB!Idx : Popped(j)}) \cup {Into(w) : w \in {v \in Ways : wr_en[v]}}
         /\ \A w \in Ways : wr_en[w] => Into(w) \in LB!Idx /\ Into(w) \notin InBuffer
         /\ wr_en[0] /\ wr_en[1] => Into(0) # Into(1)
         /\ \A j \in InBuffer : ~Popped(j) =>
              /\ lb'[j].load = lb[j].load /\ lb'[j].occupied = lb[j].occupied
              /\ lb'[j].valid <=> lb[j].valid \/ (answered /\ j = lb_head)
              /\ lb'[j].value = IF answered /\ j = lb_head THEN unified_memory[LB!dout.load.addr]
                                ELSE lb[j].value
         /\ \A w \in Ways : wr_en[w] =>
              lb'[Into(w)].load = din[w] /\ lb'[Into(w)].occupied /\ ~lb'[Into(w)].valid
         /\ \A j \in LB!Idx : lb'[j].valid => j = lb_head /\ j \in InBuffer /\ ~Popped(j) /\ ~rd_en
         /\ answered => lb_head \in InBuffer /\ ~rd_en
<1> DEFINE N == LOAD_BUFFER_NUM
           off(j, k) == IF j >= k THEN j - k ELSE j - k + N
           d == LB!Wrap(lb_tail - lb_head)
           c == (IF wr_en[0] THEN 1 ELSE 0) + (IF wr_en[1] THEN 1 ELSE 0)
           r == IF rd_en THEN 1 ELSE 0
           o == {j \in LB!Idx : lb'[j].occupied}
<1>1. QueueInv /\ ~rollback /\ Clock(go, port) /\ BufferRoom /\ BufferRoom'
      /\ lb_tail \in 0 .. N - 1 /\ lb_head \in 0 .. N - 1 /\ N \in Nat /\ N >= 2 /\ LB!Idx = 0 .. N - 1
  BY Typed, Sets, Sizes DEF Step
<1>2. /\ lb_head' = IF rd_en THEN LB!Wrap(lb_head + 1) ELSE lb_head
      /\ lb_tail' = LB!Wrap(lb_tail + (IF wr_en[0] THEN 1 ELSE 0) + (IF wr_en[1] THEN 1 ELSE 0))
      /\ DOMAIN lb' = LB!Idx
  BY <1>1 DEF Clock, Memory, LB!Clock
<1> HIDE DEF N
<1>3. \A j \in 0 .. N - 1, k \in 0 .. N - 1 : LB!Wrap(j - k) = off(j, k) /\ off(j, k) \in 0 .. N - 1
  <2>1. ASSUME NEW j \in 0 .. N - 1, NEW k \in 0 .. N - 1 PROVE LB!Wrap(j - k) = off(j, k)
    BY <1>1, LbWraps DEF N
  <2>2. \A j \in 0 .. N - 1, k \in 0 .. N - 1 : off(j, k) \in 0 .. N - 1
    BY <1>1
  <2>3. QED
    BY <2>1, <2>2
<1>4. d = off(lb_tail, lb_head) /\ d \in 0 .. N - 1
  BY <1>1, <1>3
<1>5. \A j \in LB!Idx : j \in InBuffer <=> off(j, lb_head) < d
  BY <1>1, <1>3 DEF InBuffer
<1>6. InBuffer \subseteq LB!Idx
  BY DEF InBuffer
<1>7. rd_en => LB!dout.valid /\ lb_head \in InBuffer
  <2>1. rd_en => LB!dout.valid
    BY DEF rd_en
  <2>2. QED
    BY <1>1, <2>1, HeadIs
<1>8. c \in 0 .. 2 /\ r \in 0 .. 1 /\ r <= d
  <2>1. rd_en => d > 0
    <3>1. off(lb_head, lb_head) = 0
      BY <1>1
    <3>2. QED
      BY <1>1, <1>5, <1>7, <3>1
  <2>2. QED
    BY <1>4, <2>1
<1>9. lb_head' = IF lb_head + r < N THEN lb_head + r ELSE 0
  <2>1. LB!Wrap(lb_head + 1) = IF lb_head + 1 < N THEN lb_head + 1 ELSE 0
    BY <1>1, LbWraps DEF N
  <2>2. QED
    BY <1>1, <1>2, <2>1
<1>10. lb_tail' = IF lb_tail + c < N THEN lb_tail + c ELSE lb_tail + c - N
  <2>1. lb_tail' = LB!Wrap(lb_tail + c)
    <3>1. lb_tail + (IF wr_en[0] THEN 1 ELSE 0) + (IF wr_en[1] THEN 1 ELSE 0) = lb_tail + c
      BY <1>1
    <3>2. QED
      BY <1>2, <3>1
  <2>2. LB!Wrap(lb_tail + c) = IF lb_tail + c < N THEN lb_tail + c ELSE lb_tail + c - N
    BY <1>1, <1>8, LbWraps DEF N
  <2>3. QED
    BY <2>1, <2>2
<1>11. \A w \in Ways : Into(w) = (IF w = 1 /\ wr_en[0] THEN IF lb_tail + 1 < N THEN lb_tail + 1 ELSE 0 ELSE lb_tail)
                       /\ Into(w) \in LB!Idx
  <2>1. LB!Wrap(lb_tail + 1) = IF lb_tail + 1 < N THEN lb_tail + 1 ELSE 0
    BY <1>1, LbWraps DEF N
  <2>2. QED
    BY <1>1, <2>1 DEF Into
<1>12. wr_en[0] /\ wr_en[1] => Into(0) # Into(1)
  BY <1>1, <1>11, Sets
<1>13. \A j \in LB!Idx : off(j, lb_tail) < c <=> \E w \in Ways : wr_en[w] /\ j = Into(w)
  <2>1. ASSUME NEW j \in LB!Idx
        PROVE  off(j, lb_tail) < c <=> (wr_en[0] /\ j = Into(0)) \/ (wr_en[1] /\ j = Into(1))
    BY <1>1, <1>11, Sets
  <2>2. QED
    BY <2>1, Sets
<1>14. \A w \in Ways : wr_en[w] => (w = 0 => ~wr_en[1] \/ Into(w) # Into(1))
  BY <1>12
<1>15. \A j \in LB!Idx : Popped(j) <=> rd_en /\ off(j, lb_head) < r
  BY <1>1 DEF Popped
<1> HIDE DEF off, d, c, r
<1>16. \A j \in LB!Idx : (off(j, lb_head) < d /\ r <= off(j, lb_head)) \/ off(j, lb_tail) < c => j \in o
  <2>1. SUFFICES ASSUME NEW j \in LB!Idx,
                        (off(j, lb_head) < d /\ r <= off(j, lb_head)) \/ off(j, lb_tail) < c
                 PROVE  lb'[j].occupied
    OBVIOUS
  <2>2. CASE \E w \in Ways : wr_en[w] /\ j = Into(w)
    <3>1. PICK w \in Ways : wr_en[w] /\ j = Into(w)
      BY <2>2
    <3>2. QED
      BY <1>14, <2>1, <3>1, PlaceMoves
  <2>3. CASE ~\E w \in Ways : wr_en[w] /\ j = Into(w)
    <3>1. off(j, lb_head) < d /\ r <= off(j, lb_head)
      BY <1>13, <2>1, <2>3
    <3>2. j \in InBuffer /\ ~Popped(j)
      <4>1. off(j, lb_head) \in Int /\ r \in Int
        BY <1>1, <1>3, <1>8
      <4>2. QED
        BY <1>5, <1>15, <2>1, <3>1, <4>1
    <3>3. lb[j].occupied
      BY <1>1, <2>1, <3>2 DEF QueueInv, BufferExact
    <3>4. QED
      BY <2>1, <2>3, <3>2, <3>3, PlaceMoves
  <2>4. QED
    BY <2>2, <2>3
<1>17. lb_tail' \notin o
  BY <1>1 DEF BufferRoom
<1> HIDE DEF o
<1>18. lb_tail = IF lb_head + d < N THEN lb_head + d ELSE lb_head + d - N
  BY <1>1, <1>4 DEF off
<1>19. lb_tail' \in 0 .. N - 1 /\ lb_head' \in 0 .. N - 1
  BY <1>1, <1>8, <1>9, <1>10
<1>20. /\ \A j \in 0 .. N - 1 : /\ off(j, lb_head') < d - r + c <=>
                                     (off(j, lb_head) < d /\ r <= off(j, lb_head)) \/ off(j, lb_tail) < c
                                /\ ~(off(j, lb_head) < d /\ off(j, lb_tail) < c)
       /\ off(lb_tail', lb_head') = d - r + c
  <2>1. \A j \in 0 .. N - 1 :
           LET x == IF j >= lb_head THEN j - lb_head ELSE j - lb_head + N
               y == IF j >= lb_tail THEN j - lb_tail ELSE j - lb_tail + N
           IN  (x < d /\ r <= x) \/ y < c => j \in o
    BY <1>1, <1>16 DEF off
  <2>2. PICK h2, t2 : h2 = lb_head' /\ t2 = lb_tail'
    OBVIOUS
  <2>3. /\ \A j \in 0 .. N - 1 :
              LET x == IF j >= lb_head THEN j - lb_head ELSE j - lb_head + N
                  y == IF j >= lb_tail THEN j - lb_tail ELSE j - lb_tail + N
                  x2 == IF j >= h2 THEN j - h2 ELSE j - h2 + N
              IN  /\ x2 < d - r + c <=> (x < d /\ r <= x) \/ y < c
                  /\ ~(x < d /\ y < c)
        /\ (IF t2 >= h2 THEN t2 - h2 ELSE t2 - h2 + N) = d - r + c
    <3>1. /\ N \in Nat /\ N >= 2 /\ lb_head \in 0 .. N - 1 /\ d \in 0 .. N - 1
          /\ c \in 0 .. 2 /\ r \in 0 .. 1 /\ r <= d
          /\ lb_tail = IF lb_head + d < N THEN lb_head + d ELSE lb_head + d - N
          /\ h2 = IF lb_head + r < N THEN lb_head + r ELSE 0
          /\ t2 = IF lb_tail + c < N THEN lb_tail + c ELSE lb_tail + c - N
          /\ t2 \notin o
      BY <1>1, <1>4, <1>8, <1>9, <1>10, <1>17, <1>18, <2>2
    <3>2. QED
      BY <2>1, <3>1, RingMoves
  <2>4. QED
    BY <2>2, <2>3 DEF off
<1>21. \A j \in LB!Idx : j \in InBuffer' <=>
         (off(j, lb_head) < d /\ r <= off(j, lb_head)) \/ off(j, lb_tail) < c
  <2>1. \A j \in LB!Idx : j \in InBuffer' <=> LB!Wrap(j - lb_head') < LB!Wrap(lb_tail' - lb_head')
    BY DEF InBuffer
  <2>2. QED
    BY <1>1, <1>3, <1>19, <1>20, <2>1
<1>22. \A j \in LB!Idx : off(j, lb_head) < d /\ r <= off(j, lb_head) <=> j \in InBuffer /\ ~Popped(j)
  <2>1. ASSUME NEW j \in LB!Idx
        PROVE  off(j, lb_head) < d /\ r <= off(j, lb_head) <=> j \in InBuffer /\ ~Popped(j)
    <3>1. off(j, lb_head) \in 0 .. N - 1 /\ r \in 0 .. 1
      BY <1>1, <1>3, <1>8
    <3>2. r = 1 <=> rd_en
      BY DEF r
    <3>3. QED
      BY <1>5, <1>15, <3>1, <3>2
  <2>2. QED
    BY <2>1
<1>23. InBuffer' \subseteq LB!Idx
  BY DEF InBuffer
<1>24. InBuffer' = (InBuffer \ {j \in LB!Idx : Popped(j)}) \cup {Into(w) : w \in {v \in Ways : wr_en[v]}}
  <2>1. \A j \in LB!Idx : j \in InBuffer' <=> (j \in InBuffer /\ ~Popped(j)) \/ \E w \in Ways : wr_en[w] /\ j = Into(w)
    BY <1>13, <1>21, <1>22
  <2>2. QED
    BY <1>6, <1>11, <1>23, <2>1
<1>25. \A w \in Ways : wr_en[w] => Into(w) \in LB!Idx /\ Into(w) \notin InBuffer
  BY <1>1, <1>5, <1>11, <1>13, <1>20
<1>26. \A j \in InBuffer : \A w \in Ways : wr_en[w] => j # Into(w)
  BY <1>25
<1>27. answered => lb_head \in InBuffer /\ ~rd_en
  <2>1. answered => lb[lb_head].occupied /\ ~lb[lb_head].valid
    BY DEF answered, LB!rd_cache
  <2>2. lb[lb_head].occupied => lb_head # lb_tail
    BY <1>1 DEF BufferRoom
  <2>3. lb_head # lb_tail => lb_head \in InBuffer
    <3>1. lb_head # lb_tail => off(lb_tail, lb_head) > 0 /\ off(lb_head, lb_head) = 0
      BY <1>1 DEF off
    <3>2. QED
      BY <1>1, <1>4, <1>5, <3>1
  <2>4. QED
    BY <2>1, <2>2, <2>3 DEF rd_en, LB!dout
<1>28. \A j \in LB!Idx : lb[j].valid => j = lb_head /\ j \in InBuffer
  BY <1>1 DEF QueueInv, BufferExact
<1>29. ASSUME NEW j \in LB!Idx, lb'[j].valid
       PROVE  j = lb_head /\ j \in InBuffer /\ ~Popped(j) /\ ~rd_en
  <2>1. lb[j].valid \/ (answered /\ j = lb_head)
    <3>1. CASE \E w \in Ways : wr_en[w] /\ j = Into(w)
      <4>1. PICK w \in Ways : wr_en[w] /\ j = Into(w)
        BY <3>1
      <4>2. QED
        BY <1>14, <1>29, <4>1, PlaceMoves
    <3>2. CASE ~\E w \in Ways : wr_en[w] /\ j = Into(w)
      BY <1>29, <3>2, PlaceMoves
    <3>3. QED
      BY <3>1, <3>2
  <2>2. j = lb_head /\ j \in InBuffer
    BY <1>27, <1>28, <2>1
  <2>3. ~Popped(j)
    BY <1>26, <1>29, <2>2, PlaceMoves
  <2>4. QED
    BY <2>2, <2>3 DEF Popped
<1>30. \A j \in InBuffer : ~Popped(j) =>
              /\ lb'[j].load = lb[j].load /\ lb'[j].occupied = lb[j].occupied
              /\ lb'[j].valid <=> lb[j].valid \/ (answered /\ j = lb_head)
              /\ lb'[j].value = IF answered /\ j = lb_head THEN unified_memory[LB!dout.load.addr]
                                ELSE lb[j].value
  BY <1>6, <1>26, PlaceMoves
<1>31. ASSUME NEW w \in Ways, wr_en[w]
       PROVE  lb'[Into(w)].load = din[w] /\ lb'[Into(w)].occupied /\ ~lb'[Into(w)].valid
  <2>1. PICK j \in LB!Idx : j = Into(w)
    BY <1>11
  <2>2. lb'[j].load = din[w] /\ lb'[j].occupied
    BY <1>14, <1>31, <2>1, PlaceMoves
  <2>3. ~lb'[j].valid
    BY <1>25, <1>29, <1>31, <2>1
  <2>4. QED
    BY <2>1, <2>2, <2>3
<1>32. lb_head' \in LB!Idx /\ lb_tail' \in LB!Idx
  BY <1>1, <1>19
<1>33. QED
  BY <1>2, <1>12, <1>24, <1>25, <1>27, <1>29, <1>30, <1>31, <1>32

-----------------------------------------------------------------------------
(* Instructions complete once. *)

(* What has completed is on a bus or was there. *)
LEMMA CompletedIn ==
  ASSUME QueueInv, NEW i \in InFlight
  PROVE  R!Completed(ex_cm, i) <=> In(Done, i) \/ \E w \in Ways : In(OnBus(w), i)
<1>1. i \in Slot /\ data[i].valid
  BY DEF InFlight
<1>2. R!Completed(ex_cm, i) <=> retire_tag[i] \/ \E w \in Ways : ex_cm[w].valid /\ ex_cm[w].rob_idx = i
  BY <1>1, Sets DEF R!Completed, R!CompletesNow
<1>3. QED
  BY <1>1, <1>2, InMeans

(* So what is anywhere else stays in flight. *)
LEMMA StaysIn ==
  ASSUME NEW go, NEW port, Step(go, port), NEW i, NEW p, In(p, i), p # Done, \A w \in Ways : p # OnBus(w)
  PROVE  /\ i \in InFlight /\ i \in Slot /\ arch' <= Ins(i) /\ Ins(i) < fpc /\ Ins(i) \in Op /\ arch <= Ins(i)
         /\ i \in InFlight' /\ Ins(i)' = Ins(i) /\ KindOf(i)' = KindOf(i) /\ AddrOf(i)' = AddrOf(i)
         /\ ~retire_tag[i] /\ ~retire_tag'[i]
<1>1. QueueInv
  BY DEF Step
<1>2. i \in InFlight /\ i \in Slot
  BY <1>1 DEF QueueInv, Placed, InFlight
<1>3. ~R!Completed(ex_cm, i)
  <2>1. ~In(Done, i) /\ ~\E w \in Ways : In(OnBus(w), i)
    BY <1>1, <1>2 DEF QueueInv, Placed
  <2>2. QED
    BY <1>1, <1>2, <2>1, CompletedIn
<1>4. Ins(i) \in Op /\ arch <= Ins(i) /\ Ins(i) < fpc
  BY <1>1, <1>2, FlightIs
<1>5. arch' <= Ins(i)
  BY <1>2, <1>3, <1>4, OpsMove, Sizes DEF Op
<1>6. ~retire_tag[i]
  BY <1>1, <1>2, <1>3, CompletedIn, InMeans
<1>7. QED
  BY <1>2, <1>3, <1>4, <1>5, <1>6, OpsMove

(* Who issues. *)
LEMMA Issuing ==
  ASSUME NEW go, NEW port, Step(go, port), NEW w \in Ways
  PROVE  /\ \A e \in port[w] : /\ e \in rs /\ e.bank = w /\ ~is_stall(w) /\ port[w] = {e}
                               /\ is_ex'[w] = Issued(e) /\ In(InStation(e), e.rob_idx)
         /\ is_stall(w) => port[w] = {} /\ is_ex'[w] = is_ex[w]
         /\ port[w] = {} /\ ~is_stall(w) => is_ex'[w] = Idle
<1>1. port[w] \in Choices(w) /\ Clock(go, port) /\ ~rollback
  BY DEF Step
<1>2. is_ex'[w] = NextPort(w, port[w])
  BY <1>1 DEF Clock
<1>3. \A e \in port[w] : e \in rs /\ e.bank = w /\ ~is_stall(w) /\ port[w] = {e}
  BY <1>1 DEF Choices
<1>4. is_stall(w) => port[w] = {}
  BY <1>1 DEF Choices
<1>5. \A e \in port[w] : is_ex'[w] = Issued(e)
  BY <1>2, <1>3 DEF NextPort
<1>6. QED
  BY <1>2, <1>3, <1>4, <1>5, InMeans DEF NextPort

(* What enters the station. *)
LEMMA StationMoves ==
  ASSUME NEW go, NEW port, Step(go, port)
  PROVE  /\ rs' = (rs \ (port[0] \cup port[1])) \cup {NewEntry(go, w) : w \in {v \in Ways : v < Entering(go)}}
         /\ \A w \in Ways : w < Entering(go) =>
              \A i \in Slot : i = dp_rob_idx[w] =>
                /\ NewEntry(go, w).rob_idx = i /\ NewEntry(go, w).bank = w
                /\ NewEntry(go, w) = Waiting(i, w)'
<1>1. QueueInv /\ go \in BOOLEAN /\ Clock(go, port) /\ ~rollback
  BY DEF Step
<1>2. rs' = (rs \ (port[0] \cup port[1])) \cup {NewEntry(go, w) : w \in {v \in Ways : v < Entering(go)}}
  BY <1>1 DEF Clock, Entering, stall
<1>3. ASSUME NEW w \in Ways, w < Entering(go), NEW i \in Slot, i = dp_rob_idx[w]
      PROVE  /\ NewEntry(go, w).rob_idx = i /\ NewEntry(go, w).bank = w
             /\ NewEntry(go, w) = Waiting(i, w)'
  <2>1. Ins(i)' = fpc + w
    BY <1>3, OpsMove
  <2>2. fpc \in Nat /\ fpc' = fpc + Entering(go) /\ w \in {0, 1} /\ Entering(go) \in 0 .. 2
    BY <1>1, Typed, OpsMove, Sets, DispatchCount
  <2>3. PICK k \in fpc .. fpc' : k = fpc + w + 1
    BY <1>3, <2>2
  <2>4. SqOf(k)' = SQ!Wrap(sq_tail + Count(prog, "store", fpc, k))
        /\ LqOf(k)' = SQ!Wrap(lq_tail + Count(prog, "load", fpc, k))
    BY PlacesKept
  <2>5. SQ!Upto(Dispatched(go, "store"), w) = Count(prog, "store", fpc, k)
        /\ SQ!Upto(Dispatched(go, "load"), w) = Count(prog, "load", fpc, k)
    BY <1>1, <1>3, <2>3, DispatchedCount
  <2>6. SQ!SQ_idx(Dispatched(go, "store"), w) = SqOf(k)'
    BY <2>4, <2>5 DEF SQ!SQ_idx
  <2>7. LQ!LQ_idx(Dispatched(go, "load"), w) = LqOf(k)'
    <3>1. LQ!Upto(Dispatched(go, "load"), w) = SQ!Upto(Dispatched(go, "load"), w)
      BY <2>2, UptoIs
    <3>2. QED
      BY <2>4, <2>5, <3>1 DEF LQ!LQ_idx, LQ!Wrap, SQ!Wrap
  <2>8. NewEntry(go, w) = [op |-> fpc + w, bank |-> w, rob_idx |-> i, SQ_idx |-> SqOf(k)', LQ_idx |-> LqOf(k)']
    BY <1>3, <2>6, <2>7 DEF NewEntry
  <2>9. Waiting(i, w)' = [op |-> Ins(i)', bank |-> w, rob_idx |-> i, SQ_idx |-> (SqOf(Ins(i) + 1))',
                          LQ_idx |-> (LqOf(Ins(i) + 1))']
    BY DEF Waiting
  <2>10. (SqOf(Ins(i) + 1))' = SqOf(k)' /\ (LqOf(Ins(i) + 1))' = LqOf(k)'
    <3>1. Ins(i)' + 1 = k
      BY <2>1, <2>2, <2>3
    <3>2. QED
      BY <3>1 DEF SqOf, LqOf
  <2>11. QED
    BY <2>1, <2>8, <2>9, <2>10
<1>4. QED
  BY <1>2, <1>3

(* What an operation carries stays right. *)
LEMMA CarriedKept ==
  ASSUME NEW go, NEW port, Step(go, port), NEW i \in InFlight, arch' <= Ins(i)
  PROVE  /\ \A w : Waiting(i, w)' = Waiting(i, w)
         /\ Packet(i)' = Packet(i)
<1>1. QueueInv
  BY DEF Step
<1>2. Ins(i)' = Ins(i) /\ KindOf(i)' = KindOf(i) /\ AddrOf(i)' = AddrOf(i)
  BY OpsMove
<1>3. Ins(i) \in Op /\ Ins(i) < fpc /\ i \in Slot /\ fpc \in Nat
  BY <1>1, FlightIs, Typed DEF InFlight
<1>4. PICK k \in arch' .. fpc : k = Ins(i) + 1
  BY <1>3, OpsMove, Sizes DEF Op
<1>5. SqOf(k)' = SqOf(k) /\ LqOf(k)' = LqOf(k)
  BY PlacesKept
<1>6. (SqOf(Ins(i) + 1))' = SqOf(Ins(i) + 1) /\ (LqOf(Ins(i) + 1))' = LqOf(Ins(i) + 1)
  <2>1. (SqOf(Ins(i) + 1))' = SqOf(k)' /\ (LqOf(Ins(i) + 1))' = LqOf(k)'
    BY <1>2, <1>4 DEF SqOf, LqOf
  <2>2. QED
    BY <1>4, <1>5, <2>1
<1>7. QED
  BY <1>2, <1>6 DEF Waiting, Packet

(* The result of issuing is the packet of the operation. *)
LEMMA IssuedIs ==
  ASSUME NEW i, NEW w, NEW e, e = Waiting(i, w)
  PROVE  Issued(e) = Packet(i)
  BY DEF Issued, Waiting, Packet, KindOf, AddrOf, Ins

LEMMA CarriedStep ==
  ASSUME NEW go, NEW port, Step(go, port)
  PROVE  Carried'
<1>1. QueueInv /\ Carried
  BY DEF Step, QueueInv
<1>2. ASSUME NEW e \in rs
      PROVE  /\ e.rob_idx \in InFlight /\ e.rob_idx \in InFlight' /\ e.bank \in Ways
             /\ e = Waiting(e.rob_idx, e.bank)'
             /\ e = Waiting(e.rob_idx, e.bank)
             /\ Issued(e) = Packet(e.rob_idx)'
  <2>1. PICK i, w : i = e.rob_idx /\ w = e.bank
    OBVIOUS
  <2>2. i \in InFlight /\ w \in Ways /\ e = Waiting(i, w)
    BY <1>1, <2>1 DEF Carried
  <2>3. In(InStation(e), i)
    BY <2>1, InMeans
  <2>4. i \in InFlight' /\ arch' <= Ins(i)
    BY <2>3, StaysIn, TagsApart
  <2>5. e = Waiting(i, w)' /\ Issued(e) = Packet(i)'
    BY <2>2, <2>4, CarriedKept, IssuedIs
  <2>6. Waiting(i, w)' = [op |-> Ins(i)', bank |-> w, rob_idx |-> i, SQ_idx |-> (SqOf(Ins(i) + 1))',
                          LQ_idx |-> (LqOf(Ins(i) + 1))']
    BY DEF Waiting
  <2>7. QED
    BY <2>1, <2>2, <2>4, <2>5
<1>3. ASSUME NEW e \in rs' PROVE e.rob_idx \in InFlight' /\ e.bank \in Ways /\ e = Waiting(e.rob_idx, e.bank)'
  <2>1. CASE e \in rs
    BY <1>2, <2>1
  <2>2. CASE e \notin rs
    <3>1. PICK w \in Ways : w < Entering(go) /\ e = NewEntry(go, w)
      BY <2>2, StationMoves
    <3>2. PICK i \in Slot : i = dp_rob_idx[w]
      BY <3>1, OpsMove
    <3>3. i \in InFlight' /\ e.rob_idx = i /\ e.bank = w /\ e = Waiting(i, w)'
      BY <3>1, <3>2, OpsMove, StationMoves
    <3>4. QED
      BY <3>3
  <2>3. QED
    BY <2>1, <2>2
<1>4. ASSUME NEW w \in Ways PROVE is_ex'[w] = Idle \/ \E i \in InFlight' : is_ex'[w] = Packet(i)'
  <2>1. CASE is_stall(w)
    <3>1. is_ex'[w] = is_ex[w]
      BY <2>1, Issuing
    <3>2. ASSUME is_ex[w] # Idle PROVE \E i \in InFlight' : is_ex'[w] = Packet(i)'
      <4>1. is_ex[w].valid /\ is_ex[w] = Packet(is_ex[w].rob_idx)
        BY <1>1, <3>2, PortIs
      <4>2. PICK i : i = is_ex[w].rob_idx
        OBVIOUS
      <4>3. In(AtPort(w), i)
        BY <4>1, <4>2, InMeans
      <4>4. i \in InFlight /\ i \in InFlight' /\ arch' <= Ins(i)
        BY <4>3, StaysIn, TagsApart
      <4>5. QED
        BY <3>1, <4>1, <4>2, <4>4, CarriedKept
    <3>3. QED
      BY <3>1, <3>2
  <2>2. CASE ~is_stall(w) /\ port[w] = {}
    BY <2>2, Issuing
  <2>3. CASE ~is_stall(w) /\ port[w] # {}
    <3>1. PICK e \in port[w] : TRUE
      BY <2>3
    <3>2. e \in rs /\ is_ex'[w] = Issued(e)
      BY <3>1, Issuing
    <3>3. PICK i : i = e.rob_idx
      OBVIOUS
    <3>4. QED
      BY <1>2, <3>2, <3>3
  <2>4. QED
    BY <2>1, <2>2, <2>3
<1>5. QED
  BY <1>3, <1>4 DEF Carried

-----------------------------------------------------------------------------
(* An instruction goes from one place of the pipeline to the next. *)

(* Where an instruction goes in a cycle. *)
Moves(port, p, q) ==
  \/ \E e \in rs : p = InStation(e) /\ e \notin port[0] \cup port[1] /\ q = p
  \/ \E w \in Ways : \E e \in port[w] : p = InStation(e) /\ q = AtPort(w)
  \/ \E w \in Ways : p = AtPort(w) /\ is_stall(w) /\ q = p
  \/ \E w \in Ways : p = AtPort(w) /\ wr_en[w] /\ q = Buffered(Into(w))
  \/ \E w \in Ways : p = AtPort(w) /\ Ends(w) /\ q = OnBus(w)
  \/ \E j \in InBuffer : p = Buffered(j) /\ ~Popped(j) /\ q = p
  \/ p = Buffered(lb_head) /\ rd_en /\ q = OnBus(0)
  \/ (p = Done \/ \E w \in Ways : p = OnBus(w)) /\ q = Done

LEMMA MovesSome ==
  ASSUME NEW go, NEW port, Step(go, port), NEW i, NEW p, In(p, i)
  PROVE  \E q : Moves(port, p, q)
<1>0. QueueInv /\ Unbroken /\ BufferRoom
  BY DEF Step
<1>1. ASSUME NEW e \in rs, p = InStation(e) PROVE \E q : Moves(port, p, q)
  <2>1. CASE e \in port[0] \cup port[1]
    <3>1. PICK w \in Ways : e \in port[w]
      BY <2>1, Sets
    <3>2. QED
      BY <1>1, <3>1 DEF Moves
  <2>2. CASE e \notin port[0] \cup port[1]
    BY <1>1, <2>2 DEF Moves
  <2>3. QED
    BY <2>1, <2>2
<1>2. ASSUME NEW w \in Ways, p = AtPort(w), is_ex[w].valid PROVE \E q : Moves(port, p, q)
  <2>1. is_stall(w) \/ wr_en[w] \/ Ends(w)
    BY <1>2 DEF Ends
  <2>2. QED
    BY <1>2, <2>1 DEF Moves
<1>3. ASSUME NEW j \in InBuffer, p = Buffered(j) PROVE \E q : Moves(port, p, q)
  <2>1. CASE Popped(j)
    BY <1>3, <2>1 DEF Moves, Popped
  <2>2. CASE ~Popped(j)
    BY <1>3, <2>2 DEF Moves
  <2>3. QED
    BY <2>1, <2>2
<1>4. ASSUME p = Done \/ \E w \in Ways : p = OnBus(w) PROVE \E q : Moves(port, p, q)
  BY <1>4 DEF Moves
<1>5. QED
  BY <1>1, <1>2, <1>3, <1>4 DEF In

LEMMA MovesOne ==
  ASSUME NEW go, NEW port, Step(go, port), NEW p, NEW q, NEW r, Moves(port, p, q), Moves(port, p, r)
  PROVE  q = r
<1>0. QueueInv /\ Unbroken /\ BufferRoom
  BY DEF Step
<1>1. ASSUME NEW e, p = InStation(e) PROVE q = r
  <2>1. ASSUME NEW s, Moves(port, p, s)
        PROVE  \/ e \notin port[0] \cup port[1] /\ s = p
               \/ \E w \in Ways : e \in port[w] /\ s = AtPort(w)
    BY <1>1, <2>1, TagsApart DEF Moves
  <2>2. \A w \in Ways : e \in port[w] => e \in port[0] \cup port[1] /\ e.bank = w
    BY Issuing, Sets
  <2>3. QED
    BY <2>1, <2>2
<1>2. ASSUME NEW w \in Ways, p = AtPort(w) PROVE q = r
  <2>1. ASSUME NEW s, Moves(port, p, s)
        PROVE  \/ is_stall(w) /\ s = p
               \/ wr_en[w] /\ s = Buffered(Into(w))
               \/ Ends(w) /\ s = OnBus(w)
    BY <1>2, <2>1, TagsApart DEF Moves
  <2>2. wr_en[w] => ~is_stall(w)
    BY <1>0, PortsMove
  <2>3. QED
    BY <2>1, <2>2 DEF Ends
<1>3. ASSUME NEW j, p = Buffered(j) PROVE q = r
  <2>1. ASSUME NEW s, Moves(port, p, s)
        PROVE  (~Popped(j) /\ s = p) \/ (Popped(j) /\ s = OnBus(0))
    BY <1>3, <2>1, TagsApart DEF Moves, Popped
  <2>2. QED
    BY <2>1
<1>4. ASSUME p = Done \/ \E w \in Ways : p = OnBus(w) PROVE q = r
  <2>1. ASSUME NEW s, Moves(port, p, s) PROVE s = Done
    BY <1>4, <2>1, TagsApart DEF Moves
  <2>2. QED
    BY <2>1
<1>5. \/ \E e : p = InStation(e)
      \/ \E w \in Ways : p = AtPort(w)
      \/ \E j : p = Buffered(j)
      \/ p = Done \/ \E w \in Ways : p = OnBus(w)
  BY DEF Moves
<1>6. QED
  BY <1>1, <1>2, <1>3, <1>4, <1>5

LEMMA InMeansNext ==
  /\ \A e, i : In(InStation(e), i)' <=> e \in rs' /\ e.rob_idx = i
  /\ \A w, i : In(AtPort(w), i)' <=> w \in Ways /\ is_ex'[w].valid /\ is_ex'[w].rob_idx = i
  /\ \A j, i : In(Buffered(j), i)' <=> j \in InBuffer' /\ lb'[j].load.rob_idx = i
  /\ \A w, i : In(OnBus(w), i)' <=> w \in Ways /\ ex_cm'[w].valid /\ ex_cm'[w].rob_idx = i
  /\ \A i : In(Done, i)' <=> i \in Slot /\ retire_tag'[i]
  /\ \A p, i : In(p, i)' => \/ \E e : p = InStation(e)
                            \/ \E w \in Ways : p = AtPort(w)
                            \/ \E j : p = Buffered(j)
                            \/ \E w \in Ways : p = OnBus(w)
                            \/ p = Done
  BY DEF In, InStation, AtPort, Buffered, OnBus, Done

LEMMA BusesMove ==
  ASSUME NEW go, NEW port, Step(go, port)
  PROVE  ex_cm' = ex_packet
  BY DEF Step, Clock, rollback

(* It goes there. *)
LEMMA MovesThere ==
  ASSUME NEW go, NEW port, Step(go, port), NEW i \in InFlight, arch' <= Ins(i),
         NEW p, In(p, i), NEW q, Moves(port, p, q)
  PROVE  In(q, i)'
<1>0. QueueInv /\ Unbroken /\ BufferRoom
  BY DEF Step
<1>1. CASE \E e \in rs : p = InStation(e) /\ e \notin port[0] \cup port[1] /\ q = p
  <2>1. PICK e \in rs : p = InStation(e) /\ e \notin port[0] \cup port[1] /\ q = p
    BY <1>1
  <2>2. e \in rs' /\ e.rob_idx = i
    BY <2>1, InMeans, StationMoves
  <2>3. QED
    BY <2>1, <2>2, InMeansNext
<1>2. CASE \E w \in Ways : \E e \in port[w] : p = InStation(e) /\ q = AtPort(w)
  <2>1. PICK w \in Ways : \E e \in port[w] : p = InStation(e) /\ q = AtPort(w)
    BY <1>2
  <2>2. PICK e \in port[w] : p = InStation(e) /\ q = AtPort(w)
    BY <2>1
  <2>3. is_ex'[w] = Issued(e) /\ e.rob_idx = i
    BY <2>2, InMeans, Issuing
  <2>4. QED
    BY <2>2, <2>3, InMeansNext DEF Issued
<1>3. CASE \E w \in Ways : p = AtPort(w) /\ is_stall(w) /\ q = p
  <2>1. PICK w \in Ways : p = AtPort(w) /\ is_stall(w) /\ q = p
    BY <1>3
  <2>2. is_ex'[w] = is_ex[w]
    BY <2>1, Issuing
  <2>3. QED
    BY <2>1, <2>2, InMeans, InMeansNext
<1>4. CASE \E w \in Ways : p = AtPort(w) /\ wr_en[w] /\ q = Buffered(Into(w))
  <2>1. PICK w \in Ways : p = AtPort(w) /\ wr_en[w] /\ q = Buffered(Into(w))
    BY <1>4
  <2>2. lb'[Into(w)].load = din[w] /\ Into(w) \in InBuffer'
    BY <2>1, BufferMoves
  <2>3. din[w].rob_idx = i
    BY <2>1, InMeans DEF din
  <2>4. QED
    BY <2>1, <2>2, <2>3, InMeansNext
<1>5. CASE \E w \in Ways : p = AtPort(w) /\ Ends(w) /\ q = OnBus(w)
  <2>1. PICK w \in Ways : p = AtPort(w) /\ Ends(w) /\ q = OnBus(w)
    BY <1>5
  <2>2. ex_cm'[w].valid /\ ex_cm'[w].rob_idx = i
    BY <1>0, <2>1, BusesMove, PortsMove, InMeans
  <2>3. QED
    BY <2>1, <2>2, InMeansNext
<1>6. CASE \E j \in InBuffer : p = Buffered(j) /\ ~Popped(j) /\ q = p
  <2>1. PICK j \in InBuffer : p = Buffered(j) /\ ~Popped(j) /\ q = p
    BY <1>6
  <2>2. j \in InBuffer'
    BY <2>1, BufferMoves
  <2>3. lb'[j].load = lb[j].load
    BY <2>1, BufferMoves
  <2>4. QED
    BY <2>1, <2>2, <2>3, InMeans, InMeansNext
<1>7. CASE p = Buffered(lb_head) /\ rd_en /\ q = OnBus(0)
  <2>1. LB!dout.load.rob_idx = i
    BY <1>7, InMeans DEF LB!dout
  <2>2. ex_cm'[0].valid /\ ex_cm'[0].rob_idx = i
    BY <1>0, <1>7, <2>1, BusesMove, PortsMove, Sets
  <2>3. QED
    BY <1>7, <2>2, InMeansNext, Sets
<1>8. CASE (p = Done \/ \E w \in Ways : p = OnBus(w)) /\ q = Done
  <2>1. R!Completed(ex_cm, i)
    BY <1>0, <1>8, CompletedIn
  <2>2. retire_tag'[i] /\ i \in Slot
    BY <2>1, OpsMove DEF InFlight
  <2>3. QED
    BY <1>8, <2>2, InMeansNext
<1>9. QED
  BY <1>1, <1>2, <1>3, <1>4, <1>5, <1>6, <1>7, <1>8 DEF Moves

(* And whatever is somewhere came there, or is new. *)
LEMMA MovesFrom ==
  ASSUME NEW go, NEW port, Step(go, port), NEW i, NEW q, In(q, i)'
  PROVE  \/ /\ i \in InFlight /\ i \in InFlight' /\ arch' <= Ins(i)
            /\ \E p : In(p, i) /\ Moves(port, p, q)
         \/ \E w \in Ways : w < Entering(go) /\ q = InStation(NewEntry(go, w)) /\ i = dp_rob_idx[w]
<1>0. QueueInv /\ Unbroken /\ BufferRoom /\ Placed
  BY DEF Step, QueueInv
<1> DEFINE Came == /\ i \in InFlight /\ i \in InFlight' /\ arch' <= Ins(i)
                   /\ \E p : In(p, i) /\ Moves(port, p, q)
<1>1. ASSUME NEW p, In(p, i), Moves(port, p, q), p # Done, \A w \in Ways : p # OnBus(w)
      PROVE  Came
  <2>1. i \in InFlight /\ i \in InFlight' /\ arch' <= Ins(i)
    BY <1>1, StaysIn
  <2>2. QED
    BY <1>1, <2>1
<1>2. ASSUME NEW e, q = InStation(e), e \in rs
      PROVE  Came
  <2>1. In(q, i)
    BY <1>2, InMeans, InMeansNext
  <2>2. e \in rs' /\ e.rob_idx = i
    BY <1>2, InMeansNext
  <2>3. e \notin port[0] \cup port[1]
    <3>1. SUFFICES ASSUME e \in port[0] \cup port[1] PROVE FALSE
      OBVIOUS
    <3>2. PICK w \in Ways : w < Entering(go) /\ e = NewEntry(go, w)
      BY <2>2, <3>1, StationMoves
    <3>3. PICK k \in Slot : k = dp_rob_idx[w] /\ k \notin InFlight
      BY <3>2, OpsMove
    <3>4. e.rob_idx = k
      BY <3>2, <3>3, StationMoves
    <3>5. QED
      BY <1>0, <1>2, <3>3, <3>4 DEF QueueInv, Carried
  <2>4. Moves(port, q, q)
    BY <1>2, <2>3 DEF Moves
  <2>5. QED
    BY <1>1, <1>2, <2>1, <2>4, TagsApart
<1>3. ASSUME NEW e, q = InStation(e), e \notin rs
      PROVE  \E w \in Ways : w < Entering(go) /\ q = InStation(NewEntry(go, w)) /\ i = dp_rob_idx[w]
  <2>1. e \in rs' /\ e.rob_idx = i
    BY <1>3, InMeansNext
  <2>2. PICK w \in Ways : w < Entering(go) /\ e = NewEntry(go, w)
    BY <1>3, <2>1, StationMoves
  <2>3. PICK k \in Slot : k = dp_rob_idx[w]
    BY <2>2, OpsMove
  <2>4. e.rob_idx = k
    BY <2>2, <2>3, StationMoves
  <2>5. QED
    BY <1>3, <2>1, <2>2, <2>3, <2>4
<1>4. ASSUME NEW w \in Ways, q = AtPort(w)
      PROVE  Came
  <2>1. is_ex'[w].valid /\ is_ex'[w].rob_idx = i
    BY <1>4, InMeansNext
  <2>2. CASE is_stall(w)
    <3>1. In(q, i)
      BY <1>4, <2>1, <2>2, InMeans, Issuing
    <3>2. Moves(port, q, q)
      BY <1>4, <2>2 DEF Moves
    <3>3. QED
      BY <1>1, <1>4, <3>1, <3>2, TagsApart
  <2>3. CASE ~is_stall(w)
    <3>1. port[w] # {}
      BY <2>1, <2>3, Issuing DEF Idle
    <3>2. PICK e \in port[w] : TRUE
      BY <3>1
    <3>3. e \in rs /\ is_ex'[w] = Issued(e)
      BY <3>2, Issuing
    <3>4. e.rob_idx = i
      BY <2>1, <3>3 DEF Issued
    <3>5. In(InStation(e), i) /\ Moves(port, InStation(e), q)
      BY <1>4, <3>2, <3>3, <3>4, InMeans DEF Moves
    <3>6. QED
      BY <1>1, <3>5, TagsApart
  <2>4. QED
    BY <2>2, <2>3
<1>5. ASSUME NEW j, q = Buffered(j)
      PROVE  Came
  <2>1. j \in InBuffer' /\ lb'[j].load.rob_idx = i
    BY <1>5, InMeansNext
  <2>2. CASE j \in InBuffer /\ ~Popped(j)
    <3>1. In(q, i)
      BY <1>5, <2>1, <2>2, InMeans, BufferMoves
    <3>2. Moves(port, q, q)
      BY <1>5, <2>2 DEF Moves
    <3>3. QED
      BY <1>1, <1>5, <3>1, <3>2, TagsApart
  <2>3. CASE ~(j \in InBuffer /\ ~Popped(j))
    <3>1. PICK w \in Ways : wr_en[w] /\ j = Into(w)
      <4>1. InBuffer' = (InBuffer \ {k \in LB!Idx : Popped(k)}) \cup {Into(w) : w \in {v \in Ways : wr_en[v]}}
        BY BufferMoves
      <4>2. InBuffer \subseteq LB!Idx
        BY DEF InBuffer
      <4>3. QED
        BY <2>1, <2>3, <4>1, <4>2
    <3>2. is_ex[w].rob_idx = i
      <4>1. lb'[Into(w)].load = din[w]
        BY <3>1, BufferMoves
      <4>2. QED
        BY <2>1, <3>1, <4>1 DEF din
    <3>3. is_ex[w].valid
      BY <1>0, <3>1, PortsMove
    <3>4. In(AtPort(w), i) /\ Moves(port, AtPort(w), q)
      BY <1>5, <3>1, <3>2, <3>3, InMeans DEF Moves
    <3>5. QED
      BY <1>1, <3>4, TagsApart
  <2>4. QED
    BY <2>2, <2>3
<1>6. ASSUME NEW w \in Ways, q = OnBus(w)
      PROVE  Came
  <2>1. ex_packet[w].valid /\ ex_packet[w].rob_idx = i
    BY <1>6, InMeansNext, BusesMove
  <2>2. CASE Ends(w)
    <3>1. is_ex[w].rob_idx = i /\ is_ex[w].valid
      BY <1>0, <2>1, <2>2, PortsMove DEF Ends
    <3>2. In(AtPort(w), i) /\ Moves(port, AtPort(w), q)
      BY <1>6, <2>2, <3>1, InMeans DEF Moves
    <3>3. QED
      BY <1>1, <3>2, TagsApart
  <2>3. CASE w = 0 /\ rd_en
    <3>1. LB!dout.valid /\ LB!dout.load.rob_idx = i
      BY <1>0, <2>1, <2>3, PortsMove
    <3>2. In(Buffered(lb_head), i) /\ Moves(port, Buffered(lb_head), q)
      BY <1>0, <1>6, <2>3, <3>1, HeadIs DEF Moves
    <3>3. QED
      BY <1>1, <3>2, TagsApart
  <2>4. QED
    BY <1>0, <2>1, <2>2, <2>3, PortsMove
<1>7. ASSUME q = Done
      PROVE  Came
  <2>1. i \in Slot /\ retire_tag'[i]
    BY <1>7, InMeansNext
  <2>2. R!Completed(ex_cm, i) /\ i \in InFlight /\ arch' <= Ins(i) /\ i \in InFlight'
    <3>1. data'[i].valid
      <4>1. R!RingInv'
        BY StepMoves
      <4>2. QED
        BY <2>1, <4>1, Sets DEF R!RingInv, R!NoStaleCompletion
    <3>2. i \in InFlight'
      BY <2>1, <3>1 DEF InFlight
    <3>3. i \in InFlight
      BY <2>1, <3>2, OpsMove
    <3>4. arch' <= Ins(i)
      <4>1. Ins(i) \in Op
        BY <1>0, <2>1, <3>3, FlightIs
      <4>2. QED
        BY <3>2, <3>3, <4>1, OpsMove, Sizes DEF Op
    <3>5. QED
      BY <2>1, <3>2, <3>3, <3>4, OpsMove
  <2>3. PICK p : In(p, i) /\ (p = Done \/ \E w \in Ways : p = OnBus(w))
    BY <1>0, <2>2, CompletedIn
  <2>4. Moves(port, p, q)
    BY <1>7, <2>3 DEF Moves
  <2>5. QED
    BY <2>2, <2>3, <2>4
<1>8. QED
  BY <1>2, <1>3, <1>4, <1>5, <1>6, <1>7, InMeansNext

LEMMA PlacedStep ==
  ASSUME NEW go, NEW port, Step(go, port)
  PROVE  Placed'
<1>0. QueueInv /\ Placed
  BY DEF Step, QueueInv
<1>1. ASSUME NEW i \in InFlight' PROVE \E p : In(p, i)'
  <2>1. CASE i \in InFlight
    <3>1. arch' <= Ins(i)
      <4>1. Ins(i) \in Op
        BY <1>0, <2>1, FlightIs DEF InFlight
      <4>2. QED
        BY <1>1, <2>1, <4>1, OpsMove, Sizes DEF Op
    <3>2. PICK p : In(p, i)
      BY <1>0, <2>1 DEF Placed
    <3>3. PICK q : Moves(port, p, q)
      BY <3>2, MovesSome
    <3>4. QED
      BY <2>1, <3>1, <3>2, <3>3, MovesThere
  <2>2. CASE i \notin InFlight
    <3>1. PICK w \in Ways : w < Entering(go) /\ i = dp_rob_idx[w]
      BY <1>1, <2>2, OpsMove
    <3>2. i \in Slot
      BY <1>1 DEF InFlight
    <3>3. NewEntry(go, w) \in rs' /\ NewEntry(go, w).rob_idx = i
      BY <3>1, <3>2, StationMoves
    <3>4. PICK e : e = NewEntry(go, w)
      OBVIOUS
    <3>5. In(InStation(e), i)'
      BY <3>3, <3>4, InMeansNext
    <3>6. PICK p : p = InStation(e)
      OBVIOUS
    <3>7. In(p, i)'
      BY <3>5, <3>6 DEF In, InStation
    <3>8. QED
      BY <3>7
  <2>3. QED
    BY <2>1, <2>2
<1>2. ASSUME NEW p, NEW i, In(p, i)' PROVE i \in InFlight'
  <2>1. \A w \in Ways : w < Entering(go) /\ i = dp_rob_idx[w] => i \in InFlight'
    BY OpsMove
  <2>2. QED
    BY <1>2, <2>1, MovesFrom
<1>3. ASSUME NEW p, NEW q, NEW i, In(p, i)', In(q, i)' PROVE p = q
  <2>1. CASE i \in InFlight
    <3>1. \A w \in Ways : w < Entering(go) => i # dp_rob_idx[w]
      BY <2>1, OpsMove
    <3>2. PICK r : In(r, i) /\ Moves(port, r, p)
      BY <1>3, <3>1, MovesFrom
    <3>3. PICK s : In(s, i) /\ Moves(port, s, q)
      BY <1>3, <3>1, MovesFrom
    <3>4. r = s
      BY <1>0, <2>1, <3>2, <3>3 DEF Placed
    <3>5. QED
      BY <3>2, <3>3, <3>4, MovesOne
  <2>2. CASE i \notin InFlight
    <3>1. PICK w \in Ways : w < Entering(go) /\ p = InStation(NewEntry(go, w)) /\ i = dp_rob_idx[w]
      BY <1>3, <2>2, MovesFrom
    <3>2. PICK v \in Ways : v < Entering(go) /\ q = InStation(NewEntry(go, v)) /\ i = dp_rob_idx[v]
      BY <1>3, <2>2, MovesFrom
    <3>3. Ins(i)' = fpc + w /\ Ins(i)' = fpc + v
      BY <3>1, <3>2, OpsMove
    <3>4. w = v
      BY <1>0, <3>3, Typed, Sets
    <3>5. QED
      BY <3>1, <3>2, <3>4
  <2>3. QED
    BY <2>1, <2>2
<1>4. QED
  BY <1>1, <1>2, <1>3 DEF Placed

-----------------------------------------------------------------------------
(* The station carries the places that were given at dispatch. *)

(* The index that a store carries is one behind its place. *)
LEMMA PlaceBack ==
  ASSUME NEW p, NEW kind, NEW h \in SQ!Idx, NEW a \in Nat, NEW k \in Op, a <= k,
         p[k].kind = kind, Count(p, kind, a, k) < LSQ_SIZE
  PROVE  SQ!Wrap(SQ!Wrap(h + Count(p, kind, a, k + 1)) - 1) = SQ!Wrap(h + Count(p, kind, a, k))
<1>1. PICK c \in Nat : c = Count(p, kind, a, k)
  BY CountType DEF Op
<1>2. Count(p, kind, a, k + 1) = c + 1
  BY <1>1, CountStep
<1>3. h \in 0 .. LSQ_SIZE - 1 /\ LSQ_SIZE \in Nat /\ LSQ_SIZE >= 2 /\ c < LSQ_SIZE
  BY <1>1, Sets, Sizes
<1>4. SQ!Wrap(h + c) = IF h + c < LSQ_SIZE THEN h + c ELSE h + c - LSQ_SIZE
  BY <1>3, SqWraps
<1>5. SQ!Wrap(h + (c + 1)) = IF h + c + 1 < LSQ_SIZE THEN h + c + 1 ELSE h + c + 1 - LSQ_SIZE
  BY <1>3, SqWraps
<1>6. PICK y \in Int : y = SQ!Wrap(h + (c + 1))
  BY <1>3, <1>5
<1>7. SQ!Wrap(y - 1) = IF y - 1 < 0 THEN y - 1 + LSQ_SIZE ELSE y - 1
  BY <1>3, <1>5, <1>6, SqWraps
<1>8. QED
  BY <1>1, <1>2, <1>3, <1>4, <1>5, <1>6, <1>7

LEMMA CarriedPlace ==
  ASSUME Front, QueueRoom, sq_head \in SQ!Idx, lq_head \in SQ!Idx, NEW k \in Op, arch <= k, k < fpc
  PROVE  /\ prog[k].kind = "store" => SQ!Wrap(SqOf(k + 1) - 1) = SqOf(k)
         /\ prog[k].kind = "load" => SQ!Wrap(LqOf(k + 1) - 1) = LqOf(k)
<1>1. arch \in Nat /\ fpc \in Nat /\ k \in arch .. fpc
  BY Sizes DEF Front, Op
<1>2. Count(prog, "store", arch, k) < LSQ_SIZE /\ Count(prog, "load", arch, k) < LSQ_SIZE
  BY <1>1, RoomIs DEF RoomCounts
<1>3. \A l : LqOf(l) = SQ!Wrap(lq_head + Count(prog, "load", arch, l))
  BY DEF LqOf, SQ!Wrap, LQ!Wrap
<1>4. QED
  BY <1>1, <1>2, <1>3, PlaceBack DEF SqOf

(* The same after the edge. *)
LEMMA CarriedPlaceNext ==
  ASSUME NEW go, NEW port, Step(go, port), NEW k \in Op, arch' <= k, k < fpc'
  PROVE  /\ prog[k].kind = "store" => SQ!Wrap(SqOf(k + 1)' - 1) = SqOf(k)'
         /\ prog[k].kind = "load" => SQ!Wrap(LqOf(k + 1)' - 1) = LqOf(k)'
<1>1. Front' /\ QueueRoom' /\ sq_head' \in SQ!Idx /\ lq_head' \in SQ!Idx /\ prog' = prog
  BY FrontStep, PointersMove, StepMoves DEF Step
<1>2. arch' \in Nat /\ fpc' \in Nat /\ k \in arch' .. fpc'
  BY OpsMove, Sizes DEF Op
<1>3. RoomCounts'
  BY PlacesKept
<1>4. Count(prog, "store", arch', k) < LSQ_SIZE /\ Count(prog, "load", arch', k) < LSQ_SIZE
  BY <1>1, <1>2, <1>3 DEF RoomCounts
<1>5. \A l : /\ LqOf(l)' = SQ!Wrap(lq_head' + Count(prog, "load", arch', l))
             /\ SqOf(l)' = SQ!Wrap(sq_head' + Count(prog, "store", arch', l))
  BY <1>1 DEF SqOf, LqOf, SQ!Wrap, LQ!Wrap
<1>6. QED
  BY <1>1, <1>2, <1>4, <1>5, PlaceBack

(* Stores, and loads, at a port. *)
LEMMA PortPlace ==
  ASSUME NEW go, NEW port, Step(go, port), NEW w \in Ways, is_ex[w].valid
  PROVE  LET i == is_ex[w].rob_idx
         IN  /\ In(AtPort(w), i) /\ i \in InFlight /\ i \in Slot /\ arch' <= Ins(i) /\ Ins(i) < fpc
             /\ is_ex[w].kind = KindOf(i) /\ is_ex[w].addr = AddrOf(i) /\ is_ex[w].value = Ins(i) + 1
             /\ KindOf(i) = "store" => SQ!Wrap(is_ex[w].SQ_idx - 1) = SqOf(Ins(i))
             /\ KindOf(i) = "load" => SQ!Wrap(is_ex[w].LQ_idx - 1) = LqOf(Ins(i))
<1>0. QueueInv /\ QueueRoom /\ Front
  BY QueueFront DEF Step
<1>1. PICK i : i = is_ex[w].rob_idx
  OBVIOUS
<1>2. In(AtPort(w), i)
  BY <1>1, InMeans
<1>3. i \in InFlight /\ i \in Slot /\ arch' <= Ins(i) /\ Ins(i) < fpc /\ Ins(i) \in Op /\ arch <= Ins(i)
  BY <1>2, StaysIn, TagsApart
<1>4. /\ is_ex[w].kind = KindOf(i) /\ is_ex[w].addr = AddrOf(i) /\ is_ex[w].value = Ins(i) + 1
      /\ is_ex[w].SQ_idx = SqOf(Ins(i) + 1) /\ is_ex[w].LQ_idx = LqOf(Ins(i) + 1)
  BY <1>0, <1>1, PortIs
<1>5. sq_head \in SQ!Idx /\ lq_head \in SQ!Idx
  BY <1>0, Typed
<1>6. /\ KindOf(i) = "store" => SQ!Wrap(SqOf(Ins(i) + 1) - 1) = SqOf(Ins(i))
      /\ KindOf(i) = "load" => SQ!Wrap(LqOf(Ins(i) + 1) - 1) = LqOf(Ins(i))
  BY <1>0, <1>3, <1>5, CarriedPlace DEF KindOf, Ins
<1>7. QED
  BY <1>1, <1>2, <1>3, <1>4, <1>6

(* Places of operations that stay are not those of operations that enter. *)
LEMMA EnteringPlaces ==
  ASSUME NEW go, NEW port, Step(go, port), NEW w \in Ways, w < Entering(go),
         NEW k \in Op, arch' <= k, k < fpc, NEW l \in Nat, l = fpc + w
  PROVE  /\ prog[k].kind = "store" => SqOf(k) # SqOf(l)'
         /\ prog[k].kind = "load" => LqOf(k) # LqOf(l)'
<1>0. QueueInv /\ go \in BOOLEAN /\ prog' = prog
  BY StepMoves DEF Step
<1>1. fpc \in Nat /\ fpc' = fpc + Entering(go) /\ Entering(go) \in 0 .. 2 /\ w \in {0, 1} /\ arch' \in Int
  BY <1>0, Typed, OpsMove, Sets, DispatchCount
<1>2. l \in arch' .. fpc' /\ k < l
  BY <1>1, OpsMove DEF Op
<1>3. /\ prog[k].kind = "store" => SqOf(k)' # SqOf(l)'
      /\ prog[k].kind = "load" => LqOf(k)' # LqOf(l)'
  <2>1. PlacesApart'
    BY PlacesKept
  <2>2. QED
    BY <1>0, <1>2, <2>1 DEF PlacesApart
<1>4. SqOf(k)' = SqOf(k) /\ LqOf(k)' = LqOf(k)
  <2>1. k \in arch' .. fpc
    BY <1>1 DEF Op
  <2>2. QED
    BY <2>1, PlacesKept
<1>5. QED
  BY <1>3, <1>4

-----------------------------------------------------------------------------
(* No two operations share a place; what the store queue holds of them. *)

LEMMA SqPlaceOne ==
  ASSUME PlacesApart, QueueInv, NEW i \in InFlight, NEW j \in InFlight
  PROVE  /\ KindOf(i) = "store" /\ KindOf(j) = "store" /\ SqOf(Ins(i)) = SqOf(Ins(j)) => i = j
         /\ KindOf(i) = "load" /\ KindOf(j) = "load" /\ LqOf(Ins(i)) = LqOf(Ins(j)) => i = j
<1>1. /\ Ins(i) \in Op /\ Ins(j) \in Op /\ arch <= Ins(i) /\ arch <= Ins(j)
      /\ Ins(i) < fpc /\ Ins(j) < fpc /\ arch \in Nat /\ fpc \in Nat
  BY FlightIs, Typed, Sizes DEF InFlight
<1>2. Ins(i) \in arch .. fpc /\ Ins(j) \in arch .. fpc /\ Ins(i) \in Int /\ Ins(j) \in Int
  BY <1>1 DEF Op
<1>3. Ins(i) < Ins(j) \/ Ins(j) < Ins(i) \/ Ins(i) = Ins(j)
  BY <1>2
<1>4. KindOf(i) = prog[Ins(i)].kind /\ KindOf(j) = prog[Ins(j)].kind
  BY DEF KindOf, Ins
<1>5. Ins(i) = Ins(j) => i = j
  BY OneSlot
<1>6. QED
  BY <1>1, <1>2, <1>3, <1>4, <1>5 DEF PlacesApart

(* Which way executes into the place of i: the one that has it. *)
LEMMA Executing ==
  ASSUME NEW go, NEW port, Step(go, port), NEW w \in Ways
  PROVE  /\ \A i \in Flying("store") :
              FU_SQ_out[w].done /\ SQ!Wrap(FU_SQ_out[w].SQ_idx - 1) = SqOf(Ins(i)) <=> In(AtPort(w), i)
         /\ \A i \in Flying("load") :
              FU_LQ_out[w].done /\ LQ!Wrap(FU_LQ_out[w].LQ_idx - 1) = LqOf(Ins(i)) <=> In(AtPort(w), i)
         /\ \A i : In(AtPort(w), i) => FU_SQ_out[w].addr = AddrOf(i) /\ FU_LQ_out[w].addr = AddrOf(i)
                                       /\ FU_SQ_out[w].value = Ins(i) + 1
<1>0. QueueInv /\ PlacesApart
  BY PlacesKept DEF Step
<1>1. /\ FU_SQ_out[w].done <=> is_ex[w].kind = "store"
      /\ FU_LQ_out[w].done <=> is_ex[w].kind = "load"
      /\ FU_SQ_out[w].SQ_idx = is_ex[w].SQ_idx /\ FU_LQ_out[w].LQ_idx = is_ex[w].LQ_idx
      /\ FU_SQ_out[w].addr = is_ex[w].addr /\ FU_LQ_out[w].addr = is_ex[w].addr
      /\ FU_SQ_out[w].value = is_ex[w].value
  <2>1. FU_SQ_out[w].done = (is_ex[w].kind = "store") /\ FU_LQ_out[w].done = (is_ex[w].kind = "load")
    BY DEF FU_SQ_out, FU_LQ_out, LOAD_ready
  <2>2. QED
    BY <2>1 DEF FU_SQ_out, FU_LQ_out
<1>2. is_ex[w].kind \in {"store", "load"} => is_ex[w].valid
  BY <1>0, PortIs DEF Kind
<1>3. is_ex[w].valid => LET i == is_ex[w].rob_idx
         IN  /\ In(AtPort(w), i) /\ i \in InFlight /\ i \in Slot /\ arch' <= Ins(i) /\ Ins(i) < fpc
             /\ is_ex[w].kind = KindOf(i) /\ is_ex[w].addr = AddrOf(i) /\ is_ex[w].value = Ins(i) + 1
             /\ KindOf(i) = "store" => SQ!Wrap(is_ex[w].SQ_idx - 1) = SqOf(Ins(i))
             /\ KindOf(i) = "load" => SQ!Wrap(is_ex[w].LQ_idx - 1) = LqOf(Ins(i))
  BY PortPlace
<1>4. \A i : In(AtPort(w), i) => is_ex[w].valid /\ is_ex[w].rob_idx = i
  BY InMeans
<1>5. \A x : LQ!Wrap(x) = SQ!Wrap(x)
  BY DEF LQ!Wrap, SQ!Wrap
<1>6. ASSUME NEW i \in Flying("store")
      PROVE  FU_SQ_out[w].done /\ SQ!Wrap(FU_SQ_out[w].SQ_idx - 1) = SqOf(Ins(i)) <=> In(AtPort(w), i)
  <2>1. i \in InFlight /\ KindOf(i) = "store"
    BY DEF Flying
  <2>2. QED
    BY <1>0, <1>1, <1>2, <1>3, <1>4, <2>1, SqPlaceOne
<1>7. ASSUME NEW i \in Flying("load")
      PROVE  FU_LQ_out[w].done /\ LQ!Wrap(FU_LQ_out[w].LQ_idx - 1) = LqOf(Ins(i)) <=> In(AtPort(w), i)
  <2>1. i \in InFlight /\ KindOf(i) = "load"
    BY DEF Flying
  <2>2. QED
    BY <1>0, <1>1, <1>2, <1>3, <1>4, <1>5, <2>1, SqPlaceOne
<1>8. \A i : In(AtPort(w), i) => FU_SQ_out[w].addr = AddrOf(i) /\ FU_LQ_out[w].addr = AddrOf(i)
                                 /\ FU_SQ_out[w].value = Ins(i) + 1
  BY <1>1, <1>3, <1>4
<1>9. QED
  BY <1>6, <1>7, <1>8

LEMMA EnteringOp ==
  ASSUME NEW go, NEW port, Step(go, port)
  PROVE  \A l \in Nat : fpc <= l /\ l < fpc' => \E w \in Ways : w < Entering(go) /\ l = fpc + w
<1>1. QueueInv /\ go \in BOOLEAN
  BY DEF Step
<1>2. fpc \in Nat /\ fpc' = fpc + Entering(go) /\ Entering(go) \in 0 .. 2 /\ Ways = {0, 1}
  BY <1>1, Typed, OpsMove, Sets, DispatchCount
<1>3. QED
  BY <1>2

(* The place of a store that stays. *)
LEMMA StoreKept ==
  ASSUME NEW go, NEW port, Step(go, port), NEW i \in Flying("store"), arch' <= Ins(i)
  PROVE  /\ (\E w \in Ways : In(AtPort(w), i)) =>
              sq'[SqOf(Ins(i))] = [valid |-> TRUE, addr |-> AddrOf(i), value |-> Ins(i) + 1]
         /\ (~\E w \in Ways : In(AtPort(w), i)) => sq'[SqOf(Ins(i))] = sq[SqOf(Ins(i))]
<1>0. QueueInv /\ go \in BOOLEAN
  BY DEF Step
<1>1. i \in InFlight /\ KindOf(i) = "store" /\ Ins(i) \in Op /\ arch <= Ins(i) /\ Ins(i) < fpc
  BY <1>0, FlightIs DEF Flying, InFlight
<1>2. PICK s : s = SqOf(Ins(i))
  OBVIOUS
<1>3. s \in SQ!Idx
  <2>1. Ins(i) \in arch .. fpc
    BY <1>0, <1>1, Typed DEF Op
  <2>2. QED
    BY <1>2, <2>1, PlacesKept
<1>4. sq'[s] = SQ!NextEntry(Dispatched(go, "store"), FU_SQ_out, s)
  BY <1>3, PointersMove
<1>5. ~\E k \in 0 .. SQ!Upto(Dispatched(go, "store"), 1) - 1 : s = SQ!Wrap(sq_tail + k)
  <2>1. SUFFICES ASSUME NEW k \in 0 .. SQ!Upto(Dispatched(go, "store"), 1) - 1, s = SQ!Wrap(sq_tail + k)
                 PROVE  FALSE
    OBVIOUS
  <2>2. fpc \in Nat /\ fpc' \in 0 .. NUM_OPS /\ fpc' = fpc + Entering(go) /\ Entering(go) \in 0 .. 2
    BY <1>0, Typed, OpsMove, DispatchCount
  <2>3. SQ!Upto(Dispatched(go, "store"), 1) = Count(prog, "store", fpc, fpc')
    BY <1>0, <2>2, DispatchedCount
  <2>4. k \in Nat /\ k < Count(prog, "store", fpc, fpc')
    <3>1. Count(prog, "store", fpc, fpc') \in Nat
      BY <2>2, CountType
    <3>2. QED
      BY <2>3, <3>1
  <2>5. PICK l \in Among(prog, "store", fpc, fpc') : Count(prog, "store", fpc, l) = k
    BY <2>2, <2>4, RankExists
  <2>6. l \in Nat /\ fpc <= l /\ l < fpc' /\ l \in fpc .. fpc'
    BY <2>2, <2>5 DEF Among, Op
  <2>7. s = SqOf(l)'
    BY <2>1, <2>5, <2>6, PlacesKept
  <2>8. PICK w \in Ways : w < Entering(go) /\ l = fpc + w
    BY <2>6, EnteringOp
  <2>9. QED
    BY <1>1, <1>2, <2>6, <2>7, <2>8, EnteringPlaces DEF KindOf, Ins
<1>6. \A w \in Ways : FU_SQ_out[w].done /\ SQ!Wrap(FU_SQ_out[w].SQ_idx - 1) = s <=> In(AtPort(w), i)
  BY <1>2, Executing
<1>7. \A w \in Ways : In(AtPort(w), i) => FU_SQ_out[w].addr = AddrOf(i) /\ FU_SQ_out[w].value = Ins(i) + 1
  BY Executing
<1>8. /\ (\E w \in Ways : In(AtPort(w), i)) =>
           SQ!NextEntry(Dispatched(go, "store"), FU_SQ_out, s) = [valid |-> TRUE, addr |-> AddrOf(i), value |-> Ins(i) + 1]
      /\ (~\E w \in Ways : In(AtPort(w), i)) =>
           SQ!NextEntry(Dispatched(go, "store"), FU_SQ_out, s) = sq[s]
  BY <1>5, <1>6, <1>7, Sets DEF SQ!NextEntry
<1>9. QED
  BY <1>2, <1>4, <1>8

(* The place of a store that enters. *)
LEMMA StoreNew ==
  ASSUME NEW go, NEW port, Step(go, port), NEW w \in Ways, w < Entering(go),
         NEW l \in Nat, l = fpc + w, prog[l].kind = "store"
  PROVE  ~sq'[SqOf(l)'].valid
<1>0. QueueInv /\ go \in BOOLEAN
  BY DEF Step
<1>1. fpc \in Nat /\ fpc' \in Nat /\ fpc' = fpc + Entering(go) /\ Entering(go) \in 0 .. 2 /\ w \in {0, 1}
      /\ l \in Op
  BY <1>0, Typed, OpsMove, DispatchCount, Sets
<1>2. l \in fpc .. fpc' /\ fpc <= l /\ l < fpc'
  BY <1>1
<1>3. PICK s : s = SqOf(l)'
  OBVIOUS
<1>4. PICK k \in Nat : k = Count(prog, "store", fpc, l)
  BY <1>1, CountType
<1>5. s = SQ!Wrap(sq_tail + k)
  BY <1>2, <1>3, <1>4, PlacesKept
<1>6. s \in SQ!Idx
  <2>1. sq_tail + k \in Int
    BY <1>0, Typed, Sets
  <2>2. QED
    BY <1>5, <2>1, SqWraps
<1>7. k < SQ!Upto(Dispatched(go, "store"), 1) /\ SQ!Upto(Dispatched(go, "store"), 1) \in Nat
  <2>1. SQ!Upto(Dispatched(go, "store"), 1) = Count(prog, "store", fpc, fpc')
    BY <1>0, <1>1, DispatchedCount
  <2>2. QED
    BY <1>1, <1>2, <1>4, <2>1, CountOrder, CountType
<1>8. k \in 0 .. SQ!Upto(Dispatched(go, "store"), 1) - 1
  BY <1>7
<1>9. ASSUME NEW v \in Ways PROVE ~(FU_SQ_out[v].done /\ SQ!Wrap(FU_SQ_out[v].SQ_idx - 1) = s)
  <2>1. SUFFICES ASSUME FU_SQ_out[v].done, SQ!Wrap(FU_SQ_out[v].SQ_idx - 1) = s PROVE FALSE
    OBVIOUS
  <2>2. is_ex[v].kind = "store" /\ FU_SQ_out[v].SQ_idx = is_ex[v].SQ_idx
    <3>1. FU_SQ_out[v].done = (is_ex[v].kind = "store") /\ FU_SQ_out[v].SQ_idx = is_ex[v].SQ_idx
      BY DEF FU_SQ_out
    <3>2. QED
      BY <2>1, <3>1
  <2>3. is_ex[v].valid
    BY <1>0, <2>2, PortIs DEF Kind
  <2>4. PICK i : i = is_ex[v].rob_idx
    OBVIOUS
  <2>5. /\ i \in InFlight /\ i \in Slot /\ arch' <= Ins(i) /\ Ins(i) < fpc
        /\ KindOf(i) = "store" /\ SQ!Wrap(is_ex[v].SQ_idx - 1) = SqOf(Ins(i))
    BY <2>2, <2>3, <2>4, PortPlace
  <2>6. Ins(i) \in Op
    BY <1>0, <2>5, FlightIs
  <2>7. SqOf(Ins(i)) # SqOf(l)'
    BY <2>5, <2>6, EnteringPlaces DEF KindOf, Ins
  <2>8. QED
    BY <1>3, <2>1, <2>2, <2>5, <2>7
<1>10. sq'[s] = SQ!NextEntry(Dispatched(go, "store"), FU_SQ_out, s)
  BY <1>6, PointersMove
<1>11. SQ!NextEntry(Dispatched(go, "store"), FU_SQ_out, s) = SQ!Reset
  BY <1>5, <1>8, <1>9, Sets DEF SQ!NextEntry
<1>12. QED
  BY <1>3, <1>10, <1>11 DEF SQ!Reset

-----------------------------------------------------------------------------
(* What the load queue holds of them. *)

(* The place of the load queue that a load of the bundle takes: its own. *)
LEMMA AllocatedIs ==
  ASSUME NEW go, NEW port, Step(go, port), NEW w \in Ways, NEW l \in Nat, l = fpc + w, NEW s
  PROVE  Dispatched(go, "load")[w] /\ LQ!Wrap(LQ!LQ_idx(Dispatched(go, "load"), w) - 1) = s
           <=> w < Entering(go) /\ prog[l].kind = "load" /\ s = LqOf(l)'
<1>0. QueueInv /\ go \in BOOLEAN
  BY DEF Step
<1>1. Dispatched(go, "load")[w] <=> w < Entering(go) /\ prog[l].kind = "load"
  BY <1>0, DispatchedCount
<1>2. ASSUME w < Entering(go), prog[l].kind = "load"
      PROVE  LQ!Wrap(LQ!LQ_idx(Dispatched(go, "load"), w) - 1) = LqOf(l)'
  <2>1. /\ fpc \in Nat /\ fpc' = fpc + Entering(go) /\ Entering(go) \in 0 .. 2 /\ w \in {0, 1}
        /\ arch' \in Int /\ arch' <= fpc /\ fpc' <= NUM_OPS
    BY <1>0, Typed, OpsMove, Sets, DispatchCount, Sizes
  <2>2. l + 1 \in fpc .. fpc' /\ l \in Op /\ arch' <= l /\ l < fpc'
    BY <1>2, <2>1, Sizes DEF Op
  <2>3. PICK k \in fpc .. fpc' : k = l + 1
    BY <2>2
  <2>4. LqOf(k)' = SQ!Wrap(lq_tail + Count(prog, "load", fpc, k))
    BY PlacesKept
  <2>5. SQ!Upto(Dispatched(go, "load"), w) = Count(prog, "load", fpc, k)
    <3>1. k = fpc + w + 1
      BY <2>3
    <3>2. QED
      BY <1>0, <1>2, <3>1, DispatchedCount
  <2>6. LQ!Upto(Dispatched(go, "load"), w) = SQ!Upto(Dispatched(go, "load"), w)
    BY <2>1, UptoIs
  <2>7. LQ!LQ_idx(Dispatched(go, "load"), w) = LqOf(k)'
    BY <2>4, <2>5, <2>6 DEF LQ!LQ_idx, LQ!Wrap, SQ!Wrap
  <2>8. SQ!Wrap(LqOf(k)' - 1) = LqOf(l)'
    BY <1>2, <2>2, <2>3, CarriedPlaceNext
  <2>9. QED
    BY <2>7, <2>8 DEF LQ!Wrap, SQ!Wrap
<1>3. QED
  BY <1>1, <1>2

(* The place of a load that stays. *)
LEMMA LoadKept ==
  ASSUME NEW go, NEW port, Step(go, port), NEW i \in Flying("load"), arch' <= Ins(i)
  PROVE  /\ (\E w \in Ways : In(AtPort(w), i)) =>
              lq'[LqOf(Ins(i))] = [lq[LqOf(Ins(i))] EXCEPT !.valid = TRUE, !.addr = AddrOf(i)]
         /\ (~\E w \in Ways : In(AtPort(w), i)) => lq'[LqOf(Ins(i))] = lq[LqOf(Ins(i))]
<1>0. QueueInv /\ go \in BOOLEAN
  BY DEF Step
<1>1. i \in InFlight /\ KindOf(i) = "load" /\ Ins(i) \in Op /\ arch <= Ins(i) /\ Ins(i) < fpc
  BY <1>0, FlightIs DEF Flying, InFlight
<1>2. PICK s : s = LqOf(Ins(i))
  OBVIOUS
<1>3. s \in LQ!Idx
  <2>1. Ins(i) \in arch .. fpc
    BY <1>0, <1>1, Typed DEF Op
  <2>2. QED
    BY <1>2, <2>1, PlacesKept, Sets
<1>4. lq'[s] = LQ!NextEntry(Dispatched(go, "load"), dp_rob_idx, FU_LQ_out, s)
  BY <1>3, PointersMove
<1>5. ASSUME NEW w \in Ways
      PROVE  ~(Dispatched(go, "load")[w] /\ LQ!Wrap(LQ!LQ_idx(Dispatched(go, "load"), w) - 1) = s)
  <2>1. PICK l \in Nat : l = fpc + w
    BY <1>0, Typed, Sets
  <2>2. w < Entering(go) => LqOf(Ins(i)) # LqOf(l)'
    BY <1>1, <2>1, EnteringPlaces DEF KindOf, Ins
  <2>3. QED
    BY <1>2, <2>1, <2>2, AllocatedIs
<1>6. \A w \in Ways : FU_LQ_out[w].done /\ LQ!Wrap(FU_LQ_out[w].LQ_idx - 1) = s <=> In(AtPort(w), i)
  BY <1>2, Executing
<1>7. \A w \in Ways : In(AtPort(w), i) => FU_LQ_out[w].addr = AddrOf(i)
  BY Executing
<1>8. /\ (\E w \in Ways : In(AtPort(w), i)) =>
           LQ!NextEntry(Dispatched(go, "load"), dp_rob_idx, FU_LQ_out, s)
             = [lq[s] EXCEPT !.valid = TRUE, !.addr = AddrOf(i)]
      /\ (~\E w \in Ways : In(AtPort(w), i)) =>
           LQ!NextEntry(Dispatched(go, "load"), dp_rob_idx, FU_LQ_out, s) = lq[s]
  <2>1. Ways = {0, 1}
    BY Sets
  <2>2. QED
    BY <1>5, <1>6, <1>7, <2>1 DEF LQ!NextEntry
<1>9. QED
  BY <1>2, <1>4, <1>8

(* The place of a load that enters. *)
LEMMA LoadNew ==
  ASSUME NEW go, NEW port, Step(go, port), NEW w \in Ways, w < Entering(go),
         NEW l \in Nat, l = fpc + w, prog[l].kind = "load"
  PROVE  ~lq'[LqOf(l)'].valid /\ lq'[LqOf(l)'].rob_idx = dp_rob_idx[w]
<1>0. QueueInv /\ go \in BOOLEAN /\ prog' = prog
  BY StepMoves DEF Step
<1>1. /\ fpc \in Nat /\ fpc' \in Nat /\ fpc' = fpc + Entering(go) /\ Entering(go) \in 0 .. 2 /\ w \in {0, 1}
      /\ l \in Op /\ arch' \in Int /\ arch' <= fpc /\ fpc' <= NUM_OPS
  BY <1>0, Typed, OpsMove, DispatchCount, Sets, Sizes
<1>2. PICK s : s = LqOf(l)'
  OBVIOUS
<1>3. s \in LQ!Idx
  <2>1. l \in fpc .. fpc'
    BY <1>1
  <2>2. s = SQ!Wrap(lq_tail + Count(prog, "load", fpc, l))
    BY <1>2, <2>1, PlacesKept
  <2>3. lq_tail + Count(prog, "load", fpc, l) \in Int
    BY <1>0, <1>1, CountType, Typed, Sets
  <2>4. QED
    BY <2>2, <2>3, SqWraps, Sets
<1>4. lq'[s] = LQ!NextEntry(Dispatched(go, "load"), dp_rob_idx, FU_LQ_out, s)
  BY <1>3, PointersMove
<1>5. Dispatched(go, "load")[w] /\ LQ!Wrap(LQ!LQ_idx(Dispatched(go, "load"), w) - 1) = s
  BY <1>2, AllocatedIs
<1>6. w = 0 => ~(Dispatched(go, "load")[1] /\ LQ!Wrap(LQ!LQ_idx(Dispatched(go, "load"), 1) - 1) = s)
  <2>1. SUFFICES ASSUME w = 0, Dispatched(go, "load")[1],
                        LQ!Wrap(LQ!LQ_idx(Dispatched(go, "load"), 1) - 1) = s
                 PROVE  FALSE
    OBVIOUS
  <2>2. PICK k \in Nat : k = fpc + 1
    BY <1>1
  <2>3. 1 < Entering(go) /\ s = LqOf(k)'
    BY <2>1, <2>2, AllocatedIs, Sets
  <2>4. k \in arch' .. fpc' /\ l < k /\ arch' <= l
    BY <1>1, <2>1, <2>2, <2>3
  <2>5. PlacesApart'
    BY PlacesKept
  <2>6. LqOf(l)' # LqOf(k)'
    BY <1>0, <1>1, <2>4, <2>5 DEF PlacesApart
  <2>7. QED
    BY <1>2, <2>3, <2>6
<1>7. LQ!NextEntry(Dispatched(go, "load"), dp_rob_idx, FU_LQ_out, s)
        = [LQ!Reset EXCEPT !.rob_idx = dp_rob_idx[w]]
  BY <1>1, <1>5, <1>6 DEF LQ!NextEntry
<1>8. QED
  BY <1>2, <1>4, <1>7 DEF LQ!Reset

-----------------------------------------------------------------------------
(* What is in flight next, and the places it is in. *)

(* What is in flight after an edge was before, with its place, or comes with it. *)
LEMMA FlyingNext ==
  ASSUME NEW go, NEW port, Step(go, port), NEW kind, NEW i, i \in Flying(kind)'
  PROVE  \/ /\ i \in Flying(kind) /\ i \in InFlight /\ i \in Slot /\ arch' <= Ins(i) /\ KindOf(i) = kind
            /\ Ins(i) \in Op /\ arch <= Ins(i) /\ Ins(i) < fpc
            /\ Ins(i)' = Ins(i) /\ AddrOf(i)' = AddrOf(i)
            /\ (SqOf(Ins(i)))' = SqOf(Ins(i)) /\ (LqOf(Ins(i)))' = LqOf(Ins(i))
            /\ \A q : In(q, i)' => \E p : In(p, i) /\ Moves(port, p, q)
         \/ /\ i \notin InFlight
            /\ \E w \in Ways : \E l \in Nat :
                 /\ w < Entering(go) /\ l = fpc + w /\ prog[l].kind = kind /\ i = dp_rob_idx[w]
                 /\ (SqOf(Ins(i)))' = SqOf(l)' /\ (LqOf(Ins(i)))' = LqOf(l)'
            /\ \A q : In(q, i)' => \E e : q = InStation(e)
            /\ \E e \in rs' : In(InStation(e), i)'
<1>0. QueueInv /\ go \in BOOLEAN
  BY DEF Step
<1>1. i \in InFlight' /\ i \in Slot /\ KindOf(i)' = kind
  BY DEF Flying, InFlight
<1>2. CASE i \in InFlight
  <2>1. arch' <= Ins(i)
    <3>1. Ins(i) < arch' => i \notin InFlight'
      BY <1>2, OpsMove
    <3>2. Ins(i) \in Int /\ arch' \in Int
      BY <1>0, <1>1, <1>2, FlightIs, OpsMove DEF Op
    <3>3. QED
      BY <1>1, <3>1, <3>2
  <2>2. Ins(i)' = Ins(i) /\ KindOf(i)' = KindOf(i) /\ AddrOf(i)' = AddrOf(i)
    BY <1>2, <2>1, OpsMove
  <2>3. Ins(i) \in Op /\ arch <= Ins(i) /\ Ins(i) < fpc
    BY <1>0, <1>1, <1>2, FlightIs
  <2>4. PICK k \in arch' .. fpc : k = Ins(i)
    BY <1>0, <2>1, <2>3, Typed DEF Op
  <2>5. (SqOf(Ins(i)))' = SqOf(Ins(i)) /\ (LqOf(Ins(i)))' = LqOf(Ins(i))
    <3>1. (SqOf(Ins(i)))' = SqOf(k)' /\ (LqOf(Ins(i)))' = LqOf(k)'
      BY <2>2, <2>4 DEF SqOf, LqOf
    <3>2. QED
      BY <2>4, <3>1, PlacesKept
  <2>6. \A q : In(q, i)' => \E p : In(p, i) /\ Moves(port, p, q)
    <3>1. \A w \in Ways : w < Entering(go) => i # dp_rob_idx[w]
      BY <1>1, <1>2, OpsMove
    <3>2. QED
      BY <3>1, MovesFrom
  <2>7. QED
    BY <1>1, <1>2, <2>1, <2>2, <2>3, <2>5, <2>6 DEF Flying
<1>3. CASE i \notin InFlight
  <2>1. PICK w \in Ways : w < Entering(go) /\ i = dp_rob_idx[w]
    BY <1>1, <1>3, OpsMove
  <2>2. Ins(i)' = fpc + w /\ KindOf(i)' = prog[fpc + w].kind
    BY <1>1, <2>1, OpsMove
  <2>3. PICK l \in Nat : l = fpc + w
    BY <1>0, Typed, Sets
  <2>4. (SqOf(Ins(i)))' = SqOf(l)' /\ (LqOf(Ins(i)))' = LqOf(l)'
    BY <2>2, <2>3 DEF SqOf, LqOf
  <2>5. \A q : In(q, i)' => \E e : q = InStation(e)
    BY <1>3, MovesFrom
  <2>6. \E e \in rs' : In(InStation(e), i)'
    <3>1. PICK q : In(q, i)'
      BY <1>1, PlacedStep DEF Placed
    <3>2. PICK e : q = InStation(e)
      BY <2>5, <3>1
    <3>3. In(InStation(e), i)'
      <4>1. \A p : p = q => In(p, i)'
        BY <3>1
      <4>2. QED
        BY <3>2, <4>1 DEF InStation
    <3>4. QED
      BY <3>3, InMeansNext
  <2>7. QED
    BY <1>1, <1>3, <2>1, <2>2, <2>3, <2>4, <2>5, <2>6
<1>4. QED
  BY <1>2, <1>3

(* What moves to a place comes from where. *)
LEMMA MovesBack ==
  ASSUME NEW port, NEW p
  PROVE  /\ \A x : Moves(port, p, InStation(x)) => p = InStation(x)
         /\ \A w : Moves(port, p, AtPort(w)) =>
              \/ w \in Ways /\ p = AtPort(w) /\ is_stall(w)
              \/ w \in Ways /\ \E e \in port[w] : p = InStation(e)
         /\ \A w : Moves(port, p, OnBus(w)) => (w \in Ways /\ p = AtPort(w) /\ Ends(w))
                                               \/ (w = 0 /\ p = Buffered(lb_head) /\ rd_en)
         /\ \A j : Moves(port, p, Buffered(j)) =>
              \/ p = Buffered(j) /\ j \in InBuffer /\ ~Popped(j)
              \/ \E w \in Ways : p = AtPort(w) /\ wr_en[w] /\ j = Into(w)
         /\ Moves(port, p, Done) => p = Done \/ \E w \in Ways : p = OnBus(w)
<1>1. ASSUME NEW x, Moves(port, p, InStation(x)) PROVE p = InStation(x)
  BY <1>1, TagsApart DEF Moves
<1>2. ASSUME NEW w, Moves(port, p, AtPort(w))
      PROVE  \/ w \in Ways /\ p = AtPort(w) /\ is_stall(w)
             \/ w \in Ways /\ \E e \in port[w] : p = InStation(e)
  BY <1>2, TagsApart DEF Moves
<1>3. ASSUME NEW w, Moves(port, p, OnBus(w))
      PROVE  (w \in Ways /\ p = AtPort(w) /\ Ends(w)) \/ (w = 0 /\ p = Buffered(lb_head) /\ rd_en)
  BY <1>3, TagsApart DEF Moves
<1>4. ASSUME NEW j, Moves(port, p, Buffered(j))
      PROVE  \/ p = Buffered(j) /\ j \in InBuffer /\ ~Popped(j)
             \/ \E w \in Ways : p = AtPort(w) /\ wr_en[w] /\ j = Into(w)
  BY <1>4, TagsApart DEF Moves
<1>5. ASSUME Moves(port, p, Done) PROVE p = Done \/ \E w \in Ways : p = OnBus(w)
  BY <1>5, TagsApart DEF Moves
<1>6. QED
  BY <1>1, <1>2, <1>3, <1>4, <1>5

LEMMA StoresFilledStep ==
  ASSUME NEW go, NEW port, Step(go, port)
  PROVE  StoresFilled'
<1>0. QueueInv /\ Placed /\ StoresFilled
  BY DEF Step, QueueInv
<1>1. SUFFICES ASSUME NEW i, i \in Flying("store")', NEW e, e = sq'[(SqOf(Ins(i)))']
               PROVE  /\ e.valid => e.addr = AddrOf(i)' /\ e.value = Ins(i)' + 1
                      /\ \A x : In(InStation(x), i)' => ~e.valid
                      /\ \A w \in Ways : In(OnBus(w), i)' => e.valid
                      /\ In(Done, i)' => e.valid
  BY DEF StoresFilled
<1>2. CASE i \in InFlight
  <2>1. /\ i \in Flying("store") /\ i \in InFlight /\ i \in Slot /\ arch' <= Ins(i) /\ KindOf(i) = "store"
        /\ Ins(i)' = Ins(i) /\ AddrOf(i)' = AddrOf(i) /\ (SqOf(Ins(i)))' = SqOf(Ins(i))
        /\ \A q : In(q, i)' => \E p : In(p, i) /\ Moves(port, p, q)
    BY <1>1, <1>2, FlyingNext
  <2>2. e = sq'[SqOf(Ins(i))]
    BY <1>1, <2>1
  <2>3. PICK o : o = sq[SqOf(Ins(i))]
    OBVIOUS
  <2>4. /\ o.valid => o.addr = AddrOf(i) /\ o.value = Ins(i) + 1
        /\ \A x : In(InStation(x), i) => ~o.valid
        /\ \A w \in Ways : In(OnBus(w), i) => o.valid
        /\ In(Done, i) => o.valid
    BY <1>0, <2>1, <2>3, InMeans DEF StoresFilled
  <2>5. /\ (\E w \in Ways : In(AtPort(w), i)) => e = [valid |-> TRUE, addr |-> AddrOf(i), value |-> Ins(i) + 1]
        /\ (~\E w \in Ways : In(AtPort(w), i)) => e = o
    BY <2>1, <2>2, <2>3, StoreKept
  <2>6. \A p, q : In(p, i) /\ In(q, i) => p = q
    BY <1>0, <2>1 DEF Placed
  <2>7. e.valid => e.addr = AddrOf(i)' /\ e.value = Ins(i)' + 1
    BY <2>1, <2>4, <2>5
  <2>8. ASSUME NEW x, In(InStation(x), i)' PROVE ~e.valid
    <3>1. \E p : In(p, i) /\ Moves(port, p, InStation(x))
      <4>1. \A q : q = InStation(x) => In(q, i)'
        BY <2>8 DEF InStation
      <4>2. QED
        BY <2>1, <4>1
    <3>2. In(InStation(x), i)
      BY <3>1, MovesBack
    <3>3. ~\E w \in Ways : In(AtPort(w), i)
      BY <2>6, <3>2, TagsApart
    <3>4. QED
      BY <2>4, <2>5, <3>2, <3>3
  <2>9. ASSUME NEW w \in Ways, In(OnBus(w), i)' PROVE e.valid
    <3>1. \E p : In(p, i) /\ Moves(port, p, OnBus(w))
      <4>1. \A q : q = OnBus(w) => In(q, i)'
        BY <2>9 DEF OnBus
      <4>2. QED
        BY <2>1, <4>1
    <3>2. In(AtPort(w), i) \/ (In(Buffered(lb_head), i) /\ rd_en)
      BY <3>1, MovesBack
    <3>3. CASE In(Buffered(lb_head), i) /\ rd_en
      <4>1. LB!dout.valid
        BY <3>3 DEF rd_en
      <4>2. lb[lb_head].load.rob_idx = i
        BY <3>3, InMeans
      <4>3. KindOf(i) = "load"
        BY <1>0, <4>1, <4>2, HeadIs DEF LB!dout
      <4>4. QED
        BY <2>1, <4>3
    <3>4. CASE In(AtPort(w), i)
      BY <2>5, <3>4
    <3>5. QED
      BY <3>2, <3>3, <3>4
  <2>10. ASSUME In(Done, i)' PROVE e.valid
    <3>1. \E p : In(p, i) /\ Moves(port, p, Done)
      <4>1. \A q : q = Done => In(q, i)'
        BY <2>10 DEF Done
      <4>2. QED
        BY <2>1, <4>1
    <3>2. In(Done, i) \/ \E w \in Ways : In(OnBus(w), i)
      BY <3>1, MovesBack
    <3>3. ~\E w \in Ways : In(AtPort(w), i)
      BY <2>6, <3>2, TagsApart
    <3>4. QED
      BY <2>4, <2>5, <3>2, <3>3
  <2>11. QED
    BY <2>7, <2>8, <2>9, <2>10
<1>3. CASE i \notin InFlight
  <2>1. \A q : In(q, i)' => \E x : q = InStation(x)
    BY <1>1, <1>3, FlyingNext
  <2>2. PICK w \in Ways : \E l \in Nat : /\ w < Entering(go) /\ l = fpc + w /\ prog[l].kind = "store"
                                         /\ (SqOf(Ins(i)))' = SqOf(l)'
    BY <1>1, <1>3, FlyingNext
  <2>3. PICK l \in Nat : /\ w < Entering(go) /\ l = fpc + w /\ prog[l].kind = "store"
                         /\ (SqOf(Ins(i)))' = SqOf(l)'
    BY <2>2
  <2>4. ~e.valid
    BY <1>1, <2>3, StoreNew
  <2>5. ~In(Done, i)' /\ \A v \in Ways : ~In(OnBus(v), i)'
    <3>1. \A q : q = Done => ~In(q, i)'
      BY <2>1, TagsApart
    <3>2. \A v \in Ways : \A q : q = OnBus(v) => ~In(q, i)'
      BY <2>1, TagsApart
    <3>3. QED
      BY <3>1, <3>2 DEF Done, OnBus
  <2>6. QED
    BY <2>4, <2>5
<1>4. QED
  BY <1>2, <1>3

-----------------------------------------------------------------------------
(* The remaining parts of the invariant are kept. *)

LEMMA LoadsKnownStep ==
  ASSUME NEW go, NEW port, Step(go, port)
  PROVE  LoadsKnown'
<1>0. QueueInv /\ Placed /\ LoadsKnown /\ Unbroken /\ BufferRoom
  BY DEF Step, QueueInv
<1>1. SUFFICES ASSUME NEW i, i \in Flying("load")', NEW e, e = lq'[(LqOf(Ins(i)))']
               PROVE  /\ e.rob_idx = i
                      /\ e.valid => e.addr = AddrOf(i)'
                      /\ e.valid <=> ~((\E x \in rs' : In(InStation(x), i)') \/ \E w \in Ways : In(AtPort(w), i)')
  BY DEF LoadsKnown
<1>2. CASE i \in InFlight
  <2>1. /\ i \in Flying("load") /\ i \in InFlight /\ i \in Slot /\ arch' <= Ins(i) /\ KindOf(i) = "load"
        /\ Ins(i)' = Ins(i) /\ AddrOf(i)' = AddrOf(i) /\ (LqOf(Ins(i)))' = LqOf(Ins(i))
        /\ \A q : In(q, i)' => \E p : In(p, i) /\ Moves(port, p, q)
    BY <1>1, <1>2, FlyingNext
  <2>2. e = lq'[LqOf(Ins(i))]
    BY <1>1, <2>1
  <2>3. PICK o : o = lq[LqOf(Ins(i))]
    OBVIOUS
  <2>4. /\ o.rob_idx = i
        /\ o.valid => o.addr = AddrOf(i)
        /\ o.valid <=> ~((\E x \in rs : In(InStation(x), i)) \/ \E w \in Ways : In(AtPort(w), i))
    BY <1>0, <2>1, <2>3 DEF LoadsKnown
  <2>5. /\ (\E w \in Ways : In(AtPort(w), i)) => e = [o EXCEPT !.valid = TRUE, !.addr = AddrOf(i)]
        /\ (~\E w \in Ways : In(AtPort(w), i)) => e = o
    BY <2>1, <2>2, <2>3, LoadKept
  <2>6. \A p, q : In(p, i) /\ In(q, i) => p = q
    BY <1>0, <2>1 DEF Placed
  <2>7. o \in LQ!Entry
    <3>1. Ins(i) \in arch .. fpc
      BY <1>0, <1>2, <2>1, FlightIs, Typed DEF Op
    <3>2. QED
      BY <1>0, <2>3, <3>1, PlacesKept, Typed
  <2>8. /\ (\E w \in Ways : In(AtPort(w), i)) => e.valid /\ e.addr = AddrOf(i)
        /\ e.rob_idx = i
    BY <2>4, <2>5, <2>7 DEF LQ!Entry
  <2>9. \A w \in Ways : In(AtPort(w), i) => ~is_stall(w)
    <3>1. SUFFICES ASSUME NEW w \in Ways, In(AtPort(w), i) PROVE ~is_stall(w)
      OBVIOUS
    <3>2. is_ex[w].valid /\ is_ex[w].rob_idx = i
      BY <3>1, InMeans
    <3>3. LOAD_ready(w)
      BY <2>1, <3>2, PortPlace DEF LOAD_ready
    <3>4. QED
      BY <1>0, <3>3, PortsMove
  <2>10. ASSUME NEW x, In(InStation(x), i)' PROVE x \in rs /\ In(InStation(x), i)
    <3>1. \E p : In(p, i) /\ Moves(port, p, InStation(x))
      <4>1. \A q : q = InStation(x) => In(q, i)'
        BY <2>10 DEF InStation
      <4>2. QED
        BY <2>1, <4>1
    <3>2. QED
      BY <3>1, MovesBack, InMeans
  <2>11. ASSUME NEW w \in Ways, In(AtPort(w), i)' PROVE \E x \in rs : In(InStation(x), i)
    <3>1. \E p : In(p, i) /\ Moves(port, p, AtPort(w))
      <4>1. \A q : q = AtPort(w) => In(q, i)'
        BY <2>11 DEF AtPort
      <4>2. QED
        BY <2>1, <4>1
    <3>2. PICK p : In(p, i) /\ Moves(port, p, AtPort(w))
      BY <3>1
    <3>3. (p = AtPort(w) /\ is_stall(w)) \/ \E x \in port[w] : p = InStation(x)
      <4>1. \A u : Moves(port, p, AtPort(u)) =>
              \/ u \in Ways /\ p = AtPort(u) /\ is_stall(u)
              \/ u \in Ways /\ \E x \in port[u] : p = InStation(x)
        BY MovesBack
      <4>2. QED
        BY <3>2, <4>1
    <3>4. PICK x : p = InStation(x)
      BY <2>9, <3>2, <3>3
    <3>5. QED
      BY <3>2, <3>4, InMeans
  <2>12. (\E x \in rs : In(InStation(x), i)) =>
           (\E x \in rs' : In(InStation(x), i)') \/ \E w \in Ways : In(AtPort(w), i)'
    <3>1. SUFFICES ASSUME NEW x, In(InStation(x), i)
                   PROVE  (\E z \in rs' : In(InStation(z), i)') \/ \E w \in Ways : In(AtPort(w), i)'
      OBVIOUS
    <3>2. PICK q : Moves(port, InStation(x), q)
      BY <3>1, MovesSome
    <3>3. In(q, i)'
      BY <2>1, <3>1, <3>2, MovesThere
    <3>4. q = InStation(x) \/ \E w \in Ways : q = AtPort(w)
      BY <3>2, TagsApart DEF Moves
    <3>5. CASE q = InStation(x)
      <4>1. In(InStation(x), i)'
        BY <3>3, <3>5 DEF InStation
      <4>2. QED
        BY <4>1, InMeansNext
    <3>6. CASE \E w \in Ways : q = AtPort(w)
      <4>1. PICK w \in Ways : q = AtPort(w)
        BY <3>6
      <4>2. In(AtPort(w), i)'
        BY <3>3, <4>1 DEF AtPort
      <4>3. QED
        BY <4>2
    <3>7. QED
      BY <3>4, <3>5, <3>6
  <2>13. (\E w \in Ways : In(AtPort(w), i)) => ~\E x \in rs : In(InStation(x), i)
    BY <2>6, TagsApart
  <2>14. e.valid <=> ~((\E x \in rs' : In(InStation(x), i)') \/ \E w \in Ways : In(AtPort(w), i)')
    <3>1. CASE \E w \in Ways : In(AtPort(w), i)
      BY <2>8, <2>10, <2>11, <2>13, <3>1
    <3>2. CASE ~\E w \in Ways : In(AtPort(w), i)
      BY <2>4, <2>5, <2>10, <2>11, <2>12, <3>2
    <3>3. QED
      BY <3>1, <3>2
  <2>15. QED
    BY <2>1, <2>4, <2>5, <2>8, <2>14
<1>3. CASE i \notin InFlight
  <2>1. \E x \in rs' : In(InStation(x), i)'
    BY <1>1, <1>3, FlyingNext
  <2>2. PICK w \in Ways : \E l \in Nat : /\ w < Entering(go) /\ l = fpc + w /\ prog[l].kind = "load"
                                         /\ i = dp_rob_idx[w] /\ (LqOf(Ins(i)))' = LqOf(l)'
    BY <1>1, <1>3, FlyingNext
  <2>3. PICK l \in Nat : /\ w < Entering(go) /\ l = fpc + w /\ prog[l].kind = "load"
                         /\ i = dp_rob_idx[w] /\ (LqOf(Ins(i)))' = LqOf(l)'
    BY <2>2
  <2>4. ~e.valid /\ e.rob_idx = i
    BY <1>1, <2>3, LoadNew
  <2>5. QED
    BY <2>1, <2>4
<1>4. QED
  BY <1>2, <1>3

LEMMA PortsApartStep ==
  ASSUME NEW go, NEW port, Step(go, port)
  PROVE  PortsApart'
<1>0. QueueInv /\ Unbroken /\ BufferRoom /\ Apart(port[0], port[1]) /\ Ways = {0, 1}
  BY Sets DEF Step
<1>1. SUFFICES ASSUME NEW w \in Ways, NEW v \in Ways, is_ex'[w].kind = "load", is_ex'[v].kind = "store"
               PROVE  sq'[SQ!Wrap(is_ex'[v].SQ_idx - 1)].valid
  BY DEF PortsApart, SQ!Wrap
<1>2. PICK e \in port[w] : is_ex'[w] = Issued(e)
  <2>1. ~is_stall(w)
    <3>1. is_stall(w) => is_ex'[w] = is_ex[w]
      BY Issuing
    <3>2. is_ex[w].kind = "load" => ~is_stall(w)
      BY <1>0, PortsMove DEF LOAD_ready
    <3>3. QED
      BY <1>1, <3>1, <3>2
  <2>2. port[w] # {}
    BY <1>1, <2>1, Issuing DEF Idle
  <2>3. QED
    BY <2>2, Issuing
<1>3. prog[e.op].kind = "load"
  BY <1>1, <1>2 DEF Issued
<1>4. is_stall(v)
  <2>1. SUFFICES ASSUME ~is_stall(v) PROVE FALSE
    OBVIOUS
  <2>2. port[v] # {}
    BY <1>1, <2>1, Issuing DEF Idle
  <2>3. PICK x \in port[v] : is_ex'[v] = Issued(x)
    BY <2>2, Issuing
  <2>4. prog[x.op].kind = "store"
    BY <1>1, <2>3 DEF Issued
  <2>5. e \in port[0] \cup port[1] /\ x \in port[0] \cup port[1]
    BY <1>0, <1>2, <2>3
  <2>6. QED
    BY <1>0, <1>3, <2>4, <2>5 DEF Apart
<1>5. is_ex'[v] = is_ex[v] /\ is_ex[v].kind = "store"
  BY <1>1, <1>4, Issuing
<1>6. is_ex[v].valid
  BY <1>0, <1>5, PortIs DEF Kind
<1>7. PICK i : i = is_ex[v].rob_idx
  OBVIOUS
<1>8. /\ In(AtPort(v), i) /\ i \in InFlight /\ arch' <= Ins(i) /\ KindOf(i) = "store"
      /\ SQ!Wrap(is_ex[v].SQ_idx - 1) = SqOf(Ins(i))
  BY <1>5, <1>6, <1>7, PortPlace
<1>9. sq'[SqOf(Ins(i))].valid
  <2>1. i \in Flying("store")
    BY <1>8 DEF Flying
  <2>2. sq'[SqOf(Ins(i))] = [valid |-> TRUE, addr |-> AddrOf(i), value |-> Ins(i) + 1]
    BY <1>8, <2>1, StoreKept
  <2>3. QED
    BY <2>2
<1>10. QED
  BY <1>5, <1>8, <1>9

LEMMA BufferExactStep ==
  ASSUME NEW go, NEW port, Step(go, port)
  PROVE  BufferExact'
<1>0. QueueInv /\ Unbroken /\ BufferRoom /\ BufferExact
  BY DEF Step, QueueInv
<1>1. SUFFICES ASSUME NEW j \in LB!Idx
               PROVE  /\ j \in InBuffer' => \E i : /\ i = lb'[j].load.rob_idx
                           /\ lb'[j].occupied /\ i \in Flying("load")' /\ lb'[j].load.addr = AddrOf(i)'
                      /\ lb'[j].valid => j = lb_head' /\ j \in InBuffer'
  <2>1. ASSUME NEW j \in LB!Idx, NEW i, i = lb'[j].load.rob_idx
        PROVE  lb'[j].load.addr = AddrOf(i)' <=> lb'[j].load.addr = (AddrOf(lb[j].load.rob_idx))'
    BY <2>1 DEF AddrOf
  <2>2. LB!Idx' = LB!Idx
    BY DEF LB!Idx
  <2>3. QED
    BY <2>1, <2>2 DEF BufferExact
<1>2. ASSUME lb'[j].valid PROVE j = lb_head' /\ j \in InBuffer'
  BY <1>2, BufferMoves
<1>3. ASSUME j \in InBuffer, ~Popped(j)
      PROVE  \E i : /\ i = lb'[j].load.rob_idx
                    /\ lb'[j].occupied /\ i \in Flying("load")' /\ lb'[j].load.addr = AddrOf(i)'
  <2>1. PICK i : i = lb[j].load.rob_idx
    OBVIOUS
  <2>2. lb[j].occupied /\ i \in Flying("load") /\ lb[j].load.addr = AddrOf(i) /\ In(Buffered(j), i)
    BY <1>0, <1>3, <2>1, InMeans DEF BufferExact
  <2>3. lb'[j].load = lb[j].load /\ lb'[j].occupied = lb[j].occupied
    BY <1>3, BufferMoves
  <2>4. i \in InFlight' /\ KindOf(i)' = KindOf(i) /\ AddrOf(i)' = AddrOf(i)
    BY <2>2, StaysIn, TagsApart
  <2>5. QED
    BY <2>1, <2>2, <2>3, <2>4 DEF Flying
<1>4. ASSUME NEW w \in Ways, wr_en[w], j = Into(w)
      PROVE  \E i : /\ i = lb'[j].load.rob_idx
                    /\ lb'[j].occupied /\ i \in Flying("load")' /\ lb'[j].load.addr = AddrOf(i)'
  <2>1. lb'[j].load = din[w] /\ lb'[j].occupied
    BY <1>4, BufferMoves
  <2>2. din[w] = [rob_idx |-> is_ex[w].rob_idx, addr |-> is_ex[w].addr]
    BY DEF din
  <2>3. LOAD_ready(w) /\ is_ex[w].valid
    BY <1>0, <1>4, PortsMove
  <2>4. PICK i : i = is_ex[w].rob_idx
    OBVIOUS
  <2>5. In(AtPort(w), i) /\ is_ex[w].addr = AddrOf(i) /\ KindOf(i) = "load"
    BY <2>3, <2>4, PortPlace DEF LOAD_ready
  <2>6. i \in InFlight' /\ KindOf(i)' = KindOf(i) /\ AddrOf(i)' = AddrOf(i)
    BY <2>5, StaysIn, TagsApart
  <2>7. QED
    BY <2>1, <2>2, <2>4, <2>5, <2>6 DEF Flying
<1>5. j \in InBuffer' => (j \in InBuffer /\ ~Popped(j)) \/ \E w \in Ways : wr_en[w] /\ j = Into(w)
  BY BufferMoves
<1>6. QED
  BY <1>2, <1>3, <1>4, <1>5

-----------------------------------------------------------------------------
(* The registers keep their ranges, and a step without a rollback keeps the invariant. *)

(* The registers keep their ranges. *)
LEMMA RingTyped == R!RingInv => Rob!TypeOK
  BY SameRing DEF R!RingInv

PortsHold ==
  \A w \in Ways : is_ex[w] = Idle \/ \E o \in Op : /\ is_ex[w].kind = prog[o].kind
                                                   /\ is_ex[w].addr = prog[o].addr
                                                   /\ is_ex[w].value = o + 1

LEMMA PortsTyped == Front /\ Carried => PortsHold
<1>1. SUFFICES ASSUME Front, Carried, NEW w \in Ways, is_ex[w] # Idle
               PROVE  \E o \in Op : /\ is_ex[w].kind = prog[o].kind
                                    /\ is_ex[w].addr = prog[o].addr
                                    /\ is_ex[w].value = o + 1
  BY DEF PortsHold
<1>2. PICK i \in InFlight : is_ex[w] = Packet(i)
  BY <1>1 DEF Carried
<1>3. Ins(i) \in Op
  BY <1>1, FrontFlight DEF InFlight
<1>4. is_ex[w].kind = prog[Ins(i)].kind /\ is_ex[w].addr = prog[Ins(i)].addr /\ is_ex[w].value = Ins(i) + 1
  BY <1>2 DEF Packet, KindOf, AddrOf, Ins
<1>5. QED
  BY <1>3, <1>4

LEMMA QueuesTyped ==
  ASSUME NEW go, NEW port, Step(go, port)
  PROVE  SQ!TypeOK' /\ LQ!TypeOK'
<1>0. QueueInv /\ Ways = {0, 1}
  BY Sets DEF Step
<1>1. sq_head' \in SQ!Idx /\ lq_head' \in SQ!Idx /\ sq_tail' \in SQ!Idx /\ lq_tail' \in SQ!Idx
  BY PointersMove
<1>2. \A w \in Ways : FU_SQ_out[w].addr \in Addr /\ FU_SQ_out[w].value \in Value /\ FU_LQ_out[w].addr \in Addr
  BY <1>0, PortIs DEF FU_SQ_out, FU_LQ_out
<1>3. ASSUME NEW i \in SQ!Idx
      PROVE  SQ!NextEntry(Dispatched(go, "store"), FU_SQ_out, i) \in SQ!Entry
  <2>1. sq[i] \in SQ!Entry
    BY <1>0, Typed
  <2>2. SQ!Reset \in SQ!Entry
    BY Sizes DEF SQ!Reset, SQ!Entry, Value
  <2>3. \A w \in Ways : [valid |-> TRUE, addr |-> FU_SQ_out[w].addr, value |-> FU_SQ_out[w].value] \in SQ!Entry
    BY <1>2 DEF SQ!Entry
  <2>4. QED
    BY <1>0, <2>1, <2>2, <2>3 DEF SQ!NextEntry
<1>4. ASSUME NEW i \in LQ!Idx
      PROVE  LQ!NextEntry(Dispatched(go, "load"), dp_rob_idx, FU_LQ_out, i) \in LQ!Entry
  <2>1. lq[i] \in LQ!Entry
    BY <1>0, Typed, Sets
  <2>2. \A w \in Ways : [lq[i] EXCEPT !.valid = TRUE, !.addr = FU_LQ_out[w].addr] \in LQ!Entry
    BY <1>2, <2>1 DEF LQ!Entry
  <2>3. dp_rob_idx[0] \in Slot /\ dp_rob_idx[1] \in Slot
    <3>1. rob_tail \in Slot
      BY <1>0, Typed
    <3>2. Rob!tail_p1 \in Slot
      BY <3>1, Sizes DEF Rob!tail_p1, Rob!Wrap, Slot
    <3>3. QED
      BY <1>0, <3>1, <3>2 DEF dp_rob_idx
  <2>4. [LQ!Reset EXCEPT !.rob_idx = dp_rob_idx[0]] \in LQ!Entry
        /\ [LQ!Reset EXCEPT !.rob_idx = dp_rob_idx[1]] \in LQ!Entry
    BY <2>3, Sizes DEF LQ!Reset, LQ!Entry
  <2>5. QED
    BY <1>0, <2>1, <2>2, <2>4 DEF LQ!NextEntry
<1>5. sq' \in [SQ!Idx -> SQ!Entry] /\ lq' \in [LQ!Idx -> LQ!Entry]
  BY <1>3, <1>4, PointersMove
<1>6. QED
  BY <1>1, <1>5, Sets DEF SQ!TypeOK, LQ!TypeOK, SQ!Idx, LQ!Idx, SQ!Entry, LQ!Entry

LEMMA StationTyped ==
  ASSUME NEW go, NEW port, Step(go, port)
  PROVE  rs' \subseteq RsEntry
<1>0. QueueInv /\ go \in BOOLEAN
  BY DEF Step
<1>1. ASSUME NEW w \in Ways, w < Entering(go) PROVE NewEntry(go, w) \in RsEntry
  <2>1. fpc + w \in Op /\ dp_rob_idx[w] \in Slot
    BY <1>0, <1>1, DispatchCount, NewSlots
  <2>2. SQ!SQ_idx(Dispatched(go, "store"), w) \in SQ!Idx
    <3>1. SQ!Upto(Dispatched(go, "store"), w) \in Int
      BY <1>1, UptoIs, Sets
    <3>2. sq_tail + SQ!Upto(Dispatched(go, "store"), w) \in Int
      BY <1>0, <3>1, Typed, Sets
    <3>3. QED
      BY <3>2, SqWraps DEF SQ!SQ_idx
  <2>3. LQ!LQ_idx(Dispatched(go, "load"), w) \in LQ!Idx
    <3>1. LQ!Upto(Dispatched(go, "load"), w) \in Int
      BY <1>1, UptoIs, Sets
    <3>2. lq_tail + LQ!Upto(Dispatched(go, "load"), w) \in Int
      BY <1>0, <3>1, Typed, Sets
    <3>3. QED
      BY <3>2, SqWraps DEF LQ!LQ_idx
  <2>4. QED
    BY <1>1, <2>1, <2>2, <2>3, Sets DEF NewEntry, RsEntry
<1>2. rs \subseteq RsEntry
  BY <1>0, Typed
<1>3. QED
  BY <1>1, <1>2, StationMoves

LEMMA WrittenTyped ==
  ASSUME QueueInv, NEW i \in Slot
  PROVE  Written(i) \in Value
<1>1. ex_cm[0].value \in Value /\ ex_cm[1].value \in Value /\ preg[i] \in Value
  BY Typed, Sets DEF Result
<1>2. QED
  BY <1>1 DEF Written

LEMMA ReadsTyped ==
  ASSUME QueueInv
  PROVE  ReadsAfter \in [Op -> Value]
<1>1. rob_head \in Slot /\ Rob!head_p1 \in Slot
  BY Heads
<1>2. PICK C : C = (IF commit0 THEN {rob_head} ELSE {}) \cup (IF commit1 THEN {Rob!head_p1} ELSE {})
  OBVIOUS
<1>3. C \subseteq Slot
  BY <1>1, <1>2
<1>4. ReadsAfter = [k \in Op |-> IF \E i \in {x \in C : data[x].rd_mem} : data[i].ins = k
                                 THEN Written(CHOOSE i \in {x \in C : data[x].rd_mem} : data[i].ins = k)
                                 ELSE reads[k]]
  BY <1>2 DEF ReadsAfter
<1>5. ASSUME NEW k \in Op, \E i \in {x \in C : data[x].rd_mem} : data[i].ins = k
      PROVE  Written(CHOOSE i \in {x \in C : data[x].rd_mem} : data[i].ins = k) \in Value
  <2>1. PICK c : c = CHOOSE i \in {x \in C : data[x].rd_mem} : data[i].ins = k
    OBVIOUS
  <2>2. c \in Slot
    BY <1>3, <1>5, <2>1
  <2>3. QED
    BY <2>1, <2>2, WrittenTyped
<1>6. reads \in [Op -> Value]
  BY Typed
<1>7. QED
  BY <1>4, <1>5, <1>6

LEMMA RetiredTyped ==
  ASSUME QueueInv, NEW kind
  PROVE  SQ!Retired(Retiring(kind)) \in Seq(SQ!Entry)
<1>1. PICK n \in Nat : n = SQ!Upto(Retiring(kind), 1)
  BY UptoIs
<1>2. ASSUME NEW k \in 1 .. n PROVE sq[SQ!Wrap(sq_head + k - 1)] \in SQ!Entry
  <2>1. sq_head + k - 1 \in Int
    BY Typed, Sets
  <2>2. SQ!Wrap(sq_head + k - 1) \in SQ!Idx
    BY <2>1, SqWraps
  <2>3. QED
    BY <2>2, Typed
<1>3. SQ!Retired(Retiring(kind)) = [k \in 1 .. n |-> sq[SQ!Wrap(sq_head + k - 1)]]
  BY <1>1 DEF SQ!Retired
<1>4. QED
  BY <1>2, <1>3

LEMMA MemoryTyped ==
  ASSUME QueueInv, Memory
  PROVE  rtb' \in Seq(SQ!Entry) /\ unified_memory' \in [Addr -> Value]
<1>1. rtb \in Seq(SQ!Entry) /\ unified_memory \in [Addr -> Value]
  BY Typed
<1>2. SQ!Retired(Retiring("store")) \in Seq(SQ!Entry)
  BY RetiredTyped
<1>3. rtb # <<>> => Tail(rtb) \in Seq(SQ!Entry) /\ rtb[1] \in SQ!Entry
  BY <1>1
<1>4. PICK s \in Seq(SQ!Entry) : s = IF RTB!wr_en THEN Tail(rtb) ELSE rtb
  BY <1>1, <1>3 DEF RTB!wr_en, RTB!empty
<1>5. rtb' = s \o SQ!Retired(Retiring("store"))
  BY <1>4 DEF Memory, RTB!Clock
<1>6. rtb' \in Seq(SQ!Entry)
  BY <1>2, <1>5, ConcatProperties
<1>7. RTB!wr_en => rtb[1].value \in Value
  BY <1>3 DEF RTB!wr_en, RTB!empty, SQ!Entry
<1>8. unified_memory' \in [Addr -> Value]
  BY <1>1, <1>7 DEF Memory
<1>9. QED
  BY <1>6, <1>8

LEMMA TypeStep ==
  ASSUME NEW go, NEW port, Step(go, port)
  PROVE  TypeOK'
<1>0. QueueInv /\ TypeOK /\ Clock(go, port) /\ Memory /\ Unbroken /\ BufferRoom /\ ~rollback
  BY DEF Step, QueueInv, Clock
<1>1. prog' \in Programs /\ fpc' \in 0 .. NUM_OPS /\ arch' \in 0 .. NUM_OPS
  BY <1>0, StepMoves, OpsMove DEF TypeOK
<1>2. Rob!TypeOK'
  BY StepMoves, RingTyped, PTL
<1>3. SQ!TypeOK' /\ LQ!TypeOK' /\ rs' \subseteq RsEntry
  BY QueuesTyped, StationTyped
<1>4. PortsHold'
  <2>1. Front' /\ Carried'
    BY FrontStep, CarriedStep
  <2>2. QED
    BY <2>1, PortsTyped, PTL
<1>5. ex_cm' \in [Ways -> Result]
  <2>1. \A w \in Ways : ex_packet[w] \in Result
    BY <1>0, PortsMove
  <2>2. ex_packet \in [Ways -> Result]
    BY <2>1 DEF ex_packet
  <2>3. QED
    BY <2>2, BusesMove
<1>6. preg' \in [Slot -> Value]
  <2>1. \A i \in Slot : Written(i) \in Value
    BY <1>0, WrittenTyped
  <2>2. preg' = [i \in Slot |-> IF data[i].valid /\ data'[i].valid THEN Written(i) ELSE 0]
    BY <1>0 DEF Clock
  <2>3. 0 \in Value
    BY Sizes DEF Value
  <2>4. QED
    BY <2>1, <2>2, <2>3
<1>7. rtb' \in Seq(SQ!Entry) /\ unified_memory' \in [Addr -> Value]
  BY <1>0, MemoryTyped
<1>8. lb' \in [LB!Idx -> [occupied : BOOLEAN, valid : BOOLEAN, value : Value,
                          load : [rob_idx : Slot, addr : Addr]]]
  <2>1. \A j \in LB!Idx : lb'[j] \in [occupied : BOOLEAN, valid : BOOLEAN, value : Value,
                                      load : [rob_idx : Slot, addr : Addr]]
    BY PlaceMoves
  <2>2. lb' = [j \in LB!Idx |-> lb'[j]]
    <3>1. lb' = [j \in LB!Idx |-> LB!NextPlace(wr_en, din, rd_en, LB!rd_cache /\ ~RTB!wr_en,
                                              unified_memory[LB!dout.load.addr], j)]
      BY <1>0 DEF Memory, LB!Clock
    <3>2. QED
      BY <3>1
  <2>3. QED
    BY <2>1, <2>2
<1>9. lb_head' \in LB!Idx /\ lb_tail' \in LB!Idx
  BY BufferMoves
<1>10. reads' \in [Op -> Value]
  <2>1. reads' = ReadsAfter
    BY <1>0 DEF Clock
  <2>2. QED
    BY <1>0, <2>1, ReadsTyped
<1>11. QED
  BY <1>1, <1>2, <1>3, <1>4, <1>5, <1>6, <1>7, <1>8, <1>9, <1>10
     DEF TypeOK, PortsHold, SQ!Entry, LB!Idx

(* A cycle without a rollback keeps everything. *)
LEMMA StepKeeps ==
  ASSUME NEW go, NEW port, Step(go, port)
  PROVE  QueueInv'
<1>1. R!RingInv' /\ InOrder' /\ Pointers'
  BY StepMoves, InOrderStep, PlacesKept
<1>2. QED
  BY <1>1, TypeStep, CarriedStep, PlacedStep, StoresFilledStep, LoadsKnownStep,
     PortsApartStep, BufferExactStep DEF QueueInv

-----------------------------------------------------------------------------
(* Reset and rollback empty everything; the invariant holds. *)

(* After reset, and after a rollback, nothing is in flight. *)
Emptied ==
  /\ R!Init /\ SQ!Init /\ LQ!Init /\ LB!Init
  /\ rs = {} /\ is_ex = [w \in Ways |-> Idle] /\ fpc = arch
Others ==
  /\ prog \in Programs /\ arch \in 0 .. NUM_OPS
  /\ ex_cm \in [Ways -> Result] /\ preg \in [Slot -> Value] /\ rtb \in Seq(SQ!Entry)
  /\ unified_memory \in [Addr -> Value] /\ reads \in [Op -> Value]

LEMMA EmptiedIs == Emptied /\ Others => QueueInv
<1>1. SUFFICES ASSUME Emptied, Others PROVE QueueInv
  OBVIOUS
<1>2. R!RingInv /\ Rob!TypeOK
  BY <1>1, R!InitRing, RobParams, RingTyped DEF Emptied
<1>3. rob_cnt = 0 /\ \A i \in Slot : ~data[i].valid /\ ~retire_tag[i]
  BY <1>1, Sets DEF Emptied, R!Init, R!Zero
<1>4. InFlight = {}
  BY <1>3 DEF InFlight
<1>5. \A kind : Flying(kind) = {}
  BY <1>4 DEF Flying
<1>6. \A w \in Ways : is_ex[w] = Idle
  BY <1>1 DEF Emptied
<1>7. \A w \in Ways : ~is_ex[w].valid /\ is_ex[w].kind # "load" /\ is_ex[w].kind # "store"
  BY <1>6 DEF Idle
<1>8. /\ sq_head = 0 /\ sq_tail = 0 /\ lq_head = 0 /\ lq_tail = 0 /\ lb_head = 0 /\ lb_tail = 0
      /\ sq = [i \in SQ!Idx |-> SQ!Reset] /\ lq = [i \in LQ!Idx |-> LQ!Reset]
      /\ lb = [i \in LB!Idx |-> LB!Empty] /\ rs = {} /\ fpc = arch
  BY <1>1 DEF Emptied, SQ!Init, LQ!Init, LB!Init, SQ!Idx, LQ!Idx, LB!Idx, SQ!Reset, LQ!Reset, LB!Empty
<1>9. InBuffer = {}
  <2>1. \A x : ~(x < LB!Wrap(0 - 0)) \/ ~(x \in Nat)
    <3>1. LB!Wrap(0) = 0
      BY LbWraps, Sizes
    <3>2. QED
      BY <3>1
  <2>2. \A j \in LB!Idx : LB!Wrap(j - 0) \in Nat
    <3>1. SUFFICES ASSUME NEW j \in LB!Idx PROVE LB!Wrap(j - 0) \in Nat
      OBVIOUS
    <3>2. j - 0 \in Int
      BY Sets
    <3>3. QED
      BY <3>2, LbWraps, Sets
  <2>3. QED
    BY <1>8, <2>1, <2>2 DEF InBuffer
<1>10. TypeOK
  <2>1. SQ!TypeOK
    BY <1>8, Sizes, Sets DEF SQ!TypeOK, SQ!Reset, SQ!Entry, Value
  <2>2. LQ!TypeOK
    BY <1>8, Sizes, Sets DEF LQ!TypeOK, LQ!Reset, LQ!Entry
  <2>3. lb \in [LB!Idx -> [occupied : BOOLEAN, valid : BOOLEAN, value : Value,
                           load : [rob_idx : Slot, addr : Addr]]]
    BY <1>8, Sizes, Sets DEF LB!Empty, NoLoad, Value
  <2>4. lb_head \in LB!Idx /\ lb_tail \in LB!Idx /\ rs \subseteq RsEntry /\ fpc \in 0 .. NUM_OPS
    BY <1>1, <1>8, Sizes, Sets DEF Others
  <2>5. QED
    BY <1>1, <1>2, <1>6, <2>1, <2>2, <2>3, <2>4 DEF TypeOK, Others
<1>11. InOrder
  BY <1>1, <1>3, <1>4, <1>8 DEF InOrder, Others
<1>12. Pointers
  <2>1. arch \in Int
    BY <1>1 DEF Others
  <2>2. Count(prog, "store", arch, fpc) = 0 /\ Count(prog, "load", arch, fpc) = 0
    BY <1>8, <2>1, CountNone
  <2>3. SQ!Wrap(0) = 0 /\ LQ!Wrap(0) = 0
    BY SqWraps, Sizes
  <2>4. QED
    BY <1>8, <2>2, <2>3 DEF Pointers, SqOf, LqOf
<1>13. Carried
  BY <1>6, <1>8 DEF Carried
<1>14. \A p, i : In(p, i) => \E w \in Ways : p = OnBus(w)
  BY <1>3, <1>7, <1>8, <1>9 DEF In
<1>15. Placed
  BY <1>3, <1>4, <1>14 DEF Placed
<1>16. StoresFilled /\ LoadsKnown
  BY <1>5 DEF StoresFilled, LoadsKnown
<1>17. PortsApart
  BY <1>7 DEF PortsApart
<1>18. BufferExact
  BY <1>8, <1>9 DEF BufferExact, LB!Empty
<1>19. QED
  BY <1>2, <1>10, <1>11, <1>12, <1>13, <1>15, <1>16, <1>17, <1>18 DEF QueueInv

LEMMA QueueInit == Init => QueueInv
<1>1. SUFFICES ASSUME Init PROVE Emptied /\ Others
  BY EmptiedIs
<1>2. Emptied
  BY <1>1, SameEdges DEF Init, Emptied
<1>3. Others
  <2>1. 0 \in Slot /\ 0 \in Value /\ NUM_OPS \in Nat
    BY Sets, Sizes DEF Value
  <2>2. NoResult \in Result
    BY <2>1 DEF NoResult, Result
  <2>3. rtb \in Seq(SQ!Entry)
    BY <1>1 DEF Init, RTB!Init
  <2>4. QED
    BY <1>1, <2>1, <2>2, <2>3 DEF Init, Others
<1>4. QED
  BY <1>2, <1>3

(* A rollback fetches what follows the last operation committed. *)
LEMMA RollbackAt ==
  ASSUME QueueInv, Unbroken, NEW go, NEW port, Clock(go, port), rollback
  PROVE  fpc' = arch' /\ arch' \in 0 .. NUM_OPS
<1>1. /\ arch \in 0 .. NUM_OPS /\ fpc \in 0 .. NUM_OPS /\ rob_cnt \in 0 .. ROB_SIZE /\ fpc = arch + rob_cnt
      /\ NUM_OPS \in Nat
  BY Typed, Sizes DEF QueueInv, InOrder
<1>2. /\ head_retire_rdy => /\ rob_cnt >= 1 /\ first.ins = arch /\ EntryExact(first)
      /\ head_p1_retire_rdy => /\ head_retire_rdy /\ rob_cnt >= 2 /\ second.ins = arch + 1
                               /\ EntryExact(second) /\ ~first.ex_take_branch
  BY Heads
<1>3. /\ first.is_branch /\ EntryExact(first) => ~first.rd_mem_violation
      /\ second.is_branch /\ EntryExact(second) => ~second.rd_mem_violation
  BY DEF EntryExact
<1>4. fpc' = IF misp0 THEN first.ins + 1 ELSE IF misp1 THEN second.ins + 1
             ELSE IF viol0 THEN first.ins ELSE IF ld_rollback THEN second.ins ELSE fpc + Entering(go)
  BY DEF Clock, Entering, stall
<1>5. arch' = arch + (IF commit1 THEN 2 ELSE IF commit0 THEN 1 ELSE 0)
  BY DEF Clock
<1>6. CASE misp0
  BY <1>1, <1>2, <1>3, <1>4, <1>5, <1>6 DEF misp0, viol0, viol1, commit0, commit1
<1>7. CASE ~misp0 /\ misp1
  <2>1. ~viol0
    BY <1>7 DEF Unbroken, PairLost
  <2>2. QED
    BY <1>1, <1>2, <1>3, <1>4, <1>5, <1>7, <2>1 DEF misp1, viol1, commit0, commit1
<1>8. CASE ~misp0 /\ ~misp1 /\ viol0
  BY <1>1, <1>2, <1>4, <1>5, <1>8 DEF viol0, commit0, commit1
<1>9. CASE ~misp0 /\ ~misp1 /\ ~viol0
  <2>1. ld_rollback /\ viol1
    BY <1>9 DEF rollback, mispredict, ld_rollback
  <2>2. head_p1_retire_rdy
    BY <2>1 DEF viol1
  <2>3. commit0 /\ ~commit1
    BY <1>2, <1>9, <2>1, <2>2 DEF commit0, commit1
  <2>4. QED
    BY <1>1, <1>2, <1>4, <1>5, <1>9, <2>1, <2>2, <2>3
<1>10. QED
  BY <1>6, <1>7, <1>8, <1>9

LEMMA RollbackKeeps ==
  ASSUME QueueInv, Unbroken, BufferRoom, NEW go, NEW port, Clock(go, port), rollback
  PROVE  QueueInv'
<1>1. Emptied'
  <2>1. R!Flush
    BY SameEdges DEF Clock
  <2>2. R!Init'
    BY <2>1 DEF R!Flush, R!Init, R!Idx, R!Zero
  <2>3. SQ!Init' /\ LQ!Init' /\ LB!Init'
    BY DEF Clock, Memory, SQ!Clock, LQ!Clock, LB!Clock, SQ!Init, LQ!Init, LB!Init,
           SQ!Idx, LQ!Idx, LB!Idx, SQ!Reset, LQ!Reset, LB!Empty
  <2>4. rs' = {} /\ is_ex' = [w \in Ways |-> Idle]
    BY DEF Clock
  <2>5. fpc' = arch'
    BY RollbackAt
  <2>6. Ways' = Ways /\ Idle' = Idle
    BY DEF Ways, Idle
  <2>7. QED
    BY <2>2, <2>3, <2>4, <2>5, <2>6 DEF Emptied
<1>2. Others'
  <2>1. prog' \in Programs /\ arch' \in 0 .. NUM_OPS
    BY RollbackAt DEF Clock, QueueInv, TypeOK
  <2>2. ex_cm' \in [Ways -> Result]
    <3>1. \A w \in Ways : ex_packet[w] \in Result
      BY PortsMove
    <3>2. ex_packet \in [Ways -> Result]
      BY <3>1 DEF ex_packet
    <3>3. [w \in Ways |-> NoResult] \in [Ways -> Result]
      BY Sets, Sizes DEF NoResult, Result, Value
    <3>4. QED
      BY <3>2, <3>3 DEF Clock
  <2>3. preg' \in [Slot -> Value]
    <3>1. \A i \in Slot : Written(i) \in Value
      BY WrittenTyped
    <3>2. preg' = [i \in Slot |-> IF data[i].valid /\ data'[i].valid THEN Written(i) ELSE 0]
      BY DEF Clock
    <3>3. 0 \in Value
      BY Sizes DEF Value
    <3>4. QED
      BY <3>1, <3>2, <3>3
  <2>4. rtb' \in Seq(SQ!Entry) /\ unified_memory' \in [Addr -> Value]
    BY MemoryTyped DEF Clock
  <2>5. reads' \in [Op -> Value]
    <3>1. reads' = ReadsAfter
      BY DEF Clock
    <3>2. QED
      BY <3>1, ReadsTyped
  <2>6. QED
    BY <2>1, <2>2, <2>3, <2>4, <2>5 DEF Others, SQ!Entry
<1>3. QED
  BY <1>1, <1>2, EmptiedIs, PTL

(* Nothing of it changes when no variable does. *)
LEMMA Still ==
  ASSUME UNCHANGED vars
  PROVE  /\ InFlight' = InFlight /\ \A kind : Flying(kind)' = Flying(kind)
         /\ \A i : Ins(i)' = Ins(i) /\ KindOf(i)' = KindOf(i) /\ AddrOf(i)' = AddrOf(i)
                  /\ R!Age(i)' = R!Age(i)
         /\ \A k : SqOf(k)' = SqOf(k) /\ LqOf(k)' = LqOf(k)
         /\ \A i : /\ (SqOf(Ins(i)))' = SqOf(Ins(i)) /\ (LqOf(Ins(i)))' = LqOf(Ins(i))
                  /\ Packet(i)' = Packet(i) /\ \A w : Waiting(i, w)' = Waiting(i, w)
         /\ InBuffer' = InBuffer /\ \A p, i : In(p, i)' <=> In(p, i)
<1>1. /\ prog' = prog /\ fpc' = fpc /\ arch' = arch /\ rob_head' = rob_head /\ rob_tail' = rob_tail
      /\ data' = data /\ retire_tag' = retire_tag /\ rob_cnt' = rob_cnt /\ rs' = rs /\ is_ex' = is_ex
      /\ ex_cm' = ex_cm /\ sq_head' = sq_head /\ lq_head' = lq_head /\ lb' = lb /\ lb_head' = lb_head
      /\ lb_tail' = lb_tail
  BY DEF vars, robVars, lsqVars
<1>2. InFlight' = InFlight
  BY <1>1 DEF InFlight
<1>3. \A i : Ins(i)' = Ins(i) /\ KindOf(i)' = KindOf(i) /\ AddrOf(i)' = AddrOf(i) /\ R!Age(i)' = R!Age(i)
  BY <1>1 DEF Ins, KindOf, AddrOf, R!Age
<1>4. \A kind : Flying(kind)' = Flying(kind)
  BY <1>2, <1>3 DEF Flying
<1>5. \A k : SqOf(k)' = SqOf(k) /\ LqOf(k)' = LqOf(k)
  BY <1>1 DEF SqOf, LqOf
<1>6. \A i : /\ (SqOf(Ins(i)))' = SqOf(Ins(i)) /\ (LqOf(Ins(i)))' = LqOf(Ins(i))
            /\ Packet(i)' = Packet(i) /\ \A w : Waiting(i, w)' = Waiting(i, w)
  BY <1>1 DEF SqOf, LqOf, Ins, Packet, Waiting, KindOf, AddrOf
<1>7. InBuffer' = InBuffer
  BY <1>1 DEF InBuffer
<1>8. \A p, i : In(p, i)' <=> In(p, i)
  BY <1>1, <1>7 DEF In
<1>9. QED
  BY <1>2, <1>3, <1>4, <1>5, <1>6, <1>7, <1>8

LEMMA QueueStutters == QueueInv /\ UNCHANGED vars => QueueInv'
<1>1. SUFFICES ASSUME QueueInv, UNCHANGED vars PROVE QueueInv'
  OBVIOUS
<1>2. TypeOK'
  BY <1>1 DEF QueueInv, vars, robVars, lsqVars, TypeOK, Rob!TypeOK, SQ!TypeOK, LQ!TypeOK
<1>3. R!RingInv'
  BY <1>1 DEF QueueInv, vars, robVars, R!RingInv, R!TypeOK, R!WindowExact, R!NoStaleCompletion, R!Age
<1>4. InOrder' /\ Pointers'
  <2>1. Pointers'
    BY <1>1 DEF QueueInv, vars, robVars, lsqVars, Pointers, SqOf, LqOf
  <2>2. InOrder'
    BY <1>1, Still DEF QueueInv, vars, robVars, InOrder, EntryExact
  <2>3. QED
    BY <2>1, <2>2
<1>5. Carried'
  <2>1. is_ex' = is_ex /\ rs' = rs
    BY <1>1 DEF vars
  <2>2. \A e \in rs : e.rob_idx \in InFlight /\ e.bank \in Ways /\ e = (Waiting(e.rob_idx, e.bank))'
    BY <1>1, Still DEF QueueInv, Carried, Waiting, Ins, SqOf, LqOf, vars, robVars, lsqVars
  <2>3. QED
    BY <1>1, <2>1, <2>2, Still DEF QueueInv, Carried
<1>6. Placed'
  BY <1>1, Still DEF QueueInv, Placed, vars, robVars
<1>7. StoresFilled' /\ LoadsKnown'
  <2>1. sq' = sq /\ lq' = lq /\ rs' = rs
    BY <1>1 DEF vars, lsqVars
  <2>2. StoresFilled'
    BY <1>1, <2>1, Still DEF QueueInv, StoresFilled
  <2>3. LoadsKnown'
    BY <1>1, <2>1, Still DEF QueueInv, LoadsKnown
  <2>4. QED
    BY <2>2, <2>3
<1>8. PortsApart' /\ BufferExact'
  <2>1. PortsApart'
    BY <1>1 DEF QueueInv, vars, lsqVars, PortsApart
  <2>2. BufferExact'
    BY <1>1, Still DEF QueueInv, vars, robVars, lsqVars, BufferExact, AddrOf
  <2>3. QED
    BY <2>1, <2>2
<1>9. QED
  BY <1>2, <1>3, <1>4, <1>5, <1>6, <1>7, <1>8 DEF QueueInv

(* Histories without the two defects that the queues do not survive, with room. *)
Regular == Unbroken /\ QueueRoom /\ BufferRoom

LEMMA QueueNext == QueueInv /\ Regular /\ Regular' /\ [Next]_vars => QueueInv'
<1>1. SUFFICES ASSUME QueueInv, Regular, Regular', [Next]_vars PROVE QueueInv'
  OBVIOUS
<1>2. CASE UNCHANGED vars
  BY <1>1, <1>2, QueueStutters
<1>3. CASE Stopped
  BY <1>1, <1>3, QueueStutters DEF Stopped
<1>4. CASE Cycle
  <2>1. PICK go \in BOOLEAN, p0 \in Choices(0), p1 \in Choices(1) :
          Apart(p0, p1) /\ Clock(go, [w \in Ways |-> IF w = 0 THEN p0 ELSE p1])
    BY <1>4 DEF Cycle
  <2>2. PICK port : port = [w \in Ways |-> IF w = 0 THEN p0 ELSE p1]
    OBVIOUS
  <2>3. port[0] = p0 /\ port[1] = p1 /\ Clock(go, port)
    BY <2>1, <2>2, Sets
  <2>4. CASE rollback
    BY <1>1, <2>3, <2>4, RollbackKeeps DEF Regular
  <2>5. CASE ~rollback
    <3>1. \A w \in Ways : port[w] \in Choices(w)
      BY <2>3, Sets
    <3>2. Step(go, port)
      BY <1>1, <2>1, <2>3, <2>5, <3>1 DEF Step, Regular
    <3>3. QED
      BY <3>2, StepKeeps
  <2>6. QED
    BY <2>4, <2>5
<1>5. QED
  BY <1>1, <1>2, <1>3, <1>4 DEF Next

(* The inductive invariant of the memory path. *)
THEOREM MemPipeQueueInv == Spec /\ []Regular => []QueueInv
<1>1. QED
  BY QueueInit, QueueNext, PTL DEF Spec

-----------------------------------------------------------------------------
(* The two properties of the runs follow. *)

(* The place of the next operation of a kind. *)
LEMMA PlaceNext ==
  ASSUME NEW p, NEW kind, NEW h \in SQ!Idx, NEW a \in Nat, NEW k \in Op, a <= k,
         Count(p, kind, a, k) < LSQ_SIZE
  PROVE  SQ!Wrap(h + Count(p, kind, a, k + 1))
           = SQ!Wrap(SQ!Wrap(h + Count(p, kind, a, k)) + IF p[k].kind = kind THEN 1 ELSE 0)
<1>1. Count(p, kind, a, k + 1) = Count(p, kind, a, k) + IF p[k].kind = kind THEN 1 ELSE 0
  BY CountStep
<1>2. Count(p, kind, a, k) \in Nat
  BY CountType DEF Op
<1>3. PICK x \in Nat : x = h + Count(p, kind, a, k)
  BY <1>2, Sets
<1>4. PICK y \in 0 .. 1 : y = IF p[k].kind = kind THEN 1 ELSE 0
  OBVIOUS
<1>5. y \in Nat /\ x + y < 3 * LSQ_SIZE
  BY <1>2, <1>3, <1>4, Sets, Sizes
<1>6. SQ!Wrap(SQ!Wrap(x) + y) = SQ!Wrap(x + y)
  BY <1>5, WrapAdd
<1>7. h + Count(p, kind, a, k + 1) = x + y
  BY <1>1, <1>2, <1>3, <1>4, Sets
<1>8. QED
  BY <1>3, <1>4, <1>6, <1>7

(* The distance of the pointers is the number of operations between them. *)
LEMMA Distance ==
  ASSUME NEW h \in SQ!Idx, NEW c \in Nat, c < LSQ_SIZE
  PROVE  SQ!Wrap(SQ!Wrap(h + c) - h) = c
<1>1. h \in Nat /\ h < LSQ_SIZE /\ LSQ_SIZE \in Nat
  BY Sets, Sizes
<1>2. h + c \in Int
  BY <1>1
<1>3. CASE h + c < LSQ_SIZE
  <2>1. SQ!Wrap(h + c) = h + c
    BY <1>1, <1>2, <1>3, SqWraps
  <2>2. SQ!Wrap(h + c) - h = c
    BY <1>1, <2>1
  <2>3. SQ!Wrap(c) = c
    BY SqWraps
  <2>4. QED
    BY <2>2, <2>3
<1>4. CASE ~(h + c < LSQ_SIZE)
  <2>1. SQ!Wrap(h + c) = h + c - LSQ_SIZE
    BY <1>1, <1>2, <1>4, SqWraps
  <2>2. PICK x \in Int : x = c - LSQ_SIZE
    BY <1>1
  <2>3. SQ!Wrap(h + c) - h = x /\ -LSQ_SIZE <= x /\ x < 0
    BY <1>1, <2>1, <2>2
  <2>4. SQ!Wrap(x) = x + LSQ_SIZE
    BY <2>3, SqWraps
  <2>5. QED
    BY <1>1, <2>2, <2>3, <2>4
<1>5. QED
  BY <1>3, <1>4

(* The places that the properties name are those of the invariant. *)
LEMMA PlacesSame ==
  ASSUME QueueInv, QueueRoom
  PROVE  /\ \A i \in InFlight : SqPlace(i) = SqOf(Ins(i)) /\ LqPlace(i) = LqOf(Ins(i))
         /\ \A i \in InFlight :
              /\ SqOf(Ins(i) + 1) = SQ!Wrap(SqPlace(i) + (IF KindOf(i) = "store" THEN 1 ELSE 0))
              /\ LqOf(Ins(i) + 1) = LQ!Wrap(LqPlace(i) + (IF KindOf(i) = "load" THEN 1 ELSE 0))
<1>0. Front /\ RoomCounts /\ sq_head \in SQ!Idx /\ lq_head \in SQ!Idx
  BY QueueFront, RoomIs, Typed
<1>1. ASSUME NEW i \in InFlight PROVE SqPlace(i) = SqOf(Ins(i)) /\ LqPlace(i) = LqOf(Ins(i))
  BY <1>0, FlyingCount DEF SqPlace, LqPlace, SqOf, LqOf
<1>2. ASSUME NEW i \in InFlight
      PROVE  /\ SqOf(Ins(i) + 1) = SQ!Wrap(SqPlace(i) + (IF KindOf(i) = "store" THEN 1 ELSE 0))
             /\ LqOf(Ins(i) + 1) = LQ!Wrap(LqPlace(i) + (IF KindOf(i) = "load" THEN 1 ELSE 0))
  <2>1. PICK k \in Op : k = Ins(i) /\ arch <= k /\ k < fpc
    BY FlightIs DEF InFlight
  <2>2. arch \in Nat /\ k \in arch .. fpc
    BY <2>1, Typed DEF Op
  <2>3. Count(prog, "store", arch, k) < LSQ_SIZE /\ Count(prog, "load", arch, k) < LSQ_SIZE
    BY <1>0, <2>2 DEF RoomCounts
  <2>4. KindOf(i) = prog[k].kind
    BY <2>1 DEF KindOf, Ins
  <2>5. SqOf(k + 1) = SQ!Wrap(SqOf(k) + IF prog[k].kind = "store" THEN 1 ELSE 0)
    BY <1>0, <2>1, <2>2, <2>3, PlaceNext DEF SqOf
  <2>6. LqOf(k + 1) = SQ!Wrap(LqOf(k) + IF prog[k].kind = "load" THEN 1 ELSE 0)
    BY <1>0, <2>1, <2>2, <2>3, PlaceNext DEF LqOf, LQ!Wrap, SQ!Wrap
  <2>7. \A x : LQ!Wrap(x) = SQ!Wrap(x)
    BY DEF LQ!Wrap, SQ!Wrap
  <2>8. QED
    BY <1>1, <2>1, <2>4, <2>5, <2>6, <2>7
<1>3. QED
  BY <1>1, <1>2

LEMMA QueuesExactIs == QueueInv /\ QueueRoom => QueuesExact
<1>1. SUFFICES ASSUME QueueInv, QueueRoom PROVE QueuesExact
  OBVIOUS
<1>2. /\ Front /\ sq_head \in SQ!Idx /\ lq_head \in SQ!Idx /\ TypeOK
      /\ sq \in [SQ!Idx -> SQ!Entry]
  BY <1>1, QueueFront, Typed DEF QueueInv
<1>3. /\ SQ!Wrap(sq_tail - sq_head) = Cardinality(Flying("store"))
      /\ LQ!Wrap(lq_tail - lq_head) = Cardinality(Flying("load"))
  <2>1. /\ Cardinality(Flying("store")) = Count(prog, "store", arch, fpc)
        /\ Cardinality(Flying("load")) = Count(prog, "load", arch, fpc)
    BY <1>2, FlyingCount
  <2>2. PICK c \in Nat : c = Count(prog, "store", arch, fpc)
    BY <1>1, Typed, CountType
  <2>3. PICK d \in Nat : d = Count(prog, "load", arch, fpc)
    BY <1>1, Typed, CountType
  <2>4. c < LSQ_SIZE /\ d < LSQ_SIZE
    BY <1>1, <2>1, <2>2, <2>3 DEF QueueRoom
  <2>5. sq_tail = SQ!Wrap(sq_head + c) /\ lq_tail = SQ!Wrap(lq_head + d)
    BY <1>1, <2>2, <2>3 DEF QueueInv, Pointers, SqOf, LqOf, SQ!Wrap, LQ!Wrap
  <2>6. SQ!Wrap(SQ!Wrap(sq_head + c) - sq_head) = c /\ SQ!Wrap(SQ!Wrap(lq_head + d) - lq_head) = d
    BY <1>2, <2>4, Distance
  <2>7. QED
    BY <2>1, <2>2, <2>3, <2>5, <2>6 DEF SQ!Wrap, LQ!Wrap
<1>4. ASSUME NEW e \in rs \cup {is_ex[w] : w \in {v \in Ways : is_ex[v].valid}}
      PROVE  LET i == e.rob_idx
             IN  /\ e.SQ_idx = SQ!Wrap(SqPlace(i) + (IF KindOf(i) = "store" THEN 1 ELSE 0))
                 /\ e.LQ_idx = LQ!Wrap(LqPlace(i) + (IF KindOf(i) = "load" THEN 1 ELSE 0))
  <2>1. PICK i : i = e.rob_idx
    OBVIOUS
  <2>2. i \in InFlight /\ e.SQ_idx = SqOf(Ins(i) + 1) /\ e.LQ_idx = LqOf(Ins(i) + 1)
    <3>1. CASE e \in rs
      <4>1. i \in InFlight /\ e = Waiting(i, e.bank)
        BY <1>1, <2>1, <3>1 DEF QueueInv, Carried
      <4>2. QED
        BY <4>1 DEF Waiting
    <3>2. CASE e \notin rs
      <4>1. PICK w \in Ways : is_ex[w].valid /\ e = is_ex[w]
        BY <3>2
      <4>2. QED
        BY <1>1, <2>1, <4>1, PortIs DEF Idle
    <3>3. QED
      BY <3>1, <3>2
  <2>3. QED
    BY <1>1, <2>1, <2>2, PlacesSame
<1>5. ASSUME NEW i \in Flying("store"), retire_tag[i]
      PROVE  sq[SqPlace(i)] = [valid |-> TRUE, addr |-> AddrOf(i), value |-> data[i].ins + 1]
  <2>1. i \in InFlight /\ i \in Slot /\ SqPlace(i) = SqOf(Ins(i))
    BY <1>1, PlacesSame DEF Flying, InFlight
  <2>2. In(Done, i)
    BY <1>5, <2>1, InMeans
  <2>3. PICK o : o = sq[SqOf(Ins(i))]
    OBVIOUS
  <2>4. o.valid /\ o.addr = AddrOf(i) /\ o.value = Ins(i) + 1
    BY <1>1, <2>2, <2>3 DEF QueueInv, StoresFilled
  <2>5. o \in SQ!Entry
    <3>1. Ins(i) \in Op /\ arch <= Ins(i)
      BY <1>1, <2>1, FlightIs
    <3>2. SqOf(Ins(i)) \in SQ!Idx
      <4>1. sq_head + Count(prog, "store", arch, Ins(i)) \in Int
        BY <1>1, <3>1, Typed, CountType, Sets DEF Op
      <4>2. QED
        BY <4>1, SqWraps DEF SqOf
    <3>3. QED
      BY <1>2, <2>3, <3>2
  <2>6. QED
    BY <2>1, <2>3, <2>4, <2>5 DEF SQ!Entry, Ins
<1>6. ASSUME NEW i \in Flying("load")
      PROVE  lq[LqPlace(i)].rob_idx = i /\ (retire_tag[i] => lq[LqPlace(i)].valid)
  <2>1. i \in InFlight /\ i \in Slot /\ LqPlace(i) = LqOf(Ins(i))
    BY <1>1, PlacesSame DEF Flying, InFlight
  <2>2. PICK o : o = lq[LqOf(Ins(i))]
    OBVIOUS
  <2>3. /\ o.rob_idx = i
        /\ o.valid <=> ~((\E x \in rs : In(InStation(x), i)) \/ \E w \in Ways : In(AtPort(w), i))
    BY <1>1, <2>2 DEF QueueInv, LoadsKnown
  <2>4. ASSUME retire_tag[i] PROVE o.valid
    <3>1. In(Done, i)
      BY <2>1, <2>4, InMeans
    <3>2. \A p : In(p, i) => p = Done
      BY <1>1, <2>1, <3>1 DEF QueueInv, Placed
    <3>3. QED
      BY <2>3, <3>2, TagsApart
  <2>5. QED
    BY <2>1, <2>2, <2>3, <2>4
<1>7. QED
  BY <1>2, <1>3, <1>4, <1>5, <1>6 DEF QueuesExact

LEMMA OnePlaceIs == QueueInv => OnePlace
<1>1. SUFFICES ASSUME QueueInv, rob_cnt > 0, NEW i \in Slot, NEW places,
                      places = {<<"station", e>> : e \in {x \in rs : x.rob_idx = i}}
                        \cup {<<"port", w>> : w \in {v \in Ways : is_ex[v].valid /\ is_ex[v].rob_idx = i}}
                        \cup {<<"buffer", j>> : j \in {k \in InBuffer : lb[k].load.rob_idx = i}}
                        \cup {<<"bus", w>> : w \in {v \in Ways : ex_cm[v].valid /\ ex_cm[v].rob_idx = i}}
                        \cup (IF retire_tag[i] THEN {<<"done", 0>>} ELSE {})
               PROVE  Cardinality(places) = IF data[i].valid THEN 1 ELSE 0
  BY DEF OnePlace
<1>2. \A p : p \in places <=> In(p, i)
  BY <1>1 DEF In, InStation, AtPort, Buffered, OnBus, Done
<1>3. i \in InFlight <=> data[i].valid
  BY <1>1, FlightIs
<1>4. CASE i \in InFlight
  <2>1. PICK p : In(p, i)
    BY <1>1, <1>4 DEF QueueInv, Placed
  <2>2. \A q : In(q, i) => q = p
    BY <1>1, <1>4, <2>1 DEF QueueInv, Placed
  <2>3. places = {p}
    BY <1>2, <2>1, <2>2
  <2>4. QED
    BY <1>3, <1>4, <2>3, FS_Singleton
<1>5. CASE i \notin InFlight
  <2>1. \A p : ~In(p, i)
    BY <1>1, <1>5 DEF QueueInv, Placed
  <2>2. places = {}
    BY <1>2, <2>1
  <2>3. QED
    BY <1>3, <1>5, <2>2, FS_EmptySet
<1>6. QED
  BY <1>4, <1>5

(* Every store and load in flight is where its index says, the pointers of the queues are
   where the operations in flight end, and no place of the queues is given twice, although a
   rollback only resets them and a store's index is found by counting (LSQ.sv, rob.sv:150),
   for every size and every program, as long as no load is held beside its copy, none is
   lost beside a retiring store, and the queues are not overrun. *)
THEOREM MemPipeQueuesExact == Spec /\ []Regular => []QueuesExact
<1>1. Regular => QueueRoom
  BY DEF Regular
<1>2. QED
  BY <1>1, MemPipeQueueInv, QueuesExactIs, PTL

(* In the same behaviours an instruction in flight is in exactly one of station, port,
   load buffer, result bus and completed (ex_stage.sv, load_buffer.sv): a load neither gets
   lost on its way through the store queue, the buffer of retired stores and the memory, nor
   answers twice. *)
THEOREM MemPipeOnePlace == Spec /\ []Regular => []OnePlace
<1>1. QED
  BY MemPipeQueueInv, OnePlaceIs, PTL

-----------------------------------------------------------------------------
(* What a load can see, and memory behind the retire buffer. *)

(* The stores in flight that load i can read from: older, to its address, and executed.  It
   sees the last of them, or else what has retired. *)
Latest(T) == CHOOSE k \in T : \A l \in T : l <= k
Sources(i) ==
  {k \in Among(prog, "store", arch, Ins(i)) : prog[k].addr = AddrOf(i) /\ sq[SqOf(k)].valid}
Visible(i) == IF Sources(i) = {} THEN SeenMemory[AddrOf(i)] ELSE Latest(Sources(i)) + 1

LEMMA LatestIs ==
  ASSUME NEW T, T \subseteq Op, T # {}
  PROVE  Latest(T) \in T /\ \A k \in T : k <= Latest(T)
<1>1. NUM_OPS \in Nat /\ T \subseteq 0 .. NUM_OPS
  BY Sizes DEF Op
<1>2. \E j \in T : \A k \in T : k <= j
  BY <1>1, HighestIn
<1>3. QED
  BY <1>2 DEF Latest

-----------------------------------------------------------------------------
(* v is what a program sees at address a of memory m behind the buffer q. *)
IsSeen(q, m, a, v) ==
  \/ (\A n \in 1 .. Len(q) : q[n].addr # a) /\ v = m[a]
  \/ \E n \in 1 .. Len(q) : /\ q[n].addr = a /\ v = q[n].value
                            /\ \A l \in 1 .. Len(q) : q[l].addr = a => l <= n

SeenAt(q, m, a) ==
  LET T == {k \in 1 .. Len(q) : q[k].addr = a}
  IN  IF T = {} THEN m[a] ELSE q[CHOOSE k \in T : \A l \in T : l <= k].value

LEMMA SeenFun ==
  ASSUME NEW q \in Seq(SQ!Entry), NEW m, NEW a, NEW v
  PROVE  IsSeen(q, m, a, v) <=> v = SeenAt(q, m, a)
<1> DEFINE T == {k \in 1 .. Len(q) : q[k].addr = a}
<1>0. SeenAt(q, m, a) = IF T = {} THEN m[a] ELSE q[CHOOSE k \in T : \A l \in T : l <= k].value
  BY DEF SeenAt
<1>1. Len(q) \in Nat
  OBVIOUS
<1>2. CASE T = {}
  BY <1>0, <1>2 DEF IsSeen
<1>3. CASE T # {}
  <2>1. T \subseteq 0 .. Len(q)
    BY <1>1
  <2>2. \E j \in T : \A k \in T : k <= j
    BY <1>1, <1>3, <2>1, HighestIn
  <2>3. PICK c : c = CHOOSE k \in T : \A l \in T : l <= k
    OBVIOUS
  <2>4. c \in T /\ \A l \in T : l <= c
    BY <2>2, <2>3
  <2>5. \A n \in T : (\A l \in T : l <= n) => n = c
    BY <1>1, <2>4
  <2>6. ~\A n \in 1 .. Len(q) : q[n].addr # a
    BY <1>3
  <2>7. IsSeen(q, m, a, v) <=> \E n \in T : v = q[n].value /\ \A l \in T : l <= n
    BY <2>6 DEF IsSeen
  <2>8. (\E n \in T : v = q[n].value /\ \A l \in T : l <= n) <=> v = q[c].value
    BY <2>4, <2>5
  <2>9. QED
    BY <1>0, <1>3, <2>3, <2>7, <2>8
<1>4. QED
  BY <1>2, <1>3

LEMMA SeenIs ==
  ASSUME rtb \in Seq(SQ!Entry), NEW a \in Addr, NEW v
  PROVE  SeenMemory[a] = v <=> IsSeen(rtb, unified_memory, a, v)
<1>1. SeenMemory[a] = SeenAt(rtb, unified_memory, a)
  BY DEF SeenMemory, SeenAt
<1>2. IsSeen(rtb, unified_memory, a, v) <=> v = SeenAt(rtb, unified_memory, a)
  BY SeenFun
<1>3. QED
  BY <1>1, <1>2

LEMMA SeenIsNext ==
  ASSUME rtb' \in Seq(SQ!Entry), NEW a \in Addr, NEW v
  PROVE  SeenMemory'[a] = v <=> IsSeen(rtb', unified_memory', a, v)
<1>1. SeenMemory'[a] = SeenAt(rtb', unified_memory', a)
  BY DEF SeenMemory, SeenAt
<1>2. IsSeen(rtb', unified_memory', a, v) <=> v = SeenAt(rtb', unified_memory', a)
  BY SeenFun
<1>3. QED
  BY <1>1, <1>2

(* The first of the buffer goes to memory: nothing is seen of it. *)
LEMMA SeenDrain ==
  ASSUME NEW q \in Seq(SQ!Entry), q # <<>>, NEW m \in [Addr -> Value], NEW a \in Addr, NEW v,
         IsSeen(q, m, a, v)
  PROVE  /\ Tail(q) \in Seq(SQ!Entry)
         /\ IsSeen(Tail(q), [m EXCEPT ![q[1].addr] = q[1].value], a, v)
<1>1. /\ Len(q) \in Nat /\ Len(q) >= 1 /\ Tail(q) \in Seq(SQ!Entry) /\ Len(Tail(q)) = Len(q) - 1
      /\ \A n \in 1 .. Len(q) - 1 : Tail(q)[n] = q[n + 1]
  BY EmptySeq, HeadTailProperties
<1>2. CASE \A n \in 1 .. Len(q) : q[n].addr # a
  <2>1. v = m[a] /\ q[1].addr # a
    BY <1>1, <1>2 DEF IsSeen
  <2>2. [m EXCEPT ![q[1].addr] = q[1].value][a] = v
    BY <2>1
  <2>3. \A n \in 1 .. Len(Tail(q)) : Tail(q)[n].addr # a
    BY <1>1, <1>2
  <2>4. QED
    BY <1>1, <2>2, <2>3 DEF IsSeen
<1>3. CASE \E n \in 1 .. Len(q) : q[n].addr = a
  <2>1. PICK n \in 1 .. Len(q) : /\ q[n].addr = a /\ v = q[n].value
                                 /\ \A l \in 1 .. Len(q) : q[l].addr = a => l <= n
    BY <1>3 DEF IsSeen
  <2>2. CASE n = 1
    <3>1. \A l \in 1 .. Len(Tail(q)) : Tail(q)[l].addr # a
      <4>1. SUFFICES ASSUME NEW l \in 1 .. Len(q) - 1, q[l + 1].addr = a PROVE FALSE
        BY <1>1
      <4>2. l + 1 \in 1 .. Len(q) /\ ~(l + 1 <= 1)
        BY <1>1
      <4>3. QED
        BY <2>1, <2>2, <4>1, <4>2
    <3>2. [m EXCEPT ![q[1].addr] = q[1].value][a] = v
      BY <2>1, <2>2
    <3>3. QED
      BY <1>1, <3>1, <3>2 DEF IsSeen
  <2>3. CASE n # 1
    <3>1. PICK k \in 1 .. Len(Tail(q)) : n = k + 1
      BY <1>1, <2>3
    <3>2. Tail(q)[k] = q[n]
      BY <1>1, <3>1
    <3>3. \A l \in 1 .. Len(Tail(q)) : Tail(q)[l].addr = a => l <= k
      <4>1. SUFFICES ASSUME NEW l \in 1 .. Len(q) - 1, q[l + 1].addr = a PROVE l <= k
        BY <1>1
      <4>2. l + 1 \in 1 .. Len(q)
        BY <1>1
      <4>3. l + 1 <= n
        BY <2>1, <4>1, <4>2
      <4>4. QED
        BY <1>1, <3>1, <4>3
    <3>4. QED
      BY <1>1, <2>1, <3>2, <3>3 DEF IsSeen
  <2>4. QED
    BY <2>2, <2>3
<1>4. QED
  BY <1>2, <1>3

(* One more store behind the buffer is seen at its address. *)
LEMMA SeenAppend ==
  ASSUME NEW q \in Seq(SQ!Entry), NEW e \in SQ!Entry, NEW m, NEW a, NEW v, IsSeen(q, m, a, v)
  PROVE  /\ q \o <<e>> \in Seq(SQ!Entry)
         /\ IsSeen(q \o <<e>>, m, a, IF e.addr = a THEN e.value ELSE v)
<1>1. PICK r : r = q \o <<e>>
  OBVIOUS
<1>2. /\ Len(q) \in Nat /\ r \in Seq(SQ!Entry) /\ Len(r) = Len(q) + 1
      /\ \A n \in 1 .. Len(q) : r[n] = q[n]
      /\ r[Len(q) + 1] = e
  <2>1. <<e>> \in Seq(SQ!Entry) /\ Len(<<e>>) = 1 /\ <<e>>[1] = e
    OBVIOUS
  <2>2. QED
    BY <1>1, <2>1, ConcatProperties
<1>3. CASE e.addr = a
  <2>1. Len(q) + 1 \in 1 .. Len(r) /\ \A l \in 1 .. Len(r) : l <= Len(q) + 1
    BY <1>2
  <2>2. IsSeen(r, m, a, e.value)
    BY <1>2, <1>3, <2>1 DEF IsSeen
  <2>3. QED
    BY <1>1, <1>2, <1>3, <2>2
<1>4. CASE e.addr # a
  <2>1. \A n \in 1 .. Len(r) : r[n].addr = a => n \in 1 .. Len(q)
    BY <1>2, <1>4
  <2>2. 1 .. Len(q) \subseteq 1 .. Len(r)
    BY <1>2
  <2>3. IsSeen(r, m, a, v)
    <3>1. CASE \A n \in 1 .. Len(q) : q[n].addr # a
      BY <1>2, <2>1, <3>1 DEF IsSeen
    <3>2. CASE \E n \in 1 .. Len(q) : q[n].addr = a
      <4>1. PICK n \in 1 .. Len(q) : /\ q[n].addr = a /\ v = q[n].value
                                     /\ \A l \in 1 .. Len(q) : q[l].addr = a => l <= n
        BY <3>2 DEF IsSeen
      <4>2. n \in 1 .. Len(r) /\ r[n].addr = a /\ v = r[n].value
        BY <1>2, <2>2, <4>1
      <4>3. \A l \in 1 .. Len(r) : r[l].addr = a => l <= n
        BY <1>2, <2>1, <4>1
      <4>4. QED
        BY <4>2, <4>3 DEF IsSeen
    <3>3. QED
      BY <3>1, <3>2
  <2>4. QED
    BY <1>1, <1>2, <1>4, <2>3
<1>5. QED
  BY <1>3, <1>4

-----------------------------------------------------------------------------
(* What the stores that retire bring to the retire buffer. *)

(* What store k leaves in its place. *)
StoreOf(k) == [valid |-> TRUE, addr |-> prog[k].addr, value |-> k + 1]

LEMMA StoreTyped ==
  ASSUME QueueInv, NEW k \in Op
  PROVE  StoreOf(k) \in SQ!Entry
  BY Typed, Sizes DEF StoreOf, SQ!Entry, Op, Value

(* A store that has completed is in its place. *)
LEMMA FilledIs ==
  ASSUME QueueInv, NEW i \in Flying("store"), sq[SqOf(Ins(i))].valid
  PROVE  sq[SqOf(Ins(i))] = StoreOf(Ins(i))
<1>1. PICK o : o = sq[SqOf(Ins(i))]
  OBVIOUS
<1>2. i \in InFlight /\ i \in Slot
  BY DEF Flying, InFlight
<1>3. Ins(i) \in Op /\ arch <= Ins(i)
  BY <1>2, FlightIs
<1>4. o.valid /\ o.addr = AddrOf(i) /\ o.value = Ins(i) + 1
  BY <1>1 DEF QueueInv, StoresFilled
<1>5. o \in SQ!Entry
  <2>1. sq_head + Count(prog, "store", arch, Ins(i)) \in Int
    BY <1>3, Typed, CountType, Sets DEF Op
  <2>2. SqOf(Ins(i)) \in SQ!Idx
    BY <2>1, SqWraps DEF SqOf
  <2>3. QED
    BY <1>1, <2>2, Typed
<1>6. AddrOf(i) = prog[Ins(i)].addr
  BY DEF AddrOf, Ins
<1>7. QED
  BY <1>1, <1>4, <1>5, <1>6 DEF StoreOf, SQ!Entry

LEMMA CompletedStore ==
  ASSUME QueueInv, NEW i \in InFlight, KindOf(i) = "store", R!Completed(ex_cm, i)
  PROVE  sq[SqOf(Ins(i))] = StoreOf(Ins(i))
<1>1. i \in Flying("store")
  BY DEF Flying
<1>2. In(Done, i) \/ \E w \in Ways : In(OnBus(w), i)
  BY CompletedIn
<1>3. sq[SqOf(Ins(i))].valid
  BY <1>1, <1>2 DEF QueueInv, StoresFilled
<1>4. QED
  BY <1>1, <1>3, FilledIs

(* The stores that retire, as they go to the retire buffer. *)
LEMMA RetiringStore ==
  ASSUME QueueInv, NEW w \in Ways, Retiring("store")[w]
  PROVE  /\ arch + w \in Op /\ prog[arch + w].kind = "store" /\ arch + w < fpc
         /\ sq[SqOf(arch + w)] = StoreOf(arch + w)
<1>0. arch \in Nat /\ Ways = {0, 1}
  BY Typed, Sets
<1>1. CASE w = 0
  <2>1. head_retire_rdy /\ prog[arch].kind = "store"
    <3>1. Retiring("store")[0] <=> Leaving >= 1 /\ prog[arch].kind = "store"
      BY RetiringCount
    <3>2. Retiring("store")[0] = (head_retire_rdy /\ prog[first.ins].kind = "store")
      BY <1>0 DEF Retiring
    <3>3. QED
      BY <1>1, <3>1, <3>2
  <2>2. rob_head \in InFlight /\ first.ins = arch /\ R!Completed(ex_cm, rob_head)
    BY <2>1, Heads
  <2>3. Ins(rob_head) = arch /\ KindOf(rob_head) = "store" /\ rob_head \in Slot
    BY <2>1, <2>2, Heads DEF Ins, KindOf, first
  <2>4. arch \in Op /\ arch < fpc
    BY <2>2, <2>3, FlightIs
  <2>5. arch + w = arch
    BY <1>0, <1>1
  <2>6. QED
    BY <2>1, <2>2, <2>3, <2>4, <2>5, CompletedStore
<1>2. CASE w = 1
  <2>1. head_p1_retire_rdy /\ prog[arch + 1].kind = "store"
    <3>1. Retiring("store")[1] <=> Leaving = 2 /\ prog[arch + 1].kind = "store"
      BY RetiringCount
    <3>2. Retiring("store")[1] = (head_p1_retire_rdy /\ prog[second.ins].kind = "store")
      BY <1>0 DEF Retiring
    <3>3. QED
      BY <1>2, <3>1, <3>2
  <2>2. Rob!head_p1 \in InFlight /\ second.ins = arch + 1 /\ R!Completed(ex_cm, Rob!head_p1)
    BY <2>1, Heads
  <2>3. Ins(Rob!head_p1) = arch + 1 /\ KindOf(Rob!head_p1) = "store" /\ Rob!head_p1 \in Slot
    BY <2>1, <2>2, Heads DEF Ins, KindOf, second
  <2>4. arch + 1 \in Op /\ arch + 1 < fpc
    BY <2>2, <2>3, FlightIs
  <2>5. QED
    BY <1>2, <2>1, <2>2, <2>3, <2>4, CompletedStore
<1>3. QED
  BY <1>0, <1>1, <1>2

LEMMA RetiredIs ==
  ASSUME QueueInv
  PROVE  LET r == Retiring("store")
         IN  SQ!Retired(r) = (IF r[0] THEN <<StoreOf(arch)>> ELSE <<>>)
                               \o (IF r[1] THEN <<StoreOf(arch + 1)>> ELSE <<>>)
<1> DEFINE r == Retiring("store")
<1>0. arch \in Nat /\ Ways = {0, 1} /\ sq_head \in Nat /\ sq_head < LSQ_SIZE /\ LSQ_SIZE \in Nat /\ LSQ_SIZE >= 2
  BY Typed, Sets, Sizes
<1>1. SQ!Upto(r, 1) = (IF r[0] THEN 1 ELSE 0) + (IF r[1] THEN 1 ELSE 0)
  BY UptoIs
<1>2. SQ!Retired(r) = [k \in 1 .. SQ!Upto(r, 1) |-> sq[SQ!Wrap(sq_head + k - 1)]]
  BY DEF SQ!Retired
<1>3. SqOf(arch) = SQ!Wrap(sq_head)
  BY <1>0, CountNone DEF SqOf
<1>4. arch \in Op => SqOf(arch + 1) = SQ!Wrap(sq_head + IF prog[arch].kind = "store" THEN 1 ELSE 0)
  BY <1>0, CountOne DEF SqOf
<1>5. /\ r[0] => sq[SqOf(arch)] = StoreOf(arch) /\ prog[arch].kind = "store" /\ arch \in Op
      /\ r[1] => /\ sq[SqOf(arch + 1)] = StoreOf(arch + 1) /\ arch + 1 \in Op
  <2>1. r[0] => /\ arch + 0 \in Op /\ prog[arch + 0].kind = "store"
                /\ sq[SqOf(arch + 0)] = StoreOf(arch + 0)
    BY <1>0, RetiringStore
  <2>2. r[1] => arch + 1 \in Op /\ sq[SqOf(arch + 1)] = StoreOf(arch + 1)
    BY <1>0, RetiringStore
  <2>3. arch + 0 = arch
    BY <1>0
  <2>4. QED
    BY <2>1, <2>2, <2>3
<1>6. r[1] /\ ~r[0] => prog[arch].kind # "store" /\ arch \in Op
  <2>1. /\ r[0] <=> Leaving >= 1 /\ prog[arch].kind = "store"
        /\ r[1] <=> Leaving = 2 /\ prog[arch + 1].kind = "store"
    BY RetiringCount
  <2>2. r[1] => arch \in Op
    BY <1>0, <1>5, Sizes DEF Op
  <2>3. QED
    BY <2>1, <2>2
<1>7. /\ r[0] => sq[SQ!Wrap(sq_head)] = StoreOf(arch)
      /\ r[0] /\ r[1] => sq[SQ!Wrap(sq_head + 1)] = StoreOf(arch + 1)
      /\ ~r[0] /\ r[1] => sq[SQ!Wrap(sq_head)] = StoreOf(arch + 1)
  <2>1. sq_head + 0 = sq_head
    BY <1>0
  <2>2. QED
    BY <1>3, <1>4, <1>5, <1>6, <2>1
<1>8. sq_head + 1 - 1 = sq_head /\ sq_head + 2 - 1 = sq_head + 1
  BY <1>0
<1> HIDE DEF r
<1>9. CASE r[0] /\ r[1]
  <2>1. SQ!Retired(r) = [k \in 1 .. 2 |-> sq[SQ!Wrap(sq_head + k - 1)]]
    BY <1>1, <1>2, <1>9
  <2>2. SQ!Retired(r) = <<sq[SQ!Wrap(sq_head)], sq[SQ!Wrap(sq_head + 1)]>>
    BY <1>8, <2>1
  <2>3. QED
    BY <1>7, <1>9, <2>2 DEF r
<1>10. CASE r[0] /\ ~r[1]
  <2>1. SQ!Retired(r) = [k \in 1 .. 1 |-> sq[SQ!Wrap(sq_head + k - 1)]]
    BY <1>1, <1>2, <1>10
  <2>2. SQ!Retired(r) = <<sq[SQ!Wrap(sq_head)]>>
    BY <1>8, <2>1
  <2>3. QED
    BY <1>7, <1>10, <2>2 DEF r
<1>11. CASE ~r[0] /\ r[1]
  <2>1. SQ!Retired(r) = [k \in 1 .. 1 |-> sq[SQ!Wrap(sq_head + k - 1)]]
    BY <1>1, <1>2, <1>11
  <2>2. SQ!Retired(r) = <<sq[SQ!Wrap(sq_head)]>>
    BY <1>8, <2>1
  <2>3. QED
    BY <1>7, <1>11, <2>2 DEF r
<1>12. CASE ~r[0] /\ ~r[1]
  <2>1. SQ!Retired(r) = [k \in 1 .. 0 |-> sq[SQ!Wrap(sq_head + k - 1)]]
    BY <1>1, <1>2, <1>12
  <2>2. SQ!Retired(r) = <<>>
    BY <2>1
  <2>3. <<>> \o <<>> = <<>>
    BY EmptySeq, ConcatEmptySeq
  <2>4. QED
    BY <1>12, <2>2, <2>3 DEF r
<1>13. QED
  BY <1>9, <1>10, <1>11, <1>12 DEF r

-----------------------------------------------------------------------------
(* Memory as the program sees it moves with what retires. *)

(* What is left in the retire buffer when memory has taken the first store. *)
Left == IF RTB!wr_en THEN Tail(rtb) ELSE rtb

LEMMA BufferIs ==
  ASSUME QueueInv, Memory
  PROVE  LET r == Retiring("store")
             q == IF r[0] THEN Left \o <<StoreOf(arch)>> ELSE Left
         IN  /\ rtb' = IF r[1] THEN q \o <<StoreOf(arch + 1)>> ELSE q
             /\ Left \in Seq(SQ!Entry)
             /\ r[0] => StoreOf(arch) \in SQ!Entry
             /\ r[1] => StoreOf(arch + 1) \in SQ!Entry
<1>1. PICK r : r = Retiring("store")
  OBVIOUS
<1>2. rtb' = Left \o SQ!Retired(r)
  BY <1>1 DEF Memory, RTB!Clock, Left
<1>3. Left \in Seq(SQ!Entry)
  <2>1. rtb \in Seq(SQ!Entry)
    BY Typed
  <2>2. rtb # <<>> => Tail(rtb) \in Seq(SQ!Entry)
    BY <2>1
  <2>3. QED
    BY <2>1, <2>2 DEF Left, RTB!wr_en, RTB!empty
<1>4. /\ r[0] => StoreOf(arch) \in SQ!Entry
      /\ r[1] => StoreOf(arch + 1) \in SQ!Entry
  <2>1. arch \in Nat /\ Ways = {0, 1}
    BY Typed, Sets
  <2>2. r[0] => arch + 0 \in Op
    BY <1>1, <2>1, RetiringStore
  <2>3. r[1] => arch + 1 \in Op
    BY <1>1, <2>1, RetiringStore
  <2>4. arch + 0 = arch
    BY <2>1
  <2>5. QED
    BY <2>2, <2>3, <2>4, StoreTyped
<1>5. SQ!Retired(r) = (IF r[0] THEN <<StoreOf(arch)>> ELSE <<>>)
                        \o (IF r[1] THEN <<StoreOf(arch + 1)>> ELSE <<>>)
  BY <1>1, RetiredIs
<1>6. rtb' = IF r[1] THEN (IF r[0] THEN Left \o <<StoreOf(arch)>> ELSE Left) \o <<StoreOf(arch + 1)>>
             ELSE IF r[0] THEN Left \o <<StoreOf(arch)>> ELSE Left
  <2>1. CASE r[0] /\ r[1]
    <3>1. <<StoreOf(arch)>> \in Seq(SQ!Entry) /\ <<StoreOf(arch + 1)>> \in Seq(SQ!Entry)
      BY <1>4, <2>1
    <3>2. Left \o (<<StoreOf(arch)>> \o <<StoreOf(arch + 1)>>)
            = (Left \o <<StoreOf(arch)>>) \o <<StoreOf(arch + 1)>>
      BY <1>3, <3>1, ConcatAssociative
    <3>3. QED
      BY <1>2, <1>5, <2>1, <3>2
  <2>2. CASE r[0] /\ ~r[1]
    <3>1. <<StoreOf(arch)>> \in Seq(SQ!Entry)
      BY <1>4, <2>2
    <3>2. <<StoreOf(arch)>> \o <<>> = <<StoreOf(arch)>>
      BY <3>1, ConcatEmptySeq
    <3>3. QED
      BY <1>2, <1>5, <2>2, <3>2
  <2>3. CASE ~r[0] /\ r[1]
    <3>1. <<StoreOf(arch + 1)>> \in Seq(SQ!Entry)
      BY <1>4, <2>3
    <3>2. <<>> \o <<StoreOf(arch + 1)>> = <<StoreOf(arch + 1)>>
      BY <3>1, ConcatEmptySeq
    <3>3. QED
      BY <1>2, <1>5, <2>3, <3>2
  <2>4. CASE ~r[0] /\ ~r[1]
    <3>1. <<>> \o <<>> = <<>> /\ Left \o <<>> = Left
      BY <1>3, EmptySeq, ConcatEmptySeq
    <3>2. QED
      BY <1>2, <1>5, <2>4, <3>1
  <2>5. QED
    BY <2>1, <2>2, <2>3, <2>4
<1>7. QED
  BY <1>1, <1>3, <1>4, <1>6

(* What holds of all that is left and of all that comes holds of the buffer. *)
LEMMA BufferStays ==
  ASSUME QueueInv, Memory, NEW W, W \subseteq SQ!Entry, Left \in Seq(W),
         Retiring("store")[0] => StoreOf(arch) \in W,
         Retiring("store")[1] => StoreOf(arch + 1) \in W
  PROVE  rtb' \in Seq(W)
<1>1. PICK r : r = Retiring("store")
  OBVIOUS
<1>2. PICK q : q = IF r[0] THEN Left \o <<StoreOf(arch)>> ELSE Left
  OBVIOUS
<1>3. q \in Seq(W)
  <2>1. CASE r[0]
    <3>1. <<StoreOf(arch)>> \in Seq(W)
      BY <1>1, <2>1
    <3>2. QED
      BY <1>2, <2>1, <3>1, ConcatProperties
  <2>2. CASE ~r[0]
    BY <1>2, <2>2
  <2>3. QED
    BY <2>1, <2>2
<1>4. rtb' = IF r[1] THEN q \o <<StoreOf(arch + 1)>> ELSE q
  BY <1>1, <1>2, BufferIs
<1>5. QED
  <2>1. CASE r[1]
    <3>1. <<StoreOf(arch + 1)>> \in Seq(W)
      BY <1>1, <2>1
    <3>2. QED
      BY <1>3, <1>4, <2>1, <3>1, ConcatProperties
  <2>2. CASE ~r[1]
    BY <1>3, <1>4, <2>2
  <2>3. QED
    BY <2>1, <2>2

(* All that has retired has been executed. *)
AllValid == rtb \in Seq({e \in SQ!Entry : e.valid})

LEMMA SendsFirst ==
  ASSUME AllValid
  PROVE  /\ RTB!wr_en <=> rtb # <<>>
         /\ Left \in Seq({e \in SQ!Entry : e.valid})
<1>1. rtb # <<>> => rtb[1].valid /\ Tail(rtb) \in Seq({e \in SQ!Entry : e.valid})
  BY DEF AllValid
<1>2. QED
  BY <1>1 DEF RTB!wr_en, RTB!empty, Left, AllValid

LEMMA AllValidStep ==
  ASSUME QueueInv, AllValid, Memory
  PROVE  AllValid'
<1>1. PICK W : W = {e \in SQ!Entry : e.valid}
  OBVIOUS
<1>2. /\ Retiring("store")[0] => StoreOf(arch) \in W
      /\ Retiring("store")[1] => StoreOf(arch + 1) \in W
  BY <1>1, BufferIs DEF StoreOf
<1>3. Left \in Seq(W) /\ W \subseteq SQ!Entry
  BY <1>1, SendsFirst
<1>4. rtb' \in Seq(W)
  BY <1>2, <1>3, BufferStays
<1>5. QED
  BY <1>1, <1>4 DEF AllValid, SQ!Entry

(* What a program sees of memory changes by what retires, whatever is drained. *)
LEMMA SeenMoves ==
  ASSUME QueueInv, AllValid, Memory, NEW a \in Addr
  PROVE  LET r == Retiring("store")
             v == IF r[0] /\ prog[arch].addr = a THEN arch + 1 ELSE SeenMemory[a]
         IN  SeenMemory'[a] = IF r[1] /\ prog[arch + 1].addr = a THEN arch + 1 + 1 ELSE v
<1>1. PICK r : r = Retiring("store")
  OBVIOUS
<1>2. PICK m : m = unified_memory'
  OBVIOUS
<1>3. rtb \in Seq(SQ!Entry) /\ unified_memory \in [Addr -> Value] /\ rtb' \in Seq(SQ!Entry)
  BY Typed, MemoryTyped
<1>4. PICK x : x = SeenMemory[a]
  OBVIOUS
<1>5. IsSeen(rtb, unified_memory, a, x)
  BY <1>3, <1>4, SeenIs
<1>6. Left \in Seq(SQ!Entry) /\ IsSeen(Left, m, a, x)
  <2>1. CASE rtb = <<>>
    <3>1. Left = rtb /\ m = unified_memory
      BY <1>2, <2>1, SendsFirst DEF Left, Memory
    <3>2. QED
      BY <1>3, <1>5, <3>1
  <2>2. CASE rtb # <<>>
    <3>1. Left = Tail(rtb) /\ m = [unified_memory EXCEPT ![rtb[1].addr] = rtb[1].value]
      BY <1>2, <2>2, SendsFirst DEF Left, Memory
    <3>2. QED
      BY <1>3, <1>5, <2>2, <3>1, SeenDrain
  <2>3. QED
    BY <2>1, <2>2
<1>7. PICK q : q = IF r[0] THEN Left \o <<StoreOf(arch)>> ELSE Left
  OBVIOUS
<1>8. /\ rtb' = IF r[1] THEN q \o <<StoreOf(arch + 1)>> ELSE q
      /\ r[0] => StoreOf(arch) \in SQ!Entry
      /\ r[1] => StoreOf(arch + 1) \in SQ!Entry
  BY <1>1, <1>7, BufferIs
<1>9. PICK v : v = IF r[0] /\ prog[arch].addr = a THEN arch + 1 ELSE x
  OBVIOUS
<1>10. q \in Seq(SQ!Entry) /\ IsSeen(q, m, a, v)
  <2>1. CASE r[0]
    <3>1. /\ Left \o <<StoreOf(arch)>> \in Seq(SQ!Entry)
          /\ IsSeen(Left \o <<StoreOf(arch)>>, m, a,
                    IF StoreOf(arch).addr = a THEN StoreOf(arch).value ELSE x)
      BY <1>6, <1>8, <2>1, SeenAppend
    <3>2. StoreOf(arch).addr = prog[arch].addr /\ StoreOf(arch).value = arch + 1
      BY DEF StoreOf
    <3>3. v = IF StoreOf(arch).addr = a THEN StoreOf(arch).value ELSE x
      BY <1>9, <2>1, <3>2
    <3>4. QED
      BY <1>7, <2>1, <3>1, <3>3
  <2>2. CASE ~r[0]
    BY <1>6, <1>7, <1>9, <2>2
  <2>3. QED
    BY <2>1, <2>2
<1>11. PICK y : y = IF r[1] /\ prog[arch + 1].addr = a THEN arch + 1 + 1 ELSE v
  OBVIOUS
<1>12. IsSeen(rtb', m, a, y)
  <2>1. CASE r[1]
    <3>1. IsSeen(q \o <<StoreOf(arch + 1)>>, m, a,
                 IF StoreOf(arch + 1).addr = a THEN StoreOf(arch + 1).value ELSE v)
      BY <1>8, <1>10, <2>1, SeenAppend
    <3>2. StoreOf(arch + 1).addr = prog[arch + 1].addr /\ StoreOf(arch + 1).value = arch + 1 + 1
      BY DEF StoreOf
    <3>3. y = IF StoreOf(arch + 1).addr = a THEN StoreOf(arch + 1).value ELSE v
      BY <1>11, <2>1, <3>2
    <3>4. QED
      BY <1>8, <2>1, <3>1, <3>3
  <2>2. CASE ~r[1]
    BY <1>8, <1>10, <1>11, <2>2
  <2>3. QED
    BY <2>1, <2>2
<1>13. SeenMemory'[a] = y
  BY <1>2, <1>3, <1>12, SeenIsNext
<1>14. QED
  BY <1>1, <1>4, <1>9, <1>11, <1>13

-----------------------------------------------------------------------------
(* The search of the store queue finds the youngest store that can be seen. *)

(* The places a search looks at, counted from its index on, are those in use. *)
LEMMA SearchPlaces ==
  ASSUME NEW h \in SQ!Idx, NEW c \in Nat, c < LSQ_SIZE, NEW x, x = SQ!Wrap(h + c)
  PROVE  /\ SQ!Wrap(LSQ_SIZE - 1 - x + h) = LSQ_SIZE - 1 - c
         /\ \A j \in SQ!Idx : j > LSQ_SIZE - 1 - c =>
              SQ!Wrap(x + j) = SQ!Wrap(h + (c + j - LSQ_SIZE))
<1>1. h \in Nat /\ h < LSQ_SIZE /\ LSQ_SIZE \in Nat /\ LSQ_SIZE >= 2 /\ h + c \in Int
  BY Sets, Sizes
<1>2. x \in Int /\ (x = h + c \/ x = h + c - LSQ_SIZE) /\ 0 <= x /\ x < LSQ_SIZE
  <2>1. CASE h + c < LSQ_SIZE
    <3>1. SQ!Wrap(h + c) = h + c
      BY <1>1, <2>1, SqWraps
    <3>2. QED
      BY <1>1, <2>1, <3>1
  <2>2. CASE ~(h + c < LSQ_SIZE)
    <3>1. SQ!Wrap(h + c) = h + c - LSQ_SIZE
      BY <1>1, <2>2, SqWraps
    <3>2. QED
      BY <1>1, <2>2, <3>1
  <2>3. QED
    BY <2>1, <2>2
<1>3. SQ!Wrap(LSQ_SIZE - 1 - x + h) = LSQ_SIZE - 1 - c
  <2>1. PICK y \in Int : y = LSQ_SIZE - 1 - x + h
    BY <1>1, <1>2
  <2>2. y = LSQ_SIZE - 1 - c \/ y = LSQ_SIZE - 1 - c + LSQ_SIZE
    BY <1>1, <1>2, <2>1
  <2>3. CASE y = LSQ_SIZE - 1 - c
    <3>1. 0 <= y /\ y < LSQ_SIZE
      BY <1>1, <2>3
    <3>2. SQ!Wrap(y) = y
      BY <3>1, SqWraps
    <3>3. QED
      BY <2>1, <2>3, <3>2
  <2>4. CASE y = LSQ_SIZE - 1 - c + LSQ_SIZE
    <3>1. LSQ_SIZE <= y /\ y < 2 * LSQ_SIZE
      BY <1>1, <2>4
    <3>2. SQ!Wrap(y) = y - LSQ_SIZE
      BY <3>1, SqWraps
    <3>3. QED
      BY <1>1, <2>1, <2>4, <3>2
  <2>5. QED
    BY <2>2, <2>3, <2>4
<1>4. ASSUME NEW j \in SQ!Idx, j > LSQ_SIZE - 1 - c
      PROVE  SQ!Wrap(x + j) = SQ!Wrap(h + (c + j - LSQ_SIZE))
  <2>0. j \in Nat /\ j < LSQ_SIZE
    BY Sets, <1>1
  <2>1. PICK z \in Int : z = h + (c + j - LSQ_SIZE)
    BY <1>1, <2>0
  <2>2. x + j = z \/ x + j = z + LSQ_SIZE
    BY <1>1, <1>2, <2>0, <2>1
  <2>3. CASE x + j = z + LSQ_SIZE
    <3>1. 0 <= z /\ z < LSQ_SIZE
      BY <1>1, <1>2, <1>4, <2>0, <2>1, <2>3
    <3>2. z + LSQ_SIZE \in Int /\ LSQ_SIZE <= z + LSQ_SIZE /\ z + LSQ_SIZE < 2 * LSQ_SIZE
      BY <1>1, <3>1
    <3>3. PICK y \in Int : y = z + LSQ_SIZE
      BY <3>2
    <3>4. SQ!Wrap(y) = y - LSQ_SIZE
      BY <3>2, <3>3, SqWraps
    <3>5. SQ!Wrap(z) = z
      BY <3>1, SqWraps
    <3>6. y - LSQ_SIZE = z
      BY <1>1, <3>3
    <3>7. QED
      BY <2>1, <2>3, <3>3, <3>4, <3>5, <3>6
  <2>4. QED
    BY <2>1, <2>2, <2>3
<1>5. QED
  BY <1>3, <1>4

(* What is in the place of a store in flight. *)
LEMMA PlaceFilled ==
  ASSUME QueueInv, NEW k \in Op, arch <= k, k < fpc, prog[k].kind = "store"
  PROVE  /\ SqOf(k) \in SQ!Idx
         /\ sq[SqOf(k)].valid \in BOOLEAN
         /\ sq[SqOf(k)].valid => sq[SqOf(k)] = StoreOf(k)
<1>1. PICK i \in InFlight : Ins(i) = k
  BY SlotOf DEF Op
<1>2. i \in Flying("store")
  BY <1>1 DEF Flying, KindOf, Ins
<1>3. SqOf(k) \in SQ!Idx
  <2>1. sq_head + Count(prog, "store", arch, k) \in Int
    BY Typed, CountType, Sets DEF Op
  <2>2. QED
    BY <2>1, SqWraps DEF SqOf
<1>4. sq[SqOf(k)] \in SQ!Entry
  BY <1>3, Typed
<1>5. sq[SqOf(k)].valid \in BOOLEAN
  BY <1>4 DEF SQ!Entry
<1>6. QED
  BY <1>1, <1>2, <1>3, <1>5, FilledIs

(* A load that is executed finds exactly the older stores to its address that have been. *)
LEMMA OlderIs ==
  ASSUME QueueInv, QueueRoom, NEW i \in InFlight, KindOf(i) = "load",
         NEW ld, ld.SQ_idx = SqOf(Ins(i) + 1), ld.addr = AddrOf(i),
         NEW c \in Nat, c = Count(prog, "store", arch, Ins(i))
  PROVE  /\ c < LSQ_SIZE
         /\ SQ!Older(ld) \subseteq SQ!Idx
         /\ \A j \in SQ!Older(ld) : \E k \in Sources(i) :
              Count(prog, "store", arch, k) = c + j - LSQ_SIZE /\ SQ!Wrap(ld.SQ_idx + j) = SqOf(k)
         /\ \A k \in Sources(i) : \E j \in SQ!Older(ld) :
              Count(prog, "store", arch, k) = c + j - LSQ_SIZE /\ SQ!Wrap(ld.SQ_idx + j) = SqOf(k)
<1>0. /\ Ins(i) \in Op /\ arch <= Ins(i) /\ Ins(i) < fpc /\ arch \in Nat /\ fpc \in Nat
      /\ sq_head \in SQ!Idx /\ sq_head \in Nat /\ LSQ_SIZE \in Nat /\ prog[Ins(i)].kind = "load"
      /\ Ins(i) \in 0 .. NUM_OPS /\ SQ!Idx = 0 .. LSQ_SIZE - 1
  <2>1. i \in Slot
    BY DEF InFlight
  <2>2. Ins(i) \in Op /\ arch <= Ins(i) /\ Ins(i) < fpc
    BY <2>1, FlightIs
  <2>3. prog[Ins(i)].kind = "load"
    BY DEF KindOf, Ins
  <2>4. QED
    BY <2>2, <2>3, Typed, Sets, Sizes DEF Op
<1>1. c < LSQ_SIZE
  <2>1. RoomCounts
    BY QueueFront, RoomIs
  <2>2. Ins(i) \in arch .. fpc
    BY <1>0 DEF Op
  <2>3. QED
    BY <2>1, <2>2 DEF RoomCounts
<1>2. PICK x : x = SQ!Wrap(sq_head + c)
  OBVIOUS
<1>3. ld.SQ_idx = x
  <2>1. Count(prog, "store", arch, Ins(i) + 1) = c + IF prog[Ins(i)].kind = "store" THEN 1 ELSE 0
    BY <1>0, CountStep
  <2>2. Count(prog, "store", arch, Ins(i) + 1) = c
    BY <1>0, <2>1
  <2>3. QED
    BY <1>2, <2>2 DEF SqOf
<1>4. /\ SQ!Wrap(LSQ_SIZE - 1 - x + sq_head) = LSQ_SIZE - 1 - c
      /\ \A j \in SQ!Idx : j > LSQ_SIZE - 1 - c =>
           SQ!Wrap(x + j) = SQ!Wrap(sq_head + (c + j - LSQ_SIZE))
  <2>1. sq_head \in SQ!Idx /\ c \in Nat /\ c < LSQ_SIZE /\ x = SQ!Wrap(sq_head + c)
    BY <1>0, <1>1, <1>2
  <2>2. QED
    BY <2>1, SearchPlaces
<1>5. SQ!Older(ld) = {j \in SQ!Idx : /\ j > LSQ_SIZE - 1 - c
                                     /\ sq[SQ!Wrap(x + j)].valid /\ sq[SQ!Wrap(x + j)].addr = AddrOf(i)}
  BY <1>3, <1>4 DEF SQ!Older
<1>6. \A k \in Op : k \in Sources(i) <=> /\ arch <= k /\ k < Ins(i) /\ prog[k].kind = "store"
                                         /\ sq[SqOf(k)].valid /\ sq[SqOf(k)].addr = AddrOf(i)
  <2>1. SUFFICES ASSUME NEW k \in Op, arch <= k, k < Ins(i), prog[k].kind = "store", sq[SqOf(k)].valid
                 PROVE  sq[SqOf(k)].addr = prog[k].addr
    BY DEF Sources, Among
  <2>2. k < fpc
    BY <1>0, <2>1 DEF Op
  <2>3. sq[SqOf(k)] = StoreOf(k)
    BY <2>1, <2>2, PlaceFilled
  <2>4. QED
    BY <2>3 DEF StoreOf
<1>7. ASSUME NEW j \in SQ!Older(ld)
      PROVE  \E k \in Sources(i) :
               Count(prog, "store", arch, k) = c + j - LSQ_SIZE /\ SQ!Wrap(ld.SQ_idx + j) = SqOf(k)
  <2>1. /\ j \in SQ!Idx /\ j \in Nat /\ j < LSQ_SIZE /\ j > LSQ_SIZE - 1 - c
        /\ sq[SQ!Wrap(x + j)].valid /\ sq[SQ!Wrap(x + j)].addr = AddrOf(i)
    BY <1>0, <1>5, <1>7
  <2>2. PICK m \in Nat : m = c + j - LSQ_SIZE /\ m < c
    BY <1>0, <1>1, <2>1
  <2>3. PICK k \in Among(prog, "store", arch, Ins(i)) : Count(prog, "store", arch, k) = m
    BY <1>0, <2>2, RankExists
  <2>4. SQ!Wrap(x + j) = SqOf(k)
    BY <1>4, <2>1, <2>2, <2>3 DEF SqOf
  <2>5. k \in Op /\ arch <= k /\ k < Ins(i) /\ prog[k].kind = "store"
    BY <2>3 DEF Among
  <2>6. k \in Sources(i)
    BY <1>6, <2>1, <2>4, <2>5
  <2>7. QED
    BY <1>3, <2>2, <2>3, <2>4, <2>6
<1>8. ASSUME NEW k \in Sources(i)
      PROVE  \E j \in SQ!Older(ld) :
               Count(prog, "store", arch, k) = c + j - LSQ_SIZE /\ SQ!Wrap(ld.SQ_idx + j) = SqOf(k)
  <2>1. k \in Op
    BY DEF Sources, Among
  <2>2. /\ arch <= k /\ k < Ins(i) /\ prog[k].kind = "store"
        /\ sq[SqOf(k)].valid /\ sq[SqOf(k)].addr = AddrOf(i)
    BY <1>6, <2>1
  <2>3. PICK m \in Nat : m = Count(prog, "store", arch, k)
    BY <1>0, <2>1, CountType DEF Op
  <2>4. m < c
    <3>1. Ins(i) \in Int /\ arch \in Int
      BY <1>0
    <3>2. QED
      BY <2>1, <2>2, <2>3, <3>1, CountOrder
  <2>5. PICK j \in SQ!Idx : j = LSQ_SIZE - c + m
    BY <1>0, <1>1, <2>4
  <2>6. j > LSQ_SIZE - 1 - c /\ c + j - LSQ_SIZE = m
    BY <1>0, <1>1, <2>4, <2>5
  <2>7. SQ!Wrap(x + j) = SqOf(k)
    BY <1>4, <2>3, <2>6 DEF SqOf
  <2>8. j \in SQ!Older(ld)
    BY <1>5, <2>2, <2>6, <2>7
  <2>9. QED
    BY <1>3, <2>3, <2>6, <2>7, <2>8
<1>9. QED
  BY <1>1, <1>5, <1>7, <1>8

(* So it gets the value of the youngest of them. *)
LEMMA HitIs ==
  ASSUME QueueInv, QueueRoom, NEW i \in InFlight, KindOf(i) = "load",
         NEW ld, ld.SQ_idx = SqOf(Ins(i) + 1), ld.addr = AddrOf(i)
  PROVE  /\ SQ!st_hit(ld) <=> Sources(i) # {}
         /\ Sources(i) # {} => SQ!st_value(ld) = Latest(Sources(i)) + 1
<1>0. /\ Ins(i) \in Int /\ arch \in Nat /\ LSQ_SIZE \in Nat /\ SQ!Idx = 0 .. LSQ_SIZE - 1
      /\ Ins(i) < fpc /\ fpc \in Nat
  <2>1. i \in Slot
    BY DEF InFlight
  <2>2. Ins(i) \in Op /\ arch <= Ins(i) /\ Ins(i) < fpc
    BY <2>1, FlightIs
  <2>3. QED
    BY <2>2, Typed, Sets, Sizes DEF Op
<1>1. PICK c \in Nat : c = Count(prog, "store", arch, Ins(i))
  BY <1>0, CountType
<1>2. /\ c < LSQ_SIZE
      /\ SQ!Older(ld) \subseteq SQ!Idx
      /\ \A j \in SQ!Older(ld) : \E k \in Sources(i) :
           Count(prog, "store", arch, k) = c + j - LSQ_SIZE /\ SQ!Wrap(ld.SQ_idx + j) = SqOf(k)
      /\ \A k \in Sources(i) : \E j \in SQ!Older(ld) :
           Count(prog, "store", arch, k) = c + j - LSQ_SIZE /\ SQ!Wrap(ld.SQ_idx + j) = SqOf(k)
  BY <1>1, OlderIs
<1>3. SQ!st_hit(ld) <=> Sources(i) # {}
  <2>1. SQ!st_hit(ld) <=> SQ!Older(ld) # {}
    BY DEF SQ!st_hit
  <2>2. QED
    BY <1>2, <2>1
<1>4. ASSUME Sources(i) # {} PROVE SQ!st_value(ld) = Latest(Sources(i)) + 1
  <2>1. PICK k : k = Latest(Sources(i))
    OBVIOUS
  <2>2. Sources(i) \subseteq Op
    BY DEF Sources, Among
  <2>3. k \in Sources(i) /\ \A l \in Sources(i) : l <= k
    BY <1>4, <2>1, <2>2, LatestIs
  <2>4. PICK j \in SQ!Older(ld) : Count(prog, "store", arch, k) = c + j - LSQ_SIZE
                                  /\ SQ!Wrap(ld.SQ_idx + j) = SqOf(k)
    BY <1>2, <2>3
  <2>5. ASSUME NEW n \in SQ!Older(ld) PROVE n <= j
    <3>1. PICK l \in Sources(i) : Count(prog, "store", arch, l) = c + n - LSQ_SIZE
      BY <1>2
    <3>2. l <= k /\ l \in Op /\ k \in Op /\ arch <= l
      BY <2>2, <2>3 DEF Sources, Among
    <3>3. Count(prog, "store", arch, l) <= Count(prog, "store", arch, k)
      <4>1. CASE l = k
        <5>1. Count(prog, "store", arch, k) \in Nat
          BY <1>0, <3>2, CountType DEF Op
        <5>2. QED
          BY <4>1, <5>1
      <4>2. CASE l # k
        <5>1. l < k /\ k \in Int /\ arch \in Int
          BY <1>0, <3>2, <4>2 DEF Op
        <5>2. QED
          BY <3>2, <5>1, CountOrder
      <4>3. QED
        BY <4>1, <4>2
    <3>4. n \in Nat /\ j \in Nat
      BY <1>0, <1>2
    <3>5. QED
      BY <1>0, <2>4, <3>1, <3>3, <3>4
  <2>6. SQ!Nearest(ld) = j
    <3>1. PICK n : n = SQ!Nearest(ld)
      OBVIOUS
    <3>2. \E x \in SQ!Older(ld) : \A y \in SQ!Older(ld) : x >= y
      <4>1. \A y \in SQ!Older(ld) : j >= y
        BY <1>0, <1>2, <2>5
      <4>2. QED
        BY <4>1
    <3>3. n \in SQ!Older(ld) /\ \A y \in SQ!Older(ld) : n >= y
      BY <3>1, <3>2 DEF SQ!Nearest
    <3>4. n >= j /\ n <= j /\ n \in Nat /\ j \in Nat
      BY <1>0, <1>2, <2>5, <3>3
    <3>5. QED
      BY <3>1, <3>4
  <2>7. SQ!st_value(ld) = sq[SqOf(k)].value
    BY <2>4, <2>6 DEF SQ!st_value
  <2>8. sq[SqOf(k)] = StoreOf(k)
    <3>1. k \in Op /\ arch <= k /\ k < Ins(i) /\ prog[k].kind = "store" /\ sq[SqOf(k)].valid
      BY <2>3 DEF Sources, Among
    <3>2. k < fpc
      BY <1>0, <3>1 DEF Op
    <3>3. QED
      BY <3>1, <3>2, PlaceFilled
  <2>9. QED
    BY <2>1, <2>7, <2>8 DEF StoreOf
<1>5. QED
  BY <1>3, <1>4

-----------------------------------------------------------------------------
(* The search of the load queue finds a load that went ahead. *)

LEMMA LqIs == \A k : LqOf(k) = SQ!Wrap(lq_head + Count(prog, "load", arch, k))
  BY DEF LqOf, LQ!Wrap, SQ!Wrap

LEMMA SameWrap == \A x : LQ!Wrap(x) = SQ!Wrap(x)
  BY DEF LQ!Wrap, SQ!Wrap

(* The load that a store names: the first of the younger ones that went ahead of it. *)
LEMMA Named ==
  ASSUME QueueInv, QueueRoom,
         NEW s \in InFlight, KindOf(s) = "store", NEW i \in InFlight, KindOf(i) = "load",
         Ins(s) < Ins(i), AddrOf(i) = AddrOf(s), lq[LqOf(Ins(i))].valid,
         NEW st, st.LQ_idx = LqOf(Ins(s) + 1), st.addr = AddrOf(s)
  PROVE  /\ LQ!ld_hit(st)
         /\ \E j \in Flying("load") :
              /\ Ins(s) < Ins(j) /\ Ins(j) <= Ins(i)
              /\ lq[LQ!Wrap(st.LQ_idx + LQ!ld_idx(st))].rob_idx = j
<1>0. /\ Ins(s) \in Op /\ arch <= Ins(s) /\ Ins(s) < fpc /\ Ins(i) \in Op /\ arch <= Ins(i) /\ Ins(i) < fpc
      /\ arch \in Nat /\ fpc \in 0 .. NUM_OPS /\ LSQ_SIZE \in Nat /\ LSQ_SIZE >= 2
      /\ lq_head \in SQ!Idx /\ lq_head \in Nat /\ lq_head < LSQ_SIZE
      /\ LQ!Idx = 0 .. LSQ_SIZE - 1 /\ SQ!Idx = LQ!Idx /\ lq_tail = LqOf(fpc)
      /\ prog[Ins(s)].kind = "store" /\ prog[Ins(i)].kind = "load"
  <2>1. s \in Slot /\ i \in Slot
    BY DEF InFlight
  <2>2. /\ Ins(s) \in Op /\ arch <= Ins(s) /\ Ins(s) < fpc
        /\ Ins(i) \in Op /\ arch <= Ins(i) /\ Ins(i) < fpc
    BY <2>1, FlightIs
  <2>3. prog[Ins(s)].kind = "store" /\ prog[Ins(i)].kind = "load"
    BY DEF KindOf, Ins
  <2>4. lq_tail = LqOf(fpc)
    BY DEF QueueInv, Pointers
  <2>5. QED
    BY <2>2, <2>3, <2>4, Typed, Sets, Sizes
<1>1. PICK c \in Nat, m \in Nat, d \in Nat : /\ c = Count(prog, "load", arch, Ins(s))
                                             /\ m = Count(prog, "load", arch, Ins(i))
                                             /\ d = Count(prog, "load", arch, fpc)
  <2>1. arch \in Int /\ fpc \in Int /\ Ins(s) \in Int /\ Ins(i) \in Int
    BY <1>0 DEF Op
  <2>2. QED
    BY <2>1, CountType
<1>2. c <= m /\ m < d /\ d < LSQ_SIZE
  <2>1. arch \in Int /\ fpc \in Int /\ Ins(i) \in Int
    BY <1>0 DEF Op
  <2>2. c <= m
    BY <1>0, <1>1, <2>1, CountOrder
  <2>3. m < d
    BY <1>0, <1>1, <2>1, CountOrder
  <2>4. RoomCounts
    BY QueueFront, RoomIs
  <2>5. fpc \in arch .. fpc
    BY <1>0 DEF Op
  <2>6. QED
    BY <1>1, <2>2, <2>3, <2>4, <2>5 DEF RoomCounts
<1>3. PICK x \in SQ!Idx : x = SQ!Wrap(lq_head + c)
  <2>1. lq_head + c \in Int
    BY <1>0
  <2>2. QED
    BY <2>1, SqWraps
<1>4. st.LQ_idx = x
  <2>1. Count(prog, "load", arch, Ins(s) + 1) = c + IF prog[Ins(s)].kind = "load" THEN 1 ELSE 0
    BY <1>0, <1>1, CountStep
  <2>2. Count(prog, "load", arch, Ins(s) + 1) = c
    BY <1>0, <2>1
  <2>3. QED
    BY <1>3, <2>2, LqIs
<1>5. \A j \in Nat : c + j < LSQ_SIZE => SQ!Wrap(x + j) = SQ!Wrap(lq_head + (c + j))
  <2>1. SUFFICES ASSUME NEW j \in Nat, c + j < LSQ_SIZE PROVE SQ!Wrap(x + j) = SQ!Wrap(lq_head + (c + j))
    OBVIOUS
  <2>2. PICK y \in Nat : y = lq_head + c
    BY <1>0
  <2>3. y + j < 3 * LSQ_SIZE /\ lq_head + (c + j) = y + j
    BY <1>0, <2>1, <2>2
  <2>4. SQ!Wrap(SQ!Wrap(y) + j) = SQ!Wrap(y + j)
    BY <2>3, WrapAdd
  <2>5. QED
    BY <1>3, <2>2, <2>3, <2>4
<1>6. LQ!Wrap(lq_tail - st.LQ_idx) = d - c
  <2>1. PICK n \in Nat : n = d - c /\ c + n < LSQ_SIZE /\ n < LSQ_SIZE /\ lq_head + (c + n) = lq_head + d
    BY <1>0, <1>2
  <2>2. lq_tail = SQ!Wrap(x + n)
    BY <1>0, <1>1, <1>5, <2>1, LqIs
  <2>3. PICK t : t = SQ!Wrap(x + n)
    OBVIOUS
  <2>4. x \in Nat /\ x < LSQ_SIZE
    BY <1>0
  <2>5. SQ!Wrap(t - x) = n
    <3>1. CASE x + n < LSQ_SIZE
      <4>1. t = x + n
        BY <2>1, <2>3, <2>4, <3>1, SqWraps
      <4>2. t - x = n
        BY <2>1, <2>4, <4>1
      <4>3. QED
        BY <2>1, <4>2, SqWraps
    <3>2. CASE ~(x + n < LSQ_SIZE)
      <4>1. x + n \in Int /\ LSQ_SIZE <= x + n /\ x + n < 2 * LSQ_SIZE
        BY <1>0, <2>1, <2>4, <3>2
      <4>2. t = x + n - LSQ_SIZE
        <5>1. PICK y \in Int : y = x + n
          BY <4>1
        <5>2. SQ!Wrap(y) = y - LSQ_SIZE
          BY <4>1, <5>1, SqWraps
        <5>3. SQ!Wrap(x + n) = SQ!Wrap(y)
          BY <5>1
        <5>4. QED
          BY <1>0, <2>1, <2>3, <2>4, <5>1, <5>2, <5>3
      <4>3. PICK y \in Int : y = t - x /\ y = n - LSQ_SIZE
        BY <1>0, <2>1, <2>4, <4>2
      <4>4. -LSQ_SIZE <= y /\ y < 0
        BY <1>0, <2>1, <4>3
      <4>5. SQ!Wrap(y) = y + LSQ_SIZE
        BY <4>4, SqWraps
      <4>6. QED
        BY <1>0, <2>1, <4>3, <4>5
    <3>3. QED
      BY <3>1, <3>2
  <2>6. QED
    BY <1>4, <2>1, <2>2, <2>3, <2>5, SameWrap
<1>7. LQ!Younger(st) = {j \in LQ!Idx : /\ j < d - c
                                       /\ lq[SQ!Wrap(x + j)].valid /\ lq[SQ!Wrap(x + j)].addr = AddrOf(s)}
  BY <1>4, <1>6, SameWrap DEF LQ!Younger
<1>8. PICK f \in Nat : f = m - c /\ c + f = m /\ f < d - c /\ f \in LQ!Idx
  BY <1>0, <1>2
<1>9. f \in LQ!Younger(st)
  <2>1. SQ!Wrap(x + f) = LqOf(Ins(i))
    <3>1. c + f = m /\ c + f < LSQ_SIZE
      BY <1>0, <1>2, <1>8
    <3>2. SQ!Wrap(x + f) = SQ!Wrap(lq_head + m)
      BY <1>5, <1>8, <3>1
    <3>3. QED
      BY <1>1, <3>2, LqIs
  <2>2. lq[LqOf(Ins(i))].addr = AddrOf(i)
    BY DEF QueueInv, LoadsKnown, Flying
  <2>3. QED
    BY <1>7, <1>8, <2>1, <2>2
<1>10. PICK n : n = LQ!ld_idx(st)
  OBVIOUS
<1>11. LQ!ld_hit(st) /\ n \in LQ!Younger(st) /\ n <= f
  <2>1. LQ!Younger(st) \subseteq Nat
    BY <1>0, <1>7
  <2>2. \E j \in LQ!Younger(st) : \A k \in LQ!Younger(st) : j <= k
    BY <1>9, <2>1, LowestIn
  <2>3. LQ!ld_hit(st)
    BY <1>9 DEF LQ!ld_hit
  <2>4. n = CHOOSE j \in LQ!Younger(st) : \A k \in LQ!Younger(st) : j <= k
    BY <1>10, <2>3 DEF LQ!ld_idx
  <2>5. QED
    BY <1>9, <2>2, <2>3, <2>4
<1>12. n \in Nat /\ n < d - c /\ c + n \in Nat /\ c + n < d
  BY <1>0, <1>2, <1>7, <1>11
<1>13. PICK k \in Among(prog, "load", arch, fpc) : Count(prog, "load", arch, k) = c + n
  <2>1. arch <= fpc
    BY <1>0 DEF Op
  <2>2. PICK r \in Nat : r = c + n /\ r < Count(prog, "load", arch, fpc)
    BY <1>1, <1>12
  <2>3. QED
    BY <1>0, <2>1, <2>2, RankExists
<1>14. k \in Op /\ k \in Int /\ arch <= k /\ k < fpc /\ prog[k].kind = "load"
  BY <1>13 DEF Among, Op
<1>15. PICK j \in InFlight : Ins(j) = k
  BY <1>14, SlotOf
<1>16. j \in Flying("load")
  BY <1>14, <1>15 DEF Flying, KindOf, Ins
<1>17. lq[LQ!Wrap(st.LQ_idx + n)].rob_idx = j
  <2>1. SQ!Wrap(x + n) = LqOf(k)
    <3>1. c + n < LSQ_SIZE
      BY <1>0, <1>2, <1>12
    <3>2. QED
      BY <1>5, <1>12, <1>13, <3>1, LqIs
  <2>2. lq[LqOf(Ins(j))].rob_idx = j
    BY <1>16 DEF QueueInv, LoadsKnown
  <2>3. QED
    BY <1>4, <1>15, <2>1, <2>2, SameWrap
<1>18. Ins(j) <= Ins(i)
  <2>1. SUFFICES ASSUME Ins(i) < k PROVE FALSE
    BY <1>0, <1>14, <1>15 DEF Op
  <2>2. Count(prog, "load", arch, Ins(i)) < Count(prog, "load", arch, k)
    <3>1. arch \in Int
      BY <1>0
    <3>2. QED
      BY <1>0, <1>14, <2>1, <3>1, CountOrder
  <2>3. QED
    BY <1>1, <1>8, <1>11, <1>12, <1>13, <2>2
<1>19. Ins(s) < Ins(j)
  <2>1. SUFFICES ASSUME ~(Ins(s) < k) PROVE FALSE
    BY <1>15
  <2>2. k # Ins(s)
    BY <1>0, <1>14
  <2>3. k < Ins(s) /\ Ins(s) \in Int /\ arch \in Int
    BY <1>0, <1>14, <2>1, <2>2 DEF Op
  <2>4. Count(prog, "load", arch, k) < Count(prog, "load", arch, Ins(s))
    BY <1>14, <2>3, CountOrder
  <2>5. QED
    BY <1>1, <1>12, <1>13, <2>4
<1>20. QED
  BY <1>10, <1>11, <1>16, <1>17, <1>18, <1>19

-----------------------------------------------------------------------------
(* Marks: what is to be executed again stays so. *)

(* What is written into a slot in flight that is a load. *)
LEMMA MarkWritten ==
  ASSUME NEW go, NEW port, Step(go, port), NEW j \in Flying("load"), arch' <= Ins(j)
  PROVE  /\ j \in Flying("load")' /\ j \in Slot /\ j \in InFlight
         /\ data[j].valid /\ data[j].rd_mem
         /\ data'[j].rd_mem_violation =
              IF SQ_FU_out[1].done /\ SQ_FU_out[1].ld_rob_idx = j THEN SQ_FU_out[1].mem_violation
              ELSE IF SQ_FU_out[0].done /\ SQ_FU_out[0].ld_rob_idx = j THEN SQ_FU_out[0].mem_violation
              ELSE data[j].rd_mem_violation
<1>0. QueueInv
  BY DEF Step
<1>1. j \in InFlight /\ j \in Slot /\ KindOf(j) = "load"
  BY DEF Flying, InFlight
<1>2. /\ R!Age(j) \in 0 .. ROB_SIZE - 1 /\ R!Age(j) < rob_cnt /\ Ins(j) = arch + R!Age(j) /\ data[j].valid
      /\ EntryExact(data[j]) /\ j \in Slot
  BY <1>0, <1>1, FlightIs
<1>3. j \in Flying("load")'
  <2>1. j \in InFlight' /\ KindOf(j)' = KindOf(j)
    BY <1>1, OpsMove
  <2>2. QED
    BY <1>1, <2>1 DEF Flying
<1>4. data[j].rd_mem
  BY <1>1, <1>2 DEF EntryExact, KindOf
<1>5. Leaving <= R!Age(j)
  <2>1. arch' = arch + Leaving /\ Leaving \in 0 .. 2 /\ arch \in Nat
    BY <1>0, StepMoves, Typed
  <2>2. QED
    BY <1>2, <2>1
<1>6. data'[j] = R!WithViolation(R!WithBranchResult(data[j], j, branch_done), j, SQ_FU_out)
  BY <1>2, <1>5, StepMoves
<1>7. data[j] \in [valid : BOOLEAN, ins : Op, is_branch : BOOLEAN, rd_mem : BOOLEAN,
                   ex_take_branch : BOOLEAN, rd_mem_violation : BOOLEAN]
  <2>1. data \in [R!Idx -> R!Entry]
    BY <1>0 DEF QueueInv, R!RingInv, R!TypeOK
  <2>2. data[j] \in R!Entry
    BY <1>1, <2>1, Sets
  <2>3. QED
    BY <1>2, <2>2 DEF R!Entry
<1>8. PICK e : e = R!WithBranchResult(data[j], j, branch_done)
  OBVIOUS
<1>9. /\ DOMAIN e = {"valid", "ins", "is_branch", "rd_mem", "ex_take_branch", "rd_mem_violation"}
      /\ e.rd_mem_violation = data[j].rd_mem_violation
  BY <1>7, <1>8 DEF R!WithBranchResult
<1>10. R!WithViolation(e, j, SQ_FU_out).rd_mem_violation =
              IF SQ_FU_out[1].done /\ SQ_FU_out[1].ld_rob_idx = j THEN SQ_FU_out[1].mem_violation
              ELSE IF SQ_FU_out[0].done /\ SQ_FU_out[0].ld_rob_idx = j THEN SQ_FU_out[0].mem_violation
              ELSE data[j].rd_mem_violation
  BY <1>2, <1>4, <1>9 DEF R!WithViolation
<1>11. QED
  BY <1>1, <1>2, <1>3, <1>4, <1>6, <1>8, <1>10

(* As long as no mark is taken back: what is marked stays so, and what is to be will be. *)
LEMMA MarksStay ==
  ASSUME NEW go, NEW port, Step(go, port), ~MarkLost, NEW j \in Flying("load"), arch' <= Ins(j),
         \/ data[j].rd_mem_violation
         \/ \E w \in Ways : SQ_FU_out[w].done /\ SQ_FU_out[w].mem_violation /\ SQ_FU_out[w].ld_rob_idx = j
  PROVE  j \in Flying("load")' /\ data'[j].rd_mem_violation
<1>1. /\ j \in Flying("load")' /\ data[j].valid /\ data[j].rd_mem
      /\ data'[j].rd_mem_violation =
              IF SQ_FU_out[1].done /\ SQ_FU_out[1].ld_rob_idx = j THEN SQ_FU_out[1].mem_violation
              ELSE IF SQ_FU_out[0].done /\ SQ_FU_out[0].ld_rob_idx = j THEN SQ_FU_out[0].mem_violation
              ELSE data[j].rd_mem_violation
  BY MarkWritten
<1>2. ASSUME NEW w \in Ways, SQ_FU_out[w].done, SQ_FU_out[w].ld_rob_idx = j, ~SQ_FU_out[w].mem_violation
      PROVE  /\ ~data[j].rd_mem_violation
             /\ \A u \in Ways : ~(/\ u < w /\ SQ_FU_out[u].done /\ SQ_FU_out[u].mem_violation
                                  /\ SQ_FU_out[u].ld_rob_idx = j)
  BY <1>1, <1>2 DEF MarkLost
<1>3. Ways = {0, 1}
  BY Sets
<1>4. CASE SQ_FU_out[1].done /\ SQ_FU_out[1].ld_rob_idx = j
  <2>1. SQ_FU_out[1].mem_violation
    <3>1. SUFFICES ASSUME ~SQ_FU_out[1].mem_violation PROVE FALSE
      OBVIOUS
    <3>2. ~data[j].rd_mem_violation /\ ~(SQ_FU_out[0].done /\ SQ_FU_out[0].mem_violation
                                         /\ SQ_FU_out[0].ld_rob_idx = j)
      BY <1>2, <1>3, <1>4, <3>1
    <3>3. QED
      BY <1>3, <3>1, <3>2
  <2>2. QED
    BY <1>1, <1>4, <2>1
<1>5. CASE ~(SQ_FU_out[1].done /\ SQ_FU_out[1].ld_rob_idx = j) /\ SQ_FU_out[0].done /\ SQ_FU_out[0].ld_rob_idx = j
  <2>1. SQ_FU_out[0].mem_violation
    BY <1>2, <1>3, <1>5
  <2>2. QED
    BY <1>1, <1>5, <2>1
<1>6. CASE /\ ~(SQ_FU_out[1].done /\ SQ_FU_out[1].ld_rob_idx = j)
           /\ ~(SQ_FU_out[0].done /\ SQ_FU_out[0].ld_rob_idx = j)
  BY <1>1, <1>3, <1>6
<1>7. QED
  BY <1>4, <1>5, <1>6

(* Of the loads in flight, those that are doubtful stay so. *)
LEMMA AgeOrder ==
  ASSUME QueueInv, NEW i \in InFlight, NEW j \in InFlight
  PROVE  Rob!Age(j) <= Rob!Age(i) <=> Ins(j) <= Ins(i)
<1>1. i \in Slot /\ j \in Slot
  BY DEF InFlight
<1>2. /\ R!Age(i) \in 0 .. ROB_SIZE - 1 /\ Ins(i) = arch + R!Age(i)
      /\ R!Age(j) \in 0 .. ROB_SIZE - 1 /\ Ins(j) = arch + R!Age(j) /\ arch \in Nat
  BY <1>1, FlightIs, Typed
<1>3. QED
  BY <1>2, Sizes, SameRing

LEMMA DoubtfulIs ==
  ASSUME QueueInv, NEW i \in InFlight
  PROVE  Doubtful(i) <=> \E j \in Flying("load") : data[j].rd_mem_violation /\ Ins(j) <= Ins(i)
<1>1. \A j \in Flying("load") : j \in InFlight
  BY DEF Flying
<1>2. QED
  BY <1>1, AgeOrder DEF Doubtful

DoubtKnown ==
  \A i \in InFlight :
    Doubtful(i) <=> \E j \in Flying("load") : data[j].rd_mem_violation /\ Ins(j) <= Ins(i)

LEMMA DoubtNext == QueueInv' => DoubtKnown'
<1>1. QueueInv => DoubtKnown
  BY DoubtfulIs DEF DoubtKnown
<1>2. QED
  BY <1>1, PTL

(* A marked load in front of one that stays, or that one itself, makes it doubtful. *)
LEMMA DoubtMade ==
  ASSUME NEW go, NEW port, Step(go, port), ~MarkLost, NEW i \in InFlight, arch' <= Ins(i),
         NEW j \in Flying("load"), arch' <= Ins(j), Ins(j) <= Ins(i),
         \/ data[j].rd_mem_violation
         \/ \E w \in Ways : SQ_FU_out[w].done /\ SQ_FU_out[w].mem_violation /\ SQ_FU_out[w].ld_rob_idx = j
  PROVE  Doubtful(i)'
<1>1. j \in Flying("load")' /\ data'[j].rd_mem_violation
  BY MarksStay
<1>2. /\ i \in InFlight' /\ Ins(i)' = Ins(i) /\ Ins(j)' = Ins(j)
  BY OpsMove DEF Flying
<1>3. QueueInv'
  BY StepKeeps
<1>4. QED
  BY <1>1, <1>2, <1>3, DoubtNext DEF DoubtKnown

LEMMA DoubtStays ==
  ASSUME NEW go, NEW port, Step(go, port), ~MarkLost, NEW i \in InFlight, arch' <= Ins(i), Doubtful(i)
  PROVE  Doubtful(i)'
<1>0. QueueInv /\ ~rollback
  BY DEF Step
<1>1. PICK j \in Flying("load") : data[j].rd_mem_violation /\ Ins(j) <= Ins(i)
  BY <1>0, DoubtfulIs
<1>2. arch' <= Ins(j)
  <2>1. SUFFICES ASSUME ~(arch' <= Ins(j)) PROVE FALSE
    OBVIOUS
  <2>2. j \in Slot /\ j \in InFlight
    BY DEF Flying, InFlight
  <2>3. R!Age(j) \in 0 .. ROB_SIZE - 1 /\ Ins(j) = arch + R!Age(j)
    BY <1>0, <2>2, FlightIs
  <2>4. /\ arch' = arch + Leaving /\ Leaving \in 0 .. 2 /\ arch \in Nat
        /\ Leaving >= 1 <=> head_retire_rdy
        /\ Leaving = 2 <=> head_p1_retire_rdy
    BY <1>0, StepMoves, Typed
  <2>5. R!Age(j) < Leaving
    BY <2>1, <2>3, <2>4, Sizes
  <2>6. \/ j = rob_head /\ head_retire_rdy
        \/ j = Rob!head_p1 /\ head_p1_retire_rdy
    <3>1. R!Age(j) = 0 \/ (R!Age(j) = 1 /\ Leaving = 2)
      BY <2>3, <2>4, <2>5, Sizes
    <3>2. Leaving >= 1
      BY <2>3, <2>4, <2>5, Sizes
    <3>3. QED
      BY <1>0, <2>2, <2>4, <3>1, <3>2, Heads
  <2>7. QED
    BY <1>0, <1>1, <2>6, NothingLost DEF first, second
<1>3. QED
  BY <1>1, <1>2, DoubtMade

-----------------------------------------------------------------------------
(* A store that executes behind a younger load marks it, or one before it. *)

(* A load that has executed: its place in the load queue has its address. *)
Executed(i) == lq[LqOf(Ins(i))].valid

LEMMA ExecutedIs ==
  ASSUME QueueInv, NEW i \in Flying("load"), NEW p, In(p, i),
         \/ \E w \in Ways : p = OnBus(w)
         \/ \E j : p = Buffered(j)
         \/ p = Done
  PROVE  Executed(i)
<1>1. i \in InFlight
  BY DEF Flying
<1>2. \A q : In(q, i) => q = p
  BY <1>1 DEF QueueInv, Placed
<1>3. ~\E x \in rs : In(InStation(x), i)
  BY <1>2, TagsApart
<1>4. ~\E w \in Ways : In(AtPort(w), i)
  BY <1>2, TagsApart
<1>5. QED
  BY <1>3, <1>4 DEF QueueInv, LoadsKnown, Executed

(* A store that executes in front of a load that has executed, with its address, makes
   that load doubtful. *)
LEMMA StoreMarks ==
  ASSUME NEW go, NEW port, Step(go, port), ~MarkLost,
         NEW i \in Flying("load"), arch' <= Ins(i), Executed(i),
         NEW s \in Flying("store"), Ins(s) < Ins(i), AddrOf(s) = AddrOf(i),
         NEW w \in Ways, In(AtPort(w), s)
  PROVE  Doubtful(i)'
<1>0. QueueInv /\ QueueRoom
  BY DEF Step
<1>1. i \in InFlight /\ s \in InFlight /\ KindOf(i) = "load" /\ KindOf(s) = "store"
  BY DEF Flying
<1>2. is_ex[w].valid /\ is_ex[w].rob_idx = s
  BY InMeans
<1>3. arch' <= Ins(s) /\ is_ex[w].kind = "store" /\ is_ex[w].addr = AddrOf(s)
  BY <1>1, <1>2, PortPlace
<1>4. is_ex[w].LQ_idx = LqOf(Ins(s) + 1)
  BY <1>0, <1>2, PortIs
<1>5. PICK st : st = FU_SQ_out[w]
  OBVIOUS
<1>6. st.done /\ st.LQ_idx = LqOf(Ins(s) + 1) /\ st.addr = AddrOf(s)
  <2>1. FU_SQ_out[w].done = (is_ex[w].kind = "store")
    BY DEF FU_SQ_out
  <2>2. FU_SQ_out[w].LQ_idx = is_ex[w].LQ_idx /\ FU_SQ_out[w].addr = is_ex[w].addr
    BY DEF FU_SQ_out
  <2>3. QED
    BY <1>3, <1>4, <1>5, <2>1, <2>2
<1>7. lq[LqOf(Ins(i))].valid /\ AddrOf(i) = AddrOf(s)
  BY DEF Executed
<1>8. /\ LQ!ld_hit(st)
      /\ \E j \in Flying("load") :
           /\ Ins(s) < Ins(j) /\ Ins(j) <= Ins(i)
           /\ lq[LQ!Wrap(st.LQ_idx + LQ!ld_idx(st))].rob_idx = j
  BY <1>0, <1>1, <1>6, <1>7, Named
<1>9. PICK j \in Flying("load") :
           /\ Ins(s) < Ins(j) /\ Ins(j) <= Ins(i)
           /\ lq[LQ!Wrap(st.LQ_idx + LQ!ld_idx(st))].rob_idx = j
  BY <1>8
<1>10. SQ_FU_out[w].done /\ SQ_FU_out[w].mem_violation /\ SQ_FU_out[w].ld_rob_idx = j
  <2>1. SQ_FU_out[w] = LQ!Verdict(st)
    BY <1>5 DEF SQ_FU_out
  <2>2. LQ!Verdict(st).done = st.done /\ LQ!Verdict(st).mem_violation = LQ!ld_hit(st)
        /\ LQ!Verdict(st).ld_rob_idx = lq[LQ!Wrap(st.LQ_idx + LQ!ld_idx(st))].rob_idx
    BY DEF LQ!Verdict
  <2>3. QED
    BY <1>6, <1>8, <1>9, <2>1, <2>2
<1>11. arch' <= Ins(j)
  <2>1. j \in Slot /\ s \in Slot
    BY DEF Flying, InFlight
  <2>2. j \in InFlight
    BY DEF Flying
  <2>3. Ins(j) \in Op /\ Ins(s) \in Op
    BY <1>0, <1>1, <2>1, <2>2, FlightIs
  <2>4. arch' \in Int
    BY OpsMove
  <2>5. QED
    BY <1>3, <1>9, <2>3, <2>4 DEF Op
<1>12. QED
  BY <1>1, <1>9, <1>10, <1>11, DoubtMade

(* What a load that is executed, or has been, can have read from: stores only leave. *)
LEMMA SourcesMove ==
  ASSUME NEW go, NEW port, Step(go, port), ~MarkLost,
         NEW i \in Flying("load"), arch' <= Ins(i), ~Doubtful(i)',
         Executed(i) \/ \E w \in Ways : In(AtPort(w), i)
  PROVE  \A k \in Op : k \in Sources(i)' <=> k \in Sources(i) /\ arch' <= k
<1>0. QueueInv
  BY DEF Step
<1>1. i \in InFlight /\ i \in Slot /\ KindOf(i) = "load"
  BY DEF Flying, InFlight
<1>2. /\ Ins(i) \in Op /\ Ins(i) < fpc /\ arch \in Nat /\ fpc \in 0 .. NUM_OPS /\ arch' \in Int /\ arch <= arch'
      /\ Ins(i)' = Ins(i) /\ AddrOf(i)' = AddrOf(i) /\ prog' = prog
  BY <1>0, <1>1, FlightIs, Typed, OpsMove, StepMoves
<1>3. SUFFICES ASSUME NEW k \in Op, arch' <= k, k < Ins(i), prog[k].kind = "store", prog[k].addr = AddrOf(i)
               PROVE  sq'[SqOf(k)'].valid <=> sq[SqOf(k)].valid
  <2>1. ASSUME NEW k \in Op
        PROVE  k \in Sources(i)' <=> /\ arch' <= k /\ k < Ins(i) /\ prog[k].kind = "store"
                                     /\ prog[k].addr = AddrOf(i) /\ sq'[SqOf(k)'].valid
    BY <1>2 DEF Sources, Among
  <2>2. ASSUME NEW k \in Op
        PROVE  k \in Sources(i) <=> /\ arch <= k /\ k < Ins(i) /\ prog[k].kind = "store"
                                    /\ prog[k].addr = AddrOf(i) /\ sq[SqOf(k)].valid
    BY DEF Sources, Among
  <2>3. \A k \in Op : arch' <= k => arch <= k
    BY <1>2 DEF Op
  <2>4. QED
    BY <1>3, <2>1, <2>2, <2>3
<1>4. SqOf(k)' = SqOf(k)
  <2>1. k \in arch' .. fpc
    BY <1>2, <1>3 DEF Op
  <2>2. QED
    BY <2>1, PlacesKept
<1>5. PICK s \in InFlight : Ins(s) = k
  <2>1. k \in Int /\ arch <= k /\ k < fpc
    BY <1>2, <1>3 DEF Op
  <2>2. QED
    BY <1>0, <2>1, SlotOf
<1>6. s \in Flying("store") /\ KindOf(s) = "store" /\ AddrOf(s) = AddrOf(i)
  BY <1>3, <1>5 DEF Flying, KindOf, AddrOf, Ins
<1>7. CASE ~\E w \in Ways : In(AtPort(w), s)
  <2>1. sq'[SqOf(Ins(s))] = sq[SqOf(Ins(s))]
    BY <1>3, <1>5, <1>6, <1>7, StoreKept
  <2>2. QED
    BY <1>4, <1>5, <2>1
<1>8. ASSUME NEW w \in Ways, In(AtPort(w), s) PROVE sq'[SqOf(k)'].valid <=> sq[SqOf(k)].valid
  <2>1. sq'[SqOf(Ins(s))] = [valid |-> TRUE, addr |-> AddrOf(s), value |-> Ins(s) + 1]
    BY <1>3, <1>5, <1>6, <1>8, StoreKept
  <2>2. sq[SqOf(k)].valid
    <3>1. ~Executed(i)
      BY <1>3, <1>5, <1>6, <1>8, StoreMarks
    <3>2. PICK v \in Ways : In(AtPort(v), i)
      BY <3>1
    <3>3. is_ex[v].valid /\ is_ex[v].rob_idx = i /\ is_ex[w].valid /\ is_ex[w].rob_idx = s
      BY <1>8, <3>2, InMeans
    <3>4. is_ex[v].kind = "load" /\ is_ex[w].kind = "store" /\ SQ!Wrap(is_ex[w].SQ_idx - 1) = SqOf(Ins(s))
      BY <1>1, <1>6, <3>3, PortPlace
    <3>5. sq[SQ!Wrap(is_ex[w].SQ_idx - 1)].valid
      BY <1>0, <3>4 DEF QueueInv, PortsApart
    <3>6. QED
      BY <1>5, <3>4, <3>5
  <2>3. QED
    BY <1>4, <1>5, <2>1, <2>2
<1>9. QED
  BY <1>7, <1>8

-----------------------------------------------------------------------------
(* What an executed load sees is the same after every step. *)

(* A store that retires in front of a load, to its address, is one it could read from. *)
LEMMA RetiringSources ==
  ASSUME NEW go, NEW port, Step(go, port), NEW i \in Flying("load"), arch' <= Ins(i),
         NEW k \in Op, arch <= k, k < arch', prog[k].kind = "store", prog[k].addr = AddrOf(i)
  PROVE  k \in Sources(i)
<1>0. QueueInv
  BY DEF Step
<1>1. i \in InFlight /\ i \in Slot
  BY DEF Flying, InFlight
<1>2. Ins(i) \in Op /\ Ins(i) < fpc /\ arch' \in Int /\ fpc \in 0 .. NUM_OPS
  BY <1>0, <1>1, FlightIs, OpsMove, Typed
<1>3. PICK s \in InFlight : Ins(s) = k
  <2>1. k \in Int /\ k < fpc
    BY <1>2 DEF Op
  <2>2. QED
    BY <1>0, <2>1, SlotOf
<1>4. R!Completed(ex_cm, s) /\ KindOf(s) = "store"
  BY <1>3, OpsMove DEF KindOf, Ins
<1>5. sq[SqOf(k)] = StoreOf(k)
  BY <1>0, <1>3, <1>4, CompletedStore
<1>6. k < Ins(i)
  BY <1>2 DEF Op
<1>7. QED
  BY <1>5, <1>6 DEF Sources, Among, StoreOf

LEMMA VisibleIs ==
  ASSUME NEW i, NEW T, T = Sources(i), NEW m, m = SeenMemory[AddrOf(i)]
  PROVE  Visible(i) = IF T = {} THEN m ELSE Latest(T) + 1
  BY DEF Visible

(* What it sees does not change, whether the stores in front of it are in the store queue,
   in the retire buffer or in memory. *)
LEMMA VisibleKept ==
  ASSUME NEW go, NEW port, Step(go, port), ~MarkLost, AllValid,
         NEW i \in Flying("load"), arch' <= Ins(i), ~Doubtful(i)',
         Executed(i) \/ \E w \in Ways : In(AtPort(w), i)
  PROVE  Visible(i)' = Visible(i)
<1>0. QueueInv /\ Memory
  BY DEF Step, Clock
<1>1. i \in InFlight /\ i \in Slot /\ KindOf(i) = "load"
  BY DEF Flying, InFlight
<1>2. /\ arch \in Nat /\ arch' = arch + Leaving /\ Leaving \in 0 .. 2 /\ AddrOf(i)' = AddrOf(i)
      /\ AddrOf(i) \in Addr /\ arch' <= fpc /\ fpc \in 0 .. NUM_OPS
  BY <1>0, <1>1, FlightIs, Typed, OpsMove, StepMoves
<1>3. PICK a \in Addr : a = AddrOf(i)
  BY <1>2
<1>4. PICK r : r = Retiring("store")
  OBVIOUS
<1>5. /\ r[0] <=> Leaving >= 1 /\ prog[arch].kind = "store"
      /\ r[1] <=> Leaving = 2 /\ prog[arch + 1].kind = "store"
  BY <1>0, <1>4, RetiringCount
<1>6. PICK m : m = SeenMemory[a]
  OBVIOUS
<1>7. PICK v : v = IF r[0] /\ prog[arch].addr = a THEN arch + 1 ELSE m
  OBVIOUS
<1>8. SeenMemory'[a] = IF r[1] /\ prog[arch + 1].addr = a THEN arch + 1 + 1 ELSE v
  BY <1>0, <1>4, <1>6, <1>7, SeenMoves
<1>9. PICK T : T = Sources(i)
  OBVIOUS
<1>10. PICK U : U = Sources(i)'
  OBVIOUS
<1>11. T \subseteq Op /\ U \subseteq Op /\ \A k \in T : arch <= k /\ prog[k].kind = "store" /\ prog[k].addr = a
  BY <1>3, <1>9, <1>10 DEF Sources, Among
<1>12. \A k \in Op : k \in U <=> k \in T /\ arch' <= k
  BY <1>9, <1>10, SourcesMove
<1>13. /\ r[0] /\ prog[arch].addr = a => arch \in T
       /\ r[1] /\ prog[arch + 1].addr = a => arch + 1 \in T
  <2>1. ASSUME r[0], prog[arch].addr = a PROVE arch \in T
    <3>1. arch \in Op /\ arch < arch'
      BY <1>2, <1>5, <2>1, Sizes DEF Op
    <3>2. QED
      BY <1>2, <1>3, <1>5, <1>9, <2>1, <3>1, RetiringSources
  <2>2. ASSUME r[1], prog[arch + 1].addr = a PROVE arch + 1 \in T
    <3>1. PICK k \in Op : k = arch + 1 /\ k < arch' /\ arch <= k
      BY <1>2, <1>5, <2>2, Sizes DEF Op
    <3>2. prog[k].kind = "store" /\ prog[k].addr = a
      BY <1>5, <2>2, <3>1
    <3>3. QED
      BY <1>2, <1>3, <1>9, <3>1, <3>2, RetiringSources
  <2>3. QED
    BY <2>1, <2>2
<1>14. Visible(i) = IF T = {} THEN m ELSE Latest(T) + 1
  BY <1>3, <1>6, <1>9 DEF Visible
<1>15. Visible(i)' = IF U = {} THEN SeenMemory'[a] ELSE Latest(U) + 1
  <2>1. Visible(i)' = IF Sources(i)' = {} THEN SeenMemory'[AddrOf(i)'] ELSE Latest(Sources(i)') + 1
    BY DEF Visible, Latest
  <2>2. QED
    BY <1>2, <1>3, <1>10, <2>1
<1>16. CASE T = {}
  <2>1. U = {}
    BY <1>11, <1>12, <1>16
  <2>2. SeenMemory'[a] = m
    BY <1>7, <1>8, <1>13, <1>16
  <2>3. QED
    BY <1>14, <1>15, <1>16, <2>1, <2>2
<1>17. CASE T # {}
  <2>1. PICK l : l = Latest(T)
    OBVIOUS
  <2>2. l \in T /\ \A k \in T : k <= l
    BY <1>11, <1>17, <2>1, LatestIs
  <2>3. CASE arch' <= l
    <3>1. l \in U /\ U \subseteq T
      BY <1>11, <1>12, <2>2, <2>3
    <3>2. PICK n : n = Latest(U)
      OBVIOUS
    <3>3. n \in U /\ \A k \in U : k <= n
      BY <1>11, <3>1, <3>2, LatestIs
    <3>4. n \in Op /\ l \in Op /\ n <= l /\ l <= n
      BY <1>11, <2>2, <3>1, <3>3
    <3>5. n = l
      BY <3>4 DEF Op
    <3>6. QED
      BY <1>14, <1>15, <1>17, <2>1, <3>1, <3>2, <3>5
  <2>4. CASE ~(arch' <= l)
    <3>1. l \in Op /\ l \in Int /\ arch <= l /\ l < arch' /\ prog[l].kind = "store" /\ prog[l].addr = a
      BY <1>2, <1>11, <2>2, <2>4 DEF Op
    <3>2. U = {}
      <4>1. SUFFICES ASSUME NEW k \in U PROVE FALSE
        OBVIOUS
      <4>2. k \in T /\ k \in Op /\ arch' <= k /\ k <= l
        BY <1>11, <1>12, <2>2
      <4>3. QED
        BY <1>2, <2>4, <3>1, <4>2 DEF Op
    <3>3. l = arch \/ (l = arch + 1 /\ Leaving = 2)
      BY <1>2, <3>1
    <3>4. SeenMemory'[a] = l + 1
      <4>1. CASE l = arch + 1 /\ Leaving = 2
        <5>1. r[1] /\ prog[arch + 1].addr = a
          BY <1>5, <3>1, <4>1
        <5>2. QED
          BY <1>8, <4>1, <5>1
      <4>2. CASE l = arch
        <5>1. r[0] /\ prog[arch].addr = a
          BY <1>2, <1>5, <3>1, <4>2
        <5>2. ~(r[1] /\ prog[arch + 1].addr = a)
          <6>1. arch + 1 \in T => arch + 1 <= arch
            BY <2>2, <4>2
          <6>2. QED
            BY <1>2, <1>13, <6>1
        <5>3. QED
          BY <1>7, <1>8, <4>2, <5>1, <5>2
      <4>3. QED
        BY <3>3, <4>1, <4>2
    <3>5. QED
      BY <1>14, <1>15, <1>17, <2>1, <3>2, <3>4
  <2>5. QED
    BY <2>3, <2>4
<1>18. QED
  BY <1>16, <1>17

-----------------------------------------------------------------------------
(* What a load finds at its port, and what it waits for. *)

(* What a load finds at its port: what it can see, or that only memory can have it. *)
LEMMA PortValue ==
  ASSUME QueueInv, QueueRoom, ~OldestGiven, NEW w \in Ways, LOAD_ready(w),
         NEW i, i = is_ex[w].rob_idx
  PROVE  /\ hit(w) => value(w) = Visible(i)
         /\ ~hit(w) => /\ Sources(i) = {}
                       /\ \A n \in 2 .. Len(rtb) : rtb[n].addr # AddrOf(i)
<1>1. is_ex[w].valid
  BY PortIs DEF LOAD_ready, Kind
<1>2. /\ i \in InFlight /\ KindOf(i) = "load" /\ is_ex[w].addr = AddrOf(i)
      /\ is_ex[w].SQ_idx = SqOf(Ins(i) + 1) /\ AddrOf(i) \in Addr
  BY <1>1, PortIs DEF LOAD_ready
<1>3. PICK ld : ld = is_ex[w]
  OBVIOUS
<1>4. ld.SQ_idx = SqOf(Ins(i) + 1) /\ ld.addr = AddrOf(i)
  BY <1>2, <1>3
<1>5. /\ SQ!st_hit(ld) <=> Sources(i) # {}
      /\ Sources(i) # {} => SQ!st_value(ld) = Latest(Sources(i)) + 1
  BY <1>2, <1>4, HitIs
<1>6. PICK a \in Addr : a = AddrOf(i)
  BY <1>2
<1>7. /\ hit(w) <=> SQ!st_hit(ld) \/ RTB!Found(a) # {}
      /\ value(w) = IF SQ!st_hit(ld) THEN SQ!st_value(ld) ELSE RTB!load_value_o(a)
  <2>1. hit(w) = (SQ!st_hit(ld) \/ RTB!load_value_valid(a))
    BY <1>2, <1>3, <1>6 DEF hit
  <2>2. RTB!load_value_valid(a) = (RTB!Found(a) # {})
    BY DEF RTB!load_value_valid
  <2>3. QED
    BY <1>2, <1>3, <1>6, <2>1, <2>2 DEF value
<1>8. rtb \in Seq(SQ!Entry) /\ Len(rtb) \in Nat
  BY Typed
<1>9. RTB!Found(a) = {j \in 2 .. Len(rtb) : rtb[j].addr = a}
  BY DEF RTB!Found
<1>10. ASSUME ~hit(w)
       PROVE  Sources(i) = {} /\ \A n \in 2 .. Len(rtb) : rtb[n].addr # AddrOf(i)
  BY <1>5, <1>6, <1>7, <1>9, <1>10
<1>11. ASSUME hit(w), SQ!st_hit(ld) PROVE value(w) = Visible(i)
  BY <1>5, <1>7, <1>11 DEF Visible
<1>12. ASSUME hit(w), ~SQ!st_hit(ld) PROVE value(w) = Visible(i)
  <2>1. PICK j \in RTB!Found(a) : TRUE
    BY <1>7, <1>12
  <2>2. \A k \in RTB!Found(a) : k = j
    BY <1>2, <1>3, <1>6, <1>12, <2>1 DEF OldestGiven
  <2>3. RTB!Found(a) = {j}
    BY <2>1, <2>2
  <2>4. j \in 2 .. Len(rtb) /\ rtb[j].addr = a /\ \A n \in 2 .. Len(rtb) : rtb[n].addr = a => n = j
    BY <1>9, <2>1, <2>2
  <2>5. RTB!load_value_o(a) = rtb[j].value
    <3>1. PICK c : c = CHOOSE n \in RTB!Found(a) : \A k \in RTB!Found(a) : n <= k
      OBVIOUS
    <3>2. c = j
      <4>1. j <= j
        BY <1>8, <2>4
      <4>2. \E n \in RTB!Found(a) : \A k \in RTB!Found(a) : n <= k
        BY <2>3, <4>1
      <4>3. c \in RTB!Found(a)
        BY <3>1, <4>2
      <4>4. QED
        BY <2>3, <4>3
    <3>3. QED
      BY <3>1, <3>2 DEF RTB!load_value_o
  <2>6. IsSeen(rtb, unified_memory, a, rtb[j].value)
    <3>1. j \in 1 .. Len(rtb) /\ j \in Nat
      BY <1>8, <2>4
    <3>2. \A l \in 1 .. Len(rtb) : rtb[l].addr = a => l <= j
      <4>1. SUFFICES ASSUME NEW l \in 1 .. Len(rtb), rtb[l].addr = a PROVE l <= j
        OBVIOUS
      <4>2. l = 1 \/ l \in 2 .. Len(rtb)
        BY <1>8
      <4>3. QED
        BY <1>8, <2>4, <3>1, <4>1, <4>2
    <3>3. QED
      BY <2>4, <3>1, <3>2 DEF IsSeen
  <2>7. SeenMemory[a] = rtb[j].value
    BY <1>8, <2>6, SeenIs
  <2>8. Sources(i) = {}
    BY <1>5, <1>12
  <2>9. QED
    BY <1>6, <1>7, <1>12, <2>5, <2>7, <2>8 DEF Visible
<1>13. QED
  BY <1>10, <1>11, <1>12

(* Who waits for memory: no older store that has executed is left for it. *)
Alone(i) == Sources(i) = {} /\ rtb \in Seq({e \in SQ!Entry : e.addr # AddrOf(i)})

LEMMA AloneSees ==
  ASSUME QueueInv, NEW i \in InFlight, Alone(i)
  PROVE  Visible(i) = unified_memory[AddrOf(i)]
<1>1. PICK a \in Addr : a = AddrOf(i)
  <2>1. i \in Slot
    BY DEF InFlight
  <2>2. QED
    BY <2>1, FlightIs
<1>2. rtb \in Seq({e \in SQ!Entry : e.addr # a}) /\ rtb \in Seq(SQ!Entry)
  BY <1>1, Typed DEF Alone
<1>3. \A n \in 1 .. Len(rtb) : rtb[n].addr # a
  BY <1>2
<1>4. IsSeen(rtb, unified_memory, a, unified_memory[a])
  BY <1>3 DEF IsSeen
<1>5. SeenMemory[a] = unified_memory[a]
  BY <1>2, <1>4, SeenIs
<1>6. QED
  BY <1>1, <1>5 DEF Visible, Alone

LEMMA TailIn ==
  ASSUME NEW V, NEW q \in Seq(V), q # <<>>, NEW W, \A n \in 2 .. Len(q) : q[n] \in W
  PROVE  Tail(q) \in Seq(W)
<1>1. PICK t : t = Tail(q)
  OBVIOUS
<1>2. /\ t \in Seq(V) /\ Len(t) = Len(q) - 1 /\ Len(q) \in Nat
      /\ \A n \in 1 .. Len(t) : t[n] = q[n + 1]
  BY <1>1, HeadTailProperties, LenProperties
<1>3. t \in [1 .. Len(t) -> V] /\ Len(t) \in Nat
  BY <1>2, LenProperties
<1>4. \A n \in 1 .. Len(t) : t[n] \in W
  <2>1. \A n \in 1 .. Len(t) : n + 1 \in 2 .. Len(q)
    BY <1>2, <1>3
  <2>2. QED
    BY <1>2, <2>1
<1>5. t \in [1 .. Len(t) -> W]
  BY <1>3, <1>4
<1>6. QED
  BY <1>1, <1>3, <1>5, SeqDef

(* It stays so, until the load that has executed is answered. *)
LEMMA AloneKept ==
  ASSUME NEW go, NEW port, Step(go, port), ~MarkLost, AllValid,
         NEW i \in Flying("load"), arch' <= Ins(i), ~Doubtful(i)',
         Executed(i) \/ \E w \in Ways : In(AtPort(w), i),
         Sources(i) = {}, \A n \in 2 .. Len(rtb) : rtb[n].addr # AddrOf(i)
  PROVE  Alone(i)'
<1>0. QueueInv /\ Memory /\ AddrOf(i)' = AddrOf(i) /\ i \in InFlight /\ i \in Slot
  BY OpsMove DEF Step, Clock, Flying, InFlight
<1>1. Sources(i)' = {}
  <2>1. Sources(i)' \subseteq Op
    BY DEF Sources, Among
  <2>2. QED
    BY <2>1, SourcesMove
<1>2. PICK W : W = {e \in SQ!Entry : e.addr # AddrOf(i)}
  OBVIOUS
<1>3. Left \in Seq(W)
  <2>1. rtb \in Seq(SQ!Entry) /\ Len(rtb) \in Nat
    BY <1>0, Typed
  <2>2. CASE rtb = <<>>
    <3>1. Left = <<>>
      BY <2>2, SendsFirst DEF Left
    <3>2. QED
      BY <3>1
  <2>3. CASE rtb # <<>>
    <3>1. Left = Tail(rtb)
      BY <2>3, SendsFirst DEF Left
    <3>2. \A n \in 2 .. Len(rtb) : rtb[n] \in W
      <4>1. SUFFICES ASSUME NEW n \in 2 .. Len(rtb) PROVE rtb[n] \in W
        OBVIOUS
      <4>2. n \in 1 .. Len(rtb)
        BY <2>1
      <4>3. rtb[n] \in SQ!Entry
        BY <2>1, <4>2, ElementOfSeq
      <4>4. QED
        BY <1>2, <4>1, <4>3
    <3>3. QED
      BY <2>1, <2>3, <3>1, <3>2, TailIn
  <2>4. QED
    BY <2>2, <2>3
<1>4. /\ Retiring("store")[0] => StoreOf(arch) \in W
      /\ Retiring("store")[1] => StoreOf(arch + 1) \in W
  <2>0. /\ arch \in Nat /\ arch' = arch + Leaving /\ Leaving \in 0 .. 2 /\ Ways = {0, 1}
        /\ Retiring("store")[0] <=> Leaving >= 1 /\ prog[arch].kind = "store"
        /\ Retiring("store")[1] <=> Leaving = 2 /\ prog[arch + 1].kind = "store"
    BY <1>0, Typed, StepMoves, RetiringCount, Sets
  <2>1. ASSUME NEW w \in Ways, Retiring("store")[w] PROVE StoreOf(arch + w) \in W
    <3>1. PICK k \in Op : k = arch + w
      BY <1>0, <2>1, RetiringStore
    <3>2. prog[k].kind = "store" /\ arch <= k /\ k < arch'
      BY <1>0, <2>0, <2>1, <3>1, RetiringStore
    <3>3. prog[k].addr # AddrOf(i)
      BY <3>2, RetiringSources
    <3>4. StoreOf(k) \in SQ!Entry /\ StoreOf(k).addr = prog[k].addr
      BY <1>0, StoreTyped DEF StoreOf
    <3>5. QED
      BY <1>2, <3>1, <3>3, <3>4
  <2>2. Retiring("store")[0] => StoreOf(arch + 0) \in W
    BY <2>0, <2>1
  <2>3. arch + 0 = arch
    BY <2>0
  <2>4. QED
    BY <2>0, <2>1, <2>2, <2>3
<1>5. rtb' \in Seq(W)
  <2>1. W \subseteq SQ!Entry
    BY <1>2
  <2>2. QED
    BY <1>0, <1>3, <1>4, <2>1, BufferStays
<1>6. QED
  BY <1>0, <1>1, <1>2, <1>5 DEF Alone, SQ!Entry

-----------------------------------------------------------------------------
(* Loads keep the right value from the port to the register. *)

(* A load not to be executed again has, wherever it is, what it sees; and one that waits for
   memory will. *)
RightAt(p, i) ==
  /\ \A w \in Ways : p = OnBus(w) => ex_cm[w].value = Visible(i)
  /\ p = Done => preg[i] = Visible(i)
  /\ \A j \in InBuffer : p = Buffered(j) =>
       IF lb[j].valid THEN lb[j].value = Visible(i) ELSE Alone(i)

ValuesInv ==
  /\ AllValid
  /\ \A i \in Flying("load") : ~Doubtful(i) => \A p : In(p, i) => RightAt(p, i)

LEMMA RightBus ==
  ASSUME NEW i, NEW w \in Ways, NEW q, q = OnBus(w), (ex_cm[w].value = Visible(i))'
  PROVE  RightAt(q, i)'
<1>1. \A v \in Ways : q = OnBus(v) => v = w
  BY TagsApart
<1>2. q # Done /\ \A j : q # Buffered(j)
  BY TagsApart
<1>3. QED
  BY <1>1, <1>2 DEF RightAt

LEMMA RightDone ==
  ASSUME NEW i, (preg[i] = Visible(i))'
  PROVE  RightAt(Done, i)'
<1>1. /\ \A v \in Ways : Done # OnBus(v)
      /\ \A j : Done # Buffered(j)
  BY TagsApart
<1>2. QED
  BY <1>1 DEF RightAt

LEMMA RightBuffered ==
  ASSUME NEW i, NEW j, NEW q, q = Buffered(j), (IF lb[j].valid THEN lb[j].value = Visible(i) ELSE Alone(i))'
  PROVE  RightAt(q, i)'
<1>1. \A v : q = Buffered(v) => v = j
  BY TagsApart
<1>2. q # Done /\ \A v : q # OnBus(v)
  BY TagsApart
<1>3. QED
  BY <1>1, <1>2 DEF RightAt

LEMMA RightElse ==
  ASSUME NEW i, NEW q, (\E e : q = InStation(e)) \/ (\E w : q = AtPort(w))
  PROVE  RightAt(q, i)'
<1>1. q # Done /\ (\A v : q # OnBus(v)) /\ \A v : q # Buffered(v)
  BY TagsApart
<1>2. QED
  BY <1>1 DEF RightAt

(* The load that ends at a port, and the one that leaves it for the load buffer. *)
LEMMA PortRight ==
  ASSUME NEW go, NEW port, Step(go, port), ~MarkLost, ~OldestGiven, AllValid,
         NEW i \in Flying("load"), arch' <= Ins(i), ~Doubtful(i)', NEW w \in Ways, In(AtPort(w), i)
  PROVE  /\ Ends(w) => ex_cm'[w].value = Visible(i)'
         /\ wr_en[w] => Alone(i)'
<1>0. QueueInv /\ Unbroken /\ BufferRoom /\ QueueRoom
  BY DEF Step
<1>1. is_ex[w].valid /\ is_ex[w].rob_idx = i
  BY InMeans
<1>2. KindOf(i) = "load" /\ LOAD_ready(w)
  BY <1>0, <1>1, PortIs DEF Flying, LOAD_ready
<1>3. /\ hit(w) => value(w) = Visible(i)
      /\ ~hit(w) => /\ Sources(i) = {}
                    /\ \A n \in 2 .. Len(rtb) : rtb[n].addr # AddrOf(i)
  BY <1>0, <1>1, <1>2, PortValue
<1>4. /\ Ends(w) => hit(w) /\ ex_packet[w].value = value(w)
      /\ wr_en[w] => ~hit(w)
  BY <1>0, <1>2, PortsMove
<1>5. Visible(i)' = Visible(i)
  BY VisibleKept
<1>6. ex_cm' = ex_packet
  BY BusesMove
<1>7. ASSUME wr_en[w] PROVE Alone(i)'
  BY <1>3, <1>4, <1>7, AloneKept
<1>8. QED
  BY <1>3, <1>4, <1>5, <1>6, <1>7

(* A load that stays in the load buffer, answered or not. *)
LEMMA WaitingRight ==
  ASSUME NEW go, NEW port, Step(go, port), ~MarkLost, AllValid,
         NEW i \in Flying("load"), arch' <= Ins(i), ~Doubtful(i)',
         NEW j \in InBuffer, ~Popped(j), In(Buffered(j), i), RightAt(Buffered(j), i)
  PROVE  (IF lb[j].valid THEN lb[j].value = Visible(i) ELSE Alone(i))'
<1>0. QueueInv /\ i \in InFlight
  BY DEF Step, Flying
<1>1. IF lb[j].valid THEN lb[j].value = Visible(i) ELSE Alone(i)
  BY DEF RightAt
<1>2. Executed(i)
  BY <1>0, ExecutedIs
<1>3. Visible(i)' = Visible(i)
  BY <1>2, VisibleKept
<1>4. /\ lb'[j].valid <=> lb[j].valid \/ (answered /\ j = lb_head)
      /\ lb'[j].value = IF answered /\ j = lb_head THEN unified_memory[LB!dout.load.addr]
                        ELSE lb[j].value
  BY BufferMoves
<1>5. answered => ~lb[lb_head].valid
  BY DEF answered, LB!rd_cache
<1>6. lb[j].load.rob_idx = i /\ lb[j].load.addr = AddrOf(i)
  <2>1. lb[j].load.rob_idx = i
    BY InMeans
  <2>2. j \in LB!Idx
    BY DEF InBuffer
  <2>3. QED
    BY <1>0, <2>1, <2>2 DEF QueueInv, BufferExact
<1>7. CASE lb[j].valid
  BY <1>1, <1>3, <1>4, <1>5, <1>7
<1>8. CASE ~lb[j].valid /\ answered /\ j = lb_head
  <2>1. unified_memory[LB!dout.load.addr] = Visible(i)
    BY <1>0, <1>1, <1>6, <1>8, AloneSees DEF LB!dout
  <2>2. QED
    BY <1>3, <1>4, <1>8, <2>1
<1>9. CASE ~lb[j].valid /\ ~(answered /\ j = lb_head)
  <2>1. Sources(i) = {} /\ \A n \in 2 .. Len(rtb) : rtb[n].addr # AddrOf(i)
    <3>1. Alone(i) /\ rtb \in Seq(SQ!Entry) /\ Len(rtb) \in Nat
      BY <1>0, <1>1, <1>9, Typed
    <3>2. \A n \in 1 .. Len(rtb) : rtb[n].addr # AddrOf(i)
      BY <3>1 DEF Alone
    <3>3. QED
      BY <3>1, <3>2 DEF Alone
  <2>2. Alone(i)'
    BY <1>2, <2>1, AloneKept
  <2>3. QED
    BY <1>4, <1>9, <2>2
<1>10. QED
  BY <1>7, <1>8, <1>9

(* The head of the load buffer, on its way to bus 0. *)
LEMMA AnswerRight ==
  ASSUME NEW go, NEW port, Step(go, port), ~MarkLost, AllValid,
         NEW i \in Flying("load"), arch' <= Ins(i), ~Doubtful(i)',
         rd_en, In(Buffered(lb_head), i), RightAt(Buffered(lb_head), i)
  PROVE  ex_cm'[0].value = Visible(i)'
<1>0. QueueInv /\ Unbroken /\ BufferRoom
  BY DEF Step
<1>1. Executed(i)
  BY <1>0, ExecutedIs
<1>2. Visible(i)' = Visible(i)
  BY <1>1, VisibleKept
<1>3. lb_head \in InBuffer /\ lb[lb_head].valid
  BY <1>0, PortsMove, InMeans DEF LB!dout
<1>4. lb[lb_head].value = Visible(i)
  BY <1>3 DEF RightAt
<1>5. ex_packet[0].value = LB!dout.value
  BY <1>0, PortsMove, Sets
<1>6. QED
  BY <1>2, <1>4, <1>5, BusesMove DEF LB!dout

(* The register of a load that completes. *)
LEMMA WrittenIs ==
  ASSUME QueueInv, NEW i \in Flying("load"), NEW p, In(p, i), RightAt(p, i),
         p = Done \/ \E w \in Ways : p = OnBus(w)
  PROVE  Written(i) = Visible(i)
<1>0. i \in InFlight /\ i \in Slot /\ Ways = {0, 1}
  BY Sets DEF Flying, InFlight
<1>1. \A r : In(r, i) => r = p
  BY <1>0 DEF QueueInv, Placed
<1>2. \A w \in Ways : ex_cm[w].valid /\ ex_cm[w].rob_idx = i <=> p = OnBus(w)
  <2>1. SUFFICES ASSUME NEW w \in Ways PROVE ex_cm[w].valid /\ ex_cm[w].rob_idx = i <=> p = OnBus(w)
    OBVIOUS
  <2>2. In(OnBus(w), i) <=> ex_cm[w].valid /\ ex_cm[w].rob_idx = i
    BY InMeans
  <2>3. In(OnBus(w), i) <=> p = OnBus(w)
    BY <1>1
  <2>4. QED
    BY <2>2, <2>3
<1>3. CASE p = Done
  <2>1. \A w \in Ways : p # OnBus(w)
    BY <1>3, TagsApart
  <2>2. QED
    BY <1>0, <1>2, <1>3, <2>1 DEF Written, RightAt
<1>4. CASE p = OnBus(0)
  <2>1. p # OnBus(1)
    BY <1>4, TagsApart
  <2>2. QED
    BY <1>0, <1>2, <1>4, <2>1 DEF Written, RightAt
<1>5. CASE p = OnBus(1)
  BY <1>0, <1>2, <1>5 DEF Written, RightAt
<1>6. QED
  BY <1>0, <1>3, <1>4, <1>5

(* What completes is written into its register, and stays there. *)
LEMMA CompletedRight ==
  ASSUME NEW go, NEW port, Step(go, port), ~MarkLost, AllValid,
         NEW i \in Flying("load"), arch' <= Ins(i), ~Doubtful(i)',
         NEW p, In(p, i), RightAt(p, i), p = Done \/ \E w \in Ways : p = OnBus(w)
  PROVE  (preg[i] = Visible(i))'
<1>0. QueueInv /\ i \in InFlight /\ i \in Slot
  BY DEF Step, Flying, InFlight
<1>1. Executed(i)
  BY <1>0, ExecutedIs
<1>2. Visible(i)' = Visible(i)
  BY <1>1, VisibleKept
<1>3. data[i].valid /\ data'[i].valid
  BY <1>0, OpsMove DEF InFlight
<1>4. preg'[i] = Written(i)
  BY <1>0, <1>3 DEF Step, Clock
<1>5. Written(i) = Visible(i)
  BY WrittenIs, <1>0
<1>6. QED
  BY <1>2, <1>4, <1>5

LEMMA ValuesStep ==
  ASSUME NEW go, NEW port, Step(go, port), ~MarkLost, ~OldestGiven, ValuesInv
  PROVE  ValuesInv'
<1>0. QueueInv /\ AllValid /\ Memory
  BY DEF Step, Clock, ValuesInv
<1>1. AllValid'
  BY <1>0, AllValidStep
<1>2. ASSUME NEW i \in Flying("load")', ~Doubtful(i)', NEW q, In(q, i)' PROVE RightAt(q, i)'
  <2>1. CASE \E e : q = InStation(e)
    BY <2>1, RightElse
  <2>2. CASE i \in Flying("load") /\ arch' <= Ins(i) /\ \A r : In(r, i)' => \E p : In(p, i) /\ Moves(port, p, r)
    <3>1. PICK p : In(p, i) /\ Moves(port, p, q)
      BY <1>2, <2>2
    <3>2. i \in InFlight
      BY <2>2 DEF Flying
    <3>3. ~Doubtful(i)
      BY <1>2, <2>2, <3>2, DoubtStays
    <3>4. RightAt(p, i)
      BY <2>2, <3>1, <3>3 DEF ValuesInv
    <3>5. ASSUME NEW w \in Ways, q = OnBus(w) PROVE RightAt(q, i)'
      <4>1. (p = AtPort(w) /\ Ends(w)) \/ (w = 0 /\ p = Buffered(lb_head) /\ rd_en)
        BY <3>1, <3>5, MovesBack
      <4>2. ex_cm'[w].value = Visible(i)'
        <5>1. CASE p = AtPort(w) /\ Ends(w)
          BY <1>0, <1>2, <2>2, <3>1, <5>1, PortRight
        <5>2. CASE w = 0 /\ p = Buffered(lb_head) /\ rd_en
          BY <1>0, <1>2, <2>2, <3>1, <3>4, <5>2, AnswerRight
        <5>3. QED
          BY <4>1, <5>1, <5>2
      <4>3. QED
        BY <3>5, <4>2, RightBus
    <3>6. ASSUME NEW j, q = Buffered(j) PROVE RightAt(q, i)'
      <4>1. \/ p = Buffered(j) /\ j \in InBuffer /\ ~Popped(j)
            \/ \E w \in Ways : p = AtPort(w) /\ wr_en[w] /\ j = Into(w)
        BY <3>1, <3>6, TagsApart DEF Moves
      <4>2. (IF lb[j].valid THEN lb[j].value = Visible(i) ELSE Alone(i))'
        <5>1. CASE p = Buffered(j) /\ j \in InBuffer /\ ~Popped(j)
          BY <1>0, <1>2, <2>2, <3>1, <3>4, <5>1, WaitingRight
        <5>2. CASE \E w \in Ways : p = AtPort(w) /\ wr_en[w] /\ j = Into(w)
          <6>1. PICK w \in Ways : p = AtPort(w) /\ wr_en[w] /\ j = Into(w)
            BY <5>2
          <6>2. Alone(i)'
            BY <1>0, <1>2, <2>2, <3>1, <6>1, PortRight
          <6>3. ~lb'[j].valid
            BY <6>1, BufferMoves
          <6>4. QED
            BY <6>2, <6>3
        <5>3. QED
          BY <4>1, <5>1, <5>2
      <4>3. QED
        BY <3>6, <4>2, RightBuffered
    <3>7. ASSUME q = Done PROVE RightAt(q, i)'
      <4>1. p = Done \/ \E w \in Ways : p = OnBus(w)
        BY <3>1, <3>7, MovesBack
      <4>2. (preg[i] = Visible(i))'
        BY <1>0, <1>2, <2>2, <3>1, <3>4, <4>1, CompletedRight
      <4>3. QED
        BY <3>7, <4>2, RightDone
    <3>8. QED
      BY <1>2, <3>5, <3>6, <3>7, InMeansNext, RightElse
  <2>3. QED
    BY <1>2, <2>1, <2>2, FlyingNext
<1>3. QED
  BY <1>1, <1>2 DEF ValuesInv

-----------------------------------------------------------------------------
(* Loads are right in every history without the known defects. *)

NoLoadFlies == Flying("load") = {}

LEMMA ValuesNone == AllValid /\ NoLoadFlies => ValuesInv
  BY DEF ValuesInv, NoLoadFlies

LEMMA ValuesInit == Init => ValuesInv
<1>1. SUFFICES ASSUME Init PROVE AllValid /\ NoLoadFlies
  BY ValuesNone
<1>2. AllValid
  BY <1>1, EmptySeq DEF Init, RTB!Init, AllValid
<1>3. \A i \in Slot : ~data[i].valid
  BY <1>1, SameEdges, Sets DEF Init, R!Init, R!Zero
<1>4. QED
  BY <1>2, <1>3 DEF NoLoadFlies, Flying, InFlight

LEMMA ValuesRollback ==
  ASSUME QueueInv, ValuesInv, NEW go, NEW port, Clock(go, port), rollback
  PROVE  ValuesInv'
<1>1. AllValid'
  BY AllValidStep DEF Clock, ValuesInv
<1>2. \A i \in Slot : ~data'[i].valid
  <2>1. R!Flush
    BY SameEdges DEF Clock
  <2>2. QED
    BY <2>1, Sets DEF R!Flush, R!Zero
<1>3. InFlight' = {}
  BY <1>2 DEF InFlight
<1>4. NoLoadFlies'
  BY <1>3 DEF NoLoadFlies, Flying
<1>5. QED
  BY <1>1, <1>4, ValuesNone, PTL

LEMMA ValuesStutter == ValuesInv /\ UNCHANGED vars => ValuesInv'
<1>1. SUFFICES ASSUME ValuesInv, UNCHANGED vars PROVE ValuesInv'
  OBVIOUS
<1>2. /\ prog' = prog /\ arch' = arch /\ sq' = sq /\ rtb' = rtb /\ unified_memory' = unified_memory
      /\ data' = data /\ ex_cm' = ex_cm /\ preg' = preg /\ lb' = lb
  BY <1>1 DEF vars, robVars, lsqVars
<1>3. AllValid'
  BY <1>1, <1>2 DEF ValuesInv, AllValid, SQ!Entry
<1>4. SeenMemory' = SeenMemory
  BY <1>2 DEF SeenMemory
<1>5. \A i : Sources(i)' = Sources(i)
  BY <1>1, <1>2, Still DEF Sources, Among
<1>6. \A i : Visible(i)' = Visible(i)
  BY <1>1, <1>4, <1>5, Still DEF Visible
<1>7. \A i : Alone(i)' <=> Alone(i)
  BY <1>1, <1>2, <1>5, Still DEF Alone, SQ!Entry
<1>8. \A i : Rob!Age(i)' = Rob!Age(i)
  BY <1>1 DEF vars, robVars, Rob!Age
<1>9. \A i : Doubtful(i)' <=> Doubtful(i)
  BY <1>1, <1>2, <1>8, Still DEF Doubtful
<1>10. \A p, i : RightAt(p, i)' <=> RightAt(p, i)
  BY <1>1, <1>2, <1>6, <1>7, Still DEF RightAt
<1>11. QED
  BY <1>1, <1>3, <1>9, <1>10, Still DEF ValuesInv

(* The histories that run mem explores: until a defect strikes, with room. *)
Explored == UntilDefect /\ QueueRoom /\ BufferRoom

LEMMA ExploredIs == Explored => Regular
  BY DEF Explored, Regular, Unbroken, UntilDefect

LEMMA ValuesNext == QueueInv /\ ValuesInv /\ Explored /\ Explored' /\ [Next]_vars => ValuesInv'
<1>1. SUFFICES ASSUME QueueInv, ValuesInv, Explored, Explored', [Next]_vars PROVE ValuesInv'
  OBVIOUS
<1>2. CASE UNCHANGED vars
  BY <1>1, <1>2, ValuesStutter
<1>3. CASE Stopped
  BY <1>1, <1>3, ValuesStutter DEF Stopped
<1>4. CASE Cycle
  <2>1. PICK go \in BOOLEAN, p0 \in Choices(0), p1 \in Choices(1) :
          Apart(p0, p1) /\ Clock(go, [w \in Ways |-> IF w = 0 THEN p0 ELSE p1])
    BY <1>4 DEF Cycle
  <2>2. PICK port : port = [w \in Ways |-> IF w = 0 THEN p0 ELSE p1]
    OBVIOUS
  <2>3. port[0] = p0 /\ port[1] = p1 /\ Clock(go, port)
    BY <2>1, <2>2, Sets
  <2>4. CASE rollback
    BY <1>1, <2>3, <2>4, ValuesRollback
  <2>5. CASE ~rollback
    <3>1. \A w \in Ways : port[w] \in Choices(w)
      BY <2>3, Sets
    <3>2. Regular /\ QueueRoom' /\ BufferRoom' /\ ~MarkLost /\ ~OldestGiven
      BY <1>1, ExploredIs DEF Explored, UntilDefect
    <3>3. Step(go, port)
      BY <1>1, <2>1, <2>3, <2>5, <3>1, <3>2 DEF Step, Regular
    <3>4. QED
      BY <1>1, <3>2, <3>3, ValuesStep
  <2>6. QED
    BY <2>4, <2>5
<1>5. QED
  BY <1>1, <1>2, <1>3, <1>4 DEF Next

(* Every load that will not be executed again holds, on its bus and in its register, the value
   that the stores in front of it have left for it, and the load buffer holds none that a store
   in a queue could still serve. *)
THEOREM MemPipeValues == Spec /\ []Explored => [](QueueInv /\ ValuesInv)
<1>1. Explored => Regular
  BY ExploredIs
<1>2. Spec /\ []Regular => []QueueInv
  BY MemPipeQueueInv
<1>3. QED
  BY <1>1, <1>2, ValuesInit, ValuesNext, PTL DEF Spec

(* With every older store executed, what it sees is what it has to find. *)
LEMMA SourcesAll ==
  ASSUME QueueInv, NEW i \in Flying("load"), \A j \in Before(i, Flying("store")) : retire_tag[j],
         NEW T, T = {j \in Before(i, Flying("store")) : AddrOf(j) = AddrOf(i)}
  PROVE  /\ T \subseteq InFlight /\ \A j \in T : Ins(j) \in Sources(i)
         /\ \A k \in Sources(i) : \E j \in T : Ins(j) = k
<1>1. i \in InFlight /\ i \in Slot
  BY DEF Flying, InFlight
<1>2. \A j \in InFlight : Rob!Age(j) < Rob!Age(i) <=> Ins(j) < Ins(i)
  <2>1. SUFFICES ASSUME NEW j \in InFlight PROVE Rob!Age(j) < Rob!Age(i) <=> Ins(j) < Ins(i)
    OBVIOUS
  <2>2. j \in Slot
    BY DEF InFlight
  <2>3. /\ Ins(j) = arch + R!Age(j) /\ R!Age(j) \in 0 .. ROB_SIZE - 1
        /\ Ins(i) = arch + R!Age(i) /\ R!Age(i) \in 0 .. ROB_SIZE - 1
    BY <1>1, <2>1, <2>2, FlightIs
  <2>4. arch \in Int /\ ROB_SIZE \in Nat
    BY Typed, Sizes
  <2>5. QED
    BY <2>3, <2>4, SameRing
<1>3. ASSUME NEW j \in T PROVE j \in InFlight /\ Ins(j) \in Sources(i)
  <2>1. j \in Flying("store") /\ Rob!Age(j) < Rob!Age(i) /\ AddrOf(j) = AddrOf(i) /\ retire_tag[j]
    BY <1>3 DEF Before
  <2>2. j \in InFlight /\ j \in Slot /\ KindOf(j) = "store"
    BY <2>1 DEF Flying, InFlight
  <2>3. In(Done, j)
    BY <2>1, <2>2, InMeans
  <2>4. sq[SqOf(Ins(j))].valid
    BY <2>1, <2>3 DEF QueueInv, StoresFilled
  <2>5. Ins(j) \in Op /\ arch <= Ins(j)
    BY <2>2, FlightIs
  <2>6. QED
    BY <1>2, <2>1, <2>2, <2>4, <2>5 DEF Sources, Among, KindOf, AddrOf, Ins
<1>4. ASSUME NEW k \in Sources(i) PROVE \E j \in T : Ins(j) = k
  <2>1. k \in Op /\ arch <= k /\ k < Ins(i) /\ prog[k].kind = "store" /\ prog[k].addr = AddrOf(i)
    BY <1>4 DEF Sources, Among
  <2>2. Ins(i) < fpc /\ k \in Int /\ fpc \in Int /\ Ins(i) \in Int
    BY <1>1, <2>1, FlightIs, Typed DEF Op
  <2>3. PICK j \in InFlight : Ins(j) = k
    BY <2>1, <2>2, SlotOf
  <2>4. j \in Flying("store") /\ AddrOf(j) = AddrOf(i)
    BY <2>1, <2>3 DEF Flying, KindOf, AddrOf, Ins
  <2>5. QED
    BY <1>2, <2>1, <2>3, <2>4 DEF Before
<1>5. QED
  BY <1>3, <1>4

LEMMA ExpectedIs ==
  ASSUME QueueInv, NEW i \in Flying("load"), \A j \in Before(i, Flying("store")) : retire_tag[j]
  PROVE  Expected(i) = Visible(i)
<1>1. PICK T : T = {j \in Before(i, Flying("store")) : AddrOf(j) = AddrOf(i)}
  OBVIOUS
<1>2. /\ T \subseteq InFlight /\ \A j \in T : Ins(j) \in Sources(i)
      /\ \A k \in Sources(i) : \E j \in T : Ins(j) = k
  BY <1>1, SourcesAll
<1>3. PICK c : c = CHOOSE j \in T : \A k \in T : Rob!Age(k) <= Rob!Age(j)
  OBVIOUS
<1>4. Expected(i) = IF T = {} THEN SeenMemory[AddrOf(i)] ELSE Ins(c) + 1
  BY <1>1, <1>3 DEF Expected, Ins
<1>5. CASE T = {}
  BY <1>2, <1>4, <1>5 DEF Visible
<1>6. CASE T # {}
  <2>1. Sources(i) # {} /\ Sources(i) \subseteq Op
    BY <1>2, <1>6 DEF Sources, Among
  <2>2. Latest(Sources(i)) \in Sources(i) /\ \A k \in Sources(i) : k <= Latest(Sources(i))
    BY <2>1, LatestIs
  <2>3. PICK m \in T : Ins(m) = Latest(Sources(i))
    BY <1>2, <2>2
  <2>4. \A j \in T, k \in T : Rob!Age(k) <= Rob!Age(j) <=> Ins(k) <= Ins(j)
    BY <1>2, AgeOrder
  <2>5. c \in T /\ \A k \in T : Rob!Age(k) <= Rob!Age(c)
    <3>1. \A k \in T : Rob!Age(k) <= Rob!Age(m)
      BY <1>2, <2>2, <2>3, <2>4
    <3>2. QED
      BY <1>3, <3>1
  <2>6. Ins(m) <= Ins(c) /\ Ins(c) <= Latest(Sources(i)) /\ Ins(c) \in Op /\ Ins(m) \in Op
    BY <1>2, <2>1, <2>2, <2>3, <2>4, <2>5
  <2>7. Ins(c) = Latest(Sources(i))
    BY <2>3, <2>6 DEF Op
  <2>8. QED
    BY <1>4, <1>6, <2>1, <2>7 DEF Visible
<1>7. QED
  BY <1>5, <1>6

LEMMA LoadsRightIs == QueueInv /\ ValuesInv => LoadsRight
<1>1. SUFFICES ASSUME QueueInv, ValuesInv, NEW i \in Flying("load"), retire_tag[i], ~Doubtful(i),
                      \A j \in Before(i, Flying("store")) : retire_tag[j]
               PROVE  preg[i] = Expected(i)
  BY DEF LoadsRight
<1>2. i \in Slot
  BY DEF Flying, InFlight
<1>3. RightAt(Done, i)
  BY <1>1, <1>2, InMeans DEF ValuesInv
<1>4. preg[i] = Visible(i)
  BY <1>3 DEF RightAt
<1>5. QED
  BY <1>1, <1>4, ExpectedIs

(* A load that has completed, with every older store executed, holds the value of the youngest
   older store to its address, whichever of the store queue, the retire buffer and memory it came
   from, or it or a load before it is marked to be executed again. *)
THEOREM MemPipeLoadsRight == Spec /\ []Explored => []LoadsRight
<1>1. QED
  BY MemPipeValues, LoadsRightIs, PTL

-----------------------------------------------------------------------------
(* What is committed, and what the committed loads have read. *)

(* The value that a load has when it completes. *)
LEMMA WrittenRight ==
  ASSUME QueueInv, ValuesInv, NEW i \in Flying("load"), ~Doubtful(i), R!Completed(ex_cm, i)
  PROVE  Written(i) = Visible(i)
<1>1. i \in InFlight
  BY DEF Flying
<1>2. PICK p : In(p, i) /\ (p = Done \/ \E w \in Ways : p = OnBus(w))
  BY <1>1, CompletedIn
<1>3. RightAt(p, i)
  BY <1>2 DEF ValuesInv
<1>4. QED
  BY <1>2, <1>3, WrittenIs

(* What is committed, and what the queues are told of it. *)
LEMMA Committed ==
  ASSUME QueueInv, ~PairLost
  PROVE  /\ commit1 => commit0
         /\ commit0 => /\ arch \in Op /\ rob_head \in InFlight /\ Ins(rob_head) = arch
                       /\ R!Completed(ex_cm, rob_head)
                       /\ data[rob_head].rd_mem <=> prog[arch].kind = "load"
         /\ commit1 => /\ arch + 1 \in Op /\ Rob!head_p1 \in InFlight /\ Ins(Rob!head_p1) = arch + 1
                       /\ R!Completed(ex_cm, Rob!head_p1)
                       /\ data[Rob!head_p1].rd_mem <=> prog[arch + 1].kind = "load"
         /\ Retiring("store")[0] <=> commit0 /\ prog[arch].kind = "store"
         /\ Retiring("store")[1] <=> commit1 /\ prog[arch + 1].kind = "store"
<1>0. Ways = {0, 1} /\ first = data[rob_head] /\ second = data[Rob!head_p1]
  BY Sets DEF first, second
<1>1. /\ head_retire_rdy => /\ rob_head \in InFlight /\ first.ins = arch /\ EntryExact(first)
                            /\ R!Completed(ex_cm, rob_head)
      /\ head_p1_retire_rdy => /\ head_retire_rdy /\ Rob!head_p1 \in InFlight /\ second.ins = arch + 1
                               /\ EntryExact(second) /\ R!Completed(ex_cm, Rob!head_p1)
      /\ rob_head \in Slot /\ Rob!head_p1 \in Slot
  BY Heads
<1>2. /\ head_retire_rdy => arch \in Op /\ (first.rd_mem <=> prog[arch].kind = "load")
                            /\ (first.rd_mem_violation => first.rd_mem)
      /\ head_p1_retire_rdy => arch + 1 \in Op /\ (second.rd_mem <=> prog[arch + 1].kind = "load")
                               /\ (second.rd_mem_violation => second.rd_mem)
  BY <1>0, <1>1, FlightIs DEF EntryExact, Ins
<1>3. /\ Retiring("store")[0] <=> head_retire_rdy /\ prog[first.ins].kind = "store"
      /\ Retiring("store")[1] <=> head_p1_retire_rdy /\ prog[second.ins].kind = "store"
  <2>1. /\ Retiring("store")[0] = (head_retire_rdy /\ prog[first.ins].kind = "store")
        /\ Retiring("store")[1] = (head_p1_retire_rdy /\ prog[second.ins].kind = "store")
    BY <1>0 DEF Retiring
  <2>2. QED
    BY <2>1
<1>4. Retiring("store")[0] <=> commit0 /\ prog[arch].kind = "store"
  BY <1>1, <1>2, <1>3 DEF commit0, viol0
<1>5. Retiring("store")[1] <=> commit1 /\ prog[arch + 1].kind = "store"
  BY <1>1, <1>2, <1>3 DEF commit1, viol1, PairLost
<1>6. QED
  BY <1>0, <1>1, <1>2, <1>4, <1>5 DEF commit0, commit1, Ins

(* Neither is marked, nor what is before it. *)
LEMMA CommittedSure ==
  ASSUME QueueInv, ~PairLost
  PROVE  /\ commit0 => ~Doubtful(rob_head)
         /\ commit1 => ~Doubtful(Rob!head_p1)
<1>1. first = data[rob_head] /\ second = data[Rob!head_p1] /\ arch \in Nat
  BY Typed DEF first, second
<1>2. ASSUME NEW j \in InFlight, Ins(j) <= arch PROVE arch = Ins(j)
  <2>1. j \in Slot
    BY DEF InFlight
  <2>2. QED
    BY <1>1, <1>2, <2>1, FlightIs DEF Op
<1>3. ASSUME NEW j \in InFlight, Ins(j) <= arch + 1 PROVE Ins(j) = arch \/ Ins(j) = arch + 1
  <2>1. j \in Slot
    BY DEF InFlight
  <2>2. Ins(j) \in Nat /\ arch <= Ins(j)
    BY <2>1, FlightIs DEF Op
  <2>3. QED
    BY <1>1, <1>3, <2>2
<1>4. ASSUME commit0, Doubtful(rob_head) PROVE FALSE
  <2>1. rob_head \in InFlight /\ Ins(rob_head) = arch
    BY <1>4, Committed
  <2>2. PICK j \in Flying("load") : data[j].rd_mem_violation /\ Ins(j) <= Ins(rob_head)
    BY <1>4, <2>1, DoubtfulIs
  <2>3. j \in InFlight
    BY DEF Flying
  <2>4. j = rob_head
    BY <1>2, <2>1, <2>2, <2>3, OneSlot
  <2>5. QED
    BY <1>1, <1>4, <2>2, <2>4 DEF commit0, viol0
<1>5. ASSUME commit1, Doubtful(Rob!head_p1) PROVE FALSE
  <2>1. /\ Rob!head_p1 \in InFlight /\ Ins(Rob!head_p1) = arch + 1
        /\ commit0 /\ rob_head \in InFlight /\ Ins(rob_head) = arch
    BY <1>5, Committed
  <2>2. PICK j \in Flying("load") : data[j].rd_mem_violation /\ Ins(j) <= Ins(Rob!head_p1)
    BY <1>5, <2>1, DoubtfulIs
  <2>3. j \in InFlight
    BY DEF Flying
  <2>4. j = rob_head \/ j = Rob!head_p1
    BY <1>3, <2>1, <2>2, <2>3, OneSlot
  <2>5. QED
    BY <1>1, <1>5, <2>1, <2>2, <2>4 DEF commit0, commit1, viol0, viol1
<1>6. QED
  BY <1>4, <1>5

(* What the two that may be committed have read. *)
LEMMA FirstReads ==
  ASSUME QueueInv, ValuesInv, ~PairLost, commit0, prog[arch].kind = "load"
  PROVE  Written(rob_head) = SeenMemory[prog[arch].addr]
<1>1. /\ rob_head \in InFlight /\ Ins(rob_head) = arch /\ R!Completed(ex_cm, rob_head)
      /\ ~Doubtful(rob_head) /\ arch \in Nat
  BY Committed, CommittedSure, Typed
<1>2. PICK i : i = rob_head
  OBVIOUS
<1>3. i \in Flying("load") /\ AddrOf(i) = prog[arch].addr
  BY <1>1, <1>2 DEF Flying, KindOf, AddrOf, Ins
<1>4. Written(i) = Visible(i)
  BY <1>1, <1>2, <1>3, WrittenRight
<1>5. Sources(i) = {}
  BY <1>1, <1>2 DEF Sources, Among, Op
<1>6. QED
  BY <1>2, <1>3, <1>4, <1>5 DEF Visible

LEMMA SecondReads ==
  ASSUME QueueInv, ValuesInv, ~PairLost, commit1, prog[arch + 1].kind = "load"
  PROVE  Written(Rob!head_p1) = IF prog[arch].kind = "store" /\ prog[arch].addr = prog[arch + 1].addr
                                THEN arch + 1 ELSE SeenMemory[prog[arch + 1].addr]
<1>1. /\ Rob!head_p1 \in InFlight /\ Ins(Rob!head_p1) = arch + 1 /\ R!Completed(ex_cm, Rob!head_p1)
      /\ ~Doubtful(Rob!head_p1) /\ arch \in Nat /\ arch \in Op
      /\ rob_head \in InFlight /\ Ins(rob_head) = arch /\ R!Completed(ex_cm, rob_head)
  BY Committed, CommittedSure, Typed
<1>2. PICK i : i = Rob!head_p1
  OBVIOUS
<1>3. i \in Flying("load") /\ AddrOf(i) = prog[arch + 1].addr /\ Ins(i) = arch + 1
  BY <1>1, <1>2 DEF Flying, KindOf, AddrOf, Ins
<1>4. Written(i) = Visible(i)
  BY <1>1, <1>2, <1>3, WrittenRight
<1>5. PICK T : T = Sources(i)
  OBVIOUS
<1>6. \A k \in T : k = arch
  BY <1>1, <1>3, <1>5 DEF Sources, Among, Op
<1>7. arch \in T <=> prog[arch].kind = "store" /\ prog[arch].addr = prog[arch + 1].addr
  <2>1. prog[arch].kind = "store" => sq[SqOf(arch)].valid
    <3>1. ASSUME prog[arch].kind = "store" PROVE sq[SqOf(arch)].valid
      <4>1. KindOf(rob_head) = "store"
        BY <1>1, <3>1 DEF KindOf, Ins
      <4>2. sq[SqOf(arch)] = StoreOf(arch)
        BY <1>1, <4>1, CompletedStore
      <4>3. QED
        BY <4>2 DEF StoreOf
    <3>2. QED
      BY <3>1
  <2>2. QED
    BY <1>1, <1>3, <1>5, <2>1 DEF Sources, Among
<1>8. CASE arch \in T
  <2>1. T \subseteq Op /\ T # {}
    BY <1>1, <1>6, <1>8
  <2>2. Latest(T) = arch
    BY <1>6, <2>1, LatestIs
  <2>3. QED
    BY <1>2, <1>4, <1>5, <1>7, <1>8, <2>1, <2>2 DEF Visible
<1>9. CASE arch \notin T
  <2>1. T = {}
    BY <1>6, <1>9
  <2>2. QED
    BY <1>2, <1>3, <1>4, <1>5, <1>7, <1>9, <2>1 DEF Visible
<1>10. QED
  BY <1>8, <1>9

(* The history of what has been read. *)
LEMMA ReadsMove ==
  ASSUME QueueInv, ValuesInv, ~PairLost
  PROVE  /\ ReadsAfter = [k \in Op |-> ReadsAfter[k]]
         /\ \A k \in Op :
              ReadsAfter[k] =
                IF commit1 /\ k = arch + 1 /\ prog[arch + 1].kind = "load" THEN Written(Rob!head_p1)
                ELSE IF commit0 /\ k = arch /\ prog[arch].kind = "load" THEN SeenMemory[prog[arch].addr]
                ELSE reads[k]
<1>1. PICK C : C = (IF commit0 THEN {rob_head} ELSE {}) \cup (IF commit1 THEN {Rob!head_p1} ELSE {})
  OBVIOUS
<1>2. PICK D : D = {i \in C : data[i].rd_mem}
  OBVIOUS
<1>3. ReadsAfter = [k \in Op |-> IF \E i \in D : data[i].ins = k
                                 THEN Written(CHOOSE i \in D : data[i].ins = k) ELSE reads[k]]
  BY <1>1, <1>2 DEF ReadsAfter
<1>4. SUFFICES ASSUME NEW k \in Op
               PROVE  (IF \E i \in D : data[i].ins = k
                       THEN Written(CHOOSE i \in D : data[i].ins = k) ELSE reads[k])
                      = IF commit1 /\ k = arch + 1 /\ prog[arch + 1].kind = "load" THEN Written(Rob!head_p1)
                        ELSE IF commit0 /\ k = arch /\ prog[arch].kind = "load" THEN SeenMemory[prog[arch].addr]
                        ELSE reads[k]
  BY <1>3
<1>5. arch \in Nat /\ arch # arch + 1
  BY Typed
<1>6. \A i : i \in D <=> \/ commit0 /\ i = rob_head /\ prog[arch].kind = "load"
                         \/ commit1 /\ i = Rob!head_p1 /\ prog[arch + 1].kind = "load"
  BY <1>1, <1>2, Committed
<1>7. /\ commit0 => data[rob_head].ins = arch
      /\ commit1 => commit0 /\ data[Rob!head_p1].ins = arch + 1
  BY Committed DEF Ins
<1>8. PICK c : c = CHOOSE i \in D : data[i].ins = k
  OBVIOUS
<1>9. (\E i \in D : data[i].ins = k) => c \in D /\ data[c].ins = k
  BY <1>8
<1>10. CASE commit1 /\ k = arch + 1 /\ prog[arch + 1].kind = "load"
  <2>1. Rob!head_p1 \in D /\ data[Rob!head_p1].ins = k
    BY <1>6, <1>7, <1>10
  <2>2. c = Rob!head_p1
    BY <1>5, <1>6, <1>7, <1>9, <1>10, <2>1
  <2>3. QED
    BY <1>8, <1>10, <2>1, <2>2
<1>11. CASE ~(commit1 /\ k = arch + 1 /\ prog[arch + 1].kind = "load")
            /\ commit0 /\ k = arch /\ prog[arch].kind = "load"
  <2>1. rob_head \in D /\ data[rob_head].ins = k
    BY <1>6, <1>7, <1>11
  <2>2. c = rob_head
    BY <1>5, <1>6, <1>7, <1>9, <1>11, <2>1
  <2>3. Written(rob_head) = SeenMemory[prog[arch].addr]
    BY <1>11, FirstReads
  <2>4. QED
    BY <1>8, <1>11, <2>1, <2>2, <2>3
<1>12. CASE /\ ~(commit1 /\ k = arch + 1 /\ prog[arch + 1].kind = "load")
            /\ ~(commit0 /\ k = arch /\ prog[arch].kind = "load")
  <2>1. ~\E i \in D : data[i].ins = k
    BY <1>6, <1>7, <1>12
  <2>2. QED
    BY <1>12, <2>1
<1>13. QED
  BY <1>10, <1>11, <1>12

-----------------------------------------------------------------------------
(* The refinement. *)

(* What one step of the abstract memory writes and finds. *)
LEMMA StoreSeen ==
  ASSUME NEW m, m = [a \in Addr |-> m[a]], NEW k
  PROVE  /\ Sequential!Written(m, k) = [a \in Addr |-> Sequential!Written(m, k)[a]]
         /\ \A a \in Addr : Sequential!Written(m, k)[a] =
              IF prog[k].kind = "store" /\ prog[k].addr = a THEN k + 1 ELSE m[a]
<1>1. CASE prog[k].kind = "store"
  <2>1. Sequential!Written(m, k) = [m EXCEPT ![prog[k].addr] = k + 1]
    BY <1>1 DEF Sequential!Written
  <2>2. QED
    BY <1>1, <2>1
<1>2. CASE prog[k].kind # "store"
  BY <1>2 DEF Sequential!Written
<1>3. QED
  BY <1>1, <1>2

LEMMA LoadFound ==
  ASSUME NEW r \in [Op -> Value], NEW m, NEW k \in Op, m[prog[k].addr] \in Value
  PROVE  Sequential!Found(r, m, k) =
           [l \in Op |-> IF l = k /\ prog[k].kind = "load" THEN m[prog[k].addr] ELSE r[l]]
<1>1. CASE prog[k].kind = "load"
  <2>1. Sequential!Found(r, m, k) = [r EXCEPT ![k] = m[prog[k].addr]]
    BY <1>1 DEF Sequential!Found
  <2>2. QED
    BY <1>1, <2>1
<1>2. CASE prog[k].kind # "load"
  <2>1. Sequential!Found(r, m, k) = r
    BY <1>2 DEF Sequential!Found
  <2>2. QED
    BY <1>2, <2>1
<1>3. QED
  BY <1>1, <1>2

LEMMA SeenFunction ==
  /\ SeenMemory = [a \in Addr |-> SeenMemory[a]]
  /\ SeenMemory' = [a \in Addr |-> SeenMemory'[a]]
  BY DEF SeenMemory

LEMMA SeenTyped ==
  ASSUME QueueInv, NEW a \in Addr
  PROVE  SeenMemory[a] \in Value
<1>1. rtb \in Seq(SQ!Entry) /\ unified_memory \in [Addr -> Value]
  BY Typed
<1>2. IsSeen(rtb, unified_memory, a, SeenMemory[a])
  BY <1>1, SeenIs
<1>3. CASE SeenMemory[a] = unified_memory[a]
  BY <1>1, <1>3
<1>4. ASSUME NEW n \in 1 .. Len(rtb), SeenMemory[a] = rtb[n].value PROVE SeenMemory[a] \in Value
  <2>1. rtb[n] \in SQ!Entry
    BY <1>1, ElementOfSeq
  <2>2. QED
    BY <1>4, <2>1 DEF SQ!Entry
<1>5. QED
  BY <1>2, <1>3, <1>4 DEF IsSeen

(* A cycle is one operation of the abstract memory, or two, or none. *)
LEMMA CycleMapped ==
  ASSUME QueueInv, ValuesInv, ~PairLost, NEW go, NEW port, Clock(go, port)
  PROVE  Sequential!Next \/ UNCHANGED <<prog, arch, SeenMemory, reads>>
<1>0. /\ AllValid /\ Memory /\ prog' = prog /\ reads' = ReadsAfter
      /\ arch' = arch + (IF commit1 THEN 2 ELSE IF commit0 THEN 1 ELSE 0)
      /\ arch \in Nat /\ NUM_OPS \in Nat /\ reads \in [Op -> Value]
      /\ prog \in [Op -> [kind : Kind, addr : Addr]]
  BY Typed, Sizes DEF Clock, ValuesInv
<1>1. /\ commit1 => commit0
      /\ commit0 => arch \in Op
      /\ commit1 => arch + 1 \in Op
      /\ Retiring("store")[0] <=> commit0 /\ prog[arch].kind = "store"
      /\ Retiring("store")[1] <=> commit1 /\ prog[arch + 1].kind = "store"
  BY Committed
<1>2. PICK m : m = SeenMemory
  OBVIOUS
<1>3. PICK n : n = SeenMemory'
  OBVIOUS
<1>4. m = [a \in Addr |-> m[a]] /\ n = [a \in Addr |-> n[a]]
  BY <1>2, <1>3, SeenFunction
<1>5. \A a \in Addr : n[a] =
        IF commit1 /\ prog[arch + 1].kind = "store" /\ prog[arch + 1].addr = a THEN arch + 1 + 1
        ELSE IF commit0 /\ prog[arch].kind = "store" /\ prog[arch].addr = a THEN arch + 1 ELSE m[a]
  BY <1>0, <1>1, <1>2, <1>3, SeenMoves
<1>6. /\ reads' = [k \in Op |-> reads'[k]]
      /\ \A k \in Op : reads'[k] =
           IF commit1 /\ k = arch + 1 /\ prog[arch + 1].kind = "load" THEN Written(Rob!head_p1)
           ELSE IF commit0 /\ k = arch /\ prog[arch].kind = "load" THEN m[prog[arch].addr]
           ELSE reads[k]
  BY <1>0, <1>2, ReadsMove
<1>7. \A a \in Addr : m[a] \in Value
  BY <1>2, SeenTyped
<1>8. CASE ~commit0
  <2>1. n = m
    BY <1>1, <1>4, <1>5, <1>8
  <2>2. reads' = reads
    BY <1>0, <1>1, <1>6, <1>8
  <2>3. arch' = arch
    BY <1>0, <1>1, <1>8
  <2>4. QED
    BY <1>0, <1>2, <1>3, <2>1, <2>2, <2>3
<1>9. CASE commit0 /\ ~commit1
  <2>1. arch < NUM_OPS /\ arch' = arch + 1 /\ arch \in Op
    BY <1>0, <1>1, <1>9 DEF Op
  <2>2. n = Sequential!Written(m, arch)
    BY <1>4, <1>5, <1>9, StoreSeen
  <2>3. reads' = Sequential!Found(reads, m, arch)
    <3>1. m[prog[arch].addr] \in Value
      BY <1>0, <1>7, <2>1
    <3>2. QED
      BY <1>0, <1>6, <1>9, <2>1, <3>1, LoadFound
  <2>4. Sequential!One
    BY <1>2, <1>3, <2>1, <2>2, <2>3 DEF Sequential!One
  <2>5. QED
    BY <1>0, <2>4 DEF Sequential!Next
<1>10. CASE commit1
  <2>0. arch \in Op /\ arch + 1 \in Op /\ commit0 /\ arch + 1 # arch
    BY <1>0, <1>1, <1>10
  <2>1. arch < NUM_OPS - 1 /\ arch' = arch + 2
    BY <1>0, <1>10, <2>0 DEF Op
  <2>2. PICK u : u = Sequential!Written(m, arch)
    OBVIOUS
  <2>3. /\ u = [a \in Addr |-> u[a]]
        /\ \A a \in Addr : u[a] = IF prog[arch].kind = "store" /\ prog[arch].addr = a THEN arch + 1 ELSE m[a]
    BY <1>4, <2>2, StoreSeen
  <2>4. n = Sequential!Written(u, arch + 1)
    <3>1. PICK v : v = Sequential!Written(u, arch + 1)
      OBVIOUS
    <3>2. /\ v = [a \in Addr |-> v[a]]
          /\ \A a \in Addr : v[a] = IF prog[arch + 1].kind = "store" /\ prog[arch + 1].addr = a
                                    THEN arch + 1 + 1 ELSE u[a]
      BY <2>3, <3>1, StoreSeen
    <3>3. \A a \in Addr : v[a] = n[a]
      BY <1>5, <1>10, <2>0, <2>3, <3>2
    <3>4. QED
      BY <1>4, <3>1, <3>2, <3>3
  <2>5. prog[arch].addr \in Addr /\ prog[arch + 1].addr \in Addr
    BY <1>0, <2>0
  <2>6. u[prog[arch + 1].addr] \in Value
    <3>1. arch + 1 \in Value
      BY <1>0, <2>0, Sizes DEF Op, Value
    <3>2. QED
      BY <1>7, <2>3, <2>5, <3>1
  <2>7. PICK r : r = Sequential!Found(reads, m, arch)
    OBVIOUS
  <2>8. r = [k \in Op |-> IF k = arch /\ prog[arch].kind = "load" THEN m[prog[arch].addr] ELSE reads[k]]
    <3>1. m[prog[arch].addr] \in Value
      BY <1>7, <2>5
    <3>2. QED
      BY <1>0, <2>0, <2>7, <3>1, LoadFound
  <2>9. r \in [Op -> Value]
    BY <1>0, <1>7, <2>5, <2>8
  <2>10. reads' = Sequential!Found(r, u, arch + 1)
    <3>1. Sequential!Found(r, u, arch + 1) =
            [k \in Op |-> IF k = arch + 1 /\ prog[arch + 1].kind = "load"
                          THEN u[prog[arch + 1].addr] ELSE r[k]]
      BY <2>0, <2>6, <2>9, LoadFound
    <3>2. prog[arch + 1].kind = "load" => Written(Rob!head_p1) = u[prog[arch + 1].addr]
      BY <1>2, <1>10, <2>3, <2>5, SecondReads
    <3>3. \A k \in Op : reads'[k] = IF k = arch + 1 /\ prog[arch + 1].kind = "load"
                                    THEN u[prog[arch + 1].addr] ELSE r[k]
      BY <1>6, <1>10, <2>0, <2>8, <3>2
    <3>4. QED
      BY <1>6, <3>1, <3>3
  <2>11. Sequential!Two
    BY <1>2, <1>3, <2>1, <2>2, <2>4, <2>7, <2>10 DEF Sequential!Two
  <2>12. QED
    BY <1>0, <2>11 DEF Sequential!Next
<1>11. QED
  BY <1>1, <1>8, <1>9, <1>10

LEMMA MappedInit == Init => Sequential!Init
<1>1. SUFFICES ASSUME Init PROVE Sequential!Init
  OBVIOUS
<1>2. arch = 0 /\ reads = [k \in Op |-> 0] /\ rtb = <<>> /\ unified_memory = [a \in Addr |-> 0]
  BY <1>1 DEF Init, RTB!Init
<1>3. rtb \in Seq(SQ!Entry) /\ Len(rtb) = 0
  BY <1>2, EmptySeq
<1>4. ASSUME NEW a \in Addr PROVE SeenMemory[a] = 0
  <2>1. IsSeen(rtb, unified_memory, a, 0)
    BY <1>2, <1>3 DEF IsSeen
  <2>2. QED
    BY <1>3, <2>1, SeenIs
<1>5. DOMAIN SeenMemory = Addr
  BY DEF SeenMemory
<1>6. QED
  BY <1>2, <1>4, <1>5 DEF Sequential!Init

LEMMA MappedStutter ==
  ASSUME UNCHANGED vars
  PROVE  UNCHANGED <<prog, arch, SeenMemory, reads>>
<1>1. prog' = prog /\ arch' = arch /\ reads' = reads /\ rtb' = rtb /\ unified_memory' = unified_memory
  BY DEF vars, lsqVars
<1>2. QED
  BY <1>1 DEF SeenMemory

LEMMA MappedNext ==
  QueueInv /\ ValuesInv /\ Explored /\ [Next]_vars => [Sequential!Next]_(Sequential!vars)
<1>1. SUFFICES ASSUME QueueInv, ValuesInv, Explored, [Next]_vars
               PROVE  Sequential!Next \/ UNCHANGED <<prog, arch, SeenMemory, reads>>
  BY DEF Sequential!vars
<1>2. CASE UNCHANGED vars
  BY <1>2, MappedStutter
<1>3. CASE Stopped
  BY <1>3, MappedStutter DEF Stopped
<1>4. CASE Cycle
  <2>1. PICK go \in BOOLEAN, p0 \in Choices(0), p1 \in Choices(1) :
          Clock(go, [w \in Ways |-> IF w = 0 THEN p0 ELSE p1])
    BY <1>4 DEF Cycle
  <2>2. ~PairLost
    BY <1>1 DEF Explored, UntilDefect
  <2>3. QED
    BY <1>1, <2>1, <2>2, CycleMapped
<1>5. QED
  BY <1>1, <1>2, <1>3, <1>4 DEF Next

(* LSQ.sv with its buffers is one memory on which loads and stores act one after the other, in
   program order: forwarding, loads ahead of stores, their re-execution and the delayed writes of
   the retire buffer do not show in what a committed load has read. *)
THEOREM MemPipeImplementsSeqMemory == Spec /\ []Explored => ImplementsSeqMemory
<1>1. Spec /\ []Explored => [](QueueInv /\ ValuesInv)
  BY MemPipeValues
<1>2. QED
  BY <1>1, MappedInit, MappedNext, PTL DEF Spec, ImplementsSeqMemory, Sequential!Spec
=============================================================================
