----------------------------- MODULE RobProofs -----------------------------
(***************************************************************************)
(* The ring invariant of the reorder buffer, and that the ring implements  *)
(* the commit queue, for every ring size, every set of instructions and    *)
(* every set of inputs.                                                    *)
(***************************************************************************)
EXTENDS RobRefinement, TLAPS

(* The registers and the inputs of a cycle from which a clock edge starts. *)
Edge(in) == RingInv /\ IsInput(in)

(* A pointer plus at most two is again a pointer. *)
LEMMA WrapType ==
  ASSUME NEW i \in Idx, NEW k \in 0 .. ROB_SIZE
  PROVE  Wrap(i + k) \in Idx
  BY RobAssumption DEF Idx, Wrap

(* The age of a slot counts from the head, and no two slots share one. *)
LEMMA AgeType ==
  ASSUME RingInv
  PROVE  /\ \A i \in Idx : Age(i) \in Idx
         /\ Age(head) = 0
         /\ head_p1 \in Idx /\ Age(head_p1) = 1
         /\ \A i \in Idx : Age(i) = 0 => i = head
         /\ \A i \in Idx : Age(i) = 1 => i = head_p1
  BY RobAssumption DEF RingInv, TypeOK, Idx, Age, head_p1, Wrap

(* Whatever completes or has completed is in flight. *)
LEMMA CompletedIsValid ==
  ASSUME RingInv, NEW cdb, NEW i \in Idx, Completed(cdb, i)
  PROVE  data[i].valid /\ Age(i) < entry_cnt
  BY DEF RingInv, WindowExact, NoStaleCompletion, Completed, CompletesNow

(* The retire enables of circular_buffer.sv pop exactly the slots that are at
   most one behind a completed head; they never pop an empty ring. *)
LEMMA RetireEnables ==
  ASSUME RingInv, NEW cdb
  PROVE  /\ reti_en2(cdb) => reti_en1(cdb)
         /\ reti_en1(cdb) => entry_cnt >= 1
         /\ reti_en2(cdb) => entry_cnt >= 2
         /\ reti_en1(cdb) <=> head_retire_rdy(cdb)
         /\ reti_en2(cdb) <=> head_p1_retire_rdy(cdb)
<1> USE RobAssumption
<1>1. head \in Idx /\ head_p1 \in Idx /\ Age(head) = 0 /\ Age(head_p1) = 1 /\ entry_cnt \in 0 .. ROB_SIZE
  BY AgeType DEF RingInv, TypeOK
<1>2. Completed(cdb, head) => entry_cnt >= 1
  BY <1>1, CompletedIsValid DEF Idx
<1>3. Completed(cdb, head_p1) => entry_cnt >= 2
  BY <1>1, CompletedIsValid DEF Idx
<1>4. QED
  BY <1>1, <1>2, <1>3 DEF reti_en1, reti_en2, head_retire_rdy, head_p1_retire_rdy

(* The stall of pipeline.sv makes the dispatch enables come in order. *)
LEMMA DispatchEnables ==
  ASSUME NEW in, Edge(in)
  PROVE  LET s == dp_stall(in.rs_full)
         IN  /\ dp_en2(in.din, s) => dp_en1(in.din, s)
             /\ dp_en1(in.din, s) => entry_cnt <= ROB_SIZE - 2 /\ in.din[0].valid
             /\ dp_en2(in.din, s) => in.din[1].valid
  BY RobAssumption
  DEF Edge, RingInv, TypeOK, IsInput, dp_en1, dp_en2, dp_stall, cb_full, cb_almost_full

(* So the case statement never takes its default with something enabled, and the
   pointers move by what was written and read. *)
LEMMA Movement ==
  ASSUME NEW in, Edge(in)
  PROVE  LET s == dp_stall(in.rs_full)
             n == Dispatches(in.din, s, in.cdb)
             r == Retires(in.din, s, in.cdb)
         IN  /\ n \in 0 .. 2 /\ entry_cnt + n <= ROB_SIZE
             /\ n >= 1 => in.din[0].valid
             /\ n = 2 => in.din[1].valid
             /\ r \in 0 .. 2 /\ r <= entry_cnt
             /\ r >= 1 <=> head_retire_rdy(in.cdb)
             /\ r = 2 <=> head_p1_retire_rdy(in.cdb)
<1> DEFINE s == dp_stall(in.rs_full)
<1>1. RingInv /\ entry_cnt \in 0 .. ROB_SIZE
  BY DEF Edge, RingInv, TypeOK
<1>2. Listed(in.din, s, in.cdb)
  BY <1>1, RetireEnables, DispatchEnables DEF Listed
<1>3. /\ Dispatches(in.din, s, in.cdb) = Count(dp_en1(in.din, s), dp_en2(in.din, s))
      /\ Retires(in.din, s, in.cdb) = Count(reti_en1(in.cdb), reti_en2(in.cdb))
  BY <1>2 DEF Dispatches, Retires
<1>4. QED
  BY <1>1, <1>3, RetireEnables, DispatchEnables, RobAssumption DEF Count

-----------------------------------------------------------------------------
LEMMA InitRing == Init => RingInv
  BY RobAssumption
  DEF Init, RingInv, TypeOK, WindowExact, NoStaleCompletion, Idx, Entry, Zero, Age, Wrap

LEMMA FlushRing == RingInv /\ Flush => RingInv'
  BY RobAssumption
  DEF Flush, RingInv, TypeOK, WindowExact, NoStaleCompletion, Idx, Entry, Zero, Age, Wrap

(* What a clock edge does to the slots, said by their age. *)
LEMMA SlotsAfter ==
  ASSUME NEW in, Edge(in), NEW i \in Idx
  PROVE  LET s == dp_stall(in.rs_full)
             n == Dispatches(in.din, s, in.cdb)
             r == Retires(in.din, s, in.cdb)
             slot == NextSlot(in.din, s, in.cdb, in.ex, in.sq, i)
         IN  /\ slot \in Entry
             /\ slot.valid <=> r <= Age(i) /\ Age(i) < entry_cnt + n
             /\ NextRetireTag(in.cdb, i) => slot.valid
             /\ NextRetireTag(in.cdb, i) \in BOOLEAN
<1> DEFINE s == dp_stall(in.rs_full)
           n == Dispatches(in.din, s, in.cdb)
           r == Retires(in.din, s, in.cdb)
           slot == NextSlot(in.din, s, in.cdb, in.ex, in.sq, i)
<1> USE RobAssumption
<1>1. /\ RingInv /\ IsInput(in) /\ entry_cnt \in 0 .. ROB_SIZE /\ data[i] \in Entry
      /\ retire_tag[i] \in BOOLEAN
      /\ data[i].valid <=> Age(i) < entry_cnt
  BY DEF Edge, RingInv, TypeOK, WindowExact
<1>2. /\ n \in 0 .. 2 /\ entry_cnt + n <= ROB_SIZE
      /\ n >= 1 => in.din[0].valid
      /\ n = 2 => in.din[1].valid
      /\ r \in 0 .. 2 /\ r <= entry_cnt
      /\ r >= 1 <=> reti_en1(in.cdb)
      /\ r = 2 <=> reti_en2(in.cdb)
  BY <1>1, Movement, RetireEnables
<1>3. Popped(in.cdb, i) <=> Age(i) < r
  BY <1>1, <1>2, AgeType DEF Popped, Idx
<1>4. /\ n >= 1 => (i = tail <=> Age(i) = entry_cnt)
      /\ n = 2 => (i = tail_p1 <=> Age(i) = entry_cnt + 1)
  BY <1>1, <1>2 DEF RingInv, TypeOK, WindowExact, Idx, Age, Wrap, tail_p1
<1>5. ASSUME NEW p \in Dispatched, p.valid
      PROVE  Filled(p) \in Entry /\ Filled(p).valid
  <2>1. p \in [valid : {TRUE}, ins : Instr, is_branch : BOOLEAN, rd_mem : BOOLEAN]
    <3>1. p # [valid |-> FALSE]
      BY <1>5
    <3>2. QED
      BY <3>1 DEF Dispatched
  <2>2. p.ins \in Instr /\ p.is_branch \in BOOLEAN /\ p.rd_mem \in BOOLEAN
    BY <2>1
  <2>3. QED
    BY <2>2 DEF Filled, Entry
<1>6. /\ data[i].valid => WithBranchResult(data[i], i, in.ex) \in Entry
      /\ WithBranchResult(data[i], i, in.ex).valid = data[i].valid
      /\ ~data[i].valid => WithBranchResult(data[i], i, in.ex) = data[i]
  BY <1>1 DEF WithBranchResult, Entry, IsInput, BranchDone, Ways
<1>7. DEFINE e == WithBranchResult(data[i], i, in.ex)
<1>8. WithViolation(e, i, in.sq) \in Entry /\ WithViolation(e, i, in.sq).valid = data[i].valid
  BY <1>1, <1>6 DEF WithViolation, Entry, IsInput, StoreDone, Ways
<1>9. slot \in Entry /\ (slot.valid <=> r <= Age(i) /\ Age(i) < entry_cnt + n)
  <2>1. CASE Popped(in.cdb, i)
    BY <2>1, <1>2, <1>3, AgeType, <1>1 DEF NextSlot, Zero, Entry, Idx
  <2>2. CASE ~Popped(in.cdb, i) /\ n >= 1 /\ i = tail
    BY <2>2, <1>1, <1>2, <1>3, <1>4, <1>5, AgeType DEF NextSlot, IsInput, Ways, Idx
  <2>3. CASE ~Popped(in.cdb, i) /\ n = 2 /\ i # tail /\ i = tail_p1
    BY <2>3, <1>1, <1>2, <1>3, <1>4, <1>5, AgeType DEF NextSlot, IsInput, Ways, Idx
  <2>4. CASE ~Popped(in.cdb, i) /\ ~(n >= 1 /\ i = tail) /\ ~(n = 2 /\ i = tail_p1)
    <3>1. slot = WithViolation(e, i, in.sq)
      BY <2>4 DEF NextSlot
    <3>2. slot.valid <=> Age(i) < entry_cnt
      <4>1. data[i].valid \in BOOLEAN
        BY <1>1 DEF Entry
      <4>2. slot.valid = data[i].valid
        BY <3>1, <1>8
      <4>3. QED
        BY <4>1, <4>2, <1>1
    <3>3. Age(i) \in Int /\ r <= Age(i)
      BY <2>4, <1>1, <1>2, <1>3, AgeType DEF Idx
    <3>4. Age(i) < entry_cnt <=> Age(i) < entry_cnt + n
      BY <2>4, <3>3, <1>1, <1>2, <1>4
    <3>5. QED
      BY <3>1, <3>2, <3>3, <3>4, <1>8
  <2>5. QED
    BY <2>1, <2>2, <2>3, <2>4
<1>10. NextRetireTag(in.cdb, i) => r <= Age(i) /\ Age(i) < entry_cnt
  <2>1. SUFFICES ASSUME NextRetireTag(in.cdb, i) PROVE r <= Age(i) /\ Age(i) < entry_cnt
    OBVIOUS
  <2>2. ~Popped(in.cdb, i)
    BY <2>1, <1>1, RetireEnables DEF NextRetireTag, Popped
  <2>3. QED
    BY <2>1, <2>2, <1>1, <1>2, <1>3, AgeType, CompletedIsValid DEF NextRetireTag, Idx
<1>11. QED
  BY <1>1, <1>2, <1>9, <1>10, AgeType DEF Idx, NextRetireTag

(* One clock edge keeps the ring, whatever the inputs. *)
LEMMA ClockRing ==
  ASSUME NEW in, Edge(in), Clock(in.din, dp_stall(in.rs_full), in.cdb, in.ex, in.sq)
  PROVE  RingInv'
<1> USE RobAssumption
<1> DEFINE s == dp_stall(in.rs_full)
           n == Dispatches(in.din, s, in.cdb)
           r == Retires(in.din, s, in.cdb)
<1>1. RingInv
  BY DEF Edge
<1>2. /\ n \in 0 .. 2 /\ entry_cnt + n <= ROB_SIZE
      /\ r \in 0 .. 2 /\ r <= entry_cnt
  BY Movement
<1>3. /\ head' = Wrap(head + r) /\ tail' = Wrap(tail + n) /\ entry_cnt' = entry_cnt + n - r
      /\ data' = [i \in Idx |-> NextSlot(in.din, s, in.cdb, in.ex, in.sq, i)]
      /\ retire_tag' = [i \in Idx |-> NextRetireTag(in.cdb, i)]
  BY DEF Clock
<1>4. \A i \in Idx :
        LET slot == NextSlot(in.din, s, in.cdb, in.ex, in.sq, i)
        IN  /\ slot \in Entry
            /\ slot.valid <=> r <= Age(i) /\ Age(i) < entry_cnt + n
            /\ NextRetireTag(in.cdb, i) => slot.valid
            /\ NextRetireTag(in.cdb, i) \in BOOLEAN
  BY SlotsAfter
<1> HIDE DEF s, n, r
<1>5. TypeOK'
  <2>1. head' \in Idx /\ tail' \in Idx /\ entry_cnt' \in 0 .. ROB_SIZE
    BY <1>1, <1>2, <1>3 DEF RingInv, TypeOK, Idx, Wrap
  <2>2. data' \in [Idx -> Entry] /\ retire_tag' \in [Idx -> BOOLEAN]
    BY <1>3, <1>4
  <2>3. QED
    BY <2>1, <2>2 DEF TypeOK
<1>6. \A i \in Idx : data'[i].valid <=> r <= Age(i) /\ Age(i) < entry_cnt + n
  BY <1>3, <1>4
<1>7. \A i \in Idx : Age(i)' < entry_cnt' <=> r <= Age(i) /\ Age(i) < entry_cnt + n
  BY <1>1, <1>2, <1>3 DEF RingInv, TypeOK, Idx, Age, Wrap
<1>8. tail' = Wrap(head' + entry_cnt')
  BY <1>1, <1>2, <1>3 DEF RingInv, TypeOK, WindowExact, Idx, Wrap
<1>9. NoStaleCompletion'
  BY <1>3, <1>4 DEF NoStaleCompletion
<1>10. QED
  BY <1>5, <1>6, <1>7, <1>8, <1>9 DEF RingInv, WindowExact

LEMMA CycleRing == RingInv /\ Cycle => RingInv'
<1> SUFFICES ASSUME RingInv, Cycle PROVE RingInv'
  OBVIOUS
<1>1. PICK in \in Inputs : Clock(in.din, dp_stall(in.rs_full), in.cdb, in.ex, in.sq)
  BY DEF Cycle
<1>2. QED
  BY <1>1, ClockRing, InputsAssumption DEF Edge

(* In every reachable state of the reorder buffer, whatever completions, branch
   results and store verdicts arrive, the registers keep their ranges, exactly
   the slots between head and tail are valid, and a completion is remembered
   only for an instruction in flight. *)
THEOREM RobRing == Spec => []RingInv
<1>1. RingInv /\ UNCHANGED vars => RingInv'
  BY DEF vars, RingInv, TypeOK, WindowExact, NoStaleCompletion, Age
<1>2. RingInv /\ [Next]_vars => RingInv'
  BY <1>1, CycleRing, FlushRing DEF Next
<1>3. QED
  BY InitRing, <1>2, PTL DEF Spec

(* The three invariants one by one, for every ring size, every content of the
   slots and every behaviour of the stages around the ring. *)
THEOREM RobTypeCorrect == Spec => []TypeOK
<1>1. RingInv => TypeOK
  BY DEF RingInv
<1>2. QED
  BY <1>1, RobRing, PTL

(* circular_buffer.sv never dispatches onto an instruction in flight and never
   retires an empty slot: the valid slots are exactly those from head up to tail. *)
THEOREM RobWindowExact == Spec => []WindowExact
<1>1. RingInv => WindowExact
  BY DEF RingInv
<1>2. QED
  BY <1>1, RobRing, PTL

(* No completion outlives its instruction in circular_buffer.sv. *)
THEOREM RobNoStaleCompletion == Spec => []NoStaleCompletion
<1>1. RingInv => NoStaleCompletion
  BY DEF RingInv
<1>2. QED
  BY <1>1, RobRing, PTL

-----------------------------------------------------------------------------
(* The slot of the k-th instruction of the queue. *)
Slot(k) == Wrap(head + k - 1)

LEMMA SlotAge ==
  ASSUME RingInv
  PROVE  /\ \A k \in 1 .. ROB_SIZE : Slot(k) \in Idx /\ Age(Slot(k)) = k - 1
         /\ \A i \in Idx : Age(i) + 1 \in 1 .. ROB_SIZE /\ Slot(Age(i) + 1) = i
  BY RobAssumption DEF RingInv, TypeOK, Idx, Slot, Age, Wrap

(* What the queue has at each place; a valid slot has all the fields of an instruction. *)
QueueExact ==
  /\ entry_cnt \in 0 .. ROB_SIZE
  /\ InFlight \in Seq(Abstract!Item)
  /\ Len(InFlight) = entry_cnt
  /\ \A k \in 1 .. entry_cnt :
       /\ Slot(k) \in Idx /\ data[Slot(k)].valid
       /\ InFlight[k] \in Abstract!Item
       /\ InFlight[k].ins = data[Slot(k)].ins
       /\ InFlight[k].is_branch = data[Slot(k)].is_branch
       /\ InFlight[k].rd_mem = data[Slot(k)].rd_mem
       /\ InFlight[k].taken = data[Slot(k)].ex_take_branch
       /\ InFlight[k].violated = data[Slot(k)].rd_mem_violation
       /\ InFlight[k].done = retire_tag[Slot(k)]

LEMMA QueueType == RingInv => QueueExact
<1> SUFFICES ASSUME RingInv PROVE QueueExact
  OBVIOUS
<1> USE RobAssumption
<1>1. entry_cnt \in 0 .. ROB_SIZE
  BY DEF RingInv, TypeOK
<1>2. ASSUME NEW k \in 1 .. entry_cnt
      PROVE  /\ Slot(k) \in Idx /\ data[Slot(k)].valid
             /\ InFlight[k] \in Abstract!Item
             /\ InFlight[k].ins = data[Slot(k)].ins
             /\ InFlight[k].is_branch = data[Slot(k)].is_branch
             /\ InFlight[k].rd_mem = data[Slot(k)].rd_mem
             /\ InFlight[k].taken = data[Slot(k)].ex_take_branch
             /\ InFlight[k].violated = data[Slot(k)].rd_mem_violation
             /\ InFlight[k].done = retire_tag[Slot(k)]
  <2> DEFINE e == data[Slot(k)]
  <2>1. Slot(k) \in Idx /\ Age(Slot(k)) < entry_cnt
    BY <1>1, SlotAge
  <2>2. e \in Entry /\ e.valid /\ retire_tag[Slot(k)] \in BOOLEAN
    BY <2>1 DEF RingInv, TypeOK, WindowExact
  <2>3. InFlight[k] = [ins |-> e.ins, is_branch |-> e.is_branch, rd_mem |-> e.rd_mem,
                       taken |-> e.ex_take_branch, violated |-> e.rd_mem_violation,
                       done |-> retire_tag[Slot(k)]]
    BY DEF InFlight, Slot
  <2> HIDE DEF e
  <2>4. /\ e.ins \in Instr /\ e.is_branch \in BOOLEAN /\ e.rd_mem \in BOOLEAN
        /\ e.ex_take_branch \in BOOLEAN /\ e.rd_mem_violation \in BOOLEAN
    BY <2>2 DEF Entry
  <2>5. QED
    BY <2>1, <2>2, <2>3, <2>4 DEF e, Abstract!Item
<1>3. InFlight = [k \in 1 .. entry_cnt |-> InFlight[k]]
  BY DEF InFlight
<1>4. InFlight \in [1 .. entry_cnt -> Abstract!Item]
  BY <1>2, <1>3
<1>5. QED
  BY <1>1, <1>2, <1>4 DEF QueueExact

LEMMA QueueTypeNext == RingInv' => QueueExact'
  BY QueueType, PTL

LEMMA RefinesInit == Init => Abstract!Init
  BY DEF Init, InFlight, Abstract!Init

LEMMA RefinesFlush == Flush => InFlight' = <<>>
  BY DEF Flush, InFlight

(* What a clock edge makes of a slot that stays, and of one that is filled. *)
LEMMA SlotKept ==
  ASSUME NEW in, Edge(in), NEW i \in Idx,
         Retires(in.din, dp_stall(in.rs_full), in.cdb) <= Age(i), Age(i) < entry_cnt
  PROVE  LET slot == NextSlot(in.din, dp_stall(in.rs_full), in.cdb, in.ex, in.sq, i)
         IN  /\ slot.ins = data[i].ins
             /\ slot.is_branch = data[i].is_branch /\ slot.rd_mem = data[i].rd_mem
             /\ slot.ex_take_branch # data[i].ex_take_branch => data[i].is_branch
             /\ slot.rd_mem_violation # data[i].rd_mem_violation => data[i].rd_mem
             /\ retire_tag[i] => NextRetireTag(in.cdb, i)
<1> DEFINE s == dp_stall(in.rs_full)
           m == Dispatches(in.din, s, in.cdb)
           n == Retires(in.din, s, in.cdb)
           e == WithBranchResult(data[i], i, in.ex)
<1> USE RobAssumption
<1>1. RingInv /\ entry_cnt \in 0 .. ROB_SIZE /\ data[i] \in Entry /\ data[i].valid
  BY DEF Edge, RingInv, TypeOK, WindowExact
<1>2. /\ n \in 0 .. 2 /\ m \in 0 .. 2 /\ entry_cnt + m <= ROB_SIZE /\ n <= Age(i)
      /\ n >= 1 <=> head_retire_rdy(in.cdb)
      /\ n = 2 <=> head_p1_retire_rdy(in.cdb)
  BY Movement
<1>3. ~(head_retire_rdy(in.cdb) /\ i = head) /\ ~(head_p1_retire_rdy(in.cdb) /\ i = head_p1)
  BY <1>1, <1>2, AgeType
<1>4. ~Popped(in.cdb, i)
  BY <1>1, <1>3, RetireEnables DEF Popped
<1>5. ~(m >= 1 /\ i = tail) /\ ~(m = 2 /\ i = tail_p1)
  BY <1>1, <1>2 DEF RingInv, TypeOK, WindowExact, Idx, Age, Wrap, tail_p1
<1>6. NextSlot(in.din, s, in.cdb, in.ex, in.sq, i) = WithViolation(e, i, in.sq)
  BY <1>4, <1>5 DEF NextSlot
<1>7. /\ e.ins = data[i].ins /\ e.is_branch = data[i].is_branch /\ e.rd_mem = data[i].rd_mem
      /\ e.rd_mem_violation = data[i].rd_mem_violation
      /\ e.ex_take_branch # data[i].ex_take_branch => data[i].is_branch
      /\ e \in Entry /\ e.valid
  BY <1>1 DEF WithBranchResult, Entry, Edge, IsInput, BranchDone, Ways
<1> HIDE DEF e
<1> DEFINE v == WithViolation(e, i, in.sq)
<1>8. /\ v.ins = e.ins /\ v.is_branch = e.is_branch /\ v.rd_mem = e.rd_mem
      /\ v.ex_take_branch = e.ex_take_branch
      /\ v.rd_mem_violation # e.rd_mem_violation => data[i].rd_mem
  BY <1>7 DEF WithViolation, Entry, Edge, IsInput, StoreDone, Ways
<1>9. retire_tag[i] => NextRetireTag(in.cdb, i)
  BY <1>3 DEF NextRetireTag, Completed
<1> HIDE DEF v
<1>10. QED
  BY <1>6, <1>7, <1>8, <1>9 DEF v

LEMMA SlotFilled ==
  ASSUME NEW in, Edge(in), NEW i \in Idx, entry_cnt <= Age(i),
         Age(i) < entry_cnt + Dispatches(in.din, dp_stall(in.rs_full), in.cdb)
  PROVE  LET slot == NextSlot(in.din, dp_stall(in.rs_full), in.cdb, in.ex, in.sq, i)
         IN  /\ slot = Filled(in.din[IF Age(i) = entry_cnt THEN 0 ELSE 1])
             /\ ~slot.ex_take_branch /\ ~slot.rd_mem_violation /\ ~NextRetireTag(in.cdb, i)
<1> DEFINE s == dp_stall(in.rs_full)
           m == Dispatches(in.din, s, in.cdb)
           n == Retires(in.din, s, in.cdb)
<1> USE RobAssumption
<1>1. RingInv /\ entry_cnt \in 0 .. ROB_SIZE /\ Age(i) \in Idx
  BY AgeType DEF Edge, RingInv, TypeOK
<1>2. /\ n \in 0 .. 2 /\ m \in 0 .. 2 /\ entry_cnt + m <= ROB_SIZE /\ n <= entry_cnt
      /\ n >= 1 <=> reti_en1(in.cdb)
      /\ n = 2 <=> reti_en2(in.cdb)
  BY <1>1, Movement, RetireEnables
<1>3. ~Popped(in.cdb, i)
  BY <1>1, <1>2, AgeType DEF Popped, Idx
<1>4. IF Age(i) = entry_cnt THEN m >= 1 /\ i = tail ELSE m = 2 /\ i # tail /\ i = tail_p1
  BY <1>1, <1>2 DEF RingInv, TypeOK, WindowExact, Idx, Age, Wrap, tail_p1
<1>5. NextSlot(in.din, s, in.cdb, in.ex, in.sq, i)
        = Filled(in.din[IF Age(i) = entry_cnt THEN 0 ELSE 1])
  BY <1>3, <1>4 DEF NextSlot
<1>6. ~NextRetireTag(in.cdb, i)
  BY <1>1, CompletedIsValid DEF NextRetireTag, Idx
<1>7. QED
  BY <1>5, <1>6 DEF Filled

(* What is no longer waiting to complete after a clock edge, and was before, is on one of
   the two completion buses. *)
LEMMA CompletesOnBus ==
  ASSUME NEW in, Edge(in), NEW i \in Idx, ~retire_tag[i],
         \/ Age(i) < Retires(in.din, dp_stall(in.rs_full), in.cdb)
         \/ NextRetireTag(in.cdb, i)
  PROVE  i = in.cdb[0].rob_idx \/ i = in.cdb[1].rob_idx
<1> DEFINE n == Retires(in.din, dp_stall(in.rs_full), in.cdb)
<1>1. RingInv /\ Age(i) \in Idx
  BY AgeType DEF Edge
<1>2. /\ n \in 0 .. 2
      /\ n >= 1 <=> head_retire_rdy(in.cdb)
      /\ n = 2 <=> head_p1_retire_rdy(in.cdb)
  BY Movement
<1>3. Age(i) < n => Completed(in.cdb, i)
  BY <1>1, <1>2, AgeType DEF Idx, head_retire_rdy, head_p1_retire_rdy
<1>4. Completed(in.cdb, i)
  BY <1>3 DEF NextRetireTag
<1>5. QED
  BY <1>4 DEF Completed, CompletesNow, Ways

(* Once the front is complete it leaves with the edge. *)
LEMMA FrontLeaves ==
  ASSUME NEW in, Edge(in), NEW i \in Idx,
         Age(i) = Retires(in.din, dp_stall(in.rs_full), in.cdb), Age(i) < 2
  PROVE  ~NextRetireTag(in.cdb, i)
<1> DEFINE n == Retires(in.din, dp_stall(in.rs_full), in.cdb)
<1>1. RingInv /\ Age(i) \in Idx
  BY AgeType DEF Edge
<1>2. /\ n \in 0 .. 2
      /\ n >= 1 <=> head_retire_rdy(in.cdb)
      /\ n = 2 <=> head_p1_retire_rdy(in.cdb)
  BY Movement
<1>3. n = Age(i) /\ (n = 0 => i = head) /\ (n = 1 => i = head_p1)
  BY <1>1, AgeType
<1>4. QED
  BY <1>2, <1>3 DEF NextRetireTag, head_retire_rdy, head_p1_retire_rdy

LEMMA RefinesCycle ==
  ASSUME RingInv, RingInv', Cycle
  PROVE  \E n, m \in 0 .. 2 : Abstract!Cycle(n, m)
<1> USE RobAssumption
<1>1. PICK in \in Inputs : Clock(in.din, dp_stall(in.rs_full), in.cdb, in.ex, in.sq)
  BY DEF Cycle
<1>2. Edge(in)
  BY InputsAssumption DEF Edge
<1> DEFINE s == dp_stall(in.rs_full)
<1>3. PICK n \in 0 .. 2, m \in 0 .. 2 :
        n = Retires(in.din, s, in.cdb) /\ m = Dispatches(in.din, s, in.cdb)
  BY <1>2, Movement
<1>4. /\ entry_cnt \in 0 .. ROB_SIZE /\ head \in Idx
      /\ entry_cnt + m <= ROB_SIZE /\ n <= entry_cnt
      /\ head' = Wrap(head + n) /\ entry_cnt' = entry_cnt + m - n
      /\ data' = [i \in Idx |-> NextSlot(in.din, s, in.cdb, in.ex, in.sq, i)]
      /\ retire_tag' = [i \in Idx |-> NextRetireTag(in.cdb, i)]
  BY <1>1, <1>2, <1>3, Movement DEF RingInv, TypeOK, Clock
<1> DEFINE next(i) == NextSlot(in.din, s, in.cdb, in.ex, in.sq, i)
<1> HIDE DEF s
<1>5. QueueExact /\ QueueExact'
  BY QueueType, QueueTypeNext
<1>6. ASSUME NEW k \in 1 .. ROB_SIZE, k > n
      PROVE  Slot(k - n)' = Slot(k)
  BY <1>4, <1>6 DEF Slot, Wrap, Idx
<1>7. ASSUME NEW k \in 1 .. entry_cnt + m, k > n
      PROVE  /\ k - n \in 1 .. entry_cnt'
             /\ Slot(k) \in Idx /\ Age(Slot(k)) = k - 1
             /\ InFlight'[k - n].ins = next(Slot(k)).ins
             /\ InFlight'[k - n].is_branch = next(Slot(k)).is_branch
             /\ InFlight'[k - n].rd_mem = next(Slot(k)).rd_mem
             /\ InFlight'[k - n].taken = next(Slot(k)).ex_take_branch
             /\ InFlight'[k - n].violated = next(Slot(k)).rd_mem_violation
             /\ InFlight'[k - n].done = NextRetireTag(in.cdb, Slot(k))
  <2>1. k \in 1 .. ROB_SIZE /\ k - n \in 1 .. entry_cnt'
    BY <1>4, <1>7
  <2>2. Slot(k) \in Idx /\ Age(Slot(k)) = k - 1 /\ Slot(k - n)' = Slot(k)
    BY <1>6, <1>7, <2>1, SlotAge
  <2> HIDE DEF next
  <2>3. data'[Slot(k)] = next(Slot(k)) /\ retire_tag'[Slot(k)] = NextRetireTag(in.cdb, Slot(k))
    BY <1>4, <2>2 DEF next
  <2>4. PICK j : j = k - n /\ j \in 1 .. entry_cnt'
    BY <2>1
  <2>5. /\ InFlight'[j].ins = data'[Slot(j)'].ins
        /\ InFlight'[j].is_branch = data'[Slot(j)'].is_branch
        /\ InFlight'[j].rd_mem = data'[Slot(j)'].rd_mem
        /\ InFlight'[j].taken = data'[Slot(j)'].ex_take_branch
        /\ InFlight'[j].violated = data'[Slot(j)'].rd_mem_violation
        /\ InFlight'[j].done = retire_tag'[Slot(j)']
    BY <1>5, <2>4 DEF QueueExact
  <2>6. QED
    BY <2>1, <2>2, <2>3, <2>4, <2>5
<1> HIDE DEF next
<1>8. ASSUME NEW k \in n + 1 .. Len(InFlight)
      PROVE  Abstract!Progress(InFlight[k], InFlight'[k - n])
  <2>1. k \in 1 .. entry_cnt /\ k \in 1 .. entry_cnt + m /\ k > n
    BY <1>4, <1>5, <1>8 DEF QueueExact
  <2>2. Slot(k) \in Idx /\ n <= Age(Slot(k)) /\ Age(Slot(k)) < entry_cnt
    BY <1>4, <1>7, <2>1
  <2> DEFINE i == Slot(k)
  <2>3. /\ next(i).ins = data[i].ins
        /\ next(i).is_branch = data[i].is_branch /\ next(i).rd_mem = data[i].rd_mem
        /\ next(i).ex_take_branch # data[i].ex_take_branch => data[i].is_branch
        /\ next(i).rd_mem_violation # data[i].rd_mem_violation => data[i].rd_mem
        /\ retire_tag[i] => NextRetireTag(in.cdb, i)
    BY <1>2, <1>3, <2>2, SlotKept DEF s, next
  <2>4. /\ InFlight[k].ins = data[i].ins
        /\ InFlight[k].is_branch = data[i].is_branch /\ InFlight[k].rd_mem = data[i].rd_mem
        /\ InFlight[k].taken = data[i].ex_take_branch
        /\ InFlight[k].violated = data[i].rd_mem_violation
        /\ InFlight[k].done = retire_tag[i]
    BY <1>5, <2>1 DEF QueueExact
  <2>5. QED
    BY <1>7, <2>1, <2>3, <2>4 DEF Abstract!Progress
<1>9. ASSUME NEW j \in Len(InFlight) - n + 1 .. Len(InFlight')
      PROVE  Abstract!Fresh(InFlight'[j])
  <2> DEFINE k == j + n
  <2>1. /\ j \in 1 .. entry_cnt' /\ k \in 1 .. entry_cnt + m /\ k > n /\ k - n = j
        /\ entry_cnt < k
    BY <1>4, <1>5, <1>9 DEF QueueExact
  <2> HIDE DEF k
  <2>2. Slot(k) \in Idx /\ entry_cnt <= Age(Slot(k)) /\ Age(Slot(k)) < entry_cnt + m
    BY <1>4, <1>7, <2>1
  <2>3. /\ ~next(Slot(k)).ex_take_branch /\ ~next(Slot(k)).rd_mem_violation
        /\ ~NextRetireTag(in.cdb, Slot(k))
    BY <1>2, <1>3, <2>2, SlotFilled DEF s, next
  <2>4. InFlight'[j] \in Abstract!Item
    BY <1>5, <2>1 DEF QueueExact
  <2>5. QED
    BY <1>7, <2>1, <2>3, <2>4 DEF Abstract!Fresh, Abstract!Item
<1>10. \A k \in Abstract!CompleteNow(n) :
         /\ k \in 1 .. entry_cnt
         /\ k = Age(in.cdb[0].rob_idx) + 1 \/ k = Age(in.cdb[1].rob_idx) + 1
  <2>1. SUFFICES ASSUME NEW k \in Abstract!CompleteNow(n)
                 PROVE  /\ k \in 1 .. entry_cnt
                        /\ k = Age(in.cdb[0].rob_idx) + 1 \/ k = Age(in.cdb[1].rob_idx) + 1
    OBVIOUS
  <2>2. k \in 1 .. entry_cnt /\ ~InFlight[k].done /\ (k <= n \/ InFlight'[k - n].done)
    BY <1>5, <2>1 DEF QueueExact, Abstract!CompleteNow
  <2>3. Slot(k) \in Idx /\ Age(Slot(k)) = k - 1 /\ ~retire_tag[Slot(k)]
    <3>1. k \in 1 .. ROB_SIZE /\ InFlight[k].done = retire_tag[Slot(k)]
      BY <1>4, <1>5, <2>2 DEF QueueExact
    <3>2. QED
      BY <2>2, <3>1, SlotAge
  <2>4. Age(Slot(k)) < n \/ NextRetireTag(in.cdb, Slot(k))
    BY <1>4, <1>7, <2>2, <2>3
  <2>5. Slot(k) = in.cdb[0].rob_idx \/ Slot(k) = in.cdb[1].rob_idx
    BY <1>2, <1>3, <2>3, <2>4, CompletesOnBus DEF s
  <2>6. QED
    BY <2>2, <2>3, <2>5
<1>11. ASSUME n < 2, n < Len(InFlight)
       PROVE  ~InFlight'[1].done
  <2>1. n + 1 \in 1 .. entry_cnt + m /\ n + 1 > n /\ (n + 1) - n = 1
    BY <1>4, <1>5, <1>11 DEF QueueExact
  <2>2. Slot(n + 1) \in Idx /\ Age(Slot(n + 1)) = n
    BY <1>7, <2>1
  <2>3. ~NextRetireTag(in.cdb, Slot(n + 1))
    BY <1>2, <1>3, <1>11, <2>2, FrontLeaves DEF s
  <2>4. QED
    BY <1>7, <2>1, <2>3
<1>12. Abstract!Cycle(n, m)
  <2>1. Len(InFlight) = entry_cnt /\ Len(InFlight') = entry_cnt'
    BY <1>5 DEF QueueExact
  <2>2. /\ n <= Len(InFlight) /\ Len(InFlight) + m <= ROB_SIZE
        /\ Len(InFlight') = Len(InFlight) - n + m
    BY <1>4, <2>1
  <2>3. \A i, j, k \in Abstract!CompleteNow(n) : i = j \/ j = k \/ i = k
    BY <1>10
  <2>4. QED
    BY <1>8, <1>9, <1>11, <2>2, <2>3 DEF Abstract!Cycle
<1>13. QED
  BY <1>12

(* rob.sv implements the commit queue: whatever is dispatched, completes, is found taken or
   violated, stalls or is flushed, instructions leave in order, each once and only when
   completed, and none waits once the front is complete. *)
THEOREM RobImplementsCommitQueue == Spec => ImplementsCommitQueue
<1>1. RingInv /\ RingInv' /\ [Next]_vars => [Abstract!Next]_InFlight
  <2>1. SUFFICES ASSUME RingInv, RingInv', [Next]_vars
                 PROVE  [Abstract!Next]_InFlight
    OBVIOUS
  <2>2. CASE Cycle
    BY <2>1, <2>2, RefinesCycle DEF Abstract!Next
  <2>3. CASE Flush
    BY <2>3, RefinesFlush DEF Abstract!Next
  <2>4. CASE UNCHANGED vars
    BY <2>4 DEF vars, InFlight
  <2>5. QED
    BY <2>1, <2>2, <2>3, <2>4 DEF Next
<1>2. QED
  BY RobRing, RefinesInit, <1>1, PTL DEF Spec, ImplementsCommitQueue, Abstract!Spec
=============================================================================
