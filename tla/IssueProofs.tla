---------------------------- MODULE IssueProofs ----------------------------
(***************************************************************************)
(* Between dispatch and completion: every instruction in flight is in one  *)
(* place, and whatever is executed has read what its producers wrote.  For *)
(* every size of ring, banks and multipliers and every program, in the     *)
(* behaviours in which none of the three defects of MCIssue strikes.       *)
(***************************************************************************)
EXTENDS MCIssue, FiniteSetTheorems, WellFoundedInduction, TLAPS

R == INSTANCE RobProofs WITH Instr <- [pc : Nat, pdest : Tag], Inputs <- {}

Entry == 0 .. NUM_RS_ENTRIES - 1
Cm    == {"alu", "branch", "store"}

-----------------------------------------------------------------------------
(* The places an instruction in flight can be in, and who is in them. *)
InStation(w, k) == <<"station", w, k>>
AtPort(w)       == <<"port", w, 0>>
InStage(w, k)   == <<"stage", w, k>>
InBuffer(k)     == <<"buffer", 0, k>>
OnBus(w)        == <<"bus", w, 0>>
Completed       == <<"completed", 0, 0>>

In(p, i) ==
  \/ \E w \in Ways, k \in Entry :
       p = InStation(w, k) /\ rs[w][k].busy /\ rs[w][k].op.rob_idx = i
  \/ \E w \in Ways : p = AtPort(w) /\ is_ex[w].valid /\ is_ex[w].rob_idx = i
  \/ \E w \in Ways, k \in 1 .. STAGES :
       p = InStage(w, k) /\ mult_dones[w][k] /\ mult_chain[w][k].rob_idx = i
  \/ \E k \in 1 .. Len(load_buffer) : p = InBuffer(k) /\ load_buffer[k].rob_idx = i
  \/ \E w \in Ways : p = OnBus(w) /\ ex_cm[w].valid /\ ex_cm[w].rob_idx = i
  \/ p = Completed /\ i \in Slot /\ retire_tag[i]

(* Everything in flight is somewhere, in one place, and nothing else is anywhere. *)
Placed ==
  /\ \A i \in Slot : data[i].valid => \E p : In(p, i)
  /\ \A p, i : In(p, i) => i \in Slot /\ data[i].valid
  /\ \A p, q, i : In(p, i) /\ In(q, i) => p = q

(* Places hold valid packets, and an idle port the bubble. *)
Packets ==
  /\ \A w \in Ways, k \in Entry : rs[w][k].busy => rs[w][k].op.valid
  /\ \A w \in Ways, k \in 1 .. STAGES : mult_dones[w][k] => mult_chain[w][k].valid
  /\ \A k \in 1 .. Len(load_buffer) : load_buffer[k].valid
  /\ \A w \in Ways : is_ex[w].valid \/ is_ex[w] = Bubble

(* The register a packet names is that of its instruction. *)
TagsOwn ==
  /\ \A w \in Ways, k \in Entry :
       rs[w][k].busy => rs[w][k].op.pdest = data[rs[w][k].op.rob_idx].ins.pdest
  /\ \A w \in Ways : is_ex[w].valid => is_ex[w].pdest = data[is_ex[w].rob_idx].ins.pdest
  /\ \A w \in Ways, k \in 1 .. STAGES :
       mult_dones[w][k] => mult_chain[w][k].tag = data[mult_chain[w][k].rob_idx].ins.pdest
  /\ \A k \in 1 .. Len(load_buffer) :
       load_buffer[k].tag = data[load_buffer[k].rob_idx].ins.pdest
  /\ \A w \in Ways : ex_cm[w].valid => ex_cm[w].tag = data[ex_cm[w].rob_idx].ins.pdest

(* Every result on its way is right. *)
ValuesRight ==
  /\ \A w \in Ways : ex_cm[w].value /\ \A k \in 1 .. DELAY : mult_chain[w][k].value
  /\ \A k \in 1 .. Len(load_buffer) : load_buffer[k].value

(* A register has its value when a ready bit says so, when its instruction has completed,
   and when it is read. *)
HasValue(r) == r = ZERO_PREG \/ registers[r]
OperandsWritten ==
  /\ \A w \in Ways : HasValue(is_ex[w].prega) /\ HasValue(is_ex[w].pregb)
  /\ \A w \in Ways, k \in Entry : rs[w][k].busy =>
       /\ rs[w][k].prega_ready => HasValue(rs[w][k].op.prega)
       /\ rs[w][k].pregb_ready => HasValue(rs[w][k].op.pregb)
  /\ \A i \in Slot : retire_tag[i] => HasValue(data[i].ins.pdest)

(* How many registers ago r was handed out. *)
Back(r) == IF r < next_preg THEN next_preg - r ELSE next_preg - r + 2 * ROB_SIZE

(* Registers in use are not old enough to come round. *)
Recent(r, n) == r # ZERO_PREG => Back(r) <= n
RecentOperands(op) ==
  LET n == ROB_SIZE - 1 + entry_cnt - R!Age(op.rob_idx)
  IN  Recent(op.prega, n) /\ Recent(op.pregb, n)
RegistersRecent ==
  /\ \A i \in Slot : data[i].valid => Recent(data[i].ins.pdest, entry_cnt - R!Age(i))
  /\ \A w \in Ways, k \in Entry : rs[w][k].busy => RecentOperands(rs[w][k].op)
  /\ \A w \in Ways : is_ex[w].valid => RecentOperands(is_ex[w])

IssueInv ==
  /\ TypeOK /\ R!RingInv /\ Placed /\ Packets /\ TagsOwn
  /\ ValuesRight /\ OperandsWritten /\ RegistersRecent

-----------------------------------------------------------------------------
LEMMA Sizes ==
  /\ ROB_SIZE \in Nat /\ ROB_SIZE >= 2 /\ NUM_RS_ENTRIES \in Nat \ {0}
  /\ STAGES \in Nat \ {0} /\ DELAY \in Nat \ {0}
  BY IssueAssumption

LEMMA RobParams == R!RobAssumption /\ R!InputsAssumption
  BY Sizes DEF R!RobAssumption, R!InputsAssumption

LEMMA Sets == Slot = R!Idx /\ Ways = R!Ways /\ Ways = {0, 1} /\ 0 \in Slot
  BY Sizes DEF Slot, Ways, R!Idx, R!Ways

(* The ring as Issue and as RobProofs see it. *)
LEMMA SameRing ==
  /\ \A f : R!dp_stall(f) = Rob!dp_stall(f)
  /\ \A c, i : R!Completed(c, i) = Rob!Completed(c, i)
  /\ R!tail_p1 = Rob!tail_p1 /\ R!TypeOK = Rob!TypeOK
  BY DEF R!dp_stall, Rob!dp_stall, R!cb_full, R!cb_almost_full, Rob!cb_full, Rob!cb_almost_full,
         R!Completed, R!CompletesNow, R!Ways, Rob!Completed, Rob!CompletesNow, Rob!Ways,
         R!tail_p1, R!Wrap, Rob!tail_p1, Rob!Wrap, R!TypeOK, Rob!TypeOK, R!Idx, Rob!Idx,
         R!Entry, Rob!Entry

LEMMA SameDispatches ==
  \A d, s, c : R!Dispatches(d, s, c) = Rob!Dispatches(d, s, c)
  BY DEF R!Dispatches, R!Listed, R!Count, R!dp_en1, R!dp_en2, R!reti_en1, R!reti_en2,
         R!cb_full, R!cb_almost_full, R!head_retire_rdy, R!head_p1_retire_rdy, R!Completed,
         R!CompletesNow, R!head_p1, R!Wrap, R!Ways,
         Rob!Dispatches, Rob!Listed, Rob!Count, Rob!dp_en1, Rob!dp_en2, Rob!reti_en1,
         Rob!reti_en2, Rob!cb_full, Rob!cb_almost_full, Rob!head_retire_rdy,
         Rob!head_p1_retire_rdy, Rob!Completed, Rob!CompletesNow, Rob!head_p1, Rob!Wrap, Rob!Ways

LEMMA SameClock ==
  ASSUME NEW d, NEW s, NEW c, NEW e, NEW q
  PROVE  Rob!Clock(d, s, c, e, q) <=> R!Clock(d, s, c, e, q)
  BY DEF R!Clock, R!Dispatches, R!Retires, R!Listed, R!Count, R!dp_en1, R!dp_en2, R!reti_en1,
         R!reti_en2, R!cb_full, R!cb_almost_full, R!NextSlot, R!NextRetireTag, R!WithViolation,
         R!WithBranchResult, R!Popped, R!Filled, R!Zero, R!Idx, R!tail_p1, R!head_retire_rdy,
         R!head_p1_retire_rdy, R!Completed, R!CompletesNow, R!head_p1, R!Wrap, R!Ways,
         Rob!Clock, Rob!Dispatches, Rob!Retires, Rob!Listed, Rob!Count, Rob!dp_en1, Rob!dp_en2,
         Rob!reti_en1, Rob!reti_en2, Rob!cb_full, Rob!cb_almost_full, Rob!NextSlot,
         Rob!NextRetireTag, Rob!WithViolation, Rob!WithBranchResult, Rob!Popped, Rob!Filled,
         Rob!Zero, Rob!Idx, Rob!tail_p1, Rob!head_retire_rdy, Rob!head_p1_retire_rdy,
         Rob!Completed, Rob!CompletesNow, Rob!head_p1, Rob!Wrap, Rob!Ways

LEMMA SameFlush == Rob!Flush <=> R!Flush
  BY DEF Rob!Flush, R!Flush, Rob!Idx, R!Idx, Rob!Zero, R!Zero

-----------------------------------------------------------------------------
(* The priority selector grants one of its requests. *)
LEMMA MaxIn ==
  ASSUME NEW S, S \subseteq Entry, S # {}
  PROVE  (CHOOSE x \in S : \A y \in S : x >= y) \in S
<1> DEFINE T == {NUM_RS_ENTRIES - i : i \in S}
<1>1. \A i \in S : i \in Int /\ NUM_RS_ENTRIES - i \in Nat
  BY Sizes DEF Entry
<1>2. T \subseteq Nat /\ T # {}
  BY <1>1
<1>3. PICK x \in T : \A y \in T : ~(<<y, x>> \in OpToRel(<, Nat))
  <2> HIDE DEF T
  <2>1. QED
    BY <1>2, WFMin, NatLessThanWellFounded
<1>4. ASSUME NEW y \in T PROVE x <= y
  <2>1. <<y, x>> \in Nat \X Nat /\ <<y, x>>[1] = y /\ <<y, x>>[2] = x
    BY <1>2
  <2>2. ~(y < x)
    BY <1>3, <2>1 DEF OpToRel
  <2>3. QED
    BY <1>2, <2>2
<1>5. PICK i \in S : x = NUM_RS_ENTRIES - i
  OBVIOUS
<1>6. ASSUME NEW j \in S PROVE i >= j
  <2>1. x <= NUM_RS_ENTRIES - j
    BY <1>4
  <2>2. QED
    BY <1>1, <1>5, <2>1, Sizes
<1>7. QED
  BY <1>6

LEMMA Grants ==
  ASSUME NEW w \in Ways, NEW S, S \subseteq Entry
  PROVE  /\ Bank(w)!ps(S) \subseteq S
         /\ S # {} => \E k \in S : Bank(w)!ps(S) = {k}
  BY MaxIn DEF Bank!ps, Bank!Max

(* What a bank issues: nothing, or an entry that has both operands. *)
Gone(st, w) == Bank(w)!entry_issue(cdb, ex_stall(w), st[1 - w])

LEMMA Issues ==
  ASSUME NEW w \in Ways, NEW s, NEW l
  PROVE  LET G == Bank(w)!entry_issue(cdb, s, l)
         IN  /\ G = {} \/ \E k \in Entry : G = {k} /\ Bank(w)!preg_ready(k, cdb)
             /\ s => G = {}
<1> DEFINE S == Bank(w)!entry_sel(cdb, l)
           Of(c) == {i \in Entry : rs[w][i].op.class = c /\ Bank(w)!preg_ready(i, cdb)}
           C == Classes \ (IF l THEN {"load"} ELSE {})
<1>1. S = UNION {Bank(w)!ps(Of(c)) : c \in C}
  BY DEF Bank!entry_sel, Bank!Index, Entry, Bank!Classes, Classes
<1>2. \A c \in C : Bank(w)!ps(Of(c)) \subseteq Of(c)
  BY Grants
<1> HIDE DEF S, C
<1>3. \A k \in S : k \in Entry /\ Bank(w)!preg_ready(k, cdb)
  BY <1>1, <1>2
<1>4. S \subseteq Entry
  BY <1>3
<1>5. S # {} => \E k \in S : Bank(w)!ps(S) = {k}
  BY <1>4, Grants
<1>6. S = {} => Bank(w)!ps(S) = {}
  BY DEF Bank!ps
<1>7. Bank(w)!entry_issue(cdb, s, l) = IF s THEN {} ELSE Bank(w)!ps(S)
  BY DEF Bank!entry_issue, S
<1>8. QED
  BY <1>3, <1>5, <1>6, <1>7

-----------------------------------------------------------------------------
(* The ring gets inputs it is made for. *)
RingInput(n, taken) ==
  [din |-> rn_dp(n), rs_full |-> \E w \in Ways : Bank(w)!rs_full, cdb |-> cdb,
   ex |-> branch_done(taken), sq |-> NoVerdict]

LEMMA ProgType ==
  ASSUME TypeOK
  PROVE  /\ Len(prog) \in Nat \ {0} /\ fpc \in 0 .. Len(prog) - 1
         /\ \A pc \in Nat : At(pc) \in [class : Classes, hit : BOOLEAN, a : Nat, b : Nat]
<1>1. prog \in Programs /\ fpc \in 0 .. Len(prog) - 1
  BY DEF TypeOK
<1>2. prog # <<>> /\ prog \in Seq([class : Classes, hit : BOOLEAN, a : Nat, b : Nat])
  BY <1>1, IssueAssumption
<1>3. Len(prog) \in Nat \ {0}
  BY <1>2
<1>4. ASSUME NEW pc \in Nat
      PROVE  (pc % Len(prog)) + 1 \in 1 .. Len(prog)
  BY <1>3
<1> DEFINE Item == [class : Classes, hit : BOOLEAN, a : Nat, b : Nat]
<1>5. prog \in [1 .. Len(prog) -> Item]
  <2>1. ASSUME NEW T, NEW s \in Seq(T)
        PROVE  s \in [1 .. Len(s) -> T]
    OBVIOUS
  <2>2. prog \in Seq(Item)
    BY <1>2
  <2> HIDE DEF Item
  <2>3. QED
    BY <2>1, <2>2
<1> HIDE DEF Item
<1>6. \A pc \in Nat : At(pc) \in Item
  BY <1>4, <1>5 DEF At
<1>7. QED
  BY <1>1, <1>3, <1>6 DEF Item

LEMMA DivModUnique ==
  ASSUME NEW n \in Nat \ {0}, NEW q \in Int, NEW r \in 0 .. n - 1
  PROVE  (n * q + r) % n = r
  OBVIOUS

LEMMA Modulus ==
  /\ \A M \in Nat \ {0}, x \in Nat : x % M \in 0 .. M - 1
  /\ \A M \in Nat \ {0}, x \in Nat : x < 2 * M => x % M = IF x < M THEN x ELSE x - M
  /\ \A M \in Nat \ {0}, x \in Int : -M <= x /\ x < 0 => x % M = x + M
<1>1. ASSUME NEW M \in Nat \ {0}, NEW x \in Nat
      PROVE  x % M \in 0 .. M - 1
  OBVIOUS
<1>2. ASSUME NEW M \in Nat \ {0}, NEW x \in Nat, x < 2 * M
      PROVE  x % M = IF x < M THEN x ELSE x - M
  <2>1. CASE x < M
    <3>1. x = M * 0 + x /\ x \in 0 .. M - 1
      BY <2>1
    <3>2. (M * 0 + x) % M = x
      BY <3>1, DivModUnique
    <3>3. QED
      BY <2>1, <3>1, <3>2
  <2>2. CASE ~(x < M)
    <3>1. x = M * 1 + (x - M) /\ x - M \in 0 .. M - 1
      BY <1>2, <2>2
    <3>2. (M * 1 + (x - M)) % M = x - M
      BY <3>1, DivModUnique
    <3>3. QED
      BY <2>2, <3>1, <3>2
  <2>3. QED
    BY <2>1, <2>2
<1>3. ASSUME NEW M \in Nat \ {0}, NEW x \in Int, -M <= x, x < 0
      PROVE  x % M = x + M
  <2>1. x = M * (-1) + (x + M) /\ x + M \in 0 .. M - 1
    BY <1>3
  <2>2. (M * (-1) + (x + M)) % M = x + M
    BY <2>1, DivModUnique
  <2>3. QED
    BY <2>1, <2>2
<1>4. QED
  BY <1>1, <1>2, <1>3

LEMMA RingPregType ==
  ASSUME TypeOK
  PROVE  /\ \A k \in 0 .. 2 : RingPreg(k) \in Preg
         /\ RingPreg(0) = next_preg
         /\ \A k \in 0 .. 2 : RingPreg(k) = IF next_preg + k <= 2 * ROB_SIZE THEN next_preg + k
                                            ELSE next_preg + k - 2 * ROB_SIZE
<1> DEFINE N == 2 * ROB_SIZE
<1>1. N \in Nat /\ N >= 4 /\ next_preg \in 1 .. N /\ Preg = 1 .. N
  BY Sizes DEF TypeOK, Preg
<1>3. \A k \in 0 .. 2 : RingPreg(k) = ((next_preg + k - 1) % N) + 1
  BY DEF RingPreg
<1> HIDE DEF N
<1>4. ASSUME NEW k \in 0 .. 2
      PROVE  RingPreg(k) = IF next_preg + k <= N THEN next_preg + k ELSE next_preg + k - N
  <2>1. PICK x \in Nat : x = next_preg + k - 1
    BY <1>1
  <2>2. x < 2 * N /\ N \in Nat \ {0}
    BY <1>1, <2>1
  <2>3. x % N = IF x < N THEN x ELSE x - N
    BY <2>1, <2>2, Modulus
  <2>4. RingPreg(k) = (x % N) + 1
    BY <1>3, <2>1
  <2>5. QED
    BY <1>1, <2>1, <2>3, <2>4
<1>5. QED
  BY <1>1, <1>4 DEF N

LEMMA PdestType ==
  ASSUME TypeOK, NEW w \in Ways
  PROVE  PdestOf(w) \in Tag
  BY RingPregType DEF PdestOf, Tag

LEMMA RenameTyped ==
  ASSUME TypeOK, NEW n \in 0 .. 2
  PROVE  /\ rn_dp(n) \in [Ways -> R!Dispatched]
         /\ \A w \in Ways : rn_dp(n)[w].valid <=> w < n
         /\ \A w \in Ways : w < n => rn_dp(n)[w].ins.pdest = PdestOf(w)
<1>1. ASSUME NEW w \in Ways
      PROVE  /\ rn_dp(n)[w] \in R!Dispatched
             /\ rn_dp(n)[w].valid <=> w < n
             /\ w < n => rn_dp(n)[w].ins.pdest = PdestOf(w)
  <2>1. CASE w >= n
    BY <2>1, Sets DEF rn_dp, R!Dispatched
  <2>2. CASE ~(w >= n)
    <3>1. PICK x \in Nat : x = (fpc + w) % Len(prog)
      <4>1. fpc + w \in Nat /\ Len(prog) \in Nat \ {0}
        <5>1. w \in Nat
          BY Sets
        <5>2. fpc \in Nat /\ Len(prog) \in Nat \ {0}
          BY ProgType
        <5>3. QED
          BY <5>1, <5>2
      <4>2. (fpc + w) % Len(prog) \in 0 .. Len(prog) - 1
        BY <4>1, Modulus
      <4>3. \A x \in 0 .. Len(prog) - 1 : x \in Nat
        OBVIOUS
      <4>4. QED
        BY <4>2, <4>3
    <3>2. PICK b \in BOOLEAN, l \in BOOLEAN :
            b = (At(fpc + w).class = "branch") /\ l = (At(fpc + w).class = "load")
      OBVIOUS
    <3>3. rn_dp(n)[w] = [valid |-> TRUE, ins |-> [pc |-> x, pdest |-> PdestOf(w)],
                         is_branch |-> b, rd_mem |-> l]
      BY <2>2, <3>1, <3>2 DEF rn_dp
    <3>4. w < n
      BY <2>2, Sets
    <3>5. QED
      BY <3>1, <3>2, <3>3, <3>4, PdestType DEF R!Dispatched
  <2>3. QED
    BY <2>1, <2>2
<1>2. QED
  BY <1>1 DEF rn_dp

LEMMA InputTyped ==
  ASSUME IssueInv, NEW n \in 0 .. 2, NEW taken \in SUBSET Branches
  PROVE  R!Edge(RingInput(n, taken))
<1> DEFINE in == RingInput(n, taken)
<1>1. in.din \in [R!Ways -> R!Dispatched] /\ (in.din[1].valid => in.din[0].valid)
  BY RenameTyped, Sets DEF RingInput, IssueInv
<1>2. in.rs_full \in BOOLEAN
  BY DEF RingInput
<1>3. \A w \in R!Ways :
        [valid |-> in.cdb[w].valid, rob_idx |-> in.cdb[w].rob_idx] \in R!Completions
  BY Sets DEF RingInput, cdb, IssueInv, TypeOK, Results, R!Completions
<1>4. in.ex \in [R!Ways -> R!BranchDone]
  <2>1. \A w \in Ways : branch_done(taken)[w] \in R!BranchDone
    <3>1. SUFFICES ASSUME NEW w \in Ways PROVE branch_done(taken)[w] \in R!BranchDone
      OBVIOUS
    <3>2. PICK b \in BOOLEAN, t \in BOOLEAN :
            /\ b = (Is(w, "branch") /\ ~mult_done(w) /\ ~LQ_FU_out[w].valid)
            /\ t = (w \in taken)
      <4>1. (Is(w, "branch") /\ ~mult_done(w) /\ ~LQ_FU_out[w].valid) \in BOOLEAN
        BY DEF Is
      <4>2. (w \in taken) \in BOOLEAN
        OBVIOUS
      <4>3. QED
        BY <4>1, <4>2, Zenon
    <3>3. branch_done(taken)[w] = [branch_done |-> b, rob_idx |-> is_ex[w].rob_idx,
                                   take_branch |-> t]
      BY <3>2 DEF branch_done
    <3>4. is_ex[w].rob_idx \in Slot
      BY DEF IssueInv, TypeOK, Op
    <3>5. QED
      BY <3>3, <3>4, Sets DEF R!BranchDone
  <2>2. QED
    BY <2>1, Sets DEF RingInput, branch_done
<1>5. in.sq \in [R!Ways -> R!StoreDone]
  BY Sets DEF RingInput, NoVerdict, R!StoreDone
<1>6. QED
  BY <1>1, <1>2, <1>3, <1>4, <1>5 DEF R!Edge, R!IsInput, IssueInv

(* How many of n instructions enter. *)
Entering(n) == IF dp_stall THEN 0 ELSE n

LEMMA DispatchCount ==
  ASSUME IssueInv, NEW n \in 0 .. 2
  PROVE  /\ Rob!Dispatches(rn_dp(n), dp_stall, cdb) = Entering(n)
         /\ Entering(n) \in 0 .. 2
         /\ Entering(n) >= 1 => ~dp_stall /\ entry_cnt + 2 <= ROB_SIZE
                                /\ \A w \in Ways : ~Bank(w)!rs_full
<1> DEFINE f == \E w \in Ways : Bank(w)!rs_full
<1>1. dp_stall = R!dp_stall(f)
  BY SameRing DEF dp_stall
<1>2. (rn_dp(n)[0].valid <=> 0 < n) /\ (rn_dp(n)[1].valid <=> 1 < n)
  BY RenameTyped, Sets DEF IssueInv
<1>3. entry_cnt \in 0 .. ROB_SIZE
  BY DEF IssueInv, R!RingInv, R!TypeOK
<1>4. ~dp_stall => ~R!cb_full /\ ~R!cb_almost_full /\ entry_cnt + 2 <= ROB_SIZE /\ ~f
  BY <1>3, Sizes DEF dp_stall, Rob!dp_stall, R!cb_full, R!cb_almost_full, Rob!cb_full,
                     Rob!cb_almost_full
<1>5. R!reti_en2(cdb) => R!reti_en1(cdb)
  BY R!RetireEnables, RobParams DEF IssueInv
<1> HIDE DEF f
<1>6. R!dp_en1(rn_dp(n), dp_stall) <=> ~dp_stall /\ n >= 1
  BY <1>2, <1>4 DEF R!dp_en1
<1>7. R!dp_en2(rn_dp(n), dp_stall) <=> ~dp_stall /\ n >= 2
  BY <1>2, <1>4 DEF R!dp_en2
<1>8. R!Dispatches(rn_dp(n), dp_stall, cdb) = Entering(n)
  BY <1>5, <1>6, <1>7 DEF R!Dispatches, R!Listed, R!Count, Entering
<1>9. QED
  BY <1>4, <1>8, SameDispatches DEF Entering, f

(* What an edge without a flush does to the ring: r instructions leave, m enter. *)
Moves(n, r) ==
  LET m == Entering(n)
  IN  /\ r \in 0 .. 2 /\ r <= entry_cnt /\ entry_cnt + m <= ROB_SIZE
      /\ head' = R!Wrap(head + r) /\ entry_cnt' = entry_cnt + m - r
      /\ \A i \in Slot :
           /\ data'[i].valid <=> r <= R!Age(i) /\ R!Age(i) < entry_cnt + m
           /\ r <= R!Age(i) => R!Age(i)' = R!Age(i) - r
           /\ r <= R!Age(i) /\ R!Age(i) < entry_cnt => data'[i].ins = data[i].ins
           /\ m >= 1 /\ R!Age(i) = entry_cnt => data'[i].ins.pdest = PdestOf(0)
           /\ m = 2 /\ R!Age(i) = entry_cnt + 1 => data'[i].ins.pdest = PdestOf(1)
           /\ retire_tag'[i] <=> R!Completed(cdb, i) /\ r <= R!Age(i)
           /\ R!Age(i) < r => R!Completed(cdb, i)

LEMMA StepMoves ==
  ASSUME IssueInv, NEW n \in 0 .. 2, NEW taken \in SUBSET Branches, NEW st, NEW answered,
         Advance(n, taken, st, answered)
  PROVE  R!RingInv' /\ \E r \in 0 .. 2 : Moves(n, r)
<1>1. PICK in : in = RingInput(n, taken)
  OBVIOUS
<1>2. R!Edge(in)
  BY <1>1, InputTyped
<1>3. R!Clock(in.din, R!dp_stall(in.rs_full), in.cdb, in.ex, in.sq)
  <2>1. Rob!Clock(in.din, Rob!dp_stall(in.rs_full), in.cdb, in.ex, in.sq)
    BY <1>1 DEF Advance, RingInput, dp_stall
  <2>2. QED
    BY <2>1, SameClock, SameRing
<1>4. R!RingInv'
  BY <1>2, <1>3, R!ClockRing, RobParams
<1> DEFINE s == R!dp_stall(in.rs_full)
<1>5. PICK r, m : r = R!Retires(in.din, s, in.cdb) /\ m = R!Dispatches(in.din, s, in.cdb)
  OBVIOUS
<1>6. /\ m \in 0 .. 2 /\ entry_cnt + m <= ROB_SIZE
      /\ r \in 0 .. 2 /\ r <= entry_cnt
      /\ r >= 1 <=> R!head_retire_rdy(in.cdb)
      /\ r = 2 <=> R!head_p1_retire_rdy(in.cdb)
  BY <1>2, <1>5, R!Movement, RobParams
<1>7. /\ head' = R!Wrap(head + r) /\ entry_cnt' = entry_cnt + m - r
      /\ data' = [i \in Slot |-> R!NextSlot(in.din, s, in.cdb, in.ex, in.sq, i)]
      /\ retire_tag' = [i \in Slot |-> R!NextRetireTag(in.cdb, i)]
  BY <1>3, <1>5, Sets DEF R!Clock
<1>8. m = Entering(n) /\ in.din = rn_dp(n) /\ in.cdb = cdb
  <2>1. s = dp_stall
    BY <1>1, SameRing DEF RingInput, dp_stall
  <2>2. QED
    BY <1>1, <1>5, <2>1, DispatchCount, SameDispatches DEF RingInput
<1>9. R!RingInv /\ entry_cnt \in 0 .. ROB_SIZE /\ head \in Slot
  BY Sets DEF IssueInv, R!RingInv, R!TypeOK
<1>10. ASSUME NEW i \in Slot
       PROVE  /\ data'[i].valid <=> r <= R!Age(i) /\ R!Age(i) < entry_cnt + m
              /\ r <= R!Age(i) /\ R!Age(i) < entry_cnt => data'[i].ins = data[i].ins
              /\ m >= 1 /\ R!Age(i) = entry_cnt => data'[i].ins.pdest = PdestOf(0)
              /\ m = 2 /\ R!Age(i) = entry_cnt + 1 => data'[i].ins.pdest = PdestOf(1)
              /\ retire_tag'[i] <=> R!Completed(cdb, i) /\ r <= R!Age(i)
              /\ R!Age(i) < r => R!Completed(cdb, i)
  <2>1. i \in R!Idx /\ R!Age(i) \in Nat /\ entry_cnt \in Nat
    BY <1>9, R!AgeType, RobParams, Sets, Sizes DEF Slot
  <2>2. data'[i] = R!NextSlot(in.din, s, in.cdb, in.ex, in.sq, i)
        /\ retire_tag'[i] = R!NextRetireTag(in.cdb, i)
    BY <1>7
  <2>3. data'[i].valid <=> r <= R!Age(i) /\ R!Age(i) < entry_cnt + m
    BY <1>2, <1>5, <2>1, <2>2, R!SlotsAfter, RobParams
  <2>4. r <= R!Age(i) /\ R!Age(i) < entry_cnt => data'[i].ins = data[i].ins
    BY <1>2, <1>5, <2>1, <2>2, R!SlotKept, RobParams
  <2>5. entry_cnt <= R!Age(i) /\ R!Age(i) < entry_cnt + m =>
          data'[i] = R!Filled(in.din[IF R!Age(i) = entry_cnt THEN 0 ELSE 1])
    BY <1>2, <1>5, <2>1, <2>2, R!SlotFilled, RobParams
  <2>6. /\ m >= 1 /\ R!Age(i) = entry_cnt => data'[i].ins.pdest = PdestOf(0)
        /\ m = 2 /\ R!Age(i) = entry_cnt + 1 => data'[i].ins.pdest = PdestOf(1)
    BY <1>6, <1>8, <2>1, <2>5, RenameTyped, Sets DEF R!Filled, Entering, IssueInv
  <2>7. (R!Age(i) = 0 <=> i = head) /\ (R!Age(i) = 1 <=> i = R!head_p1)
    BY <1>9, <2>1, R!AgeType, RobParams
  <2>8. R!Age(i) < r => R!Completed(cdb, i)
    BY <1>6, <1>8, <2>1, <2>7 DEF R!head_retire_rdy, R!head_p1_retire_rdy
  <2>9. retire_tag'[i] <=> R!Completed(cdb, i) /\ r <= R!Age(i)
    BY <1>6, <1>8, <2>1, <2>2, <2>7 DEF R!NextRetireTag
  <2>10. QED
    BY <2>3, <2>4, <2>6, <2>8, <2>9
<1>11. \A i \in Slot : r <= R!Age(i) => R!Age(i)' = R!Age(i) - r
  BY <1>6, <1>7, <1>9, Sizes DEF R!Age, R!Wrap, Slot
<1>12. QED
  BY <1>4, <1>6, <1>7, <1>8, <1>10, <1>11 DEF Moves

-----------------------------------------------------------------------------
(* The parts of a step one by one.  Who leaves the port for its bus: *)
Leaves(w) == is_ex[w].valid /\ ~ex_stall(w) /\ ~mult_en(w) /\ ~wr_en(w)

LEMMA PlacedIs ==
  ASSUME IssueInv
  PROVE  /\ \A w \in Ways, k \in Entry : rs[w][k].busy => In(InStation(w, k), rs[w][k].op.rob_idx)
         /\ \A w \in Ways : is_ex[w].valid => In(AtPort(w), is_ex[w].rob_idx)
         /\ \A w \in Ways, k \in 1 .. STAGES :
              mult_dones[w][k] => In(InStage(w, k), mult_chain[w][k].rob_idx)
         /\ \A k \in 1 .. Len(load_buffer) : In(InBuffer(k), load_buffer[k].rob_idx)
         /\ \A w \in Ways : ex_cm[w].valid => In(OnBus(w), ex_cm[w].rob_idx)
         /\ \A i \in Slot : retire_tag[i] => In(Completed, i)
  BY DEF In

LEMMA Distinct ==
  /\ \A w, v, k, j : InStation(w, k) = InStation(v, j) => w = v /\ k = j
  /\ \A w, v : AtPort(w) = AtPort(v) => w = v
  /\ \A w, v, k, j : InStage(w, k) = InStage(v, j) => w = v /\ k = j
  /\ \A k, j : InBuffer(k) = InBuffer(j) => k = j
  /\ \A w, v : OnBus(w) = OnBus(v) => w = v
  /\ \A w, k, v, j : InStation(w, k) # AtPort(v) /\ InStation(w, k) # InStage(v, j)
                     /\ InStation(w, k) # InBuffer(j) /\ InStation(w, k) # OnBus(v)
                     /\ InStation(w, k) # Completed
  /\ \A w, v, j : AtPort(w) # InStage(v, j) /\ AtPort(w) # InBuffer(j) /\ AtPort(w) # OnBus(v)
                  /\ AtPort(w) # Completed
  /\ \A w, k, v, j : InStage(w, k) # InBuffer(j) /\ InStage(w, k) # OnBus(v)
                     /\ InStage(w, k) # Completed
  /\ \A k, v : InBuffer(k) # OnBus(v) /\ InBuffer(k) # Completed
  /\ \A v : OnBus(v) # Completed
  BY DEF InStation, AtPort, InStage, InBuffer, OnBus, Completed

(* The oldest load of the buffer is that of another slot than what the port holds. *)
LEMMA HeadElsewhere ==
  ASSUME IssueInv, load_buffer # <<>>
  PROVE  /\ Len(load_buffer) >= 1 /\ Head(load_buffer) = load_buffer[1]
         /\ load_buffer[1] \in Results /\ load_buffer[1].valid
         /\ is_ex[0].valid => is_ex[0].rob_idx # load_buffer[1].rob_idx
<1>1. load_buffer \in Seq(Results) /\ Len(load_buffer) >= 1 /\ Head(load_buffer) = load_buffer[1]
      /\ load_buffer[1] \in Results
  BY DEF IssueInv, TypeOK
<1>2. load_buffer[1].valid /\ In(InBuffer(1), load_buffer[1].rob_idx)
  BY <1>1, PlacedIs DEF IssueInv, Packets
<1>3. is_ex[0].valid => In(AtPort(0), is_ex[0].rob_idx)
  BY PlacedIs, Sets
<1>4. QED
  BY <1>1, <1>2, <1>3, Distinct DEF IssueInv, Placed

(* What goes to the buses, and when the port keeps what it holds. *)
LEMMA BusAfter ==
  ASSUME IssueInv, UntilDefect, DELAY = STAGES, NEW w \in Ways
  PROVE  /\ w = 0 /\ rd_en => dout_valid /\ ~mult_done(0) /\ ex_packet[0] = Head(load_buffer) /\ ~Leaves(0)
         /\ mult_done(w) => ex_packet[w] = mult_chain[w][STAGES] /\ ~Leaves(w)
         /\ Leaves(w) => /\ ex_packet[w].valid /\ ex_packet[w].rob_idx = is_ex[w].rob_idx
                         /\ ex_packet[w].tag = is_ex[w].pdest
         /\ ex_packet[w].valid => mult_done(w) \/ (w = 0 /\ rd_en) \/ Leaves(w)
         /\ \/ mult_done(w) /\ ex_packet[w] = mult_chain[w][STAGES]
            \/ dout_valid /\ ex_packet[w] = Head(load_buffer)
            \/ ex_packet[w] \in {Result(is_ex[w], rega_value(w)), Result(is_ex[w], alu_result(w)),
                                 NoResult}
         /\ mult_en(w) => is_ex[w].valid /\ ~ex_stall(w) /\ ~wr_en(w)
         /\ wr_en(w) => is_ex[w].valid /\ ~ex_stall(w)
<1>1. /\ is_ex[w] \in Op /\ mult_dones[w][STAGES] \in BOOLEAN
      /\ dout_valid \in BOOLEAN /\ (dout_valid => load_buffer # <<>>)
  BY Sizes DEF IssueInv, TypeOK
<1>2. /\ wr_en(w) => ~ex_stall(w)
      /\ mult_en(w) => ~ex_stall(w)
      /\ ~(mult_done(0) /\ rd_en)
  BY DEF UntilDefect, HeldLoad, MultTwice, LoadDropped
<1>3. LQ_FU_out[w] = IF hit(w) THEN Result(is_ex[w], rega_value(w))
                     ELSE IF w = 0 /\ dout_valid THEN Head(load_buffer) ELSE NoResult
  BY DEF LQ_FU_out
<1>4. ex_packet[w] = IF mult_done(w) THEN mult_chain[w][STAGES]
                     ELSE IF LQ_FU_out[w].valid THEN LQ_FU_out[w]
                     ELSE IF is_ex[w].class \in Cm THEN Result(is_ex[w], alu_result(w))
                     ELSE NoResult
  BY DEF ex_packet, Mult!mult_packet_out, Cm
<1>5. mult_done(w) = mult_dones[w][STAGES]
  BY DEF mult_done, Mult!done
<1>6. ex_stall(w) <=> IF mult_done(w) THEN ~mult_en(w) /\ (is_ex[w].valid \/ (w = 0 /\ LQ_FU_out[w].valid))
                      ELSE /\ w = 0 /\ LQ_FU_out[w].valid /\ is_ex[w].valid
                           /\ is_ex[w].rob_idx # LQ_FU_out[w].rob_idx
  BY DEF ex_stall
<1>7. /\ hit(w) <=> is_ex[w].valid /\ is_ex[w].class = "load" /\ is_ex[w].hit
      /\ wr_en(w) <=> is_ex[w].valid /\ is_ex[w].class = "load" /\ ~is_ex[w].hit
      /\ mult_en(w) <=> is_ex[w].valid /\ is_ex[w].class = "mult"
  BY DEF hit, wr_en, mult_en, Is
<1>8. /\ is_ex[w].valid \in BOOLEAN /\ is_ex[w].class \in {"alu", "branch", "store", "load", "mult"}
      /\ is_ex[w].hit \in BOOLEAN /\ mult_done(w) \in BOOLEAN
  BY <1>1, <1>5 DEF Op, Classes
<1>9. /\ \A v : Result(is_ex[w], v).valid = is_ex[w].valid
      /\ \A v : Result(is_ex[w], v).rob_idx = is_ex[w].rob_idx
      /\ \A v : Result(is_ex[w], v).tag = is_ex[w].pdest
      /\ NoResult.valid = FALSE
  BY DEF Result, NoResult
<1>10. rd_en <=> ~hit(0) /\ dout_valid
                 /\ ~(mult_done(0) /\ LQ_FU_out[0].valid /\ is_ex[0].rob_idx # LQ_FU_out[0].rob_idx)
  BY DEF rd_en, rd_ld_buffer_stall
<1>11. /\ dout_valid => Head(load_buffer).valid
       /\ dout_valid => (is_ex[0].valid => is_ex[0].rob_idx # Head(load_buffer).rob_idx)
  BY <1>1, HeadElsewhere
<1>12. CASE mult_done(w)
  <2>1. ex_packet[w] = mult_chain[w][STAGES]
    BY <1>4, <1>12
  <2>2. ~Leaves(w) /\ (w = 0 => ~rd_en)
    BY <1>2, <1>6, <1>12 DEF Leaves
  <2>3. w # 0 => ~(w = 0 /\ rd_en)
    OBVIOUS
  <2>4. mult_en(w) => is_ex[w].valid /\ ~ex_stall(w) /\ ~wr_en(w)
    BY <1>2, <1>7
  <2>5. wr_en(w) => is_ex[w].valid /\ ~ex_stall(w)
    BY <1>2, <1>7
  <2>6. QED
    BY <1>12, <2>1, <2>2, <2>4, <2>5
<1>13. CASE ~mult_done(w) /\ hit(w)
  BY <1>2, <1>3, <1>4, <1>6, <1>7, <1>8, <1>9, <1>10, <1>13 DEF Leaves
<1>14. CASE ~mult_done(w) /\ ~hit(w) /\ w = 0 /\ dout_valid
  BY <1>2, <1>3, <1>4, <1>6, <1>7, <1>8, <1>9, <1>10, <1>11, <1>14 DEF Leaves
<1>15. CASE ~mult_done(w) /\ ~hit(w) /\ ~(w = 0 /\ dout_valid)
  BY <1>2, <1>3, <1>4, <1>6, <1>7, <1>8, <1>9, <1>10, <1>15 DEF Leaves, Cm
<1>16. QED
  BY <1>12, <1>13, <1>14, <1>15

(* What enters a bank and what leaves it, and what is then on its port. *)
New(n, w) == IF rs_enable(n, w) THEN Bank(w)!ps(Entry \ Bank(w)!Busy) ELSE {}

HeardNow(ready, preg) == ready \/ \E v \in Ways : cdb[v].valid /\ cdb[v].tag = preg

StationStep(n, st, w) ==
  /\ \A k \in Gone(st, w) :
       /\ k \in Entry /\ rs[w][k].busy /\ ~ex_stall(w)
       /\ HeardNow(rs[w][k].prega_ready, rs[w][k].op.prega)
       /\ HeardNow(rs[w][k].pregb_ready, rs[w][k].op.pregb)
       /\ is_ex'[w] = rs[w][k].op
  /\ \A k, j \in Gone(st, w) : k = j
  /\ ex_stall(w) => is_ex'[w] = is_ex[w]
  /\ ~ex_stall(w) /\ Gone(st, w) = {} => is_ex'[w] = Bubble
  /\ \A k \in New(n, w) : k \in Entry /\ ~rs[w][k].busy /\ w < Entering(n)
  /\ \A k, j \in New(n, w) : k = j
  /\ w < Entering(n) => New(n, w) # {}
  /\ \A k \in Entry :
       /\ k \in New(n, w) =>
            rs'[w][k] = [busy |-> TRUE, op |-> packet(w).op,
                         prega_ready |-> packet(w).prega_ready,
                         pregb_ready |-> packet(w).pregb_ready]
       /\ k \notin New(n, w) /\ (~rs[w][k].busy \/ k \in Gone(st, w)) =>
            rs'[w][k] = [busy |-> FALSE, op |-> Bubble, prega_ready |-> FALSE, pregb_ready |-> FALSE]
       /\ k \notin New(n, w) /\ rs[w][k].busy /\ k \notin Gone(st, w) =>
            /\ rs'[w][k].busy /\ rs'[w][k].op = rs[w][k].op
            /\ rs'[w][k].prega_ready = HeardNow(rs[w][k].prega_ready, rs[w][k].op.prega)
            /\ rs'[w][k].pregb_ready = HeardNow(rs[w][k].pregb_ready, rs[w][k].op.pregb)
       /\ rs'[w][k] \in [busy : BOOLEAN, op : {rs[w][k].op, packet(w).op, Bubble},
                         prega_ready : BOOLEAN, pregb_ready : BOOLEAN]

LEMMA OperandReady ==
  ASSUME NEW w \in Ways, NEW d
  PROVE  Operand(w, d).ready \in BOOLEAN
  BY DEF Operand, Rob!Completed, Rob!CompletesNow

LEMMA StationAfter ==
  ASSUME IssueInv, NEW n \in 0 .. 2, NEW taken, NEW st, NEW answered,
         Advance(n, taken, st, answered), NEW w \in Ways
  PROVE  StationStep(n, st, w)
<1>1. /\ rs'[w] = Bank(w)!NextEntry(rs_enable(n, w), packet(w), cdb, ex_stall(w), st[1 - w])
      /\ is_ex'[w] = NextPort(st, w)
  BY DEF Advance
<1>2. \A k \in Entry : rs[w][k] \in [busy : BOOLEAN, op : Op, prega_ready : BOOLEAN, pregb_ready : BOOLEAN]
  BY DEF IssueInv, TypeOK, Entry
<1>3. /\ Gone(st, w) = {} \/ \E k \in Entry : Gone(st, w) = {k} /\ Bank(w)!preg_ready(k, cdb)
      /\ ex_stall(w) => Gone(st, w) = {}
  BY Issues DEF Gone
<1>4. ~ex_stall(w) => Gone(st, w) = Bank(w)!entry_issue(cdb, FALSE, st[1 - w])
  BY DEF Gone, Bank!entry_issue
<1>5. /\ ex_stall(w) => is_ex'[w] = is_ex[w]
      /\ ~ex_stall(w) /\ Gone(st, w) = {} => is_ex'[w] = Bubble
      /\ \A k \in Gone(st, w) : is_ex'[w] = rs[w][k].op
  <2>1. ex_stall(w) => is_ex'[w] = is_ex[w]
    BY <1>1 DEF NextPort
  <2>2. ~ex_stall(w) => is_ex'[w] = IF Gone(st, w) = {} THEN Bubble
                                    ELSE rs[w][CHOOSE i \in Gone(st, w) : TRUE].op
    BY <1>1, <1>4 DEF NextPort, Bank!issued
  <2>3. QED
    BY <1>3, <2>1, <2>2
<1>6. \A k : Bank(w)!preg_ready(k, cdb) =>
        /\ rs[w][k].busy
        /\ HeardNow(rs[w][k].prega_ready, rs[w][k].op.prega)
        /\ HeardNow(rs[w][k].pregb_ready, rs[w][k].op.pregb)
  BY Sets DEF Bank!preg_ready, Bank!Heard, HeardNow
<1>7. rs_enable(n, w) <=> w < Entering(n)
  <2>1. Entering(n) >= 1 => ~Bank(w)!rs_full
    BY DispatchCount
  <2>2. QED
    BY <2>1, Sets DEF rs_enable, Entering
<1>8. /\ Bank(w)!Busy = {k \in Entry : rs[w][k].busy}
      /\ Bank(w)!rs_full <=> Bank(w)!Busy = Entry
  BY DEF Bank!Busy, Bank!rs_full, Bank!Index, Entry
<1>9. /\ \A k \in New(n, w) : k \in Entry /\ ~rs[w][k].busy /\ w < Entering(n)
      /\ \A k, j \in New(n, w) : k = j
      /\ w < Entering(n) => New(n, w) # {}
  <2> DEFINE S == Entry \ Bank(w)!Busy
  <2>1. Bank(w)!ps(S) \subseteq S /\ (S # {} => \E k \in S : Bank(w)!ps(S) = {k})
    BY Grants
  <2>2. S = {} => Bank(w)!ps(S) = {}
    BY DEF Bank!ps
  <2>3. w < Entering(n) => S # {}
    <3>1. w < Entering(n) => ~Bank(w)!rs_full
      BY <1>7 DEF rs_enable
    <3>2. QED
      BY <1>8, <3>1
  <2>4. \A k \in S : k \in Entry /\ ~rs[w][k].busy
    BY <1>8
  <2>5. New(n, w) = IF w < Entering(n) THEN Bank(w)!ps(S) ELSE {}
    BY <1>7 DEF New
  <2> HIDE DEF S
  <2>6. QED
    BY <2>1, <2>2, <2>3, <2>4, <2>5
<1>10. \A k \in Entry :
         rs'[w][k] =
           IF k \in New(n, w)
           THEN [busy |-> TRUE, op |-> packet(w).op,
                 prega_ready |-> packet(w).prega_ready, pregb_ready |-> packet(w).pregb_ready]
           ELSE IF ~rs[w][k].busy \/ k \in Gone(st, w)
           THEN [busy |-> FALSE, op |-> Bubble, prega_ready |-> FALSE, pregb_ready |-> FALSE]
           ELSE Bank(w)!Waiting(rs[w][k], cdb)
  BY <1>1 DEF Bank!NextEntry, Bank!Index, Bank!Free, New, Gone, Entry
<1>11. ASSUME NEW k \in Entry
       PROVE  LET e == Bank(w)!Waiting(rs[w][k], cdb)
              IN  /\ e \in [busy : BOOLEAN, op : {rs[w][k].op}, prega_ready : BOOLEAN,
                            pregb_ready : BOOLEAN]
                  /\ e.busy = rs[w][k].busy
                  /\ e.prega_ready = HeardNow(rs[w][k].prega_ready, rs[w][k].op.prega)
                  /\ e.pregb_ready = HeardNow(rs[w][k].pregb_ready, rs[w][k].op.pregb)
  <2>1. PICK e : e = rs[w][k]
    OBVIOUS
  <2>2. e \in [busy : BOOLEAN, op : {e.op}, prega_ready : BOOLEAN, pregb_ready : BOOLEAN]
    BY <1>2, <2>1
  <2>3. \A r, p : Bank(w)!Heard(r, p, cdb) = HeardNow(r, p)
    BY Sets, Zenon DEF Bank!Heard, HeardNow
  <2>4. PICK x \in BOOLEAN, y \in BOOLEAN :
          x = HeardNow(e.prega_ready, e.op.prega) /\ y = HeardNow(e.pregb_ready, e.op.pregb)
    BY Zenon DEF HeardNow
  <2>5. Bank(w)!Waiting(e, cdb) = [e EXCEPT !.prega_ready = x, !.pregb_ready = y]
    BY <2>3, <2>4, Zenon DEF Bank!Waiting
  <2>6. LET d == [e EXCEPT !.prega_ready = x, !.pregb_ready = y]
        IN  /\ d \in [busy : BOOLEAN, op : {e.op}, prega_ready : BOOLEAN, pregb_ready : BOOLEAN]
            /\ d.busy = e.busy /\ d.prega_ready = x /\ d.pregb_ready = y
    BY <2>2
  <2>7. QED
    BY <2>1, <2>4, <2>5, <2>6
<1>12. /\ packet(w).prega_ready \in BOOLEAN /\ packet(w).pregb_ready \in BOOLEAN
       /\ \A r, p : HeardNow(r, p) \in BOOLEAN
  <2>1. packet(w).prega_ready \in BOOLEAN /\ packet(w).pregb_ready \in BOOLEAN
    BY OperandReady DEF packet
  <2>2. QED
    BY <2>1 DEF HeardNow
<1>13. ASSUME NEW k \in Entry
       PROVE  /\ k \in New(n, w) =>
                rs'[w][k] = [busy |-> TRUE, op |-> packet(w).op,
                             prega_ready |-> packet(w).prega_ready,
                             pregb_ready |-> packet(w).pregb_ready]
              /\ k \notin New(n, w) /\ (~rs[w][k].busy \/ k \in Gone(st, w)) =>
                rs'[w][k] = [busy |-> FALSE, op |-> Bubble, prega_ready |-> FALSE, pregb_ready |-> FALSE]
              /\ k \notin New(n, w) /\ rs[w][k].busy /\ k \notin Gone(st, w) =>
                /\ rs'[w][k].busy /\ rs'[w][k].op = rs[w][k].op
                /\ rs'[w][k].prega_ready = HeardNow(rs[w][k].prega_ready, rs[w][k].op.prega)
                /\ rs'[w][k].pregb_ready = HeardNow(rs[w][k].pregb_ready, rs[w][k].op.pregb)
              /\ rs'[w][k] \in [busy : BOOLEAN, op : {rs[w][k].op, packet(w).op, Bubble},
                                prega_ready : BOOLEAN, pregb_ready : BOOLEAN]
  <2>1. rs[w][k].busy \in BOOLEAN
    BY <1>2
  <2>2. CASE k \in New(n, w)
    <3>1. PICK a \in BOOLEAN, b \in BOOLEAN :
             a = packet(w).prega_ready /\ b = packet(w).pregb_ready
      BY <1>12
    <3>2. rs'[w][k] = [busy |-> TRUE, op |-> packet(w).op, prega_ready |-> a, pregb_ready |-> b]
      BY <2>2, <1>10, <3>1
    <3>3. QED
      BY <2>2, <3>1, <3>2
  <2>3. CASE k \notin New(n, w) /\ (~rs[w][k].busy \/ k \in Gone(st, w))
    <3>1. rs'[w][k] = [busy |-> FALSE, op |-> Bubble, prega_ready |-> FALSE, pregb_ready |-> FALSE]
      BY <2>3, <1>10
    <3>2. QED
      BY <2>3, <3>1
  <2>4. CASE k \notin New(n, w) /\ rs[w][k].busy /\ k \notin Gone(st, w)
    <3>1. rs'[w][k] = Bank(w)!Waiting(rs[w][k], cdb)
      BY <2>4, <1>10
    <3>2. QED
      BY <2>1, <2>4, <1>11, <3>1
  <2>5. QED
    BY <2>2, <2>3, <2>4
<1>14. \A k \in Gone(st, w) :
         /\ k \in Entry /\ rs[w][k].busy /\ ~ex_stall(w)
         /\ HeardNow(rs[w][k].prega_ready, rs[w][k].op.prega)
         /\ HeardNow(rs[w][k].pregb_ready, rs[w][k].op.pregb)
  BY <1>3, <1>6
<1>15. \A k, j \in Gone(st, w) : k = j
  BY <1>3
<1>16. QED
  BY <1>5, <1>9, <1>13, <1>14, <1>15 DEF StationStep

(* What is read is a value, and results are results. *)
LEMMA ResultTyped ==
  ASSUME TypeOK, NEW w \in Ways
  PROVE  /\ rega_value(w) \in BOOLEAN /\ regb_value(w) \in BOOLEAN /\ alu_result(w) \in BOOLEAN
         /\ Result(is_ex[w], rega_value(w)) \in Results
         /\ Result(is_ex[w], alu_result(w)) \in Results
         /\ NoResult \in Results
<1>1. \A r \in Tag, e \in Ways : Read(e, r) \in BOOLEAN
  <2>1. SUFFICES ASSUME NEW r \in Tag, NEW e \in Ways PROVE Read(e, r) \in BOOLEAN
    OBVIOUS
  <2>2. cdb[0].value \in BOOLEAN /\ cdb[1].value \in BOOLEAN
    BY Sets DEF TypeOK, Results, cdb
  <2>3. r = ZERO_PREG \/ registers[r] \in BOOLEAN
    BY DEF TypeOK, Tag
  <2>4. QED
    BY <2>2, <2>3 DEF Read
<1>2. is_ex[w].prega \in Tag /\ is_ex[w].pregb \in Tag /\ is_ex[w].valid \in BOOLEAN
      /\ is_ex[w].rob_idx \in Slot /\ is_ex[w].pdest \in Tag
  BY DEF TypeOK, Op
<1>3. rega_value(w) \in BOOLEAN /\ regb_value(w) \in BOOLEAN
  BY <1>1, <1>2, Sets DEF rega_value, regb_value
<1>4. alu_result(w) \in BOOLEAN
  BY <1>3 DEF alu_result
<1>5. \A v \in BOOLEAN : Result(is_ex[w], v) \in Results
  BY <1>2 DEF Result, Results
<1>6. NoResult \in Results
  BY Sets DEF NoResult, Results, Tag
<1>7. QED
  BY <1>3, <1>4, <1>5, <1>6

(* The places of the load buffer. *)
Bit(b) == IF b THEN 1 ELSE 0
Staying == Len(load_buffer) - Bit(rd_en)
NewLoad(w) == Staying + (IF w = 1 THEN Bit(wr_en(0)) ELSE 0) + 1

LEMMA LoadsAfter ==
  ASSUME IssueInv, NEW n, NEW taken, NEW st, NEW answered, Advance(n, taken, st, answered)
  PROVE  /\ load_buffer' \in Seq(Results)
         /\ Staying \in Nat /\ Staying = Len(load_buffer) - Bit(rd_en)
         /\ Len(load_buffer') = Staying + Bit(wr_en(0)) + Bit(wr_en(1))
         /\ \A k \in 1 .. Staying : load_buffer'[k] = load_buffer[k + Bit(rd_en)]
         /\ \A w \in Ways : wr_en(w) => /\ NewLoad(w) \in 1 .. Len(load_buffer')
                                        /\ load_buffer'[NewLoad(w)] = Result(is_ex[w], rega_value(w))
         /\ \A k \in Staying + 1 .. Len(load_buffer') : \E w \in Ways : wr_en(w) /\ k = NewLoad(w)
         /\ rd_en => load_buffer # <<>>
<1>1. load_buffer \in Seq(Results) /\ (dout_valid => load_buffer # <<>>)
  BY DEF IssueInv, TypeOK
<1>2. rd_en => load_buffer # <<>>
  BY <1>1 DEF rd_en
<1>3. PICK s : s = IF rd_en THEN Tail(load_buffer) ELSE load_buffer
  OBVIOUS
<1>4. /\ s \in Seq(Results) /\ Len(s) = Staying /\ Staying \in Nat
      /\ \A k \in 1 .. Staying : s[k] = load_buffer[k + Bit(rd_en)]
  <2>1. CASE rd_en
    BY <1>1, <1>2, <1>3, <2>1 DEF Staying, Bit
  <2>2. CASE ~rd_en
    BY <1>1, <1>3, <2>2 DEF Staying, Bit
  <2>3. QED
    BY <2>1, <2>2
<1>5. PICK x \in Results, y \in Results :
        x = Result(is_ex[0], rega_value(0)) /\ y = Result(is_ex[1], rega_value(1))
  BY ResultTyped, Sets DEF IssueInv
<1>6. PICK a \in BOOLEAN, b \in BOOLEAN : a = wr_en(0) /\ b = wr_en(1)
  BY Zenon DEF wr_en, Is
<1>7. load_buffer' = s \o (IF a THEN <<x>> ELSE <<>>) \o (IF b THEN <<y>> ELSE <<>>)
  BY <1>3, <1>5, <1>6 DEF Advance, NextLoads
<1>8. Bit(a) = (IF a THEN 1 ELSE 0) /\ Bit(b) = (IF b THEN 1 ELSE 0)
  BY DEF Bit
<1>9. /\ load_buffer' \in Seq(Results)
      /\ Len(load_buffer') = Staying + Bit(a) + Bit(b)
      /\ \A k \in 1 .. Staying : load_buffer'[k] = s[k]
      /\ a => load_buffer'[Staying + 1] = x
      /\ b => load_buffer'[Staying + Bit(a) + 1] = y
  <2>1. PICK t : t = s \o (IF a THEN <<x>> ELSE <<>>) \o (IF b THEN <<y>> ELSE <<>>)
    OBVIOUS
  <2>2. /\ t \in Seq(Results)
        /\ Len(t) = Len(s) + (IF a THEN 1 ELSE 0) + (IF b THEN 1 ELSE 0)
        /\ \A k \in 1 .. Len(s) : t[k] = s[k]
        /\ a => t[Len(s) + 1] = x
        /\ b => t[Len(s) + (IF a THEN 1 ELSE 0) + 1] = y
    <3>1. PICK T : T = Results
      OBVIOUS
    <3>2. s \in Seq(T) /\ x \in T /\ y \in T
      BY <1>4, <1>5, <3>1
    <3>3. LET u == s \o (IF a THEN <<x>> ELSE <<>>) \o (IF b THEN <<y>> ELSE <<>>)
          IN  /\ u \in Seq(T)
              /\ Len(u) = Len(s) + (IF a THEN 1 ELSE 0) + (IF b THEN 1 ELSE 0)
              /\ \A k \in 1 .. Len(s) : u[k] = s[k]
              /\ a => u[Len(s) + 1] = x
              /\ b => u[Len(s) + (IF a THEN 1 ELSE 0) + 1] = y
      <4>1. CASE a /\ b
        BY <3>2, <4>1
      <4>2. CASE a /\ ~b
        BY <3>2, <4>2
      <4>3. CASE ~a /\ b
        BY <3>2, <4>3
      <4>4. CASE ~a /\ ~b
        BY <3>2, <4>4
      <4>5. QED
        BY <4>1, <4>2, <4>3, <4>4
    <3>4. QED
      BY <2>1, <3>1, <3>3
  <2>3. load_buffer' = t
    BY <1>7, <2>1
  <2>4. QED
    BY <1>4, <1>8, <2>2, <2>3
<1>10. /\ NewLoad(0) = Staying + 1 /\ NewLoad(1) = Staying + Bit(a) + 1
  BY <1>4, <1>6, <1>8 DEF NewLoad
<1>11. \A w \in Ways : wr_en(w) => /\ NewLoad(w) \in 1 .. Len(load_buffer')
                                   /\ load_buffer'[NewLoad(w)] = Result(is_ex[w], rega_value(w))
  BY <1>4, <1>5, <1>6, <1>8, <1>9, <1>10, Sets
<1>12. \A k \in Staying + 1 .. Len(load_buffer') : \E w \in Ways : wr_en(w) /\ k = NewLoad(w)
  BY <1>4, <1>6, <1>8, <1>9, <1>10, Sets
<1>13. QED
  BY <1>2, <1>4, <1>6, <1>9, <1>11, <1>12 DEF Staying

(* A step of the clock with neither flush nor defect. *)
Step(n, taken, st, answered) ==
  /\ IssueInv /\ UntilDefect /\ DELAY = STAGES
  /\ n \in 0 .. 2 /\ taken \in SUBSET Branches /\ Advance(n, taken, st, answered)
  /\ answered \in BOOLEAN /\ (answered => Waits) /\ prog' = prog

LEMMA StagesAfter ==
  ASSUME NEW n, NEW taken, NEW st, NEW answered, Step(n, taken, st, answered), NEW w \in Ways
  PROVE  /\ \A k \in 1 .. STAGES :
              mult_dones'[w][k] = IF k = 1 THEN mult_en(w) ELSE mult_dones[w][k - 1]
         /\ \A k \in 1 .. DELAY :
              mult_chain'[w][k] = IF k = 1
                                  THEN IF mult_en(w) THEN Result(is_ex[w], alu_result(w)) ELSE NoResult
                                  ELSE mult_chain[w][k - 1]
  BY DEF Step, Advance, Mult!NextDones, Mult!NextChain, Mult!Shifted

(* Where what is in a place goes. *)
To(st, p) ==
  LET w == p[2]
      k == p[3]
  IN  IF p[1] = "station" THEN IF k \in Gone(st, w) THEN AtPort(w) ELSE p
      ELSE IF p[1] = "port"
           THEN IF ex_stall(w) THEN p
                ELSE IF mult_en(w) THEN InStage(w, 1)
                ELSE IF wr_en(w) THEN InBuffer(NewLoad(w)) ELSE OnBus(w)
      ELSE IF p[1] = "stage" THEN IF k = STAGES THEN OnBus(w) ELSE InStage(w, k + 1)
      ELSE IF p[1] = "buffer"
           THEN IF ~rd_en THEN p ELSE IF k = 1 THEN OnBus(0) ELSE InBuffer(k - 1)
      ELSE Completed

LEMMA ToIs ==
  ASSUME NEW st
  PROVE  /\ \A w, k : To(st, InStation(w, k)) =
              IF k \in Gone(st, w) THEN AtPort(w) ELSE InStation(w, k)
         /\ \A w : To(st, AtPort(w)) =
              IF ex_stall(w) THEN AtPort(w)
              ELSE IF mult_en(w) THEN InStage(w, 1)
              ELSE IF wr_en(w) THEN InBuffer(NewLoad(w)) ELSE OnBus(w)
         /\ \A w, k : To(st, InStage(w, k)) = IF k = STAGES THEN OnBus(w) ELSE InStage(w, k + 1)
         /\ \A k : To(st, InBuffer(k)) =
              IF ~rd_en THEN InBuffer(k) ELSE IF k = 1 THEN OnBus(0) ELSE InBuffer(k - 1)
         /\ \A w : To(st, OnBus(w)) = Completed
         /\ To(st, Completed) = Completed
<1>1. \A a, b, c : <<a, b, c>>[1] = a /\ <<a, b, c>>[2] = b /\ <<a, b, c>>[3] = c
  OBVIOUS
<1>2. \A w, k : To(st, InStation(w, k)) = IF k \in Gone(st, w) THEN AtPort(w) ELSE InStation(w, k)
  BY <1>1, Zenon DEF To, InStation
<1>3. \A w : To(st, AtPort(w)) =
              IF ex_stall(w) THEN AtPort(w)
              ELSE IF mult_en(w) THEN InStage(w, 1)
              ELSE IF wr_en(w) THEN InBuffer(NewLoad(w)) ELSE OnBus(w)
  BY <1>1, "port" # "station" DEF To, AtPort
<1>4. \A w, k : To(st, InStage(w, k)) = IF k = STAGES THEN OnBus(w) ELSE InStage(w, k + 1)
  BY <1>1 DEF To, InStage
<1>5. \A k : To(st, InBuffer(k)) =
              IF ~rd_en THEN InBuffer(k) ELSE IF k = 1 THEN OnBus(0) ELSE InBuffer(k - 1)
  BY <1>1 DEF To, InBuffer
<1>6. \A w : To(st, OnBus(w)) = Completed
  BY <1>1 DEF To, OnBus
<1>7. To(st, Completed) = Completed
  BY DEF To, Completed
<1>8. QED
  BY <1>2, <1>3, <1>4, <1>5, <1>6, <1>7

(* Who comes new. *)
Fresh(n, q, i) ==
  \E w \in Ways : w < Entering(n) /\ i = rob_idx(w) /\ \E k \in New(n, w) : q = InStation(w, k)

(* Whatever is somewhere after a step was somewhere before it, or is new. *)
LEMMA Backward ==
  ASSUME NEW n, NEW taken, NEW st, NEW answered, Step(n, taken, st, answered),
         NEW q, NEW i, In(q, i)'
  PROVE  (\E p : In(p, i) /\ q = To(st, p)) \/ Fresh(n, q, i)
<1>1. /\ IssueInv /\ UntilDefect /\ DELAY = STAGES /\ n \in 0 .. 2
      /\ taken \in SUBSET Branches /\ Advance(n, taken, st, answered)
  BY DEF Step
<1>2. CASE \E w \in Ways, k \in Entry :
             q = InStation(w, k) /\ rs'[w][k].busy /\ rs'[w][k].op.rob_idx = i
  <2>1. PICK w \in Ways, k \in Entry :
             q = InStation(w, k) /\ rs'[w][k].busy /\ rs'[w][k].op.rob_idx = i
    BY <1>2
  <2>2. StationStep(n, st, w)
    BY <1>1, StationAfter
  <2>3. CASE k \in New(n, w)
    <3>1. w < Entering(n) /\ rs'[w][k].op = packet(w).op
      BY <2>2, <2>3 DEF StationStep
    <3>2. i = rob_idx(w)
      BY <2>1, <3>1 DEF packet
    <3>3. QED
      BY <2>1, <2>3, <3>1, <3>2 DEF Fresh
  <2>4. CASE k \notin New(n, w)
    <3>1. rs[w][k].busy /\ k \notin Gone(st, w) /\ rs'[w][k].op = rs[w][k].op
      BY <2>1, <2>2, <2>4 DEF StationStep
    <3>2. In(InStation(w, k), i)
      BY <1>1, <2>1, <3>1, PlacedIs
    <3>3. q = To(st, InStation(w, k))
      BY <2>1, <3>1, ToIs
    <3>4. QED
      BY <3>2, <3>3
  <2>5. QED
    BY <2>3, <2>4
<1>3. CASE \E w \in Ways : q = AtPort(w) /\ is_ex'[w].valid /\ is_ex'[w].rob_idx = i
  <2>1. PICK w \in Ways : q = AtPort(w) /\ is_ex'[w].valid /\ is_ex'[w].rob_idx = i
    BY <1>3
  <2>2. StationStep(n, st, w)
    BY <1>1, StationAfter
  <2>3. CASE ex_stall(w)
    <3>1. is_ex'[w] = is_ex[w]
      BY <2>2, <2>3 DEF StationStep
    <3>2. In(AtPort(w), i) /\ q = To(st, AtPort(w))
      BY <1>1, <2>1, <2>3, <3>1, PlacedIs, ToIs
    <3>3. QED
      BY <3>2
  <2>4. CASE ~ex_stall(w)
    <3>1. PICK k : k \in Gone(st, w)
      BY <2>1, <2>2, <2>4 DEF StationStep, Bubble
    <3>2. k \in Entry /\ rs[w][k].busy /\ is_ex'[w] = rs[w][k].op
      BY <2>2, <3>1 DEF StationStep
    <3>3. In(InStation(w, k), i) /\ q = To(st, InStation(w, k))
      BY <1>1, <2>1, <3>1, <3>2, PlacedIs, ToIs
    <3>4. QED
      BY <3>3
  <2>5. QED
    BY <2>3, <2>4
<1>4. CASE \E w \in Ways, k \in 1 .. STAGES :
             q = InStage(w, k) /\ mult_dones'[w][k] /\ mult_chain'[w][k].rob_idx = i
  <2>1. PICK w \in Ways, k \in 1 .. STAGES :
             q = InStage(w, k) /\ mult_dones'[w][k] /\ mult_chain'[w][k].rob_idx = i
    BY <1>4
  <2>2. CASE k = 1
    <3>1. mult_en(w) /\ i = is_ex[w].rob_idx
      <4>1. mult_en(w)
        BY <2>1, <2>2, StagesAfter
      <4>2. mult_chain'[w][1] = Result(is_ex[w], alu_result(w))
        BY <1>1, <2>1, <2>2, <4>1, StagesAfter
      <4>3. QED
        BY <2>1, <2>2, <4>1, <4>2 DEF Result
    <3>2. is_ex[w].valid /\ ~ex_stall(w)
      BY <1>1, <3>1, BusAfter
    <3>3. In(AtPort(w), i) /\ q = To(st, AtPort(w))
      BY <1>1, <2>1, <2>2, <3>1, <3>2, PlacedIs, ToIs
    <3>4. QED
      BY <3>3
  <2>3. CASE k # 1
    <3>1. k - 1 \in 1 .. STAGES /\ k - 1 # STAGES /\ (k - 1) + 1 = k
      BY <2>1, <2>3, Sizes
    <3>2. mult_dones[w][k - 1] /\ mult_chain[w][k - 1].rob_idx = i
      BY <1>1, <2>1, <2>3, StagesAfter
    <3>3. PICK j : j = k - 1
      OBVIOUS
    <3>4. In(InStage(w, j), i)
      BY <1>1, <3>1, <3>2, <3>3, PlacedIs
    <3>5. To(st, InStage(w, j)) = InStage(w, j + 1)
      BY <3>1, <3>3, ToIs
    <3>6. QED
      BY <2>1, <3>1, <3>3, <3>4, <3>5
  <2>4. QED
    BY <2>2, <2>3
<1>5. CASE \E k \in 1 .. Len(load_buffer') : q = InBuffer(k) /\ load_buffer'[k].rob_idx = i
  <2>1. PICK k \in 1 .. Len(load_buffer') : q = InBuffer(k) /\ load_buffer'[k].rob_idx = i
    BY <1>5
  <2>2. load_buffer \in Seq(Results) /\ Staying \in Nat /\ Staying = Len(load_buffer) - Bit(rd_en)
    BY <1>1, LoadsAfter DEF IssueInv, TypeOK
  <2>3. CASE k \in 1 .. Staying
    <3>1. load_buffer'[k] = load_buffer[k + Bit(rd_en)]
      BY <1>1, <2>3, LoadsAfter
    <3>2. PICK j : j = k + Bit(rd_en)
      OBVIOUS
    <3>3. j \in 1 .. Len(load_buffer) /\ (rd_en => j # 1 /\ j - 1 = k) /\ (~rd_en => j = k)
      BY <2>2, <2>3, <3>2 DEF Bit
    <3>4. In(InBuffer(j), i) /\ q = To(st, InBuffer(j))
      BY <1>1, <2>1, <3>1, <3>2, <3>3, PlacedIs, ToIs
    <3>5. QED
      BY <3>4
  <2>4. CASE k \notin 1 .. Staying
    <3>1. k \in Staying + 1 .. Len(load_buffer')
      BY <2>1, <2>2, <2>4
    <3>2. PICK w \in Ways : wr_en(w) /\ k = NewLoad(w)
      BY <1>1, <3>1, LoadsAfter
    <3>3. load_buffer'[k] = Result(is_ex[w], rega_value(w))
      BY <1>1, <3>2, LoadsAfter
    <3>4. is_ex[w].valid /\ ~ex_stall(w) /\ ~mult_en(w) /\ is_ex[w].rob_idx = i
      BY <1>1, <2>1, <3>2, <3>3, BusAfter DEF Result
    <3>5. In(AtPort(w), i) /\ q = To(st, AtPort(w))
      BY <1>1, <2>1, <3>2, <3>4, PlacedIs, ToIs
    <3>6. QED
      BY <3>5
  <2>5. QED
    BY <2>3, <2>4
<1>6. CASE \E w \in Ways : q = OnBus(w) /\ ex_cm'[w].valid /\ ex_cm'[w].rob_idx = i
  <2>1. PICK w \in Ways : q = OnBus(w) /\ ex_cm'[w].valid /\ ex_cm'[w].rob_idx = i
    BY <1>6
  <2>2. ex_cm'[w] = ex_packet[w]
    BY <1>1 DEF Advance
  <2>3. CASE mult_done(w)
    <3>1. mult_dones[w][STAGES] /\ mult_chain[w][STAGES].rob_idx = i /\ STAGES \in 1 .. STAGES
      BY <1>1, <2>1, <2>2, <2>3, BusAfter, Sizes DEF mult_done, Mult!done
    <3>2. In(InStage(w, STAGES), i) /\ q = To(st, InStage(w, STAGES))
      BY <1>1, <2>1, <3>1, PlacedIs, ToIs
    <3>3. QED
      BY <3>2
  <2>4. CASE w = 0 /\ rd_en
    <3>1. ex_cm'[0] = load_buffer[1] /\ Len(load_buffer) >= 1 /\ load_buffer \in Seq(Results)
      BY <1>1, <2>2, <2>4, BusAfter, LoadsAfter, HeadElsewhere DEF IssueInv, TypeOK
    <3>2. 1 \in 1 .. Len(load_buffer)
      BY <3>1
    <3>3. In(InBuffer(1), i) /\ q = To(st, InBuffer(1))
      BY <1>1, <2>1, <2>4, <3>1, <3>2, PlacedIs, ToIs
    <3>4. QED
      BY <3>3
  <2>5. CASE Leaves(w)
    <3>1. is_ex[w].rob_idx = i /\ is_ex[w].valid /\ ~ex_stall(w) /\ ~mult_en(w) /\ ~wr_en(w)
      BY <1>1, <2>1, <2>2, <2>5, BusAfter DEF Leaves
    <3>2. In(AtPort(w), i) /\ q = To(st, AtPort(w))
      BY <1>1, <2>1, <3>1, PlacedIs, ToIs
    <3>3. QED
      BY <3>2
  <2>6. QED
    BY <1>1, <2>1, <2>2, <2>3, <2>4, <2>5, BusAfter
<1>7. CASE q = Completed /\ i \in Slot /\ retire_tag'[i]
  <2>1. PICK r \in 0 .. 2 : Moves(n, r)
    BY <1>1, StepMoves
  <2>2. Rob!Completed(cdb, i)
    BY <1>7, <2>1, SameRing DEF Moves
  <2>3. retire_tag[i] \/ \E w \in Ways : cdb[w].valid /\ cdb[w].rob_idx = i
    BY <2>2 DEF Rob!Completed, Rob!CompletesNow, Rob!Ways, Ways
  <2>4. In(Completed, i) \/ \E w \in Ways : In(OnBus(w), i)
    BY <1>1, <1>7, <2>3, PlacedIs DEF cdb
  <2>5. QED
    BY <1>7, <2>4, ToIs
<1>8. QED
  BY <1>2, <1>3, <1>4, <1>5, <1>6, <1>7 DEF In

(* Whatever is somewhere before a step, and does not retire, goes where To says. *)
LEMMA Forward ==
  ASSUME NEW n, NEW taken, NEW st, NEW answered, Step(n, taken, st, answered),
         NEW r \in 0 .. 2, Moves(n, r), NEW p, NEW i, In(p, i), r <= R!Age(i),
         NEW q, q = To(st, p)
  PROVE  In(q, i)'
<1>1. /\ IssueInv /\ UntilDefect /\ DELAY = STAGES /\ n \in 0 .. 2
      /\ taken \in SUBSET Branches /\ Advance(n, taken, st, answered)
  BY DEF Step
<1>2. CASE \E w \in Ways, k \in Entry :
             p = InStation(w, k) /\ rs[w][k].busy /\ rs[w][k].op.rob_idx = i
  <2>1. PICK w \in Ways, k \in Entry :
             p = InStation(w, k) /\ rs[w][k].busy /\ rs[w][k].op.rob_idx = i
    BY <1>2
  <2>2. StationStep(n, st, w)
    BY <1>1, StationAfter
  <2>3. CASE k \in Gone(st, w)
    <3>1. is_ex'[w] = rs[w][k].op /\ rs[w][k].op.valid
      BY <1>1, <2>1, <2>2, <2>3 DEF StationStep, IssueInv, Packets
    <3>2. q = AtPort(w)
      BY <2>1, <2>3, ToIs
    <3>3. QED
      BY <2>1, <3>1, <3>2 DEF In
  <2>4. CASE k \notin Gone(st, w)
    <3>1. k \notin New(n, w)
      BY <2>1, <2>2 DEF StationStep
    <3>2. rs'[w][k].busy /\ rs'[w][k].op = rs[w][k].op
      BY <2>1, <2>2, <2>4, <3>1 DEF StationStep
    <3>3. q = InStation(w, k)
      BY <2>1, <2>4, ToIs
    <3>4. QED
      BY <2>1, <3>2, <3>3 DEF In
  <2>5. QED
    BY <2>3, <2>4
<1>3. CASE \E w \in Ways : p = AtPort(w) /\ is_ex[w].valid /\ is_ex[w].rob_idx = i
  <2>1. PICK w \in Ways : p = AtPort(w) /\ is_ex[w].valid /\ is_ex[w].rob_idx = i
    BY <1>3
  <2>2. CASE ex_stall(w)
    <3>1. is_ex'[w] = is_ex[w]
      BY <1>1, <2>2, StationAfter DEF StationStep
    <3>2. q = AtPort(w)
      BY <2>1, <2>2, ToIs
    <3>3. QED
      BY <2>1, <3>1, <3>2 DEF In
  <2>3. CASE ~ex_stall(w) /\ mult_en(w)
    <3>1. 1 \in 1 .. STAGES /\ 1 \in 1 .. DELAY
      BY Sizes
    <3>2. mult_dones'[w][1] /\ mult_chain'[w][1] = Result(is_ex[w], alu_result(w))
      BY <2>3, <3>1, StagesAfter
    <3>3. mult_chain'[w][1].rob_idx = i
      BY <2>1, <3>2 DEF Result
    <3>4. q = InStage(w, 1)
      BY <2>1, <2>3, ToIs
    <3>5. QED
      BY <3>1, <3>2, <3>3, <3>4 DEF In
  <2>4. CASE ~ex_stall(w) /\ ~mult_en(w) /\ wr_en(w)
    <3>1. NewLoad(w) \in 1 .. Len(load_buffer') /\ load_buffer'[NewLoad(w)] = Result(is_ex[w], rega_value(w))
      BY <1>1, <2>4, LoadsAfter
    <3>2. q = InBuffer(NewLoad(w))
      BY <2>1, <2>4, ToIs
    <3>3. PICK k : k = NewLoad(w)
      OBVIOUS
    <3>4. k \in 1 .. Len(load_buffer') /\ load_buffer'[k].rob_idx = i /\ q = InBuffer(k)
      BY <2>1, <3>1, <3>2, <3>3 DEF Result
    <3>5. QED
      BY <3>4 DEF In
  <2>5. CASE Leaves(w)
    <3>1. ex_cm'[w].valid /\ ex_cm'[w].rob_idx = i
      BY <1>1, <2>1, <2>5, BusAfter DEF Advance
    <3>2. q = OnBus(w)
      BY <2>1, <2>5, ToIs DEF Leaves
    <3>3. QED
      BY <3>1, <3>2 DEF In
  <2>6. QED
    BY <2>1, <2>2, <2>3, <2>4, <2>5 DEF Leaves
<1>4. CASE \E w \in Ways, k \in 1 .. STAGES :
             p = InStage(w, k) /\ mult_dones[w][k] /\ mult_chain[w][k].rob_idx = i
  <2>1. PICK w \in Ways, k \in 1 .. STAGES :
             p = InStage(w, k) /\ mult_dones[w][k] /\ mult_chain[w][k].rob_idx = i
    BY <1>4
  <2>2. CASE k = STAGES
    <3>1. mult_done(w) /\ mult_chain[w][STAGES].valid
      BY <1>1, <2>1, <2>2 DEF mult_done, Mult!done, IssueInv, Packets
    <3>2. ex_cm'[w] = mult_chain[w][STAGES]
      BY <1>1, <3>1, BusAfter DEF Advance
    <3>3. q = OnBus(w)
      BY <2>1, <2>2, ToIs
    <3>4. QED
      BY <2>1, <2>2, <3>1, <3>2, <3>3 DEF In
  <2>3. CASE k # STAGES
    <3>1. PICK j : j = k + 1
      OBVIOUS
    <3>2. j \in 1 .. STAGES /\ j # 1 /\ j - 1 = k
      BY <2>1, <2>3, <3>1, Sizes
    <3>3. mult_dones'[w][j] = mult_dones[w][j - 1] /\ mult_chain'[w][j] = mult_chain[w][j - 1]
      BY <1>1, <3>2, StagesAfter
    <3>4. mult_dones'[w][j] /\ mult_chain'[w][j].rob_idx = i
      BY <2>1, <3>2, <3>3
    <3>5. q = InStage(w, j)
      BY <2>1, <2>3, <3>1, ToIs
    <3>6. QED
      BY <3>2, <3>4, <3>5 DEF In
  <2>4. QED
    BY <2>2, <2>3
<1>5. CASE \E k \in 1 .. Len(load_buffer) : p = InBuffer(k) /\ load_buffer[k].rob_idx = i
  <2>1. PICK k \in 1 .. Len(load_buffer) : p = InBuffer(k) /\ load_buffer[k].rob_idx = i
    BY <1>5
  <2>2. /\ load_buffer \in Seq(Results) /\ Len(load_buffer) \in Nat
        /\ Staying \in Nat /\ Staying = Len(load_buffer) - Bit(rd_en)
        /\ Len(load_buffer') >= Staying /\ Len(load_buffer') \in Nat
    <3>1. load_buffer \in Seq(Results)
      BY <1>1 DEF IssueInv, TypeOK
    <3>2. Bit(wr_en(0)) \in Nat /\ Bit(wr_en(1)) \in Nat
      BY DEF Bit
    <3>3. QED
      BY <1>1, <3>1, <3>2, LoadsAfter
  <2>3. CASE rd_en /\ k = 1
    <3>1. Head(load_buffer) = load_buffer[1] /\ load_buffer[1].valid
      BY <1>1, <2>3, LoadsAfter, HeadElsewhere
    <3>2. ex_cm'[0] = Head(load_buffer)
      BY <1>1, <2>3, BusAfter, Sets DEF Advance
    <3>3. q = OnBus(0)
      BY <2>1, <2>3, ToIs
    <3>4. QED
      BY <2>1, <2>3, <3>1, <3>2, <3>3, Sets DEF In
  <2>4. CASE ~(rd_en /\ k = 1)
    <3>1. PICK j : j = k - Bit(rd_en)
      OBVIOUS
    <3>2. j \in 1 .. Staying /\ j + Bit(rd_en) = k /\ j \in 1 .. Len(load_buffer')
      BY <2>1, <2>2, <2>4, <3>1 DEF Bit
    <3>3. load_buffer'[j].rob_idx = i
      BY <1>1, <2>1, <3>2, LoadsAfter
    <3>4. q = InBuffer(j)
      <4>1. CASE rd_en
        <5>1. j = k - 1
          BY <3>1, <4>1 DEF Bit
        <5>2. QED
          BY <2>1, <2>4, <4>1, <5>1, ToIs
      <4>2. CASE ~rd_en
        <5>1. j = k
          BY <2>1, <3>1, <4>2 DEF Bit
        <5>2. QED
          BY <2>1, <4>2, <5>1, ToIs
      <4>3. QED
        BY <4>1, <4>2
    <3>5. QED
      BY <3>2, <3>3, <3>4 DEF In
  <2>5. QED
    BY <2>3, <2>4
<1>6. CASE \/ \E w \in Ways : p = OnBus(w) /\ ex_cm[w].valid /\ ex_cm[w].rob_idx = i
           \/ p = Completed /\ i \in Slot /\ retire_tag[i]
  <2>1. i \in Slot /\ data[i].valid
    BY <1>1 DEF IssueInv, Placed
  <2>2. Rob!Completed(cdb, i)
    BY <1>6, <2>1 DEF Rob!Completed, Rob!CompletesNow, Rob!Ways, Ways, cdb
  <2>3. retire_tag'[i]
    BY <2>1, <2>2, SameRing DEF Moves
  <2>4. q = Completed
    BY <1>6, ToIs
  <2>5. QED
    BY <2>1, <2>3, <2>4 DEF In
<1>7. QED
  BY <1>2, <1>3, <1>4, <1>5, <1>6 DEF In

(* Where instructions enter the ring. *)
LEMMA EntersAt ==
  ASSUME IssueInv, NEW n \in 0 .. 2, NEW w \in Ways, w < Entering(n)
  PROVE  /\ rob_idx(w) \in Slot /\ R!Age(rob_idx(w)) = entry_cnt + w
         /\ ~data[rob_idx(w)].valid
         /\ \A i \in Slot : R!Age(i) = entry_cnt + w => i = rob_idx(w)
<1>1. /\ head \in Slot /\ tail \in Slot /\ entry_cnt \in 0 .. ROB_SIZE
      /\ tail = R!Wrap(head + entry_cnt)
      /\ \A i \in Slot : data[i].valid <=> R!Age(i) < entry_cnt
  BY Sets DEF IssueInv, R!RingInv, R!TypeOK, R!WindowExact
<1>2. entry_cnt + 2 <= ROB_SIZE
  BY DispatchCount, Sets
<1>3. rob_idx(w) = IF w = 0 THEN tail ELSE R!Wrap(tail + 1)
  BY SameRing DEF rob_idx, R!tail_p1
<1>4. rob_idx(w) \in Slot /\ R!Age(rob_idx(w)) = entry_cnt + w
  BY <1>1, <1>2, <1>3, Sizes, Sets DEF R!Age, R!Wrap, Slot
<1>5. \A i \in Slot : R!Age(i) = entry_cnt + w => i = rob_idx(w)
  BY <1>1, <1>2, <1>3, Sizes, Sets DEF R!Age, R!Wrap, Slot
<1>6. ~data[rob_idx(w)].valid
  BY <1>1, <1>4, Sets
<1>7. QED
  BY <1>4, <1>5, <1>6

(* Whoever is neither on a bus nor completed stays in flight, as the same instruction. *)
LEMMA Kept ==
  ASSUME NEW n, NEW taken, NEW st, NEW answered, Step(n, taken, st, answered),
         NEW r \in 0 .. 2, Moves(n, r), NEW p, NEW i, In(p, i), To(st, p) # Completed
  PROVE  /\ i \in Slot /\ r <= R!Age(i) /\ R!Age(i) < entry_cnt /\ R!Age(i) \in Nat
         /\ data'[i].valid /\ data'[i].ins = data[i].ins
<1>1. IssueInv /\ i \in Slot /\ data[i].valid
  BY DEF Step, IssueInv, Placed
<1>2. R!Age(i) < entry_cnt /\ entry_cnt \in Nat /\ Entering(n) \in 0 .. 2
  BY <1>1, DispatchCount, Sets DEF Step, IssueInv, R!RingInv, R!WindowExact, R!TypeOK
<1>3. R!Age(i) \in Nat
  BY <1>1, R!AgeType, RobParams, Sets DEF IssueInv, Slot
<1>4. r <= R!Age(i)
  <2>1. SUFFICES ASSUME R!Age(i) < r PROVE FALSE
    BY <1>3
  <2>2. Rob!Completed(cdb, i)
    BY <1>1, <2>1, SameRing DEF Moves
  <2>3. retire_tag[i] \/ \E w \in Ways : cdb[w].valid /\ cdb[w].rob_idx = i
    BY <2>2 DEF Rob!Completed, Rob!CompletesNow, Rob!Ways, Ways
  <2>4. In(Completed, i) \/ \E w \in Ways : In(OnBus(w), i)
    BY <1>1, <2>3, PlacedIs DEF cdb
  <2>5. p = Completed \/ \E w \in Ways : p = OnBus(w)
    BY <1>1, <2>4 DEF IssueInv, Placed
  <2>6. QED
    BY <2>5, ToIs
<1>5. data'[i].valid /\ data'[i].ins = data[i].ins
  BY <1>1, <1>2, <1>3, <1>4 DEF Moves
<1>6. QED
  BY <1>1, <1>2, <1>3, <1>4, <1>5

LEMMA StepPlaced ==
  ASSUME NEW n, NEW taken, NEW st, NEW answered, Step(n, taken, st, answered)
  PROVE  Placed'
<1>1. /\ IssueInv /\ UntilDefect /\ DELAY = STAGES /\ n \in 0 .. 2
      /\ taken \in SUBSET Branches /\ Advance(n, taken, st, answered)
  BY DEF Step
<1>2. PICK r \in 0 .. 2 : Moves(n, r)
  BY <1>1, StepMoves
<1>3. Entering(n) \in 0 .. 2 /\ entry_cnt \in Nat
  BY <1>1, DispatchCount, Sizes DEF IssueInv, R!RingInv, R!TypeOK
<1>4. ASSUME NEW i \in Slot, data'[i].valid
      PROVE  \E q : In(q, i)'
  <2>1. r <= R!Age(i) /\ R!Age(i) < entry_cnt + Entering(n) /\ R!Age(i) \in Nat
    <3>1. R!Age(i) \in Nat
      BY <1>1, R!AgeType, RobParams, Sets DEF IssueInv, Slot
    <3>2. r <= R!Age(i) /\ R!Age(i) < entry_cnt + Entering(n)
      BY <1>2, <1>4 DEF Moves
    <3>3. QED
      BY <3>1, <3>2
  <2>2. CASE R!Age(i) < entry_cnt
    <3>1. data[i].valid
      BY <1>1, <2>2, Sets DEF IssueInv, R!RingInv, R!WindowExact
    <3>2. PICK p : In(p, i)
      BY <1>1, <3>1 DEF IssueInv, Placed
    <3>3. PICK q : q = To(st, p)
      OBVIOUS
    <3>4. In(q, i)'
      BY <1>2, <2>1, <3>2, <3>3, Forward
    <3>5. QED
      BY <3>4
  <2>3. CASE ~(R!Age(i) < entry_cnt)
    <3>1. PICK w \in Ways : w < Entering(n) /\ R!Age(i) = entry_cnt + w
      <4>1. \/ R!Age(i) = entry_cnt + 0 /\ 0 < Entering(n)
            \/ R!Age(i) = entry_cnt + 1 /\ 1 < Entering(n)
        BY <1>3, <2>1, <2>3
      <4>2. QED
        BY <4>1, Sets
    <3>2. i = rob_idx(w)
      BY <1>1, <3>1, EntersAt
    <3>3. StationStep(n, st, w)
      BY <1>1, StationAfter
    <3>4. PICK k : k \in New(n, w)
      BY <3>1, <3>3 DEF StationStep
    <3>5. k \in Entry /\ rs'[w][k].busy /\ rs'[w][k].op = packet(w).op
      BY <3>3, <3>4 DEF StationStep
    <3>6. rs'[w][k].op.rob_idx = i
      BY <3>2, <3>5 DEF packet
    <3>7. In(InStation(w, k), i)'
      BY <3>5, <3>6 DEF In, InStation
    <3>8. QED
      BY <3>7
  <2>4. QED
    BY <2>2, <2>3
<1>5. ASSUME NEW q, NEW i, Fresh(n, q, i)
      PROVE  i \in Slot /\ data'[i].valid /\ ~data[i].valid
  <2>1. PICK w \in Ways : w < Entering(n) /\ i = rob_idx(w)
    BY <1>5 DEF Fresh
  <2>2. i \in Slot /\ R!Age(i) = entry_cnt + w /\ ~data[i].valid
    BY <1>1, <2>1, EntersAt
  <2>3. data'[i].valid
    BY <1>2, <1>3, <2>1, <2>2, Sets DEF Moves
  <2>4. QED
    BY <2>2, <2>3
<1>6. ASSUME NEW q, NEW i, In(q, i)'
      PROVE  i \in Slot /\ data'[i].valid
  <2>1. CASE Fresh(n, q, i)
    BY <1>5, <2>1
  <2>2. CASE ~Fresh(n, q, i)
    <3>1. PICK p : In(p, i) /\ q = To(st, p)
      BY <1>6, <2>2, Backward
    <3>2. CASE q # Completed
      BY <1>2, <3>1, <3>2, Kept
    <3>3. CASE q = Completed
      <4>1. i \in Slot /\ retire_tag'[i]
        BY <1>6, <3>3, Distinct DEF In
      <4>2. r <= R!Age(i) /\ data[i].valid
        BY <1>1, <1>2, <3>1, <4>1 DEF Moves, IssueInv, Placed
      <4>3. R!Age(i) < entry_cnt
        BY <1>1, <4>1, <4>2, Sets DEF IssueInv, R!RingInv, R!WindowExact
      <4>4. R!Age(i) \in Nat
        BY <1>1, <4>1, R!AgeType, RobParams, Sets DEF IssueInv, Slot
      <4>5. QED
        BY <1>2, <1>3, <4>1, <4>2, <4>3, <4>4 DEF Moves
    <3>4. QED
      BY <3>2, <3>3
  <2>3. QED
    BY <2>1, <2>2
<1>7. ASSUME NEW p, NEW q, NEW i, In(p, i)', In(q, i)'
      PROVE  p = q
  <2>1. \/ \E x : In(x, i) /\ p = To(st, x)
        \/ Fresh(n, p, i)
    BY <1>7, Backward
  <2>2. \/ \E x : In(x, i) /\ q = To(st, x)
        \/ Fresh(n, q, i)
    BY <1>7, Backward
  <2>3. (\E x : In(x, i)) => data[i].valid
    BY <1>1 DEF IssueInv, Placed
  <2>4. CASE \E x : In(x, i)
    <3>1. PICK x, y : In(x, i) /\ In(y, i) /\ p = To(st, x) /\ q = To(st, y)
      BY <1>5, <2>1, <2>2, <2>3, <2>4
    <3>2. x = y
      BY <1>1, <3>1 DEF IssueInv, Placed
    <3>3. QED
      BY <3>1, <3>2
  <2>5. CASE ~\E x : In(x, i)
    <3>1. Fresh(n, p, i) /\ Fresh(n, q, i)
      BY <2>1, <2>2, <2>5
    <3>2. PICK w \in Ways : w < Entering(n) /\ i = rob_idx(w) /\ \E k \in New(n, w) : p = InStation(w, k)
      BY <3>1 DEF Fresh
    <3>3. PICK v \in Ways : v < Entering(n) /\ i = rob_idx(v) /\ \E k \in New(n, v) : q = InStation(v, k)
      BY <3>1 DEF Fresh
    <3>4. w = v
      <4>1. R!Age(i) = entry_cnt + w /\ R!Age(i) = entry_cnt + v
        BY <1>1, <3>2, <3>3, EntersAt
      <4>2. QED
        BY <1>3, <4>1, Sets
    <3>5. \A k, j \in New(n, w) : k = j
      BY <1>1, StationAfter DEF StationStep
    <3>6. QED
      BY <3>2, <3>3, <3>4, <3>5
  <2>6. QED
    BY <2>4, <2>5
<1>8. QED
  BY <1>4, <1>6, <1>7 DEF Placed

LEMMA StepPackets ==
  ASSUME NEW n, NEW taken, NEW st, NEW answered, Step(n, taken, st, answered)
  PROVE  Packets'
<1>1. /\ IssueInv /\ UntilDefect /\ DELAY = STAGES /\ n \in 0 .. 2
      /\ taken \in SUBSET Branches /\ Advance(n, taken, st, answered) /\ Packets
  BY DEF Step, IssueInv
<1>2. ASSUME NEW w \in Ways, NEW k \in Entry, rs'[w][k].busy
      PROVE  rs'[w][k].op.valid
  <2>1. StationStep(n, st, w)
    BY <1>1, StationAfter
  <2>2. CASE k \in New(n, w)
    BY <2>1, <2>2 DEF StationStep, packet
  <2>3. CASE k \notin New(n, w)
    BY <1>1, <1>2, <2>1, <2>3 DEF StationStep, Packets
  <2>4. QED
    BY <2>2, <2>3
<1>3. ASSUME NEW w \in Ways, NEW k \in 1 .. STAGES, mult_dones'[w][k]
      PROVE  mult_chain'[w][k].valid
  <2>1. CASE k = 1
    <3>1. mult_en(w) /\ mult_chain'[w][k] = Result(is_ex[w], alu_result(w))
      BY <1>1, <1>3, <2>1, StagesAfter
    <3>2. QED
      BY <1>1, <3>1, BusAfter DEF Result
  <2>2. CASE k # 1
    <3>1. k - 1 \in 1 .. STAGES
      BY <2>2, Sizes
    <3>2. QED
      BY <1>1, <1>3, <2>2, <3>1, StagesAfter DEF Packets
  <2>3. QED
    BY <2>1, <2>2
<1>4. ASSUME NEW k \in 1 .. Len(load_buffer')
      PROVE  load_buffer'[k].valid
  <2>1. load_buffer \in Seq(Results) /\ Staying \in Nat /\ Staying = Len(load_buffer) - Bit(rd_en)
        /\ Bit(rd_en) \in 0 .. 1
    BY <1>1, LoadsAfter DEF IssueInv, TypeOK, Bit
  <2>2. CASE k \in 1 .. Staying
    <3>1. PICK j : j = k + Bit(rd_en)
      OBVIOUS
    <3>2. j \in 1 .. Len(load_buffer)
      BY <2>1, <2>2, <3>1
    <3>3. load_buffer'[k] = load_buffer[j]
      BY <1>1, <2>2, <3>1, LoadsAfter
    <3>4. QED
      BY <1>1, <3>2, <3>3 DEF Packets
  <2>3. CASE k \notin 1 .. Staying
    <3>1. k \in Staying + 1 .. Len(load_buffer')
      BY <2>1, <2>3
    <3>2. PICK w \in Ways : wr_en(w) /\ k = NewLoad(w)
      BY <1>1, <3>1, LoadsAfter
    <3>3. load_buffer'[k] = Result(is_ex[w], rega_value(w))
      BY <1>1, <3>2, LoadsAfter
    <3>4. QED
      BY <1>1, <3>2, <3>3, BusAfter DEF Result
  <2>4. QED
    BY <2>2, <2>3
<1>5. ASSUME NEW w \in Ways
      PROVE  is_ex'[w].valid \/ is_ex'[w] = Bubble
  <2>1. StationStep(n, st, w)
    BY <1>1, StationAfter
  <2>2. CASE ex_stall(w)
    BY <1>1, <2>1, <2>2 DEF StationStep, Packets
  <2>3. CASE ~ex_stall(w) /\ Gone(st, w) = {}
    BY <2>1, <2>3 DEF StationStep
  <2>4. CASE Gone(st, w) # {}
    <3>1. PICK k : k \in Gone(st, w)
      BY <2>4
    <3>2. k \in Entry /\ rs[w][k].busy /\ is_ex'[w] = rs[w][k].op
      BY <2>1, <3>1 DEF StationStep
    <3>3. QED
      BY <1>1, <3>2 DEF Packets
  <2>5. QED
    BY <2>2, <2>3, <2>4
<1>6. QED
  BY <1>2, <1>3, <1>4, <1>5 DEF Packets

LEMMA StepTags ==
  ASSUME NEW n, NEW taken, NEW st, NEW answered, Step(n, taken, st, answered)
  PROVE  TagsOwn'
<1>1. /\ IssueInv /\ UntilDefect /\ DELAY = STAGES /\ n \in 0 .. 2
      /\ taken \in SUBSET Branches /\ Advance(n, taken, st, answered) /\ TagsOwn
  BY DEF Step, IssueInv
<1>2. PICK r \in 0 .. 2 : Moves(n, r)
  BY <1>1, StepMoves
<1>3. Entering(n) \in 0 .. 2
  BY <1>1, DispatchCount
<1>4. ASSUME NEW w \in Ways, NEW k \in Entry, rs[w][k].busy
      PROVE  data'[rs[w][k].op.rob_idx].ins = data[rs[w][k].op.rob_idx].ins
  <2>1. In(InStation(w, k), rs[w][k].op.rob_idx)
    BY <1>1, <1>4, PlacedIs
  <2>2. To(st, InStation(w, k)) # Completed
    BY ToIs, Distinct
  <2>3. QED
    BY <1>2, <2>1, <2>2, Kept
<1>5. ASSUME NEW w \in Ways, is_ex[w].valid
      PROVE  data'[is_ex[w].rob_idx].ins = data[is_ex[w].rob_idx].ins
  <2>1. In(AtPort(w), is_ex[w].rob_idx)
    BY <1>1, <1>5, PlacedIs
  <2>2. To(st, AtPort(w)) # Completed
    BY ToIs, Distinct
  <2>3. QED
    BY <1>2, <2>1, <2>2, Kept
<1>6. ASSUME NEW w \in Ways, NEW k \in 1 .. STAGES, mult_dones[w][k]
      PROVE  data'[mult_chain[w][k].rob_idx].ins = data[mult_chain[w][k].rob_idx].ins
  <2>1. In(InStage(w, k), mult_chain[w][k].rob_idx)
    BY <1>1, <1>6, PlacedIs
  <2>2. To(st, InStage(w, k)) # Completed
    BY ToIs, Distinct
  <2>3. QED
    BY <1>2, <2>1, <2>2, Kept
<1>7. ASSUME NEW k \in 1 .. Len(load_buffer)
      PROVE  data'[load_buffer[k].rob_idx].ins = data[load_buffer[k].rob_idx].ins
  <2>1. In(InBuffer(k), load_buffer[k].rob_idx)
    BY <1>1, PlacedIs
  <2>2. To(st, InBuffer(k)) # Completed
    BY ToIs, Distinct
  <2>3. QED
    BY <1>2, <2>1, <2>2, Kept
<1>8. ASSUME NEW w \in Ways, NEW k \in Entry, rs'[w][k].busy
      PROVE  rs'[w][k].op.pdest = data'[rs'[w][k].op.rob_idx].ins.pdest
  <2>1. StationStep(n, st, w)
    BY <1>1, StationAfter
  <2>2. CASE k \in New(n, w)
    <3>1. w < Entering(n) /\ rs'[w][k].op = packet(w).op
      BY <2>1, <2>2 DEF StationStep
    <3>2. rs'[w][k].op.rob_idx = rob_idx(w) /\ rs'[w][k].op.pdest = PdestOf(w)
      BY <3>1 DEF packet
    <3>3. rob_idx(w) \in Slot /\ R!Age(rob_idx(w)) = entry_cnt + w
      BY <1>1, <3>1, EntersAt
    <3>4. data'[rob_idx(w)].ins.pdest = PdestOf(w)
      <4>1. CASE w = 0
        <5>1. R!Age(rob_idx(w)) = entry_cnt /\ Entering(n) >= 1
          BY <1>1, <1>3, <3>1, <3>3, <4>1 DEF IssueInv, R!RingInv, R!TypeOK
        <5>2. QED
          BY <1>2, <3>3, <4>1, <5>1 DEF Moves
      <4>2. CASE w = 1
        <5>1. R!Age(rob_idx(w)) = entry_cnt + 1 /\ Entering(n) = 2
          BY <1>3, <3>1, <3>3, <4>2
        <5>2. QED
          BY <1>2, <3>3, <4>2, <5>1 DEF Moves
      <4>3. QED
        BY <4>1, <4>2, Sets
    <3>5. QED
      BY <3>2, <3>4
  <2>3. CASE k \notin New(n, w)
    <3>1. rs[w][k].busy /\ rs'[w][k].op = rs[w][k].op
      BY <1>8, <2>1, <2>3 DEF StationStep
    <3>2. QED
      BY <1>1, <1>4, <3>1 DEF TagsOwn
  <2>4. QED
    BY <2>2, <2>3
<1>9. ASSUME NEW w \in Ways, is_ex'[w].valid
      PROVE  is_ex'[w].pdest = data'[is_ex'[w].rob_idx].ins.pdest
  <2>1. StationStep(n, st, w)
    BY <1>1, StationAfter
  <2>2. CASE ex_stall(w)
    <3>1. is_ex'[w] = is_ex[w]
      BY <2>1, <2>2 DEF StationStep
    <3>2. QED
      BY <1>1, <1>5, <1>9, <3>1 DEF TagsOwn
  <2>3. CASE ~ex_stall(w)
    <3>1. PICK k : k \in Gone(st, w)
      BY <1>9, <2>1, <2>3 DEF StationStep, Bubble
    <3>2. k \in Entry /\ rs[w][k].busy /\ is_ex'[w] = rs[w][k].op
      BY <2>1, <3>1 DEF StationStep
    <3>3. QED
      BY <1>1, <1>4, <3>2 DEF TagsOwn
  <2>4. QED
    BY <2>2, <2>3
<1>10. ASSUME NEW w \in Ways, NEW k \in 1 .. STAGES, mult_dones'[w][k]
       PROVE  mult_chain'[w][k].tag = data'[mult_chain'[w][k].rob_idx].ins.pdest
  <2>1. CASE k = 1
    <3>1. mult_en(w) /\ mult_chain'[w][k] = Result(is_ex[w], alu_result(w))
      BY <1>1, <1>10, <2>1, StagesAfter
    <3>2. is_ex[w].valid
      BY <1>1, <3>1, BusAfter
    <3>3. mult_chain'[w][k].tag = is_ex[w].pdest /\ mult_chain'[w][k].rob_idx = is_ex[w].rob_idx
      BY <3>1 DEF Result
    <3>4. QED
      BY <1>1, <1>5, <3>2, <3>3 DEF TagsOwn
  <2>2. CASE k # 1
    <3>1. PICK j : j = k - 1
      OBVIOUS
    <3>2. j \in 1 .. STAGES
      BY <2>2, <3>1, Sizes
    <3>3. mult_dones[w][j] /\ mult_chain'[w][k] = mult_chain[w][j]
      BY <1>1, <1>10, <2>2, <3>1, StagesAfter
    <3>4. QED
      BY <1>1, <1>6, <3>2, <3>3 DEF TagsOwn
  <2>3. QED
    BY <2>1, <2>2
<1>11. ASSUME NEW k \in 1 .. Len(load_buffer')
       PROVE  load_buffer'[k].tag = data'[load_buffer'[k].rob_idx].ins.pdest
  <2>1. load_buffer \in Seq(Results) /\ Staying \in Nat /\ Staying = Len(load_buffer) - Bit(rd_en)
        /\ Bit(rd_en) \in 0 .. 1
    BY <1>1, LoadsAfter DEF IssueInv, TypeOK, Bit
  <2>2. CASE k \in 1 .. Staying
    <3>1. PICK j : j = k + Bit(rd_en)
      OBVIOUS
    <3>2. j \in 1 .. Len(load_buffer)
      BY <2>1, <2>2, <3>1
    <3>3. load_buffer'[k] = load_buffer[j]
      BY <1>1, <2>2, <3>1, LoadsAfter
    <3>4. QED
      BY <1>1, <1>7, <3>2, <3>3 DEF TagsOwn
  <2>3. CASE k \notin 1 .. Staying
    <3>1. k \in Staying + 1 .. Len(load_buffer')
      BY <2>1, <2>3
    <3>2. PICK w \in Ways : wr_en(w) /\ k = NewLoad(w)
      BY <1>1, <3>1, LoadsAfter
    <3>3. load_buffer'[k] = Result(is_ex[w], rega_value(w))
      BY <1>1, <3>2, LoadsAfter
    <3>4. load_buffer'[k].tag = is_ex[w].pdest /\ load_buffer'[k].rob_idx = is_ex[w].rob_idx
      BY <3>3 DEF Result
    <3>5. is_ex[w].valid
      BY <1>1, <3>2, BusAfter
    <3>6. QED
      BY <1>1, <1>5, <3>4, <3>5 DEF TagsOwn
  <2>4. QED
    BY <2>2, <2>3
<1>12. ASSUME NEW w \in Ways, ex_cm'[w].valid
       PROVE  ex_cm'[w].tag = data'[ex_cm'[w].rob_idx].ins.pdest
  <2>1. ex_cm'[w] = ex_packet[w]
    BY <1>1 DEF Advance
  <2>2. CASE mult_done(w)
    <3>1. mult_dones[w][STAGES] /\ STAGES \in 1 .. STAGES /\ ex_cm'[w] = mult_chain[w][STAGES]
      BY <1>1, <2>1, <2>2, BusAfter, Sizes DEF mult_done, Mult!done
    <3>2. QED
      BY <1>1, <1>6, <3>1 DEF TagsOwn
  <2>3. CASE w = 0 /\ rd_en
    <3>1. ex_cm'[w] = load_buffer[1] /\ Len(load_buffer) >= 1 /\ load_buffer \in Seq(Results)
      BY <1>1, <2>1, <2>3, BusAfter, LoadsAfter, HeadElsewhere DEF IssueInv, TypeOK
    <3>2. 1 \in 1 .. Len(load_buffer)
      BY <3>1
    <3>3. QED
      BY <1>1, <1>7, <3>1, <3>2 DEF TagsOwn
  <2>4. CASE Leaves(w)
    <3>1. ex_cm'[w].rob_idx = is_ex[w].rob_idx /\ ex_cm'[w].tag = is_ex[w].pdest /\ is_ex[w].valid
      BY <1>1, <2>1, <2>4, BusAfter DEF Leaves
    <3>2. QED
      BY <1>1, <1>5, <3>1 DEF TagsOwn
  <2>5. QED
    BY <1>1, <1>12, <2>1, <2>2, <2>3, <2>4, BusAfter
<1>13. QED
  BY <1>8, <1>9, <1>10, <1>11, <1>12 DEF TagsOwn

(* What an instruction reads is right. *)
LEMMA ReadsRight ==
  ASSUME IssueInv, NEW w \in Ways
  PROVE  rega_value(w) /\ regb_value(w) /\ alu_result(w)
<1>1. \A v \in Ways : ex_cm[v].value
  BY DEF IssueInv, ValuesRight
<1>2. HasValue(is_ex[w].prega) /\ HasValue(is_ex[w].pregb)
  BY DEF IssueInv, OperandsWritten
<1>3. \A e, r : HasValue(r) => Read(e, r)
  BY <1>1, Sets DEF Read, HasValue, cdb
<1>4. QED
  BY <1>2, <1>3 DEF rega_value, regb_value, alu_result

LEMMA StepValues ==
  ASSUME NEW n, NEW taken, NEW st, NEW answered, Step(n, taken, st, answered)
  PROVE  ValuesRight'
<1>1. /\ IssueInv /\ UntilDefect /\ DELAY = STAGES /\ n \in 0 .. 2
      /\ taken \in SUBSET Branches /\ Advance(n, taken, st, answered) /\ ValuesRight
  BY DEF Step, IssueInv
<1>2. \A w \in Ways : Result(is_ex[w], rega_value(w)).value /\ Result(is_ex[w], alu_result(w)).value
  BY <1>1, ReadsRight DEF Result
<1>3. ASSUME NEW w \in Ways, NEW k \in 1 .. DELAY
      PROVE  mult_chain'[w][k].value
  <2>1. CASE k = 1
    BY <1>2, <2>1, StagesAfter DEF NoResult
  <2>2. CASE k # 1
    <3>1. k - 1 \in 1 .. DELAY
      BY <2>2, Sizes
    <3>2. QED
      BY <1>1, <2>2, <3>1, StagesAfter DEF ValuesRight
  <2>3. QED
    BY <2>1, <2>2
<1>4. ASSUME NEW k \in 1 .. Len(load_buffer')
      PROVE  load_buffer'[k].value
  <2>1. load_buffer \in Seq(Results) /\ Staying \in Nat /\ Staying = Len(load_buffer) - Bit(rd_en)
        /\ Bit(rd_en) \in 0 .. 1
    BY <1>1, LoadsAfter DEF IssueInv, TypeOK, Bit
  <2>2. CASE k \in 1 .. Staying
    <3>1. PICK j : j = k + Bit(rd_en)
      OBVIOUS
    <3>2. j \in 1 .. Len(load_buffer)
      BY <2>1, <2>2, <3>1
    <3>3. load_buffer'[k] = load_buffer[j]
      BY <1>1, <2>2, <3>1, LoadsAfter
    <3>4. QED
      BY <1>1, <3>2, <3>3 DEF ValuesRight
  <2>3. CASE k \notin 1 .. Staying
    <3>1. k \in Staying + 1 .. Len(load_buffer')
      BY <2>1, <2>3
    <3>2. PICK w \in Ways : wr_en(w) /\ k = NewLoad(w)
      BY <1>1, <3>1, LoadsAfter
    <3>3. load_buffer'[k] = Result(is_ex[w], rega_value(w))
      BY <1>1, <3>2, LoadsAfter
    <3>4. QED
      BY <1>2, <3>3
  <2>4. QED
    BY <2>2, <2>3
<1>5. ASSUME NEW w \in Ways
      PROVE  ex_cm'[w].value
  <2>1. ex_cm'[w] = ex_packet[w]
    BY <1>1 DEF Advance
  <2>2. mult_chain[w][STAGES].value
    BY <1>1, Sizes DEF ValuesRight
  <2>3. dout_valid => Head(load_buffer).value
    <3>1. SUFFICES ASSUME dout_valid PROVE Head(load_buffer).value
      OBVIOUS
    <3>2. load_buffer # <<>>
      BY <1>1, <3>1 DEF IssueInv, TypeOK
    <3>3. Head(load_buffer) = load_buffer[1] /\ 1 \in 1 .. Len(load_buffer)
      BY <1>1, <3>2 DEF IssueInv, TypeOK
    <3>4. QED
      BY <1>1, <3>3 DEF ValuesRight
  <2>4. QED
    BY <1>1, <1>2, <2>1, <2>2, <2>3, BusAfter DEF NoResult
<1>6. QED
  BY <1>3, <1>4, <1>5 DEF ValuesRight

-----------------------------------------------------------------------------
(* The instruction an operand comes from is the same bundle's first, one in flight, or
   one that has left. *)
Source(w, d, i) ==
  /\ i \in Slot /\ data[i].valid /\ R!Age(i) = entry_cnt + w - d
  /\ Operand(w, d).preg = data[i].ins.pdest
  /\ Operand(w, d).ready <=> data[i].ins.pdest = ZERO_PREG \/ R!Completed(cdb, i)

LEMMA OperandIs ==
  ASSUME IssueInv, NEW w \in Ways, NEW d \in Nat
  PROVE  \/ Operand(w, d).preg = ZERO_PREG
         \/ w = 1 /\ d = 1 /\ Operand(w, d) = [preg |-> PdestOf(0), ready |-> PdestOf(0) = ZERO_PREG]
         \/ \E i \in Slot : Source(w, d, i)
<1>1. /\ head \in Slot /\ tail \in Slot /\ entry_cnt \in 0 .. ROB_SIZE
      /\ tail = R!Wrap(head + entry_cnt)
      /\ \A i \in Slot : data[i].valid <=> R!Age(i) < entry_cnt
  BY Sets DEF IssueInv, R!RingInv, R!TypeOK, R!WindowExact
<1>2. CASE d = 0 \/ d > entry_cnt + w
  BY <1>2 DEF Operand
<1>3. CASE ~(d = 0 \/ d > entry_cnt + w) /\ w = 1 /\ d = 1
  BY <1>3 DEF Operand
<1>4. CASE ~(d = 0 \/ d > entry_cnt + w) /\ ~(w = 1 /\ d = 1)
  <2>1. PICK i : i = (tail + w - d) % ROB_SIZE
    OBVIOUS
  <2>2. PICK x \in Int : x = tail + w - d
    BY <1>1, Sets DEF Slot
  <2>3. x < ROB_SIZE /\ -ROB_SIZE <= x
    BY <1>1, <1>4, <2>2, Sets, Sizes DEF Slot
  <2>4. ROB_SIZE \in Nat \ {0}
    BY Sizes
  <2>5. i = IF x >= 0 THEN x ELSE x + ROB_SIZE
    <3>1. i = x % ROB_SIZE
      BY <2>1, <2>2
    <3>2. CASE x >= 0
      <4>1. x \in Nat /\ x < 2 * ROB_SIZE
        BY <2>3, <2>4, <3>2
      <4>2. x % ROB_SIZE = IF x < ROB_SIZE THEN x ELSE x - ROB_SIZE
        BY <2>4, <4>1, Modulus
      <4>3. QED
        BY <2>3, <3>1, <3>2, <4>2
    <3>3. CASE ~(x >= 0)
      <4>1. x < 0
        BY <3>3
      <4>2. x % ROB_SIZE = x + ROB_SIZE
        BY <2>3, <2>4, <4>1, Modulus
      <4>3. QED
        BY <3>1, <3>3, <4>2
    <3>4. QED
      BY <3>2, <3>3
  <2>6. i \in Slot /\ R!Age(i) = entry_cnt + w - d
    BY <1>1, <1>4, <2>2, <2>3, <2>5, Sizes, Sets DEF Slot, R!Age, R!Wrap
  <2>7. data[i].valid
    BY <1>1, <1>4, <2>6, Sets
  <2>8. Operand(w, d) = [preg |-> data[i].ins.pdest,
                         ready |-> data[i].ins.pdest = ZERO_PREG \/ Rob!Completed(cdb, i)]
    BY <1>4, <2>1 DEF Operand
  <2>9. PICK c \in BOOLEAN : c = (data[i].ins.pdest = ZERO_PREG \/ Rob!Completed(cdb, i))
    BY Zenon DEF Rob!Completed
  <2>10. Operand(w, d) = [preg |-> data[i].ins.pdest, ready |-> c]
    BY <2>8, <2>9
  <2>11. Operand(w, d).preg = data[i].ins.pdest /\ Operand(w, d).ready = c
    BY <2>10
  <2>12. c <=> data[i].ins.pdest = ZERO_PREG \/ R!Completed(cdb, i)
    BY <2>9, SameRing
  <2>13. Source(w, d, i)
    BY <2>6, <2>7, <2>11, <2>12 DEF Source
  <2>14. QED
    BY <2>6, <2>13
<1>5. QED
  BY <1>2, <1>3, <1>4

LEMMA SlotTyped ==
  ASSUME IssueInv, NEW i \in Slot, data[i].valid
  PROVE  data[i].ins.pdest \in Tag
<1>1. data[i] \in R!Entry
  BY Sets DEF IssueInv, R!RingInv, R!TypeOK
<1>2. QED
  BY <1>1 DEF R!Entry

LEMMA PacketTyped ==
  ASSUME IssueInv, NEW n \in 0 .. 2, NEW w \in Ways, w < Entering(n)
  PROVE  /\ packet(w).op \in Op
         /\ packet(w).op.prega = Operand(w, At(fpc + w).a).preg
         /\ packet(w).op.pregb = Operand(w, At(fpc + w).b).preg
         /\ packet(w).op.rob_idx = rob_idx(w)
         /\ At(fpc + w).a \in Nat /\ At(fpc + w).b \in Nat
<1>1. fpc + w \in Nat
  <2>1. fpc \in Nat
    BY ProgType DEF IssueInv
  <2>2. w \in Nat
    BY Sets
  <2>3. QED
    BY <2>1, <2>2
<1>2. At(fpc + w) \in [class : Classes, hit : BOOLEAN, a : Nat, b : Nat]
  BY <1>1, ProgType DEF IssueInv
<1>3. ASSUME NEW d \in Nat
      PROVE  Operand(w, d).preg \in Tag
  <2>1. PdestOf(0) \in Tag /\ ZERO_PREG \in Tag
    BY PdestType, Sets DEF IssueInv, Tag
  <2>2. CASE Operand(w, d) = [preg |-> PdestOf(0), ready |-> PdestOf(0) = ZERO_PREG]
    BY <2>1, <2>2
  <2>3. CASE \E i \in Slot : Source(w, d, i)
    BY <2>3, SlotTyped DEF Source
  <2>4. QED
    BY <2>1, <2>2, <2>3, OperandIs
<1>4. rob_idx(w) \in Slot /\ PdestOf(w) \in Tag
  BY EntersAt, PdestType DEF IssueInv
<1>5. PICK i : i = At(fpc + w)
  OBVIOUS
<1>6. i.class \in Classes /\ i.hit \in BOOLEAN /\ i.a \in Nat /\ i.b \in Nat
  BY <1>2, <1>5
<1>7. PICK x, y : x = Operand(w, i.a).preg /\ y = Operand(w, i.b).preg
  OBVIOUS
<1>8. packet(w).op = [valid |-> TRUE, class |-> i.class, hit |-> i.hit, rob_idx |-> rob_idx(w),
                      pdest |-> PdestOf(w), prega |-> x, pregb |-> y]
  BY <1>5, <1>7 DEF packet
<1>9. x \in Tag /\ y \in Tag
  BY <1>3, <1>6, <1>7
<1>10. packet(w).op \in Op
  BY <1>4, <1>6, <1>8, <1>9 DEF Op
<1>11. QED
  BY <1>5, <1>6, <1>7, <1>8, <1>10

(* How many registers are handed out. *)
HandedOut(n) == Bit(0 < Entering(n) /\ Writer(fpc)) + Bit(1 < Entering(n) /\ Writer(fpc + 1))

LEMMA HandedOutIs ==
  ASSUME IssueInv, NEW n \in 0 .. 2
  PROVE  /\ Cardinality({w \in Ways : w < Entering(n) /\ Writer(fpc + w)}) = HandedOut(n)
         /\ HandedOut(n) \in 0 .. 2
<1> DEFINE S == {w \in Ways : w < Entering(n) /\ Writer(fpc + w)}
<1>1. PICK a \in BOOLEAN, b \in BOOLEAN :
        a = (0 < Entering(n) /\ Writer(fpc)) /\ b = (1 < Entering(n) /\ Writer(fpc + 1))
  BY Zenon DEF Writer
<1>2. fpc + 0 = fpc
  BY ProgType DEF IssueInv
<1>3. /\ 0 \in S <=> a
      /\ 1 \in S <=> b
      /\ S \subseteq {0, 1}
  BY <1>1, <1>2, Sets
<1> HIDE DEF S
<1>4. S = (IF a THEN {0} ELSE {}) \cup (IF b THEN {1} ELSE {})
  BY <1>3
<1>5. Cardinality(S) = (IF a THEN 1 ELSE 0) + (IF b THEN 1 ELSE 0)
  <2>1. /\ IsFiniteSet({0}) /\ Cardinality({0}) = 1 /\ Cardinality({1}) = 1
        /\ Cardinality({}) = 0
    BY FS_Singleton, FS_EmptySet
  <2>2. Cardinality({0} \cup {1}) = 2
    <3>1. Cardinality({0} \cup {1}) = IF 1 \in {0} THEN Cardinality({0}) ELSE Cardinality({0}) + 1
      BY <2>1, FS_AddElement, Zenon
    <3>2. 1 \notin {0}
      OBVIOUS
    <3>3. QED
      BY <2>1, <3>1, <3>2
  <2>4. CASE a /\ b
    <3>1. S = {0} \cup {1}
      BY <1>4, <2>4
    <3>2. QED
      BY <2>2, <2>4, <3>1
  <2>5. CASE a /\ ~b
    <3>1. S = {0}
      BY <1>4, <2>5
    <3>2. QED
      BY <2>1, <2>5, <3>1
  <2>6. CASE ~a /\ b
    <3>1. S = {1}
      BY <1>4, <2>6
    <3>2. QED
      BY <2>1, <2>6, <3>1
  <2>7. CASE ~a /\ ~b
    <3>1. S = {}
      BY <1>4, <2>7
    <3>2. QED
      BY <2>1, <2>7, <3>1
  <2>8. QED
    BY <2>4, <2>5, <2>6, <2>7
<1>6. HandedOut(n) = (IF a THEN 1 ELSE 0) + (IF b THEN 1 ELSE 0)
  BY <1>1 DEF HandedOut, Bit
<1>7. QED
  BY <1>5, <1>6 DEF S

(* The loads that wait are those of different slots. *)
LEMMA BufferFits ==
  ASSUME Placed, load_buffer \in Seq(Results)
  PROVE  Len(load_buffer) <= ROB_SIZE
<1> DEFINE S == 1 .. Len(load_buffer)
           f == [k \in S |-> load_buffer[k].rob_idx]
<1>1. Len(load_buffer) \in Nat /\ IsFiniteSet(S) /\ Cardinality(S) = Len(load_buffer)
  <2>1. PICK l \in Nat : l = Len(load_buffer)
    OBVIOUS
  <2>2. IsFiniteSet(1 .. l) /\ Cardinality(1 .. l) = IF 1 > l THEN 0 ELSE l - 1 + 1
    BY FS_Interval
  <2>3. QED
    BY <2>1, <2>2
<1>2. IsFiniteSet(Slot) /\ Cardinality(Slot) = ROB_SIZE
  BY Sizes, FS_Interval DEF Slot
<1>3. \A k \in S : In(InBuffer(k), load_buffer[k].rob_idx)
  BY DEF In
<1>4. f \in [S -> Slot]
  BY <1>3 DEF Placed
<1>5. \A k, j \in S : f[k] = f[j] => k = j
  BY <1>3, Distinct DEF Placed
<1> HIDE DEF S, f
<1>6. ~(Cardinality(Slot) < Cardinality(S))
  BY <1>1, <1>2, <1>4, <1>5, FS_PigeonHole
<1>7. QED
  BY <1>1, <1>2, <1>6, Sizes

LEMMA BufferFitsNext ==
  ASSUME Placed', load_buffer' \in Seq(Results)
  PROVE  Len(load_buffer') <= ROB_SIZE
<1>1. (Placed /\ load_buffer \in Seq(Results) => Len(load_buffer) <= ROB_SIZE)
  BY BufferFits
<1>2. (Placed /\ load_buffer \in Seq(Results) => Len(load_buffer) <= ROB_SIZE)'
  BY BufferFits, PTL
<1>3. QED
  BY <1>2

LEMMA RingTypeNext == R!TypeOK' => Rob!TypeOK'
<1>1. R!TypeOK => Rob!TypeOK
  BY SameRing
<1>2. QED
  BY <1>1, PTL

LEMMA BubbleTyped == Bubble \in Op
  BY Sets DEF Bubble, Op, Classes, Tag

LEMMA StepTypes ==
  ASSUME NEW n, NEW taken, NEW st, NEW answered, Step(n, taken, st, answered)
  PROVE  TypeOK'
<1>1. /\ IssueInv /\ UntilDefect /\ DELAY = STAGES /\ n \in 0 .. 2
      /\ taken \in SUBSET Branches /\ Advance(n, taken, st, answered) /\ TypeOK
      /\ answered \in BOOLEAN /\ (answered => Waits) /\ prog' = prog
  BY DEF Step, IssueInv
<1>2. Rob!Dispatches(rn_dp(n), dp_stall, cdb) = Entering(n) /\ Entering(n) \in 0 .. 2
  BY <1>1, DispatchCount
<1>3. prog' \in Programs /\ fpc' \in 0 .. Len(prog') - 1
  <2>1. fpc \in Nat /\ Len(prog) \in Nat \ {0}
    BY <1>1, ProgType
  <2>2. PICK x \in Nat : x = fpc + Entering(n)
    BY <1>2, <2>1
  <2>3. fpc' = x % Len(prog)
    BY <1>1, <1>2, <2>2 DEF Advance
  <2>4. x % Len(prog) \in 0 .. Len(prog) - 1
    BY <2>1, Modulus
  <2>5. QED
    BY <1>1, <2>3, <2>4 DEF TypeOK
<1>4. Rob!TypeOK'
  <2>1. R!TypeOK'
    BY <1>1, StepMoves DEF R!RingInv
  <2>2. QED
    BY <2>1, RingTypeNext
<1>5. rs' \in [Ways -> [0 .. NUM_RS_ENTRIES - 1 ->
                  [busy : BOOLEAN, op : Op, prega_ready : BOOLEAN, pregb_ready : BOOLEAN]]]
  <2>1. ASSUME NEW w \in Ways, NEW k \in Entry
        PROVE  rs'[w][k] \in [busy : BOOLEAN, op : Op, prega_ready : BOOLEAN, pregb_ready : BOOLEAN]
    <3>1. StationStep(n, st, w)
      BY <1>1, StationAfter
    <3>2. rs[w][k].op \in Op /\ rs[w][k].busy \in BOOLEAN
      BY <1>1 DEF TypeOK, Entry
    <3>3. PICK e : e = rs'[w][k]
      OBVIOUS
    <3>4. e \in [busy : BOOLEAN, op : {rs[w][k].op, packet(w).op, Bubble},
                 prega_ready : BOOLEAN, pregb_ready : BOOLEAN]
      BY <3>1, <3>3 DEF StationStep
    <3>5. e.op \in Op
      <4>1. CASE k \in New(n, w)
        <5>1. w < Entering(n) /\ e.op = packet(w).op
          BY <3>1, <3>3, <4>1 DEF StationStep
        <5>2. QED
          BY <1>1, <5>1, PacketTyped
      <4>2. CASE k \notin New(n, w) /\ (~rs[w][k].busy \/ k \in Gone(st, w))
        <5>1. e.op = Bubble
          BY <3>1, <3>3, <4>2 DEF StationStep
        <5>2. QED
          BY <5>1, BubbleTyped
      <4>3. CASE k \notin New(n, w) /\ rs[w][k].busy /\ k \notin Gone(st, w)
        <5>1. e.op = rs[w][k].op
          BY <3>1, <3>3, <4>3 DEF StationStep
        <5>2. QED
          BY <3>2, <5>1
      <4>4. QED
        BY <3>2, <4>1, <4>2, <4>3
    <3>6. QED
      BY <3>3, <3>4, <3>5
  <2>2. rs' = [w \in Ways |-> Bank(w)!NextEntry(rs_enable(n, w), packet(w), cdb, ex_stall(w), st[1 - w])]
    BY <1>1 DEF Advance
  <2>3. ASSUME NEW w \in Ways
        PROVE  rs'[w] = [k \in Entry |-> rs'[w][k]]
    BY <2>2 DEF Bank!NextEntry, Bank!Index, Entry
  <2>4. rs' = [w \in Ways |-> rs'[w]]
    BY <2>2
  <2>5. ASSUME NEW w \in Ways
        PROVE  rs'[w] \in [Entry -> [busy : BOOLEAN, op : Op, prega_ready : BOOLEAN,
                                     pregb_ready : BOOLEAN]]
    BY <2>1, <2>3
  <2>6. QED
    BY <2>4, <2>5 DEF Entry
<1>6. is_ex' \in [Ways -> Op]
  <2>1. ASSUME NEW w \in Ways
        PROVE  is_ex'[w] \in Op
    <3>1. StationStep(n, st, w)
      BY <1>1, StationAfter
    <3>2. CASE ex_stall(w)
      <4>1. is_ex'[w] = is_ex[w]
        BY <3>1, <3>2 DEF StationStep
      <4>2. QED
        BY <1>1, <4>1 DEF TypeOK
    <3>3. CASE ~ex_stall(w) /\ Gone(st, w) = {}
      <4>1. is_ex'[w] = Bubble
        BY <3>1, <3>3 DEF StationStep
      <4>2. QED
        BY <4>1, BubbleTyped
    <3>4. CASE Gone(st, w) # {}
      <4>1. PICK k : k \in Gone(st, w)
        BY <3>4
      <4>2. k \in Entry /\ is_ex'[w] = rs[w][k].op
        BY <3>1, <4>1 DEF StationStep
      <4>3. rs \in [Ways -> [Entry -> [busy : BOOLEAN, op : Op, prega_ready : BOOLEAN,
                                       pregb_ready : BOOLEAN]]]
        BY <1>1 DEF TypeOK, Entry
      <4>4. rs[w][k].op \in Op
        BY <4>2, <4>3
      <4>5. QED
        BY <4>2, <4>4
    <3>5. QED
      BY <3>2, <3>3, <3>4
  <2>2. is_ex' = [w \in Ways |-> NextPort(st, w)]
    BY <1>1 DEF Advance
  <2>3. QED
    BY <2>1, <2>2
<1>7. mult_dones' \in [Ways -> [1 .. STAGES -> BOOLEAN]]
  <2>1. \A w \in Ways : mult_en(w) \in BOOLEAN
    BY DEF mult_en, Is
  <2>2. ASSUME NEW w \in Ways, NEW k \in 1 .. STAGES
        PROVE  mult_dones'[w][k] \in BOOLEAN
    <3>1. CASE k = 1
      BY <1>1, <2>1, <3>1, StagesAfter
    <3>2. CASE k # 1
      <4>1. k - 1 \in 1 .. STAGES
        BY <3>2, Sizes
      <4>2. mult_dones'[w][k] = mult_dones[w][k - 1]
        BY <3>2, StagesAfter
      <4>3. mult_dones \in [Ways -> [1 .. STAGES -> BOOLEAN]]
        BY <1>1 DEF TypeOK
      <4>4. QED
        BY <4>1, <4>2, <4>3
    <3>3. QED
      BY <3>1, <3>2
  <2>3. mult_dones' = [w \in Ways |-> Mult(w)!NextDones(mult_en(w))]
    BY <1>1 DEF Advance
  <2>4. ASSUME NEW w \in Ways
        PROVE  mult_dones'[w] \in [1 .. STAGES -> BOOLEAN]
    <3>1. mult_dones'[w] = [k \in 1 .. STAGES |-> mult_dones'[w][k]]
      BY <2>3 DEF Mult!NextDones, Mult!Shifted
    <3>2. QED
      BY <2>2, <3>1
  <2>5. QED
    BY <2>3, <2>4
<1>8. mult_chain' \in [Ways -> [1 .. DELAY -> Results]]
  <2>1. ASSUME NEW w \in Ways, NEW k \in 1 .. DELAY
        PROVE  mult_chain'[w][k] \in Results
    <3>1. CASE k = 1
      BY <1>1, <3>1, StagesAfter, ResultTyped
    <3>2. CASE k # 1
      <4>1. k - 1 \in 1 .. DELAY
        BY <3>2, Sizes
      <4>2. mult_chain'[w][k] = mult_chain[w][k - 1]
        BY <3>2, StagesAfter
      <4>3. mult_chain \in [Ways -> [1 .. DELAY -> Results]]
        BY <1>1 DEF TypeOK
      <4>4. QED
        BY <4>1, <4>2, <4>3
    <3>3. QED
      BY <3>1, <3>2
  <2>2. \E f : mult_chain' = [w \in Ways |-> f[w]] /\ \A w \in Ways : f[w] = [k \in 1 .. DELAY |-> f[w][k]]
    <3>1. PICK f : f = [w \in Ways |-> Mult(w)!NextChain(
                          IF mult_en(w) THEN Result(is_ex[w], alu_result(w)) ELSE NoResult)]
      OBVIOUS
    <3>2. mult_chain' = f
      BY <1>1, <3>1 DEF Advance
    <3>3. \A w \in Ways : f[w] = [k \in 1 .. DELAY |-> f[w][k]]
      BY <3>1 DEF Mult!NextChain, Mult!Shifted
    <3>4. f = [w \in Ways |-> f[w]]
      BY <3>1
    <3>5. QED
      BY <3>2, <3>3, <3>4
  <2>3. PICK f : mult_chain' = [w \in Ways |-> f[w]] /\ \A w \in Ways : f[w] = [k \in 1 .. DELAY |-> f[w][k]]
    BY <2>2
  <2>4. \A w \in Ways : mult_chain'[w] = f[w]
    BY <2>3
  <2>5. \A w \in Ways : mult_chain'[w] = [k \in 1 .. DELAY |-> mult_chain'[w][k]]
    BY <2>3, <2>4
  <2>6. \A w \in Ways : mult_chain'[w] \in [1 .. DELAY -> Results]
    BY <2>1, <2>5
  <2>7. QED
    BY <2>3, <2>4, <2>6
<1>9. load_buffer' \in Seq(Results) /\ Len(load_buffer') <= ROB_SIZE
  <2>1. load_buffer' \in Seq(Results)
    BY <1>1, LoadsAfter
  <2>2. QED
    BY <2>1, StepPlaced, BufferFitsNext
<1>10. dout_valid' \in BOOLEAN /\ (dout_valid' => load_buffer' # <<>>)
  <2>1. dout_valid' = IF rd_en THEN FALSE ELSE dout_valid \/ answered
    BY <1>1 DEF Advance
  <2>2. CASE rd_en
    BY <2>1, <2>2
  <2>3. CASE ~rd_en
    <3>1. dout_valid' => load_buffer # <<>>
      BY <1>1, <2>1, <2>3 DEF TypeOK, Waits
    <3>2. Len(load_buffer') >= Len(load_buffer)
      <4>1. Bit(rd_en) = 0 /\ Bit(wr_en(0)) \in Nat /\ Bit(wr_en(1)) \in Nat
        BY <2>3 DEF Bit
      <4>2. Len(load_buffer) \in Nat
        BY <1>1 DEF TypeOK
      <4>3. Len(load_buffer') = Staying + Bit(wr_en(0)) + Bit(wr_en(1)) /\ Staying = Len(load_buffer) - Bit(rd_en)
        BY <1>1, LoadsAfter
      <4>4. QED
        BY <4>1, <4>2, <4>3
    <3>3. load_buffer \in Seq(Results) /\ load_buffer' \in Seq(Results)
      BY <1>1, <1>9 DEF TypeOK
    <3>4. load_buffer # <<>> => load_buffer' # <<>>
      BY <3>2, <3>3
    <3>5. QED
      BY <1>1, <2>1, <2>3, <3>1, <3>4 DEF TypeOK
  <2>4. QED
    BY <2>2, <2>3
<1>11. ex_cm' \in [Ways -> Results]
  <2>1. ASSUME NEW w \in Ways
        PROVE  ex_packet[w] \in Results
    <3>1. mult_chain[w][STAGES] \in Results
      BY <1>1, Sizes DEF TypeOK
    <3>2. dout_valid => Head(load_buffer) \in Results
      BY <1>1, HeadElsewhere DEF TypeOK
    <3>3. QED
      BY <1>1, <3>1, <3>2, BusAfter, ResultTyped
  <2>2. ex_cm' = ex_packet
    BY <1>1 DEF Advance
  <2>3. ex_packet = [w \in Ways |-> ex_packet[w]]
    BY DEF ex_packet
  <2>4. QED
    BY <2>1, <2>2, <2>3
<1>12. registers' \in [Preg -> BOOLEAN]
  <2>1. registers' = [x \in DOMAIN registers |->
                        Written[x] /\ \A w \in Ways : w < Entering(n) => PdestOf(w) # x]
    BY <1>1, <1>2 DEF Advance
  <2>2. DOMAIN registers = Preg
    BY <1>1 DEF TypeOK
  <2>3. QED
    BY <2>1, <2>2
<1>13. next_preg' \in Preg
  <2>1. next_preg' = RingPreg(HandedOut(n))
    BY <1>1, <1>2, HandedOutIs DEF Advance
  <2>2. QED
    BY <1>1, <2>1, HandedOutIs, RingPregType
<1>14. QED
  BY <1>3, <1>4, <1>5, <1>6, <1>7, <1>8, <1>9, <1>10, <1>11, <1>12, <1>13 DEF TypeOK

-----------------------------------------------------------------------------
(* Registers: one in use is not handed out again, and keeps its value. *)
InUse(n, x) == x # ZERO_PREG => x \in Preg /\ Back(x) + HandedOut(n) <= 2 * ROB_SIZE

LEMMA BackType ==
  ASSUME TypeOK, NEW x \in Preg
  PROVE  Back(x) \in 1 .. 2 * ROB_SIZE
  BY Sizes DEF TypeOK, Preg, Back

(* The registers of the instructions that enter. *)
Rank(w) == IF w = 1 THEN Bit(Writer(fpc)) ELSE 0

LEMMA NewRegister ==
  ASSUME IssueInv, NEW n \in 0 .. 2, NEW w \in Ways, w < Entering(n), PdestOf(w) # ZERO_PREG
  PROVE  /\ PdestOf(w) = RingPreg(Rank(w)) /\ Rank(w) \in 0 .. 1
         /\ Rank(w) + 1 <= HandedOut(n)
         /\ HandedOut(n) - Rank(w) <= Entering(n) - w
         /\ PdestOf(w) \in Preg /\ Back(PdestOf(w)) = 2 * ROB_SIZE - Rank(w)
<1>1. Entering(n) \in 0 .. 2
  BY DispatchCount
<1>2. PICK a \in BOOLEAN, b \in BOOLEAN : a = Writer(fpc) /\ b = Writer(fpc + 1)
  <2>1. Writer(fpc) \in BOOLEAN /\ Writer(fpc + 1) \in BOOLEAN
    BY DEF Writer
  <2>2. QED
    BY <2>1, Zenon
<1>3. fpc \in Nat /\ fpc + 0 = fpc
  BY ProgType DEF IssueInv
<1>4. (w = 0 => a) /\ (w = 1 => b)
  BY <1>2, <1>3 DEF PdestOf
<1>5. PdestOf(w) = RingPreg(Rank(w))
  BY DEF PdestOf, Rank, Bit
<1>6. Rank(w) = IF w = 1 /\ a THEN 1 ELSE 0
  BY <1>2 DEF Rank, Bit
<1>7. HandedOut(n) = (IF 0 < Entering(n) /\ a THEN 1 ELSE 0) + (IF 1 < Entering(n) /\ b THEN 1 ELSE 0)
  BY <1>2 DEF HandedOut, Bit
<1>8. /\ Rank(w) \in 0 .. 1 /\ Rank(w) + 1 <= HandedOut(n)
      /\ HandedOut(n) - Rank(w) <= Entering(n) - w
  BY <1>1, <1>4, <1>6, <1>7, Sets
<1>9. next_preg \in 1 .. 2 * ROB_SIZE /\ Preg = 1 .. 2 * ROB_SIZE
  BY DEF IssueInv, TypeOK, Preg
<1>10. PICK j \in 0 .. 1 : j = Rank(w)
  BY <1>8
<1>11. RingPreg(j) = IF next_preg + j <= 2 * ROB_SIZE THEN next_preg + j
                     ELSE next_preg + j - 2 * ROB_SIZE
  BY <1>10, RingPregType DEF IssueInv
<1>12. RingPreg(j) \in Preg /\ Back(RingPreg(j)) = 2 * ROB_SIZE - j
  BY <1>9, <1>11, Sizes DEF Back
<1>13. QED
  BY <1>5, <1>8, <1>10, <1>12

LEMMA NextRegister ==
  ASSUME NEW n, NEW taken, NEW st, NEW answered, Step(n, taken, st, answered)
  PROVE  /\ next_preg' = IF next_preg + HandedOut(n) <= 2 * ROB_SIZE THEN next_preg + HandedOut(n)
                         ELSE next_preg + HandedOut(n) - 2 * ROB_SIZE
         /\ next_preg \in 1 .. 2 * ROB_SIZE
         /\ HandedOut(n) \in 0 .. 2 /\ HandedOut(n) <= Entering(n)
         /\ \A x \in Preg : registers'[x] = (Written[x] /\ \A w \in Ways : w < Entering(n) => PdestOf(w) # x)
<1>1. IssueInv /\ n \in 0 .. 2 /\ Advance(n, taken, st, answered) /\ TypeOK
  BY DEF Step, IssueInv
<1>2. Rob!Dispatches(rn_dp(n), dp_stall, cdb) = Entering(n) /\ Entering(n) \in 0 .. 2
  BY <1>1, DispatchCount
<1>3. next_preg' = RingPreg(HandedOut(n))
  BY <1>1, <1>2, HandedOutIs DEF Advance
<1>4. PICK h \in 0 .. 2 : h = HandedOut(n)
  BY <1>1, HandedOutIs
<1>5. next_preg' = IF next_preg + h <= 2 * ROB_SIZE THEN next_preg + h ELSE next_preg + h - 2 * ROB_SIZE
  BY <1>1, <1>3, <1>4, RingPregType
<1>6. h <= Entering(n)
  <2>1. PICK a \in BOOLEAN, b \in BOOLEAN :
          a = (0 < Entering(n) /\ Writer(fpc)) /\ b = (1 < Entering(n) /\ Writer(fpc + 1))
    BY Zenon DEF Writer
  <2>2. HandedOut(n) = (IF a THEN 1 ELSE 0) + (IF b THEN 1 ELSE 0)
    BY <2>1 DEF HandedOut, Bit
  <2>3. (a => 0 < Entering(n)) /\ (b => 1 < Entering(n))
    BY <2>1
  <2>4. QED
    BY <1>2, <1>4, <2>2, <2>3
<1>7. registers' = [x \in Preg |-> Written[x] /\ \A w \in Ways : w < Entering(n) => PdestOf(w) # x]
  BY <1>1, <1>2 DEF Advance, TypeOK
<1>8. QED
  BY <1>1, <1>4, <1>5, <1>6, <1>7 DEF TypeOK, Preg

LEMMA UsedAfter ==
  ASSUME NEW n, NEW taken, NEW st, NEW answered, Step(n, taken, st, answered),
         NEW x, InUse(n, x), x # ZERO_PREG
  PROVE  /\ x \in Preg /\ Back(x)' = Back(x) + HandedOut(n)
         /\ registers'[x] <=> Written[x]
<1>1. IssueInv /\ n \in 0 .. 2 /\ TypeOK
  BY DEF Step, IssueInv
<1>2. x \in Preg /\ Back(x) + HandedOut(n) <= 2 * ROB_SIZE /\ Preg = 1 .. 2 * ROB_SIZE
  BY DEF InUse, Preg
<1>3. Back(x)' = Back(x) + HandedOut(n)
  BY <1>2, NextRegister, Sizes DEF Back
<1>4. ASSUME NEW w \in Ways, w < Entering(n)
      PROVE  PdestOf(w) # x
  <2>1. SUFFICES ASSUME PdestOf(w) = x PROVE FALSE
    OBVIOUS
  <2>2. Back(x) = 2 * ROB_SIZE - Rank(w) /\ Rank(w) \in 0 .. 1 /\ Rank(w) + 1 <= HandedOut(n)
        /\ HandedOut(n) \in 0 .. 2
    BY <1>1, <1>4, <2>1, NewRegister, NextRegister
  <2>3. QED
    BY <1>2, <2>2, Sizes
<1>5. QED
  BY <1>2, <1>3, <1>4, NextRegister

(* A register that has its value, or gets it on a bus, keeps it. *)
OnABus(x) == \E v \in Ways : cdb[v].valid /\ cdb[v].tag = x

LEMMA ValueStays ==
  ASSUME NEW n, NEW taken, NEW st, NEW answered, Step(n, taken, st, answered),
         NEW x, InUse(n, x), HasValue(x) \/ OnABus(x)
  PROVE  HasValue(x)'
<1>1. CASE x = ZERO_PREG
  BY <1>1 DEF HasValue
<1>2. CASE x # ZERO_PREG
  <2>1. x \in Preg /\ (registers'[x] <=> Written[x])
    BY <1>2, UsedAfter
  <2>2. \A v \in Ways : cdb[v].value
    BY DEF Step, IssueInv, ValuesRight, cdb
  <2>3. Written[x]
    <3>1. Written[x] = IF wb_en(1) /\ cdb[1].tag = x THEN cdb[1].value
                       ELSE IF wb_en(0) /\ cdb[0].tag = x THEN cdb[0].value ELSE registers[x]
      BY <2>1 DEF Written
    <3>2. (cdb[0].valid /\ cdb[0].tag = x) \/ (cdb[1].valid /\ cdb[1].tag = x) \/ registers[x]
      BY <1>2, Sets DEF OnABus, HasValue
    <3>3. QED
      BY <1>2, <2>2, <3>1, <3>2, Sets DEF wb_en
  <2>4. QED
    BY <2>1, <2>3 DEF HasValue
<1>3. QED
  BY <1>1, <1>2

(* The registers of what is in flight are in use, and their operands. *)
LEMMA SlotUses ==
  ASSUME NEW n, NEW taken, NEW st, NEW answered, Step(n, taken, st, answered),
         NEW i \in Slot, data[i].valid
  PROVE  /\ InUse(n, data[i].ins.pdest)
         /\ R!Age(i) \in Nat /\ R!Age(i) < entry_cnt /\ entry_cnt \in 0 .. ROB_SIZE
         /\ Recent(data[i].ins.pdest, entry_cnt - R!Age(i))
<1>1. IssueInv /\ n \in 0 .. 2 /\ TypeOK
  BY DEF Step, IssueInv
<1>2. /\ entry_cnt \in 0 .. ROB_SIZE /\ R!Age(i) < entry_cnt
      /\ Entering(n) \in 0 .. 2 /\ (Entering(n) >= 1 => entry_cnt + 2 <= ROB_SIZE)
  BY <1>1, DispatchCount, Sets DEF IssueInv, R!RingInv, R!WindowExact, R!TypeOK
<1>3. R!Age(i) \in Nat
  BY <1>1, R!AgeType, RobParams, Sets DEF IssueInv, Slot
<1>4. Recent(data[i].ins.pdest, entry_cnt - R!Age(i))
  BY <1>1 DEF IssueInv, RegistersRecent
<1>5. ASSUME data[i].ins.pdest # ZERO_PREG
      PROVE  data[i].ins.pdest \in Preg /\ Back(data[i].ins.pdest) + HandedOut(n) <= 2 * ROB_SIZE
  <2>1. PICK x : x = data[i].ins.pdest
    OBVIOUS
  <2>2. x \in Preg
    BY <1>1, <1>5, <2>1, SlotTyped DEF Tag
  <2>3. Back(x) \in 1 .. 2 * ROB_SIZE
    BY <1>1, <2>2, BackType
  <2>4. Back(x) <= entry_cnt - R!Age(i)
    BY <1>4, <1>5, <2>1 DEF Recent
  <2>5. HandedOut(n) \in 0 .. 2 /\ HandedOut(n) <= Entering(n)
    BY NextRegister
  <2>6. Back(x) + HandedOut(n) <= 2 * ROB_SIZE
    BY <1>2, <1>3, <2>3, <2>4, <2>5, Sizes
  <2>7. QED
    BY <2>1, <2>2, <2>6
<1>6. QED
  BY <1>2, <1>3, <1>4, <1>5 DEF InUse

LEMMA OperandUses ==
  ASSUME NEW n, NEW taken, NEW st, NEW answered, Step(n, taken, st, answered),
         NEW i \in Slot, data[i].valid, NEW x \in Tag,
         Recent(x, ROB_SIZE - 1 + entry_cnt - R!Age(i))
  PROVE  InUse(n, x)
<1>1. IssueInv /\ n \in 0 .. 2 /\ TypeOK
  BY DEF Step, IssueInv
<1>2. R!Age(i) \in Nat /\ R!Age(i) < entry_cnt /\ entry_cnt \in 0 .. ROB_SIZE
  BY SlotUses
<1>3. Entering(n) \in 0 .. 2 /\ (Entering(n) >= 1 => entry_cnt + 2 <= ROB_SIZE)
  BY <1>1, DispatchCount
<1>4. HandedOut(n) \in 0 .. 2 /\ HandedOut(n) <= Entering(n)
  BY NextRegister
<1>5. ASSUME x # ZERO_PREG
      PROVE  x \in Preg /\ Back(x) + HandedOut(n) <= 2 * ROB_SIZE
  <2>1. x \in Preg /\ Back(x) \in 1 .. 2 * ROB_SIZE
    BY <1>1, <1>5, BackType DEF Tag
  <2>2. Back(x) <= ROB_SIZE - 1 + entry_cnt - R!Age(i)
    BY <1>5 DEF Recent
  <2>3. QED
    BY <1>2, <1>3, <1>4, <2>1, <2>2, Sizes
<1>6. QED
  BY <1>5 DEF InUse

LEMMA FreshAfter ==
  ASSUME NEW n, NEW taken, NEW st, NEW answered, Step(n, taken, st, answered),
         NEW w \in Ways, w < Entering(n), NEW x, x = PdestOf(w), x # ZERO_PREG
  PROVE  Back(x)' = HandedOut(n) - Rank(w)
<1>1. IssueInv /\ n \in 0 .. 2
  BY DEF Step
<1>2. /\ x \in Preg /\ Back(x) = 2 * ROB_SIZE - Rank(w)
      /\ Rank(w) \in 0 .. 1 /\ Rank(w) + 1 <= HandedOut(n)
  BY <1>1, NewRegister
<1>3. QED
  BY <1>2, NextRegister, Sizes DEF Back, Preg

(* A completed instruction has written its register, or writes it now. *)
LEMMA CompletedHas ==
  ASSUME IssueInv, NEW i \in Slot, R!Completed(cdb, i)
  PROVE  HasValue(data[i].ins.pdest) \/ OnABus(data[i].ins.pdest)
<1>1. Rob!Completed(cdb, i)
  BY SameRing
<1>2. retire_tag[i] \/ \E w \in Ways : cdb[w].valid /\ cdb[w].rob_idx = i
  BY <1>1 DEF Rob!Completed, Rob!CompletesNow, Rob!Ways, Ways
<1>3. retire_tag[i] => HasValue(data[i].ins.pdest)
  BY DEF IssueInv, OperandsWritten
<1>4. ASSUME NEW w \in Ways, cdb[w].valid, cdb[w].rob_idx = i
      PROVE  OnABus(data[i].ins.pdest)
  BY <1>4 DEF IssueInv, TagsOwn, OnABus, cdb
<1>5. QED
  BY <1>2, <1>3, <1>4

(* What an instruction that enters is given as an operand. *)
LEMMA NewOperand ==
  ASSUME NEW n, NEW taken, NEW st, NEW answered, Step(n, taken, st, answered),
         NEW w \in Ways, w < Entering(n), NEW d \in Nat,
         NEW x, x = Operand(w, d).preg, NEW b, b = ROB_SIZE - 1 + Entering(n) - w
  PROVE  /\ Recent(x, b)'
         /\ Operand(w, d).ready => HasValue(x)'
<1>1. IssueInv /\ n \in 0 .. 2
  BY DEF Step
<1>2. Entering(n) \in 0 .. 2 /\ entry_cnt + 2 <= ROB_SIZE /\ entry_cnt \in 0 .. ROB_SIZE
  BY <1>1, DispatchCount, Sets DEF IssueInv, R!RingInv, R!TypeOK
<1>3. HandedOut(n) \in 0 .. 2 /\ HandedOut(n) <= Entering(n)
  BY NextRegister
<1>4. CASE x = ZERO_PREG
  BY <1>4 DEF Recent, HasValue
<1>5. CASE x # ZERO_PREG /\ w = 1 /\ d = 1
           /\ Operand(w, d) = [preg |-> PdestOf(0), ready |-> PdestOf(0) = ZERO_PREG]
  <2>1. x = PdestOf(0) /\ ~Operand(w, d).ready /\ 0 < Entering(n) /\ 0 \in Ways
    <3>1. PICK c \in BOOLEAN : c = (PdestOf(0) = ZERO_PREG)
      OBVIOUS
    <3>2. Operand(w, d) = [preg |-> PdestOf(0), ready |-> c]
      BY <1>5, <3>1
    <3>3. x = PdestOf(0) /\ Operand(w, d).ready = c
      BY <3>2
    <3>4. ~c
      BY <1>5, <3>1, <3>3
    <3>5. QED
      BY <1>2, <1>5, <3>3, <3>4, Sets
  <2>2. Back(x)' = HandedOut(n) - Rank(0) /\ Rank(0) = 0
    BY <1>5, <2>1, FreshAfter DEF Rank
  <2>3. Back(x)' <= b
    BY <1>2, <1>3, <1>5, <2>2, Sizes
  <2>4. QED
    BY <2>1, <2>3 DEF Recent
<1>6. CASE x # ZERO_PREG /\ \E i \in Slot : Source(w, d, i)
  <2>1. PICK i \in Slot : Source(w, d, i)
    BY <1>6
  <2>2. /\ data[i].valid /\ x = data[i].ins.pdest
        /\ Operand(w, d).ready => R!Completed(cdb, i)
    BY <1>6, <2>1 DEF Source
  <2>3. /\ InUse(n, x) /\ R!Age(i) \in Nat
        /\ Recent(x, entry_cnt - R!Age(i))
    BY <2>2, SlotUses
  <2>4. Back(x)' = Back(x) + HandedOut(n) /\ Back(x) <= entry_cnt - R!Age(i)
    BY <1>6, <2>3, UsedAfter DEF Recent
  <2>5. Back(x) \in 1 .. 2 * ROB_SIZE
    BY <1>1, <1>6, <2>3, BackType DEF InUse, IssueInv
  <2>6. Back(x)' <= b
    BY <1>2, <1>3, <2>3, <2>4, <2>5, Sizes, Sets
  <2>7. Operand(w, d).ready => HasValue(x) \/ OnABus(x)
    BY <1>1, <2>2, CompletedHas
  <2>8. Operand(w, d).ready => HasValue(x)'
    BY <2>3, <2>7, ValueStays
  <2>9. QED
    BY <2>6, <2>8 DEF Recent
<1>7. QED
  BY <1>1, <1>4, <1>5, <1>6, OperandIs

(* The instruction in a place of the station or of a port, after a step. *)
LEMMA OpStays ==
  ASSUME NEW n, NEW taken, NEW st, NEW answered, Step(n, taken, st, answered),
         NEW p, NEW op \in Op, In(p, op.rob_idx), To(st, p) # Completed, RecentOperands(op)
  PROVE  /\ InUse(n, op.prega) /\ InUse(n, op.pregb)
         /\ RecentOperands(op)'
<1>1. PICK r \in 0 .. 2 : Moves(n, r)
  BY StepMoves DEF Step
<1>2. PICK i : i = op.rob_idx
  OBVIOUS
<1>3. i \in Slot /\ r <= R!Age(i) /\ R!Age(i) \in Nat /\ R!Age(i) < entry_cnt
  BY <1>1, <1>2, Kept
<1>4. data[i].valid
  BY <1>2 DEF Step, IssueInv, Placed
<1>5. /\ op.prega \in Tag /\ op.pregb \in Tag
      /\ Recent(op.prega, ROB_SIZE - 1 + entry_cnt - R!Age(i))
      /\ Recent(op.pregb, ROB_SIZE - 1 + entry_cnt - R!Age(i))
  BY <1>2 DEF Op, RecentOperands
<1>6. InUse(n, op.prega) /\ InUse(n, op.pregb)
  BY <1>3, <1>4, <1>5, OperandUses
<1>7. /\ R!Age(i)' = R!Age(i) - r /\ entry_cnt' = entry_cnt + Entering(n) - r
      /\ Entering(n) \in 0 .. 2 /\ entry_cnt \in 0 .. ROB_SIZE
  BY <1>1, <1>3, <1>4, SlotUses, DispatchCount DEF Moves, Step
<1>8. HandedOut(n) \in 0 .. 2 /\ HandedOut(n) <= Entering(n)
  BY NextRegister
<1>9. PICK b : b = ROB_SIZE - 1 + entry_cnt - R!Age(i) + Entering(n)
  OBVIOUS
<1>10. (ROB_SIZE - 1 + entry_cnt - R!Age(i))' = b
  BY <1>3, <1>7, <1>9, Sizes
<1>11. ASSUME NEW x \in Tag, InUse(n, x), x # ZERO_PREG,
              Recent(x, ROB_SIZE - 1 + entry_cnt - R!Age(i))
       PROVE  Back(x)' <= b
  <2>1. Back(x)' = Back(x) + HandedOut(n) /\ x \in Preg
    BY <1>11, UsedAfter
  <2>2. Back(x) \in 1 .. 2 * ROB_SIZE
    BY <2>1, BackType DEF Step, IssueInv
  <2>3. Back(x) <= ROB_SIZE - 1 + entry_cnt - R!Age(i)
    BY <1>11 DEF Recent
  <2>4. QED
    BY <1>3, <1>7, <1>8, <1>9, <2>1, <2>2, <2>3, Sizes
<1>12. RecentOperands(op)'
  BY <1>2, <1>5, <1>6, <1>10, <1>11 DEF RecentOperands, Recent
<1>13. QED
  BY <1>6, <1>12

(* Who waits in the station and who is at a port, before a step. *)
LEMMA StationOp ==
  ASSUME NEW n, NEW taken, NEW st, NEW answered, Step(n, taken, st, answered),
         NEW w \in Ways, NEW k \in Entry, rs[w][k].busy, NEW op, op = rs[w][k].op
  PROVE  /\ op \in Op /\ RecentOperands(op)'
         /\ HeardNow(rs[w][k].prega_ready, op.prega) => HasValue(op.prega)'
         /\ HeardNow(rs[w][k].pregb_ready, op.pregb) => HasValue(op.pregb)'
<1>1. IssueInv
  BY DEF Step
<1>2. op \in Op
  <2>1. rs \in [Ways -> [Entry -> [busy : BOOLEAN, op : Op, prega_ready : BOOLEAN,
                                   pregb_ready : BOOLEAN]]]
    BY <1>1 DEF IssueInv, TypeOK, Entry
  <2>2. QED
    BY <2>1
<1>3. In(InStation(w, k), op.rob_idx)
  BY <1>1, PlacedIs
<1>4. To(st, InStation(w, k)) # Completed
  BY ToIs, Distinct
<1>5. RecentOperands(op)
  BY <1>1 DEF IssueInv, RegistersRecent
<1>6. InUse(n, op.prega) /\ InUse(n, op.pregb) /\ RecentOperands(op)'
  BY <1>2, <1>3, <1>4, <1>5, OpStays
<1>7. /\ HeardNow(rs[w][k].prega_ready, op.prega) => HasValue(op.prega) \/ OnABus(op.prega)
      /\ HeardNow(rs[w][k].pregb_ready, op.pregb) => HasValue(op.pregb) \/ OnABus(op.pregb)
  BY <1>1 DEF HeardNow, OnABus, IssueInv, OperandsWritten
<1>8. /\ HasValue(op.prega) \/ OnABus(op.prega) => HasValue(op.prega)'
      /\ HasValue(op.pregb) \/ OnABus(op.pregb) => HasValue(op.pregb)'
  BY <1>6, ValueStays
<1>9. QED
  BY <1>2, <1>6, <1>7, <1>8

LEMMA PortOp ==
  ASSUME NEW n, NEW taken, NEW st, NEW answered, Step(n, taken, st, answered),
         NEW w \in Ways, is_ex[w].valid, NEW op, op = is_ex[w]
  PROVE  op \in Op /\ RecentOperands(op)' /\ HasValue(op.prega)' /\ HasValue(op.pregb)'
<1>1. IssueInv
  BY DEF Step
<1>2. op \in Op
  BY <1>1 DEF IssueInv, TypeOK
<1>3. In(AtPort(w), op.rob_idx)
  BY <1>1, PlacedIs
<1>4. To(st, AtPort(w)) # Completed
  BY ToIs, Distinct
<1>5. RecentOperands(op) /\ HasValue(op.prega) /\ HasValue(op.pregb)
  BY <1>1 DEF IssueInv, RegistersRecent, OperandsWritten
<1>6. InUse(n, op.prega) /\ InUse(n, op.pregb) /\ RecentOperands(op)'
  BY <1>2, <1>3, <1>4, <1>5, OpStays
<1>7. HasValue(op.prega)' /\ HasValue(op.pregb)'
  BY <1>5, <1>6, ValueStays
<1>8. QED
  BY <1>2, <1>6, <1>7

(* What enters a bank. *)
LEMMA NewOp ==
  ASSUME NEW n, NEW taken, NEW st, NEW answered, Step(n, taken, st, answered),
         NEW w \in Ways, w < Entering(n), NEW op, op = packet(w).op
  PROVE  /\ RecentOperands(op)'
         /\ packet(w).prega_ready => HasValue(op.prega)'
         /\ packet(w).pregb_ready => HasValue(op.pregb)'
<1>1. IssueInv /\ n \in 0 .. 2
  BY DEF Step
<1>2. PICK a \in Nat, b \in Nat : a = At(fpc + w).a /\ b = At(fpc + w).b
  BY <1>1, PacketTyped
<1>3. /\ op.prega = Operand(w, a).preg /\ op.pregb = Operand(w, b).preg /\ op.rob_idx = rob_idx(w)
  BY <1>1, <1>2, PacketTyped
<1>4. packet(w).prega_ready = Operand(w, a).ready /\ packet(w).pregb_ready = Operand(w, b).ready
  BY <1>2 DEF packet
<1>5. PICK r \in 0 .. 2 : Moves(n, r)
  BY StepMoves DEF Step
<1>6. PICK i : i = rob_idx(w)
  OBVIOUS
<1>7. i \in Slot /\ R!Age(i) = entry_cnt + w
  BY <1>1, <1>6, EntersAt
<1>8. entry_cnt \in 0 .. ROB_SIZE /\ Entering(n) \in 0 .. 2 /\ r <= entry_cnt /\ w \in 0 .. 1
  BY <1>1, <1>5, DispatchCount, Sets DEF Moves, IssueInv, R!RingInv, R!TypeOK
<1>9. R!Age(i)' = entry_cnt + w - r /\ entry_cnt' = entry_cnt + Entering(n) - r
  BY <1>5, <1>7, <1>8 DEF Moves
<1>10. PICK c : c = ROB_SIZE - 1 + Entering(n) - w
  OBVIOUS
<1>11. (ROB_SIZE - 1 + entry_cnt - R!Age(i))' = c
  BY <1>8, <1>9, <1>10, Sizes
<1>12. /\ Recent(op.prega, c)' /\ Recent(op.pregb, c)'
       /\ Operand(w, a).ready => HasValue(op.prega)'
       /\ Operand(w, b).ready => HasValue(op.pregb)'
  <2>1. PICK x, y : x = op.prega /\ y = op.pregb
    OBVIOUS
  <2>2. /\ Recent(x, c)' /\ Recent(y, c)'
        /\ Operand(w, a).ready => HasValue(x)'
        /\ Operand(w, b).ready => HasValue(y)'
    BY <1>3, <1>10, <2>1, NewOperand
  <2>3. QED
    BY <2>1, <2>2
<1>13. RecentOperands(op)'
  BY <1>3, <1>6, <1>11, <1>12 DEF RecentOperands
<1>14. QED
  BY <1>4, <1>12, <1>13

LEMMA StepRecent ==
  ASSUME NEW n, NEW taken, NEW st, NEW answered, Step(n, taken, st, answered)
  PROVE  RegistersRecent'
<1>1. /\ IssueInv /\ n \in 0 .. 2 /\ taken \in SUBSET Branches /\ Advance(n, taken, st, answered)
  BY DEF Step
<1>2. PICK r \in 0 .. 2 : Moves(n, r)
  BY <1>1, StepMoves
<1>3. ASSUME NEW i \in Slot, data'[i].valid
      PROVE  Recent(data[i].ins.pdest, entry_cnt - R!Age(i))'
  <2>1. PICK x : x = data'[i].ins.pdest
    OBVIOUS
  <2>2. /\ entry_cnt \in 0 .. ROB_SIZE /\ Entering(n) \in 0 .. 2
        /\ r <= R!Age(i) /\ R!Age(i) < entry_cnt + Entering(n) /\ R!Age(i) \in Nat
    <3>1. R!Age(i) \in Nat
      BY <1>1, R!AgeType, RobParams, Sets DEF IssueInv, Slot
    <3>2. r <= R!Age(i) /\ R!Age(i) < entry_cnt + Entering(n)
      BY <1>2, <1>3 DEF Moves
    <3>3. QED
      BY <1>1, <3>1, <3>2, DispatchCount DEF IssueInv, R!RingInv, R!TypeOK
  <2>3. R!Age(i)' = R!Age(i) - r /\ entry_cnt' = entry_cnt + Entering(n) - r
    BY <1>2, <2>2 DEF Moves
  <2>4. (entry_cnt - R!Age(i))' = entry_cnt + Entering(n) - R!Age(i)
    BY <2>2, <2>3
  <2>5. HandedOut(n) \in 0 .. 2 /\ HandedOut(n) <= Entering(n)
    BY NextRegister
  <2>6. CASE R!Age(i) < entry_cnt
    <3>1. data[i].valid /\ x = data[i].ins.pdest
      BY <1>1, <1>2, <2>1, <2>2, <2>6, Sets DEF IssueInv, R!RingInv, R!WindowExact, Moves
    <3>2. InUse(n, x) /\ Recent(x, entry_cnt - R!Age(i))
      BY <3>1, SlotUses
    <3>3. ASSUME x # ZERO_PREG
          PROVE  Back(x)' <= entry_cnt + Entering(n) - R!Age(i)
      <4>1. Back(x)' = Back(x) + HandedOut(n) /\ Back(x) <= entry_cnt - R!Age(i) /\ x \in Preg
        BY <3>2, <3>3, UsedAfter DEF Recent
      <4>2. Back(x) \in 1 .. 2 * ROB_SIZE
        BY <1>1, <4>1, BackType DEF IssueInv
      <4>3. QED
        BY <2>2, <2>5, <4>1, <4>2, Sizes
    <3>4. QED
      BY <2>1, <2>4, <3>3 DEF Recent
  <2>7. CASE ~(R!Age(i) < entry_cnt)
    <3>1. PICK w \in Ways : w < Entering(n) /\ R!Age(i) = entry_cnt + w
      <4>1. \/ R!Age(i) = entry_cnt + 0 /\ 0 < Entering(n)
            \/ R!Age(i) = entry_cnt + 1 /\ 1 < Entering(n)
        BY <2>2, <2>7
      <4>2. QED
        BY <4>1, Sets
    <3>2. x = PdestOf(w)
      <4>1. CASE w = 0
        BY <1>2, <2>1, <2>2, <3>1, <4>1 DEF Moves
      <4>2. CASE w = 1
        BY <1>2, <2>1, <2>2, <3>1, <4>2 DEF Moves
      <4>3. QED
        BY <4>1, <4>2, Sets
    <3>3. ASSUME x # ZERO_PREG
          PROVE  Back(x)' <= entry_cnt + Entering(n) - R!Age(i)
      <4>1. Back(x)' = HandedOut(n) - Rank(w)
        BY <3>1, <3>2, <3>3, FreshAfter
      <4>2. HandedOut(n) - Rank(w) <= Entering(n) - w /\ Rank(w) \in 0 .. 1
        BY <1>1, <3>1, <3>2, <3>3, NewRegister
      <4>3. QED
        BY <2>2, <2>5, <3>1, <4>1, <4>2, Sets
    <3>4. QED
      BY <2>1, <2>4, <3>3 DEF Recent
  <2>8. QED
    BY <2>6, <2>7
<1>4. ASSUME NEW w \in Ways, NEW k \in Entry, rs'[w][k].busy
      PROVE  RecentOperands(rs[w][k].op)'
  <2>1. StationStep(n, st, w)
    BY <1>1, StationAfter
  <2>2. PICK op : op = rs'[w][k].op
    OBVIOUS
  <2>3. CASE k \in New(n, w)
    <3>1. w < Entering(n) /\ op = packet(w).op
      BY <2>1, <2>2, <2>3 DEF StationStep
    <3>2. RecentOperands(op)'
      BY <3>1, NewOp
    <3>3. QED
      BY <2>2, <3>2 DEF RecentOperands
  <2>4. CASE k \notin New(n, w)
    <3>1. rs[w][k].busy /\ op = rs[w][k].op
      BY <1>4, <2>1, <2>2, <2>4 DEF StationStep
    <3>2. RecentOperands(op)'
      BY <3>1, StationOp
    <3>3. QED
      BY <2>2, <3>2 DEF RecentOperands
  <2>5. QED
    BY <2>3, <2>4
<1>5. ASSUME NEW w \in Ways, is_ex'[w].valid
      PROVE  RecentOperands(is_ex[w])'
  <2>1. StationStep(n, st, w)
    BY <1>1, StationAfter
  <2>2. PICK op : op = is_ex'[w]
    OBVIOUS
  <2>3. RecentOperands(op)'
    <3>1. CASE ex_stall(w)
      <4>1. op = is_ex[w]
        BY <2>1, <2>2, <3>1 DEF StationStep
      <4>2. QED
        BY <1>5, <2>2, <4>1, PortOp
    <3>2. CASE ~ex_stall(w)
      <4>1. PICK k : k \in Gone(st, w)
        BY <1>5, <2>1, <3>2 DEF StationStep, Bubble
      <4>2. k \in Entry /\ rs[w][k].busy /\ op = rs[w][k].op
        BY <2>1, <2>2, <4>1 DEF StationStep
      <4>3. QED
        BY <4>2, StationOp
    <3>3. QED
      BY <3>1, <3>2
  <2>4. QED
    BY <2>2, <2>3 DEF RecentOperands
<1>6. QED
  BY <1>3, <1>4, <1>5 DEF RegistersRecent

LEMMA StepOperands ==
  ASSUME NEW n, NEW taken, NEW st, NEW answered, Step(n, taken, st, answered)
  PROVE  OperandsWritten'
<1>1. /\ IssueInv /\ n \in 0 .. 2 /\ taken \in SUBSET Branches /\ Advance(n, taken, st, answered)
  BY DEF Step
<1>2. PICK r \in 0 .. 2 : Moves(n, r)
  BY <1>1, StepMoves
<1>3. ASSUME NEW w \in Ways
      PROVE  HasValue(is_ex[w].prega)' /\ HasValue(is_ex[w].pregb)'
  <2>1. StationStep(n, st, w)
    BY <1>1, StationAfter
  <2>2. PICK op : op = is_ex'[w]
    OBVIOUS
  <2>3. HasValue(op.prega)' /\ HasValue(op.pregb)'
    <3>1. CASE op = Bubble
      BY <3>1 DEF Bubble, HasValue
    <3>2. CASE op # Bubble /\ ex_stall(w)
      <4>1. op = is_ex[w]
        BY <2>1, <2>2, <3>2 DEF StationStep
      <4>2. is_ex[w].valid
        BY <1>1, <3>2, <4>1 DEF IssueInv, Packets
      <4>3. QED
        BY <4>1, <4>2, PortOp
    <3>3. CASE op # Bubble /\ ~ex_stall(w)
      <4>1. PICK k : k \in Gone(st, w)
        BY <2>1, <2>2, <3>3 DEF StationStep
      <4>2. /\ k \in Entry /\ rs[w][k].busy /\ op = rs[w][k].op
            /\ HeardNow(rs[w][k].prega_ready, op.prega)
            /\ HeardNow(rs[w][k].pregb_ready, op.pregb)
        BY <2>1, <2>2, <4>1 DEF StationStep
      <4>3. QED
        BY <4>2, StationOp
    <3>4. QED
      BY <3>1, <3>2, <3>3
  <2>4. QED
    BY <2>2, <2>3 DEF HasValue
<1>4. ASSUME NEW w \in Ways, NEW k \in Entry, rs'[w][k].busy
      PROVE  /\ rs'[w][k].prega_ready => HasValue(rs[w][k].op.prega)'
             /\ rs'[w][k].pregb_ready => HasValue(rs[w][k].op.pregb)'
  <2>1. StationStep(n, st, w)
    BY <1>1, StationAfter
  <2>2. PICK op : op = rs'[w][k].op
    OBVIOUS
  <2>3. /\ rs'[w][k].prega_ready => HasValue(op.prega)'
        /\ rs'[w][k].pregb_ready => HasValue(op.pregb)'
    <3>1. CASE k \in New(n, w)
      <4>1. PICK a \in BOOLEAN, b \in BOOLEAN :
              a = packet(w).prega_ready /\ b = packet(w).pregb_ready
        BY OperandReady DEF packet
      <4>2. w < Entering(n)
        BY <2>1, <3>1 DEF StationStep
      <4>3. rs'[w][k] = [busy |-> TRUE, op |-> packet(w).op, prega_ready |-> a, pregb_ready |-> b]
        BY <2>1, <3>1, <4>1 DEF StationStep
      <4>4. op = packet(w).op /\ rs'[w][k].prega_ready = a /\ rs'[w][k].pregb_ready = b
        BY <2>2, <4>3
      <4>5. QED
        BY <4>1, <4>2, <4>4, NewOp
    <3>2. CASE k \notin New(n, w)
      <4>1. /\ rs[w][k].busy /\ op = rs[w][k].op
            /\ rs'[w][k].prega_ready = HeardNow(rs[w][k].prega_ready, op.prega)
            /\ rs'[w][k].pregb_ready = HeardNow(rs[w][k].pregb_ready, op.pregb)
        BY <1>4, <2>1, <2>2, <3>2 DEF StationStep
      <4>2. QED
        BY <4>1, StationOp
    <3>3. QED
      BY <3>1, <3>2
  <2>4. QED
    BY <2>2, <2>3 DEF HasValue
<1>5. ASSUME NEW i \in Slot, retire_tag'[i]
      PROVE  HasValue(data[i].ins.pdest)'
  <2>1. R!Completed(cdb, i) /\ r <= R!Age(i)
    BY <1>2, <1>5 DEF Moves
  <2>2. data[i].valid
    <3>1. R!RingInv /\ i \in R!Idx
      BY <1>1, Sets DEF IssueInv
    <3>2. QED
      BY <2>1, <3>1, R!CompletedIsValid, RobParams
  <2>3. PICK x : x = data[i].ins.pdest
    OBVIOUS
  <2>4. InUse(n, x) /\ R!Age(i) < entry_cnt
    BY <2>2, <2>3, SlotUses
  <2>5. HasValue(x) \/ OnABus(x)
    BY <1>1, <2>1, <2>3, CompletedHas
  <2>6. HasValue(x)'
    BY <2>4, <2>5, ValueStays
  <2>7. x = data'[i].ins.pdest
    BY <1>2, <2>1, <2>3, <2>4 DEF Moves
  <2>8. QED
    BY <2>6, <2>7 DEF HasValue
<1>6. QED
  BY <1>3, <1>4, <1>5 DEF OperandsWritten

-----------------------------------------------------------------------------
(* With nothing in flight there is nothing to be said of it. *)
Emptied ==
  /\ rs = [w \in Ways |-> Bank(w)!Reset]
  /\ is_ex = [w \in Ways |-> Bubble]
  /\ mult_dones = [w \in Ways |-> Mult(w)!NoDones]
  /\ mult_chain = [w \in Ways |-> Mult(w)!NoChain]
  /\ load_buffer = <<>> /\ dout_valid = FALSE
  /\ ex_cm = [w \in Ways |-> NoResult]
  /\ \A i \in Slot : ~data[i].valid /\ ~retire_tag[i]

LEMMA EmptiedInv ==
  ASSUME Emptied, R!RingInv, prog \in Programs, fpc \in 0 .. Len(prog) - 1,
         registers \in [Preg -> BOOLEAN], next_preg \in Preg
  PROVE  IssueInv
<1>1. /\ \A w \in Ways, k \in Entry :
           rs[w][k] = [busy |-> FALSE, op |-> Bubble, prega_ready |-> FALSE, pregb_ready |-> FALSE]
      /\ \A w \in Ways : is_ex[w] = Bubble /\ ~is_ex[w].valid
      /\ \A w \in Ways, k \in 1 .. STAGES : mult_dones[w][k] = FALSE
      /\ \A w \in Ways, k \in 1 .. DELAY : mult_chain[w][k] = NoResult
      /\ \A w \in Ways : ex_cm[w] = NoResult
  BY DEF Emptied, Bank!Reset, Bank!Index, Bank!Free, Entry, Mult!NoDones, Mult!NoChain, Bubble
<1>2. Len(load_buffer) = 0 /\ load_buffer \in Seq(Results) /\ dout_valid = FALSE
  BY DEF Emptied
<1>3. \A k : ~(k \in 1 .. Len(load_buffer))
  BY <1>2
<1>4. \A p, i : ~In(p, i)
  BY <1>1, <1>3 DEF In, Emptied, NoResult
<1>5. Placed
  BY <1>4 DEF Placed, Emptied
<1>6. Packets
  BY <1>1, <1>3 DEF Packets
<1>7. TagsOwn
  BY <1>1, <1>3 DEF TagsOwn, NoResult
<1>8. ValuesRight
  BY <1>1, <1>3 DEF ValuesRight, NoResult
<1>9. OperandsWritten
  BY <1>1 DEF OperandsWritten, HasValue, Bubble, Emptied
<1>10. RegistersRecent
  BY <1>1 DEF RegistersRecent, Emptied
<1>11. Bubble \in Op /\ NoResult \in Results
  BY BubbleTyped, Sets DEF NoResult, Results, Tag
<1>12. rs \in [Ways -> [0 .. NUM_RS_ENTRIES - 1 ->
                  [busy : BOOLEAN, op : Op, prega_ready : BOOLEAN, pregb_ready : BOOLEAN]]]
  BY <1>11 DEF Emptied, Bank!Reset, Bank!Index, Bank!Free
<1>13. /\ is_ex \in [Ways -> Op] /\ ex_cm \in [Ways -> Results]
       /\ mult_dones \in [Ways -> [1 .. STAGES -> BOOLEAN]]
       /\ mult_chain \in [Ways -> [1 .. DELAY -> Results]]
  BY <1>11 DEF Emptied, Mult!NoDones, Mult!NoChain
<1>14. Rob!TypeOK
  BY SameRing DEF R!RingInv
<1>15. TypeOK
  <2>1. Len(load_buffer) <= ROB_SIZE
    BY <1>2, Sizes
  <2>2. dout_valid \in BOOLEAN /\ (dout_valid => load_buffer # <<>>)
    BY <1>2, Zenon
  <2>3. QED
    BY <1>2, <1>12, <1>13, <1>14, <2>1, <2>2 DEF TypeOK
<1>16. QED
  BY <1>5, <1>6, <1>7, <1>8, <1>9, <1>10, <1>15 DEF IssueInv

LEMMA EmptiedInvNext ==
  Emptied' /\ R!RingInv' /\ prog' \in Programs /\ fpc' \in 0 .. Len(prog') - 1
  /\ registers' \in [Preg -> BOOLEAN] /\ next_preg' \in Preg => IssueInv'
<1>1. Emptied /\ R!RingInv /\ prog \in Programs /\ fpc \in 0 .. Len(prog) - 1
      /\ registers \in [Preg -> BOOLEAN] /\ next_preg \in Preg => IssueInv
  BY EmptiedInv
<1>2. (Emptied /\ R!RingInv /\ prog \in Programs /\ fpc \in 0 .. Len(prog) - 1
       /\ registers \in [Preg -> BOOLEAN] /\ next_preg \in Preg => IssueInv)'
  BY <1>1, PTL
<1>3. QED
  BY <1>2

LEMMA InitIssue == Init => IssueInv
<1>1. SUFFICES ASSUME Init PROVE IssueInv
  OBVIOUS
<1>2. R!Init
  BY <1>1 DEF Init, Rob!Init, R!Init, Rob!Idx, R!Idx, Rob!Zero, R!Zero
<1>3. R!RingInv
  BY <1>2, R!InitRing, RobParams
<1>4. \A i \in Slot : ~data[i].valid /\ ~retire_tag[i]
  BY <1>2, Sets DEF R!Init, R!Zero
<1>5. prog \in Programs /\ fpc \in 0 .. Len(prog) - 1
  <2>1. prog \in Programs /\ fpc = 0
    BY <1>1 DEF Init
  <2>2. prog # <<>> /\ prog \in Seq([class : Classes, hit : BOOLEAN, a : Nat, b : Nat])
    BY <2>1, IssueAssumption
  <2>3. Len(prog) \in Nat \ {0}
    BY <2>2
  <2>4. QED
    BY <2>1, <2>3
<1>6. registers \in [Preg -> BOOLEAN] /\ next_preg \in Preg
  BY <1>1, Sizes DEF Init, Preg
<1>7. Emptied
  BY <1>1, <1>4 DEF Init, Emptied
<1>8. QED
  BY <1>3, <1>5, <1>6, <1>7, EmptiedInv

LEMMA FlushIssue ==
  ASSUME IssueInv, mispredict, Flushed, prog' = prog
  PROVE  IssueInv'
<1>1. R!Flush
  BY SameFlush DEF Flushed
<1>2. R!RingInv'
  BY <1>1, R!FlushRing, RobParams DEF IssueInv
<1>3. \A i \in Slot : ~data'[i].valid /\ ~retire_tag'[i]
  BY <1>1, Sets DEF R!Flush, R!Zero
<1>4. Emptied'
  BY <1>3 DEF Flushed, Emptied
<1>5. registers' \in [Preg -> BOOLEAN] /\ next_preg' \in Preg
  <2>1. registers \in [Preg -> BOOLEAN] /\ ex_cm \in [Ways -> Results] /\ next_preg \in Preg
    BY DEF IssueInv, TypeOK
  <2>2. cdb[0].value \in BOOLEAN /\ cdb[1].value \in BOOLEAN
    BY <2>1, Sets DEF Results, cdb
  <2>3. QED
    BY <2>1, <2>2 DEF Flushed, Written
<1>6. prog' \in Programs /\ fpc' \in 0 .. Len(prog') - 1
  <2>1. \A i \in Slot : data[i].valid => data[i].ins.pc \in Nat
    <3>1. \A i \in Slot : data[i] \in R!Entry
      BY Sets DEF IssueInv, R!RingInv, R!TypeOK
    <3>2. QED
      BY <3>1 DEF R!Entry
  <2>2. \A i \in Slot : Rob!Completed(cdb, i) => data[i].valid
    BY SameRing, Sets, R!CompletedIsValid, RobParams DEF IssueInv
  <2>3. head \in Slot /\ Rob!head_p1 \in Slot
    BY Sets, Sizes DEF IssueInv, R!RingInv, R!TypeOK, Rob!head_p1, Rob!Wrap, Slot, R!Idx
  <2>4. /\ misp0 => Rob!Completed(cdb, head)
        /\ misp1 => Rob!Completed(cdb, Rob!head_p1)
    BY DEF misp0, misp1, head_retire_rdy, head_p1_retire_rdy, Rob!head_retire_rdy,
           Rob!head_p1_retire_rdy
  <2>5. PICK x \in Nat : x = (IF misp0 THEN first ELSE second).ins.pc
    BY <2>1, <2>2, <2>3, <2>4 DEF mispredict, first, second
  <2>6. fpc' = (x + 1) % Len(prog) /\ x + 1 \in Nat
    BY <2>5 DEF Flushed
  <2>7. Len(prog) \in Nat \ {0}
    BY ProgType DEF IssueInv
  <2>8. fpc' \in 0 .. Len(prog) - 1
    BY <2>6, <2>7, Modulus
  <2>9. QED
    BY <2>8 DEF IssueInv, TypeOK
<1>7. QED
  BY <1>2, <1>4, <1>5, <1>6, EmptiedInvNext

LEMMA NextIssue ==
  ASSUME IssueInv, UntilDefect, DELAY = STAGES, Next
  PROVE  IssueInv'
<1>1. PICK st \in Settled, n \in 0 .. 2, taken \in SUBSET Branches,
           answered \in IF Waits THEN BOOLEAN ELSE {FALSE} : Clock(n, taken, st, answered)
  BY DEF Next, Cycle
<1>2. answered \in BOOLEAN /\ (answered => Waits) /\ prog' = prog
  BY <1>1 DEF Clock
<1>3. CASE mispredict
  BY <1>1, <1>2, <1>3, FlushIssue DEF Clock
<1>4. CASE ~mispredict
  <2>1. Step(n, taken, st, answered)
    BY <1>1, <1>2, <1>4 DEF Step, Clock
  <2>2. R!RingInv'
    BY <2>1, StepMoves DEF Step
  <2>3. /\ TypeOK' /\ Placed' /\ Packets' /\ TagsOwn'
        /\ ValuesRight' /\ OperandsWritten' /\ RegistersRecent'
    BY <2>1, StepTypes, StepPlaced, StepPackets, StepTags, StepValues, StepOperands, StepRecent
  <2>4. QED
    BY <2>2, <2>3 DEF IssueInv
<1>5. QED
  BY <1>3, <1>4

LEMMA StutterIssue == IssueInv /\ UNCHANGED vars => IssueInv'
  BY DEF IssueInv, vars, robVars, TypeOK, R!RingInv, R!TypeOK, R!WindowExact, R!NoStaleCompletion,
         R!Age, Rob!TypeOK, Placed, In, Packets, TagsOwn, ValuesRight, OperandsWritten, HasValue,
         RegistersRecent, RecentOperands, Recent, Back

(* A set of at most one thing. *)
LEMMA AtMostOne ==
  ASSUME NEW S, \A x, y \in S : x = y
  PROVE  Cardinality(S) = IF S = {} THEN 0 ELSE 1
<1>1. CASE S = {}
  BY <1>1, FS_EmptySet
<1>2. CASE S # {}
  <2>1. PICK x : S = {x}
    BY <1>2
  <2>2. QED
    BY <1>2, <2>1, FS_Singleton
<1>3. QED
  BY <1>1, <1>2

LEMMA OnePlaceHolds == IssueInv => OnePlace
<1> DEFINE Entries(i) == {k \in Ways \X (0 .. NUM_RS_ENTRIES - 1) :
                            rs[k[1]][k[2]].busy /\ rs[k[1]][k[2]].op.rob_idx = i}
           Ports(i)   == {w \in Ways : is_ex[w].valid /\ is_ex[w].rob_idx = i}
           Stages(i)  == {k \in Ways \X (1 .. STAGES) :
                            mult_dones[k[1]][k[2]] /\ mult_chain[k[1]][k[2]].rob_idx = i}
           Loading(i) == {k \in DOMAIN load_buffer : load_buffer[k].rob_idx = i}
           Buses(i)   == {w \in Ways : ex_cm[w].valid /\ ex_cm[w].rob_idx = i}
<1>1. SUFFICES ASSUME IssueInv PROVE OnePlace
  OBVIOUS
<1>2. DOMAIN load_buffer = 1 .. Len(load_buffer)
  BY <1>1 DEF IssueInv, TypeOK
<1>3. ASSUME NEW i \in Slot
      PROVE  Cardinality(Entries(i)) + Cardinality(Ports(i)) + Cardinality(Stages(i))
               + Cardinality(Loading(i)) + Cardinality(Buses(i)) + (IF retire_tag[i] THEN 1 ELSE 0)
             = IF data[i].valid THEN 1 ELSE 0
  <2>1. /\ \A k \in Entries(i) : k = <<k[1], k[2]>> /\ In(InStation(k[1], k[2]), i)
        /\ \A w \in Ports(i) : In(AtPort(w), i)
        /\ \A k \in Stages(i) : k = <<k[1], k[2]>> /\ In(InStage(k[1], k[2]), i)
        /\ \A k \in Loading(i) : In(InBuffer(k), i)
        /\ \A w \in Buses(i) : In(OnBus(w), i)
        /\ retire_tag[i] => In(Completed, i)
    BY <1>2 DEF In, Entry
  <2>2. /\ \A p : In(p, i) =>
             \/ Entries(i) # {} \/ Ports(i) # {} \/ Stages(i) # {} \/ Loading(i) # {}
             \/ Buses(i) # {} \/ retire_tag[i]
    <3>1. ASSUME NEW w \in Ways, NEW k \in Entry, rs[w][k].busy, rs[w][k].op.rob_idx = i
          PROVE  <<w, k>> \in Entries(i)
      BY <3>1 DEF Entry
    <3>2. ASSUME NEW w \in Ways, NEW k \in 1 .. STAGES, mult_dones[w][k], mult_chain[w][k].rob_idx = i
          PROVE  <<w, k>> \in Stages(i)
      BY <3>2
    <3>3. \A k \in 1 .. Len(load_buffer) : load_buffer[k].rob_idx = i => k \in Loading(i)
      BY <1>2
    <3>4. \A w \in Ways : /\ is_ex[w].valid /\ is_ex[w].rob_idx = i => w \in Ports(i)
                          /\ ex_cm[w].valid /\ ex_cm[w].rob_idx = i => w \in Buses(i)
      OBVIOUS
    <3> HIDE DEF Entries, Ports, Stages, Loading, Buses
    <3>5. QED
      BY <3>1, <3>2, <3>3, <3>4 DEF In
  <2> HIDE DEF Entries, Ports, Stages, Loading, Buses
  <2>3. /\ \A p, q : In(p, i) /\ In(q, i) => p = q
        /\ data[i].valid <=> \E p : In(p, i)
    BY <1>1 DEF IssueInv, Placed
  <2>4. /\ Cardinality(Entries(i)) = IF Entries(i) = {} THEN 0 ELSE 1
        /\ Cardinality(Ports(i)) = IF Ports(i) = {} THEN 0 ELSE 1
        /\ Cardinality(Stages(i)) = IF Stages(i) = {} THEN 0 ELSE 1
        /\ Cardinality(Loading(i)) = IF Loading(i) = {} THEN 0 ELSE 1
        /\ Cardinality(Buses(i)) = IF Buses(i) = {} THEN 0 ELSE 1
    <3>1. \A k, j \in Entries(i) : k = j
      BY <2>1, <2>3, Distinct
    <3>2. \A k, j \in Ports(i) : k = j
      BY <2>1, <2>3, Distinct
    <3>3. \A k, j \in Stages(i) : k = j
      BY <2>1, <2>3, Distinct
    <3>4. \A k, j \in Loading(i) : k = j
      BY <2>1, <2>3, Distinct
    <3>5. \A k, j \in Buses(i) : k = j
      BY <2>1, <2>3, Distinct
    <3>6. QED
      BY <3>1, <3>2, <3>3, <3>4, <3>5, AtMostOne
  <2>5. CASE \A p : ~In(p, i)
    <3>1. /\ Entries(i) = {} /\ Ports(i) = {} /\ Stages(i) = {} /\ Loading(i) = {}
          /\ Buses(i) = {} /\ ~retire_tag[i] /\ ~data[i].valid
      BY <2>1, <2>3, <2>5
    <3>2. QED
      BY <2>4, <3>1
  <2>6. CASE \E p : In(p, i)
    <3>1. data[i].valid
      BY <2>3, <2>6
    <3>2. CASE Entries(i) # {}
      <4>1. /\ Ports(i) = {} /\ Stages(i) = {} /\ Loading(i) = {} /\ Buses(i) = {} /\ ~retire_tag[i]
        BY <2>1, <2>3, <3>2, Distinct
      <4>2. QED
        BY <2>4, <3>1, <3>2, <4>1
    <3>3. CASE Ports(i) # {}
      <4>1. /\ Entries(i) = {} /\ Stages(i) = {} /\ Loading(i) = {} /\ Buses(i) = {} /\ ~retire_tag[i]
        BY <2>1, <2>3, <3>3, Distinct
      <4>2. QED
        BY <2>4, <3>1, <3>3, <4>1
    <3>4. CASE Stages(i) # {}
      <4>1. /\ Entries(i) = {} /\ Ports(i) = {} /\ Loading(i) = {} /\ Buses(i) = {} /\ ~retire_tag[i]
        BY <2>1, <2>3, <3>4, Distinct
      <4>2. QED
        BY <2>4, <3>1, <3>4, <4>1
    <3>5. CASE Loading(i) # {}
      <4>1. PICK k : In(InBuffer(k), i)
        BY <2>1, <3>5
      <4>2. Entries(i) = {} /\ Ports(i) = {} /\ Stages(i) = {}
        BY <2>1, <2>3, <4>1, Distinct
      <4>3. Buses(i) = {} /\ ~retire_tag[i]
        BY <2>1, <2>3, <4>1, Distinct
      <4>4. QED
        BY <2>4, <3>1, <3>5, <4>2, <4>3
    <3>6. CASE Buses(i) # {}
      <4>1. /\ Entries(i) = {} /\ Ports(i) = {} /\ Stages(i) = {} /\ Loading(i) = {} /\ ~retire_tag[i]
        BY <2>1, <2>3, <3>6, Distinct
      <4>2. QED
        BY <2>4, <3>1, <3>6, <4>1
    <3>7. CASE retire_tag[i]
      <4>1. /\ Entries(i) = {} /\ Ports(i) = {} /\ Stages(i) = {} /\ Loading(i) = {} /\ Buses(i) = {}
        BY <2>1, <2>3, <3>7, Distinct
      <4>2. QED
        BY <2>4, <3>1, <3>7, <4>1
    <3>8. QED
      BY <2>2, <2>6, <3>2, <3>3, <3>4, <3>5, <3>6, <3>7
  <2>7. QED
    BY <2>5, <2>6
<1>4. QED
  BY <1>1, <1>3 DEF OnePlace, IssueInv

LEMMA OperandsRightHolds == IssueInv => OperandsRight
  BY ReadsRight DEF OperandsRight

LEMMA IssueInvariant ==
  ASSUME DELAY = STAGES
  PROVE  Spec /\ [][UntilDefect]_vars => []IssueInv
<1>1. IssueInv /\ [Next]_vars /\ [UntilDefect]_vars => IssueInv'
  <2>1. SUFFICES ASSUME IssueInv, [Next]_vars, [UntilDefect]_vars
                 PROVE  IssueInv'
    OBVIOUS
  <2>2. CASE UNCHANGED vars
    BY <2>1, <2>2, StutterIssue
  <2>3. CASE ~UNCHANGED vars
    BY <2>1, <2>3, NextIssue
  <2>4. QED
    BY <2>2, <2>3
<1>2. QED
  BY <1>1, InitIssue, PTL DEF Spec

(* OnePlace, for every size: no product, load or result is lost or comes twice, as long
   as the delay chains are as long as the multiplier and none of the defects strikes. *)
THEOREM IssueOnePlace ==
  ASSUME DELAY = STAGES
  PROVE  Spec /\ [][UntilDefect]_vars => []OnePlace
  BY IssueInvariant, OnePlaceHolds, PTL

(* OperandsRight, for every size: whatever is executed has the values its producers
   wrote, from the register file or from a bus. *)
THEOREM IssueOperandsRight ==
  ASSUME DELAY = STAGES
  PROVE  Spec /\ [][UntilDefect]_vars => []OperandsRight
  BY IssueInvariant, OperandsRightHolds, PTL
=============================================================================
