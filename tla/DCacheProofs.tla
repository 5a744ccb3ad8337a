---------------------------- MODULE DCacheProofs ----------------------------
(***************************************************************************)
(* The data cache always has a way to replace: the ages of dcache_mem.sv,  *)
(* for every number of ways and sets, and whatever processor and memory    *)
(* do.  And it agrees with memory, in the behaviours in which none of the  *)
(* three defects of MCDCache strikes.                                      *)
(***************************************************************************)
EXTENDS MCDCache, FiniteSetTheorems, WellFoundedInduction, TLAPS

(* The inductive invariant.  A way can only run out of ages below it if two others have
   the same, so it is distinct ages that every step keeps. *)
AgesInv ==
  /\ flag_recent \in [Set -> [Way -> 0 .. WAYS - 1]]
  /\ AgesDistinct

(* Making one way the latest and all others older, down to 0, keeps different ages
   different. *)
LEMMA AgedDistinct ==
  ASSUME NEW flags \in [Way -> 0 .. WAYS - 1], NEW way,
         \A v, w \in Way : v # w /\ flags[v] = flags[w] => flags[v] = 0
  PROVE  /\ Aged(flags, way) \in [Way -> 0 .. WAYS - 1]
         /\ \A v, w \in Way : v # w /\ Aged(flags, way)[v] = Aged(flags, way)[w]
                              => Aged(flags, way)[v] = 0
<1> USE DCacheAssumption
<1>1. \A w \in Way : Aged(flags, way)[w] =
        IF w = way THEN WAYS - 1 ELSE IF flags[w] = 0 THEN 0 ELSE flags[w] - 1
  BY DEF Aged
<1>2. \A w \in Way : flags[w] \in Int /\ 0 <= flags[w] /\ flags[w] <= WAYS - 1
  OBVIOUS
<1>3. Aged(flags, way) \in [Way -> 0 .. WAYS - 1]
  BY <1>2 DEF Aged
<1>4. ASSUME NEW v \in Way, NEW w \in Way, v # w, Aged(flags, way)[v] = Aged(flags, way)[w]
      PROVE  Aged(flags, way)[v] = 0
  <2>1. CASE v = way \/ w = way
    BY <1>1, <1>2, <1>4, <2>1
  <2>2. CASE v # way /\ w # way
    <3>1. CASE flags[v] = 0 \/ flags[w] = 0
      BY <1>1, <1>2, <1>4, <2>2, <3>1
    <3>2. CASE flags[v] # 0 /\ flags[w] # 0
      <4>1. flags[v] - 1 = flags[w] - 1
        BY <1>1, <1>4, <2>2, <3>2
      <4>2. flags[v] = flags[w]
        BY <4>1, <1>2
      <4>3. QED
        BY <4>2, <1>4, <3>2
    <3>3. QED
      BY <3>1, <3>2
  <2>3. QED
    BY <2>1, <2>2
<1>5. QED
  BY <1>3, <1>4

(* Among as many ways as there are ages, of which those above 0 are distinct, one has age
   0: otherwise WAYS ways would share WAYS - 1 ages. *)
LEMMA DistinctLeavesVictim ==
  ASSUME AgesInv
  PROVE  VictimExists
<1> USE DCacheAssumption
<1>1. SUFFICES ASSUME NEW s \in Set, victims(s) = {}
               PROVE  FALSE
  BY DEF VictimExists
<1> DEFINE f == flag_recent[s]
<1>2. f \in [Way -> 0 .. WAYS - 1] /\ \A w \in Way : f[w] # 0
  BY <1>1 DEF AgesInv, victims
<1>3. f \in [Way -> 1 .. WAYS - 1]
  BY <1>2
<1>4. /\ IsFiniteSet(Way) /\ Cardinality(Way) = WAYS
      /\ IsFiniteSet(1 .. WAYS - 1) /\ Cardinality(1 .. WAYS - 1) = WAYS - 1
  <2>1. IsFiniteSet(0 .. WAYS - 1) /\ Cardinality(0 .. WAYS - 1) = WAYS
    BY FS_Interval
  <2>2. IsFiniteSet(1 .. WAYS - 1) /\ Cardinality(1 .. WAYS - 1) = WAYS - 1
    BY FS_Interval
  <2>3. QED
    BY <2>1, <2>2 DEF Way
<1>5. PICK v, w \in Way : v # w /\ f[v] = f[w]
  <2>1. Cardinality(1 .. WAYS - 1) < Cardinality(Way)
    BY <1>4
  <2> HIDE DEF f
  <2>2. QED
    BY <1>3, <1>4, <2>1, FS_PigeonHole
<1>6. f[v] = 0
  BY <1>5 DEF AgesInv, AgesDistinct
<1>7. QED
  BY <1>2, <1>6

(* Both ways in which a set is written. *)
LEMMA AgedSet ==
  ASSUME AgesInv, NEW s, NEW way,
         flag_recent' = [flag_recent EXCEPT ![s] = Aged(flag_recent[s], way)]
  PROVE  AgesInv'
<1>1. SUFFICES ASSUME NEW t \in Set
               PROVE  /\ flag_recent'[t] \in [Way -> 0 .. WAYS - 1]
                      /\ \A v, w \in Way : v # w /\ flag_recent'[t][v] = flag_recent'[t][w]
                                           => flag_recent'[t][v] = 0
  BY DEF AgesInv, AgesDistinct
<1>2. /\ flag_recent[t] \in [Way -> 0 .. WAYS - 1]
      /\ \A v, w \in Way : v # w /\ flag_recent[t][v] = flag_recent[t][w]
                           => flag_recent[t][v] = 0
  BY DEF AgesInv, AgesDistinct
<1>3. CASE t = s
  <2>1. flag_recent'[t] = Aged(flag_recent[t], way)
    BY <1>3 DEF AgesInv
  <2>2. QED
    BY <1>2, <2>1, AgedDistinct
<1>4. CASE t # s
  BY <1>2, <1>4 DEF AgesInv
<1>5. QED
  BY <1>3, <1>4

LEMMA AgesInit == Init => AgesInv
  BY DCacheAssumption DEF Init, AgesInv, AgesDistinct

LEMMA AgesStep ==
  ASSUME AgesInv, [Next]_vars
  PROVE  AgesInv'
<1>1. ASSUME NEW rollback \in BOOLEAN, NEW fetch, NEW ended, Cycle(rollback, fetch, ended)
      PROVE  AgesInv'
  <2> DEFINE memtag == mem2proc_tag(ended)
  <2>1. Sets(rollback, memtag)
    BY <1>1 DEF Cycle
  <2>2. CASE wr_valid_o(rollback)
    <3>1. Stored(store.block, store.half, store.value)
      BY <2>1, <2>2 DEF Sets
    <3>2. CASE UNCHANGED flag_recent
      BY <3>2 DEF AgesInv, AgesDistinct
    <3>3. CASE ~UNCHANGED flag_recent
      BY <3>1, <3>3, AgedSet DEF Stored
    <3>4. QED
      BY <3>2, <3>3
  <2>3. CASE ~wr_valid_o(rollback) /\ Arrived(memtag) /\ ~rollback
    <3>1. Filled(addr, IF rd_mem /\ ~wr_mem THEN transaction[memtag].data ELSE Zero)
      BY <2>1, <2>3 DEF Sets
    <3>2. QED
      BY <3>1, AgedSet DEF Filled
  <2>4. CASE ~wr_valid_o(rollback) /\ ~(Arrived(memtag) /\ ~rollback)
    <3>1. UNCHANGED flag_recent
      BY <2>1, <2>4 DEF Sets
    <3>2. QED
      BY <3>1 DEF AgesInv, AgesDistinct
  <2>5. QED
    BY <2>2, <2>3, <2>4
<1>2. CASE UNCHANGED vars
  BY <1>2 DEF vars, cacheVars, AgesInv, AgesDistinct
<1>3. QED
  BY <1>1, <1>2 DEF Next

(* The ages of a set stay distinct above 0. *)
THEOREM DCacheAges == Spec => []AgesInv
<1>1. AgesInv /\ [Next]_vars => AgesInv'
  BY AgesStep
<1>2. QED
  BY AgesInit, <1>1, PTL DEF Spec

(* dcache_mem.sv:143: a double word from memory always finds a way to be written to. *)
THEOREM DCacheVictimExists == Spec => []VictimExists
<1>1. AgesInv => VictimExists
  BY DistinctLeavesVictim
<1>2. QED
  BY DCacheAges, <1>1, PTL

-----------------------------------------------------------------------------
(* The cache agrees with memory.  While the controller is not idle it works for the load that
   has missed, and what it waits for is that load's double word. *)
WorksForMiss == state # "DIDLE" => rd_mem /\ read_hit_entry(load.block) = {}

WaitsForMiss ==
  state = "DWAIT" =>
    /\ waiting_memtag \in MemTag /\ load.half = 0
    /\ transaction[waiting_memtag].use = "load"
    /\ transaction[waiting_memtag].data = memory[load.block]

CacheInv == LinesExact /\ WorksForMiss /\ WaitsForMiss

(* Index and tag together are the double word. *)
LEMMA BlockType ==
  ASSUME NEW b \in Block
  PROVE  idx(b) \in Set /\ tag(b) \in {tag(c) : c \in Block}
  BY DCacheAssumption DEF Block, Set, idx

LEMMA SetsMany == Set # {} /\ Way # {}
  BY DCacheAssumption DEF Set, Way

LEMMA OwnBlock ==
  ASSUME NEW b \in Block, NEW c \in Block, idx(b) = idx(c), tag(b) = tag(c)
  PROVE  b = c
<1> USE DCacheAssumption
<1>1. ASSUME NEW n \in Nat \ {0}, NEW x \in Nat PROVE x = n * (x \div n) + (x % n)
  OBVIOUS
<1>2. b = SETS * tag(b) + idx(b) /\ c = SETS * tag(c) + idx(c)
  BY <1>1 DEF Block, idx, tag
<1>3. QED
  BY <1>2

LEMMA LowestIn ==
  ASSUME NEW S, S \subseteq Nat, S # {}
  PROVE  Lowest(S) \in S
<1>1. PICK x \in S : \A y \in S : ~(<<y, x>> \in OpToRel(<, Nat))
  BY WFMin, NatLessThanWellFounded
<1>2. ASSUME NEW y \in S PROVE x <= y
  <2>1. <<y, x>> \in Nat \X Nat /\ <<y, x>>[1] = y /\ <<y, x>>[2] = x
    OBVIOUS
  <2>2. ~(y < x)
    BY <1>1, <2>1 DEF OpToRel
  <2>3. QED
    BY <2>2
<1>3. QED
  BY <1>2 DEF Lowest

(* All tags but the highest are seen as they are. *)
LEMMA SeenTag ==
  ASSUME NEW k \in 0 .. NUM_MEM_TAGS
  PROVE  Seen(k) = IF k = NUM_MEM_TAGS THEN 0 ELSE k
<1>1. ASSUME NEW n \in Nat \ {0}, NEW x \in 0 .. n PROVE x % n = IF x = n THEN 0 ELSE x
  OBVIOUS
<1>2. QED
  BY <1>1, DCacheAssumption DEF Seen

(* The memory only gives out a tag that is free, and has one for a store that the cache
   acknowledges. *)
LEMMA Responses ==
  ASSUME NEW request \in BOOLEAN
  PROVE  /\ accepted(request) \in 0 .. NUM_MEM_TAGS
         /\ accepted(request) # 0 => accepted(request) \in free_tags
         /\ request /\ free_tags # {} => accepted(request) # 0
<1>1. free_tags \subseteq MemTag /\ MemTag \subseteq Nat /\ 0 \notin MemTag
  BY DCacheAssumption DEF free_tags, MemTag
<1>2. CASE request /\ free_tags # {}
  <2>1. Lowest(free_tags) \in free_tags
    BY <1>1, <1>2, LowestIn
  <2>2. accepted(request) = Lowest(free_tags)
    BY <1>2 DEF accepted
  <2>3. accepted(request) \in free_tags /\ accepted(request) \in MemTag
    BY <1>1, <2>1, <2>2
  <2>4. QED
    BY <1>1, <2>3, DCacheAssumption DEF MemTag
<1>3. CASE ~(request /\ free_tags # {})
  <2>1. accepted(request) = 0
    BY <1>3 DEF accepted
  <2>2. QED
    BY <1>3, <2>1, DCacheAssumption
<1>4. QED
  BY <1>2, <1>3

-----------------------------------------------------------------------------
(* What one cycle does, by what is written into the sets. *)
LEMMA CycleType ==
  ASSUME CacheInv, AgesInv', NEW rollback \in BOOLEAN, NEW fetch \in BOOLEAN,
         NEW ended \in {0} \cup InUse, Cycle(rollback, fetch, ended)
  PROVE  TypeOK'
<1> USE DCacheAssumption
<1> DEFINE memtag == mem2proc_tag(ended)
           Dcache == proc2Dmem_command(rollback) # "BUS_NONE"
           response == accepted(Dcache \/ fetch)
           heard == IF Dcache THEN response ELSE 0
<1>1. /\ Controller(rollback, heard, memtag) /\ Sets(rollback, memtag)
      /\ Memory(rollback, response, ended) /\ Buffers(rollback, memtag)
  BY DEF Cycle
<1>2. response \in 0 .. NUM_MEM_TAGS /\ heard \in 0 .. NUM_MEM_TAGS
  <2>1. (Dcache \/ fetch) \in BOOLEAN
    OBVIOUS
  <2> HIDE DEF Dcache
  <2>2. response \in 0 .. NUM_MEM_TAGS
    BY <2>1, Responses
  <2> HIDE DEF response
  <2>3. QED
    BY <2>2
<1>3. TypeOK
  BY DEF CacheInv, LinesExact
<1>4. memtag \in 0 .. NUM_MEM_TAGS
  BY DEF mem2proc_tag, InUse, MemTag
<1>5. addr \in Block
  BY <1>3 DEF TypeOK, addr, rd_mem, wr_mem, Loads, Stores, Block
<1>6. Zero \in Double
  BY DEF Zero, Double
<1> HIDE DEF memtag, response, heard
<1>7. state' \in {"DIDLE", "DREQUEST", "DWAIT"} /\ waiting_memtag' \in 0 .. NUM_MEM_TAGS - 1
  <2>1. next_state(heard, memtag) \in {"DIDLE", "DREQUEST", "DWAIT"}
    BY <1>3 DEF next_state, TypeOK
  <2>2. Seen(heard) \in 0 .. NUM_MEM_TAGS - 1
    BY <1>2 DEF Seen
  <2>3. QED
    BY <1>1, <1>3, <2>1, <2>2 DEF Controller, TypeOK
<1>8. line' \in [Set -> [Way -> [valid : BOOLEAN, tag : {tag(b) : b \in Block}, data : Double]]]
  <2>1. CASE wr_valid_o(rollback)
    <3>1. Stored(store.block, store.half, store.value)
      BY <1>1, <2>1 DEF Sets
    <3>2. store \in Stores
      BY <1>3, <2>1 DEF TypeOK, wr_valid_o, wr_mem
    <3>3. QED
      <4>1. CASE UNCHANGED line
        BY <1>3, <4>1 DEF TypeOK
      <4>2. ASSUME NEW way, line' = [line EXCEPT ![idx(store.block)][way].data[store.half] = store.value]
            PROVE  line' \in [Set -> [Way -> [valid : BOOLEAN, tag : {tag(b) : b \in Block}, data : Double]]]
        <5>1. \A s \in Set, w \in Way :
                 line'[s][w] = IF s = idx(store.block) /\ w = way
                               THEN [line[s][w] EXCEPT !.data[store.half] = store.value]
                               ELSE line[s][w]
          BY <1>3, <4>2 DEF TypeOK
        <5>2. \A d \in Double : [d EXCEPT ![store.half] = store.value] \in Double
          BY <3>2 DEF Stores, Double
        <5>3. \A s \in Set, w \in Way :
                 line'[s][w] \in [valid : BOOLEAN, tag : {tag(b) : b \in Block}, data : Double]
          <6>1. ASSUME NEW x \in [valid : BOOLEAN, tag : {tag(b) : b \in Block}, data : Double]
                PROVE  [x EXCEPT !.data[store.half] = store.value]
                         \in [valid : BOOLEAN, tag : {tag(b) : b \in Block}, data : Double]
            <7>1. [x.data EXCEPT ![store.half] = store.value] \in Double
              BY <5>2
            <7>2. \A d \in Double : [x EXCEPT !.data = d] \in
                     [valid : BOOLEAN, tag : {tag(b) : b \in Block}, data : Double]
              OBVIOUS
            <7>3. QED
              BY <7>1, <7>2
          <6>2. \A s \in Set, w \in Way :
                   line[s][w] \in [valid : BOOLEAN, tag : {tag(b) : b \in Block}, data : Double]
            BY <1>3 DEF TypeOK
          <6>3. ASSUME NEW s \in Set, NEW w \in Way
                PROVE  line'[s][w] \in [valid : BOOLEAN, tag : {tag(b) : b \in Block}, data : Double]
            <7>1. PICK x \in [valid : BOOLEAN, tag : {tag(b) : b \in Block}, data : Double] :
                    x = line[s][w]
              BY <6>2
            <7>2. line'[s][w] = IF s = idx(store.block) /\ w = way
                                THEN [x EXCEPT !.data[store.half] = store.value] ELSE x
              BY <5>1, <7>1
            <7>3. QED
              BY <6>1, <7>2
          <6>4. QED
            BY <6>3
        <5>4. \A s \in Set : /\ line'[s] = [w \in Way |-> line'[s][w]]
                              /\ line' = [t \in Set |-> line'[t]]
          BY <1>3, <4>2 DEF TypeOK
        <5>5. QED
          BY <5>3, <5>4, SetsMany
      <4>3. QED
        BY <3>1, <4>1, <4>2 DEF Stored
  <2>2. CASE ~wr_valid_o(rollback) /\ Arrived(memtag) /\ ~rollback
    <3> DEFINE d == IF rd_mem /\ ~wr_mem THEN transaction[memtag].data ELSE Zero
    <3>1. Filled(addr, d)
      BY <1>1, <2>2 DEF Sets
    <3>2. PICK way : line' = [line EXCEPT ![idx(addr)][way] =
                                 [valid |-> TRUE, tag |-> tag(addr), data |-> d]]
      BY <3>1 DEF Filled
    <3>3. d \in Double
      <4>1. CASE rd_mem /\ ~wr_mem
        <5>1. memtag = waiting_memtag /\ memtag \in MemTag
          BY <1>4, <2>2, <4>1, SeenTag DEF Arrived, CacheInv, WaitsForMiss, MemTag
        <5>2. QED
          BY <1>3, <4>1, <5>1 DEF TypeOK
      <4>2. QED
        BY <1>6, <4>1
    <3>4. idx(addr) \in Set /\ tag(addr) \in {tag(b) : b \in Block}
      BY <1>5, BlockType
    <3> HIDE DEF d
    <3>5. QED
      BY <1>3, <3>2, <3>3, <3>4 DEF TypeOK
  <2>3. CASE ~wr_valid_o(rollback) /\ ~(Arrived(memtag) /\ ~rollback)
    BY <1>1, <1>3, <2>3 DEF Sets, TypeOK
  <2>4. QED
    BY <2>1, <2>2, <2>3
<1>9. memory' \in [Block -> Double]
  <2>1. wr_valid_o(rollback) => store \in Stores
    BY <1>3 DEF TypeOK, wr_valid_o, wr_mem
  <2>2. QED
    BY <1>1, <1>3, <2>1 DEF Memory, TypeOK, Stores, Double, Half
<1>10. transaction' \in [MemTag -> [use : {"free", "load", "store", "fetch"}, data : Double]]
  <2>1. Transaction(rollback) \in [use : {"free", "load", "store", "fetch"}, data : Double]
    <3>1. proc2Dmem_command(rollback) \in {"BUS_STORE", "BUS_LOAD", "BUS_NONE"}
      BY DEF proc2Dmem_command
    <3>2. memory[addr] \in Double
      BY <1>3, <1>5 DEF TypeOK
    <3>3. QED
      BY <1>6, <3>1, <3>2 DEF Transaction
  <2>2. Free \in [use : {"free", "load", "store", "fetch"}, data : Double]
    BY <1>6 DEF Free
  <2>3. QED
    BY <1>1, <1>3, <2>1, <2>2 DEF Memory, TypeOK
<1>11. load' \in Loads \cup {None} /\ store' \in Stores \cup {None}
  BY <1>1, <1>3 DEF Buffers, TypeOK
<1>12. QED
  BY <1>7, <1>8, <1>9, <1>10, <1>11 DEF TypeOK, AgesInv

(* What is a hit, in lines that are of the right type. *)
LEMMA Hits ==
  ASSUME NEW b \in Block
  PROVE  /\ \A w : w \in read_hit_entry(b) <=>
                     w \in Way /\ line[idx(b)][w].valid /\ line[idx(b)][w].tag = tag(b)
         /\ \A w : w \in read_hit_entry(b)' <=>
                     w \in Way /\ line'[idx(b)][w].valid /\ line'[idx(b)][w].tag = tag(b)
  BY DEF read_hit_entry

(* A store goes to memory and to the line of its double word, if there is one. *)
LEMMA StoreCycle ==
  ASSUME CacheInv, TypeOK', NoDefect, NEW rollback \in BOOLEAN, NEW fetch \in BOOLEAN,
         NEW ended \in {0} \cup InUse, Cycle(rollback, fetch, ended), wr_valid_o(rollback)
  PROVE  CacheInv'
<1>1. state = "DIDLE" /\ wr_mem /\ ~rollback /\ free_tags # {} /\ store \in Stores
  BY DEF wr_valid_o, NoDefect, StoreLost, CacheInv, LinesExact, TypeOK, wr_mem
<1>2. state' = "DIDLE"
  BY <1>1 DEF Cycle, Controller, next_state, Miss, rd_en
<1> DEFINE b == store.block
           h == store.half
           x == store.value
<1>3. b \in Block /\ h \in Half /\ x \in Value
  BY <1>1 DEF Stores
<1>4. memory' = [memory EXCEPT ![b][h] = x]
  <2> DEFINE Dcache == proc2Dmem_command(rollback) # "BUS_NONE"
  <2>1. Dcache = TRUE
    BY DEF proc2Dmem_command
  <2>2. (Dcache \/ fetch) \in BOOLEAN /\ (Dcache \/ fetch)
    BY <2>1
  <2> HIDE DEF Dcache
  <2>3. accepted(Dcache \/ fetch) # 0
    BY <1>1, <2>2, Responses
  <2>4. QED
    BY <2>3 DEF Dcache, Cycle, Memory
<1>5. Stored(b, h, x)
  BY DEF Cycle, Sets
<1> HIDE DEF b, h, x
<1>6. ASSUME NEW c \in Block PROVE memory'[c] = IF c = b THEN [memory[b] EXCEPT ![h] = x] ELSE memory[c]
  BY <1>3, <1>4 DEF CacheInv, LinesExact, TypeOK
<1>7. ASSUME NEW c \in Block, NEW w \in read_hit_entry(c)'
      PROVE  line'[idx(c)][w].data = memory'[c] /\ read_hit_entry(c)' = {w}
  <2>1. CASE read_hit_entry(b) = {}
    <3>1. line' = line
      BY <1>5, <2>1 DEF Stored, write_hit_entry
    <3>2. read_hit_entry(c)' = read_hit_entry(c)
      BY <3>1 DEF read_hit_entry
    <3>3. c # b
      BY <1>7, <2>1, <3>2
    <3>4. QED
      BY <1>6, <1>7, <3>1, <3>2, <3>3 DEF CacheInv, LinesExact
  <2>2. ASSUME NEW v \in read_hit_entry(b)
        PROVE  line'[idx(c)][w].data = memory'[c] /\ read_hit_entry(c)' = {w}
    <3>1. read_hit_entry(b) = {v} /\ line[idx(b)][v].data = memory[b]
      BY <1>3, <2>2 DEF CacheInv, LinesExact
    <3>2. v \in Way /\ v \in Int
      BY <2>2, DCacheAssumption DEF read_hit_entry, Way
    <3>3. Highest(write_hit_entry(b)) = v
      BY <3>1, <3>2 DEF Highest, write_hit_entry
    <3>4. line' = [line EXCEPT ![idx(b)][v].data[h] = x]
      BY <1>5, <3>1, <3>3 DEF Stored, write_hit_entry
    <3>5. \A u \in Way : line'[idx(c)][u] = IF idx(c) = idx(b) /\ u = v
                                            THEN [line[idx(c)][u] EXCEPT !.data[h] = x]
                                            ELSE line[idx(c)][u]
      BY <3>4, BlockType DEF CacheInv, LinesExact, TypeOK
    <3>6. \A u \in Way : /\ line[idx(c)][u] \in [valid : BOOLEAN, tag : {tag(e) : e \in Block}, data : Double]
      BY BlockType DEF CacheInv, LinesExact, TypeOK
    <3>7. \A u \in Way : /\ line'[idx(c)][u].valid = line[idx(c)][u].valid
                         /\ line'[idx(c)][u].tag = line[idx(c)][u].tag
                         /\ line'[idx(c)][u].data = IF idx(c) = idx(b) /\ u = v
                                                    THEN [line[idx(c)][u].data EXCEPT ![h] = x]
                                                    ELSE line[idx(c)][u].data
      BY <3>5, <3>6
    <3>8. read_hit_entry(c)' = read_hit_entry(c)
      BY <3>7 DEF read_hit_entry
    <3>9. read_hit_entry(c) = {w} /\ line[idx(c)][w].data = memory[c] /\ w \in Way
      BY <1>7, <3>8 DEF CacheInv, LinesExact, read_hit_entry
    <3>10. CASE c = b
      BY <1>6, <3>1, <3>7, <3>8, <3>9, <3>10
    <3>11. CASE c # b
      <4>1. ~(idx(c) = idx(b) /\ w = v)
        <5>1. idx(c) = idx(b) /\ w = v => tag(c) = tag(b)
          BY <3>1, <3>9, Hits, <1>3
        <5>2. QED
          BY <1>3, <3>11, <5>1, OwnBlock
      <4>2. QED
        BY <1>6, <3>7, <3>8, <3>9, <3>11, <4>1
    <3>12. QED
      BY <3>10, <3>11
  <2>3. QED
    BY <2>1, <2>2
<1>8. QED
  BY <1>2, <1>7 DEF CacheInv, LinesExact, WorksForMiss, WaitsForMiss

(* The double word that was waited for goes into the place of another, or of none. *)
LEMMA FillCycle ==
  ASSUME CacheInv, TypeOK', NoDefect, NEW rollback \in BOOLEAN, NEW fetch \in BOOLEAN,
         NEW ended \in {0} \cup InUse, Cycle(rollback, fetch, ended), ~rollback,
         Arrived(mem2proc_tag(ended))
  PROVE  CacheInv'
<1> DEFINE memtag == mem2proc_tag(ended)
<1>1. /\ state = "DWAIT" /\ rd_mem /\ ~wr_mem /\ ~wr_valid_o(rollback)
      /\ read_hit_entry(load.block) = {} /\ load.block \in Block
  BY DEF Arrived, NoDefect, StoreBetween, CacheInv, WorksForMiss, wr_valid_o, LinesExact, TypeOK,
         rd_mem, Loads
<1>2. state' = "DIDLE" /\ memory' = memory
  BY <1>1 DEF Cycle, Controller, next_state, Memory
<1>3. memtag = waiting_memtag
  <2>1. memtag \in 0 .. NUM_MEM_TAGS
    BY DCacheAssumption DEF mem2proc_tag, InUse, MemTag
  <2>2. waiting_memtag \in MemTag
    BY <1>1 DEF CacheInv, WaitsForMiss
  <2> HIDE DEF memtag
  <2>3. Seen(memtag) = waiting_memtag
    BY DEF Arrived, memtag
  <2>4. QED
    BY <2>1, <2>2, <2>3, SeenTag, DCacheAssumption DEF MemTag
<1>4. transaction[memtag].data = memory[load.block] /\ addr = load.block
  BY <1>1, <1>3 DEF CacheInv, WaitsForMiss, addr
<1> DEFINE b == load.block
<1>5. PICK way : line' = [line EXCEPT ![idx(b)][way] =
                            [valid |-> TRUE, tag |-> tag(b), data |-> memory[b]]]
  BY <1>1, <1>4 DEF Cycle, Sets, Filled
<1>6. b \in Block /\ read_hit_entry(b) = {}
  BY <1>1
<1> HIDE DEF b
<1>7. ASSUME NEW c \in Block, NEW w \in read_hit_entry(c)'
      PROVE  line'[idx(c)][w].data = memory[c] /\ read_hit_entry(c)' = {w}
  <2>1. \A u \in Way : line'[idx(c)][u] = IF idx(c) = idx(b) /\ u = way
                                          THEN [valid |-> TRUE, tag |-> tag(b), data |-> memory[b]]
                                          ELSE line[idx(c)][u]
    BY <1>5, BlockType DEF CacheInv, LinesExact, TypeOK
  <2>2. w \in Way /\ line'[idx(c)][w].valid /\ line'[idx(c)][w].tag = tag(c)
    BY <1>7, Hits
  <2>3. CASE c = b
    <3>1. ASSUME NEW u \in read_hit_entry(c)' PROVE u = way
      <4>1. u \in Way /\ line'[idx(c)][u].valid /\ line'[idx(c)][u].tag = tag(c)
        BY <3>1, Hits
      <4>2. CASE u # way
        <5>1. line[idx(b)][u].valid /\ line[idx(b)][u].tag = tag(b)
          BY <2>1, <2>3, <4>1, <4>2
        <5>2. QED
          BY <1>6, <4>1, <5>1, Hits
      <4>3. QED
        BY <4>2
    <3>2. w = way /\ read_hit_entry(c)' = {w}
      BY <1>7, <3>1
    <3>3. QED
      BY <2>1, <2>2, <2>3, <3>2
  <2>4. CASE c # b
    <3>1. ASSUME NEW u \in read_hit_entry(c)'
          PROVE  u \in read_hit_entry(c) /\ line'[idx(c)][u] = line[idx(c)][u]
      <4>1. u \in Way /\ line'[idx(c)][u].valid /\ line'[idx(c)][u].tag = tag(c)
        BY <3>1, Hits
      <4>2. ~(idx(c) = idx(b) /\ u = way)
        <5>1. idx(c) = idx(b) /\ u = way => tag(c) = tag(b)
          BY <2>1, <4>1
        <5>2. QED
          BY <1>6, <2>4, <5>1, OwnBlock
      <4>3. QED
        BY <2>1, <4>1, <4>2, Hits
    <3>2. w \in read_hit_entry(c) /\ line'[idx(c)][w] = line[idx(c)][w]
      BY <1>7, <3>1
    <3>3. line[idx(c)][w].data = memory[c] /\ read_hit_entry(c) = {w}
      BY <3>2 DEF CacheInv, LinesExact
    <3>4. QED
      BY <1>7, <3>1, <3>2, <3>3
  <2>5. QED
    BY <2>3, <2>4
<1>8. QED
  BY <1>2, <1>7 DEF CacheInv, LinesExact, WorksForMiss, WaitsForMiss

(* Nothing is written: the controller goes on, or is reset. *)
LEMMA QuietCycle ==
  ASSUME CacheInv, TypeOK', NoDefect, NEW rollback \in BOOLEAN, NEW fetch \in BOOLEAN,
         NEW ended \in {0} \cup InUse, Cycle(rollback, fetch, ended), ~wr_valid_o(rollback),
         rollback \/ ~Arrived(mem2proc_tag(ended))
  PROVE  CacheInv'
<1> DEFINE memtag == mem2proc_tag(ended)
           Dcache == proc2Dmem_command(rollback) # "BUS_NONE"
           response == accepted(Dcache \/ fetch)
<1>1. line' = line /\ memory' = memory
  BY DEF Cycle, Sets, Memory
<1>2. LinesExact'
  BY <1>1 DEF CacheInv, LinesExact, read_hit_entry
<1>3. /\ response \in 0 .. NUM_MEM_TAGS
      /\ response # 0 => response \in free_tags
  <2>1. (Dcache \/ fetch) \in BOOLEAN
    OBVIOUS
  <2> HIDE DEF Dcache
  <2>2. QED
    BY <2>1, Responses
<1>4. CASE rollback
  <2>1. state' = "DIDLE"
    BY <1>4 DEF Cycle, Controller
  <2>2. QED
    BY <1>2, <2>1 DEF CacheInv, WorksForMiss, WaitsForMiss
<1>5. CASE ~rollback
  <2>1. state' = next_state(IF Dcache THEN response ELSE 0, memtag)
    BY <1>5 DEF Cycle, Controller
  <2>2. state \in {"DIDLE", "DREQUEST", "DWAIT"}
    BY DEF CacheInv, LinesExact, TypeOK
  <2>3. ~Arrived(memtag)
    BY <1>5
  <2>4. ASSUME state' # "DIDLE"
        PROVE  rd_mem /\ ~wr_mem /\ read_hit_entry(load.block) = {} /\ load' = load
    <3>1. rd_mem /\ ~wr_mem /\ read_hit_entry(load.block) = {} /\ ~rd_valid_i
      <4>1. CASE state = "DIDLE"
        <5>1. Miss
          BY <2>1, <2>4, <4>1 DEF next_state
        <5>2. QED
          BY <5>1 DEF Miss, rd_en, rd_valid_i, addr
      <4>2. CASE state # "DIDLE"
        BY <4>2 DEF CacheInv, WorksForMiss, NoDefect, StoreBetween, rd_valid_i, rd_en
      <4>3. QED
        BY <4>1, <4>2
    <3>2. ~rd_valid_o(memtag)
      BY <2>3, <3>1 DEF rd_valid_o
    <3>3. QED
      BY <1>5, <3>1, <3>2 DEF Cycle, Buffers
  <2>5. WorksForMiss'
    BY <1>1, <2>4 DEF WorksForMiss, rd_mem, read_hit_entry
  <2>6. ASSUME state' = "DWAIT"
        PROVE  /\ waiting_memtag' \in MemTag /\ load.half = 0
               /\ transaction'[waiting_memtag'].use = "load"
               /\ transaction'[waiting_memtag'].data = memory[load.block]
    <3>1. CASE state = "DREQUEST"
      <4>1. Dcache /\ proc2Dmem_command(rollback) = "BUS_LOAD"
        BY <3>1 DEF proc2Dmem_command
      <4>2. Seen(response) # 0 /\ waiting_memtag' = Seen(response)
        <5>1. waiting_memtag' = Seen(IF Dcache THEN response ELSE 0)
          BY <1>5, <3>1 DEF Cycle, Controller
        <5>2. next_state(IF Dcache THEN response ELSE 0, memtag) =
                IF Seen(IF Dcache THEN response ELSE 0) # 0 THEN "DWAIT" ELSE "DREQUEST"
          BY <3>1 DEF next_state
        <5> HIDE DEF Dcache, response, memtag
        <5>3. QED
          BY <2>1, <2>6, <4>1, <5>1, <5>2
      <4>3. addr = load.block
        BY <2>4, <2>6 DEF addr
      <4>4. transaction'[response] = [use |-> "load", data |-> memory[load.block]] /\ response \in MemTag
        <5>1. response \in MemTag
          <6> HIDE DEF response
          <6>1. QED
            BY <1>3, <4>2, SeenTag, DCacheAssumption DEF MemTag
        <5>2. Transaction(rollback) = [use |-> "load", data |-> memory[load.block]]
          BY <4>1, <4>3 DEF Transaction
        <5>3. transaction' = [k \in MemTag |-> IF k = response THEN Transaction(rollback)
                                               ELSE IF k = ended THEN Free ELSE transaction[k]]
          BY DEF Cycle, Memory
        <5> HIDE DEF response
        <5>4. QED
          BY <5>1, <5>2, <5>3
      <4>5. waiting_memtag' = response
        <5> HIDE DEF response
        <5>1. QED
          BY <1>3, <4>2, SeenTag
      <4>6. load.half = 0
        BY <2>4, <2>6, <3>1 DEF NoDefect, UpperMissed, rd_mem, CacheInv, LinesExact, TypeOK, Loads, Half
      <4> HIDE DEF response
      <4>7. QED
        BY <4>4, <4>5, <4>6
    <3>2. CASE state = "DWAIT"
      <4>1. waiting_memtag' = waiting_memtag
        BY <1>5, <3>2 DEF Cycle, Controller
      <4>2. PICK k : k = waiting_memtag
        OBVIOUS
      <4>3. /\ k \in MemTag /\ load.half = 0 /\ transaction[k].use = "load"
            /\ transaction[k].data = memory[load.block]
        BY <3>2, <4>2 DEF CacheInv, WaitsForMiss
      <4>4. k # response
        <5>1. k \notin free_tags
          BY <4>3 DEF free_tags, Free
        <5> HIDE DEF response
        <5>2. QED
          BY <1>3, <4>3, <5>1, DCacheAssumption DEF MemTag
      <4>5. k # ended
        <5>1. k # NUM_MEM_TAGS
          BY <4>2, DCacheAssumption DEF CacheInv, LinesExact, TypeOK
        <5>2. Seen(k) = k
          BY <4>3, <5>1, SeenTag, DCacheAssumption DEF MemTag
        <5>3. ended = k => mem2proc_tag(ended) = k
          BY <4>3, DCacheAssumption DEF mem2proc_tag, MemTag
        <5>4. QED
          BY <2>3, <3>2, <4>2, <5>2, <5>3 DEF Arrived
      <4>6. transaction'[k] = transaction[k]
        <5>1. transaction' = [j \in MemTag |-> IF j = response THEN Transaction(rollback)
                                               ELSE IF j = ended THEN Free ELSE transaction[j]]
          BY DEF Cycle, Memory
        <5> HIDE DEF response
        <5>2. QED
          BY <4>3, <4>4, <4>5, <5>1
      <4>7. QED
        BY <4>1, <4>2, <4>3, <4>6
    <3>3. CASE state = "DIDLE"
      BY <2>1, <2>6, <3>3 DEF next_state
    <3>4. QED
      BY <2>2, <3>1, <3>2, <3>3
  <2>7. WaitsForMiss'
    BY <1>1, <2>4, <2>6 DEF WaitsForMiss
  <2>8. QED
    BY <1>2, <2>5, <2>7 DEF CacheInv
<1>6. QED
  BY <1>4, <1>5

LEMMA CacheStep ==
  ASSUME CacheInv, AgesInv', NoDefect, Next
  PROVE  CacheInv'
<1>1. PICK rollback \in BOOLEAN, ended \in {0} \cup InUse :
        \E fetch \in Fetches(rollback) : Cycle(rollback, fetch, ended)
  BY DEF Next
<1>2. PICK fetch \in BOOLEAN : Cycle(rollback, fetch, ended)
  BY <1>1 DEF Fetches
<1>3. TypeOK'
  BY <1>2, CycleType
<1>4. QED
  BY <1>2, <1>3, StoreCycle, FillCycle, QuietCycle DEF wr_valid_o

LEMMA CacheInit == Init => CacheInv
<1> SUFFICES ASSUME Init PROVE CacheInv
  OBVIOUS
<1> USE DCacheAssumption
<1>1. Zero \in Double
  BY DEF Zero, Double
<1>2. 0 \in {tag(b) : b \in Block}
  <2>1. 0 \in Block /\ tag(0) = 0
    BY DEF Block, tag
  <2>2. QED
    BY <2>1
<1>3. TypeOK
  BY <1>1, <1>2 DEF Init, TypeOK, Free
<1>4. \A b \in Block : read_hit_entry(b) = {}
  BY BlockType DEF Init, read_hit_entry
<1>5. QED
  BY <1>3, <1>4 DEF CacheInv, LinesExact, WorksForMiss, WaitsForMiss, Init

LEMMA CacheAlways == Spec /\ [][NoDefect]_vars => []CacheInv
<1>1. CacheInv /\ AgesInv' /\ [NoDefect]_vars /\ [Next]_vars => CacheInv'
  <2>1. CacheInv /\ UNCHANGED vars => CacheInv'
    BY DEF vars, cacheVars, CacheInv, LinesExact, TypeOK, read_hit_entry, WorksForMiss,
           WaitsForMiss, rd_mem
  <2>2. QED
    BY <2>1, CacheStep
<1>2. QED
  BY CacheInit, DCacheAges, <1>1, PTL DEF Spec

(* Stores are written through to a line and to memory alike, and no double word comes into two
   ways of dcache_mem.sv, as long as none of the three defects strikes: for every number of
   ways, sets, double words and memory tags. *)
THEOREM DCacheLinesExact == Spec /\ [][NoDefect]_vars => []LinesExact
<1>1. CacheInv => LinesExact
  BY DEF CacheInv
<1>2. QED
  BY CacheAlways, <1>1, PTL

(* What dcache_controller.sv gives a load is the memory's word, whichever requests rollbacks have
   left behind and whichever tags the memory gives out again, as long as none of the three
   defects strikes. *)
THEOREM DCacheLoadsFresh == Spec /\ [][NoDefect]_vars => []LoadsFresh
<1>1. ASSUME CacheInv, NEW ended \in {0} \cup InUse, rd_valid_o(mem2proc_tag(ended))
      PROVE  data2lsq(mem2proc_tag(ended)) = memory[load.block][load.half]
  <2>1. CASE rd_valid_i
    <3>1. state = "DIDLE" /\ rd_mem /\ addr = load.block /\ read_hit_entry(addr) # {}
      BY <2>1 DEF rd_valid_i, rd_en, addr
    <3>2. load.block \in Block
      BY <1>1, <3>1 DEF CacheInv, LinesExact, TypeOK, rd_mem, Loads
    <3>3. PICK w \in Way : read_hit_entry(addr) = {w} /\ line[idx(addr)][w].data = memory[load.block]
      BY <1>1, <3>1, <3>2 DEF CacheInv, LinesExact, read_hit_entry
    <3>4. Highest({w}) = w
      BY DCacheAssumption DEF Highest, Way
    <3>5. QED
      BY <3>1, <3>3, <3>4 DEF data2lsq
  <2>2. CASE ~rd_valid_i
    <3>1. Arrived(mem2proc_tag(ended)) /\ rd_mem /\ ~wr_mem /\ state = "DWAIT"
      BY <1>1, <2>2 DEF rd_valid_o, Arrived
    <3>2. mem2proc_tag(ended) = waiting_memtag
      <4>1. PICK k : k = mem2proc_tag(ended)
        OBVIOUS
      <4>2. k \in 0 .. NUM_MEM_TAGS
        BY <4>1, DCacheAssumption DEF mem2proc_tag, InUse, MemTag
      <4>3. Seen(k) = waiting_memtag /\ waiting_memtag \in MemTag
        BY <1>1, <3>1, <4>1 DEF Arrived, CacheInv, WaitsForMiss
      <4>4. QED
        BY <4>1, <4>2, <4>3, SeenTag, DCacheAssumption DEF MemTag
    <3>3. QED
      BY <1>1, <3>1, <3>2 DEF data2lsq, CacheInv, WaitsForMiss
  <2>3. QED
    BY <2>1, <2>2
<1>2. CacheInv => LoadsFresh
  BY <1>1 DEF LoadsFresh
<1>3. QED
  BY CacheAlways, <1>2, PTL
=============================================================================
