---------------------------- MODULE FetchProofs ----------------------------
(***************************************************************************)
(* What the instruction cache holds and waits for, for every size of the   *)
(* cache and of the memory, whatever flushes, stalls and loads do.         *)
(*                                                                         *)
(* The cache looks at an address up to Short: two double words LINES *     *)
(* TAGS apart are one to it.  FetchInv says what holds up to Short, and is *)
(* inductive for any memory; the invariants of Fetch follow where no two   *)
(* double words are one to the cache (NoAlias).                            *)
(***************************************************************************)
EXTENDS Fetch, TLAPS

(* The double words that are fetched from differ for the cache. *)
NoAlias == BLOCKS <= LINES * TAGS

(* The tag that is waited for is one the memory holds for the address of the cycle before. *)
WaitsForLast ==
  current_mem_tag # 0 =>
    waiting[current_mem_tag] \in Block /\ IC!Short(waiting[current_mem_tag]) = last

(* A request is made or waited for, not both. *)
OneRequest == miss_outstanding => current_mem_tag = 0

(* A line that is valid holds a double word of its index and tag. *)
LinesOwn ==
  \A i \in 0 .. LINES - 1 : line[i].valid =>
    /\ line[i].data \in Block
    /\ IC!index(line[i].data) = i /\ IC!tag(line[i].data) = line[i].tag

(* What is asked for or waited for is not in the cache. *)
MissIsMissing == miss_outstanding \/ current_mem_tag # 0 => ~IC!Icache_valid_out(last)

(* After a fetch nothing is under way that could replace a line. *)
QuietAfterFetch == ~empty /\ IC!changed_addr(PC) => current_mem_tag = 0

FetchInv ==
  /\ TypeOK
  /\ WaitsForLast /\ OneRequest /\ LinesOwn /\ MissIsMissing /\ QuietAfterFetch

(* Icache_valid_out, of lines before and after a cycle. *)
Holds(lines, b) == lines[IC!index(b)].valid /\ lines[IC!index(b)].tag = IC!tag(b)

-----------------------------------------------------------------------------
(* Division with a remainder, and that it is unique. *)
LEMMA DivMod ==
  ASSUME NEW n \in Nat \ {0}, NEW x \in Nat
  PROVE  /\ x % n \in 0 .. n - 1
         /\ x \div n \in Nat
         /\ x = n * (x \div n) + (x % n)
  OBVIOUS

LEMMA DivModUnique ==
  ASSUME NEW n \in Nat \ {0}, NEW q \in Nat, NEW r \in 0 .. n - 1
  PROVE  (n * q + r) % n = r /\ (n * q + r) \div n = q
  OBVIOUS

(* The lowest bits of the lowest bits of an address. *)
LEMMA LowBits ==
  ASSUME NEW l \in Nat \ {0}, NEW t \in Nat \ {0}, NEW x \in Nat
  PROVE  /\ (x % (l * t)) % l = x % l
         /\ (x % (l * t)) \div l \in 0 .. t - 1
<1> DEFINE n == l * t
           y == x % n
           q == x \div n
<1> HIDE DEF y, q
<1>1. n \in Nat \ {0}
  OBVIOUS
<1> HIDE DEF n
<1>2. y \in Nat /\ y < n /\ q \in Nat /\ x = n * q + y
  BY <1>1, DivMod DEF y, q
<1> DEFINE a == y \div l
           r == y % l
<1> HIDE DEF a, r
<1>3. r \in 0 .. l - 1 /\ a \in Nat /\ y = l * a + r
  BY <1>2, DivMod DEF a, r
<1>4. x = l * (t * q + a) + r
  BY <1>2, <1>3 DEF n
<1>5. t * q + a \in Nat
  BY <1>2, <1>3
<1>6. x % l = r
  BY <1>3, <1>4, <1>5, DivModUnique
<1>7. a < t
  <2>1. SUFFICES ASSUME a >= t PROVE FALSE
    BY <1>3
  <2>2. l * a >= l * t
    BY <1>3, <2>1
  <2>3. QED
    BY <2>2, <1>2, <1>3 DEF n
<1>8. QED
  BY <1>6, <1>7, <1>3 DEF n, y, a, r

(* An address that Short maps to itself, as last is. *)
LEMMA ShortType ==
  ASSUME NEW a \in Nat
  PROVE  /\ IC!Short(a) \in 0 .. LINES * TAGS - 1
         /\ IC!Short(IC!Short(a)) = IC!Short(a)
         /\ IC!index(a) \in 0 .. LINES - 1 /\ IC!tag(a) \in 0 .. TAGS - 1
         /\ IC!index(IC!Short(a)) = IC!index(a)
         /\ IC!tag(IC!Short(a)) = IC!tag(a)
<1> USE FetchAssumption
<1> DEFINE n == LINES * TAGS
<1>1. n \in Nat \ {0}
  OBVIOUS
<1> HIDE DEF n
<1>2. a % n \in 0 .. n - 1 /\ (a % n) % n = a % n
  BY <1>1
<1>3. a % LINES \in 0 .. LINES - 1
  OBVIOUS
<1>4. (a % n) % LINES = a % LINES /\ (a % n) \div LINES \in 0 .. TAGS - 1
  BY LowBits DEF n
<1>5. QED
  BY <1>2, <1>3, <1>4 DEF n, IC!Short, IC!index, IC!tag

(* Index and tag together are the address up to Short. *)
LEMMA IndexAndTag ==
  ASSUME NEW a \in Nat, NEW b \in Nat, IC!index(a) = IC!index(b), IC!tag(a) = IC!tag(b)
  PROVE  IC!Short(a) = IC!Short(b)
<1> USE FetchAssumption
<1> DEFINE s == IC!Short(a)
           t == IC!Short(b)
<1> HIDE DEF s, t
<1>1. LINES * TAGS \in Nat
  OBVIOUS
<1>2. s \in Nat /\ t \in Nat
  BY <1>1, ShortType DEF s, t
<1>3. s % LINES = t % LINES /\ s \div LINES = t \div LINES
  BY ShortType DEF s, t, IC!index, IC!tag
<1>4. s = LINES * (s \div LINES) + (s % LINES) /\ t = LINES * (t \div LINES) + (t % LINES)
  BY <1>2, DivMod
<1>5. QED
  BY <1>3, <1>4 DEF s, t

(* So a double word is as valid as any other that is one to the cache. *)
LEMMA ValidUpToShort ==
  ASSUME NEW a \in Nat, NEW b \in Nat, IC!Short(a) = IC!Short(b), NEW lines
  PROVE  Holds(lines, a) <=> Holds(lines, b)
<1>1. IC!index(a) = IC!index(b) /\ IC!tag(a) = IC!tag(b)
  BY ShortType
<1>2. QED
  BY <1>1 DEF Holds

-----------------------------------------------------------------------------
LEMMA FetchInit == Init => FetchInv
<1> USE FetchAssumption
<1> SUFFICES ASSUME Init PROVE FetchInv
  OBVIOUS
<1>0. /\ PC = 0 /\ empty = TRUE /\ current_mem_tag = 0 /\ miss_outstanding = FALSE
      /\ waiting = [k \in MemTag |-> Nothing]
      /\ line = [i \in 0 .. LINES - 1 |-> [valid |-> FALSE, tag |-> 0, data |-> NoData]]
  BY DEF Init, IC!Init
<1>1. TypeOK
  <2>1. LINES * TAGS \in Nat \ {0}
    OBVIOUS
  <2>2. last \in 0 .. LINES * TAGS - 1
    BY <2>1 DEF Init, IC!Init
  <2>3. line \in [0 .. LINES - 1 ->
                    [valid : BOOLEAN, tag : 0 .. TAGS - 1, data : Block \union {NoData, Load}]]
    BY <1>0
  <2>4. waiting \in [MemTag -> Block \union {Nothing, Load}]
    BY <1>0
  <2>5. PC \in Block /\ current_mem_tag \in 0 .. NUM_MEM_TAGS
    BY <1>0 DEF Block
  <2>6. empty \in BOOLEAN /\ miss_outstanding \in BOOLEAN
    BY <1>0, Zenon
  <2>7. QED
    BY <2>2, <2>3, <2>4, <2>5, <2>6, Zenon DEF TypeOK
<1>2. LinesOwn /\ WaitsForLast /\ OneRequest /\ MissIsMissing /\ QuietAfterFetch
  BY <1>0 DEF LinesOwn, WaitsForLast, OneRequest, MissIsMissing, QuietAfterFetch
<1>3. QED
  BY <1>1, <1>2 DEF FetchInv

(* What the registers are after a cycle; a request that was taken is for PC. *)
LEMMA CycleFacts ==
  ASSUME FetchInv,
         NEW flush \in BOOLEAN, NEW stall \in BOOLEAN, NEW next \in Block,
         NEW load \in BOOLEAN, NEW memtag \in Returns, NEW response \in Responses(load),
         Cycle(flush, stall, next, load, response, memtag)
  PROVE  LET got  == Imem2proc_response(load, response)
             came == current_mem_tag = memtag /\ current_mem_tag # 0
         IN  /\ PC \in Nat /\ PC' \in Block
             /\ last' = IC!Short(PC)
             /\ got \in 0 .. NUM_MEM_TAGS
             /\ got # 0 => /\ miss_outstanding /\ last = IC!Short(PC)
                           /\ waiting'[got] = PC /\ got = response
             /\ current_mem_tag' = IF last # IC!Short(PC) \/ miss_outstanding \/ came
                                   THEN got ELSE current_mem_tag
             /\ miss_outstanding' = IF last # IC!Short(PC) THEN ~Holds(line, PC)
                                    ELSE miss_outstanding /\ got = 0
             /\ came => /\ waiting[memtag] \in Block /\ IC!Short(waiting[memtag]) = last
                        /\ line' = [line EXCEPT ![IC!index(last)] =
                             [valid |-> TRUE, tag |-> IC!tag(last), data |-> waiting[memtag]]]
             /\ ~came => line' = line
             /\ current_mem_tag # 0 /\ ~came =>
                  waiting'[current_mem_tag] = waiting[current_mem_tag]
<1> USE FetchAssumption
<1> DEFINE got  == Imem2proc_response(load, response)
           came == current_mem_tag = memtag /\ current_mem_tag # 0
<1>1. /\ PC \in Block /\ PC \in Nat /\ PC' \in Block
      /\ memtag \in 0 .. NUM_MEM_TAGS /\ response \in 0 .. NUM_MEM_TAGS
      /\ current_mem_tag \in 0 .. NUM_MEM_TAGS
  BY DEF FetchInv, TypeOK, Block, Cycle, NextPC, Returns, Responses, MemTag
<1>2. /\ last' = IC!Short(PC) /\ IC!Clock(PC, got, memtag, IF memtag = 0 THEN NoData ELSE waiting[memtag])
      /\ Memory(load, response, memtag)
  BY DEF Cycle, IC!Clock
<1>3. ASSUME got # 0
      PROVE  miss_outstanding /\ last = IC!Short(PC) /\ waiting'[got] = PC /\ got = response
  <2>1. ~load /\ got = response /\ response \in MemTag
    BY <1>3 DEF Imem2proc_response, Responses
  <2>2. asked(load) # Nothing
    BY <1>3, <2>1 DEF Responses
  <2>3. asked(load) = PC /\ miss_outstanding /\ last = IC!Short(PC)
    BY <2>1, <2>2 DEF asked, IC!proc2Imem_command, IC!changed_addr
  <2>4. QED
    BY <1>2, <2>1, <2>3 DEF Memory
<1>4. ASSUME came
      PROVE  /\ waiting[memtag] \in Block /\ IC!Short(waiting[memtag]) = last
             /\ line' = [line EXCEPT ![IC!index(last)] =
                  [valid |-> TRUE, tag |-> IC!tag(last), data |-> waiting[memtag]]]
  BY <1>2, <1>4 DEF FetchInv, WaitsForLast, IC!Clock, IC!data_write_enable, IC!wr_idx
<1>5. ~came => line' = line
  BY <1>2 DEF IC!Clock, IC!data_write_enable
<1>6. ASSUME current_mem_tag # 0, ~came
      PROVE  waiting'[current_mem_tag] = waiting[current_mem_tag]
  <2>1. waiting[current_mem_tag] # Nothing /\ current_mem_tag \in MemTag
    BY <1>1, <1>6 DEF FetchInv, WaitsForLast, Block, Nothing, MemTag
  <2>2. response # current_mem_tag
    BY <1>6, <2>1 DEF Responses
  <2>3. QED
    BY <1>2, <1>6, <2>1, <2>2 DEF Memory
<1>7. current_mem_tag' = IF last # IC!Short(PC) \/ miss_outstanding \/ came
                         THEN got ELSE current_mem_tag
  BY <1>2 DEF IC!Clock, IC!update_mem_tag, IC!changed_addr, IC!data_write_enable
<1>8. miss_outstanding' = IF last # IC!Short(PC) THEN ~Holds(line, PC)
                          ELSE miss_outstanding /\ got = 0
  BY <1>2 DEF IC!Clock, IC!unanswered_miss, IC!changed_addr, IC!Icache_valid_out, Holds
<1>9. got \in 0 .. NUM_MEM_TAGS
  BY <1>1 DEF Imem2proc_response
<1>10. QED
  BY <1>1, <1>2, <1>3, <1>4, <1>5, <1>6, <1>7, <1>8, <1>9

(* The cache after a cycle: it has what it had, or the double word that came. *)
LEMMA LinesAfter ==
  ASSUME FetchInv,
         NEW flush \in BOOLEAN, NEW stall \in BOOLEAN, NEW next \in Block,
         NEW load \in BOOLEAN, NEW memtag \in Returns, NEW response \in Responses(load),
         Cycle(flush, stall, next, load, response, memtag)
  PROVE  /\ line' \in [0 .. LINES - 1 ->
                 [valid : BOOLEAN, tag : 0 .. TAGS - 1, data : Block \union {NoData, Load}]]
         /\ LinesOwn'
         /\ current_mem_tag = 0 => line' = line
         /\ \A b \in Nat : ~Holds(line, b) /\ Holds(line', b)
                             => current_mem_tag = memtag /\ IC!Short(b) = last
         /\ current_mem_tag = memtag /\ current_mem_tag # 0 =>
              \A b \in Nat : IC!Short(b) = last => Holds(line', b)
<1> USE FetchAssumption
<1> DEFINE came == current_mem_tag = memtag /\ current_mem_tag # 0
           w == waiting[memtag]
<1>1. CASE ~came
  <2>1. line' = line
    BY <1>1, CycleFacts
  <2>2. QED
    BY <1>1, <2>1 DEF FetchInv, TypeOK, LinesOwn
<1>2. CASE came
  <2> HIDE DEF w
  <2>1. /\ w \in Block /\ w \in Nat /\ IC!Short(w) = last
        /\ line' = [line EXCEPT ![IC!index(last)] =
                      [valid |-> TRUE, tag |-> IC!tag(last), data |-> w]]
    BY <1>2, CycleFacts DEF w, Block
  <2>2. /\ IC!index(last) = IC!index(w) /\ IC!tag(last) = IC!tag(w)
        /\ IC!index(w) \in 0 .. LINES - 1 /\ IC!tag(w) \in 0 .. TAGS - 1
    BY <2>1, ShortType
  <2>3. line \in [0 .. LINES - 1 ->
                 [valid : BOOLEAN, tag : 0 .. TAGS - 1, data : Block \union {NoData, Load}]]
    BY DEF FetchInv, TypeOK
  <2>4. line' = [line EXCEPT ![IC!index(w)] = [valid |-> TRUE, tag |-> IC!tag(w), data |-> w]]
    BY <2>1, <2>2
  <2>5. line' \in [0 .. LINES - 1 ->
                 [valid : BOOLEAN, tag : 0 .. TAGS - 1, data : Block \union {NoData, Load}]]
    BY <2>1, <2>2, <2>3, <2>4
  <2>6. LinesOwn'
    BY <2>1, <2>2, <2>3, <2>4 DEF FetchInv, LinesOwn, IC!index, IC!tag, IC!Short
  <2>7. ASSUME NEW b \in Nat, IC!Short(b) = last
        PROVE  Holds(line', b)
    <3>1. IC!index(b) = IC!index(w) /\ IC!tag(b) = IC!tag(w)
      BY <2>1, <2>2, <2>7, ShortType
    <3>2. line'[IC!index(b)] = [valid |-> TRUE, tag |-> IC!tag(b), data |-> w]
      BY <2>2, <2>3, <2>4, <3>1
    <3>3. QED
      BY <3>2 DEF Holds
  <2>8. ASSUME NEW b \in Nat, ~Holds(line, b), Holds(line', b)
        PROVE  IC!Short(b) = last
    <3>1. IC!index(b) \in 0 .. LINES - 1
      BY ShortType
    <3>2. line'[IC!index(b)].valid /\ line'[IC!index(b)].tag = IC!tag(b)
      BY <2>8 DEF Holds
    <3>3. line'[IC!index(b)] # line[IC!index(b)]
      BY <2>8, <3>2 DEF Holds
    <3>4. IC!index(b) = IC!index(w)
      BY <2>3, <2>4, <3>1, <3>3
    <3>5. IC!tag(b) = IC!tag(w)
      BY <2>2, <2>3, <2>4, <3>2, <3>4
    <3>6. QED
      BY <2>1, <3>4, <3>5, IndexAndTag
  <2>9. QED
    BY <1>2, <2>5, <2>6, <2>7, <2>8
<1>3. QED
  BY <1>1, <1>2

LEMMA CycleKeeps ==
  ASSUME FetchInv,
         NEW flush \in BOOLEAN, NEW stall \in BOOLEAN, NEW next \in Block,
         NEW load \in BOOLEAN, NEW memtag \in Returns, NEW response \in Responses(load),
         Cycle(flush, stall, next, load, response, memtag)
  PROVE  FetchInv'
<1> USE FetchAssumption
<1> DEFINE got  == Imem2proc_response(load, response)
           came == current_mem_tag = memtag /\ current_mem_tag # 0
<1> HIDE DEF got
<1>1. /\ PC \in Nat /\ PC' \in Block
      /\ last' = IC!Short(PC)
      /\ got \in 0 .. NUM_MEM_TAGS
      /\ got # 0 => /\ miss_outstanding /\ last = IC!Short(PC)
                    /\ waiting'[got] = PC
      /\ current_mem_tag' = IF last # IC!Short(PC) \/ miss_outstanding \/ came
                            THEN got ELSE current_mem_tag
      /\ miss_outstanding' = IF last # IC!Short(PC) THEN ~Holds(line, PC)
                             ELSE miss_outstanding /\ got = 0
      /\ current_mem_tag # 0 /\ ~came =>
           waiting'[current_mem_tag] = waiting[current_mem_tag]
  BY CycleFacts DEF got
<1>2. /\ PC \in Block /\ last' \in 0 .. LINES * TAGS - 1 /\ IC!Short(last') = last'
      /\ last \in Nat /\ last' \in Nat
      /\ last = IC!Short(PC) => IC!Short(last) = IC!Short(PC)
  <2>1. PC \in Block /\ last \in 0 .. LINES * TAGS - 1 /\ LINES * TAGS \in Nat
    BY DEF FetchInv, TypeOK
  <2>2. QED
    BY <1>1, <2>1, ShortType
<1>3. TypeOK'
  <2>1. miss_outstanding' \in BOOLEAN
    BY <1>1 DEF FetchInv, TypeOK, Holds
  <2>2. current_mem_tag' \in 0 .. NUM_MEM_TAGS
    BY <1>1 DEF FetchInv, TypeOK
  <2>3. empty' \in BOOLEAN
    BY DEF Cycle
  <2>4. waiting' \in [MemTag -> Block \union {Nothing, Load}]
    <3>1. Memory(load, response, memtag) /\ asked(load) \in Block \union {Nothing, Load}
      BY <1>2 DEF Cycle, asked
    <3>2. QED
      BY <3>1 DEF Memory, FetchInv, TypeOK
  <2>5. line' \in [0 .. LINES - 1 ->
                 [valid : BOOLEAN, tag : 0 .. TAGS - 1, data : Block \union {NoData, Load}]]
    BY LinesAfter
  <2>6. QED
    BY <1>1, <1>2, <2>1, <2>2, <2>3, <2>4, <2>5, Zenon DEF TypeOK
<1>4. WaitsForLast'
  <2>1. CASE current_mem_tag' = got
    BY <1>1, <1>2, <2>1 DEF WaitsForLast, Block, IC!Short
  <2>2. CASE current_mem_tag' = current_mem_tag /\ last = IC!Short(PC) /\ ~came
    BY <1>1, <2>2 DEF FetchInv, WaitsForLast, Block, IC!Short
  <2>3. QED
    BY <1>1, <2>1, <2>2
<1>5. OneRequest'
  BY <1>1 DEF FetchInv, OneRequest
<1>6. LinesOwn'
  BY LinesAfter
<1>7. MissIsMissing'
  <2>1. SUFFICES ASSUME miss_outstanding' \/ current_mem_tag' # 0, Holds(line', PC)
                 PROVE  FALSE
    BY <1>1, <1>2, ValidUpToShort DEF MissIsMissing, IC!Icache_valid_out, Holds, IC!index, IC!tag, IC!Short
  <2>2. ~Holds(line, PC)
    <3>1. CASE last = IC!Short(PC)
      <4>1. miss_outstanding \/ current_mem_tag # 0
        BY <1>1, <2>1, <3>1
      <4>2. ~Holds(line, last)
        BY <4>1 DEF FetchInv, MissIsMissing, IC!Icache_valid_out, Holds
      <4>3. QED
        BY <1>1, <1>2, <3>1, <4>2, ValidUpToShort
    <3>2. CASE last # IC!Short(PC)
      BY <1>1, <2>1, <3>2
    <3>3. QED
      BY <3>1, <3>2
  <2>3. current_mem_tag = memtag /\ current_mem_tag # 0 /\ last = IC!Short(PC)
    BY <1>1, <2>1, <2>2, LinesAfter
  <2>4. QED
    BY <1>1, <2>1, <2>3 DEF FetchInv, OneRequest
<1>8. QuietAfterFetch'
  <2>1. SUFFICES ASSUME ~empty', PC' # PC
                 PROVE  current_mem_tag' = 0
    BY <1>1 DEF QuietAfterFetch, IC!changed_addr, IC!Short
  <2>2. Fetches(flush, stall) /\ Holds(line, PC)
    BY <2>1 DEF Cycle, NextPC, Fetches, Icache_valid, IC!Icache_valid_out, Holds
  <2>3. last = IC!Short(PC) => ~miss_outstanding /\ current_mem_tag = 0
    BY <1>1, <1>2, <2>2, ValidUpToShort DEF FetchInv, MissIsMissing, IC!Icache_valid_out, Holds
  <2>4. QED
    BY <1>1, <2>3
<1>9. QED
  BY <1>3, <1>4, <1>5, <1>6, <1>7, <1>8 DEF FetchInv

-----------------------------------------------------------------------------
(* The cache and the memory it waits for, for all addresses up to Short. *)
THEOREM FetchAlways == Spec => []FetchInv
<1>1. ASSUME FetchInv, [Next]_vars
      PROVE  FetchInv'
  <2>1. CASE Next
    BY <1>1, <2>1, CycleKeeps DEF Next, Step
  <2>2. CASE UNCHANGED vars
    BY <1>1, <2>2
    DEF vars, cacheVars, FetchInv, TypeOK, WaitsForLast, OneRequest, LinesOwn, MissIsMissing,
        QuietAfterFetch, IC!Icache_valid_out, IC!index, IC!tag, IC!Short, IC!changed_addr
  <2>3. QED
    BY <1>1, <2>1, <2>2
<1>2. QED
  BY FetchInit, <1>1, PTL DEF Spec

(* Double words that differ differ for the cache, when there are no more of them than it
   can tell apart. *)
LEMMA ShortIsIdentity ==
  ASSUME NoAlias, NEW b \in Block
  PROVE  b \in Nat /\ IC!Short(b) = b
<1> DEFINE n == LINES * TAGS
<1>1. n \in Nat \ {0}
  BY FetchAssumption
<1>2. b \in Nat /\ b < n
  BY <1>1, FetchAssumption DEF NoAlias, Block
<1> HIDE DEF n
<1>3. b % n = b
  BY <1>1, <1>2
<1>4. QED
  BY <1>2, <1>3 DEF n, IC!Short

(* icache_controller.sv: the tag the cache waits for is never one of a load or of an
   address that was left. *)
THEOREM FetchTagIsOwn ==
  ASSUME NoAlias
  PROVE  Spec => []TagIsOwn
<1>1. NoAlias /\ FetchInv => TagIsOwn
  BY ShortIsIdentity DEF FetchInv, WaitsForLast, TagIsOwn
<1>2. QED
  BY FetchAlways, <1>1, PTL

(* icache.sv: what it gives out as valid is the memory's double word at the address. *)
THEOREM FetchValueIsMemory ==
  ASSUME NoAlias
  PROVE  Spec => []ValueIsMemory
<1>1. ASSUME NoAlias, FetchInv
      PROVE  ValueIsMemory
  <2>1. SUFFICES ASSUME NEW b \in Block, IC!Icache_valid_out(b)
                 PROVE  IC!Icache_data_out(b) = b
    BY DEF ValueIsMemory
  <2> DEFINE d == line[IC!index(b)].data
  <2>2. b \in Nat /\ IC!index(b) \in 0 .. LINES - 1
    BY <1>1, ShortIsIdentity, ShortType
  <2>3. d \in Block /\ IC!index(d) = IC!index(b) /\ IC!tag(d) = IC!tag(b)
    BY <1>1, <2>1, <2>2 DEF FetchInv, LinesOwn, IC!Icache_valid_out
  <2> HIDE DEF d
  <2>4. IC!Short(d) = IC!Short(b)
    BY <1>1, <2>2, <2>3, IndexAndTag, ShortIsIdentity
  <2>5. d = b
    BY <1>1, <2>3, <2>4, ShortIsIdentity
  <2>6. QED
    BY <2>5 DEF d, IC!Icache_data_out
<1>2. QED
  BY FetchAlways, <1>1, PTL

(* An address that is held is not forgotten: the cycle after a fetch does not replace the
   line that it finds, because nothing is waited for then. *)
LEMMA CycleKeepsPending ==
  ASSUME ~TightLoops, NoAlias, FetchInv, MissPending,
         NEW flush \in BOOLEAN, NEW stall \in BOOLEAN, NEW next \in Block,
         NEW load \in BOOLEAN, NEW memtag \in Returns, NEW response \in Responses(load),
         Cycle(flush, stall, next, load, response, memtag)
  PROVE  MissPending'
<1> DEFINE got  == Imem2proc_response(load, response)
           came == current_mem_tag = memtag /\ current_mem_tag # 0
<1> HIDE DEF got
<1>1. /\ PC \in Block /\ PC' \in Block /\ PC \in Nat
      /\ IC!Short(PC) = PC /\ IC!Short(PC') = PC' /\ IC!Short(PC)' = PC'
      /\ last' = PC
      /\ current_mem_tag' = IF last # PC \/ miss_outstanding \/ came
                            THEN got ELSE current_mem_tag
      /\ miss_outstanding' = IF last # PC THEN ~Holds(line, PC)
                             ELSE miss_outstanding /\ got = 0
      /\ ~came => line' = line
  <2>1. PC \in Block /\ PC' \in Block
    BY CycleFacts DEF FetchInv, TypeOK
  <2>2. PC \in Nat /\ IC!Short(PC) = PC /\ IC!Short(PC') = PC' /\ IC!Short(PC)' = PC'
    BY <2>1, ShortIsIdentity DEF IC!Short
  <2>3. QED
    BY <2>1, <2>2, CycleFacts DEF got
<1>2. SUFFICES ASSUME PC' = PC, ~Holds(line', PC)
               PROVE  miss_outstanding' \/ current_mem_tag' # 0
  BY <1>1 DEF MissPending, Icache_valid, IC!Icache_valid_out, Holds, IC!index, IC!tag, IC!Short
<1>3. CASE ~Holds(line, PC)
  <2>1. CASE last # PC
    BY <1>1, <1>3, <2>1
  <2>2. CASE last = PC
    <3>1. miss_outstanding \/ current_mem_tag # 0
      BY <1>1, <1>3, <2>2 DEF MissPending, Icache_valid, IC!Icache_valid_out, Holds
    <3>2. ~came
      BY <1>1, <1>2, <2>2, LinesAfter
    <3>3. QED
      BY <1>1, <2>2, <3>1, <3>2
  <2>3. QED
    BY <2>1, <2>2
<1>4. CASE Holds(line, PC)
  <2>1. came
    BY <1>1, <1>2, <1>4
  <2>2. last # PC
    BY <1>1, <1>4, <2>1 DEF FetchInv, MissIsMissing, IC!Icache_valid_out, Holds
  <2>3. empty
    BY <1>1, <2>1, <2>2 DEF FetchInv, QuietAfterFetch, IC!changed_addr
  <2>4. next # PC /\ PC' = next
    BY <1>4, <2>3 DEF Cycle, NextPC, Fetches, Icache_valid, IC!Icache_valid_out, Holds
  <2>5. QED
    BY <1>2, <2>4
<1>5. QED
  BY <1>3, <1>4

(* When no branch is predicted into its own double word, and the address after reset is one
   the cache has not seen, what is fetched next is in the cache, asked for or waited for. *)
THEOREM FetchMissPending ==
  ASSUME ~TightLoops, NoAlias, LINES * TAGS # 1
  PROVE  Spec => []MissPending
<1>1. ASSUME Init
      PROVE  MissPending
  <2>1. PC = 0 /\ last = LINES * TAGS - 1
    BY <1>1 DEF Init, IC!Init
  <2>2. IC!Short(PC) = 0
    BY <2>1, FetchAssumption, ShortIsIdentity DEF Block
  <2>3. LINES * TAGS - 1 # 0
    BY FetchAssumption
  <2>4. QED
    BY <2>1, <2>2, <2>3 DEF MissPending
<1>2. ASSUME FetchInv, MissPending, [Next]_vars
      PROVE  MissPending'
  <2>1. CASE Next
    BY <1>2, <2>1, CycleKeepsPending DEF Next, Step
  <2>2. CASE UNCHANGED vars
    BY <1>2, <2>2 DEF vars, cacheVars, MissPending, Icache_valid, IC!Icache_valid_out,
                      IC!index, IC!tag, IC!Short
  <2>3. QED
    BY <1>2, <2>1, <2>2
<1>3. QED
  BY FetchAlways, <1>1, <1>2, PTL DEF Spec
=============================================================================
