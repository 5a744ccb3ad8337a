------------------------- MODULE PriorityQueueProofs ------------------------
(***************************************************************************)
(* The allocator and the queue of the test programs, for every heap:       *)
(* blocks neither overlap nor get lost, the free list stays in order of    *)
(* addresses, and the list of nodes in order of priorities, no node in it  *)
(* twice.  It holds every node in use until the heap is first exhausted:   *)
(* what newNode writes through NULL then cuts the list off.                *)
(*                                                                         *)
(* Two facts make the proof: a program that only asks for nodes carves the *)
(* heap up into blocks of one size, of which those that are not in use     *)
(* make up the ring of the free list; and nothing is ever joined, since    *)
(* pointer arithmetic looks for a block's neighbour eight times too far    *)
(* away (BaseApart).                                                       *)
(***************************************************************************)
EXTENDS PriorityQueue, FiniteSetTheorems, WellFoundedInduction, TLAPS

-----------------------------------------------------------------------------
(* Sets of numbers between two bounds have a least and a greatest element. *)
LEMMA LowestIn ==
  ASSUME NEW T, T \subseteq Nat, T # {}
  PROVE  \E j \in T : \A k \in T : j <= k
<1>1. PICK x \in T : \A y \in T : ~(<<y, x>> \in OpToRel(<, Nat))
  BY WFMin, NatLessThanWellFounded
<1>2. ASSUME NEW y \in T PROVE x <= y
  <2>1. <<y, x>> \in Nat \X Nat /\ <<y, x>>[1] = y /\ <<y, x>>[2] = x
    OBVIOUS
  <2>2. ~(y < x)
    BY <1>1, <2>1 DEF OpToRel
  <2>3. QED
    BY <2>2
<1>3. QED
  BY <1>2

LEMMA MinIn ==
  ASSUME NEW T, T \subseteq Nat, T # {}
  PROVE  Min(T) \in T /\ \A k \in T : Min(T) <= k
  BY LowestIn DEF Min

Bounded(T) == \E lo, hi \in Int : T \subseteq lo .. hi

LEMMA HighestIn ==
  ASSUME NEW lo \in Int, NEW hi \in Int, NEW T, T \subseteq lo .. hi, T # {}
  PROVE  \E j \in T : \A k \in T : k <= j
<1> DEFINE U == {hi - k : k \in T}
<1>1. U \subseteq Nat /\ U # {}
  <2>1. \A k \in T : hi - k \in Nat
    OBVIOUS
  <2>2. QED
    BY <2>1
<1>2. PICK x \in U : \A y \in U : x <= y
  <2> HIDE DEF U
  <2>1. QED
    BY <1>1, LowestIn
<1>3. PICK k \in T : x = hi - k
  OBVIOUS
<1>4. \A l \in T : hi - k <= hi - l
  BY <1>2, <1>3
<1>5. QED
  BY <1>4

-----------------------------------------------------------------------------
(* Walking along a list. *)
PathOf(g, h, p, k) == g = [j \in 0 .. k |-> IF j = 0 THEN p ELSE h[g[j - 1]].next]

LEMMA PathExists ==
  ASSUME NEW h, NEW p
  PROVE  \A k \in Nat : \E g : PathOf(g, h, p, k)
<1> DEFINE Without == {k \in Nat : ~\E g : PathOf(g, h, p, k)}
<1> SUFFICES ASSUME Without # {} PROVE FALSE
  OBVIOUS
<1>1. PICK k \in Without : \A l \in Without : k <= l
  <2> HIDE DEF Without
  <2>1. Without \subseteq Nat
    BY DEF Without
  <2>2. QED
    BY <2>1, LowestIn
<1>2. CASE k = 0
  <2> DEFINE g == [j \in 0 .. 0 |-> p]
  <2>1. g = [j \in 0 .. 0 |-> IF j = 0 THEN p ELSE h[g[j - 1]].next]
    OBVIOUS
  <2>2. PathOf(g, h, p, k)
    BY <1>2, <2>1 DEF PathOf
  <2>3. QED
    BY <2>2
<1>3. CASE k # 0
  <2>1. k - 1 \in Nat /\ k - 1 \notin Without
    BY <1>1, <1>3
  <2>2. PICK f : PathOf(f, h, p, k - 1)
    BY <2>1
  <2> DEFINE g == [j \in 0 .. k |-> IF j = k THEN h[f[k - 1]].next ELSE f[j]]
  <2>3. \A j \in 0 .. k - 1 : f[j] = IF j = 0 THEN p ELSE h[f[j - 1]].next
    BY <2>1, <2>2 DEF PathOf
  <2>4. ASSUME NEW j \in 0 .. k PROVE g[j] = IF j = 0 THEN p ELSE h[g[j - 1]].next
    BY <1>3, <2>1, <2>3
  <2>5. g = [j \in 0 .. k |-> IF j = 0 THEN p ELSE h[g[j - 1]].next]
    BY <2>4
  <2>6. PathOf(g, h, p, k)
    <3> HIDE DEF g
    <3>1. QED
      BY <2>5 DEF PathOf
  <2>7. QED
    BY <2>6
<1>4. QED
  BY <1>2, <1>3

LEMMA PathUnique ==
  ASSUME NEW h, NEW p, NEW k \in Nat, NEW l \in Nat, k <= l,
         NEW f, NEW g, PathOf(f, h, p, k), PathOf(g, h, p, l)
  PROVE  \A j \in 0 .. k : f[j] = g[j]
<1> DEFINE Apart == {j \in 0 .. k : f[j] # g[j]}
<1>1. \A j \in 0 .. k : /\ f[j] = IF j = 0 THEN p ELSE h[f[j - 1]].next
                        /\ g[j] = IF j = 0 THEN p ELSE h[g[j - 1]].next
  BY DEF PathOf
<1> SUFFICES ASSUME Apart # {} PROVE FALSE
  OBVIOUS
<1>2. PICK j \in Apart : \A i \in Apart : j <= i
  <2>1. Apart \subseteq Nat
    OBVIOUS
  <2> HIDE DEF Apart
  <2>2. QED
    BY <2>1, LowestIn
<1>3. j # 0
  BY <1>1, <1>2
<1>4. j - 1 \in 0 .. k /\ j - 1 \notin Apart
  BY <1>2, <1>3
<1>5. QED
  BY <1>1, <1>2, <1>3, <1>4

LEMMA WalkSteps ==
  ASSUME NEW h, NEW p, NEW k \in Nat
  PROVE  Walk(h, p, 0) = p /\ Walk(h, p, k + 1) = h[Walk(h, p, k)].next
<1> DEFINE path(n) == CHOOSE g : PathOf(g, h, p, n)
<1>1. ASSUME NEW n \in Nat PROVE Walk(h, p, n) = path(n)[n] /\ PathOf(path(n), h, p, n)
  <2>1. PathOf(path(n), h, p, n)
    BY PathExists
  <2>2. Walk(h, p, n) = path(n)[n]
    BY DEF Walk, PathOf
  <2>3. QED
    BY <2>1, <2>2
<1>2. ASSUME NEW n \in Nat, NEW j \in 0 .. n
      PROVE  path(n)[j] = IF j = 0 THEN p ELSE h[path(n)[j - 1]].next
  <2>1. PathOf(path(n), h, p, n)
    BY <1>1
  <2> HIDE DEF path
  <2>2. QED
    BY <2>1 DEF PathOf
<1>3. path(k + 1)[k] = path(k)[k]
  <2>1. PathOf(path(k), h, p, k) /\ PathOf(path(k + 1), h, p, k + 1)
    BY <1>1
  <2> HIDE DEF path
  <2>2. QED
    BY <2>1, PathUnique
<1> HIDE DEF path
<1>4. QED
  BY <1>1, <1>2, <1>3

(* It does not leave a set that it enters and that is closed. *)
LEMMA WalkWithin ==
  ASSUME NEW h, NEW p, NEW S, p \in S, \A a \in S : h[a].next \in S
  PROVE  \A k \in Nat : Walk(h, p, k) \in S
<1> DEFINE Out == {k \in Nat : Walk(h, p, k) \notin S}
<1> SUFFICES ASSUME Out # {} PROVE FALSE
  OBVIOUS
<1>1. PICK k \in Out : \A j \in Out : k <= j
  <2>1. Out \subseteq Nat
    OBVIOUS
  <2> HIDE DEF Out
  <2>2. QED
    BY <2>1, LowestIn
<1>2. k # 0
  BY <1>1, WalkSteps
<1>3. k - 1 \in Nat /\ k - 1 \notin Out
  BY <1>1, <1>2
<1>4. Walk(h, p, (k - 1) + 1) = h[Walk(h, p, k - 1)].next
  BY <1>3, WalkSteps
<1>5. (k - 1) + 1 = k
  BY <1>1
<1>6. QED
  BY <1>1, <1>3, <1>4, <1>5

-----------------------------------------------------------------------------
(* A ring in order of addresses: each node leads to the next higher one, the highest to
   the lowest. *)
Cyclic(h, S) ==
  \A a \in S :
    /\ h[a].next \in S
    /\ IF \E b \in S : b > a
         THEN h[a].next > a /\ \A b \in S : b > a => b >= h[a].next
         ELSE \A b \in S : h[a].next <= b

LEMMA CyclicAll ==
  ASSUME NEW lo \in Int, NEW hi \in Int, NEW S, S \subseteq lo .. hi, NEW h, Cyclic(h, S),
         NEW T, T \subseteq S, T # {}, \A a \in T : h[a].next \in T
  PROVE  T = S
<1>1. PICK m \in T : \A a \in T : a <= m
  <2>1. T \subseteq lo .. hi
    OBVIOUS
  <2>2. QED
    BY <2>1, HighestIn
<1> DEFINE q == h[m].next
<1>2. q \in T /\ \A b \in S : q <= b
  <2>1. q \in T /\ q <= m /\ q \in Int /\ m \in Int
    BY <1>1
  <2>2. ~(h[m].next > m)
    BY <2>1
  <2>3. QED
    BY <2>1, <2>2 DEF Cyclic
<1>3. ASSUME NEW b \in S, b \notin T PROVE FALSE
  <2> DEFINE Below == {a \in T : a < b}
  <2>1. q \in Below
    <3> HIDE DEF q
    <3>1. q \in Int /\ b \in Int /\ q <= b /\ q # b
      BY <1>2, <1>3
    <3>2. QED
      BY <1>2, <3>1
  <2>2. PICK g \in Below : \A a \in Below : a <= g
    <3>1. Below \subseteq lo .. hi /\ Below # {}
      BY <2>1
    <3> HIDE DEF Below
    <3>2. QED
      BY <3>1, HighestIn
  <2>3. g \in S /\ b > g /\ g \in Int /\ b \in Int
    OBVIOUS
  <2>4. h[g].next > g /\ b >= h[g].next
    BY <2>3 DEF Cyclic
  <2>5. h[g].next \in T /\ h[g].next # b /\ h[g].next \in Int
    BY <1>3
  <2>6. h[g].next \in Below
    BY <2>3, <2>4, <2>5
  <2>7. QED
    BY <2>2, <2>3, <2>4, <2>5, <2>6
<1>4. QED
  BY <1>3

(* Going round a ring visits all of it, and it is enough to make as many steps as it has
   nodes. *)
LEMMA RingVisited ==
  ASSUME NEW S, Bounded(S), NEW h, Cyclic(h, S),
         NEW f \in S, NEW n \in Nat, Cardinality(S) <= n
  PROVE  /\ \A k \in Nat : Walk(h, f, k) \in S
         /\ \A a \in S : \E k \in 0 .. n : Walk(h, f, k) = a
<1> DEFINE V(k) == {Walk(h, f, j) : j \in 0 .. k}
           Few == {k \in Nat : ~(V(k) = S \/ (IsFiniteSet(V(k)) /\ Cardinality(V(k)) = k + 1))}
<1> PICK lo \in Int, hi \in Int : S \subseteq lo .. hi
  BY DEF Bounded
<1>1. \A k \in Nat : Walk(h, f, k) \in S
  BY WalkWithin DEF Cyclic
<1>2. IsFiniteSet(S) /\ Cardinality(S) \in Nat
  <2>1. IsFiniteSet(lo .. hi)
    BY FS_Interval
  <2>2. QED
    BY <2>1, FS_Subset, FS_CardinalityType
<1>3. Few = {}
  <2> SUFFICES ASSUME Few # {} PROVE FALSE
    OBVIOUS
  <2>1. PICK k \in Few : \A j \in Few : k <= j
    <3>1. Few \subseteq Nat
      OBVIOUS
    <3> HIDE DEF Few
    <3>2. QED
      BY <3>1, LowestIn
  <2>2. k # 0
    <3>1. V(0) = {f}
      BY WalkSteps
    <3>2. IsFiniteSet(V(0)) /\ Cardinality(V(0)) = 0 + 1
      <4> HIDE DEF V
      <4>1. IsFiniteSet({f}) /\ Cardinality({f}) = 1
        BY FS_Singleton
      <4>2. QED
        BY <3>1, <4>1
    <3>3. 0 \notin Few
      BY <3>2
    <3> HIDE DEF Few
    <3>4. QED
      BY <2>1, <3>3
  <2>3. k - 1 \in Nat /\ k - 1 \notin Few /\ k \in Nat
    <3>1. k \in Nat
      OBVIOUS
    <3>2. k - 1 \notin Few
      <4> HIDE DEF Few
      <4>1. QED
        BY <2>1, <3>1
    <3>3. QED
      BY <2>2, <3>1, <3>2
  <2>4. V(k) = V(k - 1) \cup {Walk(h, f, k)}
    <3>1. 0 .. k = (0 .. k - 1) \cup {k}
      BY <2>3
    <3>2. QED
      BY <3>1
  <2>5. CASE V(k - 1) = S
    <3>1. V(k) = S
      BY <1>1, <2>3, <2>4, <2>5
    <3>2. QED
      BY <3>1
  <2>6. CASE V(k - 1) # S /\ IsFiniteSet(V(k - 1)) /\ Cardinality(V(k - 1)) = (k - 1) + 1
    <3>1. Walk(h, f, k) \notin V(k - 1)
      <4> SUFFICES ASSUME Walk(h, f, k) \in V(k - 1) PROVE V(k - 1) = S
        BY <2>6
      <4>1. V(k - 1) \subseteq S /\ V(k - 1) # {}
        BY <1>1, <2>3
      <4>2. ASSUME NEW j \in 0 .. k - 1 PROVE h[Walk(h, f, j)].next \in V(k - 1)
        <5>1. j \in Nat /\ Walk(h, f, j + 1) = h[Walk(h, f, j)].next
          BY WalkSteps
        <5>2. j = k - 1 \/ j + 1 \in 0 .. k - 1
          BY <2>3
        <5>3. CASE j = k - 1
          BY <2>3, <5>1, <5>3
        <5>4. CASE j + 1 \in 0 .. k - 1
          BY <5>1, <5>4
        <5>5. QED
          BY <5>2, <5>3, <5>4
      <4>3. \A a \in V(k - 1) : h[a].next \in V(k - 1)
        BY <4>2
      <4> HIDE DEF V
      <4>4. QED
        BY <4>1, <4>3, CyclicAll
    <3>2. IsFiniteSet(V(k)) /\ Cardinality(V(k)) = k + 1
      <4> HIDE DEF V
      <4>1. QED
        BY <2>3, <2>4, <2>6, <3>1, FS_AddElement
    <3>3. QED
      BY <3>2
  <2>7. V(k - 1) = S \/ (V(k - 1) # S /\ IsFiniteSet(V(k - 1)) /\ Cardinality(V(k - 1)) = (k - 1) + 1)
    BY <2>3
  <2>8. QED
    BY <2>5, <2>6, <2>7
<1>4. V(n) \subseteq S
  BY <1>1
<1>5. ~(IsFiniteSet(V(n)) /\ Cardinality(V(n)) = n + 1)
  <2> HIDE DEF V
  <2>1. Cardinality(V(n)) <= Cardinality(S)
    BY <1>2, <1>4, FS_Subset
  <2>2. QED
    BY <1>2, <2>1
<1>6. V(n) = S
  BY <1>3, <1>5
<1>7. QED
  BY <1>1, <1>6

(* A node goes between two that its address lies between. *)
LEMMA CyclicInsert ==
  ASSUME NEW S \in SUBSET Int, NEW h, Cyclic(h, S), NEW p \in S, NEW b \in Int, b \notin S,
         Between(h, p, b),
         NEW g, g[p].next = b, g[b].next = h[p].next, \A a \in S \ {p} : g[a].next = h[a].next
  PROVE  Cyclic(g, S \cup {b})
<1> DEFINE q == h[p].next
           T == S \cup {b}
<1>1. /\ q \in S /\ p \in Int /\ q \in Int /\ b # q /\ b # p
      /\ (b > p /\ b < q) \/ (p >= q /\ (b > p \/ b < q))
  BY DEF Cyclic, Between
<1>2. IF \E a \in S : a > p THEN q > p /\ \A a \in S : a > p => a >= q ELSE \A a \in S : q <= a
  BY DEF Cyclic
<1> HIDE DEF q
<1>3. ASSUME NEW a \in T
      PROVE  /\ g[a].next \in T
             /\ IF \E c \in T : c > a THEN g[a].next > a /\ \A c \in T : c > a => c >= g[a].next
                ELSE \A c \in T : g[a].next <= c
  <2>1. CASE a = p
    <3>1. g[a].next = b
      BY <2>1
    <3>2. CASE b > p
      <4>1. \A c \in S : c > p => c >= b
        BY <1>1, <1>2, <3>2
      <4>2. QED
        BY <1>1, <2>1, <3>1, <3>2, <4>1
    <3>3. CASE b < p
      <4>1. p >= q /\ b < q
        BY <1>1, <3>3
      <4>2. ~(\E c \in S : c > p) /\ \A c \in S : q <= c
        BY <1>1, <1>2, <4>1
      <4>3. \A c \in T : b <= c /\ ~(c > p)
        BY <1>1, <3>3, <4>1, <4>2
      <4>4. QED
        BY <2>1, <3>1, <4>3
    <3>4. b > p \/ b < p
      BY <1>1
    <3>5. QED
      BY <3>2, <3>3, <3>4
  <2>2. CASE a = b
    <3>1. g[a].next = q
      BY <2>2 DEF q
    <3>2. CASE b < q
      <4>1. \A c \in S : c > b => c >= q
        BY <1>1, <1>2, <3>2
      <4>2. QED
        BY <1>1, <2>2, <3>1, <3>2, <4>1
    <3>3. CASE b > q
      <4>1. p >= q /\ b > p
        BY <1>1, <3>3
      <4>2. \A c \in S : q <= c /\ ~(c > b)
        BY <1>1, <1>2, <4>1
      <4>3. QED
        BY <1>1, <2>2, <3>1, <3>3, <4>2
    <3>4. QED
      BY <1>1, <3>2, <3>3
  <2>3. CASE a \in S \ {p}
    <3> DEFINE r == h[a].next
    <3>1. g[a].next = r
      BY <2>3
    <3>2. /\ r \in S /\ a \in S /\ a \in Int /\ r \in Int /\ a # p
          /\ IF \E c \in S : c > a THEN r > a /\ \A c \in S : c > a => c >= r
             ELSE \A c \in S : r <= c
      BY <2>3 DEF Cyclic
    <3> HIDE DEF r
    <3>3. CASE \E c \in S : c > a
      <4>1. b > a => b >= r
        <5> SUFFICES ASSUME b > a, b < r PROVE FALSE
          BY <1>1, <3>2
        <5>1. ASSUME NEW c \in S PROVE c <= a \/ c >= r
          <6>1. c \in Int /\ (c > a => c >= r)
            BY <3>2, <3>3
          <6>2. QED
            BY <3>2, <6>1
        <5>2. p <= a \/ p >= r
          BY <5>1
        <5>3. q <= a \/ q >= r
          BY <1>1, <5>1
        <5>4. CASE p < a
          <6>1. q > p /\ a >= q
            BY <1>1, <1>2, <3>2, <5>4
          <6>2. QED
            BY <1>1, <3>2, <6>1
        <5>5. CASE p >= r
          <6>1. p > b
            BY <1>1, <3>2, <5>5
          <6>2. p >= q /\ b < q
            BY <1>1, <6>1
          <6>3. \A c \in S : q <= c
            BY <1>1, <1>2, <6>2
          <6>4. q <= a
            BY <3>2, <6>3
          <6>5. QED
            BY <1>1, <3>2, <6>2, <6>4
        <5>6. QED
          BY <1>1, <3>2, <5>2, <5>4, <5>5
      <4>2. r > a /\ \A c \in T : c > a => c >= r
        BY <3>2, <3>3, <4>1
      <4>3. \E c \in T : c > a
        BY <3>3
      <4>4. QED
        BY <3>1, <3>2, <4>2, <4>3
    <3>4. CASE ~\E c \in S : c > a
      <4>1. \A c \in S : r <= c /\ c <= a
        BY <3>2, <3>4
      <4>2. p < a /\ r <= p
        BY <1>1, <3>2, <4>1
      <4>3. q > p
        BY <1>2, <3>2, <4>2
      <4>4. b > p /\ b < q /\ q <= a
        BY <1>1, <4>1, <4>3
      <4>5. \A c \in T : r <= c /\ ~(c > a)
        BY <1>1, <3>2, <4>1, <4>2, <4>4
      <4>6. QED
        BY <3>1, <3>2, <4>5
    <3>5. QED
      BY <3>3, <3>4
  <2>4. QED
    BY <2>1, <2>2, <2>3
<1>4. QED
  BY <1>3 DEF Cyclic

(* A node is taken out of the ring. *)
LEMMA CyclicRemove ==
  ASSUME NEW S \in SUBSET Int, NEW h, Cyclic(h, S), NEW p \in S, NEW b, b = h[p].next, b # p,
         NEW g, g[p].next = h[b].next, \A a \in S \ {p, b} : g[a].next = h[a].next
  PROVE  Cyclic(g, S \ {b})
<1> DEFINE T == S \ {b}
           next(a) == h[a].next
<1>1. ASSUME NEW a \in S
      PROVE  /\ next(a) \in S /\ next(a) \in Int
             /\ IF \E c \in S : c > a THEN next(a) > a /\ \A c \in S : c > a => c >= next(a)
                ELSE \A c \in S : next(a) <= c
  BY DEF Cyclic
<1>2. b = next(p) /\ b \in S /\ p \in Int /\ b \in Int
  BY <1>1
<1>3. g[p].next = next(b) /\ \A a \in S \ {p, b} : g[a].next = next(a)
  OBVIOUS
<1> HIDE DEF next
<1>4. ASSUME NEW a \in S, a # p PROVE next(a) # b
  <2> SUFFICES ASSUME next(a) = b PROVE FALSE
    OBVIOUS
  <2>1. a \in Int
    OBVIOUS
  <2>2. CASE a < p
    BY <1>1, <1>2, <1>4, <2>1, <2>2
  <2>3. CASE a > p
    BY <1>1, <1>2, <1>4, <2>1, <2>3
  <2>4. QED
    BY <1>2, <1>4, <2>1, <2>2, <2>3
<1>5. ASSUME NEW a \in T
      PROVE  /\ g[a].next \in T
             /\ IF \E c \in T : c > a THEN g[a].next > a /\ \A c \in T : c > a => c >= g[a].next
                ELSE \A c \in T : g[a].next <= c
  <2>1. CASE a = p
    <3>1. g[a].next = next(b)
      BY <1>3, <2>1
    <3>2. next(b) \in T
      <4>1. next(b) # b
        <5> SUFFICES ASSUME next(b) = b PROVE FALSE
          OBVIOUS
        <5>1. CASE b > p
          BY <1>1, <1>2, <5>1
        <5>2. CASE b < p
          BY <1>1, <1>2, <5>2
        <5>3. QED
          BY <1>2, <5>1, <5>2
      <4>2. QED
        BY <1>1, <1>2, <4>1
    <3>3. CASE \E c \in T : c > a
      <4>1. PICK c \in T : c > a
        BY <3>3
      <4>2. b > a /\ \A d \in S : d > a => d >= b
        BY <1>1, <1>2, <2>1, <4>1
      <4>3. c > b /\ c \in Int
        BY <1>2, <4>1, <4>2
      <4>4. next(b) > b /\ \A d \in S : d > b => d >= next(b)
        BY <1>1, <1>2, <4>3
      <4>5. \A d \in T : d > a => d >= next(b)
        BY <1>2, <4>2, <4>4
      <4>6. QED
        BY <1>1, <1>2, <2>1, <3>1, <3>2, <3>3, <4>2, <4>4, <4>5
    <3>4. CASE ~\E c \in T : c > a
      <4>1. CASE b > a
        <5>1. \A c \in S : ~(c > b)
          BY <1>2, <2>1, <3>4, <4>1
        <5>2. \A c \in S : next(b) <= c
          BY <1>1, <1>2, <5>1
        <5>3. QED
          BY <3>1, <3>2, <3>4, <5>2
      <4>2. CASE b < a
        <5>1. \A c \in S : ~(c > a)
          BY <1>2, <2>1, <3>4, <4>2
        <5>2. \A c \in S : b <= c
          BY <1>1, <1>2, <2>1, <5>1
        <5>3. next(b) > b /\ \A d \in S : d > b => d >= next(b)
          BY <1>1, <1>2, <2>1, <4>2
        <5>4. \A c \in T : next(b) <= c
          BY <1>2, <5>2, <5>3
        <5>5. QED
          BY <3>1, <3>2, <3>4, <5>4
      <4>3. b > a \/ b < a
        BY <1>2, <2>1
      <4>4. QED
        BY <4>1, <4>2, <4>3
    <3>5. QED
      BY <3>3, <3>4
  <2>2. CASE a # p
    <3>1. g[a].next = next(a) /\ next(a) \in T /\ a \in S /\ a \in Int
      BY <1>1, <1>3, <1>4, <2>2
    <3>2. CASE \E c \in T : c > a
      BY <1>1, <3>1, <3>2
    <3>3. CASE ~\E c \in T : c > a
      <4>1. CASE b > a
        <5>1. next(a) = b
          <6>1. next(a) > a
            BY <1>1, <1>2, <3>1, <4>1
          <6>2. QED
            BY <3>1, <3>3, <6>1
        <5>2. QED
          BY <3>1, <5>1
      <4>2. CASE ~(b > a)
        <5>1. \A c \in S : ~(c > a)
          BY <3>3, <4>2
        <5>2. QED
          BY <1>1, <3>1, <3>3, <5>1
      <4>3. QED
        BY <4>1, <4>2
    <3>4. QED
      BY <3>2, <3>3
  <2>3. QED
    BY <2>1, <2>2
<1>6. QED
  BY <1>5 DEF Cyclic

(* Every address outside the ring lies between two nodes of it. *)
LEMMA BetweenSome ==
  ASSUME NEW S, Bounded(S), S # {}, NEW h, Cyclic(h, S), NEW b \in Int, b \notin S
  PROVE  \E p \in S : Between(h, p, b)
<1> PICK lo \in Int, hi \in Int : S \subseteq lo .. hi
  BY DEF Bounded
<1> DEFINE Below == {a \in S : a < b}
<1>1. CASE Below # {}
  <2>1. PICK p \in Below : \A a \in Below : a <= p
    <3>1. Below \subseteq lo .. hi
      OBVIOUS
    <3> HIDE DEF Below
    <3>2. QED
      BY <1>1, <3>1, HighestIn
  <2>2. /\ p \in S /\ p \in Int /\ p < b /\ h[p].next \in S /\ h[p].next \in Int
        /\ IF \E c \in S : c > p THEN h[p].next > p /\ \A c \in S : c > p => c >= h[p].next
           ELSE \A c \in S : h[p].next <= c
    <3>1. p \in S /\ p \in Int /\ p < b
      OBVIOUS
    <3>2. h[p].next \in S
      BY <3>1 DEF Cyclic
    <3>3. IF \E c \in S : c > p THEN h[p].next > p /\ \A c \in S : c > p => c >= h[p].next
          ELSE \A c \in S : h[p].next <= c
      BY <3>1 DEF Cyclic
    <3>4. h[p].next \in Int
      BY <3>2
    <3>5. QED
      BY <3>1, <3>2, <3>3, <3>4
  <2>3. CASE h[p].next > p
    <3>1. h[p].next \notin Below
      BY <2>1, <2>2, <2>3
    <3>2. h[p].next > b
      BY <2>2, <3>1
    <3>3. QED
      BY <2>2, <3>2 DEF Between
  <2>4. CASE ~(h[p].next > p)
    BY <2>2, <2>4 DEF Between
  <2>5. QED
    BY <2>3, <2>4
<1>2. CASE Below = {}
  <2>1. PICK p \in S : \A a \in S : a <= p
    BY HighestIn
  <2>2. p \in Int /\ h[p].next \in S /\ h[p].next \in Int /\ h[p].next <= p
    <3>1. h[p].next \in S
      BY DEF Cyclic
    <3>2. \A a \in S : a \in Int
      OBVIOUS
    <3>3. h[p].next <= p
      BY <2>1, <3>1
    <3>4. QED
      BY <3>1, <3>2, <3>3
  <2>3. b < h[p].next
    BY <1>2, <2>2
  <2>4. QED
    BY <2>2, <2>3 DEF Between
<1>3. QED
  BY <1>1, <1>2

-----------------------------------------------------------------------------
(* The heap of a program that only asks for nodes: blocks of one size next to each other,
   some of them on the free list. *)
Aligned(a) == a % (HEADER + NODE) = 0
Blocks(n)  == {a \in 0 .. n - 1 : Aligned(a)}

Headers == [next : Int, size : Nat]

(* The heap is carved up to n, and R is the free list with its base. *)
HeapOK(h, f, n, R) ==
  /\ BASE \in R /\ f \in R /\ R \subseteq Blocks(n) \cup {BASE}
  /\ h \in [Blocks(n) \cup {BASE} -> Headers] /\ Cyclic(h, R)
  /\ h[BASE].size = 0 /\ \A a \in Blocks(n) : h[a].size = NODE

(* `base` is not where a block seems to end, to which pointer arithmetic adds eight times
   its size; tj_free would take it for the next block.  linker.lds puts it below the
   heap, in .sbss. *)
BaseApart == \A a \in Nat : Aligned(a) => BASE # a + SCALE * NODE

LEMMA BlocksFacts ==
  ASSUME NEW n \in 0 .. HEAP_SIZE
  PROVE  /\ BASE \notin Blocks(n) /\ BASE # NULL /\ BASE \in Int
         /\ \A a \in Blocks(n) : a \in 0 .. HEAP_SIZE - 1 /\ a \in Int
         /\ \A a, b \in Blocks(n) : a + SCALE * NODE # b
         /\ \A a, b \in Blocks(n) : a < b => a + HEADER + NODE <= b
<1> USE DEF Blocks, Aligned, HEADER, NODE, NULL, SCALE
<1>1. \A a \in Blocks(n) : a \in 0 .. HEAP_SIZE - 1 /\ a \in Int
  BY MallocAssumption
<1>2. ASSUME NEW a \in Nat, a % 5 = 0, NEW b \in Nat, b % 5 = 0
      PROVE  a + 24 # b /\ (a < b => a + 5 <= b)
  BY <1>2
<1>3. \A a, b \in Blocks(n) : a + SCALE * NODE # b
  BY <1>1, <1>2
<1>4. \A a, b \in Blocks(n) : a < b => a + HEADER + NODE <= b
  BY <1>1, <1>2
<1>5. BASE \notin Blocks(n) /\ BASE # NULL /\ BASE \in Int
  BY MallocAssumption
<1>6. QED
  BY <1>1, <1>3, <1>4, <1>5

LEMMA BlocksGrow ==
  ASSUME NEW n \in Nat, Aligned(n)
  PROVE  Blocks(n + NODE + HEADER) = Blocks(n) \cup {n} /\ n \notin Blocks(n)
         /\ Aligned(n + NODE + HEADER)
<1> USE DEF Blocks, Aligned, HEADER, NODE
<1>1. ASSUME NEW a \in Nat, n <= a, a < n + 5, a % 5 = 0 PROVE a = n
  BY <1>1
<1>2. (n + 5) % 5 = 0
  OBVIOUS
<1>3. Blocks(n + NODE + HEADER) \subseteq Blocks(n) \cup {n}
  BY <1>1
<1>4. Blocks(n) \cup {n} \subseteq Blocks(n + NODE + HEADER)
  OBVIOUS
<1>5. QED
  BY <1>2, <1>3, <1>4

(* The ring lies between two bounds, and going round it once visits all of it. *)
LEMMA RingBounds ==
  ASSUME NEW n \in 0 .. HEAP_SIZE, NEW h, NEW f, NEW R, HeapOK(h, f, n, R)
  PROVE  Bounded(R)
<1> DEFINE lo == IF BASE < 0 THEN BASE ELSE 0
           hi == IF BASE < 0 THEN HEAP_SIZE ELSE BASE + HEAP_SIZE
<1>1. lo \in Int /\ hi \in Int
  BY MallocAssumption
<1>2. \A a \in Blocks(n) \cup {BASE} : a \in lo .. hi
  BY BlocksFacts, MallocAssumption
<1>3. R \subseteq lo .. hi
  BY <1>2 DEF HeapOK
<1>4. QED
  BY <1>1, <1>3 DEF Bounded

LEMMA RingRound ==
  ASSUME NEW n \in 0 .. HEAP_SIZE, NEW h, NEW f, NEW R, HeapOK(h, f, n, R)
  PROVE  /\ {Walk(h, f, k) : k \in Round(h)} = R
         /\ Round(h) \subseteq Nat /\ 1 \in Round(h)
<1>1. Bounded(R)
  BY RingBounds
<1>2. R \subseteq DOMAIN h /\ DOMAIN h = Blocks(n) \cup {BASE} /\ R # {}
  BY DEF HeapOK
<1>3. IsFiniteSet(DOMAIN h) /\ Cardinality(DOMAIN h) \in Nat
  <2>1. IsFiniteSet(0 .. n - 1)
    BY FS_Interval
  <2>2. IsFiniteSet(Blocks(n))
    <3>1. Blocks(n) \subseteq 0 .. n - 1
      BY DEF Blocks
    <3>2. QED
      BY <2>1, <3>1, FS_Subset
  <2>3. QED
    BY <1>2, <2>2, FS_AddElement, FS_CardinalityType
<1>4. Cardinality(R) <= Cardinality(DOMAIN h)
  BY <1>2, <1>3, FS_Subset
<1>5. Cardinality(DOMAIN h) # 0
  BY <1>2, <1>3, FS_EmptySet
<1>6. /\ \A k \in Nat : Walk(h, f, k) \in R
      /\ \A a \in R : \E k \in 0 .. Cardinality(DOMAIN h) : Walk(h, f, k) = a
  <2>1. Cyclic(h, R) /\ f \in R
    BY DEF HeapOK
  <2>2. QED
    BY <1>1, <1>3, <1>4, <2>1, RingVisited
<1>7. QED
  BY <1>3, <1>5, <1>6 DEF Round

(* Where the block p seems to end, q begins. *)
Meets(p, size, q) == p + SCALE * size = q

(* The list with these headers, from p on. *)
Moved(s, h, p) == [s EXCEPT !.header = h, !.freep = p]

(* A block that is joined with neither of its neighbours. *)
LEMMA FreeApart ==
  ASSUME NEW s, NEW mem, NEW b, NEW p, NEW h, NEW h1, NEW size, NEW low,
         b = mem - HEADER, p = Lower(s, b), h = s.header,
         size = h[b].size, h1 = Put(h, b, h[p].next, size), low = h1[p].size,
         ~Meets(b, size, h[p].next), ~Meets(p, low, b)
  PROVE  tj_free(s, mem) = Moved(s, Put(h1, p, b, low), p)
  BY DEF tj_free, Meets, Moved

(* What tj_free leaves: the block b is on the free list, next after where that begins. *)
Freed(t, n, R, b, i, a) ==
  /\ HeapOK(t.header, t.freep, n, R \cup {b}) /\ t.header[t.freep].next = b
  /\ t = State(t.header, t.freep, i, a) /\ t.next_index = i /\ t.avail_mem = a

(* tj_free: the block joins the ring, and is the next after where the list begins now. *)
LEMMA FreeOne ==
  ASSUME NEW n \in 0 .. HEAP_SIZE, NEW h, NEW f, NEW R, HeapOK(h, f, n, R), BaseApart,
         NEW b \in Blocks(n), b \notin R, NEW i, NEW a,
         NEW s, s = State(h, f, i, a), NEW mem, mem = b + HEADER
  PROVE  Freed(tj_free(s, mem), n, R, b, i, a)
<1> DEFINE p == Lower(s, b)
           up == h[p].next
           h1 == Put(h, b, up, NODE)
           h2 == Put(h1, p, b, h[p].size)
<1>1. p \in R /\ Between(h, p, b)
  <2> DEFINE behind == {k \in Round(h) : Between(h, Walk(h, f, k), b)}
  <2>1. Bounded(R)
    BY RingBounds
  <2>2. \E q \in R : Between(h, q, b)
    <3>1. b \in Int /\ R # {} /\ Cyclic(h, R)
      BY BlocksFacts DEF HeapOK
    <3>2. QED
      BY <2>1, <3>1, BetweenSome
  <2>3. behind # {} /\ behind \subseteq Nat
    BY <2>2, RingRound
  <2>4. Min(behind) \in behind
    <3> HIDE DEF behind
    <3>1. QED
      BY <2>3, MinIn
  <2>5. p = Walk(h, f, Min(behind))
    BY DEF Lower, State
  <2> HIDE DEF p
  <2>6. p \in R
    BY <2>4, <2>5, RingRound
  <2>7. QED
    BY <2>4, <2>5, <2>6
<1> HIDE DEF p
<1>2. /\ R \subseteq Blocks(n) \cup {BASE} /\ h \in [Blocks(n) \cup {BASE} -> Headers]
      /\ Cyclic(h, R) /\ up \in R /\ BASE \in R
      /\ h[BASE].size = 0 /\ \A c \in Blocks(n) : h[c].size = NODE
  BY <1>1 DEF HeapOK, Cyclic
<1>3. /\ b \in Int /\ up \in Int /\ p \in Int /\ BASE \in Int /\ b \in Nat /\ b # BASE /\ p # b
      /\ Aligned(b) /\ R \subseteq Int
  <2>1. b \in Nat /\ b \in Int /\ Aligned(b)
    BY DEF Blocks
  <2>2. R \subseteq Int /\ BASE \in Int /\ BASE \notin Blocks(n)
    BY <1>2, BlocksFacts
  <2>3. up \in R /\ p \in R
    BY <1>1, <1>2
  <2> HIDE DEF up
  <2>4. QED
    BY <1>2, <2>1, <2>2, <2>3
<1>4. b + SCALE * NODE # up
  <2>1. CASE up = BASE
    BY <1>3, <2>1 DEF BaseApart
  <2>2. CASE up \in Blocks(n)
    BY <2>2, BlocksFacts
  <2>3. QED
    BY <1>2, <2>1, <2>2
<1>5. p + SCALE * h[p].size # b
  <2>1. CASE p = BASE
    BY <1>2, <1>3, <2>1 DEF SCALE
  <2>2. CASE p \in Blocks(n)
    BY <1>2, <2>2, BlocksFacts
  <2>3. QED
    BY <1>1, <1>2, <2>1, <2>2
<1>6. h[b].size = NODE /\ h1[p].size = h[p].size /\ h[p].size \in Nat
  BY <1>1, <1>2, <1>3 DEF Put, Headers
<1>7. tj_free(s, mem) = State(h2, p, i, a)
  <2>1. mem - HEADER = b
    BY <1>3 DEF HEADER
  <2>2. s.header = h /\ State(h2, p, i, a) = [s EXCEPT !.header = h2, !.freep = p]
    <3>1. s.header = h
      BY DEF State
    <3> HIDE DEF h2
    <3>2. [s EXCEPT !.header = h2, !.freep = p] = State(h2, p, i, a)
      <4>1. [s EXCEPT !.header = h2] = State(h2, f, i, a)
        BY DEF State
      <4>2. [State(h2, f, i, a) EXCEPT !.freep = p] = State(h2, p, i, a)
        BY DEF State
      <4>3. [s EXCEPT !.header = h2, !.freep = p] = [[s EXCEPT !.header = h2] EXCEPT !.freep = p]
        BY DEF State
      <4>4. QED
        BY <4>1, <4>2, <4>3
    <3>3. QED
      BY <3>1, <3>2
  <2> HIDE DEF h2
  <2>3. tj_free(s, mem) = [s EXCEPT !.header = h2, !.freep = p]
    <3>1. s.header = h /\ p = Lower(s, b) /\ b = mem - HEADER
      BY <2>1 DEF p, State
    <3>2. b + SCALE * h[b].size # h[p].next /\ p + SCALE * h1[p].size # b
      BY <1>4, <1>5, <1>6
    <3> DEFINE low == h[p].size
    <3>3. NODE = h[b].size /\ low = h1[p].size /\ b + SCALE * NODE # h[p].next /\ p + SCALE * low # b
      BY <1>6, <3>2
    <3>4. h2 = Put(h1, p, b, low) /\ h1 = Put(h, b, h[p].next, NODE)
      BY DEF h2
    <3> HIDE DEF h1, low
    <3>5. ~Meets(b, NODE, h[p].next) /\ ~Meets(p, low, b) /\ low = h1[p].size /\ NODE = h[b].size
      BY <3>3 DEF Meets
    <3>6. tj_free(s, mem) = Moved(s, Put(h1, p, b, low), p)
      <4>1. ASSUME NEW t, NEW m, m - HEADER = b, t.header = h, Lower(t, b) = p
            PROVE  tj_free(t, m) = Moved(t, Put(h1, p, b, low), p)
        BY <3>4, <3>5, <4>1, FreeApart
      <4>2. QED
        BY <3>1, <4>1
    <3>7. QED
      BY <3>4, <3>6 DEF Moved
  <2>4. QED
    BY <2>2, <2>3
<1>8. /\ h2 \in [Blocks(n) \cup {BASE} -> Headers]
      /\ h2[p] = [next |-> b, size |-> h[p].size] /\ h2[b] = [next |-> up, size |-> NODE]
      /\ \A c \in Blocks(n) \cup {BASE} : c # p /\ c # b => h2[c] = h[c]
  <2>1. DOMAIN h1 = Blocks(n) \cup {BASE} /\ DOMAIN h2 = Blocks(n) \cup {BASE}
    BY <1>1, <1>2 DEF Put
  <2>2. /\ h2[p] = [next |-> b, size |-> h[p].size] /\ h2[b] = [next |-> up, size |-> NODE]
        /\ \A c \in Blocks(n) \cup {BASE} : c # p /\ c # b => h2[c] = h[c]
    BY <1>1, <1>2, <1>3 DEF Put
  <2>3. \A c \in Blocks(n) \cup {BASE} : h2[c] \in Headers
    BY <1>2, <1>3, <1>6, <2>2 DEF Headers, NODE
  <2>4. h2 = [c \in DOMAIN h2 |-> h2[c]]
    BY DEF Put
  <2> HIDE DEF h2
  <2>5. QED
    BY <2>1, <2>2, <2>3, <2>4
<1> HIDE DEF h2, up
<1>9. Cyclic(h2, R \cup {b})
  <2>1. h2[p].next = b /\ h2[b].next = h[p].next /\ \A c \in R \ {p} : h2[c].next = h[c].next
    BY <1>2, <1>8 DEF up
  <2>2. QED
    BY <1>1, <1>2, <1>3, <2>1, CyclicInsert
<1>10. \A c \in Blocks(n) \cup {BASE} : h2[c].size = h[c].size
  BY <1>2, <1>3, <1>8
<1>11. HeapOK(h2, p, n, R \cup {b})
  BY <1>1, <1>2, <1>8, <1>9, <1>10 DEF HeapOK
<1>12. h2[p].next = b
  BY <1>8
<1>13. QED
  BY <1>7, <1>11, <1>12 DEF State, Freed

(* What Take returns: a block that it has taken off the free list. *)
Taken(t, n, R, i, a) ==
  \E b \in R \cap Blocks(n) :
    /\ t.mem = b + HEADER /\ HeapOK(t.s.header, t.s.freep, n, R \ {b})
    /\ t.s = State(t.s.header, t.s.freep, i, a)

(* What getmoremem leaves: a block more, which is free and large enough. *)
Grown(t, n, R, a) ==
  /\ HeapOK(t.header, t.freep, n + NODE + HEADER, R \cup {n})
  /\ Fits(t, NODE) # {}
  /\ t = State(t.header, t.freep, n + NODE + HEADER, a - (NODE + HEADER))

(* tj_malloc, when a block of the ring is large enough: the block leaves the ring. *)
LEMMA TakeOne ==
  ASSUME NEW n \in 0 .. HEAP_SIZE, NEW h, NEW f, NEW R, HeapOK(h, f, n, R),
         NEW s, NEW i, NEW a, s = State(h, f, i, a), Fits(s, NODE) # {}
  PROVE  Taken(Take(s, NODE), n, R, i, a)
<1> DEFINE k == Min(Fits(s, NODE))
           prevp == Walk(h, f, k - 1)
           p == Walk(h, f, k)
           g == [h EXCEPT ![prevp].next = h[p].next]
<1>1. k \in Round(h) \ {0} /\ k \in Nat /\ h[p].size >= NODE
  <2>1. Fits(s, NODE) \subseteq Round(h) \ {0} /\ Round(h) \subseteq Nat
    BY RingRound DEF Fits, State
  <2>2. k \in Fits(s, NODE)
    BY <2>1, MinIn
  <2>3. s.header = h /\ s.freep = f
    BY DEF State
  <2> HIDE DEF k
  <2>4. QED
    BY <2>1, <2>2, <2>3 DEF Fits
<1> HIDE DEF k
<1>2. prevp \in R /\ p = h[prevp].next /\ p \in R
  <2>1. Cyclic(h, R) /\ f \in R
    BY DEF HeapOK
  <2>2. \A j \in Nat : Walk(h, f, j) \in R
    BY <2>1, WalkWithin DEF Cyclic
  <2>3. k - 1 \in Nat /\ (k - 1) + 1 = k
    BY <1>1
  <2>4. QED
    BY <1>1, <2>2, <2>3, WalkSteps
<1> HIDE DEF prevp, p
<1>3. /\ R \subseteq Blocks(n) \cup {BASE} /\ h \in [Blocks(n) \cup {BASE} -> Headers]
      /\ Cyclic(h, R) /\ BASE \in R
      /\ h[BASE].size = 0 /\ \A c \in Blocks(n) : h[c].size = NODE
  BY DEF HeapOK
<1>4. p \in Blocks(n) /\ h[p].size = NODE
  <2>1. p # BASE
    BY <1>1, <1>3 DEF NODE
  <2>2. QED
    BY <1>2, <1>3, <2>1
<1>5. p # prevp
  <2> SUFFICES ASSUME p = prevp PROVE FALSE
    OBVIOUS
  <2>1. PICK lo \in Int, hi \in Int : R \subseteq lo .. hi
    BY RingBounds DEF Bounded
  <2>2. {p} \subseteq R /\ {p} # {} /\ \A c \in {p} : h[c].next \in {p}
    BY <1>2
  <2>3. {p} = R
    BY <1>3, <2>1, <2>2, CyclicAll
  <2>4. QED
    BY <1>3, <1>4, <2>3, BlocksFacts
<1>6. Take(s, NODE) = [s |-> State(g, prevp, i, a), mem |-> p + HEADER]
  <2>1. s.header = h /\ s.freep = f
    BY DEF State
  <2>2. [s EXCEPT !.header[prevp].next = h[p].next, !.freep = prevp] = State(g, prevp, i, a)
    <3>1. [s EXCEPT !.header[prevp].next = h[p].next] = State(g, f, i, a)
      BY DEF State
    <3> HIDE DEF g
    <3>2. [State(g, f, i, a) EXCEPT !.freep = prevp] = State(g, prevp, i, a)
      BY DEF State
    <3>3. [s EXCEPT !.header[prevp].next = h[p].next, !.freep = prevp]
            = [[s EXCEPT !.header[prevp].next = h[p].next] EXCEPT !.freep = prevp]
      BY DEF State
    <3>4. QED
      BY <3>1, <3>2, <3>3
  <2>3. p = Walk(s.header, s.freep, k) /\ prevp = Walk(s.header, s.freep, k - 1)
        /\ k = Min(Fits(s, NODE))
    BY <2>1 DEF p, prevp, k
  <2> HIDE DEF g
  <2>4. Take(s, NODE) = [s |-> [s EXCEPT !.header[prevp].next = s.header[p].next, !.freep = prevp],
                         mem |-> p + HEADER]
    BY <1>4, <2>1, <2>3 DEF Take
  <2>5. QED
    BY <2>1, <2>2, <2>4
<1>7. /\ g \in [Blocks(n) \cup {BASE} -> Headers]
      /\ g[prevp].next = h[p].next /\ \A c \in Blocks(n) \cup {BASE} : c # prevp => g[c] = h[c]
      /\ \A c \in Blocks(n) \cup {BASE} : g[c].size = h[c].size
  <2>1. prevp \in Blocks(n) \cup {BASE} /\ h[prevp] \in Headers /\ h[p].next \in Int
    BY <1>2, <1>3 DEF Headers
  <2>2. g[prevp] = [h[prevp] EXCEPT !.next = h[p].next]
    BY <1>3, <2>1
  <2>3. g[prevp] \in Headers /\ g[prevp].next = h[p].next /\ g[prevp].size = h[prevp].size
    BY <2>1, <2>2 DEF Headers
  <2>4. \A c \in Blocks(n) \cup {BASE} : c # prevp => g[c] = h[c]
    BY <1>3
  <2>5. g = [c \in Blocks(n) \cup {BASE} |-> g[c]]
    BY <1>3
  <2> HIDE DEF g
  <2>6. \A c \in Blocks(n) \cup {BASE} : g[c] \in Headers /\ g[c].size = h[c].size
    BY <1>3, <2>3, <2>4
  <2>7. QED
    BY <2>3, <2>4, <2>5, <2>6
<1> HIDE DEF g
<1>8. Cyclic(g, R \ {p})
  <2>1. R \subseteq Int
    BY <1>3, BlocksFacts
  <2>2. \A c \in R \ {prevp, p} : g[c].next = h[c].next
    BY <1>3, <1>7
  <2>3. R \in SUBSET Int /\ Cyclic(h, R) /\ prevp \in R /\ p = h[prevp].next /\ p # prevp
        /\ g[prevp].next = h[p].next
    BY <1>2, <1>3, <1>5, <1>7, <2>1
  <2>4. \A c \in R \ {prevp, p} : g[c].next = h[c].next
    BY <2>2
  <2>5. QED
    BY <2>3, <2>4, CyclicRemove
<1>9. HeapOK(g, prevp, n, R \ {p})
  <2>1. BASE # p
    BY <1>4, BlocksFacts
  <2>2. QED
    BY <1>2, <1>3, <1>5, <1>7, <1>8, <2>1 DEF HeapOK
<1>10. QED
  <2> DEFINE t == Take(s, NODE)
  <2>1. t.mem = p + HEADER /\ t.s = State(g, prevp, i, a)
    BY <1>6
  <2>2. t.s.header = g /\ t.s.freep = prevp
    BY <2>1 DEF State
  <2> HIDE DEF t
  <2>3. /\ t.mem = p + HEADER /\ HeapOK(t.s.header, t.s.freep, n, R \ {p})
        /\ t.s = State(t.s.header, t.s.freep, i, a)
    BY <1>9, <2>1, <2>2
  <2>4. p \in R \cap Blocks(n)
    BY <1>2, <1>4
  <2>5. QED
    BY <2>3, <2>4 DEF t, Taken

(* getmoremem: what is carved off the heap joins the ring. *)
LEMMA GrowOne ==
  ASSUME NEW n \in 0 .. HEAP_SIZE, Aligned(n), n + NODE + HEADER <= HEAP_SIZE,
         NEW old, NEW f, NEW R, HeapOK(old, f, n, R), BaseApart,
         NEW s, NEW a \in Int, s = State(old, f, n, a)
  PROVE  Grown(getmoremem(s, NODE + HEADER), n, R, a)
<1> DEFINE m == n + NODE + HEADER
           g == Put(old, n, NULL, NODE)
           grown == getmoremem(s, NODE + HEADER)
<1>1. m \in 0 .. HEAP_SIZE /\ n \in Nat /\ n \in Int
  BY MallocAssumption DEF NODE, HEADER
<1>2. Blocks(m) = Blocks(n) \cup {n} /\ n \notin Blocks(n)
  BY <1>1, BlocksGrow
<1>3. BASE # n
  BY <1>1, <1>2, BlocksFacts
<1> HIDE DEF m
<1>4. /\ R \subseteq Blocks(n) \cup {BASE} /\ old \in [Blocks(n) \cup {BASE} -> Headers]
      /\ Cyclic(old, R) /\ BASE \in R /\ f \in R
      /\ old[BASE].size = 0 /\ \A c \in Blocks(n) : old[c].size = NODE
  BY DEF HeapOK
<1>5. n \notin R
  BY <1>2, <1>3, <1>4
<1>6. /\ g \in [Blocks(m) \cup {BASE} -> Headers] /\ g[n].size = NODE
      /\ \A c \in Blocks(n) \cup {BASE} : g[c] = old[c]
  <2>1. DOMAIN g = Blocks(m) \cup {BASE}
    BY <1>2, <1>4 DEF Put
  <2>2. g[n] = [next |-> NULL, size |-> NODE] /\ \A c \in Blocks(n) \cup {BASE} : g[c] = old[c]
    BY <1>2, <1>3, <1>4 DEF Put
  <2>3. g = [c \in DOMAIN g |-> g[c]]
    BY DEF Put
  <2>4. [next |-> NULL, size |-> NODE] \in Headers
    BY DEF Headers, NULL, NODE
  <2> HIDE DEF g
  <2>5. \A c \in Blocks(m) \cup {BASE} : g[c] \in Headers
    BY <1>2, <1>4, <2>2, <2>4
  <2>6. QED
    BY <2>1, <2>2, <2>3, <2>5
<1> HIDE DEF g
<1>7. Cyclic(g, R)
  <2>1. \A c \in R : g[c].next = old[c].next
    BY <1>4, <1>6
  <2>2. QED
    BY <1>4, <2>1 DEF Cyclic
<1>8. HeapOK(g, f, m, R)
  BY <1>2, <1>4, <1>6, <1>7 DEF HeapOK
<1>9. grown = tj_free(State(g, f, m, a - (NODE + HEADER)), n + HEADER)
  <2>1. (NODE + HEADER) - HEADER = NODE /\ n + (NODE + HEADER) = m
    BY <1>1 DEF NODE, HEADER, m
  <2>2. Put(old, n, NULL, (NODE + HEADER) - HEADER) = g
    BY <2>1 DEF g
  <2>3. s.header = old /\ s.freep = f /\ s.next_index = n /\ s.avail_mem = a
    BY DEF State
  <2>4. getmoremem(s, NODE + HEADER)
          = tj_free(State(Put(s.header, s.next_index, NULL, (NODE + HEADER) - HEADER), s.freep,
                          s.next_index + (NODE + HEADER), s.avail_mem - (NODE + HEADER)),
                    s.next_index + HEADER)
    BY DEF getmoremem
  <2>5. QED
    BY <2>1, <2>2, <2>3, <2>4
<1>10. /\ HeapOK(grown.header, grown.freep, m, R \cup {n}) /\ grown.header[grown.freep].next = n
       /\ grown = State(grown.header, grown.freep, m, a - (NODE + HEADER))
  <2>1. n \in Blocks(m)
    BY <1>2
  <2> DEFINE c == a - (NODE + HEADER)
             mem == n + HEADER
             u == tj_free(State(g, f, m, c), mem)
  <2> HIDE DEF c, mem, u
  <2>2. Freed(u, m, R, n, m, c)
    BY <1>1, <1>5, <1>8, <2>1, FreeOne DEF mem, u
  <2> HIDE DEF grown
  <2>3. grown = u
    BY <1>9 DEF u, c, mem
  <2>4. QED
    BY <2>2, <2>3 DEF c, Freed
<1> HIDE DEF grown
<1>11. Fits(grown, NODE) # {}
  <2>1. 1 \in Round(grown.header)
    BY <1>1, <1>10, RingRound
  <2>2. Walk(grown.header, grown.freep, 0 + 1) = n
    BY <1>10, WalkSteps
  <2>3. grown.header[n].size = NODE
    BY <1>2, <1>10 DEF HeapOK
  <2>4. 1 \in Fits(grown, NODE)
    BY <2>1, <2>2, <2>3 DEF Fits, NODE
  <2>5. QED
    BY <2>4
<1>12. QED
  BY <1>10, <1>11 DEF grown, m, Grown

-----------------------------------------------------------------------------
(* The heap, as far as it was carved up to n, with what the program uses of it. *)
Mems(n)    == {a + HEADER : a \in Blocks(n)}
Ring(n, u) == {BASE} \cup {a \in Blocks(n) : a + HEADER \notin u}

HeapInv ==
  /\ next_index \in 0 .. HEAP_SIZE /\ Aligned(next_index) /\ avail_mem = HEAP_SIZE - next_index
  /\ used \subseteq Mems(next_index)
  /\ next_index = (NODE + HEADER) * Cardinality(Mems(next_index)) /\ IsFiniteSet(Mems(next_index))
  /\ IF freep = NULL THEN next_index = 0 /\ header = [x \in {} |-> 0]
     ELSE HeapOK(header, freep, next_index, Ring(next_index, used))

LEMMA StartedOK ==
  ASSUME HeapInv
  PROVE  LET s == Started(Heap)
         IN  /\ HeapOK(s.header, s.freep, next_index, Ring(next_index, used))
             /\ s = State(s.header, s.freep, next_index, avail_mem)
<1> DEFINE s == Started(Heap)
           g == Put(header, BASE, BASE, 0)
<1>1. CASE freep # NULL
  <2>1. s = Heap
    BY <1>1 DEF Started, Heap, State
  <2>2. QED
    BY <1>1, <2>1 DEF HeapInv, Heap, State
<1>2. CASE freep = NULL
  <2>1. next_index = 0 /\ header = [x \in {} |-> 0] /\ Blocks(0) = {} /\ BASE \in Int
    BY <1>2, MallocAssumption DEF HeapInv, Blocks
  <2>2. g = [x \in {BASE} |-> [next |-> BASE, size |-> 0]]
    BY <2>1 DEF Put
  <2>3. Heap.header = header /\ Heap.freep = NULL
    BY <1>2 DEF Heap, State
  <2> HIDE DEF g
  <2>4. Started(Heap) = [Heap EXCEPT !.header = g, !.freep = BASE]
    BY <2>3 DEF Started, g
  <2>5. s = State(g, BASE, next_index, avail_mem)
    <3>1. [Heap EXCEPT !.header = g] = State(g, freep, next_index, avail_mem)
      BY DEF State, Heap
    <3>2. [State(g, freep, next_index, avail_mem) EXCEPT !.freep = BASE]
            = State(g, BASE, next_index, avail_mem)
      BY DEF State
    <3>3. [Heap EXCEPT !.header = g, !.freep = BASE] = [[Heap EXCEPT !.header = g] EXCEPT !.freep = BASE]
      BY DEF State, Heap
    <3>4. QED
      BY <2>4, <3>1, <3>2, <3>3
  <2>6. Ring(0, used) = {BASE}
    BY <2>1 DEF Ring
  <2>7. Cyclic(g, {BASE})
    BY <2>1, <2>2 DEF Cyclic
  <2>8. g \in [{BASE} -> Headers] /\ g[BASE].size = 0
    BY <2>1, <2>2 DEF Headers
  <2>9. HeapOK(g, BASE, 0, {BASE})
    BY <2>1, <2>7, <2>8 DEF HeapOK
  <2>10. s.header = g /\ s.freep = BASE /\ next_index = 0
    BY <2>1, <2>5 DEF State
  <2> HIDE DEF s
  <2>11. HeapOK(s.header, s.freep, next_index, Ring(next_index, used))
    BY <2>6, <2>9, <2>10
  <2>12. s = State(s.header, s.freep, next_index, avail_mem)
    BY <2>5, <2>10
  <2>13. QED
    BY <2>11, <2>12 DEF s
<1>3. QED
  BY <1>1, <1>2

(* The ring without a block is the ring when that block is used, and with it when it no
   longer is. *)
LEMMA RingUsed ==
  ASSUME NEW n \in 0 .. HEAP_SIZE, NEW u, NEW b \in Blocks(n)
  PROVE  /\ Ring(n, u \cup {b + HEADER}) = Ring(n, u) \ {b}
         /\ Ring(n, u \ {b + HEADER}) = Ring(n, u) \cup {b}
<1>1. \A a \in Blocks(n) : a + HEADER = b + HEADER <=> a = b
  BY BlocksFacts DEF HEADER
<1>2. b # BASE
  BY BlocksFacts
<1>3. QED
  BY <1>1, <1>2 DEF Ring

(* tj_malloc returns a block that was not in use, or NULL and leaves the heap as it is. *)
Got(mem) ==
  /\ next_index' \in {next_index, next_index + NODE + HEADER}
  /\ next_index' \in 0 .. HEAP_SIZE /\ Aligned(next_index') /\ avail_mem' = HEAP_SIZE - next_index'
  /\ mem \in Mems(next_index') /\ mem \notin used
  /\ HeapOK(header', freep', next_index', Ring(next_index', used \cup {mem}))

Refused(mem) ==
  /\ mem = NULL /\ next_index' = next_index /\ avail_mem' = avail_mem
  /\ HeapOK(header', freep', next_index, Ring(next_index, used))

LEMMA MallocOne ==
  ASSUME HeapInv, BaseApart, NEW mem,
         tj_malloc(Heap, NODE).mem = mem, Becomes(tj_malloc(Heap, NODE).s)
  PROVE  Got(mem) \/ Refused(mem)
<1> DEFINE r == tj_malloc(Heap, NODE)
           s == Started(Heap)
           R == Ring(next_index, used)
           h == s.header
           f == s.freep
<1>1. /\ HeapOK(h, f, next_index, R) /\ s = State(h, f, next_index, avail_mem)
      /\ s.avail_mem = avail_mem
  BY StartedOK DEF State
<1>2. /\ next_index \in 0 .. HEAP_SIZE /\ Aligned(next_index) /\ avail_mem = HEAP_SIZE - next_index
      /\ HEAP_SIZE \in Nat /\ next_index \in Nat
      /\ used \subseteq Mems(next_index)
  BY MallocAssumption DEF HeapInv
<1> DEFINE grown == getmoremem(s, NODE + HEADER)
           m == next_index + NODE + HEADER
<1>3. \/ Fits(s, NODE) # {} /\ r = Take(s, NODE)
      \/ Fits(s, NODE) = {} /\ avail_mem >= NODE + HEADER /\ r = Take(grown, NODE)
      \/ r = [s |-> s, mem |-> NULL]
  <2>1. ~(NODE > HEAP_SIZE)
    BY QueueAssumption, <1>2 DEF NODE
  <2>2. r = IF Fits(s, NODE) # {} THEN Take(s, NODE)
            ELSE IF avail_mem < NODE + HEADER THEN [s |-> s, mem |-> NULL]
            ELSE Take(grown, NODE)
    BY <1>1, <2>1 DEF tj_malloc
  <2>3. avail_mem \in Int /\ NODE + HEADER \in Int
    BY <1>2 DEF NODE, HEADER
  <2>4. QED
    BY <2>2, <2>3
<1>4. /\ header' = r.s.header /\ freep' = r.s.freep /\ next_index' = r.s.next_index
      /\ avail_mem' = r.s.avail_mem /\ mem = r.mem
  BY DEF Becomes
<1> HIDE DEF r, s, h, f, grown
<1>5. CASE Fits(s, NODE) # {} /\ r = Take(s, NODE)
  <2>1. PICK b \in R \cap Blocks(next_index) :
          /\ r.mem = b + HEADER /\ HeapOK(r.s.header, r.s.freep, next_index, R \ {b})
          /\ r.s = State(r.s.header, r.s.freep, next_index, avail_mem)
    <3> HIDE DEF R
    <3>1. Taken(r, next_index, R, next_index, avail_mem)
      BY <1>1, <1>2, <1>5, TakeOne
    <3>2. QED
      BY <3>1 DEF Taken
  <2>2. next_index' = next_index /\ avail_mem' = avail_mem
    BY <1>4, <2>1 DEF State
  <2>3. mem = b + HEADER /\ mem \in Mems(next_index) /\ mem \notin used
    <3>1. b # BASE
      BY <1>2, BlocksFacts
    <3>2. QED
      BY <1>4, <2>1, <3>1 DEF Mems, Ring
  <2>4. Ring(next_index, used \cup {mem}) = R \ {b}
    BY <1>2, <2>3, RingUsed
  <2>5. HeapOK(header', freep', next_index, Ring(next_index, used \cup {mem}))
    BY <1>4, <2>1, <2>4
  <2>6. QED
    BY <1>2, <2>2, <2>3, <2>5 DEF Got
<1>6. CASE avail_mem >= NODE + HEADER /\ r = Take(grown, NODE)
  <2>1. m \in 0 .. HEAP_SIZE /\ m <= HEAP_SIZE /\ avail_mem - (NODE + HEADER) = HEAP_SIZE - m
    BY <1>2, <1>6 DEF NODE, HEADER
  <2>2. Blocks(m) = Blocks(next_index) \cup {next_index} /\ next_index \notin Blocks(next_index)
        /\ Aligned(m)
    BY <1>2, BlocksGrow
  <2> HIDE DEF m
  <2>3. /\ HeapOK(grown.header, grown.freep, m, R \cup {next_index}) /\ Fits(grown, NODE) # {}
        /\ grown = State(grown.header, grown.freep, m, avail_mem - (NODE + HEADER))
    <3> HIDE DEF R
    <3>1. QED
      <4>1. next_index + NODE + HEADER <= HEAP_SIZE
        BY <2>1 DEF m
      <4>2. /\ HeapOK(grown.header, grown.freep, next_index + NODE + HEADER, R \cup {next_index})
            /\ Fits(grown, NODE) # {}
            /\ grown = State(grown.header, grown.freep, next_index + NODE + HEADER,
                             avail_mem - (NODE + HEADER))
        <5>1. HeapOK(h, f, next_index, R) /\ s = State(h, f, next_index, avail_mem)
          BY <1>1
        <5>2. next_index \in 0 .. HEAP_SIZE /\ Aligned(next_index) /\ avail_mem \in Int
          BY <1>2
        <5>3. grown = getmoremem(s, NODE + HEADER)
          BY DEF grown
        <5> HIDE DEF grown
        <5>4. Grown(grown, next_index, R, avail_mem)
          BY <4>1, <5>1, <5>2, <5>3, GrowOne
        <5>5. QED
          BY <5>4 DEF Grown
      <4>3. QED
        BY <4>2 DEF m
  <2>4. PICK b \in (R \cup {next_index}) \cap Blocks(m) :
          /\ r.mem = b + HEADER /\ HeapOK(r.s.header, r.s.freep, m, (R \cup {next_index}) \ {b})
          /\ r.s = State(r.s.header, r.s.freep, m, avail_mem - (NODE + HEADER))
    <3> DEFINE R2 == R \cup {next_index}
               c == avail_mem - (NODE + HEADER)
    <3> HIDE DEF R2, c
    <3>1. HeapOK(grown.header, grown.freep, m, R2) /\ grown = State(grown.header, grown.freep, m, c)
      BY <2>3 DEF R2, c
    <3>2. \E b \in R2 \cap Blocks(m) :
            /\ r.mem = b + HEADER /\ HeapOK(r.s.header, r.s.freep, m, R2 \ {b})
            /\ r.s = State(r.s.header, r.s.freep, m, c)
      <4>1. Fits(grown, NODE) # {} /\ r = Take(grown, NODE)
        BY <1>6, <2>3
      <4> HIDE DEF R
      <4>2. Taken(r, m, R2, m, c)
        BY <2>1, <3>1, <4>1, TakeOne
      <4>3. QED
        BY <4>2 DEF Taken
    <3>3. QED
      BY <3>2 DEF R2, c
  <2>5. next_index' = m /\ avail_mem' = HEAP_SIZE - m
    BY <1>4, <2>1, <2>4 DEF State
  <2>6. next_index + HEADER \notin used
    <3>1. \A a \in Blocks(next_index) : a + HEADER # next_index + HEADER
      BY <1>2, <2>2, BlocksFacts DEF HEADER
    <3>2. QED
      BY <1>2, <3>1 DEF Mems
  <2>7. R \cup {next_index} = Ring(m, used)
    BY <2>2, <2>6 DEF Ring
  <2>8. mem = b + HEADER /\ mem \in Mems(m) /\ mem \notin used
    <3>1. b # BASE
      BY <2>1, BlocksFacts
    <3>2. QED
      BY <1>4, <2>4, <2>7, <3>1 DEF Mems, Ring
  <2>9. Ring(m, used \cup {mem}) = Ring(m, used) \ {b}
    BY <2>1, <2>8, RingUsed
  <2>10. HeapOK(header', freep', m, Ring(m, used \cup {mem}))
    BY <1>4, <2>4, <2>7, <2>9
  <2>11. QED
    BY <2>1, <2>2, <2>5, <2>8, <2>10 DEF m, Got
<1>7. CASE r = [s |-> s, mem |-> NULL]
  <2>1. mem = NULL /\ r.s = s /\ r.s.next_index = next_index
    BY <1>1, <1>4, <1>7 DEF State
  <2>2. header' = h /\ freep' = f /\ next_index' = next_index /\ avail_mem' = avail_mem
    BY <1>1, <1>4, <2>1 DEF h, f
  <2>3. HeapOK(header', freep', next_index, R)
    BY <1>1, <2>2
  <2>4. QED
    BY <2>1, <2>2, <2>3 DEF Refused
<1>8. QED
  BY <1>3, <1>5, <1>6, <1>7

LEMMA MemsGrow ==
  ASSUME NEW n \in Nat, Aligned(n), IsFiniteSet(Mems(n)), n = (NODE + HEADER) * Cardinality(Mems(n))
  PROVE  LET m == n + NODE + HEADER
         IN  IsFiniteSet(Mems(m)) /\ m = (NODE + HEADER) * Cardinality(Mems(m)) /\ Mems(n) \subseteq Mems(m)
<1> DEFINE m == n + NODE + HEADER
<1>1. Blocks(m) = Blocks(n) \cup {n} /\ n \notin Blocks(n)
  BY BlocksGrow
<1>2. Mems(m) = Mems(n) \cup {n + HEADER} /\ n + HEADER \notin Mems(n)
  <2>1. \A a \in Blocks(n) : a \in Int
    BY DEF Blocks
  <2>2. \A a \in Blocks(n) : a + HEADER # n + HEADER
    BY <1>1, <2>1 DEF HEADER
  <2> HIDE DEF m
  <2>3. QED
    BY <1>1, <2>2 DEF Mems
<1>3. Cardinality(Mems(m)) = Cardinality(Mems(n)) + 1 /\ IsFiniteSet(Mems(m))
      /\ Cardinality(Mems(n)) \in Nat
  BY <1>2, FS_AddElement, FS_CardinalityType
<1>4. ASSUME NEW c \in Nat, n = (NODE + HEADER) * c PROVE m = (NODE + HEADER) * (c + 1)
  BY <1>4 DEF NODE, HEADER
<1> HIDE DEF m
<1>5. IsFiniteSet(Mems(m)) /\ m = (NODE + HEADER) * Cardinality(Mems(m)) /\ Mems(n) \subseteq Mems(m)
  BY <1>2, <1>3, <1>4
<1>6. QED
  BY <1>5 DEF m

(* What a call of newNode does to the heap. *)
LEMMA NewKeepsHeap ==
  ASSUME HeapInv, BaseApart, NEW mem, new(mem)
  PROVE  /\ HeapInv'
         /\ \/ mem = NULL /\ used' = used
            \/ mem \notin used /\ mem \in Mems(next_index') /\ mem # NULL /\ used' = used \cup {mem}
<1>1. /\ tj_malloc(Heap, NODE).mem = mem /\ Becomes(tj_malloc(Heap, NODE).s)
      /\ used' = used \cup ({mem} \ {NULL})
  BY DEF new
<1>2. Got(mem) \/ Refused(mem)
  BY <1>1, MallocOne
<1>3. /\ next_index \in Nat /\ next_index \in 0 .. HEAP_SIZE /\ Aligned(next_index)
      /\ avail_mem = HEAP_SIZE - next_index
      /\ used \subseteq Mems(next_index) /\ IsFiniteSet(Mems(next_index))
      /\ next_index = (NODE + HEADER) * Cardinality(Mems(next_index))
  BY DEF HeapInv
<1>4. CASE Got(mem)
  <2>1. /\ next_index' \in {next_index, next_index + NODE + HEADER}
        /\ next_index' \in 0 .. HEAP_SIZE /\ Aligned(next_index') /\ avail_mem' = HEAP_SIZE - next_index'
        /\ mem \in Mems(next_index') /\ mem \notin used
        /\ HeapOK(header', freep', next_index', Ring(next_index', used \cup {mem}))
    BY <1>4 DEF Got
  <2>2. /\ IsFiniteSet(Mems(next_index')) /\ Mems(next_index) \subseteq Mems(next_index')
        /\ next_index' = (NODE + HEADER) * Cardinality(Mems(next_index'))
    <3>1. CASE next_index' = next_index
      BY <1>3, <3>1
    <3>2. CASE next_index' = next_index + NODE + HEADER
      BY <1>3, <3>2, MemsGrow
    <3>3. QED
      BY <2>1, <3>1, <3>2
  <2>3. mem # NULL
    <3>1. PICK b \in Blocks(next_index') : mem = b + HEADER
      BY <2>1 DEF Mems
    <3>2. b \in Nat
      BY DEF Blocks
    <3>3. QED
      BY <3>1, <3>2 DEF HEADER, NULL
  <2>4. used' = used \cup {mem}
    BY <1>1, <2>3
  <2>5. freep' # NULL
    <3>1. freep' = BASE \/ freep' \in Blocks(next_index')
      BY <2>1 DEF HeapOK
    <3>2. QED
      BY <2>1, <3>1, BlocksFacts DEF NULL
  <2>6. used' \subseteq Mems(next_index')
    BY <1>3, <2>1, <2>2, <2>4
  <2>7. HeapInv'
    BY <2>1, <2>2, <2>4, <2>5, <2>6 DEF HeapInv, Mems, Ring, Blocks, Aligned, HeapOK, Cyclic
  <2>8. QED
    BY <2>1, <2>3, <2>4, <2>7
<1>5. CASE Refused(mem)
  <2>1. /\ mem = NULL /\ next_index' = next_index /\ avail_mem' = avail_mem
        /\ HeapOK(header', freep', next_index, Ring(next_index, used))
    BY <1>5 DEF Refused
  <2>2. used' = used
    BY <1>1, <2>1
  <2>3. freep' # NULL
    <3>1. freep' = BASE \/ freep' \in Blocks(next_index)
      BY <2>1 DEF HeapOK
    <3>2. QED
      BY <1>3, <3>1, BlocksFacts DEF NULL
  <2>4. HeapInv'
    BY <1>3, <2>1, <2>2, <2>3 DEF HeapInv, Mems, Ring, Blocks, Aligned, HeapOK, Cyclic
  <2>5. QED
    BY <2>1, <2>2, <2>4
<1>6. QED
  BY <1>2, <1>4, <1>5

(* tj_free of a node keeps the heap. *)
LEMMA FreeKeepsHeap ==
  ASSUME HeapInv, BaseApart, NEW mem \in used, Becomes(tj_free(Heap, mem)), used' = used \ {mem}
  PROVE  HeapInv'
<1>1. /\ next_index \in 0 .. HEAP_SIZE /\ Aligned(next_index) /\ avail_mem = HEAP_SIZE - next_index
      /\ used \subseteq Mems(next_index)
      /\ next_index = (NODE + HEADER) * Cardinality(Mems(next_index)) /\ IsFiniteSet(Mems(next_index))
  BY DEF HeapInv
<1>2. PICK b \in Blocks(next_index) : mem = b + HEADER
  BY <1>1 DEF Mems
<1>3. freep # NULL /\ HeapOK(header, freep, next_index, Ring(next_index, used))
  <2>1. next_index # 0
    BY <1>1, <1>2 DEF Blocks
  <2>2. QED
    BY <2>1 DEF HeapInv
<1> DEFINE t == tj_free(Heap, mem)
           R == Ring(next_index, used)
<1>4. b \notin R
  BY <1>1, <1>2, BlocksFacts DEF Ring
<1>5. /\ HeapOK(t.header, t.freep, next_index, R \cup {b})
      /\ t.next_index = next_index /\ t.avail_mem = avail_mem
  <2> HIDE DEF R
  <2>1. Heap = State(header, freep, next_index, avail_mem)
    BY DEF Heap
  <2>2. HeapOK(header, freep, next_index, R)
    BY <1>3 DEF R
  <2>3. next_index \in 0 .. HEAP_SIZE /\ b \in Blocks(next_index) /\ b \notin R
    BY <1>1, <1>4
  <2>4. Freed(t, next_index, R, b, next_index, avail_mem)
    <3> HIDE DEF t
    <3>1. t = tj_free(Heap, mem)
      BY DEF t
    <3>2. QED
      BY <1>2, <2>1, <2>2, <2>3, <3>1, FreeOne
  <2>5. QED
    BY <2>4 DEF Freed
<1>6. /\ header' = t.header /\ freep' = t.freep /\ next_index' = next_index /\ avail_mem' = avail_mem
  <2>1. Becomes(t)
    BY <1>2
  <2>2. t.next_index = next_index /\ t.avail_mem = avail_mem
    BY <1>5
  <2> HIDE DEF t
  <2>3. QED
    BY <2>1, <2>2 DEF Becomes
<1>7. Ring(next_index, used') = R \cup {b}
  BY <1>1, <1>2, RingUsed
<1>8. HeapOK(header', freep', next_index, Ring(next_index, used'))
  BY <1>5, <1>6, <1>7
<1>9. freep' # NULL
  <2>1. freep' = BASE \/ freep' \in Blocks(next_index)
    BY <1>8 DEF HeapOK
  <2>2. QED
    BY <1>1, <2>1, BlocksFacts DEF NULL
<1>10. used' \subseteq Mems(next_index)
  BY <1>1
<1>11. QED
  BY <1>1, <1>6, <1>8, <1>9, <1>10 DEF HeapInv, Mems, Ring, Blocks, Aligned, HeapOK, Cyclic

(* The free blocks are those that are carved off and not used. *)
LEMMA FreeOnes ==
  ASSUME HeapInv
  PROVE  /\ FreeBlocks = {a \in Blocks(next_index) : a + HEADER \notin used}
         /\ used \cup {b + HEADER : b \in FreeBlocks} = Mems(next_index)
         /\ \A a \in Blocks(next_index) : header[a].size = NODE
<1> DEFINE free == {a \in Blocks(next_index) : a + HEADER \notin used}
           R == Ring(next_index, used)
<1>1. next_index \in 0 .. HEAP_SIZE /\ used \subseteq Mems(next_index)
  BY DEF HeapInv
<1>2. FreeBlocks = free /\ \A a \in Blocks(next_index) : header[a].size = NODE
  <2>1. CASE freep = NULL
    BY <2>1 DEF HeapInv, FreeBlocks, Blocks
  <2>2. CASE freep # NULL
    <3>1. HeapOK(header, freep, next_index, R)
      BY <2>2 DEF HeapInv
    <3>2. {Walk(header, freep, k) : k \in Round(header)} = R
      <4> HIDE DEF R
      <4>1. QED
        BY <1>1, <3>1, RingRound
    <3>3. R \ {BASE} = free
      BY <1>1, BlocksFacts DEF Ring
    <3>4. FreeBlocks = R \ {BASE}
      BY <2>2, <3>2 DEF FreeBlocks
    <3>5. QED
      BY <3>1, <3>3, <3>4 DEF HeapOK
  <2>3. QED
    BY <2>1, <2>2
<1>3. used \cup {b + HEADER : b \in free} = Mems(next_index)
  BY <1>1 DEF Mems
<1>4. QED
  BY <1>2, <1>3

LEMMA HeapApart ==
  ASSUME HeapInv
  PROVE  BlocksApart /\ NoneLost
<1>1. /\ next_index \in 0 .. HEAP_SIZE /\ Aligned(next_index) /\ next_index \in Nat
      /\ next_index = (NODE + HEADER) * Cardinality(Mems(next_index))
  BY MallocAssumption DEF HeapInv
<1>2. /\ FreeBlocks = {a \in Blocks(next_index) : a + HEADER \notin used}
      /\ used \cup {b + HEADER : b \in FreeBlocks} = Mems(next_index)
      /\ \A a \in Blocks(next_index) : header[a].size = NODE
  BY FreeOnes
<1> DEFINE blocks == used \cup {b + HEADER : b \in FreeBlocks}
           words(m) == Words(m, header[m - HEADER].size)
<1>3. ASSUME NEW m \in blocks
      PROVE  m - HEADER \in Blocks(next_index) /\ words(m) = m - HEADER .. m - HEADER + 4
             /\ m - HEADER \in Int
  <2>1. m \in Mems(next_index)
    BY <1>2
  <2>2. PICK b \in Blocks(next_index) : m = b + HEADER
    BY <2>1 DEF Mems
  <2>3. b \in Int /\ m - HEADER = b
    BY <1>1, <2>2, BlocksFacts DEF HEADER
  <2>4. words(m) = m - HEADER .. m + NODE - 1
    BY <1>2, <2>3 DEF Words
  <2>5. m + NODE - 1 = b + 4
    BY <2>2, <2>3 DEF HEADER, NODE
  <2>6. QED
    BY <2>3, <2>4, <2>5
<1> HIDE DEF words
<1>4. ASSUME NEW m \in blocks PROVE words(m) \subseteq 0 .. next_index - 1
  <2>1. ASSUME NEW b \in Blocks(next_index) PROVE b \in Nat /\ b + 4 <= next_index - 1
    BY <1>1 DEF Blocks, Aligned, HEADER, NODE
  <2>2. m - HEADER \in Nat /\ m - HEADER + 4 <= next_index - 1
    BY <1>3, <2>1
  <2> DEFINE b == m - HEADER
  <2>3. words(m) = b .. b + 4
    BY <1>3
  <2> HIDE DEF b
  <2>4. b \in Nat /\ b + 4 <= next_index - 1
    BY <2>2 DEF b
  <2>5. QED
    BY <1>1, <2>3, <2>4
<1>5. ASSUME NEW m \in blocks, NEW n \in blocks \ {m} PROVE words(m) \cap words(n) = {}
  <2> DEFINE b == m - HEADER
             c == n - HEADER
  <2>1. b \in Blocks(next_index) /\ c \in Blocks(next_index) /\ b \in Int /\ c \in Int
        /\ words(m) = b .. b + 4 /\ words(n) = c .. c + 4
    BY <1>3
  <2>2. b # c
    <3>1. m \in Mems(next_index) /\ n \in Mems(next_index) /\ m # n
      BY <1>2
    <3>2. m \in Int /\ n \in Int
      BY <1>1, <3>1, BlocksFacts DEF Mems, HEADER
    <3>3. QED
      BY <3>1, <3>2 DEF HEADER
  <2> HIDE DEF b, c, blocks
  <2>3. b + 5 <= c \/ c + 5 <= b
    <3>1. \A x, y \in Blocks(next_index) : x < y => x + HEADER + NODE <= y
      BY <1>1, BlocksFacts
    <3>2. CASE b < c
      BY <2>1, <3>1, <3>2 DEF HEADER, NODE
    <3>3. CASE c < b
      BY <2>1, <3>1, <3>3 DEF HEADER, NODE
    <3>4. QED
      BY <2>1, <2>2, <3>2, <3>3
  <2>4. QED
    BY <2>1, <2>3
<1>6. used \cap {b + HEADER : b \in FreeBlocks} = {}
  BY <1>2
<1>7. BlocksApart
  BY <1>4, <1>5, <1>6 DEF BlocksApart, words
<1>8. NoneLost
  BY <1>1, <1>2 DEF NoneLost
<1>9. QED
  BY <1>7, <1>8

LEMMA HeapSorted ==
  ASSUME HeapInv
  PROVE  FreeListSorted
<1> SUFFICES ASSUME freep # NULL
             PROVE  Cardinality({a \in FreeBlocks \cup {BASE} : header[a].next <= a}) = 1
  BY DEF FreeListSorted
<1> DEFINE R == Ring(next_index, used)
           back == {a \in R : header[a].next <= a}
<1>1. next_index \in 0 .. HEAP_SIZE
  BY DEF HeapInv
<1>2. FreeBlocks \cup {BASE} = R
  BY FreeOnes DEF Ring
<1>3. HeapOK(header, freep, next_index, R)
  BY DEF HeapInv
<1> HIDE DEF R
<1>4. PICK lo \in Int, hi \in Int : R \subseteq lo .. hi
  BY <1>1, <1>3, RingBounds DEF Bounded
<1>5. R # {} /\ Cyclic(header, R)
  BY <1>3 DEF HeapOK
<1>6. PICK m \in R : \A a \in R : a <= m
  BY <1>4, <1>5, HighestIn
<1>7. ASSUME NEW a \in R PROVE header[a].next <= a <=> a = m
  <2>1. a \in Int /\ m \in Int /\ header[a].next \in R /\ header[a].next \in Int
    <3>1. header[a].next \in R
      BY <1>5 DEF Cyclic
    <3>2. \A c \in R : c \in Int
      BY <1>4
    <3>3. QED
      BY <3>1, <3>2
  <2>2. CASE a = m
    BY <1>6, <2>1, <2>2
  <2>3. CASE a # m
    <3>1. m > a
      BY <1>6, <2>1, <2>3
    <3>2. header[a].next > a
      BY <1>5, <3>1 DEF Cyclic
    <3>3. QED
      BY <2>1, <2>3, <3>2
  <2>4. QED
    BY <2>2, <2>3
<1>8. back = {m}
  BY <1>7
<1>9. Cardinality({m}) = 1
  BY FS_Singleton
<1>10. QED
  BY <1>2, <1>8, <1>9

(* Where freep is, and that what is used lies within the heap. *)
LEMMA HeapTyped ==
  ASSUME HeapInv
  PROVE  /\ freep \in {NULL, BASE} \cup 0 .. HEAP_SIZE - 1
         /\ next_index \in 0 .. HEAP_SIZE /\ avail_mem = HEAP_SIZE - next_index
         /\ used \subseteq 0 .. HEAP_SIZE - 1 /\ NULL \notin used /\ IsFiniteSet(used)
<1>1. /\ next_index \in 0 .. HEAP_SIZE /\ avail_mem = HEAP_SIZE - next_index
      /\ used \subseteq Mems(next_index) /\ IsFiniteSet(Mems(next_index)) /\ Aligned(next_index)
  BY DEF HeapInv
<1>2. freep \in {NULL, BASE} \cup 0 .. HEAP_SIZE - 1
  <2>1. CASE freep # NULL
    <3>1. freep \in Blocks(next_index) \cup {BASE}
      BY <2>1 DEF HeapInv, HeapOK
    <3>2. QED
      BY <1>1, <3>1, BlocksFacts
  <2>2. QED
    BY <2>1
<1>3. ASSUME NEW b \in Blocks(next_index) PROVE b + HEADER \in 0 .. HEAP_SIZE - 1
  <2>1. b \in Nat /\ b < next_index /\ b % 5 = 0 /\ next_index % 5 = 0
    BY <1>1 DEF Blocks, Aligned, HEADER, NODE
  <2>2. next_index \in Nat /\ next_index <= HEAP_SIZE
    BY <1>1, MallocAssumption
  <2>3. b + 5 <= next_index
    BY <2>1, <2>2
  <2>4. QED
    BY <2>1, <2>2, <2>3, MallocAssumption DEF HEADER
<1>4. used \subseteq 0 .. HEAP_SIZE - 1
  BY <1>1, <1>3 DEF Mems
<1>5. QED
  <2>1. NULL \notin used
    BY <1>4 DEF NULL
  <2>2. IsFiniteSet(used)
    BY <1>1, FS_Subset
  <2>3. QED
    BY <1>1, <1>2, <1>4, <2>1, <2>2

-----------------------------------------------------------------------------
(* The list of the nodes u, from hd on: its k-th is l[k], for k below n, and NULL ends
   it. *)
Nodes == [priority : Nat, next : Int]

Chain(l, n, hd, nd, u) ==
  /\ n \in Nat /\ IsFiniteSet(u) /\ n = Cardinality(u) /\ l[0] = hd /\ l[n] = NULL
  /\ \A i \in 0 .. n - 1 : l[i] \in u /\ nd[l[i]].next = l[i + 1]
  /\ \A a \in u : \E i \in 0 .. n - 1 : l[i] = a
  /\ \A i, j \in 0 .. n - 1 : l[i] = l[j] => i = j
  /\ \A i \in 1 .. n - 1 : nd[l[i - 1]].priority <= nd[l[i]].priority

Chained(hd, nd, u) == \E l, n : Chain(l, n, hd, nd, u)

(* The list is that of the nodes u, which are all in use: all there are in use, as long as
   the heap has lasted. *)
Listed(u) ==
  /\ u \subseteq used /\ Chained(head, node, u)
  /\ \A a \in u : node[a] \in Nodes
  /\ NeverExhausted => u = used

ListInv ==
  /\ IsFiniteSet(DOMAIN node) /\ used \subseteq DOMAIN node
  /\ \E u : Listed(u)

QueueInv == HeapInv /\ ListInv

(* The node k steps behind the first is the list's k-th. *)
LEMMA WalkChain ==
  ASSUME NEW l, NEW n, NEW hd, NEW nd, NEW u, Chain(l, n, hd, nd, u)
  PROVE  \A k \in 0 .. n : Walk(nd, hd, k) = l[k]
<1> DEFINE at(k) == Walk(nd, hd, k)
           Off == {k \in 0 .. n : at(k) # l[k]}
<1> SUFFICES ASSUME Off # {} PROVE FALSE
  OBVIOUS
<1>1. n \in Nat /\ l[0] = hd /\ \A i \in 0 .. n - 1 : nd[l[i]].next = l[i + 1]
  BY DEF Chain
<1>2. PICK k \in Off : \A j \in Off : k <= j
  <2>1. Off \subseteq Nat
    OBVIOUS
  <2> HIDE DEF Off
  <2>2. QED
    BY <2>1, LowestIn
<1>3. k # 0
  BY <1>1, WalkSteps
<1>4. k - 1 \in 0 .. n - 1 /\ k - 1 \in Nat /\ at(k - 1) = l[k - 1] /\ (k - 1) + 1 = k
  BY <1>1, <1>2, <1>3
<1>5. at(k) = nd[at(k - 1)].next
  <2>1. at((k - 1) + 1) = nd[at(k - 1)].next
    BY <1>4, WalkSteps
  <2>2. QED
    BY <1>4, <2>1
<1>6. at(k) = l[k]
  <2>1. nd[l[k - 1]].next = l[(k - 1) + 1]
    BY <1>1, <1>4
  <2>2. QED
    BY <1>4, <1>5, <2>1
<1>7. QED
  BY <1>2, <1>6

LEMMA AtChain ==
  ASSUME NEW l, NEW n, NEW u, Chain(l, n, head, node, u)
  PROVE  \A k \in 0 .. n : At(k) = l[k]
BY WalkChain DEF At

LEMMA LengthChain ==
  ASSUME NEW l, NEW n, NEW u, Chain(l, n, head, node, u), NULL \notin u,
         u \subseteq used, IsFiniteSet(used)
  PROVE  Length = n
<1>1. /\ n \in Nat /\ n = Cardinality(u) /\ l[0] = head /\ l[n] = NULL
      /\ \A i \in 0 .. n - 1 : l[i] # NULL
  BY DEF Chain
<1>2. \A k \in 0 .. n : At(k) = l[k]
  BY AtChain
<1>3. CASE head = NULL
  BY <1>1, <1>3 DEF Length
<1>4. CASE head # NULL
  <2> DEFINE Ends(m) == At(m) = NULL /\ \A j \in 0 .. m - 1 : At(j) # NULL
  <2>1. n # 0 /\ n \in 1 .. Cardinality(used) + 1
    <3>1. n <= Cardinality(used) /\ Cardinality(used) \in Nat
      BY <1>1, FS_Subset, FS_CardinalityType
    <3>2. QED
      BY <1>1, <1>4, <3>1
  <2>2. Ends(n)
    BY <1>1, <1>2
  <2>3. ASSUME NEW m \in 1 .. Cardinality(used) + 1, Ends(m) PROVE m = n
    <3>1. ~(m < n)
      BY <1>1, <1>2, <2>3
    <3>2. ~(n < m)
      BY <1>1, <1>2, <2>3
    <3>3. QED
      BY <1>1, <3>1, <3>2
  <2>4. Length = CHOOSE m \in 1 .. Cardinality(used) + 1 : Ends(m)
    BY <1>4 DEF Length
  <2> HIDE DEF Ends
  <2>5. QED
    BY <2>1, <2>2, <2>3, <2>4
<1>5. QED
  BY <1>3, <1>4

(* The list in order is what Ordered says of the program's pointers. *)
LEMMA ListOrdered ==
  ASSUME QueueInv
  PROVE  Ordered /\ head \in used \cup {NULL}
<1>1. PICK u : Listed(u)
  BY DEF QueueInv, ListInv
<1>2. u \subseteq used /\ (NeverExhausted => u = used)
  BY <1>1 DEF Listed
<1>3. PICK l, n : Chain(l, n, head, node, u)
  BY <1>1 DEF Listed, Chained
<1>4. NULL \notin used /\ IsFiniteSet(used)
  BY HeapTyped DEF QueueInv
<1>5. Length = n /\ n \in Nat /\ n = Cardinality(u)
  BY <1>2, <1>3, <1>4, LengthChain DEF Chain
<1>6. \A k \in 0 .. n : At(k) = l[k]
  BY <1>3, AtChain
<1>7. {At(k) : k \in 0 .. n - 1} = u
  <2>1. \A k \in 0 .. n - 1 : At(k) \in u
    BY <1>3, <1>5, <1>6 DEF Chain
  <2>2. \A a \in u : \E k \in 0 .. n - 1 : At(k) = a
    BY <1>3, <1>5, <1>6 DEF Chain
  <2>3. QED
    BY <2>1, <2>2
<1>8. \A k \in 1 .. n - 1 : node[At(k - 1)].priority <= node[At(k)].priority
  <2>1. \A k \in 1 .. n - 1 : node[l[k - 1]].priority <= node[l[k]].priority
    BY <1>3 DEF Chain
  <2>2. \A k \in 1 .. n - 1 : At(k - 1) = l[k - 1] /\ At(k) = l[k]
    BY <1>5, <1>6
  <2>3. QED
    BY <2>1, <2>2
<1>9. Ordered
  BY <1>2, <1>5, <1>7, <1>8 DEF Ordered
<1>10. head \in used \cup {NULL}
  <2>1. n = 0 \/ 0 \in 0 .. n - 1
    BY <1>5
  <2>2. QED
    BY <1>2, <1>3, <2>1 DEF Chain
<1>11. QED
  BY <1>9, <1>10

(* An empty list. *)
LEMMA ChainEmpty ==
  ASSUME NEW nd
  PROVE  Chained(NULL, nd, {})
<1> DEFINE l == [i \in {0} |-> NULL]
<1>1. l[0] = NULL /\ IsFiniteSet({}) /\ Cardinality({}) = 0
  BY FS_EmptySet
<1> HIDE DEF l
<1>2. Chain(l, 0, NULL, nd, {})
  BY <1>1 DEF Chain
<1>3. QED
  BY <1>2 DEF Chained

(* A list that nothing was written to. *)
LEMMA ChainSame ==
  ASSUME NEW l, NEW n, NEW hd, NEW nd, NEW u, Chain(l, n, hd, nd, u),
         NEW nd2, \A a \in u : nd2[a] = nd[a]
  PROVE  Chain(l, n, hd, nd2, u)
<1>1. /\ n \in Nat /\ \A i \in 0 .. n - 1 : l[i] \in u /\ nd[l[i]].next = l[i + 1]
      /\ \A i \in 1 .. n - 1 : nd[l[i - 1]].priority <= nd[l[i]].priority
  BY DEF Chain
<1>2. \A i \in 0 .. n - 1 : nd2[l[i]] = nd[l[i]]
  BY <1>1
<1>3. \A i \in 1 .. n - 1 : i \in 0 .. n - 1 /\ i - 1 \in 0 .. n - 1
  BY <1>1
<1>4. \A i \in 1 .. n - 1 : nd2[l[i - 1]].priority <= nd2[l[i]].priority
  BY <1>1, <1>2, <1>3
<1>5. QED
  BY <1>1, <1>2, <1>4 DEF Chain

(* A list that is cut off behind its q-th node. *)
LEMMA ChainCut ==
  ASSUME NEW l, NEW n, NEW hd, NEW nd, NEW u, Chain(l, n, hd, nd, u),
         NEW q \in 1 .. n, NEW nd2, nd2[l[q - 1]].next = NULL,
         \A i \in 0 .. q - 2 : nd2[l[i]].next = nd[l[i]].next,
         \A a \in u : nd2[a].priority = nd[a].priority
  PROVE  Chained(hd, nd2, {l[i] : i \in 0 .. q - 1})
<1> DEFINE l2 == [i \in 0 .. q |-> IF i = q THEN NULL ELSE l[i]]
           v == {l[i] : i \in 0 .. q - 1}
<1>1. /\ n \in Nat /\ l[0] = hd
      /\ \A i \in 0 .. n - 1 : l[i] \in u /\ nd[l[i]].next = l[i + 1]
      /\ \A i, j \in 0 .. n - 1 : l[i] = l[j] => i = j
      /\ \A i \in 1 .. n - 1 : nd[l[i - 1]].priority <= nd[l[i]].priority
  BY DEF Chain
<1>2. q \in Nat /\ q > 0 /\ \A i \in 0 .. q - 1 : i \in 0 .. n - 1
  BY <1>1
<1>3. l2[q] = NULL /\ \A i \in 0 .. q - 1 : l2[i] = l[i]
  BY <1>2
<1> HIDE DEF l2
<1>4. IsFiniteSet(v) /\ Cardinality(v) = q
  <2> DEFINE f == [i \in 1 .. q |-> l[i - 1]]
  <2>1. \A i \in 1 .. q : i - 1 \in 0 .. q - 1 /\ (i - 1) + 1 = i
    BY <1>2
  <2>2. f \in [1 .. q -> v]
    BY <2>1
  <2>3. \A a \in v : \E i \in 1 .. q : f[i] = a
    <3>1. ASSUME NEW a \in v PROVE \E i \in 1 .. q : f[i] = a
      <4>1. PICK i \in 0 .. q - 1 : l[i] = a
        OBVIOUS
      <4>2. i + 1 \in 1 .. q /\ (i + 1) - 1 = i
        BY <1>2
      <4>3. f[i + 1] = l[(i + 1) - 1]
        BY <4>2
      <4>4. QED
        BY <4>1, <4>2, <4>3
    <3>2. QED
      BY <3>1
  <2>4. \A i, j \in 1 .. q : f[i] = f[j] => i = j
    <3>1. ASSUME NEW i \in 1 .. q, NEW j \in 1 .. q, f[i] = f[j] PROVE i = j
      <4>1. i - 1 \in 0 .. n - 1 /\ j - 1 \in 0 .. n - 1 /\ l[i - 1] = l[j - 1]
        BY <1>2, <2>1, <3>1
      <4>2. i - 1 = j - 1
        BY <1>1, <4>1
      <4>3. QED
        BY <4>2
    <3>2. QED
      BY <3>1
  <2> HIDE DEF f, v
  <2>5. f \in Bijection(1 .. q, v)
    BY <2>2, <2>3, <2>4 DEF Bijection, Injection, Surjection, IsInjective
  <2>6. ExistsBijection(1 .. q, v)
    BY <2>5 DEF ExistsBijection
  <2>7. v \subseteq u /\ IsFiniteSet(u)
    BY <1>1, <1>2 DEF Chain, v
  <2>8. QED
    BY <1>2, <2>6, <2>7, FS_CountingElements, FS_Subset
<1>5. l2[0] = hd
  BY <1>1, <1>2, <1>3
<1>6. ASSUME NEW i \in 0 .. q - 1 PROVE l2[i] \in v /\ nd2[l2[i]].next = l2[i + 1]
  <2>1. l2[i] = l[i] /\ nd[l[i]].next = l[i + 1]
    BY <1>1, <1>2, <1>3
  <2>2. CASE i = q - 1
    <3>1. i + 1 = q
      BY <1>2, <2>2
    <3>2. nd2[l[i]].next = NULL
      BY <2>2
    <3>3. QED
      BY <1>3, <2>1, <3>1, <3>2
  <2>3. CASE i # q - 1
    <3>1. i \in 0 .. q - 2 /\ i + 1 \in 0 .. q - 1
      BY <1>2, <2>3
    <3>2. l2[i + 1] = l[i + 1] /\ nd2[l[i]].next = nd[l[i]].next
      BY <1>3, <3>1
    <3>3. QED
      BY <2>1, <3>2
  <2>4. QED
    BY <2>2, <2>3
<1>7. ASSUME NEW a \in v PROVE \E i \in 0 .. q - 1 : l2[i] = a
  BY <1>3
<1>8. ASSUME NEW i \in 0 .. q - 1, NEW j \in 0 .. q - 1, l2[i] = l2[j] PROVE i = j
  BY <1>1, <1>2, <1>3, <1>8
<1>9. ASSUME NEW i \in 1 .. q - 1 PROVE nd2[l2[i - 1]].priority <= nd2[l2[i]].priority
  <2>1. i \in 0 .. q - 1 /\ i - 1 \in 0 .. q - 1 /\ i \in 1 .. n - 1
    BY <1>1, <1>2
  <2>2. l2[i] = l[i] /\ l2[i - 1] = l[i - 1]
    BY <1>3, <2>1
  <2>3. l[i] \in u /\ l[i - 1] \in u
    BY <1>1, <1>2, <2>1
  <2>4. QED
    BY <1>1, <2>1, <2>2, <2>3
<1> HIDE DEF v
<1>10. Chain(l2, q, hd, nd2, v)
  BY <1>2, <1>3, <1>4, <1>5, <1>6, <1>7, <1>8, <1>9 DEF Chain
<1>11. Chained(hd, nd2, v)
  BY <1>10 DEF Chained
<1>12. QED
  BY <1>11 DEF v

(* A node that comes q-th, the rest of the list behind it. *)
Inserts(l, n, hd, nd, u, mem, priority, q, hd2, nd2) ==
  /\ nd2[mem].priority = priority /\ nd2[mem].next = l[q]
  /\ q > 0 => nd2[l[q - 1]].next = mem /\ nd[l[q - 1]].priority <= priority
  /\ q < n => priority <= nd[l[q]].priority
  /\ \A i \in 0 .. n - 1 : i # q - 1 => nd2[l[i]].next = nd[l[i]].next
  /\ \A a \in u : nd2[a].priority = nd[a].priority
  /\ hd2 = IF q = 0 THEN mem ELSE hd

LEMMA ChainInsert ==
  ASSUME NEW l, NEW n, NEW hd, NEW nd, NEW u, Chain(l, n, hd, nd, u),
         NEW mem, mem \notin u, NEW priority \in Nat, NEW q \in 0 .. n, NEW hd2, NEW nd2,
         Inserts(l, n, hd, nd, u, mem, priority, q, hd2, nd2)
  PROVE  Chained(hd2, nd2, u \cup {mem})
<1> USE DEF Inserts
<1> DEFINE l2 == [i \in 0 .. n + 1 |-> IF i < q THEN l[i] ELSE IF i = q THEN mem ELSE l[i - 1]]
<1>1. /\ n \in Nat /\ IsFiniteSet(u) /\ n = Cardinality(u) /\ l[0] = hd /\ l[n] = NULL
      /\ \A i \in 0 .. n - 1 : l[i] \in u /\ nd[l[i]].next = l[i + 1]
      /\ \A a \in u : \E i \in 0 .. n - 1 : l[i] = a
      /\ \A i, j \in 0 .. n - 1 : l[i] = l[j] => i = j
      /\ \A i \in 1 .. n - 1 : nd[l[i - 1]].priority <= nd[l[i]].priority
  BY DEF Chain
<1>2. q \in Nat /\ q <= n /\ l2[q] = mem
  BY <1>1
<1>3. \A i \in 0 .. n + 1 : (i < q => l2[i] = l[i]) /\ (i > q => l2[i] = l[i - 1])
  BY <1>1, <1>2
<1> HIDE DEF l2
<1>4. IsFiniteSet(u \cup {mem}) /\ n + 1 = Cardinality(u \cup {mem})
  BY <1>1, FS_AddElement
<1>5. l2[0] = hd2 /\ l2[n + 1] = NULL
  BY <1>1, <1>2, <1>3
<1>6. ASSUME NEW i \in 0 .. n PROVE l2[i] \in u \cup {mem} /\ nd2[l2[i]].next = l2[i + 1]
  <2>1. CASE i < q
    <3>1. i \in 0 .. n - 1 /\ l2[i] = l[i] /\ l[i] \in u /\ nd[l[i]].next = l[i + 1]
      BY <1>1, <1>2, <1>3, <2>1
    <3>2. CASE i = q - 1
      BY <1>2, <2>1, <3>1, <3>2
    <3>3. CASE i # q - 1
      <4>1. i + 1 < q /\ l2[i + 1] = l[i + 1]
        BY <1>1, <1>2, <1>3, <2>1, <3>3
      <4>2. QED
        BY <3>1, <3>3, <4>1
    <3>4. QED
      BY <3>2, <3>3
  <2>2. CASE i = q
    <3>1. l2[q + 1] = l[q]
      BY <1>1, <1>2, <1>3
    <3>2. QED
      BY <1>2, <2>2, <3>1
  <2>3. CASE i > q
    <3> DEFINE j == i - 1
    <3>1. j \in 0 .. n - 1 /\ l2[i] = l[j] /\ l2[i + 1] = l[j + 1] /\ j # q - 1
      BY <1>1, <1>2, <1>3, <2>3
    <3> HIDE DEF j
    <3>2. l[j] \in u /\ nd[l[j]].next = l[j + 1] /\ nd2[l[j]].next = nd[l[j]].next
      BY <1>1, <3>1
    <3>3. QED
      BY <3>1, <3>2
  <2>4. QED
    BY <1>1, <1>2, <2>1, <2>2, <2>3
<1>7. ASSUME NEW a \in u \cup {mem} PROVE \E i \in 0 .. n : l2[i] = a
  <2>1. CASE a = mem
    BY <1>1, <1>2, <2>1
  <2>2. CASE a # mem
    <3>1. PICK i \in 0 .. n - 1 : l[i] = a
      BY <1>1, <2>2
    <3>2. CASE i < q
      BY <1>1, <1>3, <3>1, <3>2
    <3>3. CASE i >= q
      <4>1. i + 1 \in 0 .. n /\ i + 1 > q /\ i + 1 \in 0 .. n + 1 /\ (i + 1) - 1 = i
        BY <1>1, <1>2, <3>3
      <4>2. l2[i + 1] = l[(i + 1) - 1]
        BY <1>3, <4>1
      <4>3. QED
        BY <3>1, <4>1, <4>2
    <3>4. QED
      BY <1>2, <3>2, <3>3
  <2>3. QED
    BY <2>1, <2>2
<1>8. ASSUME NEW i \in 0 .. n
      PROVE  \/ i < q /\ l2[i] = l[i] /\ i \in 0 .. n - 1 /\ l2[i] \in u
             \/ i = q /\ l2[i] = mem
             \/ i > q /\ l2[i] = l[i - 1] /\ i - 1 \in 0 .. n - 1 /\ l2[i] \in u
  BY <1>1, <1>2, <1>3
<1>9. ASSUME NEW i \in 0 .. n, NEW j \in 0 .. n, l2[i] = l2[j] PROVE i = j
  BY <1>1, <1>2, <1>8, <1>9
<1>10. ASSUME NEW i \in 1 .. n PROVE nd2[l2[i - 1]].priority <= nd2[l2[i]].priority
  <2>1. nd2[mem].priority = priority /\ \A k \in 0 .. n - 1 : nd2[l[k]].priority = nd[l[k]].priority
    <3>1. nd2[mem].priority = priority
      OBVIOUS
    <3>2. \A k \in 0 .. n - 1 : nd2[l[k]].priority = nd[l[k]].priority
      <4>1. \A k \in 0 .. n - 1 : l[k] \in u
        BY <1>1
      <4>2. QED
        BY <4>1
    <3>3. QED
      BY <3>1, <3>2
  <2>2. CASE i < q
    <3>1. l2[i] = l[i] /\ l2[i - 1] = l[i - 1] /\ i \in 1 .. n - 1 /\ i - 1 \in 0 .. n - 1
      BY <1>1, <1>2, <1>3, <2>2
    <3>2. QED
      BY <1>1, <2>1, <3>1
  <2>3. CASE i = q
    <3>1. l2[i] = mem /\ l2[i - 1] = l[q - 1] /\ q > 0 /\ q - 1 \in 0 .. n - 1
      BY <1>1, <1>2, <1>3, <2>3
    <3>2. QED
      BY <2>1, <3>1
  <2>4. CASE i = q + 1
    <3>1. l2[i] = l[q] /\ l2[i - 1] = mem /\ q < n /\ q \in 0 .. n - 1
      BY <1>1, <1>2, <1>3, <2>4
    <3>2. QED
      BY <2>1, <3>1
  <2>5. CASE i > q + 1
    <3> DEFINE j == i - 1
    <3>1. l2[i] = l[j] /\ l2[j] = l[j - 1] /\ j \in 1 .. n - 1 /\ j - 1 \in 0 .. n - 1 /\ j \in 0 .. n - 1
      BY <1>1, <1>2, <1>3, <2>5
    <3>2. nd2[l2[j]].priority <= nd2[l2[i]].priority
      <4> HIDE DEF j
      <4>1. QED
        BY <1>1, <2>1, <3>1
    <3>3. QED
      BY <3>2
  <2>6. QED
    BY <1>2, <2>2, <2>3, <2>4, <2>5
<1>11. n + 1 \in Nat /\ 0 .. n + 1 - 1 = 0 .. n /\ 1 .. n + 1 - 1 = 1 .. n
  BY <1>1
<1>12. Chain(l2, n + 1, hd2, nd2, u \cup {mem})
  BY <1>4, <1>5, <1>6, <1>7, <1>9, <1>10, <1>11 DEF Chain
<1>13. QED
  BY <1>12 DEF Chained

(* The list without its first node. *)
LEMMA ChainRest ==
  ASSUME NEW l, NEW n, NEW hd, NEW nd, NEW u, Chain(l, n, hd, nd, u), hd \in u, NULL \notin u
  PROVE  Chained(nd[hd].next, nd, u \ {hd})
<1> DEFINE l2 == [i \in 0 .. n - 1 |-> l[i + 1]]
           m == n - 1
<1>1. /\ n \in Nat /\ IsFiniteSet(u) /\ n = Cardinality(u) /\ l[0] = hd /\ l[n] = NULL
      /\ \A i \in 0 .. n - 1 : l[i] \in u /\ nd[l[i]].next = l[i + 1]
      /\ \A a \in u : \E i \in 0 .. n - 1 : l[i] = a
      /\ \A i, j \in 0 .. n - 1 : l[i] = l[j] => i = j
      /\ \A i \in 1 .. n - 1 : nd[l[i - 1]].priority <= nd[l[i]].priority
  BY DEF Chain
<1>2. n # 0 /\ m \in Nat /\ n = m + 1
  BY <1>1
<1>3. \A i \in 0 .. m : l2[i] = l[i + 1]
  BY <1>1
<1> HIDE DEF l2, m
<1>4. IsFiniteSet(u \ {hd}) /\ Cardinality(u \ {hd}) = m
  <2>1. IsFiniteSet(u \ {hd}) /\ Cardinality(u \ {hd}) = IF hd \in u THEN Cardinality(u) - 1 ELSE Cardinality(u)
    BY <1>1, FS_RemoveElement
  <2>2. QED
    BY <1>1, <2>1 DEF m
<1>5. l2[0] = nd[hd].next /\ l2[m] = NULL
  BY <1>1, <1>2, <1>3
<1>6. ASSUME NEW i \in 0 .. m - 1 PROVE l2[i] \in u \ {hd} /\ nd[l2[i]].next = l2[i + 1]
  <2>1. l2[i] = l[i + 1] /\ l2[i + 1] = l[i + 1 + 1] /\ i + 1 \in 0 .. n - 1 /\ 0 \in 0 .. n - 1
    BY <1>2, <1>3
  <2>2. l[i + 1] # l[0]
    BY <1>1, <2>1
  <2>3. QED
    BY <1>1, <2>1, <2>2
<1>7. ASSUME NEW a \in u \ {hd} PROVE \E i \in 0 .. m - 1 : l2[i] = a
  <2>1. PICK i \in 0 .. n - 1 : l[i] = a
    BY <1>1
  <2>2. i # 0
    BY <1>1, <2>1
  <2>3. i - 1 \in 0 .. m - 1 /\ i - 1 \in 0 .. m /\ (i - 1) + 1 = i
    BY <1>2, <2>2
  <2>4. l2[i - 1] = l[(i - 1) + 1]
    BY <1>3, <2>3
  <2>5. QED
    BY <2>1, <2>3, <2>4
<1>8. ASSUME NEW i \in 0 .. m - 1, NEW j \in 0 .. m - 1, l2[i] = l2[j] PROVE i = j
  <2>1. i + 1 \in 0 .. n - 1 /\ j + 1 \in 0 .. n - 1 /\ l[i + 1] = l[j + 1]
    BY <1>2, <1>3, <1>8
  <2>2. i + 1 = j + 1
    BY <1>1, <2>1
  <2>3. QED
    BY <2>2
<1>9. ASSUME NEW i \in 1 .. m - 1 PROVE nd[l2[i - 1]].priority <= nd[l2[i]].priority
  <2>1. i + 1 \in 1 .. n - 1 /\ l2[i] = l[i + 1] /\ l2[i - 1] = l[i] /\ (i + 1) - 1 = i
    BY <1>2, <1>3
  <2>2. nd[l[(i + 1) - 1]].priority <= nd[l[i + 1]].priority
    BY <1>1, <2>1
  <2>3. QED
    BY <2>1, <2>2
<1>10. Chain(l2, m, nd[hd].next, nd, u \ {hd})
  BY <1>2, <1>4, <1>5, <1>6, <1>7, <1>8, <1>9 DEF Chain
<1>11. QED
  BY <1>10 DEF Chained

-----------------------------------------------------------------------------
(* The steps of the program. *)
LEMMA QueueFacts ==
  ASSUME HeapInv
  PROVE  /\ used \subseteq Int /\ NULL \notin used /\ IsFiniteSet(used)
         /\ \A mem \in Mems(next_index) : mem \in Int
<1>1. next_index \in 0 .. HEAP_SIZE
  BY DEF HeapInv
<1>2. used \subseteq Int /\ NULL \notin used /\ IsFiniteSet(used)
  BY HeapTyped, MallocAssumption
<1>3. \A b \in Blocks(next_index) : b \in Int
  BY <1>1, BlocksFacts
<1>4. \A mem \in Mems(next_index) : mem \in Int
  BY <1>3 DEF Mems, HEADER
<1>5. QED
  BY <1>2, <1>4

(* newNode, seen from a list of the nodes u: the heap is as it should be, and what was
   written through is not in the list. *)
NewNode(mem, u) ==
  /\ HeapInv' /\ mem \in Int /\ mem \notin u
  /\ IsFiniteSet(DOMAIN node \cup {mem}) /\ used' \subseteq DOMAIN node \cup {mem}
  /\ u \subseteq used' /\ u \subseteq DOMAIN node /\ NULL \notin u
  /\ mem # NULL => used' = used \cup {mem}

LEMMA NewNodeMade ==
  ASSUME QueueInv, BaseApart, NEW mem, new(mem), NEW u, Listed(u)
  PROVE  NewNode(mem, u)
<1>1. /\ HeapInv'
      /\ \/ mem = NULL /\ used' = used
         \/ mem \notin used /\ mem \in Mems(next_index') /\ mem # NULL /\ used' = used \cup {mem}
  BY NewKeepsHeap DEF QueueInv
<1>2. u \subseteq used /\ used \subseteq DOMAIN node /\ IsFiniteSet(DOMAIN node) /\ NULL \notin used
  BY QueueFacts DEF Listed, QueueInv, ListInv
<1>3. IsFiniteSet(DOMAIN node \cup {mem})
  BY <1>2, FS_AddElement
<1>4. mem \in Int
  <2>1. CASE mem = NULL
    BY <2>1 DEF NULL
  <2>2. CASE mem \in Mems(next_index')
    <3>1. PICK b \in Blocks(next_index') : mem = b + HEADER
      BY <2>2 DEF Mems
    <3>2. QED
      BY <3>1 DEF Blocks, HEADER
  <2>3. QED
    BY <1>1, <2>1, <2>2
<1>5. QED
  BY <1>1, <1>2, <1>3, <1>4 DEF NewNode

(* A node in front of the list, which may be empty. *)
LEMMA FrontKeeps ==
  ASSUME QueueInv, BaseApart, NEW priority \in Priorities, NEW mem, new(mem),
         head # NULL /\ head # mem => node[head].priority > priority,
         node' = Node(mem, priority, head), head' = mem
  PROVE  QueueInv'
<1>1. PICK u : Listed(u)
  BY DEF QueueInv, ListInv
<1>2. /\ HeapInv' /\ mem \in Int /\ mem \notin u
      /\ IsFiniteSet(DOMAIN node \cup {mem}) /\ used' \subseteq DOMAIN node \cup {mem}
      /\ u \subseteq used' /\ u \subseteq DOMAIN node /\ NULL \notin u
      /\ mem # NULL => used' = used \cup {mem}
  BY <1>1, NewNodeMade DEF NewNode
<1>3. priority \in Nat
  BY QueueAssumption
<1>4. /\ (\A a \in u : node[a] \in Nodes) /\ (NeverExhausted => u = used) /\ Chained(head, node, u)
  BY <1>1 DEF Listed
<1>5. /\ DOMAIN node' = DOMAIN node \cup {mem} /\ node'[mem] = [priority |-> priority, next |-> head]
      /\ \A a \in u : node'[a] = node[a]
  BY <1>2 DEF Node
<1>6. CASE mem = NULL
  <2>1. NULL \in DOMAIN node' /\ ~NeverExhausted'
    BY <1>5, <1>6 DEF NeverExhausted
  <2>2. Chained(head', node', {})
    BY <1>6, ChainEmpty
  <2>3. Listed({})'
    BY <2>1, <2>2 DEF Listed
  <2>4. QED
    BY <1>2, <1>5, <2>3 DEF QueueInv, ListInv
<1>7. CASE mem # NULL
  <2>1. PICK l, n : Chain(l, n, head, node, u)
    BY <1>4 DEF Chained
  <2>2. n \in Nat /\ l[0] = head /\ (n > 0 => l[0] \in u)
    BY <2>1 DEF Chain
  <2>3. head \in Int
    <3>1. CASE n = 0
      BY <2>1, <2>2, <3>1 DEF Chain, NULL
    <3>2. CASE n > 0
      BY <1>2, <2>2, <3>2, QueueFacts DEF Listed, QueueInv, HeapInv, Mems, Blocks, HEADER
    <3>3. QED
      BY <2>2, <3>1, <3>2
  <2>4. n > 0 => priority <= node[l[0]].priority
    <3> SUFFICES ASSUME n > 0 PROVE priority <= node[l[0]].priority
      OBVIOUS
    <3>1. head \in u /\ head # NULL /\ head # mem
      BY <1>2, <2>2
    <3>2. node[head] \in Nodes /\ node[head].priority > priority
      BY <1>4, <3>1
    <3>3. QED
      BY <1>3, <2>2, <3>2 DEF Nodes
  <2>5. Inserts(l, n, head, node, u, mem, priority, 0, head', node')
    <3>1. \A i \in 0 .. n - 1 : l[i] \in u
      BY <2>1 DEF Chain
    <3>2. QED
      BY <1>5, <2>2, <2>4, <3>1 DEF Inserts
  <2>6. Chained(head', node', u \cup {mem})
    BY <1>2, <1>3, <2>1, <2>2, <2>5, ChainInsert
  <2>7. \A a \in u \cup {mem} : node'[a] \in Nodes
    BY <1>3, <1>4, <1>5, <2>3 DEF Nodes
  <2>8. NeverExhausted' => u \cup {mem} = used'
    BY <1>2, <1>4, <1>5, <1>7 DEF NeverExhausted
  <2>9. u \cup {mem} \subseteq used'
    BY <1>2, <1>7
  <2>10. Listed(u \cup {mem})'
    BY <2>6, <2>7, <2>8, <2>9 DEF Listed
  <2>11. QED
    BY <1>2, <1>5, <2>10 DEF QueueInv, ListInv
<1>8. QED
  BY <1>6, <1>7

(* Where the search of push stops. *)
LEMMA StartStops ==
  ASSUME NEW nd, NEW l, NEW n, NEW u, Chain(l, n, head, nd, u), NULL \notin u,
         \A a \in u : nd[a] \in Nodes, head # NULL,
         IsFiniteSet(DOMAIN nd), u \subseteq DOMAIN nd,
         NEW priority \in Nat, ~(nd[head].priority > priority)
  PROVE  \E k \in 0 .. n - 1 :
           /\ Start(nd, priority) = l[k] /\ nd[l[k]].priority <= priority
           /\ k + 1 < n => priority <= nd[l[k + 1]].priority
<1>1. /\ n \in Nat /\ l[0] = head /\ l[n] = NULL /\ n = Cardinality(u)
      /\ \A i \in 0 .. n - 1 : l[i] \in u /\ nd[l[i]].next = l[i + 1]
  BY DEF Chain
<1>2. n # 0
  BY <1>1
<1>3. \A k \in 0 .. n : Walk(nd, head, k) = l[k]
  BY WalkChain
<1>4. \A i \in 0 .. n - 1 : nd[l[i]].priority \in Nat
  BY <1>1 DEF Nodes
<1> DEFINE stops(k) == Stops(nd, Walk(nd, head, k), priority)
           first(k) == (\A j \in 0 .. k - 1 : ~stops(j)) /\ stops(k)
           All == {k \in 0 .. n - 1 : stops(k)}
<1>5. \A i \in 0 .. n - 1 : stops(i) <=> (i = n - 1 \/ nd[l[i + 1]].priority >= priority)
  <2>1. ASSUME NEW i \in 0 .. n - 1
        PROVE  stops(i) <=> (i = n - 1 \/ nd[l[i + 1]].priority >= priority)
    <3>1. Walk(nd, head, i) = l[i] /\ nd[l[i]].next = l[i + 1]
      BY <1>1, <1>3
    <3>2. stops(i) <=> (l[i + 1] = NULL \/ nd[l[i + 1]].priority >= priority)
      BY <3>1 DEF Stops
    <3>3. CASE i = n - 1
      BY <1>1, <3>2, <3>3
    <3>4. CASE i # n - 1
      <4>1. i + 1 \in 0 .. n - 1
        BY <1>1, <3>4
      <4>2. l[i + 1] # NULL
        BY <1>1, <4>1
      <4>3. QED
        BY <3>2, <3>4, <4>2
    <3>5. QED
      BY <3>3, <3>4
  <2>2. QED
    BY <2>1
<1> HIDE DEF stops
<1>6. PICK k \in All : \A j \in All : k <= j
  <2>1. n - 1 \in All /\ All \subseteq Nat
    BY <1>1, <1>2, <1>5
  <2> HIDE DEF All
  <2>2. QED
    BY <2>1, LowestIn
<1>7. k \in 0 .. n - 1 /\ stops(k) /\ k \in Nat
  BY <1>1
<1>8. first(k)
  BY <1>1, <1>6, <1>7
<1>9. k \in Round(nd) /\ Round(nd) \subseteq Nat
  <2>1. Cardinality(u) <= Cardinality(DOMAIN nd) /\ Cardinality(DOMAIN nd) \in Nat
    BY FS_Subset, FS_CardinalityType
  <2>2. QED
    BY <1>1, <1>7, <2>1 DEF Round
<1>10. ASSUME NEW j \in Round(nd), first(j) PROVE j = k
  <2>1. j \in Nat
    BY <1>9
  <2>2. ~(j < k)
    BY <1>7, <1>8, <1>10, <2>1
  <2>3. ~(k < j)
    BY <1>7, <1>10, <2>1
  <2>4. QED
    BY <1>7, <2>1, <2>2, <2>3
<1>11. Start(nd, priority) = Walk(nd, head, CHOOSE j \in Round(nd) : first(j))
  BY DEF Start, stops
<1> HIDE DEF first
<1>12. Start(nd, priority) = l[k]
  <2>1. (CHOOSE j \in Round(nd) : first(j)) = k
    BY <1>8, <1>9, <1>10
  <2>2. Start(nd, priority) = Walk(nd, head, k)
    BY <1>11, <2>1
  <2>3. QED
    BY <1>1, <1>3, <1>7, <2>2
<1>13. k + 1 < n => priority <= nd[l[k + 1]].priority
  <2>1. k + 1 < n => k + 1 \in 0 .. n - 1 /\ k # n - 1
    BY <1>1, <1>7
  <2>2. QED
    BY <1>1, <1>4, <1>5, <1>7, <2>1
<1>14. nd[l[k]].priority <= priority
  <2>1. CASE k = 0
    BY <1>1, <1>4, <1>7, <2>1
  <2>2. CASE k # 0
    <3>1. k - 1 \in 0 .. n - 1 /\ (k - 1) + 1 = k /\ ~(k <= k - 1)
      BY <1>1, <1>7, <2>2
    <3>2. k - 1 \notin All
      BY <1>6, <3>1
    <3>3. ~(nd[l[(k - 1) + 1]].priority >= priority)
      BY <1>5, <3>1, <3>2
    <3>4. QED
      BY <1>4, <1>7, <3>1, <3>3
  <2>3. QED
    BY <2>1, <2>2
<1>15. QED
  BY <1>7, <1>12, <1>13, <1>14

(* What Link writes behind a node of the list. *)
Linked(f, mem, priority, at) ==
  /\ DOMAIN f = DOMAIN node \cup {mem}
  /\ f[mem] = [priority |-> priority, next |-> node[at].next]
  /\ f[at] = [node[at] EXCEPT !.next = mem]
  /\ \A a \in DOMAIN node : a # at /\ a # mem => f[a] = node[a]

LEMMA LinkMade ==
  ASSUME NEW mem, NEW priority, NEW at \in DOMAIN node, at # mem
  PROVE  Linked(Link(mem, priority, at), mem, priority, at)
<1>1. Node(mem, priority, NULL)[at].next = node[at].next
  BY DEF Node
<1> DEFINE g == Node(mem, priority, node[at].next)
<1>2. /\ DOMAIN g = DOMAIN node \cup {mem} /\ g[mem] = [priority |-> priority, next |-> node[at].next]
      /\ \A a \in DOMAIN node : a # mem => g[a] = node[a]
  BY DEF Node
<1>3. Link(mem, priority, at) = [g EXCEPT ![at].next = mem]
  BY <1>1 DEF Link
<1> DEFINE f == Link(mem, priority, at)
<1> HIDE DEF g, f
<1>4. f = [g EXCEPT ![at].next = mem]
  BY <1>3 DEF f
<1>5. Linked(f, mem, priority, at)
  BY <1>2, <1>4 DEF Linked
<1>6. QED
  BY <1>5 DEF f

(* push behind a node that the search has found. *)
LEMMA BehindKeeps ==
  ASSUME QueueInv, BaseApart, NEW priority \in Priorities, head # NULL, NEW mem, new(mem),
         ~(Node(mem, priority, NULL)[head].priority > priority),
         node' = Link(mem, priority, Start(Node(mem, priority, NULL), priority)), head' = head
  PROVE  QueueInv'
<1> DEFINE nd == Node(mem, priority, NULL)
<1>1. PICK u : Listed(u)
  BY DEF QueueInv, ListInv
<1>2. /\ HeapInv' /\ mem \in Int /\ mem \notin u
      /\ IsFiniteSet(DOMAIN node \cup {mem}) /\ used' \subseteq DOMAIN node \cup {mem}
      /\ u \subseteq used' /\ u \subseteq DOMAIN node /\ NULL \notin u
      /\ mem # NULL => used' = used \cup {mem}
  BY <1>1, NewNodeMade DEF NewNode
<1>3. priority \in Nat
  BY QueueAssumption
<1>4. /\ (\A a \in u : node[a] \in Nodes) /\ (NeverExhausted => u = used) /\ Chained(head, node, u)
  BY <1>1 DEF Listed
<1>5. /\ DOMAIN nd = DOMAIN node \cup {mem} /\ \A a \in u : nd[a] = node[a]
  BY <1>2 DEF Node
<1>6. PICK l, n : Chain(l, n, head, node, u)
  BY <1>4 DEF Chained
<1>7. /\ n \in Nat /\ l[0] = head /\ l[n] = NULL
      /\ \A i \in 0 .. n - 1 : l[i] \in u /\ node[l[i]].next = l[i + 1]
      /\ \A i, j \in 0 .. n - 1 : l[i] = l[j] => i = j
  BY <1>6 DEF Chain
<1> HIDE DEF nd
<1>8. PICK k \in 0 .. n - 1 :
        /\ Start(nd, priority) = l[k] /\ nd[l[k]].priority <= priority
        /\ k + 1 < n => priority <= nd[l[k + 1]].priority
  <2>1. Chain(l, n, head, nd, u)
    BY <1>5, <1>6, ChainSame
  <2>2. \A a \in u : nd[a] \in Nodes
    BY <1>4, <1>5
  <2>3. IsFiniteSet(DOMAIN nd) /\ u \subseteq DOMAIN nd /\ ~(nd[head].priority > priority)
    BY <1>2, <1>5 DEF nd
  <2>4. QED
    BY <1>2, <1>3, <2>1, <2>2, <2>3, StartStops
<1> DEFINE at == l[k]
           q == k + 1
<1>9. /\ at \in u /\ at # mem /\ node[at].next = l[q] /\ node[at].priority <= priority
      /\ q \in 1 .. n /\ q \in 0 .. n /\ q - 1 = k
      /\ q < n => priority <= node[l[q]].priority
  BY <1>2, <1>5, <1>7, <1>8
<1>10. \A i \in 0 .. n - 1 : i # k => l[i] # at
  BY <1>7, <1>8
<1>11. node' = Link(mem, priority, at)
  BY <1>8 DEF nd
<1> HIDE DEF at, q
<1>12. /\ DOMAIN node' = DOMAIN node \cup {mem}
       /\ node'[mem] = [priority |-> priority, next |-> l[q]]
       /\ node'[at] = [node[at] EXCEPT !.next = mem]
       /\ \A a \in u : a # at => node'[a] = node[a]
  <2>1. at \in DOMAIN node /\ at # mem
    BY <1>2, <1>9
  <2>2. Linked(Link(mem, priority, at), mem, priority, at)
    BY <2>1, LinkMade
  <2>3. Linked(node', mem, priority, at)
    BY <1>11, <2>2
  <2>4. QED
    BY <1>2, <1>9, <2>3 DEF Linked
<1>13. node[at] \in Nodes
  BY <1>4, <1>9
<1>14. node'[at] \in Nodes /\ node'[at].next = mem /\ node'[at].priority = node[at].priority
  BY <1>2, <1>12, <1>13 DEF Nodes
<1>15. \A a \in u : node'[a] \in Nodes /\ node'[a].priority = node[a].priority
  BY <1>4, <1>12, <1>14
<1>16. CASE mem = NULL
  <2> DEFINE v == {l[i] : i \in 0 .. q - 1}
  <2>1. NULL \in DOMAIN node' /\ ~NeverExhausted'
    BY <1>12, <1>16 DEF NeverExhausted
  <2>2. Chained(head', node', v)
    <3>1. node'[l[q - 1]].next = NULL
      BY <1>9, <1>14, <1>16 DEF at
    <3>2. \A i \in 0 .. q - 2 : node'[l[i]].next = node[l[i]].next
      <4>1. ASSUME NEW i \in 0 .. q - 2 PROVE node'[l[i]].next = node[l[i]].next
        <5>1. i \in 0 .. n - 1 /\ i # k
          BY <1>7, <1>9
        <5>2. l[i] \in u /\ l[i] # at
          BY <1>7, <1>10, <5>1
        <5>3. QED
          BY <1>12, <5>2
      <4>2. QED
        BY <4>1
    <3> HIDE DEF v
    <3>3. Chained(head, node', {l[i] : i \in 0 .. q - 1})
      BY <1>6, <1>9, <1>15, <3>1, <3>2, ChainCut
    <3>4. QED
      BY <3>3 DEF v
  <2>3. v \subseteq u
    BY <1>7, <1>9
  <2> HIDE DEF v
  <2>4. Listed(v)'
    BY <1>2, <1>15, <2>1, <2>2, <2>3 DEF Listed
  <2>5. QED
    BY <1>2, <1>12, <2>4 DEF QueueInv, ListInv
<1>17. CASE mem # NULL
  <2>1. Inserts(l, n, head, node, u, mem, priority, q, head', node')
    <3>1. node'[mem].priority = priority /\ node'[mem].next = l[q]
      BY <1>12
    <3>2. node'[l[q - 1]].next = mem /\ node[l[q - 1]].priority <= priority
      BY <1>9, <1>14 DEF at
    <3>3. \A i \in 0 .. n - 1 : i # q - 1 => node'[l[i]].next = node[l[i]].next
      BY <1>7, <1>9, <1>10, <1>12
    <3>4. head' = IF q = 0 THEN mem ELSE head
      BY <1>9
    <3>5. QED
      BY <1>9, <1>15, <3>1, <3>2, <3>3, <3>4 DEF Inserts
  <2>2. Chained(head', node', u \cup {mem})
    BY <1>2, <1>3, <1>6, <1>9, <2>1, ChainInsert
  <2>3. l[q] \in Int
    BY <1>9, <1>13 DEF Nodes
  <2>4. \A a \in u \cup {mem} : node'[a] \in Nodes
    <3>1. node'[mem] \in Nodes
      BY <1>3, <1>12, <2>3 DEF Nodes
    <3>2. QED
      BY <1>15, <3>1
  <2>5. NeverExhausted' => u \cup {mem} = used'
    BY <1>2, <1>4, <1>12, <1>17 DEF NeverExhausted
  <2>6. u \cup {mem} \subseteq used'
    BY <1>2, <1>17
  <2>7. Listed(u \cup {mem})'
    BY <2>2, <2>4, <2>5, <2>6 DEF Listed
  <2>8. QED
    BY <1>2, <1>12, <2>7 DEF QueueInv, ListInv
<1>18. QED
  BY <1>16, <1>17

(* push goes on at address 0: the list stays empty. *)
LEMMA ThroughNull ==
  ASSUME QueueInv, BaseApart, head = NULL, NULL \in DOMAIN node, NEW priority, NEW mem, new(mem),
         NEW at, node' = Link(mem, priority, at), head' = head
  PROVE  QueueInv'
<1>1. PICK u : Listed(u)
  BY DEF QueueInv, ListInv
<1>2. /\ HeapInv' /\ IsFiniteSet(DOMAIN node \cup {mem}) /\ used' \subseteq DOMAIN node \cup {mem}
  BY <1>1, NewNodeMade DEF NewNode
<1>3. DOMAIN node' = DOMAIN node \cup {mem}
  <2> DEFINE g == Node(mem, priority, Node(mem, priority, NULL)[at].next)
  <2>1. DOMAIN g = DOMAIN node \cup {mem}
    BY DEF Node
  <2>2. node' = [g EXCEPT ![at].next = mem]
    BY DEF Link
  <2> HIDE DEF g
  <2>3. QED
    BY <2>1, <2>2
<1>4. ~NeverExhausted'
  BY <1>3 DEF NeverExhausted
<1>5. Chained(head', node', {})
  BY ChainEmpty
<1>6. Listed({})'
  BY <1>4, <1>5 DEF Listed
<1>7. QED
  BY <1>2, <1>3, <1>6 DEF QueueInv, ListInv

LEMMA FirstKeeps ==
  ASSUME QueueInv, BaseApart, NEW priority \in Priorities, First(priority)
  PROVE  QueueInv'
<1>1. PICK mem : new(mem) /\ node' = Node(mem, priority, head) /\ head' = mem
  BY DEF First
<1>2. head = NULL
  BY DEF First
<1>3. QED
  BY <1>1, <1>2, FrontKeeps

LEMMA PushKeeps ==
  ASSUME QueueInv, BaseApart, NEW priority \in Priorities, push(priority)
  PROVE  QueueInv'
<1>1. PICK mem : /\ new(mem)
                 /\ IF Node(mem, priority, NULL)[head].priority > priority
                      THEN node' = Node(mem, priority, head) /\ head' = mem
                      ELSE /\ node' = Link(mem, priority, Start(Node(mem, priority, NULL), priority))
                           /\ head' = head
  BY DEF push
<1>2. head \in DOMAIN node
  BY DEF push
<1>3. CASE Node(mem, priority, NULL)[head].priority > priority
  <2>1. head # mem => node[head].priority > priority
    BY <1>2, <1>3 DEF Node
  <2>2. node' = Node(mem, priority, head) /\ head' = mem
    BY <1>1, <1>3
  <2>3. QED
    BY <1>1, <2>1, <2>2, FrontKeeps
<1>4. CASE ~(Node(mem, priority, NULL)[head].priority > priority)
  <2>1. node' = Link(mem, priority, Start(Node(mem, priority, NULL), priority)) /\ head' = head
    BY <1>1, <1>4
  <2>2. CASE head = NULL
    BY <1>1, <1>2, <2>1, <2>2, ThroughNull
  <2>3. CASE head # NULL
    BY <1>1, <1>4, <2>1, <2>3, BehindKeeps
  <2>4. QED
    BY <2>2, <2>3
<1>5. QED
  BY <1>3, <1>4

LEMMA PopKeeps ==
  ASSUME QueueInv, BaseApart, pop
  PROVE  QueueInv'
<1>1. /\ head # NULL /\ Becomes(tj_free(Heap, head))
      /\ head' = node[head].next /\ used' = used \ {head} /\ node' = node
  BY DEF pop
<1>2. PICK u : Listed(u)
  BY DEF QueueInv, ListInv
<1>3. /\ u \subseteq used /\ Chained(head, node, u) /\ (\A a \in u : node[a] \in Nodes)
      /\ (NeverExhausted => u = used) /\ NULL \notin u
  BY <1>2, QueueFacts DEF Listed, QueueInv
<1>4. PICK l, n : Chain(l, n, head, node, u)
  BY <1>3 DEF Chained
<1>5. head \in u
  <2>1. n \in Nat /\ l[0] = head /\ l[n] = NULL /\ \A i \in 0 .. n - 1 : l[i] \in u
    BY <1>4 DEF Chain
  <2>2. n # 0
    BY <1>1, <2>1
  <2>3. QED
    BY <2>1, <2>2
<1>6. HeapInv'
  BY <1>1, <1>3, <1>5, FreeKeepsHeap DEF QueueInv
<1>7. Chained(node[head].next, node, u \ {head})
  BY <1>3, <1>4, <1>5, ChainRest
<1>8. PICK v : v = u \ {head}
  OBVIOUS
<1>9. Listed(v)'
  <2>1. Chained(head', node', v)
    BY <1>1, <1>7, <1>8
  <2>2. v \subseteq used' /\ (NeverExhausted' => v = used')
    BY <1>1, <1>3, <1>8 DEF NeverExhausted
  <2>3. \A a \in v : node'[a] \in Nodes
    BY <1>1, <1>3, <1>8
  <2>4. QED
    BY <2>1, <2>2, <2>3 DEF Listed
<1>10. QED
  BY <1>1, <1>6, <1>9 DEF QueueInv, ListInv

LEMMA InitQueue == Init => QueueInv
<1> SUFFICES ASSUME Init PROVE QueueInv
  OBVIOUS
<1>1. /\ header = [x \in {} |-> 0] /\ freep = NULL /\ next_index = 0 /\ avail_mem = HEAP_SIZE
      /\ node = [x \in {} |-> 0] /\ head = NULL /\ used = {}
  BY DEF Init, mallocInit
<1>2. Mems(0) = {}
  BY DEF Mems, Blocks
<1>3. Cardinality({}) = 0 /\ IsFiniteSet({})
  BY FS_EmptySet
<1>4. HeapInv
  <2>1. Aligned(0) /\ 0 \in 0 .. HEAP_SIZE /\ HEAP_SIZE = HEAP_SIZE - 0 /\ 0 = (NODE + HEADER) * 0
    BY MallocAssumption DEF Aligned, HEADER, NODE
  <2>2. QED
    BY <1>1, <1>2, <1>3, <2>1 DEF HeapInv
<1>5. ListInv
  <2>1. Chained(head, node, {})
    BY <1>1, ChainEmpty
  <2>2. Listed({})
    BY <1>1, <2>1 DEF Listed
  <2>3. IsFiniteSet(DOMAIN node) /\ used \subseteq DOMAIN node
    BY <1>1, <1>3
  <2>4. QED
    BY <2>2, <2>3 DEF ListInv
<1>6. QED
  BY <1>4, <1>5 DEF QueueInv

(* The heap divides into nodes in use and free blocks, and the list is one of nodes in use
   in order of priorities, all of them as long as no push has met an exhausted heap: this
   is inductive, wherever `base` is apart from the blocks. *)
THEOREM QueueIndInv ==
  ASSUME BaseApart
  PROVE  Spec => []QueueInv
<1>1. Init => QueueInv
  BY InitQueue
<1>2. QueueInv /\ [Next]_vars => QueueInv'
  <2> SUFFICES ASSUME QueueInv, [Next]_vars PROVE QueueInv'
    OBVIOUS
  <2>1. ASSUME NEW p \in Priorities, First(p) PROVE QueueInv'
    BY <2>1, FirstKeeps
  <2>2. ASSUME NEW p \in Priorities, push(p) PROVE QueueInv'
    BY <2>2, PushKeeps
  <2>3. CASE pop
    BY <2>3, PopKeeps
  <2>4. CASE UNCHANGED vars
    <3>1. /\ header' = header /\ freep' = freep /\ next_index' = next_index /\ avail_mem' = avail_mem
          /\ node' = node /\ head' = head /\ used' = used
      BY <2>4 DEF vars, mallocVars
    <3>2. HeapInv'
      BY <3>1 DEF QueueInv, HeapInv
    <3>3. ListInv'
      BY <3>1 DEF QueueInv, ListInv, Listed, NeverExhausted
    <3>4. QED
      BY <3>2, <3>3 DEF QueueInv
  <2>5. QED
    BY <2>1, <2>2, <2>3, <2>4 DEF Next
<1>3. QED
  BY <1>1, <1>2, PTL DEF Spec

(* test_progs/tj_malloc.h: whatever pushes and pops the program makes, no block overlaps
   another or reaches out of the heap, none is lost, and the free list stays in order of
   addresses. *)
THEOREM HeapExactHolds ==
  ASSUME BaseApart
  PROVE  Spec => []HeapExact
<1>1. QueueInv => HeapExact
  <2> SUFFICES ASSUME QueueInv PROVE HeapExact
    OBVIOUS
  <2>1. TypeOK
    BY HeapTyped, ListOrdered DEF QueueInv, TypeOK
  <2>2. BlocksApart /\ NoneLost /\ FreeListSorted
    BY HeapApart, HeapSorted DEF QueueInv
  <2>3. QED
    BY <2>1, <2>2 DEF HeapExact
<1>2. Spec => []QueueInv
  BY QueueIndInv
<1>3. QED
  BY <1>1, <1>2, PTL

(* test_progs/priority_queue.c: however large the heap is, the list is in order of
   priorities and has no node twice.  Until newNode is first given NULL (27) it holds every
   node that was pushed and not popped; afterwards it may hold fewer, but no others. *)
THEOREM OrderedHolds ==
  ASSUME BaseApart
  PROVE  Spec => []Ordered
<1>1. QueueInv => Ordered
  BY ListOrdered
<1>2. Spec => []QueueInv
  BY QueueIndInv
<1>3. QED
  BY <1>1, <1>2, PTL
=============================================================================
