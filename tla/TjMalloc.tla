------------------------------ MODULE TjMalloc ------------------------------
(***************************************************************************)
(* The allocator of the test programs (test_progs/tj_malloc.h): a ring of  *)
(* free blocks in order of their addresses, and a heap that is carved up   *)
(* from below when no free block is large enough.                          *)
(*                                                                         *)
(* Addresses and sizes count words of four bytes.  A header takes two, and *)
(* a pointer to a header moves by eight bytes for every one that is added  *)
(* to it: `p + p->size` is 8 * size words away, since size counts bytes of *)
(* what is behind the header, not headers.                                 *)
(***************************************************************************)
EXTENDS Integers, Sequences, FiniteSetsExt

CONSTANTS
  HEAP_SIZE,   \* words of the heap, which begins at address 0
  BASE         \* where the linker has put the header `base`: below or above the heap

HEADER == 2
NULL   == -1
SCALE  == 8

ASSUME MallocAssumption ==
  HEAP_SIZE \in Nat /\ BASE \in Int /\ (BASE >= HEAP_SIZE \/ BASE + HEADER <= NULL)

VARIABLES
  header,      \* header[a]: the header at address a, as far as one was written
  freep,       \* start of the free list, or NULL
  next_index,  \* the next place to be carved off the heap
  avail_mem    \* what is left of it

mallocVars == <<header, freep, next_index, avail_mem>>

(* The allocator's state as one value, which its routines hand on. *)
State(h, f, n, a) == [header |-> h, freep |-> f, next_index |-> n, avail_mem |-> a]

Heap == State(header, freep, next_index, avail_mem)

Put(h, a, next, size) == [x \in DOMAIN h \cup {a} |-> IF x = a THEN [next |-> next, size |-> size] ELSE h[x]]

(* The list node k steps behind p. *)
Walk(h, p, k) ==
  LET node[j \in 0 .. k] == IF j = 0 THEN p ELSE h[node[j - 1]].next IN node[k]

(* Steps that are enough to go round the list once. *)
Round(h) == 0 .. Cardinality(DOMAIN h)

-----------------------------------------------------------------------------
(* tj_free: the block goes between the neighbours its address lies between, and is
   joined with one that begins where it seems to end. *)

Between(h, p, bp) ==
  LET q == h[p].next
  IN  (bp > p /\ bp < q) \/ (p >= q /\ (bp > p \/ bp < q))

(* Mutant: the block is put behind the head of the list, wherever it lies. *)
Lower_head(s, bp) == s.freep

Lower(s, bp) ==
  LET behind == {k \in Round(s.header) : Between(s.header, Walk(s.header, s.freep, k), bp)}
  IN  Walk(s.header, s.freep, Min(behind))

tj_free(s, mem) ==
  LET bp   == mem - HEADER
      p    == Lower(s, bp)
      up   == s.header[p].next
      size == s.header[bp].size
      joined_up == bp + SCALE * size = up
      h1   == IF joined_up
                THEN Put(s.header, bp, s.header[up].next, size + s.header[up].size)
                ELSE Put(s.header, bp, up, size)
      low  == h1[p].size
      h2   == IF p + SCALE * low = bp
                THEN Put(h1, p, h1[bp].next, low + h1[bp].size)
                ELSE Put(h1, p, bp, low)
  IN  [s EXCEPT !.header = h2, !.freep = p]

(* getmoremem: a block is carved off the heap and freed. *)
getmoremem(s, total) ==
  LET h == Put(s.header, s.next_index, NULL, total - HEADER)
  IN  tj_free(State(h, s.freep, s.next_index + total, s.avail_mem - total),
              s.next_index + HEADER)

(* The empty list the first call begins with. *)
Started(s) ==
  IF s.freep = NULL THEN [s EXCEPT !.header = Put(s.header, BASE, BASE, 0), !.freep = BASE] ELSE s

Fits(s, size) == {k \in Round(s.header) \ {0} : s.header[Walk(s.header, s.freep, k)].size >= size}

(* The first block from the head of the list that is large enough: all of it, or a piece
   broken off its end. *)
Take(s, size) ==
  LET k     == Min(Fits(s, size))
      prevp == Walk(s.header, s.freep, k - 1)
      p     == Walk(s.header, s.freep, k)
      left  == s.header[p].size - (size + HEADER)
      piece == p + SCALE * left
  IN  IF s.header[p].size = size
        THEN [s |-> [s EXCEPT !.header[prevp].next = s.header[p].next, !.freep = prevp],
              mem |-> p + HEADER]
        ELSE [s |-> [s EXCEPT !.header = Put([s.header EXCEPT ![p].size = left], piece,
                                             IF piece \in DOMAIN s.header
                                               THEN s.header[piece].next ELSE NULL, size),
                              !.freep = prevp],
              mem |-> piece + HEADER]

(* tj_malloc: after getmoremem a second round finds the block that was carved off; NULL
   when the heap is used up. *)
tj_malloc(s0, size) ==
  LET s == Started(s0)
  IN  IF size > HEAP_SIZE THEN [s |-> s0, mem |-> NULL]
      ELSE IF Fits(s, size) # {} THEN Take(s, size)
      ELSE IF s.avail_mem < size + HEADER THEN [s |-> s, mem |-> NULL]
      ELSE Take(getmoremem(s, size + HEADER), size)

-----------------------------------------------------------------------------
mallocInit ==
  /\ header = [x \in {} |-> 0] /\ freep = NULL /\ next_index = 0 /\ avail_mem = HEAP_SIZE

Becomes(s) ==
  /\ header' = s.header /\ freep' = s.freep
  /\ next_index' = s.next_index /\ avail_mem' = s.avail_mem

(* The words of a block, its header with it. *)
Words(mem, size) == mem - HEADER .. mem + size - 1

(* The free blocks: the nodes of the list but for the base. *)
FreeBlocks ==
  IF freep = NULL THEN {} ELSE {Walk(header, freep, k) : k \in Round(header)} \ {BASE}
=============================================================================
