--------------------------- MODULE PriorityQueue ---------------------------
(***************************************************************************)
(* The priority queue of test_progs/priority_queue.c: a list of nodes that *)
(* come from tj_malloc and go back to it.                                  *)
(***************************************************************************)
EXTENDS TjMalloc

CONSTANTS
  Priorities   \* priorities of the nodes; lower values go first

ASSUME QueueAssumption == Priorities \subseteq Nat /\ HEAP_SIZE >= 5

VARIABLES
  node,        \* node[a]: the node at address a: [priority, next], as far as one was written
  head,        \* the first node, or NULL
  used         \* the nodes the program holds: pushed and not popped

vars == <<mallocVars, node, head, used>>

(* A node: data, priority and next. *)
NODE == 3

(* newNode writes through whatever tj_malloc returns.  When the heap is used up that is
   NULL: node[NULL] is then what stands at address 0, which is no part of the heap. *)
Node(mem, priority, next) ==
  [a \in DOMAIN node \cup {mem} |->
     IF a = mem THEN [priority |-> priority, next |-> next] ELSE node[a]]

new(mem) ==
  /\ tj_malloc(Heap, NODE).mem = mem
  /\ Becomes(tj_malloc(Heap, NODE).s)
  /\ used' = used \cup ({mem} \ {NULL})

Memory == {NULL} \cup 0 .. 2 * HEAP_SIZE

Init == mallocInit /\ node = [x \in {} |-> 0] /\ head = NULL /\ used = {}

(* The first node of a queue is made by newNode. *)
First(priority) ==
  /\ head = NULL
  /\ \E mem \in Memory : new(mem) /\ node' = Node(mem, priority, NULL) /\ head' = mem

(* Mutant: the search stops one node late. *)
Stops_late(nd, a, priority) == nd[a].next = NULL \/ nd[a].priority >= priority

(* The search of push goes on from a as long as the next node goes before the new one. *)
Stops(nd, a, priority) == nd[a].next = NULL \/ nd[nd[a].next].priority >= priority

Start(nd, priority) ==
  Walk(nd, head, CHOOSE k \in Round(nd) :
                   /\ \A j \in 0 .. k - 1 : ~Stops(nd, Walk(nd, head, j), priority)
                   /\ Stops(nd, Walk(nd, head, k), priority))

(* temp->next = start->next; start->next = temp. *)
Link(mem, priority, start) ==
  [Node(mem, priority, Node(mem, priority, NULL)[start].next) EXCEPT ![start].next = mem]

(* push: before the head if the head comes later, otherwise behind the last node that goes
   before it, the head always being one.  A queue that is empty is not pushed to; but a
   program that has lost its head to NULL does not know, and goes on at address 0. *)
push(priority) ==
  /\ head \in DOMAIN node
  /\ \E mem \in Memory :
       LET nd == Node(mem, priority, NULL)
       IN  /\ new(mem)
           /\ IF nd[head].priority > priority
                THEN node' = Node(mem, priority, head) /\ head' = mem
                ELSE node' = Link(mem, priority, Start(nd, priority)) /\ UNCHANGED head

(* pop: the head goes back to the allocator. *)
pop ==
  /\ head # NULL
  /\ Becomes(tj_free(Heap, head))
  /\ head' = node[head].next /\ used' = used \ {head} /\ UNCHANGED node

Next == (\E p \in Priorities : First(p) \/ push(p)) \/ pop

Spec == Init /\ [][Next]_vars

-----------------------------------------------------------------------------
(* Properties. *)

(* The node k steps behind the head. *)
At(k) == Walk(node, head, k)

(* The nodes from the head on. *)
Length == IF head = NULL THEN 0
          ELSE CHOOSE n \in 1 .. Cardinality(used) + 1 :
                 At(n) = NULL /\ \A j \in 0 .. n - 1 : At(j) # NULL

TypeOK ==
  /\ freep \in {NULL, BASE} \cup 0 .. HEAP_SIZE - 1
  /\ next_index \in 0 .. HEAP_SIZE /\ avail_mem = HEAP_SIZE - next_index
  /\ used \subseteq 0 .. HEAP_SIZE - 1 /\ head \in used \cup {NULL}

(* No two blocks overlap, be they in use or free, and none reaches out of the heap: a
   node that is written to damages neither another node nor the free list. *)
BlocksApart ==
  LET blocks   == used \cup {b + HEADER : b \in FreeBlocks}
      words(m) == Words(m, header[m - HEADER].size)
  IN  /\ \A m \in blocks : words(m) \subseteq 0 .. next_index - 1
      /\ \A m \in blocks : \A n \in blocks \ {m} : words(m) \cap words(n) = {}
      /\ used \cap {b + HEADER : b \in FreeBlocks} = {}

(* Nothing is lost: what was carved off the heap is in use or free. *)
NoneLost ==
  next_index = (NODE + HEADER) * Cardinality(used \cup {b + HEADER : b \in FreeBlocks})

(* Nothing has yet been written through NULL: every push has got its memory. *)
NeverExhausted == NULL \notin DOMAIN node

(* However pushes and pops alternate, the priorities of the list never fall and no node is
   in it twice.  It holds every node that was pushed and not popped as long as the heap has
   lasted; from the first push on that it has not, it may hold fewer, for newNode's NULL
   then ends the list where the new node belongs (priority_queue.c:26-29, 60-79). *)
Ordered ==
  LET list == {At(k) : k \in 0 .. Length - 1}
  IN  /\ list \subseteq used /\ Length = Cardinality(list)
      /\ NeverExhausted => list = used
      /\ \A k \in 1 .. Length - 1 : node[At(k - 1)].priority <= node[At(k)].priority

(* The free list is in order of addresses, but for one place where it turns back. *)
FreeListSorted ==
  freep # NULL =>
    Cardinality({a \in FreeBlocks \cup {BASE} : header[a].next <= a}) = 1

(* tj_malloc.h: the heap is divided into the blocks in use and those of the free list,
   which come in the order that freeing searches them by. *)
HeapExact == TypeOK /\ BlocksApart /\ NoneLost /\ FreeListSorted
=============================================================================
