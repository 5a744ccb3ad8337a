------------------------------ MODULE Programs ------------------------------
(***************************************************************************)
(* The algorithms of the C programs the processor is run on (test_progs):  *)
(* sorting, searching, walks, products, a neural network.  An array is a   *)
(* function from 0; a loop is a fold, a recursive function stays one.      *)
(***************************************************************************)
EXTENDS Integers, SequencesExt, Bitwise

(* for (k = from; k < to; k++) *)
For(from, to, start, body(_, _)) == FoldLeft(body, start, [k \in 1 .. to - from |-> from + k - 1])

Swap(a, i, j) == [a EXCEPT ![i] = a[j], ![j] = a[i]]

-----------------------------------------------------------------------------
(* insertionsort.c: despite its name it selects the smallest of the rest. *)
insertion(arr, size) ==
  LET smallest(a, i) ==
        For(i + 1, size, [idx |-> i, min |-> a[i]],
            LAMBDA m, j : IF a[j] < m.min THEN [idx |-> j, min |-> a[j]] ELSE m)
  IN  For(0, size - 1, arr, LAMBDA a, i : Swap(a, i, smallest(a, i).idx))

(* sort_search.c *)
bubble(arr, size) ==
  For(0, size - 1, arr, LAMBDA a, i :
      For(i + 1, size, a, LAMBDA b, j : IF b[j] < b[i] THEN Swap(b, i, j) ELSE b))

(* Mutant: the upper half leaves out its first place. *)
RECURSIVE binarySearch_skip(_, _, _, _)
binarySearch_skip(arr, l, r, x) ==
  LET mid == l + (r - l) \div 2
  IN  IF r < l THEN -1
      ELSE IF arr[mid] = x THEN mid
      ELSE IF arr[mid] > x THEN binarySearch_skip(arr, l, mid - 1, x)
      ELSE binarySearch_skip(arr, mid + 2, r, x)

RECURSIVE binarySearch(_, _, _, _)
binarySearch(arr, l, r, x) ==
  LET mid == l + (r - l) \div 2
  IN  IF r < l THEN -1
      ELSE IF arr[mid] = x THEN mid
      ELSE IF arr[mid] > x THEN binarySearch(arr, l, mid - 1, x)
      ELSE binarySearch(arr, mid + 1, r, x)

(* quicksort.c: the pivot is the last element; what is not greater goes in front of it. *)
partition(arr, low, high) ==
  LET s == For(low, high, [a |-> arr, i |-> low - 1], LAMBDA t, j :
               IF t.a[j] <= arr[high] THEN [a |-> Swap(t.a, t.i + 1, j), i |-> t.i + 1] ELSE t)
  IN  [a |-> Swap(s.a, s.i + 1, high), pi |-> s.i + 1]

RECURSIVE quickSort(_, _, _)
quickSort(arr, low, high) ==
  IF low >= high THEN arr
  ELSE LET p == partition(arr, low, high)
       IN  quickSort(quickSort(p.a, low, p.pi - 1), p.pi + 1, high)

(* mergesort.c: the two halves, L from i and R from j on, merged into arr from k on. *)
RECURSIVE Merged(_, _, _, _, _, _, _, _)
Merged(arr, L, R, n1, n2, i, j, k) ==
  IF i < n1 /\ (j = n2 \/ L[i] <= R[j])
  THEN Merged([arr EXCEPT ![k] = L[i]], L, R, n1, n2, i + 1, j, k + 1)
  ELSE IF j < n2 THEN Merged([arr EXCEPT ![k] = R[j]], L, R, n1, n2, i, j + 1, k + 1)
  ELSE arr

merge(arr, l, m, r) ==
  LET n1 == m - l + 1
      n2 == r - m
  IN  Merged(arr, [i \in 0 .. n1 - 1 |-> arr[l + i]], [j \in 0 .. n2 - 1 |-> arr[m + 1 + j]],
             n1, n2, 0, 0, l)

RECURSIVE mergeSort(_, _, _)
mergeSort(arr, l, r) ==
  IF l >= r THEN arr
  ELSE LET m == l + (r - l) \div 2
       IN  merge(mergeSort(mergeSort(arr, l, m), m + 1, r), l, m, r)

(* graph.c: insertAtTheBegin, one value after another, then bubbleSort of the list up to
   lptr, which comes nearer each time round. *)
linked(arr, size) == [i \in 0 .. size - 1 |-> arr[size - 1 - i]]

RECURSIVE Bubbles(_, _)
Bubbles(list, lptr) ==
  LET s == For(0, lptr - 1, [list |-> list, swapped |-> FALSE], LAMBDA t, p :
               IF t.list[p] > t.list[p + 1]
               THEN [list |-> Swap(t.list, p, p + 1), swapped |-> TRUE] ELSE t)
  IN  IF s.swapped THEN Bubbles(s.list, lptr - 1) ELSE s.list

bubbleSort(arr, size) == IF size = 0 THEN arr ELSE Bubbles(linked(arr, size), size)

-----------------------------------------------------------------------------
(* Walks from vertex 0.  A graph is its number of vertices and its adjacency matrix, as the
   set of pairs whose entry is 1; order is the list of vertices in the order visited. *)
addEdge(adj, start, end) == adj \union {<<start, end>>, <<end, start>>}

getAdjUnvisitedVertex(n, adj, visited, v) ==
  LET found == {i \in 0 .. n - 1 : <<v, i>> \in adj /\ i \notin visited}
  IN  IF found = {} THEN -1 ELSE CHOOSE i \in found : \A k \in found : i <= k

(* bfs.c: the queue is an array that is never used twice; order is all of it, and front
   the next place to be read.  Inner loop: one vertex's unvisited neighbours. *)
RECURSIVE Insert(_, _, _, _)
Insert(n, adj, v, order) ==
  LET u == getAdjUnvisitedVertex(n, adj, Range(order), v)
  IN  IF u = -1 THEN order ELSE Insert(n, adj, v, Append(order, u))

RECURSIVE Breadth(_, _, _, _)
Breadth(n, adj, order, front) ==
  IF front > Len(order) THEN order
  ELSE Breadth(n, adj, Insert(n, adj, order[front], order), front + 1)

breadthFirstSearch(n, adj) == Breadth(n, adj, <<0>>, 1)

(* graph.c: adjacency lists, newest edge first, and a queue that starts again from its
   first place whenever it runs empty.  What does not fit is dropped. *)
adjLists(n, edges) ==
  [v \in 0 .. n - 1 |->
     FoldLeft(LAMBDA list, e : IF e[1] = v THEN <<e[2]>> \o list
                               ELSE IF e[2] = v THEN <<e[1]>> \o list ELSE list, <<>>, edges)]

enqueue(q, value, limit) ==
  IF q.rear = limit - 1 THEN q
  ELSE [items |-> [q.items EXCEPT ![q.rear + 1] = value],
        front |-> IF q.front = -1 THEN 0 ELSE q.front, rear |-> q.rear + 1]

dequeue(q) ==
  IF q.front + 1 > q.rear THEN [q EXCEPT !.front = -1, !.rear = -1]
  ELSE [q EXCEPT !.front = @ + 1]

RECURSIVE Bfs(_, _, _, _, _)
Bfs(lists, q, visited, order, limit) ==
  IF q.rear = -1 THEN order
  ELSE LET v == q.items[q.front]
           s == FoldLeft(LAMBDA t, u :
                           IF u \in t.visited THEN t
                           ELSE [q |-> enqueue(t.q, u, limit), visited |-> t.visited \union {u}],
                         [q |-> dequeue(q), visited |-> visited], lists[v])
       IN  Bfs(lists, s.q, s.visited, Append(order, v), limit)

bfs(n, edges, limit) ==
  LET empty == [items |-> [i \in 0 .. limit - 1 |-> -1], front |-> -1, rear |-> -1]
  IN  Bfs(adjLists(n, edges), enqueue(empty, 0, limit), {0}, <<>>, limit)

(* graph.c: depth first, with a stack; depth is the most it held. *)
RECURSIVE Deep(_, _, _, _, _)
Deep(n, adj, stack, order, depth) ==
  IF stack = <<>> THEN [order |-> order, depth |-> depth]
  ELSE LET u == getAdjUnvisitedVertex(n, adj, Range(order), Last(stack))
       IN  IF u = -1 THEN Deep(n, adj, Front(stack), order, depth)
           ELSE Deep(n, adj, Append(stack, u), Append(order, u),
                     IF Len(stack) + 1 > depth THEN Len(stack) + 1 ELSE depth)

depthFirstSearch(n, adj) == Deep(n, adj, <<0>>, <<0>>, 1)

-----------------------------------------------------------------------------
(* Products. *)

(* matrix_mult_rec.c: i, j and k are static, so that what a call has moved on stays moved
   on for all the calls that wait below it. *)
RECURSIVE multiplyMatrixRec(_, _, _)
multiplyMatrixRec(A, B, s) ==
  IF s.i >= s.row1 THEN s
  ELSE LET product == IF s.k < s.col1
                      THEN multiplyMatrixRec(A, B,
                             [s EXCEPT !.C[s.i][s.j] = @ + A[s.i][s.k] * B[s.k][s.j],
                                       !.k = @ + 1])
                      ELSE s
           column  == IF s.j < s.col2
                      THEN multiplyMatrixRec(A, B, [product EXCEPT !.k = 0, !.j = @ + 1])
                      ELSE s
       IN  multiplyMatrixRec(A, B, [column EXCEPT !.j = 0, !.i = @ + 1])

(* Matrices that do not fit are not multiplied. *)
multiplyMatrix(row1, col1, A, row2, col2, B) ==
  LET zero == [i \in 0 .. row1 - 1 |-> [j \in 0 .. col2 - 1 |-> 0]]
  IN  IF row2 # col1 THEN <<>>
      ELSE multiplyMatrixRec(A, B, [i |-> 0, j |-> 0, k |-> 0, row1 |-> row1, col1 |-> col1,
                                    col2 |-> col2, C |-> zero]).C

(* Mutant: the outer products are added up along the wrong index. *)
kernel_index(n, a, b) ==
  LET partial == [i, j, k \in 0 .. n - 1 |-> a[j][i] * b[i][k]]
  IN  [i \in 0 .. n - 1 |-> [j \in 0 .. n - 1 |->
         For(0, n, 0, LAMBDA sum, k : sum + partial[i, k, j])]]

(* outer_product.c *)
kernel(n, a, b) ==
  LET partial == [i, j, k \in 0 .. n - 1 |-> a[j][i] * b[i][k]]
  IN  [i \in 0 .. n - 1 |-> [j \in 0 .. n - 1 |->
         For(0, n, 0, LAMBDA sum, k : sum + partial[k, i, j])]]

(* dft.c: arithmetic modulo 17, in which 2 is a root of unity of order 8. *)
modulo_m(x) == x % 17

RECURSIVE dft(_, _, _)
dft(a, len, root) ==
  IF root = 1 THEN a
  ELSE LET half == len \div 2
           x == dft([i \in 0 .. half - 1 |-> a[2 * i]], half, modulo_m(root * root))
           y == dft([i \in 0 .. half - 1 |-> a[2 * i + 1]], half, modulo_m(root * root))
           base == [i \in 0 .. half - 1 |-> For(0, i, 1, LAMBDA p, k : modulo_m(p * root))]
       IN  [i \in 0 .. len - 1 |->
              IF i < half THEN modulo_m(x[i] + base[i] * y[i])
              ELSE modulo_m(x[i - half] - base[i - half] * y[i - half])]

to_poly(x) == [i \in 0 .. 7 |-> (x \div 2^i) % 2]

mult(x, y) ==
  LET a == dft(to_poly(x), 8, 2)
      b == dft(to_poly(y), 8, 2)
      c == dft([i \in 0 .. 7 |-> modulo_m(a[i] * b[i])], 8, 9)
  IN  For(0, 8, 0, LAMBDA sum, i : modulo_m(sum + modulo_m(2^i) * modulo_m(c[i] * 15)))

-----------------------------------------------------------------------------
(* backtrack.c: the knight's tour of an N by N board.  sol is the number of each square on
   the tour, or -1. *)
isSafe(N, x, y, sol) == x \in 0 .. N - 1 /\ y \in 0 .. N - 1 /\ sol[x][y] = -1

(* From square x, y the moves from the k-th on are tried. *)
RECURSIVE solveKTUtil(_, _, _, _, _, _, _)
solveKTUtil(N, x, y, movei, sol, moves, k) ==
  LET next_x == x + moves[k][1]
      next_y == y + moves[k][2]
      safe == isSafe(N, next_x, next_y, sol)
      r == solveKTUtil(N, next_x, next_y, movei + 1,
                       [sol EXCEPT ![next_x][next_y] = movei], moves, 1)
  IN  IF movei = N * N THEN [found |-> TRUE, sol |-> sol]
      ELSE IF k > Len(moves) THEN [found |-> FALSE, sol |-> sol]
      ELSE IF safe /\ r.found THEN r
      ELSE solveKTUtil(N, x, y, movei,
                       IF safe THEN [r.sol EXCEPT ![next_x][next_y] = -1] ELSE sol, moves, k + 1)

KnightMoves == <<<<2, 1>>, <<1, 2>>, <<-1, 2>>, <<-2, 1>>, <<-2, -1>>, <<-1, -2>>, <<1, -2>>, <<2, -1>>>>

solveKT(N, moves) ==
  solveKTUtil(N, 0, 0, 1,
    [x \in 0 .. N - 1 |-> [y \in 0 .. N - 1 |-> IF x = 0 /\ y = 0 THEN 0 ELSE -1]], moves, 1)

-----------------------------------------------------------------------------
(* alexnet.c.  Its random numbers come from a shift register; a generator fills its arrays
   in the order of its loops with the next count of them. *)
random_gen(lfsr) == IF lfsr % 2 = 1 THEN (lfsr \div 2) ^^ 46080 ELSE lfsr \div 2

draw[lfsr \in 0 .. 65535, count \in 1 .. 125] ==
  IF count = 1
  THEN LET next == random_gen(lfsr) IN [lfsr |-> next, drawn |-> <<(next % 16) - 5>>]
  ELSE LET some == draw[lfsr, count \div 2]
           rest == draw[some.lfsr, count - count \div 2]
       IN  [lfsr |-> rest.lfsr, drawn |-> some.drawn \o rest.drawn]

relu_af(x) == IF x < 0 THEN 0 ELSE x

activated(af_num, x) == IF af_num \in {0, 1} THEN relu_af(x) ELSE x

fc_layer(weights, biasses, inputs, input_num, output_num, af_num) ==
  [i \in 0 .. output_num - 1 |->
     activated(af_num, For(0, input_num, biasses[i], LAMBDA sum, j : sum + weights[i][j] * inputs[j]))]

fc_soft_max(features, feature_num) ==
  For(1, feature_num, 0, LAMBDA max, i : IF features[max] < features[i] THEN i ELSE max)

(* The stride is a number of bits to shift by here, and a factor where inputs are read. *)
output_size(input_size, kernel_size, stride, zero_pad) ==
  (input_size + 2 * zero_pad - kernel_size) \div 2^stride + 1

(* g holds the numbers of channels, the sizes, the stride and the padding. *)
cnn_layer(weights, biasses, inputs, g, af_num) ==
  LET out == 0 .. output_size(g.input_size, g.kernel_size, g.stride, g.zero_pad) - 1
      padded(i, y, x) == IF {y, x} \subseteq 0 .. g.input_size - 1 THEN inputs[i][y][x] ELSE 0
  IN  [o \in 0 .. g.output_channel - 1 |-> [r \in out |-> [c \in out |-> activated(af_num,
         For(0, g.input_channel, biasses[o], LAMBDA s, i :
           For(0, g.kernel_size, s, LAMBDA t, kr :
             For(0, g.kernel_size, t, LAMBDA u, kc :
               u + padded(i, g.stride * r + kr - g.zero_pad, g.stride * c + kc - g.zero_pad)
                     * weights[o][i][kr][kc]))))]]]

(* The largest of each window (pool_num 0), or its sum less the window's size (1). *)
cnn_pool(inputs, feature_channel, input_size, kernel_size, stride, zero_pad, pool_num) ==
  LET out == 0 .. output_size(input_size, kernel_size, stride, zero_pad) - 1
      pooled(old, new) == IF pool_num = 1 THEN old + new ELSE IF old < new THEN new ELSE old
  IN  [ch \in 0 .. feature_channel - 1 |-> [r \in out |-> [c \in out |->
         For(0, kernel_size, IF pool_num = 0 THEN inputs[ch][stride * r][stride * c] ELSE 0,
           LAMBDA s, kr : For(0, kernel_size, s, LAMBDA t, kc :
             pooled(t, inputs[ch][stride * r + kr][stride * c + kc])))
         - (IF pool_num = 1 THEN kernel_size * kernel_size ELSE 0)]]]

cnn_to_fc(feature, channels, size) ==
  [k \in 0 .. channels * size * size - 1 |->
     feature[k \div (size * size)][(k \div size) % size][k % size]]

cnn_input_generator(drawn, channels, size) ==
  [i \in 0 .. channels - 1 |-> [r \in 0 .. size - 1 |-> [c \in 0 .. size - 1 |->
     drawn[(i * size + r) * size + c + 1]]]]

(* For each output its bias, then its weights. *)
cnn_weight_generator(drawn, input_channel, output_channel, size) ==
  LET first(o) == 1 + o * (1 + input_channel * size * size)
  IN  [biasses |-> [o \in 0 .. output_channel - 1 |-> drawn[first(o)]],
       weights |-> [o \in 0 .. output_channel - 1 |-> [i \in 0 .. input_channel - 1 |->
                      [r \in 0 .. size - 1 |-> [c \in 0 .. size - 1 |->
                         drawn[first(o) + 1 + (i * size + r) * size + c]]]]]]

fc_weight_generator(drawn, input_num, output_num) ==
  LET first(i) == 1 + i * (1 + input_num)
  IN  [biasses |-> [i \in 0 .. output_num - 1 |-> drawn[first(i)]],
       weights |-> [i \in 0 .. output_num - 1 |-> [j \in 0 .. input_num - 1 |->
                      drawn[first(i) + 1 + j]]]]

(* One iteration of main.  What the convolution found is in features, where the generator
   of inputs for the next layer overwrites it. *)
alexnet(lfsr) ==
  LET image    == draw[lfsr, 125]
      kernels  == draw[image.lfsr, 105]
      features == draw[kernels.lfsr, 5]
      full     == draw[features.lfsr, 30]
      k == cnn_weight_generator(kernels.drawn, 5, 5, 2)
      f == fc_weight_generator(full.drawn, 5, 5)
      outputs == cnn_layer(k.weights, k.biasses, cnn_input_generator(image.drawn, 5, 5),
                           [input_channel |-> 5, output_channel |-> 5, input_size |-> 5,
                            kernel_size |-> 2, stride |-> 1, zero_pad |-> 0], 2)
  IN  [lfsr |-> full.lfsr, cnn_outputs |-> outputs,
       features |-> cnn_to_fc(cnn_pool(outputs, 5, 4, 2, 2, 0, 0), 5, 1),
       fc_outputs |-> fc_layer(f.weights, f.biasses, [j \in 0 .. 4 |-> features.drawn[j + 1]],
                               5, 5, 0)]

(* fc_forward.c *)
fc_forward(n, vec_a, vec_b, b) == For(0, n, 0, LAMBDA dot, i : dot + vec_a[i] * vec_b[i]) + b
=============================================================================
