---------------------------- MODULE MCFunctions ----------------------------
(***************************************************************************)
(* The functions of Decode, MultProduct, MemAccess and Programs on bounded *)
(* inputs: an input is chosen, its answer is computed in one step.         *)
(***************************************************************************)
EXTENDS Decode, MultProduct, MemAccess, Programs

VARIABLES
  input,      \* the arguments; their field kind says of which functions
  answer      \* what the functions return, or NotYet

vars == <<input, answer>>

NotYet == [none |-> TRUE]

(* Words: every opcode the sources name and one they do not, the registers and parts of
   immediates that are all zeros, all ones, or tell one bit from another. *)
Words ==
  [kind : {"word"}, opcode : {55, 23, 111, 103, 99, 3, 35, 19, 51, 15, 115, 7},
   rd : {0, 1, 18, 31}, funct3 : 0 .. 7, rs1 : {0, 1, 31}, rs2 : {0, 1, 5, 18},
   funct7 : {0, 1, 8, 32, 42, 64, 127}]

Factors == [kind : {"factors"}, f : Functions, mcand : Registers, mplier : Registers]

Arrays == [kind : {"array"}, arr : UNION {[0 .. n - 1 -> 1 .. 4] : n \in 1 .. 5}]

(* The edges in the order they are added. *)
Edges  == <<<<0, 1>>, <<0, 2>>, <<1, 2>>, <<1, 4>>, <<1, 3>>, <<2, 4>>, <<3, 4>>, <<0, 3>>,
            <<0, 4>>, <<2, 3>>>>
Graphs == [kind : {"graph"}, edges : SUBSET Range(Edges)]

Matrices ==
  [kind : {"matrix"}, A : [0 .. 1 -> [0 .. 1 -> {0, 1}]], B : [0 .. 1 -> [0 .. 1 -> 0 .. 2]]]

Bytes == [kind : {"bytes"}, x : {0, 1, 3, 4, 16, 23, 85, 254, 255}, y : 0 .. 31]

(* Two stores and a load; mem.sv asserts that addresses are multiples of the size. *)
Aligned(sizes) == {a \in sizes \X (0 .. 7) : a[2] % Width(a[1]) = 0}
Accesses == [kind : {"access"}, first : Aligned(0 .. 2), second : Aligned(0 .. 2),
             load : Aligned({0, 1, 2, 4, 5})]

(* The board and moves of backtrack.c, larger boards, and other moves, so that there are tours. *)
Steps  == <<<<1, 0>>, <<0, 1>>, <<-1, 0>>, <<0, -1>>, <<1, 1>>, <<-1, -1>>>>
Boards == [kind : {"board"}, N : 1 .. 4, moves : {KnightMoves}]
            \union [kind : {"board"}, N : {3},
                    moves : {SelectSeq(Steps, LAMBDA m : m \in S) : S \in SUBSET Range(Steps)}]

(* A layer is linear up to its activation: one pixel of one channel tells all its windows. *)
Images == [kind : {"image"}, pixel : (0 .. 1) \X (0 .. 2) \X (0 .. 2), value : {-1, 1, 2},
           stride : 1 .. 2, zero_pad : 0 .. 1, af_num : 0 .. 2]

(* The shift register before an iteration of alexnet.c; 0xACE1 is its first value. *)
Seeds == [kind : {"seed"}, lfsr : {44257, 1, 65535}]

Init == /\ input \in Boards \union Images \union Seeds
                  \union Accesses \union Words \union Factors \union Arrays \union Graphs \union Matrices \union Bytes
        /\ answer = NotYet

Compute(kind, value) ==
  input.kind = kind /\ answer = NotYet /\ answer' = value /\ UNCHANGED input

w == [field \in DOMAIN input \ {"kind"} |-> input[field]]

ReadWord ==
  /\ input.kind = "word"
  /\ LET op == decode(w)
     IN  Compute("word",
           [named |-> named(w), illegal |-> illegal(w), op |-> op, printed |-> print_stage(w),
            imm |-> analyze(w),
            again |-> IF op = I THEN w ELSE encode(op, select(op), w, analyze(w))])

Multiply == /\ input.kind = "factors"
            /\ Compute("factors", [product |-> product(input.f, input.mcand, input.mplier)])

n == Cardinality(DOMAIN input.arr)

Sort ==
  /\ input.kind = "array"
  /\ LET a == input.arr
         sorted == bubble(a, n)
     IN  Compute("array",
           [sorts |-> {insertion(a, n), sorted, quickSort(a, 0, n - 1), mergeSort(a, 0, n - 1),
                       bubbleSort(a, n)},
            found |-> [x \in 0 .. 5 |-> binarySearch(sorted, 0, n - 1, x)]])

Walk ==
  /\ input.kind = "graph"
  /\ LET edges == SelectSeq(Edges, LAMBDA e : e \in input.edges)
         adj   == FoldLeft(LAMBDA m, e : addEdge(m, e[1], e[2]), {}, edges)
     IN  Compute("graph", [breadth |-> {breadthFirstSearch(5, adj), bfs(5, edges, 5)},
                           deep |-> depthFirstSearch(5, adj)])

Product ==
  /\ input.kind = "matrix"
  /\ Compute("matrix", [C |-> multiplyMatrix(2, 2, input.A, 2, 2, input.B),
                        result |-> kernel(2, input.A, input.B)])

Transform == /\ input.kind = "bytes"
             /\ Compute("bytes", [result |-> mult(input.x, input.y)])

OldBlock  == [b \in 0 .. 7 |-> b]
FirstReg  == [i \in 0 .. 3 |-> 10 + 60 * i]
SecondReg == [i \in 0 .. 3 |-> 253 - 60 * i]

Access ==
  /\ input.kind = "access"
  /\ LET block == stored(stored(OldBlock, input.first[1], input.first[2], FirstReg),
                         input.second[1], input.second[2], SecondReg)
     IN  Compute("access", [result |-> mem_result_out(input.load[1],
                              loaded_data(block, input.load[1], input.load[2]))])

Tour == /\ input.kind = "board"
        /\ Compute("board", solveKT(input.N, input.moves))

Pixels == [i \in 0 .. 1 |-> [y \in 0 .. 2 |-> [x \in 0 .. 2 |->
             IF input.pixel = <<i, y, x>> THEN input.value ELSE 0]]]
Weights  == [o \in 0 .. 1 |-> [i \in 0 .. 1 |-> [y \in 0 .. 1 |-> [x \in 0 .. 1 |->
               8 * o + 4 * i + 2 * y + x - 6]]]]
Biasses  == [o \in 0 .. 1 |-> 3 * o - 1]

Convolve ==
  /\ input.kind = "image"
  /\ LET layer == cnn_layer(Weights, Biasses, Pixels,
                    [input_channel |-> 2, output_channel |-> 2, input_size |-> 3,
                     kernel_size |-> 2, stride |-> input.stride, zero_pad |-> input.zero_pad],
                    input.af_num)
         dots  == [j \in 0 .. 8 |-> Pixels[input.pixel[1]][j \div 3][j % 3]]
         rows  == [i \in 0 .. 2 |-> [j \in 0 .. 8 |-> i * j - 5]]
         full  == fc_layer(rows, [i \in 0 .. 2 |-> i], dots, 9, 3, input.af_num)
     IN  Compute("image",
           [layer |-> layer, full |-> full, class |-> fc_soft_max(full, 3),
            dot |-> fc_forward(9, rows[1], dots, 1),
            pools |-> [pool_num \in 0 .. 1 |-> cnn_pool(Pixels, 2, 3, 2, input.stride, 0, pool_num)]])

Iterate == /\ input.kind = "seed"
           /\ Compute("seed", alexnet(input.lfsr))

Next == Tour \/ Convolve \/ Iterate \/ Access \/ ReadWord \/ Multiply \/ Sort \/ Walk \/ Product \/ Transform

Spec == Init /\ [][Next]_vars

Is(kind) == input.kind = kind /\ answer # NotYet

-----------------------------------------------------------------------------
(* The debugger and the processor take a word for the same instruction.  The debugger
   knows no CSR instructions, and does not look at all of a JALR or a WFI. *)
SameInstruction ==
  Is("word") =>
    /\ Cardinality(answer.named) <= 1
    /\ \A name \in answer.named : answer.op = IF name \in Csr THEN I ELSE name
    /\ w = WFI => answer.op = "WFI"
    /\ answer.illegal => answer.op = I \/ (answer.op = "JALR" /\ w.funct3 # 0)
                                       \/ (answer.op = "WFI" /\ (w.rd # 0 \/ w.rs1 # 0))

(* The debugger puts the immediate of a legal word together as the processor does; of a
   shift the processor only uses five bits. *)
SameImmediate ==
  Is("word") => \A name \in answer.named :
    opb_select(name) # "RS2" =>
      answer.imm = IF name \in {"SLLI", "SRLI", "SRAI"} THEN immediate(w, name) % 32
                   ELSE immediate(w, name)

(* Encoding what was decoded gives the word back, but for a jump, which is given the
   immediate of another format, and a store with a negative offset. *)
RoundTrip ==
  Is("word") => \A name \in answer.named \ (Csr \union {"JAL"}) :
    (name \in Stores => answer.imm >= 0) => answer.again = w

(* The name in the pipeline's printout is that of the instruction, and of one only; the
   printer does not look at all of a JALR or a WFI either. *)
PrinterAgrees ==
  Is("word") =>
    /\ \A name \in answer.named : answer.printed = IF w = NOOP_INST THEN "NOP" ELSE name
    /\ w = WFI => answer.printed = "WFI"
    /\ answer.illegal => \/ answer.printed \notin DOMAIN Patterns \union {"WFI"}
                         \/ answer.printed = "JALR" /\ w.funct3 # 0
                         \/ answer.printed = "WFI" /\ (w.rd # 0 \/ w.rs1 # 0)

(* id_stage.sv, riscv_inst.h and pipe_print.c hold the same instruction set, and the encoder
   undoes the decoder. *)
DecodersAgree == SameInstruction /\ SameImmediate /\ RoundTrip /\ PrinterAgrees

(* The stages of the multiplier give the product of the signed or unsigned operands.
   MULHSU does not: its operands are extended the wrong way round. *)
ProductsRight ==
  Is("factors") =>
    LET value(x, signed) == IF signed /\ x >= 2^(XLEN - 1) THEN x - 2^XLEN ELSE x
        p == value(input.mcand, input.f # "MULHU") * value(input.mplier, input.f # "MULHU")
    IN  CASE input.f = "MUL" -> answer.product = p % 2^XLEN
          [] input.f \in {"MULH", "MULHU"} -> answer.product = (p \div 2^XLEN) % 2^XLEN
          [] OTHER -> TRUE

(* mem.sv and mem_stage.sv: whatever the sizes of the accesses, each byte loaded is the one
   that the latest store over its address put there. *)
BytesLoaded ==
  Is("access") => \A i \in 0 .. Width(input.load[1]) - 1 :
    LET addr == input.load[2] + i
        covers(s) == addr - s[2] \in 0 .. Width(s[1]) - 1
    IN  answer.result[i] = IF covers(input.second) THEN SecondReg[addr - input.second[2]]
                           ELSE IF covers(input.first) THEN FirstReg[addr - input.first[2]]
                           ELSE OldBlock[addr]

(* All five sorts give the sorted permutation of the array. *)
Sorts ==
  Is("array") => \E a \in answer.sorts :
    /\ answer.sorts = {a}
    /\ \A i \in 1 .. n - 1 : a[i - 1] <= a[i]
    /\ \A x \in 1 .. 4 : Cardinality({i \in 0 .. n - 1 : a[i] = x})
                           = Cardinality({i \in 0 .. n - 1 : input.arr[i] = x})

(* A binary search finds a place of the value, or -1 only if it has none. *)
Finds ==
  Is("array") => \A x \in 0 .. 5 :
    IF \E i \in DOMAIN input.arr : input.arr[i] = x
    THEN \A a \in answer.sorts : answer.found[x] \in DOMAIN a /\ a[answer.found[x]] = x
    ELSE answer.found[x] = -1

Joined(u, v) == <<u, v>> \in input.edges \/ <<v, u>> \in input.edges

(* Vertices no further than k from vertex 0. *)
RECURSIVE Within(_)
Within(k) == IF k = 0 THEN {0}
             ELSE Within(k - 1) \union {v \in 0 .. 4 : \E u \in Within(k - 1) : Joined(u, v)}

(* Both searches visit the vertices that can be reached, each once, so that the array of the
   queue is never overrun, and none before one that is nearer. *)
BreadthFirst ==
  Is("graph") => \A order \in answer.breadth :
    /\ Range(order) = Within(4) /\ Len(order) = Cardinality(Within(4))
    /\ \A i, j \in DOMAIN order : \A k \in 0 .. 4 :
         i < j /\ order[j] \in Within(k) => order[i] \in Within(k)

(* The depth first search visits them each once, goes on from the latest vertex that has
   unvisited neighbours, and its stack holds as many as there are vertices. *)
DepthFirst ==
  Is("graph") =>
    LET order == answer.deep.order
        new(i, k) == {v \in 0 .. 4 : Joined(order[i], v) /\ v \notin {order[j] : j \in 1 .. k}}
    IN  /\ Range(order) = Within(4) /\ Len(order) = Cardinality(Within(4))
        /\ \A k \in 1 .. Len(order) - 1 : \E i \in 1 .. k :
             order[k + 1] \in new(i, k) /\ \A j \in i + 1 .. k : new(j, k) = {}
        /\ answer.deep.depth <= 5

(* The sets of k squares a tour from the corner can have visited, with the latest. *)
RECURSIVE Visited(_)
Visited(k) ==
  IF k = 1 THEN {<<{<<0, 0>>}, <<0, 0>>>>}
  ELSE UNION {{<<v[1] \union {to}, to>> :
                 to \in {<<v[2][1] + m[1], v[2][2] + m[2]>> : m \in Range(input.moves)}
                         \ (v[1] \union {sq \in (-2 .. 5) \X (-2 .. 5) :
                                        ~({sq[1], sq[2]} \subseteq 0 .. input.N - 1)})} :
              v \in Visited(k - 1)}

(* Backtracking finds a tour if there is one, and it numbers the squares along it; if there
   is none, every square but the first is free again. *)
Backtracks ==
  Is("board") =>
    LET N == input.N
        squares == (0 .. N - 1) \X (0 .. N - 1)
        at(k) == {sq \in squares : answer.sol[sq[1]][sq[2]] = k}
    IN  /\ answer.found <=> Visited(N * N) # {}
        /\ answer.found =>
             \A k \in 1 .. N * N - 1 : \E from \in at(k - 1), to \in at(k) :
               <<to[1] - from[1], to[2] - from[2]>> \in Range(input.moves)
        /\ ~answer.found => at(-1) = squares \ {<<0, 0>>} /\ at(0) = {<<0, 0>>}

(* The sorting and searching programs, on arrays, on graphs and on boards. *)
SearchesRight == Sorts /\ Finds /\ BreadthFirst /\ DepthFirst /\ Backtracks

(* The recursion over static indices and the sum of outer products are matrix products. *)
MatrixProducts ==
  Is("matrix") => \A C \in {answer.C, answer.result} : \A i, j \in 0 .. 1 :
    C[i][j] = input.A[i][0] * input.B[0][j] + input.A[i][1] * input.B[1][j]

(* Multiplying polynomials by transforms multiplies the bytes modulo 17. *)
TransformMultiplies == Is("bytes") => answer.result = (input.x * input.y) % 17

(* A pixel reaches the outputs whose window it lies in, by the weight at its place in the
   window, and the padding none; a pool takes the largest of its window; the largest of
   equal features is the first. *)
LayersRight ==
  Is("image") =>
    LET act(x) == IF input.af_num < 2 /\ x < 0 THEN 0 ELSE x
        i == input.pixel[1]
        at(d, r) == input.pixel[d] - input.stride * r + input.zero_pad
        place == 3 * input.pixel[2] + input.pixel[3]
        class == answer.class
    IN  /\ \A o \in 0 .. 1 : \A r, c \in DOMAIN answer.layer[o] :
             answer.layer[o][r][c] =
               act(Biasses[o] + IF {at(2, r), at(3, c)} \subseteq 0 .. 1
                                THEN input.value * Weights[o][i][at(2, r)][at(3, c)] ELSE 0)
        /\ \A k \in 0 .. 2 : answer.full[k] = act(k + input.value * (k * place - 5))
        /\ answer.dot = 1 + input.value * (place - 5)
        /\ \A k \in 0 .. 2 : answer.full[k] <= answer.full[class]
                             /\ (k < class => answer.full[k] < answer.full[class])
        /\ \A ch \in 0 .. 1 : \A r, c \in DOMAIN answer.pools[0][ch] :
             LET window == [y, x \in 0 .. 1 |->
                              Pixels[ch][input.stride * r + y][input.stride * c + x]]
             IN  /\ \E y, x \in 0 .. 1 : answer.pools[0][ch][r][c] = window[y, x]
                 /\ \A y, x \in 0 .. 1 : window[y, x] <= answer.pools[0][ch][r][c]
                 /\ answer.pools[1][ch][r][c] =
                      window[0, 0] + window[0, 1] + window[1, 0] + window[1, 1] - 4

(* alexnet.c: the shift register never runs empty, all that its layers read was written
   before, and the features are the largest outputs of each channel. *)
NetworkRuns ==
  Is("seed") =>
    /\ answer.lfsr \in 1 .. 65535
    /\ \A ch \in 0 .. 4 :
         LET found == {answer.cnn_outputs[ch][r][c] : r, c \in DOMAIN answer.cnn_outputs[ch]}
         IN  answer.features[ch] \in found /\ \A x \in found : x <= answer.features[ch]
    /\ \A i \in 0 .. 4 : answer.fc_outputs[i] >= 0

(* The programs that multiply: matrices, bytes by way of the transform, and layers. *)
ProgramsMultiply == MatrixProducts /\ TransformMultiplies /\ LayersRight /\ NetworkRuns
=============================================================================
