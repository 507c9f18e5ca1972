----------------------------- MODULE BlockedFW -----------------------------
(***************************************************************************)
(* hw3/hw3.cc: all pairs shortest paths by blocks.  The matrix is cut into *)
(* num_blocks x num_blocks blocks.  Round k relaxes the pivot block (k, k) *)
(* on its own, then, each with an OpenMP loop, the other blocks of row k,  *)
(* of column k, and the rest.                                              *)
(*                                                                         *)
(* relax() goes over a row four cells at a time and then one at a time;    *)
(* here a step is one pass k of relax_block over the whole block.  Within  *)
(* a pass row k and column k do not change, since no weight is negative.   *)
(***************************************************************************)
EXTENDS FloydWarshall, Sequences

CONSTANTS Inputs,      \* the input files: vertex_num and a set of edges <<src, dst, weight>>
          BlockSize,   \* block_size before init_block fits it to the graph
          ThreadNum,   \* threads of an OpenMP team
          DISINF,      \* the distance without a path
          MaxWeight

\* hw3/sample/validator.cc: what an input file may hold.
ASSUME InputAssumption ==
  \A f \in Inputs :
    /\ f.n \in Nat \ {0, 1}
    /\ \A e \in f.edges : /\ e[1] \in 0..(f.n - 1) /\ e[2] \in 0..(f.n - 1)
                          /\ e[1] # e[2] /\ e[3] \in 0..MaxWeight
    /\ \A e, g \in f.edges : e[1] = g[1] /\ e[2] = g[2] => e = g
    /\ (f.n - 1) * MaxWeight < DISINF
ASSUME SizesAssumption ==
  /\ BlockSize \in Nat \ {0} /\ ThreadNum \in Nat \ {0}
  /\ DISINF \in Nat /\ MaxWeight \in Nat

Threads == 0..(ThreadNum - 1)
Main == 0

VARIABLES
  file,    \* the input file
  graph,   \* the matrix, shared by the threads
  k,       \* the round
  phase,
  todo,    \* for each thread, the blocks it has still to relax in this phase
  pass     \* for each thread, how many passes over the first of them are done

vars == <<file, graph, k, phase, todo, pass>>

vertex_num == file.n

-----------------------------------------------------------------------------
(* The input.                                                              *)

\* A plausible slip: an edge of weight 0 is not marked before the zeros of the
\* empty matrix are turned into DISINF.
MutantMatrix(f) ==
  LET weight == [c \in Cells(f.n) |->
        IF \E e \in f.edges : e[1] = c[1] /\ e[2] = c[2]
        THEN (CHOOSE e \in f.edges : e[1] = c[1] /\ e[2] = c[2])[3] ELSE 0]
  IN [c \in Cells(f.n) |-> IF weight[c] = 0 /\ c[1] # c[2] THEN DISINF ELSE weight[c]]

\* A plausible slip: the marks stay in the matrix.
MutantMarks(f) ==
  LET marked == [c \in Cells(f.n) |->
        IF \E e \in f.edges : e[1] = c[1] /\ e[2] = c[2]
        THEN LET e == CHOOSE e \in f.edges : e[1] = c[1] /\ e[2] = c[2]
             IN IF e[3] = 0 THEN -1 ELSE e[3]
        ELSE 0]
  IN [c \in Cells(f.n) |-> IF marked[c] = 0 /\ c[1] # c[2] THEN DISINF ELSE marked[c]]

\* graph_malloc and omp_buf2graph: the matrix is 0, edges of weight 0 are
\* marked, then the zeros off the diagonal become DISINF and the marks 0.
omp_buf2graph(f) ==
  LET EDGE0REMARK == -1
      marked == [c \in Cells(f.n) |->
        IF \E e \in f.edges : e[1] = c[1] /\ e[2] = c[2]
        THEN LET e == CHOOSE e \in f.edges : e[1] = c[1] /\ e[2] = c[2]
             IN IF e[3] = 0 THEN EDGE0REMARK ELSE e[3]
        ELSE 0]
  IN [c \in Cells(f.n) |->
        IF marked[c] = 0 /\ c[1] # c[2] THEN DISINF
        ELSE IF marked[c] = EDGE0REMARK THEN 0 ELSE marked[c]]

-----------------------------------------------------------------------------
(* Blocks.                                                                 *)

\* init_block
block_size == Lesser(BlockSize, vertex_num)

num_blocks ==
  vertex_num \div block_size + (IF vertex_num % block_size > 0 THEN 1 ELSE 0)

\* get_block_pos and get_block_size in one dimension
BlockPos(b) == block_size * b
BlockDim(b) ==
  LET quo == vertex_num \div block_size IN
  IF b < quo THEN block_size
  ELSE IF b = num_blocks - 1 THEN vertex_num % block_size ELSE 0
Span(b) == BlockPos(b)..(BlockPos(b) + BlockDim(b) - 1)

-----------------------------------------------------------------------------
(* The loops of block_floyd_warshall.                                      *)

\* The blocks that the loop of a phase runs over, in its order
Loop(p, r) ==
  CASE p = "row"  -> [i \in 1..num_blocks |-> <<r, i - 1>>]
    [] p = "col"  -> [i \in 1..num_blocks |-> <<i - 1, r>>]
    [] p = "rest" -> [i \in 1..(num_blocks * num_blocks) |->
                        <<(i - 1) \div num_blocks, (i - 1) % num_blocks>>]

\* The blocks that the loop's body does not continue past
Relaxes(p, r, b) ==
  CASE p = "row"  -> b[2] # r
    [] p = "col"  -> b[1] # r
    [] p = "rest" -> b[1] # r /\ b[2] # r

\* schedule(static): the t-th of ThreadNum nearly equal pieces
StaticChunk(s, t) ==
  LET q == Len(s) \div ThreadNum  r == Len(s) % ThreadNum
      first == q * t + Lesser(t, r)
  IN SubSeq(s, first + 1, first + q + (IF t < r THEN 1 ELSE 0))

\* A plausible slip: the column is left to the last loop, which runs over it
\* anyhow.
MutantShare(p, r, t) ==
  IF p = "col" THEN <<>>
  ELSE IF p = "rest"
  THEN SelectSeq(StaticChunk(Loop(p, r), t), LAMBDA b : b[1] # r)
  ELSE SelectSeq(StaticChunk(Loop(p, r), t), LAMBDA b : Relaxes(p, r, b))

\* The blocks of its piece that a thread does not continue past
Share(p, r, t) ==
  LET piece == StaticChunk(Loop(p, r), t)
      Kept[i \in 0..Len(piece)] ==
        IF i = 0 THEN <<>>
        ELSE IF Relaxes(p, r, piece[i]) THEN Append(Kept[i - 1], piece[i]) ELSE Kept[i - 1]
  IN Kept[Len(piece)]

Init ==
  /\ file \in Inputs
  /\ graph = omp_buf2graph(file)
  /\ k = 0
  /\ phase = "pivot"
  /\ todo = [t \in Threads |-> IF t = Main THEN <<<<0, 0>>>> ELSE <<>>]
  /\ pass = [t \in Threads |-> 0]

\* The next pass of relax_block on the first block that is left to the thread.
Pass(t) ==
  /\ todo[t] # <<>>
  /\ LET b == Head(todo[t])
         last == pass[t] + 1 = BlockDim(k)
     IN /\ graph' = Relax(graph, Span(b[1]) \X Span(b[2]), BlockPos(k) + pass[t])
        /\ pass' = [pass EXCEPT ![t] = IF last THEN 0 ELSE @ + 1]
        /\ todo' = [todo EXCEPT ![t] = IF last THEN Tail(@) ELSE @]
  /\ UNCHANGED <<file, k, phase>>

After == [pivot |-> "row", row |-> "col", col |-> "rest"]

\* The implicit barrier at the end of a parallel loop, and the start of the
\* next: nobody goes on before all are there.
Barrier ==
  /\ phase \in DOMAIN After
  /\ \A t \in Threads : todo[t] = <<>>
  /\ phase' = After[phase]
  /\ todo' = [t \in Threads |-> Share(After[phase], k, t)]
  /\ UNCHANGED <<file, graph, k, pass>>

\* A plausible slip: the last parallel loop has a nowait.
MutantNextRound ==
  /\ phase = "rest"
  /\ todo[Main] = <<>>
  /\ k' = k + 1
  /\ IF k + 1 < num_blocks
     THEN phase' = "pivot" /\ todo' = [todo EXCEPT ![Main] = <<<<k + 1, k + 1>>>>]
     ELSE phase' = "done" /\ UNCHANGED todo
  /\ UNCHANGED <<file, graph, pass>>

\* The last barrier of a round
NextRound ==
  /\ phase = "rest"
  /\ \A t \in Threads : todo[t] = <<>>
  /\ k' = k + 1
  /\ IF k + 1 < num_blocks
     THEN phase' = "pivot" /\ todo' = [todo EXCEPT ![Main] = <<<<k + 1, k + 1>>>>]
     ELSE phase' = "done" /\ UNCHANGED todo
  /\ UNCHANGED <<file, graph, pass>>

Finished == phase = "done" /\ UNCHANGED vars

Next == (\E t \in Threads : Pass(t)) \/ Barrier \/ NextRound \/ Finished

Spec == Init /\ [][Next]_vars

\* hw3/other_ver/timer/hw3-t.cc has a team for each round where hw3.cc has one
\* for each loop.  Its loops still end at barriers, and a thread's timer in t_ts
\* is its own.
hw3_t == Spec

-----------------------------------------------------------------------------
(* Properties.                                                             *)

Blocks == (0..(num_blocks - 1)) \X (0..(num_blocks - 1))

TypeOK ==
  /\ file \in Inputs
  /\ graph \in [Cells(vertex_num) -> 0..DISINF]
  /\ k \in 0..num_blocks
  /\ phase \in {"pivot", "row", "col", "rest", "done"}
  /\ todo \in [Threads -> Seq(Blocks)]
  /\ pass \in [Threads -> 0..(block_size - 1)]

\* What a pass over block b reads: b, and the blocks of its row and column in
\* the round's column and row.
Reads(b) == {b, <<b[1], k>>, <<k, b[2]>>}

\* The threads of a team share the matrix without a lock: none writes a block
\* that another, at whatever pass of whatever block of its share, reads.
NoConflict ==
  \A t, u \in Threads : t # u =>
    \A i \in DOMAIN todo[t], j \in DOMAIN todo[u] : todo[t][i] \notin Reads(todo[u][j])

\* However the threads interleave, the rounds do what the algorithm without
\* blocks does in block_size steps, the residual block's round included.
RoundsMatch ==
  (phase = "done" \/ (phase = "pivot" /\ pass[Main] = 0 /\ todo[Main] # <<>>)) =>
    graph = FloydWarshallSteps(omp_buf2graph(file), vertex_num)
              [Lesser(k * block_size, vertex_num)]

\* verify.sh: the output is that of a correct program, the distances.
Weights == [c \in Cells(vertex_num) |->
  IF \E e \in file.edges : <<e[1], e[2]>> = c
  THEN Min({e[3] : e \in {e \in file.edges : <<e[1], e[2]>> = c}}) ELSE DISINF]
Distances == phase = "done" => graph = ShortestPaths(Weights, vertex_num, DISINF)

=============================================================================
