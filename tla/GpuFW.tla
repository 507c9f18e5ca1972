------------------------------- MODULE GpuFW -------------------------------
(***************************************************************************)
(* Blocked Floyd-Warshall on a GPU, hw4-1 and hw4-2: the host launches the *)
(* kernels of GpuPrograms round by round, and their thread blocks run.     *)
(*                                                                         *)
(* CUDA is external.  A kernel in the default stream waits for the kernels *)
(* of all streams of its device before it, and they for it; the thread     *)
(* blocks of kernels that may overlap run in any order and at the same     *)
(* time.  A thread block loads its operands into shared memory, computes,  *)
(* and stores its block, then goes on to its next one.                     *)
(***************************************************************************)
EXTENDS GpuPrograms

CONSTANTS Inputs,    \* <<version, file>>; a file has n and edges <<src, dst, weight>>
          IntMax     \* the largest int

ASSUME InputAssumption ==
  \A input_ \in Inputs : LET f == input_[2] IN
    /\ input_[1] \in Versions
    /\ f.n \in Nat \ {0}
    /\ \A e \in f.edges : /\ e[1] \in 0..(f.n - 1) /\ e[2] \in 0..(f.n - 1)
                          /\ e[1] # e[2] /\ e[3] \in 0..INF
    /\ \A e, g \in f.edges : e[1] = g[1] /\ e[2] = g[2] => e = g
ASSUME SizesAssumption == B \in Nat \ {0} /\ INF \in Nat /\ IntMax = 2 * INF + 1

VARIABLES
  version,  \* the program that runs
  file,     \* its input file
  dist,     \* Dist_cuda, or Dist_cuda0 and Dist_cuda1
  r,        \* the round
  next,     \* how far the host is in the round
  todo,     \* thread blocks that were launched, with the blocks they still have to store
  sm,       \* what those that have loaded hold in shared memory
  Dist_s    \* the matrix that output writes

vars == <<version, file, dist, r, next, todo, sm, Dist_s>>

n == file.n
round == Rounds(n)
vertex_num == Max({c[1] : c \in DOMAIN dist[0]}) + 1
NotWritten == <<>>

\* Addition of ints wraps.
Plus(a, b) == IF a + b > IntMax THEN a + b - 2 * (IntMax + 1) ELSE a + b

-----------------------------------------------------------------------------
(* Thread blocks.                                                          *)

\* The entries of block b that the matrix has
CellsOf(b) ==
  ((b[1] * B)..Lesser(b[1] * B + B - 1, vertex_num - 1))
    \X ((b[2] * B)..Lesser(b[2] * B + B - 1, vertex_num - 1))

\* A block of the matrix in shared memory, its entries from 0 on
Shared(m, b) ==
  [xy \in {<<c[1] - b[1] * B, c[2] - b[2] * B>> : c \in CellsOf(b)} |->
     m[<<b[1] * B + xy[1], b[2] * B + xy[2]>>]]

\* A plausible slip: a block is relaxed through B - 1 vertices.
MutantPasses == Lesser(B, vertex_num - r * B) - 1

Passes == Lesser(B, vertex_num - r * B)

Aliased(operand, onPivot) == operand = "own" \/ (operand = "pivot" /\ onPivot)

\* The loop over k: b[x, k] and c[k, y] are of the block itself, as the pass
\* before left it, or of the block loaded beside it.
Relaxed(kernel, block, m) ==
  LET After[k \in 0..Passes] ==
        IF k = 0 THEN m.a
        ELSE LET a == After[k - 1]
                 b == IF Aliased(kernel.b, block[2] = r) THEN a ELSE m.b
                 c == IF Aliased(kernel.c, block[1] = r) THEN a ELSE m.c
             IN [xy \in DOMAIN a |->
                   Lesser(a[xy], Plus(b[<<xy[1], k - 1>>], c[<<k - 1, xy[2]>>]))]
  IN After[Passes]

ThreadBlocks(l) ==
  {t \in {[kernel |-> l.kernel, stream |-> l.stream, device |-> l.device, memory |-> l.memory,
           blocks |-> BlocksOf(l, bx, by)] : bx \in 0..(l.gx - 1), by \in 0..(l.gy - 1)} :
     t.blocks # <<>>}

Block(t) == Head(t.blocks)
Launches == RoundOf(version, r, round)

-----------------------------------------------------------------------------
Init ==
  /\ \E input_ \in Inputs : version = input_[1] /\ file = input_[2]
  /\ dist = [d \in IF version = "hw4-2" THEN {0, 1} ELSE {0} |-> DistOf(version, file)]
  /\ r = 0
  /\ next = 1
  /\ todo = {}
  /\ sm = [t \in {} |-> NotWritten]
  /\ Dist_s = NotWritten

\* A launch waits for what its stream waits for; the host does not wait.
Start ==
  /\ r < round /\ next \in DOMAIN Launches /\ ~IsCopy(Launches[next])
  /\ LET l == Launches[next] IN
     /\ \A t \in todo : t.device # l.device \/ (t.stream # 0 /\ l.stream # 0 /\ t.stream # l.stream)
     /\ \/ todo' = todo \cup ThreadBlocks(l)
        \/ l.stream > 2 /\ todo' = todo
  /\ next' = next + 1
  /\ UNCHANGED <<version, file, dist, r, sm, Dist_s>>

\* cudaMemcpyPeer waits for all that both devices have to do.
Copy ==
  /\ r < round /\ next \in DOMAIN Launches /\ IsCopy(Launches[next])
  /\ todo = {}
  /\ LET op == Launches[next] IN
     dist' = [dist EXCEPT ![op.to] =
                [c \in DOMAIN @ |-> IF c[1] < op.rows THEN dist[op.from][c] ELSE @[c]]]
  /\ next' = next + 1
  /\ UNCHANGED <<version, file, r, todo, sm, Dist_s>>

\* The host is not held up, but the first launch of a round waits for the
\* round before it, whatever the version.
NextRound ==
  /\ r < round /\ next \notin DOMAIN Launches
  /\ todo = {}
  /\ r' = r + 1
  /\ next' = 1
  /\ UNCHANGED <<version, file, dist, todo, sm, Dist_s>>

\* Up to the first __syncthreads
Load(t) ==
  /\ t \notin DOMAIN sm /\ ~t.kernel.global
  /\ LET b == Block(t)
         m == dist[t.memory]
     IN sm' = [u \in DOMAIN sm \cup {t} |->
                 IF u = t THEN [a |-> Shared(m, b), b |-> Shared(m, <<b[1], r>>),
                                c |-> Shared(m, <<r, b[2]>>)]
                 ELSE sm[u]]
  /\ UNCHANGED <<version, file, dist, r, next, todo, Dist_s>>

\* The thread block goes on to its next block.
Leave(t) ==
  /\ todo' = (todo \ {t}) \cup
             (IF Len(t.blocks) > 1 THEN {[t EXCEPT !.blocks = Tail(@)]} ELSE {})
  /\ sm' = [u \in DOMAIN sm \ {t} |-> sm[u]]

\* The loop over k, and the store of the block
Store(t) ==
  /\ t \in DOMAIN sm /\ ~t.kernel.global
  /\ LET b == Block(t)
         block == Relaxed(t.kernel, b, sm[t])
     IN dist' = [dist EXCEPT ![t.memory] =
                   [c \in DOMAIN @ |-> IF c \in CellsOf(b)
                                       THEN block[<<c[1] - b[1] * B, c[2] - b[2] * B>>] ELSE @[c]]]
  /\ Leave(t)
  /\ UNCHANGED <<version, file, r, next, Dist_s>>

\* One pass in the matrix itself, of a kernel without shared memory
Pass(t) ==
  /\ t.kernel.global
  /\ LET k == IF t \in DOMAIN sm THEN sm[t] ELSE 0 IN
     /\ dist' = [dist EXCEPT ![t.memory] =
                   [c \in DOMAIN @ |-> IF c \in CellsOf(Block(t))
                      THEN Lesser(@[c], Plus(@[<<c[1], r * B + k>>], @[<<r * B + k, c[2]>>]))
                      ELSE @[c]]]
     /\ IF k + 1 = Passes THEN Leave(t)
        ELSE sm' = [u \in DOMAIN sm \cup {t} |-> IF u = t THEN k + 1 ELSE sm[u]] /\ todo' = todo
  /\ UNCHANGED <<version, file, r, next, Dist_s>>

\* back_DistCuda waits for the kernels; output: INF at most, without the padding
Output ==
  /\ r = round /\ todo = {} /\ Dist_s = NotWritten
  /\ Dist_s' = [c \in Cells(n) |-> Lesser(dist[0][c], INF)]
  /\ UNCHANGED <<version, file, dist, r, next, todo, sm>>

Finished == Dist_s # NotWritten /\ UNCHANGED vars

Next ==
  \/ Start \/ Copy \/ NextRound \/ Output \/ Finished
  \/ \E t \in todo : Load(t) \/ Store(t) \/ Pass(t)

Spec == Init /\ [][Next]_vars

-----------------------------------------------------------------------------
(* Properties.  Two versions are wrong: hw4-1_beta launches phase 3 on     *)
(* streams that are gone, hw4-2 does not order device 0 behind device 1    *)
(* and copies rows of entries where it means rows of blocks.               *)

Ordered == version \notin {"beta", "hw4-2"}

\* No entry exceeds INF, so that the sum of two is an int, in every version.
TypeOK ==
  /\ \A m \in DOMAIN dist : dist[m] \in [Cells(vertex_num) -> 0..INF]
  /\ vertex_num \in {n, round * B}
  /\ r \in 0..round /\ next \in Nat \ {0}
  /\ DOMAIN sm \subseteq todo
  /\ \A t \in todo : t.memory \in DOMAIN dist /\ t.blocks \in Seq(Cells(round))

\* The blocks that thread block t reads and writes
Touches(t) == UNION {{b, <<b[1], r>>, <<r, b[2]>>} : b \in {t.blocks[i] : i \in DOMAIN t.blocks}}

\* Kernels overlap, phase 2 stores the pivot block twice and phase 3 the row
\* and the column of the pivot, while other thread blocks load them.  That is
\* harmless because what is stored is what was there: a block whose contents
\* change is touched by no other thread block that has not finished.
RacesAreBenign ==
  [][Ordered =>
       \A t \in todo \ todo' :
         (\E c \in CellsOf(Block(t)) : dist'[t.memory][c] # dist[t.memory][c]) =>
           \A u \in todo \ {t} : Block(t) \notin Touches(u)]_vars

\* Whatever the order of the thread blocks, a round is B steps of the
\* algorithm without blocks, on the matrix with its padding if it has one.
RoundsMatch ==
  Ordered /\ next = 1 /\ todo = {} =>
    dist[0] = FloydWarshallSteps(DistOf(version, file), vertex_num)[Lesser(r * B, vertex_num)]

\* verify.sh: the output is the one of the test case, the distances; an edge
\* that is not there and a path that does not exist are INF, not wrapped sums.
\* The two wrong versions never claim a distance that is too short.
Weights == [c \in Cells(n) |->
  IF \E e \in file.edges : <<e[1], e[2]>> = c
  THEN Min({e[3] : e \in {e \in file.edges : <<e[1], e[2]>> = c}}) ELSE INF]
OutputIsDistances ==
  Dist_s # NotWritten =>
    LET shortest == ShortestPaths(Weights, n, INF) IN
    IF Ordered THEN Dist_s = shortest ELSE \A c \in Cells(n) : Dist_s[c] >= shortest[c]
=============================================================================
