--------------------------- MODULE FloydWarshall ---------------------------
(***************************************************************************)
(* All pairs shortest paths, as hw3, hw4-1 and hw4-2 promise them: the     *)
(* definition, and Floyd and Warshall's algorithm without blocks.  A graph *)
(* on 0..(n-1) is a matrix w of weights, INF where there is no edge.       *)
(***************************************************************************)
EXTENDS Integers, FiniteSets, FiniteSetsExt

Lesser(a, b) == IF a > b THEN b ELSE a

Cells(n) == (0..(n - 1)) \X (0..(n - 1))

\* One pass of relaxation over a set of cells, through vertex k
Relax(d, cells, k) ==
  [c \in DOMAIN d |->
     IF c \in cells THEN Lesser(d[c], d[<<c[1], k>>] + d[<<k, c[2]>>]) ELSE d[c]]

\* The distances when paths may pass through the first k vertices
FloydWarshallSteps(w, n) ==
  LET Through[k \in 0..n] ==
        IF k = 0 THEN w ELSE Relax(Through[k - 1], Cells(n), k - 1)
  IN Through

\* The distances, for which walks of n - 1 edges are enough: Walk[m] has the
\* least weights of the walks of at most m edges, the last of them from a vertex
\* v, or INF if there is none.
ShortestPaths(w, n, INF) ==
  LET edge == [c \in Cells(n) |-> IF c[1] = c[2] THEN 0 ELSE w[c]]
      Walk[m \in 0..n] ==
        IF m = 0 THEN [c \in Cells(n) |-> IF c[1] = c[2] THEN 0 ELSE INF]
        ELSE LET shorter == Walk[m - 1] IN
             [c \in Cells(n) |->
                Lesser(INF, Min({shorter[<<c[1], v>>] + edge[<<v, c[2]>>] : v \in 0..(n - 1)}))]
  IN Walk[n - 1]
=============================================================================
