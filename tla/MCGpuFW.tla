------------------------------ MODULE MCGpuFW ------------------------------
(* Blocks of two.  Two blocks in a row: the last vertex of a graph on three *)
(* is beside padding or in a residual block, a graph on four needs none.    *)
(* Three in a row: a graph on five, for one version of each layout of       *)
(* launches.  The largest weight is INF itself.                             *)
EXTENDS GpuFW

Graph(size, w) == [n |-> size, edges |-> {<<c[1], c[2], w[c]>> : c \in DOMAIN w}]

Links(size) == {c \in Cells(size) : c[1] # c[2]}

Ring(size, step, w) ==
  Graph(size, [c \in {c \in Cells(size) : c[2] = (c[1] + step) % size} |-> w])

Detours(size) == Graph(size, [c \in Links(size) |-> IF (c[1] + 3 * c[2]) % 4 = 0 THEN 0
                                                   ELSE IF c[1] < c[2] THEN 2 ELSE 1])

SomeOfThree == {Graph(3, [c \in s |-> IF c[1] < c[2] THEN 0 ELSE 2]) : s \in SUBSET Links(3)}

Fours == {Ring(4, 1, 1), Ring(4, 3, 2), Ring(4, 1, INF), Ring(4, 2, 1), Detours(4)}

SmallGraphs ==
  ({"hw4-1", "corr", "global", "old"} \X (SomeOfThree \cup Fours))
    \cup ((Versions \ {"beta", "hw4-2"}) \X ({Ring(3, 2, 1)} \cup Fours))
    \cup ({"beta", "hw4-2"} \X {Detours(3), Ring(4, 3, 2)})
    \cup ({"hw4-1", "corr", "seq"} \X {Ring(5, 4, 1)})
=============================================================================
