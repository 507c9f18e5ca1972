---------------------------- MODULE MCBlockedFW ----------------------------
(* Graphs for blocks of two: all those on three vertices with weights 0 and *)
(* 2 (two blocks, the second a residual one), and a few on five and seven  *)
(* (three and four blocks, so that every loop has work for several threads).*)
EXTENDS BlockedFW

Graph(n, w) == [n |-> n, edges |-> {<<c[1], c[2], w[c]>> : c \in DOMAIN w}]

Links(n) == {c \in Cells(n) : c[1] # c[2]}

AllOfThree == {Graph(3, w) : w \in UNION {[s -> {0, 2}] : s \in SUBSET Links(3)}}

\* A cycle, against the order of the vertices and along it
Ring(n, step) == Graph(n, [c \in {c \in Cells(n) : c[2] = (c[1] + step) % n} |-> 1])

\* Long edges where a detour is cheaper
Detours(n) == Graph(n, [c \in Links(n) |-> IF (c[1] + 3 * c[2]) % 4 = 0 THEN 0
                                          ELSE IF c[1] < c[2] THEN 2 ELSE 1])

\* Two parts without an edge between them
Parted(n) == Graph(n, [c \in {c \in Links(n) : c[1] % 2 = c[2] % 2} |-> 2])

SmallGraphs == AllOfThree \cup {Ring(4, 1), Ring(5, 1), Ring(5, 4), Ring(5, 3),
                                Detours(4), Detours(5), Parted(5), Ring(2, 1),
                                Detours(7)}
=============================================================================
