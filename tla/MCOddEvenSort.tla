--------------------------- MODULE MCOddEvenSort ---------------------------
(* Input files of zeros and ones: by the 0-1 principle what sorts these     *)
(* sorts all, since merge_realc does nothing but compare.                   *)
EXTENDS OddEvenSort

Bits == {0, 1}
Files(lengths) == UNION {[1..k -> Bits] : k \in lengths}

\* Fewer numbers than processes, as many, one and two more, twice as many; the
\* last of them in two halves, so that the first phase changes nothing
AllLengths ==
  ({hw1} \X Files({0, 2, 4, 5, 6}))
    \cup ({stlsort} \X (Files({2, 5, 6}) \cup {<<0, 0, 1, 1, 0, 0, 1, 1>>, <<1, 1, 0, 1, 0, 1, 0, 0>>}))
    \cup ({no_stop, timer, spreadsort} \X ({<<1, 1, 0, 0, 0>>, <<0, 1, 1, 0, 0, 1>>}))

\* Eight numbers for six processes, in descending order
EightForSix == {<<hw1, <<8, 7, 6, 5, 4, 3, 2, 1>>>>}

TwoEach == {<<hw1, <<1, 0, 0, 1>>>>}
=============================================================================
