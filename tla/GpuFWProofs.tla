---------------------------- MODULE GpuFWProofs ----------------------------
(***************************************************************************)
(* Proofs about GpuFW, for every version, every input file and every width *)
(* of a block: the sums never wrap, a round of a version that is right is  *)
(* B steps of the algorithm without blocks whatever kernels overlap, races *)
(* between thread blocks are harmless, and the output is the distances.    *)
(***************************************************************************)
EXTENDS GpuFW, Lemmas, SequenceTheorems

-----------------------------------------------------------------------------
(* Sizes.                                                                  *)

Padded == version \in {"hw4-1", "flexable", "beta", "hw4-2"}

\* The vertices of the matrix, with its padding if it has one
Side == IF Padded THEN padding_n(n) ELSE n

\* The vertices of block i of a dimension, their number, and where the next starts
Height(i) == Lesser(B, Side - i * B)
Span(i) == (i * B)..(i * B + Height(i) - 1)
End(i) == Lesser((i + 1) * B, Side)

IsInput ==
  /\ version \in Versions
  /\ file.n \in Nat \ {0}
  /\ \A e \in file.edges : /\ e[1] \in 0..(file.n - 1) /\ e[2] \in 0..(file.n - 1)
                           /\ e[1] # e[2] /\ e[3] \in 0..INF
  /\ \A e, g \in file.edges : e[1] = g[1] /\ e[2] = g[2] => e = g

LEMMA SizesAre ==
  ASSUME IsInput
  PROVE  /\ B \in Nat \ {0} /\ INF \in Nat /\ IntMax = 2 * INF + 1
         /\ n \in Nat \ {0} /\ round \in Nat \ {0} /\ Side \in Nat \ {0}
         /\ n <= Side /\ Side <= round * B /\ (round - 1) * B < Side
         /\ Side \in {n, round * B}
<1>1. B \in Nat \ {0} /\ INF \in Nat /\ IntMax = 2 * INF + 1 /\ n \in Nat \ {0}
  BY SizesAssumption DEF IsInput, n
<1> PICK N : N = n
  OBVIOUS
<1> PICK q, m : q = (N + B - 1) \div B /\ m = (N + B - 1) % B
  OBVIOUS
<1>2. q \in Nat /\ m \in 0..(B - 1) /\ N + B - 1 = B * q + m
  <2>1. N + B - 1 \in Nat
    BY <1>1
  <2>2. (N + B - 1) \div B \in Nat /\ (N + B - 1) % B \in 0..(B - 1)
        /\ N + B - 1 = B * ((N + B - 1) \div B) + ((N + B - 1) % B)
    BY ONLY <1>1, <2>1, DivMod
  <2>3. QED
    BY <2>2
<1>3. round = q /\ padding_n(n) = q * B
  BY DEF round, Rounds, padding_n
<1>4. q * B = B * q /\ (q - 1) * B = B * q - B /\ B * q \in Nat
  BY <1>1, <1>2
<1>5. N <= q * B /\ (q - 1) * B < N
  BY <1>1, <1>2, <1>4
<1>6. q # 0
  BY <1>1, <1>5
<1>7. Side = q * B \/ Side = N
  BY <1>3 DEF Side
<1>8. q * B \in Nat /\ q * B # 0
  BY <1>1, <1>4, <1>5
<1>9. (q - 1) * B < q * B /\ (q - 1) * B \in Int
  BY <1>1, <1>4
<1>10. QED
  BY <1>1, <1>2, <1>3, <1>5, <1>6, <1>7, <1>8, <1>9

LEMMA BlockIs ==
  ASSUME IsInput, NEW i \in 0..(round - 1)
  PROVE  /\ i * B \in 0..(Side - 1) /\ Height(i) \in 1..B /\ i * B + Height(i) = End(i)
         /\ End(i) \in 1..Side /\ Span(i) \subseteq 0..(Side - 1)
         /\ Span(i) = (i * B)..Lesser(i * B + B - 1, Side - 1)
         /\ (i + 1) * B = i * B + B
         /\ End(round - 1) = Side
         /\ i # round - 1 => End(i) = (i + 1) * B
<1>1. /\ B \in Nat \ {0} /\ round \in Nat \ {0} /\ Side \in Nat \ {0}
      /\ Side <= round * B /\ (round - 1) * B < Side
  BY SizesAre
<1> PICK R, N : R = round /\ N = Side
  OBVIOUS
<1> PICK a, z : a = i * B /\ z = (R - 1) * B
  OBVIOUS
<1>2. i * B <= (R - 1) * B /\ i * B \in Nat /\ (R - 1) * B \in Nat
  BY <1>1, TimesMonotone
<1>3. (i + 1) * B = a + B /\ R * B = z + B /\ ((R - 1) + 1) * B = z + B
  BY <1>1
<1>4. a \in 0..(N - 1)
  BY <1>1, <1>2
<1>5. End(i) = Lesser(a + B, N) /\ Height(i) = Lesser(B, N - a) /\ End(R - 1) = Lesser(z + B, N)
  BY <1>3 DEF End, Height
<1>6. Height(i) \in 1..B /\ a + Height(i) = End(i) /\ End(i) \in 1..N /\ End(R - 1) = N
  BY <1>1, <1>2, <1>3, <1>4, <1>5 DEF Lesser
<1>7. Span(i) = a..(a + Height(i) - 1) /\ a + Height(i) - 1 = Lesser(a + B - 1, N - 1)
  BY <1>1, <1>4, <1>5 DEF Span, Lesser
<1>8. i # R - 1 => End(i) = a + B
  <2>1. SUFFICES ASSUME i # R - 1 PROVE a + B <= N
    BY <1>1, <1>4, <1>5 DEF Lesser
  <2>2. (i + 1) * B <= (R - 1) * B
    BY <1>1, <2>1, TimesMonotone
  <2>3. QED
    BY <1>1, <1>2, <1>3, <2>2
<1>9. Span(i) \subseteq 0..(N - 1)
  BY <1>1, <1>4, <1>6, <1>7
<1>10. QED
  BY <1>3, <1>4, <1>6, <1>7, <1>8, <1>9

\* Every vertex is in one block.
LEMMA VertexBlock ==
  ASSUME IsInput, NEW x \in 0..(Side - 1)
  PROVE  \E i \in 0..(round - 1) : x \in Span(i)
<1>1. /\ B \in Nat \ {0} /\ round \in Nat \ {0} /\ Side \in Nat \ {0} /\ Side <= round * B
  BY SizesAre
<1> PICK i, m : i = x \div B /\ m = x % B
  OBVIOUS
<1>2. i \in Nat /\ m \in 0..(B - 1) /\ x = B * i + m
  <2>1. x \in Nat
    BY <1>1
  <2>2. x \div B \in Nat /\ x % B \in 0..(B - 1) /\ x = B * (x \div B) + (x % B)
    BY ONLY <1>1, <2>1, DivMod
  <2>3. QED
    BY <2>2
<1>3. i < round
  <2>1. SUFFICES ASSUME round <= i PROVE FALSE
    BY <1>1, <1>2
  <2>2. B * round <= B * i /\ B * round \in Nat /\ B * i \in Nat /\ B * round = round * B
    BY <1>1, <1>2, <2>1, TimesMonotone
  <2>3. QED
    BY <1>1, <1>2, <2>2
<1>4. i \in 0..(round - 1)
  BY <1>1, <1>2, <1>3
<1>5. Span(i) = (i * B)..Lesser(i * B + B - 1, Side - 1)
  BY <1>4, BlockIs
<1>6. i * B = B * i /\ B * i \in Nat
  BY <1>1, <1>2
<1>7. x \in Span(i)
  BY <1>1, <1>2, <1>5, <1>6 DEF Lesser
<1>8. QED
  BY <1>4, <1>7

-----------------------------------------------------------------------------
(* Input.                                                                  *)

LEMMA DistIsInput ==
  ASSUME IsInput
  PROVE  DistOf(version, file) = input(file, Side)
<1>1. CASE version = "hw4-1"
  BY <1>1 DEF DistOf, Dist, Side, Padded, n
<1>2. CASE version = "flexable"
  BY <1>2 DEF DistOf, flexable_Dist, Side, Padded, n
<1>3. CASE version = "beta"
  BY <1>3 DEF DistOf, beta_Dist, Side, Padded, n
<1>4. CASE version = "hw4-2"
  BY <1>4 DEF DistOf, two_Dist, Side, Padded, n
<1>5. CASE version \in {"seq", "sample", "corr", "nostream", "global", "old"}
  BY <1>5 DEF DistOf, seq_Dist, sample_Dist, corr_Dist, nostream_Dist, global_Dist, old_Dist,
              Side, Padded, n
<1>6. CASE version \in {"t", "prof", "static", "test", "dynamic"}
  BY <1>6 DEF DistOf, t_Dist, prof_Dist, static_Dist, test_Dist, dynamic_Dist, Side, Padded, n
<1>7. QED
  BY <1>1, <1>2, <1>3, <1>4, <1>5, <1>6 DEF IsInput, Versions

\* What the matrix holds: 0 on the diagonal, the edges, and INF elsewhere
LEMMA InputIs ==
  ASSUME IsInput, NEW N \in Nat, n <= N
  PROVE  /\ input(file, N) \in Matrices(N, INF)
         /\ \A i, j \in 0..(N - 1) :
              input(file, N)[<<i, j>>] = IF i = j THEN 0
                                         ELSE IF i < n /\ j < n THEN Weights[<<i, j>>] ELSE INF
<1> DEFINE has(c) == \E e \in file.edges : <<e[1], e[2]>> = c
           edge(c) == CHOOSE e \in file.edges : <<e[1], e[2]>> = c
           m == [c \in Cells(N) |-> IF has(c) THEN edge(c)[3] ELSE IF c[1] = c[2] THEN 0 ELSE INF]
<1>1. input(file, N) = m
  BY DEF input
<1>2. INF \in Nat /\ n \in Nat
  BY SizesAre
<1>3. ASSUME NEW i \in 0..(N - 1), NEW j \in 0..(N - 1)
      PROVE  /\ m[<<i, j>>] \in 0..INF
             /\ m[<<i, j>>] = IF i = j THEN 0
                              ELSE IF i < n /\ j < n THEN Weights[<<i, j>>] ELSE INF
  <2> PICK c : c = <<i, j>>
    OBVIOUS
  <2>1. c \in Cells(N) /\ c[1] = i /\ c[2] = j
    BY DEF Cells
  <2>2. m[c] = IF has(c) THEN edge(c)[3] ELSE IF i = j THEN 0 ELSE INF
    BY <2>1
  <2>3. CASE has(c)
    <3>1. PICK e \in file.edges : <<e[1], e[2]>> = c
      BY <2>3
    <3>2. e[1] = i /\ e[2] = j
      BY <2>1, <3>1
    <3>3. i \in 0..(n - 1) /\ j \in 0..(n - 1) /\ i # j /\ e[3] \in 0..INF
      BY <3>2 DEF IsInput, n
    <3>4. ASSUME NEW g \in file.edges, <<g[1], g[2]>> = c PROVE g = e
      BY <3>1, <3>4, <2>1 DEF IsInput
    <3>5. edge(c) = e
      <4>1. edge(c) \in file.edges /\ <<edge(c)[1], edge(c)[2]>> = c
        BY <3>1
      <4> HIDE DEF edge
      <4>2. QED
        BY <3>4, <4>1
    <3>6. Weights[c] = Min({g[3] : g \in {g \in file.edges : <<g[1], g[2]>> = c}})
      <4>1. c \in Cells(n)
        BY <1>2, <3>3 DEF Cells
      <4>2. QED
        BY <3>1, <4>1 DEF Weights
    <3>7. {g[3] : g \in {g \in file.edges : <<g[1], g[2]>> = c}} = {e[3]}
      BY <3>1, <3>4
    <3>8. Min({e[3]}) = e[3]
      BY <3>3 DEF Min
    <3>9. m[c] = e[3] /\ Weights[c] = e[3]
      BY <2>2, <2>3, <3>5, <3>6, <3>7, <3>8
    <3> HIDE DEF m
    <3>10. QED
      BY <1>2, <3>3, <3>9
  <2>4. CASE ~has(c)
    <3>1. m[c] = IF i = j THEN 0 ELSE INF
      BY <2>2, <2>4
    <3>2. i < n /\ j < n => Weights[c] = INF
      <4>1. i < n /\ j < n => c \in Cells(n)
        BY <1>2 DEF Cells
      <4>2. QED
        BY <2>4, <4>1 DEF Weights
    <3> HIDE DEF m
    <3>3. QED
      BY <1>2, <3>1, <3>2
  <2>5. QED
    BY <2>3, <2>4
<1> HIDE DEF has, edge
<1>4. m \in Matrices(N, INF)
  <2>1. ASSUME NEW c \in Cells(N) PROVE m[c] \in 0..INF
    <3>1. PICK i, j \in 0..(N - 1) : c = <<i, j>>
      BY DEF Cells
    <3> HIDE DEF m
    <3>2. QED
      BY <1>3, <3>1
  <2>2. QED
    BY <2>1 DEF Matrices
<1>5. QED
  BY <1>1, <1>3, <1>4

\* The input without padding is the graph's edges.
LEMMA InputIsEdges ==
  ASSUME IsInput
  PROVE  input(file, n) = Edges(Weights, n)
<1>1. n \in Nat /\ n <= n /\ INF \in Nat
  BY SizesAre
<1>2. /\ input(file, n) \in Matrices(n, INF)
      /\ \A i, j \in 0..(n - 1) :
           input(file, n)[<<i, j>>] = IF i = j THEN 0
                                      ELSE IF i < n /\ j < n THEN Weights[<<i, j>>] ELSE INF
  BY <1>1, InputIs
<1>3. ASSUME NEW c \in Cells(n) PROVE input(file, n)[c] = Edges(Weights, n)[c]
  <2>1. PICK i, j \in 0..(n - 1) : c = <<i, j>>
    BY DEF Cells
  <2>2. input(file, n)[c] = IF i = j THEN 0 ELSE Weights[c]
    BY <1>1, <1>2, <2>1
  <2>3. Edges(Weights, n)[c] = IF i = j THEN 0 ELSE Weights[c]
    BY <2>1 DEF Edges
  <2>4. QED
    BY <2>2, <2>3
<1>4. Edges(Weights, n) = [c \in Cells(n) |-> Edges(Weights, n)[c]]
  BY DEF Edges
<1>5. QED
  BY <1>2, <1>3, <1>4 DEF Matrices

\* The matrices of the algorithm without blocks, on the matrix with its padding
Steps == FloydWarshallSteps(input(file, Side), Side)

LEMMA StepsOfInput ==
  ASSUME IsInput
  PROVE  /\ Side \in Nat /\ INF \in Nat /\ input(file, Side) \in Matrices(Side, INF)
         /\ IsSteps(Steps, input(file, Side), Side, INF)
<1> PICK N, w : N = Side /\ w = input(file, Side)
  OBVIOUS
<1>1. N \in Nat /\ n <= N /\ INF \in Nat
  BY SizesAre
<1>2. w \in Matrices(N, INF)
  BY <1>1, InputIs
<1>3. IsSteps(FloydWarshallSteps(w, N), w, N, INF)
  BY ONLY <1>1, <1>2, StepsAreSteps
<1>4. QED
  BY <1>1, <1>2, <1>3 DEF Steps

\* Matrix g is that of a graph on N vertices, of which those from n on have no edge.
Alone(g, m, N) ==
  \A i, j \in 0..(N - 1) : i >= m \/ j >= m => g[<<i, j>>] = IF i = j THEN 0 ELSE INF

\* A vertex without edges is of no use to a path: the padding changes nothing.
LEMMA PaddingIsAlone ==
  ASSUME IsInput, NEW k \in 0..Side
  PROVE  Alone(Steps[k], n, Side)
<1> PICK N, D, w : N = Side /\ D = Steps /\ w = input(file, Side)
  OBVIOUS
<1>1. /\ N \in Nat /\ INF \in Nat /\ IsSteps(D, w, N, INF) /\ n \in Nat /\ n <= N
  BY StepsOfInput, SizesAre
<1> DEFINE T == {x \in 0..N : Alone(D[x], n, N)}
<1>2. 0 \in T
  <2>1. \A i, j \in 0..(N - 1) : w[<<i, j>>] = IF i = j THEN 0
                                      ELSE IF i < n /\ j < n THEN Weights[<<i, j>>] ELSE INF
    <3>1. Side \in Nat /\ n <= Side
      BY <1>1
    <3>2. \A i, j \in 0..(Side - 1) : input(file, Side)[<<i, j>>] =
            IF i = j THEN 0 ELSE IF i < n /\ j < n THEN Weights[<<i, j>>] ELSE INF
      BY <3>1, InputIs, Zenon
    <3>3. QED
      BY <3>2, Zenon
  <2>2. D[0] = w
    BY <1>1 DEF IsSteps
  <2>3. Alone(w, n, N)
    BY <1>1, <2>1 DEF Alone
  <2>4. QED
    BY <1>1, <2>2, <2>3
<1>3. ASSUME NEW x \in 0..(N - 1), x \in T PROVE x + 1 \in T
  <2>1. x \in 0..N /\ x + 1 \in 0..N /\ Alone(D[x], n, N)
    BY <1>1, <1>3
  <2>2. ASSUME NEW i \in 0..(N - 1), NEW j \in 0..(N - 1), i >= n \/ j >= n
        PROVE  D[x + 1][<<i, j>>] = IF i = j THEN 0 ELSE INF
    <3> PICK a, b, c : a = D[x][<<i, j>>] /\ b = D[x][<<i, x>>] /\ c = D[x][<<x, j>>]
      OBVIOUS
    <3>1. a \in 0..INF /\ b \in 0..INF /\ c \in 0..INF
      BY <1>1, <2>1, StepsTypes
    <3>2. D[x + 1][<<i, j>>] = Lesser(a, b + c)
      BY <1>1 DEF IsSteps
    <3>3. a = IF i = j THEN 0 ELSE INF
      BY <2>1, <2>2 DEF Alone
    <3>4. i # j => b = INF \/ c = INF
      <4>1. i >= n /\ i # x => b = INF
        BY <2>1 DEF Alone
      <4>2. i >= n /\ i = x => c = a
        OBVIOUS
      <4>3. j >= n /\ j # x => c = INF
        BY <2>1 DEF Alone
      <4>4. j >= n /\ j = x => b = a
        OBVIOUS
      <4>5. QED
        BY <2>2, <3>3, <4>1, <4>2, <4>3, <4>4
    <3>5. QED
      BY <1>1, <3>1, <3>2, <3>3, <3>4 DEF Lesser
  <2>3. QED
    BY <2>1, <2>2 DEF Alone
<1> HIDE DEF T
<1>4. k \in T
  BY <1>1, <1>2, <1>3, UpTo
<1>5. QED
  BY <1>4 DEF T

LEMMA PaddingIsIdle ==
  ASSUME IsInput, NEW i \in 0..(n - 1), NEW j \in 0..(n - 1)
  PROVE  Steps[Side][<<i, j>>] = FloydWarshallSteps(input(file, n), n)[n][<<i, j>>]
<1> PICK N, D, w : N = Side /\ D = Steps /\ w = input(file, Side)
  OBVIOUS
<1> PICK m, d, v : m = n /\ v = input(file, n) /\ d = FloydWarshallSteps(input(file, n), n)
  OBVIOUS
<1>1. N \in Nat /\ INF \in Nat /\ IsSteps(D, w, N, INF) /\ m \in Nat /\ m <= N
  BY StepsOfInput, SizesAre
<1>2. /\ v \in Matrices(m, INF)
      /\ \A a, b \in 0..(m - 1) : v[<<a, b>>] = IF a = b THEN 0
                                      ELSE IF a < m /\ b < m THEN Weights[<<a, b>>] ELSE INF
  <2>1. m \in Nat /\ n <= m
    BY <1>1
  <2>2. QED
    BY <2>1, InputIs
<1>3. \A a, b \in 0..(N - 1) : w[<<a, b>>] = IF a = b THEN 0
                                    ELSE IF a < m /\ b < m THEN Weights[<<a, b>>] ELSE INF
  <2>1. Side \in Nat /\ n <= Side
    BY <1>1
  <2>2. \A a, b \in 0..(Side - 1) : input(file, Side)[<<a, b>>] =
          IF a = b THEN 0 ELSE IF a < n /\ b < n THEN Weights[<<a, b>>] ELSE INF
    BY <2>1, InputIs, Zenon
  <2>3. QED
    BY <2>2, Zenon
<1>4. IsSteps(d, v, m, INF)
  BY <1>1, <1>2, StepsAreSteps
<1>5. \A k \in 0..N : Alone(D[k], m, N)
  BY PaddingIsAlone
<1> DEFINE Same(k, x) == \A a, b \in 0..(m - 1) : D[k][<<a, b>>] = d[x][<<a, b>>]
           T == {k \in 0..N : Same(k, Lesser(k, m))}
<1>6. 0 \in T
  <2>1. D[0] = w /\ d[0] = v /\ Lesser(0, m) = 0
    BY <1>1, <1>4 DEF IsSteps, Lesser
  <2>2. ASSUME NEW a \in 0..(m - 1), NEW b \in 0..(m - 1) PROVE w[<<a, b>>] = v[<<a, b>>]
    <3>1. a \in 0..(N - 1) /\ b \in 0..(N - 1)
      BY <1>1
    <3>2. QED
      BY <1>2, <1>3, <3>1
  <2>3. QED
    BY <1>1, <2>1, <2>2
<1>7. ASSUME NEW k \in 0..(N - 1), k \in T PROVE k + 1 \in T
  <2>1. k \in 0..N /\ k + 1 \in 0..N /\ Same(k, Lesser(k, m))
    BY <1>1, <1>7
  <2>2. ASSUME NEW a \in 0..(m - 1), NEW b \in 0..(m - 1)
        PROVE  D[k + 1][<<a, b>>] = d[Lesser(k + 1, m)][<<a, b>>]
    <3>0. a \in 0..(N - 1) /\ b \in 0..(N - 1)
      BY <1>1
    <3>1. D[k + 1][<<a, b>>] = Lesser(D[k][<<a, b>>], D[k][<<a, k>>] + D[k][<<k, b>>])
      BY <1>1, <3>0 DEF IsSteps
    <3>2. CASE k < m
      <4>1. k \in 0..(m - 1) /\ Lesser(k, m) = k /\ Lesser(k + 1, m) = k + 1
        BY <1>1, <3>2 DEF Lesser
      <4>2. d[k + 1][<<a, b>>] = Lesser(d[k][<<a, b>>], d[k][<<a, k>>] + d[k][<<k, b>>])
        BY <1>4, <4>1 DEF IsSteps
      <4>3. D[k][<<a, b>>] = d[k][<<a, b>>] /\ D[k][<<a, k>>] = d[k][<<a, k>>]
            /\ D[k][<<k, b>>] = d[k][<<k, b>>]
        BY <2>1, <4>1
      <4>4. QED
        BY <3>1, <4>1, <4>2, <4>3
    <3>3. CASE k >= m
      <4>1. Lesser(k, m) = m /\ Lesser(k + 1, m) = m
        BY <1>1, <3>3 DEF Lesser
      <4>2. D[k][<<a, k>>] = INF
        <5>1. Alone(D[k], m, N)
          BY <1>5, <2>1
        <5>2. a # k
          BY <1>1, <3>3
        <5>3. QED
          BY <3>0, <3>3, <5>1, <5>2 DEF Alone
      <4>3. D[k][<<a, b>>] \in 0..INF /\ D[k][<<k, b>>] \in 0..INF
        BY <1>1, <2>1, <3>0, StepsTypes
      <4>4. D[k + 1][<<a, b>>] = D[k][<<a, b>>]
        BY <1>1, <3>1, <4>2, <4>3 DEF Lesser
      <4>5. QED
        BY <2>1, <4>1, <4>4
    <3>4. QED
      BY <1>1, <3>2, <3>3
  <2>3. QED
    BY <2>1, <2>2
<1> HIDE DEF T
<1>8. N \in T
  <2> HIDE DEF Same
  <2>1. QED
    BY <1>1, <1>6, <1>7, UpTo
<1>9. Lesser(N, m) = m
  BY <1>1 DEF Lesser
<1>10. Same(N, m)
  <2> HIDE DEF Same
  <2>1. QED
    BY <1>8, <1>9 DEF T
<1>11. QED
  BY <1>10

\* The last of the matrices holds the distances.
LEMMA LastIsDistances ==
  ASSUME IsInput
  PROVE  /\ ShortestPaths(Weights, n, INF) \in Matrices(n, INF)
         /\ \A i, j \in 0..(n - 1) : Steps[Side][<<i, j>>] = ShortestPaths(Weights, n, INF)[<<i, j>>]
<1> PICK m, v, W : m = n /\ v = input(file, n) /\ W = Weights
  OBVIOUS
<1>1. m \in Nat \ {0} /\ INF \in Nat /\ m <= m
  BY SizesAre
<1>2. v = Edges(W, m) /\ v \in Matrices(m, INF)
  BY <1>1, InputIsEdges, InputIs
<1>3. FloydWarshallSteps(v, m)[m] = ShortestPaths(W, m, INF)
  BY <1>1, <1>2, StepsAreDistances
<1>4. FloydWarshallSteps(v, m)[m] \in Matrices(m, INF)
  <2>1. m \in 0..m
    BY <1>1
  <2>2. QED
    BY <1>1, <1>2, <2>1, StepsAre
<1>5. QED
  BY <1>3, <1>4, PaddingIsIdle

-----------------------------------------------------------------------------
(* Launches.                                                               *)

\* How many of the numbers from, from + grid, ... are below size
Dealt(from, size, grid) == IF from < size THEN (size - from - 1) \div grid + 1 ELSE 0

LEMMA DealtIs ==
  ASSUME NEW grid \in Nat \ {0}, NEW from \in 0..(grid - 1), NEW size \in Nat
  PROVE  /\ Dealt(from, size, grid) \in Nat
         /\ \A a \in Nat : a < Dealt(from, size, grid) <=> from + grid * a < size
<1>1. CASE from < size
  <2> PICK z : z = size - from - 1
    OBVIOUS
  <2>1. z \in Nat /\ size = z + from + 1
    BY <1>1
  <2> PICK q, m : q = z \div grid /\ m = z % grid
    OBVIOUS
  <2>2. q \in Nat /\ m \in 0..(grid - 1) /\ z = grid * q + m
    BY <2>1, DivMod
  <2>3. Dealt(from, size, grid) = q + 1
    BY <1>1 DEF Dealt
  <2>4. ASSUME NEW a \in Nat PROVE a < q + 1 <=> from + grid * a < size
    <3>1. CASE a <= q
      <4>1. grid * a <= grid * q /\ grid * a \in Nat
        BY <2>2, <3>1, TimesMonotone
      <4>2. QED
        BY <2>1, <2>2, <3>1, <4>1
    <3>2. CASE q < a
      <4>1. grid * (q + 1) <= grid * a /\ grid * (q + 1) = grid * q + grid
            /\ grid * a \in Nat /\ grid * q \in Nat
        BY <2>2, <3>2, TimesMonotone
      <4>2. QED
        BY <2>1, <2>2, <3>2, <4>1
    <3>3. QED
      BY <2>2, <3>1, <3>2
  <2>5. QED
    BY <2>2, <2>3, <2>4
<1>2. CASE ~(from < size)
  <2>1. Dealt(from, size, grid) = 0
    BY <1>2 DEF Dealt
  <2>2. \A a \in Nat : grid * a \in Nat
    OBVIOUS
  <2>3. \A a \in Nat : ~(from + grid * a < size)
    BY <1>2, <2>2
  <2>4. QED
    BY <2>1, <2>3
<1>3. QED
  BY <1>1, <1>2

LEMMA DealtOnce ==
  ASSUME NEW grid \in Nat \ {0}, NEW f \in 0..(grid - 1), NEW g \in 0..(grid - 1),
         NEW a \in Nat, NEW b \in Nat, f + grid * a = g + grid * b
  PROVE  f = g /\ a = b
<1>1. ASSUME NEW x \in Nat, NEW y \in Nat, x < y, NEW u \in 0..(grid - 1), NEW v \in 0..(grid - 1)
      PROVE  u + grid * x < v + grid * y
  <2>1. grid * (x + 1) <= grid * y
    BY <1>1, TimesMonotone
  <2>2. grid * (x + 1) = grid * x + grid /\ grid * x \in Nat /\ grid * y \in Nat
    OBVIOUS
  <2>3. QED
    BY <2>1, <2>2
<1>2. ~(a < b)
  BY <1>1
<1>3. ~(b < a)
  BY <1>1
<1>4. a = b
  BY <1>2, <1>3
<1>5. QED
  BY <1>4

\* The places of a table, row by row
LEMMA TableIs ==
  ASSUME NEW rows \in Nat, NEW columns \in Nat
  PROVE  /\ rows * columns \in Nat
         /\ \A s \in 1..(rows * columns) :
              /\ columns # 0 /\ (s - 1) \div columns \in 0..(rows - 1)
              /\ (s - 1) % columns \in 0..(columns - 1)
         /\ \A s, t \in 1..(rows * columns) :
              (s - 1) \div columns = (t - 1) \div columns /\ (s - 1) % columns = (t - 1) % columns
              => s = t
         /\ \A a \in 0..(rows - 1), c \in 0..(columns - 1) : \E s \in 1..(rows * columns) :
              (s - 1) \div columns = a /\ (s - 1) % columns = c
<1>1. rows * columns \in Nat
  OBVIOUS
<1>2. CASE columns = 0
  <2>1. rows * columns = 0
    BY <1>2
  <2>2. QED
    BY <1>2, <2>1
<1>3. CASE columns # 0
  <2>1. columns \in Nat \ {0}
    BY <1>3
  <2>2. ASSUME NEW s \in 1..(rows * columns)
        PROVE  /\ (s - 1) \div columns \in 0..(rows - 1) /\ (s - 1) % columns \in 0..(columns - 1)
               /\ s - 1 = columns * ((s - 1) \div columns) + ((s - 1) % columns)
    <3> PICK q, m : q = (s - 1) \div columns /\ m = (s - 1) % columns
      OBVIOUS
    <3>1. s - 1 \in Nat /\ s - 1 < rows * columns
      BY <1>1
    <3>2. (s - 1) \div columns \in Nat /\ (s - 1) % columns \in 0..(columns - 1)
          /\ s - 1 = columns * ((s - 1) \div columns) + ((s - 1) % columns)
      BY ONLY <2>1, <3>1, DivMod
    <3>3. q \in Nat /\ m \in 0..(columns - 1) /\ s - 1 = columns * q + m
      BY <3>2
    <3>4. q < rows
      <4>1. SUFFICES ASSUME rows <= q PROVE FALSE
        BY <3>3
      <4>2. columns * rows <= columns * q /\ columns * rows = rows * columns /\ columns * q \in Nat
        BY <2>1, <3>3, <4>1, TimesMonotone
      <4>3. QED
        BY <1>1, <3>1, <3>3, <4>2
    <3>5. QED
      BY <3>3, <3>4
  <2>3. ASSUME NEW s \in 1..(rows * columns), NEW t \in 1..(rows * columns),
               (s - 1) \div columns = (t - 1) \div columns, (s - 1) % columns = (t - 1) % columns
        PROVE  s = t
    <3>1. s - 1 = t - 1
      BY <2>2, <2>3
    <3>2. QED
      BY <1>1, <3>1
  <2>4. ASSUME NEW a \in 0..(rows - 1), NEW c \in 0..(columns - 1)
        PROVE  \E s \in 1..(rows * columns) : (s - 1) \div columns = a /\ (s - 1) % columns = c
    <3> PICK p : p = columns * a + c
      OBVIOUS
    <3>1. columns * a \in Nat
      BY <2>1
    <3>2. columns * (a + 1) <= columns * rows /\ columns * (a + 1) = columns * a + columns
          /\ columns * rows = rows * columns
      <4>1. a + 1 \in Nat /\ a + 1 <= rows
        OBVIOUS
      <4>2. columns * (a + 1) <= columns * rows
        BY <2>1, <4>1, TimesMonotone
      <4>3. QED
        BY <2>1, <4>2
    <3>3. p \in Nat /\ p + 1 \in 1..(rows * columns) /\ (p + 1) - 1 = p
      BY <1>1, <2>1, <3>1, <3>2
    <3>4. p \div columns \in Nat /\ p % columns \in 0..(columns - 1)
          /\ p = columns * (p \div columns) + (p % columns)
      BY ONLY <2>1, <3>3, DivMod
    <3>5. c + columns * a = (p % columns) + columns * (p \div columns)
      BY <2>1, <3>1, <3>4
    <3>6. p % columns = c /\ p \div columns = a
      BY <2>1, <3>4, <3>5, DealtOnce
    <3>7. QED
      BY <3>3, <3>6
  <2>5. QED
    BY <1>1, <1>3, <2>2, <2>3, <2>4
<1>4. QED
  BY <1>2, <1>3

\* The part of the matrix, in blocks, that a launch is for
Area(l) == (l.x..(l.x + l.height - 1)) \X (l.y..(l.y + l.width - 1))

\* The part is in the matrix, and the grid has a thread block for it if it is
\* not empty: one for each block, where thread blocks do not stride.
IsLaunch(l, R) ==
  /\ l.x \in Nat /\ l.y \in Nat /\ l.width \in Nat /\ l.height \in Nat
  /\ l.gx \in Nat /\ l.gy \in Nat
  /\ l.x + l.height <= R /\ l.y + l.width <= R
  /\ IF l.kernel.stride THEN l.gx = 0 \/ l.gy = 0 => l.height = 0 \/ l.width = 0
                        ELSE l.gx = l.height /\ l.gy = l.width

\* Block b is for thread block (bx, by).
IsFor(l, bx, by, b) == \E i, j \in Nat : b = <<l.x + bx + l.gx * i, l.y + by + l.gy * j>>

LEMMA BlocksOfIs ==
  ASSUME NEW R \in Nat, NEW l, IsLaunch(l, R), NEW bx \in 0..(l.gx - 1), NEW by \in 0..(l.gy - 1)
  PROVE  /\ BlocksOf(l, bx, by) \in Seq(Area(l))
         /\ \A s \in 1..Len(BlocksOf(l, bx, by)) : IsFor(l, bx, by, BlocksOf(l, bx, by)[s])
         /\ \A s, t \in 1..Len(BlocksOf(l, bx, by)) :
              BlocksOf(l, bx, by)[s] = BlocksOf(l, bx, by)[t] => s = t
         /\ \A b \in Area(l) : IsFor(l, bx, by, b) =>
              \E s \in 1..Len(BlocksOf(l, bx, by)) : BlocksOf(l, bx, by)[s] = b
<1> PICK gx, gy, w, h : gx = l.gx /\ gy = l.gy /\ w = l.width /\ h = l.height
  OBVIOUS
<1> PICK x, y : x = l.x /\ y = l.y
  OBVIOUS
<1>1. x \in Nat /\ y \in Nat /\ w \in Nat /\ h \in Nat /\ gx \in Nat \ {0} /\ gy \in Nat \ {0}
  BY DEF IsLaunch
<1>2. CASE ~l.kernel.stride
  <2> PICK b : b = <<x + bx, y + by>>
    OBVIOUS
  <2>1. BlocksOf(l, bx, by) = <<b>>
    BY <1>2 DEF BlocksOf
  <2>2. gx = h /\ gy = w
    BY <1>2 DEF IsLaunch
  <2>3. b \in Area(l)
    BY <1>1, <2>2 DEF Area
  <2>4. IsFor(l, bx, by, b)
    <3>1. b = <<l.x + bx + l.gx * 0, l.y + by + l.gy * 0>>
      BY <1>1
    <3>2. QED
      BY <3>1 DEF IsFor
  <2>5. ASSUME NEW c \in Area(l), IsFor(l, bx, by, c) PROVE c = b
    <3>1. PICK i, j \in Nat : c = <<x + bx + gx * i, y + by + gy * j>>
      BY <2>5 DEF IsFor
    <3>2. x + bx + gx * i <= x + h - 1 /\ y + by + gy * j <= y + w - 1
      BY <3>1 DEF Area
    <3>3. gx * i < gx /\ gy * j < gy /\ gx * i \in Nat /\ gy * j \in Nat
      BY <1>1, <2>2, <3>2
    <3>4. i = 0
      <4>1. SUFFICES ASSUME 1 <= i PROVE FALSE
        OBVIOUS
      <4>2. gx * 1 <= gx * i
        BY <1>1, <4>1, TimesMonotone
      <4>3. QED
        BY <1>1, <3>3, <4>2
    <3>5. j = 0
      <4>1. SUFFICES ASSUME 1 <= j PROVE FALSE
        OBVIOUS
      <4>2. gy * 1 <= gy * j
        BY <1>1, <4>1, TimesMonotone
      <4>3. QED
        BY <1>1, <3>3, <4>2
    <3>6. QED
      BY <1>1, <3>1, <3>4, <3>5
  <2>6. <<b>> \in Seq(Area(l)) /\ Len(<<b>>) = 1 /\ <<b>>[1] = b
    BY <2>3
  <2>7. \A s \in 1..1 : s = 1
    OBVIOUS
  <2>8. QED
    BY <2>1, <2>4, <2>5, <2>6, <2>7
<1>3. CASE l.kernel.stride
  <2> PICK rows, columns : rows = Dealt(bx, h, gx) /\ columns = Dealt(by, w, gy)
    OBVIOUS
  <2> DEFINE at(s) == <<x + bx + gx * ((s - 1) \div columns), y + by + gy * ((s - 1) % columns)>>
  <2>1. BlocksOf(l, bx, by) = [s \in 1..(rows * columns) |-> at(s)]
    BY <1>3 DEF BlocksOf, Dealt
  <2>2. /\ rows \in Nat /\ columns \in Nat
        /\ \A a \in Nat : a < rows <=> bx + gx * a < h
        /\ \A a \in Nat : a < columns <=> by + gy * a < w
    BY <1>1, DealtIs
  <2>3. /\ rows * columns \in Nat
        /\ \A s \in 1..(rows * columns) :
              /\ columns # 0 /\ (s - 1) \div columns \in 0..(rows - 1)
              /\ (s - 1) % columns \in 0..(columns - 1)
        /\ \A s, t \in 1..(rows * columns) :
              (s - 1) \div columns = (t - 1) \div columns /\ (s - 1) % columns = (t - 1) % columns
              => s = t
        /\ \A a \in 0..(rows - 1), c \in 0..(columns - 1) : \E s \in 1..(rows * columns) :
              (s - 1) \div columns = a /\ (s - 1) % columns = c
    <3>1. rows \in Nat /\ columns \in Nat
      BY <2>2
    <3>2. QED
      BY ONLY <3>1, TableIs
  <2> PICK q : q = BlocksOf(l, bx, by)
    OBVIOUS
  <2> DEFINE top(s) == (s - 1) \div columns
             left(s) == (s - 1) % columns
  <2>4. ASSUME NEW s \in 1..(rows * columns)
        PROVE  q[s] \in Area(l) /\ IsFor(l, bx, by, q[s])
               /\ top(s) \in Nat /\ left(s) \in Nat
               /\ q[s] = <<x + bx + gx * top(s), y + by + gy * left(s)>>
    <3>1. top(s) \in 0..(rows - 1) /\ left(s) \in 0..(columns - 1)
      BY <2>3
    <3>2. q[s] = <<x + bx + gx * top(s), y + by + gy * left(s)>>
      BY <2>1
    <3> PICK i, j : i = top(s) /\ j = left(s)
      OBVIOUS
    <3> HIDE DEF top, left, at
    <3>3. i \in Nat /\ j \in Nat /\ i < rows /\ j < columns
      BY <2>2, <3>1
    <3>4. bx + gx * i < h /\ by + gy * j < w /\ gx * i \in Nat /\ gy * j \in Nat
      BY <1>1, <2>2, <3>3
    <3>5. q[s] = <<x + bx + gx * i, y + by + gy * j>>
      BY <3>2
    <3>6. q[s] \in Area(l)
      BY <1>1, <3>4, <3>5 DEF Area
    <3>7. IsFor(l, bx, by, q[s])
      BY <3>3, <3>5 DEF IsFor
    <3>8. QED
      BY <3>2, <3>3, <3>6, <3>7
  <2>5. q = [s \in 1..(rows * columns) |-> q[s]]
    BY <2>1
  <2>6. q \in Seq(Area(l)) /\ Len(q) = rows * columns
    <3> HIDE DEF at, top, left
    <3>1. q \in [1..(rows * columns) -> Area(l)]
      BY <2>4, <2>5
    <3>2. \A A : \A L \in Nat : \A f \in [1..L -> A] : f \in Seq(A) /\ Len(f) = L
      OBVIOUS
    <3>3. QED
      BY ONLY <2>3, <3>1, <3>2
  <2>7. ASSUME NEW s \in 1..(rows * columns), NEW t \in 1..(rows * columns), q[s] = q[t]
        PROVE  s = t
    <3>1. x + bx + gx * top(s) = x + bx + gx * top(t) /\ y + by + gy * left(s) = y + by + gy * left(t)
          /\ top(s) \in Nat /\ left(s) \in Nat /\ top(t) \in Nat /\ left(t) \in Nat
      BY <2>4, <2>7
    <3> PICK i, j, u, v : i = top(s) /\ j = left(s) /\ u = top(t) /\ v = left(t)
      OBVIOUS
    <3>2. bx + gx * i = bx + gx * u /\ by + gy * j = by + gy * v
          /\ i \in Nat /\ j \in Nat /\ u \in Nat /\ v \in Nat
      <4>1. i \in Nat /\ j \in Nat /\ u \in Nat /\ v \in Nat
        BY <3>1
      <4>2. gx * i \in Nat /\ gx * u \in Nat /\ gy * j \in Nat /\ gy * v \in Nat
        BY <1>1, <4>1
      <4>3. x + bx + gx * i = x + bx + gx * u /\ y + by + gy * j = y + by + gy * v
        BY <3>1
      <4> HIDE DEF top, left
      <4>4. QED
        BY <1>1, <4>1, <4>2, <4>3
    <3>3. bx \in 0..(gx - 1) /\ by \in 0..(gy - 1)
      OBVIOUS
    <3>4. i = u /\ j = v
      BY ONLY <1>1, <3>2, <3>3, DealtOnce
    <3>5. QED
      BY <2>3, <3>4
  <2>8. ASSUME NEW b \in Area(l), IsFor(l, bx, by, b)
        PROVE  \E s \in 1..(rows * columns) : q[s] = b
    <3>1. PICK i, j \in Nat : b = <<x + bx + gx * i, y + by + gy * j>>
      BY <2>8 DEF IsFor
    <3>2. x + bx + gx * i <= x + h - 1 /\ y + by + gy * j <= y + w - 1
      BY <3>1 DEF Area
    <3>3. gx * i \in Nat /\ gy * j \in Nat
      BY <1>1
    <3>4. bx + gx * i < h /\ by + gy * j < w
      BY <1>1, <3>2, <3>3
    <3>5. i \in 0..(rows - 1) /\ j \in 0..(columns - 1)
      BY <2>2, <3>4
    <3>6. PICK s \in 1..(rows * columns) : top(s) = i /\ left(s) = j
      BY <2>3, <3>5
    <3>7. q[s] = b
      BY <2>4, <3>1, <3>6
    <3>8. QED
      BY <3>7
  <2>9. QED
    BY <2>4, <2>6, <2>7, <2>8
<1>4. QED
  BY <1>2, <1>3

\* The blocks of thread block t that are left
Left(t) == {t.blocks[i] : i \in DOMAIN t.blocks}

\* Every block of the part is for one thread block.
LEMMA ForOne ==
  ASSUME NEW R \in Nat, NEW l, IsLaunch(l, R), NEW b \in Area(l)
  PROVE  /\ \E bx \in 0..(l.gx - 1), by \in 0..(l.gy - 1) : IsFor(l, bx, by, b)
         /\ \A bx, ux \in 0..(l.gx - 1), by, uy \in 0..(l.gy - 1) :
              IsFor(l, bx, by, b) /\ IsFor(l, ux, uy, b) => bx = ux /\ by = uy
<1> PICK gx, gy, w, h : gx = l.gx /\ gy = l.gy /\ w = l.width /\ h = l.height
  OBVIOUS
<1> PICK x, y : x = l.x /\ y = l.y
  OBVIOUS
<1> PICK i, j : i = b[1] - x /\ j = b[2] - y
  OBVIOUS
<1>1. /\ x \in Nat /\ y \in Nat /\ w \in Nat /\ h \in Nat /\ gx \in Nat /\ gy \in Nat
      /\ i \in 0..(h - 1) /\ j \in 0..(w - 1) /\ b = <<x + i, y + j>>
  BY DEF IsLaunch, Area
<1>2. gx # 0 /\ gy # 0
  BY <1>1 DEF IsLaunch
<1>3. gx \in Nat \ {0} /\ gy \in Nat \ {0} /\ i \in Nat /\ j \in Nat
  BY <1>1, <1>2
<1>4. /\ i \div gx \in Nat /\ i % gx \in 0..(gx - 1) /\ i = gx * (i \div gx) + (i % gx)
      /\ j \div gy \in Nat /\ j % gy \in 0..(gy - 1) /\ j = gy * (j \div gy) + (j % gy)
  BY ONLY <1>3, DivMod
<1>5. IsFor(l, i % gx, j % gy, b)
  <2> PICK p, q, s, t : p = i \div gx /\ q = i % gx /\ s = j \div gy /\ t = j % gy
    OBVIOUS
  <2>1. p \in Nat /\ q \in Nat /\ s \in Nat /\ t \in Nat /\ i = gx * p + q /\ j = gy * s + t
        /\ gx * p \in Nat /\ gy * s \in Nat
    <3>1. p \in Nat /\ q \in Nat /\ s \in Nat /\ t \in Nat /\ i = gx * p + q /\ j = gy * s + t
      BY <1>4
    <3>2. QED
      BY <1>3, <3>1
  <2>2. b = <<x + q + gx * p, y + t + gy * s>>
    BY <1>1, <2>1
  <2>3. QED
    BY <2>1, <2>2 DEF IsFor
<1>6. ASSUME NEW bx \in 0..(gx - 1), NEW ux \in 0..(gx - 1),
             NEW by \in 0..(gy - 1), NEW uy \in 0..(gy - 1),
             IsFor(l, bx, by, b), IsFor(l, ux, uy, b)
      PROVE  bx = ux /\ by = uy
  <2>1. PICK p, s \in Nat : b = <<x + bx + gx * p, y + by + gy * s>>
    BY <1>6 DEF IsFor
  <2>2. PICK q, t \in Nat : b = <<x + ux + gx * q, y + uy + gy * t>>
    BY <1>6 DEF IsFor
  <2>3. gx * p \in Nat /\ gx * q \in Nat /\ gy * s \in Nat /\ gy * t \in Nat
    BY <1>3
  <2>4. bx + gx * p = ux + gx * q /\ by + gy * s = uy + gy * t
    BY <1>1, <2>1, <2>2, <2>3
  <2>5. bx \in 0..(gx - 1) /\ ux \in 0..(gx - 1) /\ by \in 0..(gy - 1) /\ uy \in 0..(gy - 1)
    OBVIOUS
  <2>6. p \in Nat /\ q \in Nat /\ s \in Nat /\ t \in Nat
    OBVIOUS
  <2>7. bx = ux
    BY ONLY <1>3, <2>4, <2>5, <2>6, DealtOnce
  <2>8. by = uy
    BY ONLY <1>3, <2>4, <2>5, <2>6, DealtOnce
  <2>9. QED
    BY <2>7, <2>8
<1>7. QED
  BY <1>4, <1>5, <1>6

\* What the thread blocks of a launch have to do: together each block of the part once
LEMMA ThreadBlocksAre ==
  ASSUME NEW R \in Nat, NEW l, IsLaunch(l, R)
  PROVE  /\ \A t \in ThreadBlocks(l) :
              /\ t = [kernel |-> l.kernel, stream |-> l.stream, device |-> l.device,
                      memory |-> l.memory, blocks |-> t.blocks]
              /\ t.blocks \in Seq(Area(l)) /\ t.blocks # <<>>
              /\ \A i, j \in 1..Len(t.blocks) : t.blocks[i] = t.blocks[j] => i = j
         /\ \A t, u \in ThreadBlocks(l) : t # u => Left(t) \cap Left(u) = {}
         /\ \A b \in Area(l) : \E t \in ThreadBlocks(l) : b \in Left(t)
<1> DEFINE Of(bx, by) == [kernel |-> l.kernel, stream |-> l.stream, device |-> l.device,
                          memory |-> l.memory, blocks |-> BlocksOf(l, bx, by)]
           X == 0..(l.gx - 1)
           Y == 0..(l.gy - 1)
<1>1. ASSUME NEW t PROVE t \in ThreadBlocks(l) <=>
        (\E bx \in X, by \in Y : t = Of(bx, by) /\ BlocksOf(l, bx, by) # <<>>)
  BY DEF ThreadBlocks
<1>2. ASSUME NEW bx \in X, NEW by \in Y
      PROVE  /\ BlocksOf(l, bx, by) \in Seq(Area(l))
             /\ \A b \in Left(Of(bx, by)) : b \in Area(l) /\ IsFor(l, bx, by, b)
             /\ \A i, j \in 1..Len(BlocksOf(l, bx, by)) :
                  BlocksOf(l, bx, by)[i] = BlocksOf(l, bx, by)[j] => i = j
             /\ \A b \in Area(l) : IsFor(l, bx, by, b) => b \in Left(Of(bx, by))
  <2> PICK q : q = BlocksOf(l, bx, by)
    OBVIOUS
  <2>1. /\ q \in Seq(Area(l)) /\ \A s \in 1..Len(q) : IsFor(l, bx, by, q[s])
        /\ \A s, t \in 1..Len(q) : q[s] = q[t] => s = t
        /\ \A b \in Area(l) : IsFor(l, bx, by, b) => \E s \in 1..Len(q) : q[s] = b
    BY BlocksOfIs
  <2>2. Left(Of(bx, by)) = {q[i] : i \in DOMAIN q}
    BY DEF Left
  <2>3. DOMAIN q = 1..Len(q) /\ \A i \in 1..Len(q) : q[i] \in Area(l)
    BY <2>1
  <2>4. QED
    BY <2>1, <2>2, <2>3
<1> HIDE DEF X, Y
<1>3. ASSUME NEW t \in ThreadBlocks(l)
      PROVE  /\ t = [kernel |-> l.kernel, stream |-> l.stream, device |-> l.device,
                      memory |-> l.memory, blocks |-> t.blocks]
             /\ t.blocks \in Seq(Area(l)) /\ t.blocks # <<>>
             /\ \A i, j \in 1..Len(t.blocks) : t.blocks[i] = t.blocks[j] => i = j
  <2>1. PICK bx \in X, by \in Y : t = Of(bx, by) /\ BlocksOf(l, bx, by) # <<>>
    BY <1>1
  <2>2. t.blocks = BlocksOf(l, bx, by)
    BY <2>1
  <2>3. QED
    BY <1>2, <2>1, <2>2
<1>4. ASSUME NEW t \in ThreadBlocks(l), NEW u \in ThreadBlocks(l), NEW b \in Left(t), b \in Left(u)
      PROVE  t = u
  <2>1. PICK bx \in X, by \in Y : t = Of(bx, by)
    BY <1>1
  <2>2. PICK ux \in X, uy \in Y : u = Of(ux, uy)
    BY <1>1
  <2>3. b \in Area(l) /\ IsFor(l, bx, by, b) /\ IsFor(l, ux, uy, b)
    BY <1>2, <1>4, <2>1, <2>2
  <2>4. bx = ux /\ by = uy
    BY <2>3, ForOne DEF X, Y
  <2>5. QED
    BY <2>1, <2>2, <2>4
<1>5. ASSUME NEW b \in Area(l) PROVE \E t \in ThreadBlocks(l) : b \in Left(t)
  <2>1. PICK bx \in X, by \in Y : IsFor(l, bx, by, b)
    BY ForOne DEF X, Y
  <2>2. b \in Left(Of(bx, by))
    BY <1>2, <2>1
  <2>3. BlocksOf(l, bx, by) # <<>>
    BY <2>2 DEF Left
  <2>4. Of(bx, by) \in ThreadBlocks(l)
    BY <1>1, <2>3
  <2>5. QED
    BY <2>2, <2>4
<1>6. QED
  BY <1>3, <1>4, <1>5

-----------------------------------------------------------------------------
(* Programs.                                                               *)

\* An operand that is an alias of the block is the block.
AliasesFit(kernel, b, rr) ==
  ~kernel.global => (kernel.b = "own" => b[2] = rr) /\ (kernel.c = "own" => b[1] = rr)

\* An operand that is the block is an alias of it.
BlockIsAlias(kernel, b, rr) ==
  ~kernel.global => /\ b[2] = rr => kernel.b \in {"own", "pivot"}
                    /\ b[1] = rr => kernel.c \in {"own", "pivot"}

\* The phase of a round in which block b is relaxed
Turn(b, rr) == IF b = <<rr, rr>> THEN 1 ELSE IF b[1] = rr \/ b[2] = rr THEN 2 ELSE 3

\* ... and that of launch i of a round
TurnAt(L, i) == IF i = 1 THEN 1 ELSE IF i <= (IF Len(L) = 4 THEN 3 ELSE 5) THEN 2 ELSE 3

\* The launches of a round go through its phases; each block is once in a launch
\* of its own phase, and else in later ones only.
IsRound(L, rr, R) ==
  /\ L \in Seq({L[i] : i \in DOMAIN L}) /\ Len(L) \in {4, 6, 9}
  /\ \A i \in 1..Len(L) :
       /\ ~IsCopy(L[i]) /\ IsLaunch(L[i], R) /\ L[i].device = 0 /\ L[i].memory = 0
       /\ L[i].stream \in 0..2 /\ (TurnAt(L, i) # 2 => L[i].stream = 0)
       /\ \A b \in Area(L[i]) :
            /\ Turn(b, rr) <= TurnAt(L, i) /\ AliasesFit(L[i].kernel, b, rr)
            /\ Turn(b, rr) = TurnAt(L, i) => BlockIsAlias(L[i].kernel, b, rr)
  /\ \A b \in Cells(R) : \E i \in 1..Len(L) : b \in Area(L[i]) /\ Turn(b, rr) = TurnAt(L, i)
  /\ \A i, j \in 1..Len(L) : \A b \in Area(L[i]) \cap Area(L[j]) :
       Turn(b, rr) = TurnAt(L, i) /\ Turn(b, rr) = TurnAt(L, j) => i = j

LEMMA Joined ==
  ASSUME NEW S, NEW T, NEW s \in Seq(S), NEW t \in Seq(T)
  PROVE  /\ s \o t \in Seq(S \cup T) /\ Len(s \o t) = Len(s) + Len(t)
         /\ \A i \in 1..(Len(s) + Len(t)) :
              (s \o t)[i] = IF i <= Len(s) THEN s[i] ELSE t[i - Len(s)]
<1> PICK U : U = S \cup T
  OBVIOUS
<1>1. s \in Seq(U) /\ t \in Seq(U)
  BY SeqMonotonic
<1>2. QED
  BY <1>1

LEMMA TuplesAre ==
  ASSUME NEW a, NEW b, NEW c, NEW d
  PROVE  /\ <<a>> \in Seq({a}) /\ Len(<<a>>) = 1 /\ <<a>>[1] = a
         /\ <<a, b>> \in Seq({a, b}) /\ Len(<<a, b>>) = 2 /\ <<a, b>>[1] = a /\ <<a, b>>[2] = b
         /\ <<a, b, c, d>> \in Seq({a, b, c, d}) /\ Len(<<a, b, c, d>>) = 4
         /\ <<a, b, c, d>>[1] = a /\ <<a, b, c, d>>[2] = b /\ <<a, b, c, d>>[3] = c
         /\ <<a, b, c, d>>[4] = d
OBVIOUS

LEMMA ElementsOf ==
  ASSUME NEW S, NEW s \in Seq(S)
  PROVE  s \in Seq({s[i] : i \in DOMAIN s}) /\ DOMAIN s = 1..Len(s) /\ Len(s) \in Nat
OBVIOUS

\* l is a launch for a part of the matrix.
IsPart(l, R, kernel, x, y, width, height) ==
  /\ l.kernel = kernel /\ l.x = x /\ l.y = y /\ l.width = width /\ l.height = height
  /\ ~IsCopy(l) /\ IsLaunch(l, R) /\ l.device = 0 /\ l.memory = 0

LEMMA AreaIs ==
  ASSUME NEW R \in Nat, NEW l, IsLaunch(l, R)
  PROVE  Area(l) \subseteq Cells(R)
BY DEF IsLaunch, Area, Cells

LEMMA PartIs ==
  ASSUME NEW R \in Nat, NEW x \in Int, NEW y \in Int, NEW width \in Int, NEW height \in Int,
         NEW l, NEW kernel, IsPart(l, R, kernel, x, y, width, height), NEW u \in Int, NEW v \in Int
  PROVE  <<u, v>> \in Area(l) <=> x <= u /\ u < x + height /\ y <= v /\ v < y + width
BY DEF IsPart, Area

\* A strided kernel that takes for aliases what is the block itself
IsGeneral(kernel) ==
  kernel.stride /\ (kernel.global \/ (kernel.b = "pivot" /\ kernel.c = "pivot"))

\* The first five launches where phase 2 goes round the pivot
IsCross(L, rr, R, kernel) ==
  LET rest == R - rr - 1 IN
  /\ IsPart(L[1], R, kernel, rr, rr, 1, 1)
  /\ IsPart(L[2], R, kernel, rr, 0, rr, 1) /\ IsPart(L[3], R, kernel, rr, rr + 1, rest, 1)
  /\ IsPart(L[4], R, kernel, 0, rr, 1, rr) /\ IsPart(L[5], R, kernel, rr + 1, rr, 1, rest)

\* ... and the last four where phase 3 goes round the row and the column
IsQuadrants(L, rr, R, kernel) ==
  LET rest == R - rr - 1 IN
  /\ IsPart(L[6], R, kernel, 0, 0, rr, rr) /\ IsPart(L[7], R, kernel, 0, rr + 1, rest, rr)
  /\ IsPart(L[8], R, kernel, rr + 1, 0, rr, rest)
  /\ IsPart(L[9], R, kernel, rr + 1, rr + 1, rest, rest)

LEMMA GeneralFits ==
  ASSUME NEW kernel, IsGeneral(kernel), NEW b, NEW rr
  PROVE  AliasesFit(kernel, b, rr) /\ BlockIsAlias(kernel, b, rr)
BY DEF IsGeneral, AliasesFit, BlockIsAlias

LEMMA RoundOfNine ==
  ASSUME NEW R \in Nat, NEW rr \in 0..(R - 1), NEW S, NEW L \in Seq(S), Len(L) = 9,
         NEW kernel, IsGeneral(kernel), IsCross(L, rr, R, kernel), IsQuadrants(L, rr, R, kernel),
         \A i \in 1..9 : L[i].stream = 0
  PROVE  IsRound(L, rr, R)
<1> DEFINE where(b) ==
      IF b[1] = rr THEN IF b[2] = rr THEN 1 ELSE IF b[2] < rr THEN 2 ELSE 3
      ELSE IF b[2] = rr THEN IF b[1] < rr THEN 4 ELSE 5
      ELSE IF b[1] < rr THEN IF b[2] < rr THEN 6 ELSE 7 ELSE IF b[2] < rr THEN 8 ELSE 9
<1>1. \A i \in 1..9 : i = 1 \/ i = 2 \/ i = 3 \/ i = 4 \/ i = 5 \/ i = 6 \/ i = 7 \/ i = 8 \/ i = 9
  OBVIOUS
<1>2. \A i \in 1..9 : TurnAt(L, i) = IF i = 1 THEN 1 ELSE IF i <= 5 THEN 2 ELSE 3
  BY DEF TurnAt
<1>3. ASSUME NEW i \in 1..9
      PROVE  L[i].kernel = kernel /\ ~IsCopy(L[i]) /\ IsLaunch(L[i], R) /\ L[i].device = 0
             /\ L[i].memory = 0 /\ L[i].stream = 0
  BY <1>1 DEF IsCross, IsQuadrants, IsPart
<1>4. ASSUME NEW u \in 0..(R - 1), NEW v \in 0..(R - 1)
      PROVE  \A i \in 1..9 : <<u, v>> \in Area(L[i]) <=> where(<<u, v>>) = i
  <2>1. u \in Int /\ v \in Int /\ rr \in Int /\ R - rr - 1 \in Int /\ rr + 1 \in Int
    OBVIOUS
  <2> DEFINE In(i) == <<u, v>> \in Area(L[i])
  <2>2. /\ In(1) <=> rr <= u /\ u < rr + 1 /\ rr <= v /\ v < rr + 1
        /\ In(2) <=> rr <= u /\ u < rr + 1 /\ 0 <= v /\ v < 0 + rr
        /\ In(3) <=> rr <= u /\ u < rr + 1 /\ rr + 1 <= v /\ v < rr + 1 + (R - rr - 1)
        /\ In(4) <=> 0 <= u /\ u < 0 + rr /\ rr <= v /\ v < rr + 1
        /\ In(5) <=> rr + 1 <= u /\ u < rr + 1 + (R - rr - 1) /\ rr <= v /\ v < rr + 1
    BY <2>1, PartIs DEF IsCross
  <2>3. /\ In(6) <=> 0 <= u /\ u < 0 + rr /\ 0 <= v /\ v < 0 + rr
        /\ In(7) <=> 0 <= u /\ u < 0 + rr /\ rr + 1 <= v /\ v < rr + 1 + (R - rr - 1)
        /\ In(8) <=> rr + 1 <= u /\ u < rr + 1 + (R - rr - 1) /\ 0 <= v /\ v < 0 + rr
        /\ In(9) <=> rr + 1 <= u /\ u < rr + 1 + (R - rr - 1)
                      /\ rr + 1 <= v /\ v < rr + 1 + (R - rr - 1)
    BY <2>1, PartIs DEF IsQuadrants
  <2> HIDE DEF In
  <2>4. \A i \in 1..9 : In(i) <=> where(<<u, v>>) = i
    BY <1>1, <2>2, <2>3
  <2>5. QED
    BY <2>4 DEF In
<1>5. ASSUME NEW b \in Cells(R)
      PROVE  where(b) \in 1..9 /\ \A i \in 1..9 : b \in Area(L[i]) <=> where(b) = i
  <2>1. PICK u, v \in 0..(R - 1) : b = <<u, v>>
    BY DEF Cells
  <2>2. where(b) \in 1..9
    OBVIOUS
  <2> HIDE DEF where
  <2>3. QED
    BY <1>4, <2>1, <2>2
<1>6. ASSUME NEW b \in Cells(R) PROVE Turn(b, rr) = TurnAt(L, where(b))
  <2>1. b = <<b[1], b[2]>> /\ b[1] \in 0..(R - 1) /\ b[2] \in 0..(R - 1)
    BY DEF Cells
  <2>2. where(b) \in 1..9
    BY <1>5
  <2>3. Turn(b, rr) = IF b[1] = rr /\ b[2] = rr THEN 1 ELSE IF b[1] = rr \/ b[2] = rr THEN 2 ELSE 3
    BY <2>1 DEF Turn
  <2>4. QED
    BY <1>2, <2>1, <2>2, <2>3
<1> HIDE DEF where
<1>7. ASSUME NEW i \in 1..9, NEW b \in Area(L[i])
      PROVE  /\ where(b) = i /\ Turn(b, rr) = TurnAt(L, i) /\ TurnAt(L, i) \in Nat
             /\ AliasesFit(L[i].kernel, b, rr) /\ BlockIsAlias(L[i].kernel, b, rr)
  <2>1. b \in Cells(R)
    BY <1>3, AreaIs
  <2>2. where(b) = i /\ Turn(b, rr) = TurnAt(L, i)
    BY <1>5, <1>6, <2>1
  <2>3. TurnAt(L, i) \in Nat
    BY <1>2
  <2>4. QED
    BY <1>3, <2>2, <2>3, GeneralFits
<1>8. (\A t \in Nat : t <= t) /\ 0 \in 0..2
  OBVIOUS
<1>9. L \in Seq({L[i] : i \in DOMAIN L})
  BY ElementsOf
<1>10. \A i \in 1..9 :
       /\ ~IsCopy(L[i]) /\ IsLaunch(L[i], R) /\ L[i].device = 0 /\ L[i].memory = 0
       /\ L[i].stream \in 0..2 /\ (TurnAt(L, i) # 2 => L[i].stream = 0)
       /\ \A b \in Area(L[i]) :
            /\ Turn(b, rr) <= TurnAt(L, i) /\ AliasesFit(L[i].kernel, b, rr)
            /\ Turn(b, rr) = TurnAt(L, i) => BlockIsAlias(L[i].kernel, b, rr)
  BY <1>3, <1>7, <1>8, Zenon
<1>11. \A b \in Cells(R) : \E i \in 1..9 : b \in Area(L[i]) /\ Turn(b, rr) = TurnAt(L, i)
  BY <1>5, <1>6
<1>12. \A i, j \in 1..9 : \A b \in Area(L[i]) \cap Area(L[j]) : i = j
  BY <1>7
<1>13. QED
  BY <1>9, <1>10, <1>11, <1>12 DEF IsRound

\* A kernel for the whole matrix, that finds row and column done
IsLast(kernel) == ~kernel.global /\ kernel.b = "loaded" /\ kernel.c = "loaded"

LEMMA LastFits ==
  ASSUME NEW kernel, IsLast(kernel), NEW b, NEW rr
  PROVE  AliasesFit(kernel, b, rr) /\ (Turn(b, rr) = 3 => BlockIsAlias(kernel, b, rr))
BY DEF IsLast, AliasesFit, BlockIsAlias, Turn

LEMMA RoundOfSix ==
  ASSUME NEW R \in Nat, NEW rr \in 0..(R - 1), NEW S, NEW L \in Seq(S), Len(L) = 6,
         NEW kernel, IsGeneral(kernel), IsCross(L, rr, R, kernel),
         NEW last, IsLast(last), IsPart(L[6], R, last, 0, 0, R, R),
         \A i \in 1..6 : L[i].stream = 0
  PROVE  IsRound(L, rr, R)
<1> DEFINE where(b) ==
      IF b[1] = rr THEN IF b[2] = rr THEN 1 ELSE IF b[2] < rr THEN 2 ELSE 3
      ELSE IF b[2] = rr THEN IF b[1] < rr THEN 4 ELSE 5
      ELSE 6
<1>1. \A i \in 1..6 : i = 1 \/ i = 2 \/ i = 3 \/ i = 4 \/ i = 5 \/ i = 6
  OBVIOUS
<1>2. \A i \in 1..6 : TurnAt(L, i) = IF i = 1 THEN 1 ELSE IF i <= 5 THEN 2 ELSE 3
  BY DEF TurnAt
<1>3. ASSUME NEW i \in 1..6
      PROVE  L[i].kernel = (IF i = 6 THEN last ELSE kernel) /\ ~IsCopy(L[i]) /\ IsLaunch(L[i], R)
             /\ L[i].device = 0 /\ L[i].memory = 0 /\ L[i].stream = 0 /\ 0 \in 0..2
  BY <1>1 DEF IsCross, IsPart
<1>4. ASSUME NEW u \in 0..(R - 1), NEW v \in 0..(R - 1)
      PROVE  /\ \A i \in 1..5 : <<u, v>> \in Area(L[i]) <=> where(<<u, v>>) = i
             /\ <<u, v>> \in Area(L[6])
  <2>1. u \in Int /\ v \in Int /\ rr \in Int /\ R - rr - 1 \in Int /\ rr + 1 \in Int /\ R \in Int
    OBVIOUS
  <2> DEFINE In(i) == <<u, v>> \in Area(L[i])
  <2>2. /\ In(1) <=> rr <= u /\ u < rr + 1 /\ rr <= v /\ v < rr + 1
        /\ In(2) <=> rr <= u /\ u < rr + 1 /\ 0 <= v /\ v < 0 + rr
        /\ In(3) <=> rr <= u /\ u < rr + 1 /\ rr + 1 <= v /\ v < rr + 1 + (R - rr - 1)
        /\ In(4) <=> 0 <= u /\ u < 0 + rr /\ rr <= v /\ v < rr + 1
        /\ In(5) <=> rr + 1 <= u /\ u < rr + 1 + (R - rr - 1) /\ rr <= v /\ v < rr + 1
    BY <2>1, PartIs DEF IsCross
  <2>3. In(6) <=> 0 <= u /\ u < 0 + R /\ 0 <= v /\ v < 0 + R
    BY <2>1, PartIs
  <2> HIDE DEF In
  <2>4. In(6) /\ \A i \in 1..5 : In(i) <=> where(<<u, v>>) = i
    BY <1>1, <2>2, <2>3
  <2>5. QED
    BY <2>4 DEF In
<1>5. ASSUME NEW b \in Cells(R)
      PROVE  /\ where(b) \in 1..6 /\ b \in Area(L[where(b)])
             /\ \A i \in 1..5 : b \in Area(L[i]) => where(b) = i
  <2>1. PICK u, v \in 0..(R - 1) : b = <<u, v>>
    BY DEF Cells
  <2>2. where(b) \in 1..6
    OBVIOUS
  <2>3. where(b) = 6 \/ where(b) \in 1..5
    BY <2>2
  <2> HIDE DEF where
  <2>4. QED
    BY <1>4, <2>1, <2>2, <2>3
<1>6. ASSUME NEW b \in Cells(R) PROVE Turn(b, rr) = TurnAt(L, where(b)) /\ (where(b) # 6 => Turn(b, rr) # 3)
  <2>1. b = <<b[1], b[2]>> /\ b[1] \in 0..(R - 1) /\ b[2] \in 0..(R - 1)
    BY DEF Cells
  <2>2. where(b) \in 1..6
    BY <1>5
  <2>3. Turn(b, rr) = IF b[1] = rr /\ b[2] = rr THEN 1 ELSE IF b[1] = rr \/ b[2] = rr THEN 2 ELSE 3
    BY <2>1 DEF Turn
  <2>4. QED
    BY <1>2, <2>1, <2>2, <2>3
<1> HIDE DEF where
<1>7. ASSUME NEW i \in 1..6, NEW b \in Area(L[i])
      PROVE  /\ Turn(b, rr) <= TurnAt(L, i) /\ AliasesFit(L[i].kernel, b, rr)
             /\ Turn(b, rr) = TurnAt(L, i) => BlockIsAlias(L[i].kernel, b, rr) /\ where(b) = i
  <2>0. b \in Cells(R)
    BY <1>3, AreaIs
  <2>1. CASE i = 6
    <3>1. TurnAt(L, i) = 3 /\ L[i].kernel = last
      BY <1>2, <1>3, <2>1
    <3>2. Turn(b, rr) \in {1, 2, 3}
      BY DEF Turn
    <3>3. Turn(b, rr) = 3 => where(b) = 6
      BY <1>6, <2>0
    <3>4. QED
      BY <2>1, <3>1, <3>2, <3>3, LastFits
  <2>2. CASE i # 6
    <3>1. L[i].kernel = kernel /\ where(b) = i /\ Turn(b, rr) = TurnAt(L, i)
      <4>1. i \in 1..5
        BY <2>2
      <4>2. QED
        BY <1>3, <1>5, <1>6, <2>0, <2>2, <4>1
    <3>2. TurnAt(L, i) \in Nat
      BY <1>2
    <3>3. QED
      BY <3>1, <3>2, GeneralFits
  <2>3. QED
    BY <2>1, <2>2
<1>8. L \in Seq({L[i] : i \in DOMAIN L})
  BY ElementsOf
<1>9. \A i \in 1..6 :
       /\ ~IsCopy(L[i]) /\ IsLaunch(L[i], R) /\ L[i].device = 0 /\ L[i].memory = 0
       /\ L[i].stream \in 0..2 /\ (TurnAt(L, i) # 2 => L[i].stream = 0)
       /\ \A b \in Area(L[i]) :
            /\ Turn(b, rr) <= TurnAt(L, i) /\ AliasesFit(L[i].kernel, b, rr)
            /\ Turn(b, rr) = TurnAt(L, i) => BlockIsAlias(L[i].kernel, b, rr)
  BY <1>3, <1>7, Zenon
<1>10. \A b \in Cells(R) : \E i \in 1..6 : b \in Area(L[i]) /\ Turn(b, rr) = TurnAt(L, i)
  BY <1>5, <1>6
<1>11. \A i, j \in 1..6 : \A b \in Area(L[i]) \cap Area(L[j]) :
         Turn(b, rr) = TurnAt(L, i) /\ Turn(b, rr) = TurnAt(L, j) => i = j
  BY <1>7
<1>12. QED
  BY <1>8, <1>9, <1>10, <1>11 DEF IsRound

\* Kernels for the pivot, its row and its column
IsFirst(kernel) ==
  ~kernel.global /\ kernel.b \in {"own", "pivot"} /\ kernel.c \in {"own", "pivot"}
IsForRow(kernel) ==
  ~kernel.global /\ kernel.b \in {"loaded", "pivot"} /\ kernel.c \in {"own", "pivot"}
IsForColumn(kernel) ==
  ~kernel.global /\ kernel.b \in {"own", "pivot"} /\ kernel.c \in {"loaded", "pivot"}

LEMMA RoundOfFour ==
  ASSUME NEW R \in Nat, NEW rr \in 0..(R - 1), NEW S, NEW L \in Seq(S), Len(L) = 4,
         NEW pivot, IsFirst(pivot), IsPart(L[1], R, pivot, rr, rr, 1, 1), L[1].stream = 0,
         NEW row, IsForRow(row), IsPart(L[2], R, row, rr, 0, R, 1),
         L[2].stream \in 0..2,
         NEW col, IsForColumn(col), IsPart(L[3], R, col, 0, rr, 1, R), L[3].stream \in 0..2,
         NEW last, IsLast(last), IsPart(L[4], R, last, 0, 0, R, R), L[4].stream = 0
  PROVE  IsRound(L, rr, R)
<1>1. \A i \in 1..4 : i = 1 \/ i = 2 \/ i = 3 \/ i = 4
  OBVIOUS
<1>2. \A i \in 1..4 : TurnAt(L, i) = IF i = 1 THEN 1 ELSE IF i <= 3 THEN 2 ELSE 3
  BY DEF TurnAt
<1>3. ASSUME NEW i \in 1..4
      PROVE  /\ ~IsCopy(L[i]) /\ IsLaunch(L[i], R) /\ L[i].device = 0 /\ L[i].memory = 0
             /\ L[i].stream \in 0..2 /\ (TurnAt(L, i) # 2 => L[i].stream = 0)
  BY <1>1, <1>2 DEF IsPart
<1>4. ASSUME NEW u \in 0..(R - 1), NEW v \in 0..(R - 1)
      PROVE  /\ <<u, v>> \in Area(L[1]) <=> u = rr /\ v = rr
             /\ <<u, v>> \in Area(L[2]) <=> u = rr
             /\ <<u, v>> \in Area(L[3]) <=> v = rr
             /\ <<u, v>> \in Area(L[4])
  <2>1. u \in Int /\ v \in Int /\ rr \in Int /\ R \in Int
    OBVIOUS
  <2> DEFINE In(i) == <<u, v>> \in Area(L[i])
  <2>2. /\ In(1) <=> rr <= u /\ u < rr + 1 /\ rr <= v /\ v < rr + 1
        /\ In(2) <=> rr <= u /\ u < rr + 1 /\ 0 <= v /\ v < 0 + R
        /\ In(3) <=> 0 <= u /\ u < 0 + R /\ rr <= v /\ v < rr + 1
        /\ In(4) <=> 0 <= u /\ u < 0 + R /\ 0 <= v /\ v < 0 + R
    BY <2>1, PartIs
  <2> HIDE DEF In
  <2>3. (In(1) <=> u = rr /\ v = rr) /\ (In(2) <=> u = rr) /\ (In(3) <=> v = rr) /\ In(4)
    BY <2>2
  <2>4. QED
    BY <2>3 DEF In
<1>5. ASSUME NEW u \in 0..(R - 1), NEW v \in 0..(R - 1)
      PROVE  Turn(<<u, v>>, rr) = IF u = rr /\ v = rr THEN 1 ELSE IF u = rr \/ v = rr THEN 2 ELSE 3
  BY DEF Turn
<1>6. L[1].kernel = pivot /\ L[2].kernel = row /\ L[3].kernel = col /\ L[4].kernel = last
  BY DEF IsPart
<1>7. ASSUME NEW i \in 1..4, NEW b \in Area(L[i])
      PROVE  /\ Turn(b, rr) <= TurnAt(L, i) /\ AliasesFit(L[i].kernel, b, rr)
             /\ Turn(b, rr) = TurnAt(L, i) => BlockIsAlias(L[i].kernel, b, rr)
             /\ Turn(b, rr) = TurnAt(L, i) =>
                  i = IF b[1] = rr /\ b[2] = rr THEN 1 ELSE IF b[1] = rr THEN 2
                      ELSE IF b[2] = rr THEN 3 ELSE 4
  <2>1. b \in Cells(R)
    BY <1>3, AreaIs
  <2>2. PICK u, v \in 0..(R - 1) : b = <<u, v>>
    BY <2>1 DEF Cells
  <2> PICK t : t = Turn(b, rr)
    OBVIOUS
  <2>3. t = IF u = rr /\ v = rr THEN 1 ELSE IF u = rr \/ v = rr THEN 2 ELSE 3
    BY <1>5, <2>2
  <2>4. (i = 1 => u = rr /\ v = rr) /\ (i = 2 => u = rr) /\ (i = 3 => v = rr)
    BY <1>4, <2>2
  <2>5. TurnAt(L, i) = IF i = 1 THEN 1 ELSE IF i <= 3 THEN 2 ELSE 3
    BY <1>2
  <2>6. AliasesFit(L[i].kernel, b, rr)
    BY <1>1, <1>6, <2>2, <2>4 DEF AliasesFit, IsFirst, IsForRow, IsForColumn, IsLast
  <2>7. t = TurnAt(L, i) => BlockIsAlias(L[i].kernel, b, rr)
    BY <1>1, <1>6, <2>2, <2>3, <2>4, <2>5 DEF BlockIsAlias, IsFirst, IsForRow, IsForColumn, IsLast
  <2>8. QED
    BY <1>1, <2>2, <2>3, <2>4, <2>5, <2>6, <2>7
<1>8. L \in Seq({L[i] : i \in DOMAIN L})
  BY ElementsOf
<1>9. \A i \in 1..4 :
       /\ ~IsCopy(L[i]) /\ IsLaunch(L[i], R) /\ L[i].device = 0 /\ L[i].memory = 0
       /\ L[i].stream \in 0..2 /\ (TurnAt(L, i) # 2 => L[i].stream = 0)
       /\ \A b \in Area(L[i]) :
            /\ Turn(b, rr) <= TurnAt(L, i) /\ AliasesFit(L[i].kernel, b, rr)
            /\ Turn(b, rr) = TurnAt(L, i) => BlockIsAlias(L[i].kernel, b, rr)
  BY <1>3, <1>7, Zenon
<1>10. ASSUME NEW b \in Cells(R)
       PROVE  \E i \in 1..4 : b \in Area(L[i]) /\ Turn(b, rr) = TurnAt(L, i)
  <2>1. PICK u, v \in 0..(R - 1) : b = <<u, v>>
    BY DEF Cells
  <2>2. Turn(b, rr) = IF u = rr /\ v = rr THEN 1 ELSE IF u = rr \/ v = rr THEN 2 ELSE 3
    BY <1>5, <2>1
  <2>3. TurnAt(L, 1) = 1 /\ TurnAt(L, 2) = 2 /\ TurnAt(L, 3) = 2 /\ TurnAt(L, 4) = 3
    BY <1>2
  <2>4. (u = rr /\ v = rr => b \in Area(L[1])) /\ (u = rr => b \in Area(L[2]))
        /\ (v = rr => b \in Area(L[3])) /\ b \in Area(L[4])
    BY <1>4, <2>1
  <2>5. 1 \in 1..4 /\ 2 \in 1..4 /\ 3 \in 1..4 /\ 4 \in 1..4
    OBVIOUS
  <2>6. QED
    BY <2>2, <2>3, <2>4, <2>5
<1>11. \A i, j \in 1..4 : \A b \in Area(L[i]) \cap Area(L[j]) :
         Turn(b, rr) = TurnAt(L, i) /\ Turn(b, rr) = TurnAt(L, j) => i = j
  BY <1>7
<1>12. QED
  BY <1>8, <1>9, <1>10, <1>11 DEF IsRound

\* A grid for a part of the matrix
IsGrid(kernel, gx, gy, width, height) ==
  IF kernel.stride THEN gx = 0 \/ gy = 0 => height = 0 \/ width = 0 ELSE gx = height /\ gy = width

\* A launch on a grid of one thread block
Serial(l) == [l EXCEPT !.gx = 1, !.gy = 1]

\* Launches as in a program's list, or serially
SameOrSerial(K, L, s) == (\A i \in s : K[i] = L[i]) \/ (\A i \in s : K[i] = Serial(L[i]))

StartsWithCross(L, kernel, rr, R) ==
  L[1] = Pivot(kernel, rr) /\ \A i \in 1..4 : L[i + 1] = Cross(kernel, rr, R)[i]
EndsWithQuadrants(L, kernel, rr, R) == \A i \in 1..4 : L[i + 5] = Quadrants(kernel, rr, R)[i]

\* Pivot and Cross, and Quadrants after them, on grids or serially
LEMMA CrossIs ==
  ASSUME NEW R \in Nat, NEW rr \in 0..(R - 1), NEW kernel, IsGeneral(kernel),
         NEW L, NEW K,
         SameOrSerial(K, L, 1..5), StartsWithCross(L, kernel, rr, R)
  PROVE  IsCross(K, rr, R, kernel) /\ \A i \in 1..5 : K[i].stream = 0
<1> PICK rest : rest = R - rr - 1
  OBVIOUS
<1> DEFINE P1 == Launch(kernel, 1, 1, rr, rr, 1, 1)
           P2 == Launch(kernel, rr, 1, rr, 0, rr, 1)
           P3 == Launch(kernel, rest, 1, rr, rr + 1, rest, 1)
           P4 == Launch(kernel, rr, 1, 0, rr, 1, rr)
           P5 == Launch(kernel, rest, 1, rr + 1, rr, 1, rest)
<1>1. rr \in Nat /\ rest \in Nat /\ rr + 1 \in Nat /\ rr + 1 + rest <= R /\ rr + rr <= rr + rr
      /\ 1 \in Nat /\ 0 \in Nat /\ rr + 1 <= R /\ 0 + rr <= R
  OBVIOUS
<1>2. L[1] = P1 /\ L[2] = P2 /\ L[3] = P3 /\ L[4] = P4 /\ L[5] = P5
  <2>1. L[1] = P1
    BY DEF Pivot, StartsWithCross
  <2>2. /\ L[1 + 1] = Cross(kernel, rr, R)[1] /\ L[2 + 1] = Cross(kernel, rr, R)[2]
        /\ L[3 + 1] = Cross(kernel, rr, R)[3] /\ L[4 + 1] = Cross(kernel, rr, R)[4]
    BY DEF StartsWithCross
  <2>3. Cross(kernel, rr, R) = <<P2, P3, P4, P5>>
    BY DEF Cross
  <2> HIDE DEF P1, P2, P3, P4, P5
  <2>4. QED
    BY <2>1, <2>2, <2>3
<1>3. kernel.stride
  BY DEF IsGeneral
<1>4. /\ IsPart(P1, R, kernel, rr, rr, 1, 1) /\ P1.stream = 0
      /\ IsPart(Serial(P1), R, kernel, rr, rr, 1, 1) /\ Serial(P1).stream = 0
  <2>1. IsGrid(kernel, 1, 1, 1, 1)
    BY <1>3 DEF IsGrid
  <2>2. QED
    BY ONLY <1>1, <1>3, <2>1, R \in Nat DEF Launch, IsPart, IsCopy, IsLaunch, IsGrid, Serial
<1>5. /\ IsPart(P2, R, kernel, rr, 0, rr, 1) /\ P2.stream = 0
      /\ IsPart(Serial(P2), R, kernel, rr, 0, rr, 1) /\ Serial(P2).stream = 0
  <2>1. IsGrid(kernel, rr, 1, rr, 1)
    BY <1>3 DEF IsGrid
  <2>2. QED
    BY ONLY <1>1, <1>3, <2>1, R \in Nat DEF Launch, IsPart, IsCopy, IsLaunch, IsGrid, Serial
<1>6. /\ IsPart(P3, R, kernel, rr, rr + 1, rest, 1) /\ P3.stream = 0
      /\ IsPart(Serial(P3), R, kernel, rr, rr + 1, rest, 1) /\ Serial(P3).stream = 0
  <2>1. IsGrid(kernel, rest, 1, rest, 1)
    BY <1>3 DEF IsGrid
  <2>2. QED
    BY ONLY <1>1, <1>3, <2>1, R \in Nat DEF Launch, IsPart, IsCopy, IsLaunch, IsGrid, Serial
<1>7. /\ IsPart(P4, R, kernel, 0, rr, 1, rr) /\ P4.stream = 0
      /\ IsPart(Serial(P4), R, kernel, 0, rr, 1, rr) /\ Serial(P4).stream = 0
  <2>1. IsGrid(kernel, rr, 1, 1, rr)
    BY <1>3 DEF IsGrid
  <2>2. QED
    BY ONLY <1>1, <1>3, <2>1, R \in Nat DEF Launch, IsPart, IsCopy, IsLaunch, IsGrid, Serial
<1>8. /\ IsPart(P5, R, kernel, rr + 1, rr, 1, rest) /\ P5.stream = 0
      /\ IsPart(Serial(P5), R, kernel, rr + 1, rr, 1, rest) /\ Serial(P5).stream = 0
  <2>1. IsGrid(kernel, rest, 1, 1, rest)
    BY <1>3 DEF IsGrid
  <2>2. QED
    BY ONLY <1>1, <1>3, <2>1, R \in Nat DEF Launch, IsPart, IsCopy, IsLaunch, IsGrid, Serial
<1>9. \A i \in 1..5 : i = 1 \/ i = 2 \/ i = 3 \/ i = 4 \/ i = 5
  OBVIOUS
<1> HIDE DEF P1, P2, P3, P4, P5
<1>10. CASE \A i \in 1..5 : K[i] = L[i]
  <2>1. K[1] = P1 /\ K[2] = P2 /\ K[3] = P3 /\ K[4] = P4 /\ K[5] = P5
    BY <1>2, <1>10
  <2>2. QED
    BY <1>4, <1>5, <1>6, <1>7, <1>8, <1>9, <2>1 DEF IsCross
<1>11. CASE \A i \in 1..5 : K[i] = Serial(L[i])
  <2>1. K[1] = Serial(P1) /\ K[2] = Serial(P2) /\ K[3] = Serial(P3) /\ K[4] = Serial(P4)
        /\ K[5] = Serial(P5)
    BY <1>2, <1>11
  <2>2. QED
    BY <1>4, <1>5, <1>6, <1>7, <1>8, <1>9, <2>1 DEF IsCross
<1>12. QED
  BY <1>10, <1>11 DEF SameOrSerial

LEMMA QuadrantsAre ==
  ASSUME NEW R \in Nat, NEW rr \in 0..(R - 1), NEW kernel, IsGeneral(kernel),
         NEW L, NEW K,
         SameOrSerial(K, L, 6..9), EndsWithQuadrants(L, kernel, rr, R)
  PROVE  IsQuadrants(K, rr, R, kernel) /\ \A i \in 6..9 : K[i].stream = 0
<1> PICK rest : rest = R - rr - 1
  OBVIOUS
<1> DEFINE P6 == Launch(kernel, rr, rr, 0, 0, rr, rr)
           P7 == Launch(kernel, rest, rr, 0, rr + 1, rest, rr)
           P8 == Launch(kernel, rr, rest, rr + 1, 0, rr, rest)
           P9 == Launch(kernel, rest, rest, rr + 1, rr + 1, rest, rest)
<1>1. rr \in Nat /\ rest \in Nat /\ rr + 1 \in Nat /\ rr + 1 + rest <= R
      /\ 1 \in Nat /\ 0 \in Nat /\ rr + 1 <= R /\ 0 + rr <= R
  OBVIOUS
<1>2. L[6] = P6 /\ L[7] = P7 /\ L[8] = P8 /\ L[9] = P9
  <2>1. /\ L[1 + 5] = Quadrants(kernel, rr, R)[1] /\ L[2 + 5] = Quadrants(kernel, rr, R)[2]
        /\ L[3 + 5] = Quadrants(kernel, rr, R)[3] /\ L[4 + 5] = Quadrants(kernel, rr, R)[4]
    BY DEF EndsWithQuadrants
  <2>2. Quadrants(kernel, rr, R) = <<P6, P7, P8, P9>>
    BY DEF Quadrants
  <2> HIDE DEF P6, P7, P8, P9
  <2>3. QED
    BY <2>1, <2>2
<1>3. kernel.stride
  BY DEF IsGeneral
<1>4. /\ IsPart(P6, R, kernel, 0, 0, rr, rr) /\ P6.stream = 0
      /\ IsPart(Serial(P6), R, kernel, 0, 0, rr, rr) /\ Serial(P6).stream = 0
  <2>1. IsGrid(kernel, rr, rr, rr, rr)
    BY <1>3 DEF IsGrid
  <2>2. QED
    BY ONLY <1>1, <1>3, <2>1, R \in Nat DEF Launch, IsPart, IsCopy, IsLaunch, IsGrid, Serial
<1>5. /\ IsPart(P7, R, kernel, 0, rr + 1, rest, rr) /\ P7.stream = 0
      /\ IsPart(Serial(P7), R, kernel, 0, rr + 1, rest, rr) /\ Serial(P7).stream = 0
  <2>1. IsGrid(kernel, rest, rr, rest, rr)
    BY <1>3 DEF IsGrid
  <2>2. QED
    BY ONLY <1>1, <1>3, <2>1, R \in Nat DEF Launch, IsPart, IsCopy, IsLaunch, IsGrid, Serial
<1>6. /\ IsPart(P8, R, kernel, rr + 1, 0, rr, rest) /\ P8.stream = 0
      /\ IsPart(Serial(P8), R, kernel, rr + 1, 0, rr, rest) /\ Serial(P8).stream = 0
  <2>1. IsGrid(kernel, rr, rest, rr, rest)
    BY <1>3 DEF IsGrid
  <2>2. QED
    BY ONLY <1>1, <1>3, <2>1, R \in Nat DEF Launch, IsPart, IsCopy, IsLaunch, IsGrid, Serial
<1>7. /\ IsPart(P9, R, kernel, rr + 1, rr + 1, rest, rest) /\ P9.stream = 0
      /\ IsPart(Serial(P9), R, kernel, rr + 1, rr + 1, rest, rest) /\ Serial(P9).stream = 0
  <2>1. IsGrid(kernel, rest, rest, rest, rest)
    BY <1>3 DEF IsGrid
  <2>2. QED
    BY ONLY <1>1, <1>3, <2>1, R \in Nat DEF Launch, IsPart, IsCopy, IsLaunch, IsGrid, Serial
<1>8. \A i \in 6..9 : i = 6 \/ i = 7 \/ i = 8 \/ i = 9
  OBVIOUS
<1> HIDE DEF P6, P7, P8, P9
<1>9. CASE \A i \in 6..9 : K[i] = L[i]
  <2>1. K[6] = P6 /\ K[7] = P7 /\ K[8] = P8 /\ K[9] = P9
    BY <1>2, <1>9
  <2>2. QED
    BY <1>4, <1>5, <1>6, <1>7, <1>8, <2>1 DEF IsQuadrants
<1>10. CASE \A i \in 6..9 : K[i] = Serial(L[i])
  <2>1. K[6] = Serial(P6) /\ K[7] = Serial(P7) /\ K[8] = Serial(P8) /\ K[9] = Serial(P9)
    BY <1>2, <1>10
  <2>2. QED
    BY <1>4, <1>5, <1>6, <1>7, <1>8, <2>1 DEF IsQuadrants
<1>11. QED
  BY <1>9, <1>10 DEF SameOrSerial

LEMMA TupleTypes ==
  ASSUME NEW a, NEW b, NEW c, NEW d
  PROVE  (\E S : <<a>> \in Seq(S)) /\ (\E S : <<a, b>> \in Seq(S)) /\ (\E S : <<a, b, c, d>> \in Seq(S))
<1>1. <<a>> \in Seq({a}) /\ <<a, b>> \in Seq({a, b}) /\ <<a, b, c, d>> \in Seq({a, b, c, d})
  BY TuplesAre
<1>2. QED
  BY <1>1, Zenon

\* The lists of the versions that stride over the parts
IsNine(L, kernel, rr, R) ==
  L = <<Pivot(kernel, rr)>> \o Cross(kernel, rr, R) \o Quadrants(kernel, rr, R)
IsSix(L, kernel, rr, R, last) == L = <<Pivot(kernel, rr)>> \o Cross(kernel, rr, R) \o <<last>>

LEMMA ListOfNine ==
  ASSUME NEW R, NEW rr, NEW kernel, NEW L,
         IsNine(L, kernel, rr, R)
  PROVE  /\ \E S : L \in Seq(S)
         /\ Len(L) = 9 /\ StartsWithCross(L, kernel, rr, R) /\ EndsWithQuadrants(L, kernel, rr, R)
<1> PICK p, c, q : p = <<Pivot(kernel, rr)>> /\ c = Cross(kernel, rr, R) /\ q = Quadrants(kernel, rr, R)
  OBVIOUS
<1>1. /\ \E P : p \in Seq(P)
      /\ \E C : c \in Seq(C)
      /\ \E Q : q \in Seq(Q)
  BY TupleTypes, Zenon DEF Cross, Quadrants
<1>2. Len(p) = 1 /\ p[1] = Pivot(kernel, rr) /\ Len(c) = 4 /\ Len(q) = 4
  BY TuplesAre, Zenon DEF Cross, Quadrants
<1>3. L = (p \o c) \o q
  BY DEF IsNine
<1> PICK P, C, Q : p \in Seq(P) /\ c \in Seq(C) /\ q \in Seq(Q)
  BY <1>1
<1>4. /\ p \o c \in Seq(P \cup C) /\ Len(p \o c) = 5
      /\ \A i \in 1..5 : (p \o c)[i] = IF i <= 1 THEN p[i] ELSE c[i - 1]
  <2>1. /\ p \o c \in Seq(P \cup C) /\ Len(p \o c) = Len(p) + Len(c)
        /\ \A i \in 1..(Len(p) + Len(c)) : (p \o c)[i] = IF i <= Len(p) THEN p[i] ELSE c[i - Len(p)]
    BY Joined
  <2>2. QED
    BY <1>2, <2>1
<1>5. /\ L \in Seq((P \cup C) \cup Q) /\ Len(L) = 9
      /\ \A i \in 1..9 : L[i] = IF i <= 5 THEN (p \o c)[i] ELSE q[i - 5]
  <2> PICK s : s = p \o c
    OBVIOUS
  <2>1. /\ s \o q \in Seq((P \cup C) \cup Q) /\ Len(s \o q) = Len(s) + Len(q)
        /\ \A i \in 1..(Len(s) + Len(q)) : (s \o q)[i] = IF i <= Len(s) THEN s[i] ELSE q[i - Len(s)]
    BY <1>4, Joined
  <2>2. QED
    BY <1>2, <1>3, <1>4, <2>1
<1>6. ASSUME NEW i \in 1..4 PROVE L[i + 1] = c[i] /\ L[i + 5] = q[i]
  <2>1. i + 1 \in 1..9 /\ i + 5 \in 1..9 /\ i + 1 \in 1..5 /\ ~(i + 1 <= 1) /\ i + 1 <= 5 /\ ~(i + 5 <= 5)
        /\ (i + 1) - 1 = i /\ (i + 5) - 5 = i
    OBVIOUS
  <2>2. QED
    BY <1>4, <1>5, <2>1
<1>7. L[1] = p[1]
  BY <1>4, <1>5
<1>8. QED
  BY <1>2, <1>5, <1>6, <1>7 DEF StartsWithCross, EndsWithQuadrants

LEMMA ListOfSix ==
  ASSUME NEW R, NEW rr, NEW kernel, NEW last, NEW L,
         IsSix(L, kernel, rr, R, last)
  PROVE  /\ \E S : L \in Seq(S)
         /\ Len(L) = 6 /\ StartsWithCross(L, kernel, rr, R) /\ L[6] = last
<1> PICK p, c, q : p = <<Pivot(kernel, rr)>> /\ c = Cross(kernel, rr, R) /\ q = <<last>>
  OBVIOUS
<1>1. /\ \E P : p \in Seq(P)
      /\ \E C : c \in Seq(C)
      /\ \E Q : q \in Seq(Q)
  BY TupleTypes, Zenon DEF Cross
<1>2. Len(p) = 1 /\ p[1] = Pivot(kernel, rr) /\ Len(c) = 4 /\ Len(q) = 1 /\ q[1] = last
  BY TuplesAre, Zenon DEF Cross
<1>3. L = (p \o c) \o q
  BY DEF IsSix
<1> PICK P, C, Q : p \in Seq(P) /\ c \in Seq(C) /\ q \in Seq(Q)
  BY <1>1
<1>4. /\ p \o c \in Seq(P \cup C) /\ Len(p \o c) = 5
      /\ \A i \in 1..5 : (p \o c)[i] = IF i <= 1 THEN p[i] ELSE c[i - 1]
  <2>1. /\ p \o c \in Seq(P \cup C) /\ Len(p \o c) = Len(p) + Len(c)
        /\ \A i \in 1..(Len(p) + Len(c)) : (p \o c)[i] = IF i <= Len(p) THEN p[i] ELSE c[i - Len(p)]
    BY Joined
  <2>2. QED
    BY <1>2, <2>1
<1>5. /\ L \in Seq((P \cup C) \cup Q) /\ Len(L) = 6
      /\ \A i \in 1..6 : L[i] = IF i <= 5 THEN (p \o c)[i] ELSE q[i - 5]
  <2> PICK s : s = p \o c
    OBVIOUS
  <2>1. /\ s \o q \in Seq((P \cup C) \cup Q) /\ Len(s \o q) = Len(s) + Len(q)
        /\ \A i \in 1..(Len(s) + Len(q)) : (s \o q)[i] = IF i <= Len(s) THEN s[i] ELSE q[i - Len(s)]
    BY <1>4, Joined
  <2>2. QED
    BY <1>2, <1>3, <1>4, <2>1
<1>6. ASSUME NEW i \in 1..4 PROVE L[i + 1] = c[i]
  <2>1. i + 1 \in 1..6 /\ i + 1 \in 1..5 /\ ~(i + 1 <= 1) /\ i + 1 <= 5 /\ (i + 1) - 1 = i
    OBVIOUS
  <2>2. QED
    BY <1>4, <1>5, <2>1
<1>7. L[1] = p[1] /\ L[6] = q[1]
  BY <1>4, <1>5
<1>8. QED
  BY <1>2, <1>5, <1>6, <1>7 DEF StartsWithCross

LEMMA NineAre ==
  ASSUME NEW R \in Nat, NEW rr \in 0..(R - 1), NEW kernel, IsGeneral(kernel), NEW L,
         IsNine(L, kernel, rr, R)
  PROVE  IsRound(L, rr, R) /\ IsRound(Serially(L), rr, R)
<1>1. /\ \E S : L \in Seq(S)
      /\ Len(L) = 9 /\ StartsWithCross(L, kernel, rr, R) /\ EndsWithQuadrants(L, kernel, rr, R)
  BY ListOfNine
<1> PICK S : L \in Seq(S)
  BY <1>1
<1>2. ASSUME NEW K, NEW T, K \in Seq(T), Len(K) = 9,
             SameOrSerial(K, L, 1..9)
      PROVE  IsRound(K, rr, R)
  <2>1. /\ \A i \in 1..5 : i \in 1..9
        /\ \A i \in 6..9 : i \in 1..9
    OBVIOUS
  <2>2. SameOrSerial(K, L, 1..5) /\ SameOrSerial(K, L, 6..9)
    BY <1>2, <2>1, Zenon DEF SameOrSerial
  <2>4. IsCross(K, rr, R, kernel) /\ \A i \in 1..5 : K[i].stream = 0
    BY <1>1, <2>2, CrossIs
  <2>5. IsQuadrants(K, rr, R, kernel) /\ \A i \in 6..9 : K[i].stream = 0
    BY <1>1, <2>2, QuadrantsAre
  <2>6. \A i \in 1..9 : i \in 1..5 \/ i \in 6..9
    OBVIOUS
  <2>7. \A i \in 1..9 : K[i].stream = 0
    BY <2>4, <2>5, <2>6, Zenon
  <2>8. QED
    BY <1>2, <2>4, <2>5, <2>7, RoundOfNine, Zenon
<1>3. IsRound(L, rr, R)
  <2>1. SameOrSerial(L, L, 1..9)
    BY DEF SameOrSerial
  <2>2. QED
    BY <1>1, <1>2, <2>1
<1>4. Serially(L) = [i \in 1..9 |-> Serial(L[i])]
  <2>1. DOMAIN L = 1..9
    BY ONLY L \in Seq(S), <1>1
  <2>2. QED
    BY ONLY <2>1 DEF Serially, Serial
<1>5. /\ Serially(L) \in Seq({Serial(L[i]) : i \in 1..9}) /\ Len(Serially(L)) = 9
      /\ \A i \in 1..9 : Serially(L)[i] = Serial(L[i])
  <2> HIDE DEF Serial
  <2>1. [i \in 1..9 |-> Serial(L[i])] \in [1..9 -> {Serial(L[i]) : i \in 1..9}]
    OBVIOUS
  <2>2. QED
    BY ONLY <1>4, <2>1
<1>6. IsRound(Serially(L), rr, R)
  <2>1. SameOrSerial(Serially(L), L, 1..9)
    BY <1>5 DEF SameOrSerial
  <2>2. QED
    BY <1>2, <1>5, <2>1
<1>7. QED
  BY <1>3, <1>6

LEMMA SixAre ==
  ASSUME NEW R \in Nat, NEW rr \in 0..(R - 1), NEW kernel, IsGeneral(kernel),
         NEW last, IsLast(last), last.stride, NEW L,
         IsSix(L, kernel, rr, R, All(last, R))
  PROVE  IsRound(L, rr, R)
<1>1. /\ \E S : L \in Seq(S)
      /\ Len(L) = 6 /\ StartsWithCross(L, kernel, rr, R) /\ L[6] = All(last, R)
  BY ListOfSix
<1> PICK S : L \in Seq(S)
  BY <1>1
<1>2. IsCross(L, rr, R, kernel) /\ \A i \in 1..5 : L[i].stream = 0
  <2>1. SameOrSerial(L, L, 1..5)
    BY DEF SameOrSerial
  <2>2. QED
    BY <1>1, <2>1, CrossIs
<1>3. IsPart(L[6], R, last, 0, 0, R, R) /\ L[6].stream = 0
  BY ONLY <1>1, R \in Nat, last.stride DEF All, Launch, IsPart, IsCopy, IsLaunch
<1>4. \A i \in 1..6 : L[i].stream = 0
  <2>1. \A i \in 1..6 : i \in 1..5 \/ i = 6
    OBVIOUS
  <2>2. QED
    BY <1>2, <1>3, <2>1, Zenon
<1>5. QED
  BY <1>1, <1>2, <1>3, <1>4, RoundOfSix, Zenon

\* Four launches that stride, on whatever streams phase 2 is
LEMMA FourAre ==
  ASSUME NEW R \in Nat, NEW rr \in 0..(R - 1),
         NEW pivot, IsFirst(pivot), pivot.stride, NEW row, IsForRow(row), row.stride,
         NEW col, IsForColumn(col), col.stride, NEW last, IsLast(last), last.stride,
         NEW r2, NEW c2,
         r2 = RowOf(row, rr, R) \/ r2 = OnStream(1, RowOf(row, rr, R)),
         c2 = ColumnOf(col, rr, R) \/ c2 = OnStream(2, ColumnOf(col, rr, R)),
         NEW L, L = <<Pivot(pivot, rr), r2, c2, All(last, R)>>
  PROVE  IsRound(L, rr, R)
<1>1. rr \in Nat /\ rr + 1 <= R /\ R - 1 \in Nat
  OBVIOUS
<1>2. /\ L \in Seq({Pivot(pivot, rr), r2, c2, All(last, R)}) /\ Len(L) = 4
      /\ L[1] = Pivot(pivot, rr) /\ L[2] = r2 /\ L[3] = c2 /\ L[4] = All(last, R)
  BY TuplesAre, Zenon
<1>3. IsPart(L[1], R, pivot, rr, rr, 1, 1) /\ L[1].stream = 0
  BY ONLY <1>1, <1>2, R \in Nat, pivot.stride DEF Pivot, Launch, IsPart, IsCopy, IsLaunch
<1>4. IsPart(L[2], R, row, rr, 0, R, 1) /\ L[2].stream \in 0..2
  <2>1. IsPart(RowOf(row, rr, R), R, row, rr, 0, R, 1) /\ RowOf(row, rr, R).stream \in 0..2
    BY ONLY <1>1, R \in Nat, row.stride DEF RowOf, Launch, IsPart, IsCopy, IsLaunch
  <2>2. /\ IsPart(OnStream(1, RowOf(row, rr, R)), R, row, rr, 0, R, 1)
        /\ OnStream(1, RowOf(row, rr, R)).stream \in 0..2
    BY ONLY <1>1, R \in Nat, row.stride DEF RowOf, Launch, OnStream, IsPart, IsCopy, IsLaunch
  <2>3. QED
    BY <1>2, <2>1, <2>2, Zenon
<1>5. IsPart(L[3], R, col, 0, rr, 1, R) /\ L[3].stream \in 0..2
  <2>1. IsPart(ColumnOf(col, rr, R), R, col, 0, rr, 1, R) /\ ColumnOf(col, rr, R).stream \in 0..2
    BY ONLY <1>1, R \in Nat, col.stride DEF ColumnOf, Launch, IsPart, IsCopy, IsLaunch
  <2>2. /\ IsPart(OnStream(2, ColumnOf(col, rr, R)), R, col, 0, rr, 1, R)
        /\ OnStream(2, ColumnOf(col, rr, R)).stream \in 0..2
    BY ONLY <1>1, R \in Nat, col.stride DEF ColumnOf, Launch, OnStream, IsPart, IsCopy, IsLaunch
  <2>3. QED
    BY <1>2, <2>1, <2>2, Zenon
<1>6. IsPart(L[4], R, last, 0, 0, R, R) /\ L[4].stream = 0
  BY ONLY <1>2, R \in Nat, last.stride DEF All, Launch, IsPart, IsCopy, IsLaunch
<1>7. QED
  BY <1>2, <1>3, <1>4, <1>5, <1>6, RoundOfFour, Zenon

\* A list of one, two and two or one more
IsInThree(w, a, b, c, t) == w = <<a>> \o <<b, c>> \o t
HasThree(w, a, b, c, t, S) ==
  /\ w \in Seq({a, b, c} \cup S) /\ Len(w) = 3 + Len(t)
  /\ w[1] = a /\ w[2] = b /\ w[3] = c
  /\ \A i \in 1..Len(t) : w[3 + i] = t[i]

LEMMA ListInThree ==
  ASSUME NEW a, NEW b, NEW c, NEW S, NEW t \in Seq(S), NEW w, IsInThree(w, a, b, c, t)
  PROVE  HasThree(w, a, b, c, t, S)
<1> PICK p, q : p = <<a>> /\ q = <<b, c>>
  OBVIOUS
<1>1. /\ p \in Seq({a}) /\ Len(p) = 1 /\ p[1] = a
      /\ q \in Seq({b, c}) /\ Len(q) = 2 /\ q[1] = b /\ q[2] = c
  BY TuplesAre, Zenon
<1> PICK u : u = p \o q
  OBVIOUS
<1>2. /\ u \in Seq({a} \cup {b, c}) /\ Len(u) = 3
      /\ \A i \in 1..3 : u[i] = IF i <= 1 THEN p[i] ELSE q[i - 1]
  <2>1. /\ p \o q \in Seq({a} \cup {b, c}) /\ Len(p \o q) = Len(p) + Len(q)
        /\ \A i \in 1..(Len(p) + Len(q)) : (p \o q)[i] = IF i <= Len(p) THEN p[i] ELSE q[i - Len(p)]
    BY <1>1, Joined
  <2>2. QED
    BY <1>1, <2>1
<1>3. u[1] = a /\ u[2] = b /\ u[3] = c
  BY <1>1, <1>2
<1>9. w = u \o t
  BY DEF IsInThree
<1>4. /\ w \in Seq(({a} \cup {b, c}) \cup S) /\ Len(w) = 3 + Len(t)
      /\ \A i \in 1..(3 + Len(t)) : w[i] = IF i <= 3 THEN u[i] ELSE t[i - 3]
  <2>1. /\ u \o t \in Seq(({a} \cup {b, c}) \cup S) /\ Len(u \o t) = Len(u) + Len(t)
        /\ \A i \in 1..(Len(u) + Len(t)) : (u \o t)[i] = IF i <= Len(u) THEN u[i] ELSE t[i - Len(u)]
    BY <1>2, Joined
  <2>2. QED
    BY <1>2, <1>9, <2>1
<1>5. Len(t) \in Nat
  OBVIOUS
<1>6. w[1] = a /\ w[2] = b /\ w[3] = c
  BY <1>3, <1>4, <1>5
<1>7. ASSUME NEW i \in 1..Len(t) PROVE w[3 + i] = t[i]
  <2>1. 3 + i \in 1..(3 + Len(t)) /\ ~(3 + i <= 3) /\ (3 + i) - 3 = i
    BY <1>5
  <2>2. QED
    BY <1>4, <2>1
<1>8. ({a} \cup {b, c}) \cup S = {a, b, c} \cup S
  OBVIOUS
<1>10. QED
  BY <1>4, <1>6, <1>7, <1>8 DEF HasThree

\* Four launches of one block for each thread block
LEMMA FourOfOneAre ==
  ASSUME NEW R \in Nat, NEW rr \in 0..(R - 1),
         NEW L, L = <<Pivot(OneBlock("own", "own"), rr)>>
                      \o Phase2(OneBlock("loaded", "own"), OneBlock("own", "loaded"), rr, R)
                      \o <<All(OneBlock("loaded", "loaded"), R)>>
  PROVE  IsRound(L, rr, R)
<1> DEFINE pivot == OneBlock("own", "own")
           row == OneBlock("loaded", "own")
           col == OneBlock("own", "loaded")
           last == OneBlock("loaded", "loaded")
           r2 == OnStream(1, Launch(row, 1, R, rr, 0, R, 1))
           c2 == OnStream(2, Launch(col, R, 1, 0, rr, 1, R))
<1>1. rr \in Nat /\ rr + 1 <= R /\ R - 1 \in Nat
  OBVIOUS
<1>2. IsFirst(pivot) /\ IsForRow(row) /\ IsForColumn(col) /\ IsLast(last)
  BY DEF OneBlock, IsFirst, IsForRow, IsForColumn, IsLast
<1>3. IsPart(Pivot(pivot, rr), R, pivot, rr, rr, 1, 1) /\ Pivot(pivot, rr).stream = 0
  BY ONLY <1>1, R \in Nat DEF OneBlock, Pivot, Launch, IsPart, IsCopy, IsLaunch
<1>4. IsPart(r2, R, row, rr, 0, R, 1) /\ r2.stream \in 0..2
  BY ONLY <1>1, R \in Nat DEF OneBlock, OnStream, Launch, IsPart, IsCopy, IsLaunch
<1>5. IsPart(c2, R, col, 0, rr, 1, R) /\ c2.stream \in 0..2
  BY ONLY <1>1, R \in Nat DEF OneBlock, OnStream, Launch, IsPart, IsCopy, IsLaunch
<1>6. IsPart(All(last, R), R, last, 0, 0, R, R) /\ All(last, R).stream = 0
  BY ONLY <1>1, R \in Nat DEF OneBlock, All, Launch, IsPart, IsCopy, IsLaunch
<1>7. Phase2(row, col, rr, R) = <<r2, c2>>
  BY DEF Phase2
<1> PICK t : t = <<All(last, R)>>
  OBVIOUS
<1>8. t \in Seq({All(last, R)}) /\ Len(t) = 1 /\ t[1] = All(last, R)
  BY TuplesAre, Zenon
<1> HIDE DEF r2, c2, pivot, row, col, last
<1>9. IsInThree(L, Pivot(pivot, rr), r2, c2, t)
  BY <1>7 DEF pivot, row, col, last, IsInThree
<1>10. /\ L \in Seq({Pivot(pivot, rr), r2, c2} \cup {All(last, R)}) /\ Len(L) = 3 + Len(t)
       /\ L[1] = Pivot(pivot, rr) /\ L[2] = r2 /\ L[3] = c2
       /\ \A i \in 1..Len(t) : L[3 + i] = t[i]
  <2>1. HasThree(L, Pivot(pivot, rr), r2, c2, t, {All(last, R)})
    BY <1>8, <1>9, ListInThree
  <2>2. QED
    BY <2>1, Zenon DEF HasThree
<1>11. Len(L) = 4 /\ L[4] = All(last, R)
  <2>1. 1 \in 1..Len(t) /\ 3 + 1 = 4 /\ 3 + Len(t) = 4
    BY <1>8
  <2>2. L[3 + 1] = t[1]
    BY <1>10, <2>1, Zenon
  <2>3. QED
    BY <1>8, <1>10, <2>1, <2>2
<1>12. QED
  BY <1>2, <1>3, <1>4, <1>5, <1>6, <1>10, <1>11, RoundOfFour, Zenon

\* What the host has to do in a round of a version that is right
LEMMA RoundsAre ==
  ASSUME IsInput, Ordered, NEW rr \in 0..(round - 1)
  PROVE  IsRound(RoundOf(version, rr, round), rr, round)
<1> PICK R : R = round
  OBVIOUS
<1>1. R \in Nat /\ rr \in 0..(R - 1)
  BY SizesAre
<1>2. version \in {"hw4-1", "seq", "sample", "corr", "nostream", "global", "old", "t", "prof",
                   "static", "test", "dynamic", "flexable"}
  BY DEF IsInput, Versions, Ordered
<1>3. ASSUME NEW kernel, IsGeneral(kernel), NEW L,
             L = <<Pivot(kernel, rr)>> \o Cross(kernel, rr, R) \o Quadrants(kernel, rr, R)
      PROVE  IsRound(L, rr, R) /\ IsRound(Serially(L), rr, R)
  <2>1. IsNine(L, kernel, rr, R)
    BY <1>3 DEF IsNine
  <2>2. QED
    BY ONLY <1>1, <1>3, <2>1, NineAre
<1>4. CASE version = "seq"
  <2>1. RoundOf(version, rr, R) = seq_block_FW(rr, R)
    BY <1>4 DEF RoundOf
  <2>2. IsGeneral(seq_cal)
    BY DEF IsGeneral, seq_cal, InMatrix
  <2>3. QED
    BY <1>3, <2>1, <2>2 DEF seq_block_FW
<1>5. CASE version = "sample"
  <2>1. RoundOf(version, rr, R) = sample_block_FW(rr, R)
    BY <1>5 DEF RoundOf
  <2>2. IsGeneral(sample_cal)
    BY DEF IsGeneral, sample_cal, InMatrix
  <2>3. QED
    BY <1>3, <2>1, <2>2 DEF sample_block_FW
<1>6. CASE version = "corr"
  <2>1. RoundOf(version, rr, R) = corr_block_FW_cuda(rr, R)
    BY <1>6 DEF RoundOf
  <2>2. IsGeneral(corr_cal_cuda)
    BY DEF IsGeneral, corr_cal_cuda, Strided
  <2>3. QED
    BY <1>3, <2>1, <2>2 DEF corr_block_FW_cuda
<1>7. CASE version = "nostream"
  <2>1. RoundOf(version, rr, R) = nostream_block_FW_cuda(rr, R)
    BY <1>7 DEF RoundOf
  <2>2. IsGeneral(nostream_cal_cuda)
    BY DEF IsGeneral, nostream_cal_cuda, Strided
  <2>3. QED
    BY <1>3, <2>1, <2>2 DEF nostream_block_FW_cuda
<1>8. CASE version = "global"
  <2>1. RoundOf(version, rr, R) = global_block_FW_cuda(rr, R)
    BY <1>8 DEF RoundOf
  <2>2. IsGeneral(global_cal_cuda)
    BY DEF IsGeneral, global_cal_cuda, InMatrix
  <2>3. QED
    BY <1>3, <2>1, <2>2 DEF global_block_FW_cuda
<1>9. CASE version = "old"
  <2>1. RoundOf(version, rr, R) = old_block_FW_cuda(rr, R)
    BY <1>9 DEF RoundOf
  <2>2. IsGeneral(old_cal_cuda)
    BY DEF IsGeneral, old_cal_cuda, Strided
  <2>3. IsLast(old_phase3_cal_cuda) /\ old_phase3_cal_cuda.stride
    BY DEF IsLast, old_phase3_cal_cuda, Strided
  <2>4. IsSix(old_block_FW_cuda(rr, R), old_cal_cuda, rr, R, All(old_phase3_cal_cuda, R))
    BY DEF IsSix, old_block_FW_cuda
  <2>5. QED
    BY <1>1, <2>1, <2>2, <2>3, <2>4, SixAre
<1>10. ASSUME NEW pivot, IsFirst(pivot), pivot.stride, NEW row, IsForRow(row), row.stride,
              NEW col, IsForColumn(col), col.stride, NEW last, IsLast(last), last.stride
       PROVE  /\ IsRound(<<Pivot(pivot, rr), RowOf(row, rr, R), ColumnOf(col, rr, R),
                           All(last, R)>>, rr, R)
              /\ IsRound(<<Pivot(pivot, rr), OnStream(1, RowOf(row, rr, R)),
                           OnStream(2, ColumnOf(col, rr, R)), All(last, R)>>, rr, R)
  BY <1>1, <1>10, FourAre, Zenon
<1>11. /\ IsFirst(Strided("own", "own")) /\ IsFirst(Strided("pivot", "pivot"))
       /\ IsForRow(Strided("loaded", "own")) /\ IsForRow(Strided("pivot", "pivot"))
       /\ IsForColumn(Strided("own", "loaded")) /\ IsForColumn(Strided("pivot", "pivot"))
       /\ IsLast(Strided("loaded", "loaded"))
       /\ \A b, c : Strided(b, c).stride
  BY DEF IsFirst, IsForRow, IsForColumn, IsLast, Strided
<1>12. CASE version = "t"
  <2>1. RoundOf(version, rr, R) = t_block_FW_cuda(rr, R)
    BY <1>12 DEF RoundOf
  <2>2. QED
    BY <1>10, <1>11, <2>1, Zenon DEF t_block_FW_cuda, t_cal_cuda, t_phase3_cal_cuda
<1>13. CASE version = "prof"
  <2>1. RoundOf(version, rr, R) = prof_block_FW_cuda(rr, R)
    BY <1>13 DEF RoundOf
  <2>2. QED
    BY <1>10, <1>11, <2>1, Zenon DEF prof_block_FW_cuda, prof_cal_cuda, prof_phase3_cal_cuda
<1>14. CASE version = "static"
  <2>1. RoundOf(version, rr, R) = static_block_FW_cuda(rr, R)
    BY <1>14 DEF RoundOf
  <2>2. QED
    BY <1>10, <1>11, <2>1, Zenon
    DEF static_block_FW_cuda, static_phase1, static_phase21, static_phase22, static_phase3
<1>15. CASE version = "test"
  <2>1. RoundOf(version, rr, R) = test_block_FW_cuda(rr, R)
    BY <1>15 DEF RoundOf
  <2>2. QED
    BY <1>10, <1>11, <2>1, Zenon
    DEF test_block_FW_cuda, test_phase1, test_phase21, test_phase22, test_phase3
<1>16. CASE version = "dynamic"
  <2>1. RoundOf(version, rr, R) = dynamic_block_FW_cuda(rr, R)
    BY <1>16 DEF RoundOf
  <2>2. QED
    BY <1>10, <1>11, <2>1, Zenon
    DEF dynamic_block_FW_cuda, dynamic_phase1, dynamic_phase21, dynamic_phase22, dynamic_phase3
<1>17. CASE version = "flexable"
  <2>1. RoundOf(version, rr, R) = flexable_block_FW_cuda(rr, R)
    BY <1>17 DEF RoundOf
  <2>2. QED
    BY <1>1, <2>1, FourOfOneAre
    DEF flexable_block_FW_cuda, flexable_phase1, flexable_phase21, flexable_phase22, flexable_phase3
<1>18. CASE version = "hw4-1"
  <2>1. RoundOf(version, rr, R) = block_FW_cuda(rr, R)
    BY <1>18 DEF RoundOf
  <2>2. QED
    BY <1>1, <2>1, FourOfOneAre
    DEF block_FW_cuda, phase1_cal_cuda, phase21_cal_cuda, phase22_cal_cuda, phase3_cal_cuda
<1>19. QED
  BY <1>2, <1>4, <1>5, <1>6, <1>7, <1>8, <1>9, <1>12, <1>13, <1>14, <1>15, <1>16, <1>17, <1>18

\* The matrices of a version
Memories == IF version = "hw4-2" THEN {0, 1} ELSE {0}

\* An operation of the host, in a version that may be wrong
IsOperation(op, rr, R) ==
  IF IsCopy(op) THEN op.from \in Memories /\ op.to \in Memories
  ELSE /\ IsLaunch(op, R) /\ op.memory \in Memories
       /\ \A b \in Area(op) : AliasesFit(op.kernel, b, rr)

LEMMA PivotFits ==
  ASSUME NEW R \in Nat, NEW rr \in 0..(R - 1), NEW m, m \in Memories, 0 \in Memories, NEW d
  PROVE  /\ IsOperation(Pivot(OneBlock("own", "own"), rr), rr, R)
         /\ IsOperation(OnDevice(d, m, Pivot(OneBlock("own", "own"), rr)), rr, R)
<1>1. rr \in Nat /\ rr + 1 <= R
  OBVIOUS
<1> DEFINE l1 == Pivot(OneBlock("own", "own"), rr)
           l2 == OnDevice(d, m, Pivot(OneBlock("own", "own"), rr))
<1>2. ASSUME NEW l \in {l1, l2} PROVE IsOperation(l, rr, R)
  <2>1. /\ ~IsCopy(l) /\ IsLaunch(l, R) /\ l.memory \in Memories
        /\ l.x = rr /\ l.y = rr /\ l.height = 1 /\ l.width = 1
    <3>1. CASE l = l1
      BY ONLY <1>1, <3>1, R \in Nat, 0 \in Memories DEF OneBlock, Pivot, Launch, IsCopy, IsLaunch
    <3>2. CASE l = l2
      BY ONLY <1>1, <3>2, R \in Nat, m \in Memories
      DEF OneBlock, Pivot, OnDevice, Launch, IsCopy, IsLaunch
    <3>3. QED
      BY <3>1, <3>2
  <2>2. \A b \in Area(l) : b[1] = rr /\ b[2] = rr
    BY ONLY <1>1, <2>1 DEF Area
  <2>3. QED
    BY ONLY <2>1, <2>2 DEF IsOperation, AliasesFit
<1>3. QED
  BY <1>2

LEMMA RowFits ==
  ASSUME NEW R \in Nat, NEW rr \in 0..(R - 1), NEW m, m \in Memories, 0 \in Memories, NEW d,
         NEW row, row = OnStream(1, Launch(OneBlock("loaded", "own"), 1, R, rr, 0, R, 1)),
         NEW col, col = OnStream(2, Launch(OneBlock("own", "loaded"), R, 1, 0, rr, 1, R))
  PROVE  /\ IsOperation(row, rr, R) /\ IsOperation(OnDevice(d, m, row), rr, R)
         /\ IsOperation(col, rr, R) /\ IsOperation(OnDevice(d, m, col), rr, R)
<1>1. rr \in Nat /\ rr + 1 <= R
  OBVIOUS
<1>2. ASSUME NEW l, l = row \/ l = OnDevice(d, m, row) PROVE IsOperation(l, rr, R)
  <2>1. /\ ~IsCopy(l) /\ IsLaunch(l, R) /\ l.memory \in Memories
        /\ l.x = rr /\ l.height = 1 /\ l.kernel = OneBlock("loaded", "own")
    <3>1. CASE l = row
      BY ONLY <1>1, <3>1, R \in Nat, 0 \in Memories,
         row = OnStream(1, Launch(OneBlock("loaded", "own"), 1, R, rr, 0, R, 1))
      DEF OneBlock, OnStream, Launch, IsCopy, IsLaunch
    <3>2. CASE l = OnDevice(d, m, row)
      BY ONLY <1>1, <3>2, R \in Nat, m \in Memories,
         row = OnStream(1, Launch(OneBlock("loaded", "own"), 1, R, rr, 0, R, 1))
      DEF OneBlock, OnStream, OnDevice, Launch, IsCopy, IsLaunch
    <3>3. QED
      BY <1>2, <3>1, <3>2
  <2>2. \A b \in Area(l) : b[1] = rr
    BY ONLY <1>1, <2>1 DEF Area
  <2>3. l.kernel.b # "own"
    BY <2>1 DEF OneBlock
  <2>4. QED
    BY ONLY <2>1, <2>2, <2>3 DEF IsOperation, AliasesFit
<1>3. ASSUME NEW l, l = col \/ l = OnDevice(d, m, col) PROVE IsOperation(l, rr, R)
  <2>1. /\ ~IsCopy(l) /\ IsLaunch(l, R) /\ l.memory \in Memories
        /\ l.y = rr /\ l.width = 1 /\ l.kernel = OneBlock("own", "loaded")
    <3>1. CASE l = col
      BY ONLY <1>1, <3>1, R \in Nat, 0 \in Memories,
         col = OnStream(2, Launch(OneBlock("own", "loaded"), R, 1, 0, rr, 1, R))
      DEF OneBlock, OnStream, Launch, IsCopy, IsLaunch
    <3>2. CASE l = OnDevice(d, m, col)
      BY ONLY <1>1, <3>2, R \in Nat, m \in Memories,
         col = OnStream(2, Launch(OneBlock("own", "loaded"), R, 1, 0, rr, 1, R))
      DEF OneBlock, OnStream, OnDevice, Launch, IsCopy, IsLaunch
    <3>3. QED
      BY <1>3, <3>1, <3>2
  <2>2. \A b \in Area(l) : b[2] = rr
    BY ONLY <1>1, <2>1 DEF Area
  <2>3. l.kernel.c # "own"
    BY <2>1 DEF OneBlock
  <2>4. QED
    BY ONLY <2>1, <2>2, <2>3 DEF IsOperation, AliasesFit
<1>4. QED
  BY <1>2, <1>3

LEMMA LastsFit ==
  ASSUME NEW R \in Nat \ {0}, NEW rr, NEW m, m \in Memories, 0 \in Memories, NEW d,
         NEW upper, upper = Upper(OneBlock("loaded", "loaded"), R),
         NEW lower, lower = Lower(OneBlock("loaded", "loaded"), R)
  PROVE  /\ IsOperation(upper, rr, R) /\ IsOperation(Destroyed(OnStream(1, upper)), rr, R)
         /\ IsOperation(Destroyed(OnStream(2, lower)), rr, R)
         /\ IsOperation(OnDevice(d, m, lower), rr, R)
<1> PICK g, h : g = (R + 1) \div 2 /\ h = R \div 2
  OBVIOUS
<1>1. g \in Nat /\ h \in Nat /\ g + h = R /\ g <= R /\ h <= R
  OBVIOUS
<1>2. /\ upper = Launch(OneBlock("loaded", "loaded"), g, R, 0, 0, R, g)
      /\ lower = Launch(OneBlock("loaded", "loaded"), h, R, g, 0, R, h)
  BY DEF Upper, Lower
<1>3. ASSUME NEW l, \/ l = upper \/ l = Destroyed(OnStream(1, upper))
                    \/ l = Destroyed(OnStream(2, lower)) \/ l = OnDevice(d, m, lower)
      PROVE  IsOperation(l, rr, R)
  <2>1. ~IsCopy(l) /\ IsLaunch(l, R) /\ l.memory \in Memories /\ l.kernel = OneBlock("loaded", "loaded")
    <3>1. CASE l = upper
      BY ONLY <1>1, <1>2, <3>1, R \in Nat \ {0}, 0 \in Memories
      DEF OneBlock, Launch, IsCopy, IsLaunch
    <3>2. CASE l = Destroyed(OnStream(1, upper))
      BY ONLY <1>1, <1>2, <3>2, R \in Nat \ {0}, 0 \in Memories
      DEF OneBlock, OnStream, Destroyed, Launch, IsCopy, IsLaunch
    <3>3. CASE l = Destroyed(OnStream(2, lower))
      BY ONLY <1>1, <1>2, <3>3, R \in Nat \ {0}, 0 \in Memories
      DEF OneBlock, OnStream, Destroyed, Launch, IsCopy, IsLaunch
    <3>4. CASE l = OnDevice(d, m, lower)
      BY ONLY <1>1, <1>2, <3>4, R \in Nat \ {0}, m \in Memories
      DEF OneBlock, OnDevice, Launch, IsCopy, IsLaunch
    <3>5. QED
      BY <1>3, <3>1, <3>2, <3>3, <3>4
  <2>2. l.kernel.b # "own" /\ l.kernel.c # "own"
    BY <2>1 DEF OneBlock
  <2>3. QED
    BY ONLY <2>1, <2>2 DEF IsOperation, AliasesFit
<1>4. QED
  BY <1>3

\* What the host has to do in a round, whatever the version
LEMMA OperationsAre ==
  ASSUME IsInput, NEW rr \in 0..(round - 1), NEW i \in DOMAIN RoundOf(version, rr, round)
  PROVE  IsOperation(RoundOf(version, rr, round)[i], rr, round)
<1> PICK R : R = round
  OBVIOUS
<1>1. R \in Nat \ {0} /\ rr \in 0..(R - 1)
  BY SizesAre
<1>2. 0 \in Memories
  BY DEF Memories
<1>3. CASE Ordered
  <2> PICK L : L = RoundOf(version, rr, round)
    OBVIOUS
  <2>1. IsRound(L, rr, R)
    BY <1>3, RoundsAre
  <2>2. i \in 1..Len(L)
    BY <2>1 DEF IsRound
  <2>3. /\ ~IsCopy(L[i]) /\ IsLaunch(L[i], R) /\ L[i].memory = 0
        /\ \A b \in Area(L[i]) : AliasesFit(L[i].kernel, b, rr)
    BY <2>1, <2>2 DEF IsRound
  <2>4. QED
    BY <1>2, <2>3 DEF IsOperation
<1> DEFINE row == OnStream(1, Launch(OneBlock("loaded", "own"), 1, R, rr, 0, R, 1))
           col == OnStream(2, Launch(OneBlock("own", "loaded"), R, 1, 0, rr, 1, R))
           pivot == Pivot(OneBlock("own", "own"), rr)
           upper == Upper(OneBlock("loaded", "loaded"), R)
           lower == Lower(OneBlock("loaded", "loaded"), R)
<1>4. Phase2(OneBlock("loaded", "own"), OneBlock("own", "loaded"), rr, R) = <<row, col>>
  BY DEF Phase2
<1>5. CASE version = "beta"
  <2> DEFINE d1 == Destroyed(OnStream(1, upper))
             d2 == Destroyed(OnStream(2, lower))
  <2>1. RoundOf(version, rr, R) = <<pivot>> \o <<row, col>> \o <<d1, d2>>
    <3>1. RoundOf(version, rr, R) = beta_block_FW_cuda(rr, R)
      BY <1>5 DEF RoundOf
    <3>2. QED
      BY <1>4, <3>1 DEF beta_block_FW_cuda, beta_phase1, beta_phase21, beta_phase22, beta_phase3
  <2>2. IsOperation(pivot, rr, R)
    BY <1>1, <1>2, PivotFits
  <2>3. IsOperation(row, rr, R) /\ IsOperation(col, rr, R)
    BY <1>1, <1>2, RowFits
  <2>4. IsOperation(d1, rr, R) /\ IsOperation(d2, rr, R)
    BY <1>1, <1>2, LastsFit
  <2> HIDE DEF row, col, pivot, upper, lower, d1, d2
  <2> PICK L, t : L = RoundOf(version, rr, R) /\ t = <<d1, d2>>
    OBVIOUS
  <2>5. t \in Seq({d1, d2})
    BY TuplesAre, Zenon
  <2>6. IsInThree(L, pivot, row, col, t)
    BY <2>1 DEF IsInThree
  <2>7. HasThree(L, pivot, row, col, t, {d1, d2})
    BY <2>5, <2>6, ListInThree
  <2>8. L \in Seq({pivot, row, col} \cup {d1, d2})
    BY <2>7 DEF HasThree
  <2>9. L[i] \in {pivot, row, col} \cup {d1, d2}
    BY <2>8
  <2>10. QED
    BY <2>2, <2>3, <2>4, <2>9
<1>6. CASE version = "hw4-2"
  <2> DEFINE c1 == CopyRows(0, 1, (R + 1) \div 2)
             c2 == CopyRows(1, 0, R \div 2)
             l1 == OnDevice(1, 1, lower)
             On1(l) == OnDevice(1, 0, l)
  <2>0. 1 \in Memories
    BY <1>6 DEF Memories
  <2>1. IsOperation(On1(pivot), rr, R)
    BY <1>1, <1>2, PivotFits
  <2>2. IsOperation(On1(row), rr, R) /\ IsOperation(On1(col), rr, R)
    BY <1>1, <1>2, RowFits
  <2>3. IsOperation(upper, rr, R) /\ IsOperation(l1, rr, R)
    BY <1>1, <1>2, <2>0, LastsFit
  <2>4. IsOperation(c1, rr, R) /\ IsOperation(c2, rr, R)
    BY <1>2, <2>0 DEF IsOperation, CopyRows, IsCopy
  <2> PICK p : p = <<pivot>> \o <<row, col>>
    OBVIOUS
  <2> PICK L, q, t : /\ L = RoundOf(version, rr, R) /\ q = [j \in DOMAIN p |-> On1(p[j])]
                     /\ t = <<upper, c1, l1, c2>>
    OBVIOUS
  <2>5. L = q \o t
    <3>1. RoundOf(version, rr, R) = two_block_FW_cuda(rr, R)
      BY <1>6 DEF RoundOf
    <3>2. QED
      BY <1>4, <3>1 DEF two_block_FW_cuda, two_phase1, two_phase21, two_phase22, two_phase3
  <2> HIDE DEF row, col, pivot, upper, lower, c1, c2, l1, On1
  <2>6. p \in Seq({pivot} \cup {row, col})
    BY TuplesAre, Joined
  <2>7. q \in Seq({On1(x) : x \in {pivot, row, col}})
    <3>1. DOMAIN p = 1..Len(p) /\ Len(p) \in Nat /\ \A j \in 1..Len(p) : p[j] \in {pivot, row, col}
      BY <2>6
    <3>2. q \in [1..Len(p) -> {On1(x) : x \in {pivot, row, col}}]
      BY <3>1
    <3>3. QED
      BY <3>1, <3>2
  <2>8. t \in Seq({upper, c1, l1, c2})
    BY TuplesAre, Zenon
  <2>9. L \in Seq({On1(x) : x \in {pivot, row, col}} \cup {upper, c1, l1, c2})
    BY <2>5, <2>7, <2>8, Joined
  <2>10. L[i] \in {On1(x) : x \in {pivot, row, col}} \cup {upper, c1, l1, c2}
    BY <2>9
  <2>11. \A x \in {pivot, row, col} : IsOperation(On1(x), rr, R)
    BY <2>1, <2>2
  <2>12. QED
    BY <2>3, <2>4, <2>10, <2>11
<1>7. QED
  BY <1>3, <1>5, <1>6 DEF Ordered

-----------------------------------------------------------------------------
(* Blocks in shared memory.                                                *)

Local(b) == (0..(Height(b[1]) - 1)) \X (0..(Height(b[2]) - 1))
Held(b) == [Local(b) -> 0..INF]

\* The entry of a block in shared memory that is entry (i, j) of the matrix
At(f, b, i, j) == f[<<i - b[1] * B, j - b[2] * B>>]

LEMMA VertexNumIs ==
  ASSUME NEW N \in Nat \ {0}, DOMAIN dist[0] = Cells(N)
  PROVE  vertex_num = N
<1> DEFINE S == {c[1] : c \in Cells(N)}
<1>1. \A c \in Cells(N) : c[1] \in 0..(N - 1)
  BY DEF Cells
<1>2. \A i \in 0..(N - 1) : i \in S
  <2>1. SUFFICES ASSUME NEW i \in 0..(N - 1) PROVE i \in S
    OBVIOUS
  <2>2. <<i, 0>> \in Cells(N) /\ <<i, 0>>[1] = i
    BY DEF Cells
  <2>3. QED
    BY <2>2, Zenon
<1>3. S = 0..(N - 1)
  BY <1>1, <1>2
<1>4. Max(0..(N - 1)) = N - 1
  <2>1. N - 1 \in 0..(N - 1) /\ \A y \in 0..(N - 1) : N - 1 >= y
    OBVIOUS
  <2>2. Max(0..(N - 1)) \in 0..(N - 1) /\ \A y \in 0..(N - 1) : Max(0..(N - 1)) >= y
    BY <2>1 DEF Max
  <2>3. QED
    BY <2>1, <2>2
<1>5. {c[1] : c \in DOMAIN dist[0]} = 0..(N - 1)
  BY <1>3
<1>6. vertex_num = (N - 1) + 1
  BY ONLY <1>4, <1>5, Zenon DEF vertex_num
<1>7. QED
  BY <1>6

\* Blocks of the matrix
LEMMA BlockOfTwo ==
  ASSUME NEW R, NEW b \in Cells(R)
  PROVE  b = <<b[1], b[2]>> /\ b[1] \in 0..(R - 1) /\ b[2] \in 0..(R - 1)
BY DEF Cells

LEMMA CellsOfIs ==
  ASSUME IsInput, vertex_num = Side, NEW b \in Cells(round)
  PROVE  CellsOf(b) = Span(b[1]) \X Span(b[2])
<1>1. b[1] \in 0..(round - 1) /\ b[2] \in 0..(round - 1)
  BY BlockOfTwo
<1>2. /\ Span(b[1]) = (b[1] * B)..Lesser(b[1] * B + B - 1, Side - 1)
      /\ Span(b[2]) = (b[2] * B)..Lesser(b[2] * B + B - 1, Side - 1)
  BY <1>1, BlockIs
<1>3. QED
  BY <1>2 DEF CellsOf

LEMMA SpanTypes ==
  ASSUME IsInput, NEW i \in 0..(round - 1)
  PROVE  i * B \in Nat /\ Height(i) \in Nat \ {0} /\ Span(i) \subseteq 0..(Side - 1)
<1>1. i * B \in 0..(Side - 1) /\ Height(i) \in 1..B /\ Span(i) \subseteq 0..(Side - 1)
  BY BlockIs
<1>2. B \in Nat /\ Side \in Nat
  BY SizesAre
<1>3. QED
  BY ONLY <1>1, <1>2

\* Entries of the matrix and entries of the block
LEMMA PlaceIs ==
  ASSUME IsInput, NEW b \in Cells(round), NEW i \in Span(b[1]), NEW j \in Span(b[2])
  PROVE  /\ <<i - b[1] * B, j - b[2] * B>> \in Local(b)
         /\ b[1] * B + (i - b[1] * B) = i /\ b[2] * B + (j - b[2] * B) = j
         /\ i \in 0..(Side - 1) /\ j \in 0..(Side - 1)
<1>1. b[1] \in 0..(round - 1) /\ b[2] \in 0..(round - 1)
  BY BlockOfTwo
<1>2. /\ b[1] * B \in Nat /\ Height(b[1]) \in Nat /\ Span(b[1]) \subseteq 0..(Side - 1)
      /\ b[2] * B \in Nat /\ Height(b[2]) \in Nat /\ Span(b[2]) \subseteq 0..(Side - 1)
  BY <1>1, SpanTypes
<1> PICK x, y : x = b[1] * B /\ y = b[2] * B
  OBVIOUS
<1>3. i \in x..(x + Height(b[1]) - 1) /\ j \in y..(y + Height(b[2]) - 1)
  BY DEF Span
<1>4. i - x \in 0..(Height(b[1]) - 1) /\ j - y \in 0..(Height(b[2]) - 1) /\ x + (i - x) = i
      /\ y + (j - y) = j
  BY <1>2, <1>3
<1>5. QED
  BY <1>2, <1>4 DEF Local

\* ... and back
LEMMA LocalIs ==
  ASSUME IsInput, NEW b \in Cells(round), NEW xy \in Local(b)
  PROVE  /\ b[1] * B + xy[1] \in Span(b[1]) /\ b[2] * B + xy[2] \in Span(b[2])
         /\ xy = <<(b[1] * B + xy[1]) - b[1] * B, (b[2] * B + xy[2]) - b[2] * B>>
<1>1. b[1] \in 0..(round - 1) /\ b[2] \in 0..(round - 1)
  BY BlockOfTwo
<1>2. /\ b[1] * B \in Nat /\ Height(b[1]) \in Nat
      /\ b[2] * B \in Nat /\ Height(b[2]) \in Nat
  BY <1>1, SpanTypes
<1> PICK x, y : x = b[1] * B /\ y = b[2] * B
  OBVIOUS
<1>3. xy = <<xy[1], xy[2]>> /\ xy[1] \in 0..(Height(b[1]) - 1) /\ xy[2] \in 0..(Height(b[2]) - 1)
  BY DEF Local
<1> PICK u, v : u = xy[1] /\ v = xy[2]
  OBVIOUS
<1>4. x + u \in x..(x + Height(b[1]) - 1) /\ y + v \in y..(y + Height(b[2]) - 1)
      /\ (x + u) - x = u /\ (y + v) - y = v
  BY <1>2, <1>3
<1>5. QED
  BY <1>3, <1>4 DEF Span

LEMMA SharedIs ==
  ASSUME IsInput, vertex_num = Side, NEW b \in Cells(round), NEW m \in Matrices(Side, INF)
  PROVE  /\ Shared(m, b) \in Held(b)
         /\ \A i \in Span(b[1]), j \in Span(b[2]) : At(Shared(m, b), b, i, j) = m[<<i, j>>]
<1> DEFINE S == {<<c[1] - b[1] * B, c[2] - b[2] * B>> : c \in CellsOf(b)}
<1>1. CellsOf(b) = Span(b[1]) \X Span(b[2])
  BY CellsOfIs
<1>2. \A i \in Span(b[1]), j \in Span(b[2]) :
        /\ <<i - b[1] * B, j - b[2] * B>> \in Local(b)
        /\ b[1] * B + (i - b[1] * B) = i /\ b[2] * B + (j - b[2] * B) = j
        /\ i \in 0..(Side - 1) /\ j \in 0..(Side - 1)
  BY PlaceIs
<1>3. ASSUME NEW s \in S PROVE s \in Local(b)
  <2>1. PICK c \in CellsOf(b) : s = <<c[1] - b[1] * B, c[2] - b[2] * B>>
    OBVIOUS
  <2>2. c[1] \in Span(b[1]) /\ c[2] \in Span(b[2])
    BY <1>1
  <2>3. QED
    BY <1>2, <2>1, <2>2
<1>4. ASSUME NEW xy \in Local(b)
      PROVE  xy \in S /\ m[<<b[1] * B + xy[1], b[2] * B + xy[2]>>] \in 0..INF
  <2> PICK i, j : i = b[1] * B + xy[1] /\ j = b[2] * B + xy[2]
    OBVIOUS
  <2>1. i \in Span(b[1]) /\ j \in Span(b[2]) /\ xy = <<i - b[1] * B, j - b[2] * B>>
    BY LocalIs
  <2>2. <<i, j>> \in CellsOf(b) /\ <<i, j>>[1] = i /\ <<i, j>>[2] = j
    BY <1>1, <2>1
  <2>3. xy \in S
    BY <2>1, <2>2
  <2>4. <<i, j>> \in Cells(Side)
    BY <1>2, <2>1 DEF Cells
  <2>5. QED
    BY <2>3, <2>4 DEF Matrices
<1>5. S = Local(b)
  BY <1>3, <1>4
<1>6. Shared(m, b) = [xy \in S |-> m[<<b[1] * B + xy[1], b[2] * B + xy[2]>>]]
  BY DEF Shared
<1> HIDE DEF S
<1>7. Shared(m, b) = [xy \in Local(b) |-> m[<<b[1] * B + xy[1], b[2] * B + xy[2]>>]]
  BY <1>5, <1>6
<1>8. Shared(m, b) \in Held(b)
  BY <1>4, <1>7 DEF Held
<1>9. ASSUME NEW i \in Span(b[1]), NEW j \in Span(b[2]) PROVE At(Shared(m, b), b, i, j) = m[<<i, j>>]
  <2> PICK xy : xy = <<i - b[1] * B, j - b[2] * B>>
    OBVIOUS
  <2>1. xy \in Local(b) /\ b[1] * B + xy[1] = i /\ b[2] * B + xy[2] = j
    BY <1>2
  <2>2. Shared(m, b)[xy] = m[<<b[1] * B + xy[1], b[2] * B + xy[2]>>]
    BY <1>7, <2>1
  <2>3. QED
    BY <2>1, <2>2 DEF At
<1>10. QED
  BY <1>8, <1>9

LEMMA AtTypes ==
  ASSUME IsInput, NEW b \in Cells(round), NEW f \in Held(b), NEW i \in Span(b[1]), NEW j \in Span(b[2])
  PROVE  At(f, b, i, j) \in 0..INF
<1>1. <<i - b[1] * B, j - b[2] * B>> \in Local(b)
  BY PlaceIs
<1>2. QED
  BY <1>1 DEF Held, At

-----------------------------------------------------------------------------
(* The loop of a kernel with shared memory.                                *)

\* One pass of it, and the operand that it reads
Operand(operand, onPivot, a, loaded) == IF Aliased(operand, onPivot) THEN a ELSE loaded
OnePass(kernel, block, m, a, k) ==
  LET b == IF Aliased(kernel.b, block[2] = r) THEN a ELSE m.b
      c == IF Aliased(kernel.c, block[1] = r) THEN a ELSE m.c
  IN [xy \in DOMAIN a |->
        Lesser(a[xy], Plus(b[<<xy[1], k - 1>>], c[<<k - 1, xy[2]>>]))]

\* What a thread block holds for its block
Holds(m, block) == m.a \in Held(block) /\ m.b \in Held(<<block[1], r>>) /\ m.c \in Held(<<r, block[2]>>)

LEMMA OperandTypes ==
  ASSUME IsInput, r \in 0..(round - 1), NEW block \in Cells(round), NEW kernel,
         ~kernel.global, AliasesFit(kernel, block, r), NEW m, Holds(m, block), NEW a \in Held(block)
  PROVE  /\ <<block[1], r>> \in Cells(round) /\ <<r, block[2]>> \in Cells(round)
         /\ Operand(kernel.b, block[2] = r, a, m.b) \in Held(<<block[1], r>>)
         /\ Operand(kernel.c, block[1] = r, a, m.c) \in Held(<<r, block[2]>>)
<1>1. block = <<block[1], block[2]>> /\ block[1] \in 0..(round - 1) /\ block[2] \in 0..(round - 1)
  BY BlockOfTwo
<1>2. <<block[1], r>> \in Cells(round) /\ <<r, block[2]>> \in Cells(round)
  BY <1>1 DEF Cells
<1>3. Operand(kernel.b, block[2] = r, a, m.b) \in Held(<<block[1], r>>)
  <2>1. CASE Aliased(kernel.b, block[2] = r)
    <3>1. block[2] = r
      BY <2>1 DEF Aliased, AliasesFit
    <3>2. QED
      BY <1>1, <2>1, <3>1 DEF Operand
  <2>2. CASE ~Aliased(kernel.b, block[2] = r)
    BY <2>2 DEF Operand, Holds
  <2>3. QED
    BY <2>1, <2>2
<1>4. Operand(kernel.c, block[1] = r, a, m.c) \in Held(<<r, block[2]>>)
  <2>1. CASE Aliased(kernel.c, block[1] = r)
    <3>1. block[1] = r
      BY <2>1 DEF Aliased, AliasesFit
    <3>2. QED
      BY <1>1, <2>1, <3>1 DEF Operand
  <2>2. CASE ~Aliased(kernel.c, block[1] = r)
    BY <2>2 DEF Operand, Holds
  <2>3. QED
    BY <2>1, <2>2
<1>5. QED
  BY <1>2, <1>3, <1>4

\* The sum of two entries does not wrap.
LEMMA PlusIs ==
  ASSUME NEW x \in 0..INF, NEW y \in 0..INF
  PROVE  Plus(x, y) = x + y
BY SizesAssumption DEF Plus

LEMMA OnePassIs ==
  ASSUME IsInput, vertex_num = Side, r \in 0..(round - 1), NEW block \in Cells(round), NEW kernel,
         ~kernel.global, AliasesFit(kernel, block, r), NEW m, Holds(m, block), NEW a \in Held(block),
         NEW k \in 1..Height(r)
  PROVE  /\ OnePass(kernel, block, m, a, k) \in Held(block)
         /\ r * B + k - 1 \in Span(r)
         /\ \A i \in Span(block[1]), j \in Span(block[2]) :
              At(OnePass(kernel, block, m, a, k), block, i, j) =
                Lesser(At(a, block, i, j),
                       At(Operand(kernel.b, block[2] = r, a, m.b), <<block[1], r>>, i, r * B + k - 1)
                         + At(Operand(kernel.c, block[1] = r, a, m.c), <<r, block[2]>>, r * B + k - 1, j))
<1> PICK b, c : /\ b = Operand(kernel.b, block[2] = r, a, m.b)
                /\ c = Operand(kernel.c, block[1] = r, a, m.c)
  OBVIOUS
<1> PICK h, v : h = OnePass(kernel, block, m, a, k) /\ v = r * B + k - 1
  OBVIOUS
<1>1. /\ <<block[1], r>> \in Cells(round) /\ <<r, block[2]>> \in Cells(round)
      /\ b \in Held(<<block[1], r>>) /\ c \in Held(<<r, block[2]>>)
  BY OperandTypes
<1>2. h = [xy \in Local(block) |-> Lesser(a[xy], Plus(b[<<xy[1], k - 1>>], c[<<k - 1, xy[2]>>]))]
  <2>1. DOMAIN a = Local(block)
    BY DEF Held
  <2>2. QED
    BY <2>1, Zenon DEF OnePass, Operand
<1>3. v \in Span(r) /\ v - r * B = k - 1
  <2>1. r * B \in Nat /\ Height(r) \in Nat
    BY SpanTypes
  <2> PICK z : z = r * B
    OBVIOUS
  <2>2. z + k - 1 \in z..(z + Height(r) - 1) /\ (z + k - 1) - z = k - 1
    BY <2>1
  <2>3. QED
    BY <2>2 DEF Span
<1>4. block = <<block[1], block[2]>> /\ block[1] \in 0..(round - 1) /\ block[2] \in 0..(round - 1)
  BY BlockOfTwo
<1>5. ASSUME NEW i \in Span(block[1]), NEW j \in Span(block[2])
      PROVE  /\ <<i - block[1] * B, j - block[2] * B>> \in Local(block)
             /\ At(a, block, i, j) \in 0..INF
             /\ At(b, <<block[1], r>>, i, v) \in 0..INF /\ At(c, <<r, block[2]>>, v, j) \in 0..INF
             /\ At(h, block, i, j) =
                  Lesser(At(a, block, i, j),
                         At(b, <<block[1], r>>, i, v) + At(c, <<r, block[2]>>, v, j))
  <2> PICK xy : xy = <<i - block[1] * B, j - block[2] * B>>
    OBVIOUS
  <2>1. xy \in Local(block) /\ xy[1] = i - block[1] * B /\ xy[2] = j - block[2] * B
    BY PlaceIs
  <2>2. At(a, block, i, j) = a[xy] /\ At(h, block, i, j) = h[xy]
    BY DEF At
  <2>3. /\ At(b, <<block[1], r>>, i, v) = b[<<xy[1], k - 1>>]
        /\ At(c, <<r, block[2]>>, v, j) = c[<<k - 1, xy[2]>>]
    BY <1>3, <2>1 DEF At
  <2>4. At(a, block, i, j) \in 0..INF
    BY AtTypes
  <2>5. At(b, <<block[1], r>>, i, v) \in 0..INF
    <3>1. i \in Span(<<block[1], r>>[1]) /\ v \in Span(<<block[1], r>>[2])
      BY <1>3
    <3>2. QED
      BY <1>1, <3>1, AtTypes
  <2>6. At(c, <<r, block[2]>>, v, j) \in 0..INF
    <3>1. v \in Span(<<r, block[2]>>[1]) /\ j \in Span(<<r, block[2]>>[2])
      BY <1>3
    <3>2. QED
      BY <1>1, <3>1, AtTypes
  <2>7. h[xy] = Lesser(a[xy], Plus(b[<<xy[1], k - 1>>], c[<<k - 1, xy[2]>>]))
    BY <1>2, <2>1
  <2>8. QED
    BY <2>1, <2>2, <2>3, <2>4, <2>5, <2>6, <2>7, PlusIs
<1>6. ASSUME NEW xy \in Local(block) PROVE h[xy] \in 0..INF
  <2> PICK i, j : i = block[1] * B + xy[1] /\ j = block[2] * B + xy[2]
    OBVIOUS
  <2>1. i \in Span(block[1]) /\ j \in Span(block[2]) /\ xy = <<i - block[1] * B, j - block[2] * B>>
    BY LocalIs
  <2>5. At(h, block, i, j) = h[xy]
    BY <2>1 DEF At
  <2>2. h[xy] = Lesser(At(a, block, i, j),
                       At(b, <<block[1], r>>, i, v) + At(c, <<r, block[2]>>, v, j))
        /\ At(a, block, i, j) \in 0..INF
        /\ At(b, <<block[1], r>>, i, v) \in 0..INF /\ At(c, <<r, block[2]>>, v, j) \in 0..INF
    BY <1>5, <2>1, <2>5
  <2>3. INF \in Nat
    BY SizesAre
  <2>4. QED
    BY ONLY <2>2, <2>3 DEF Lesser
<1>7. h \in Held(block)
  BY <1>2, <1>6 DEF Held
<1>8. QED
  BY <1>3, <1>5, <1>7

LEMMA PassesIs ==
  ASSUME IsInput, vertex_num = Side, r \in 0..(round - 1)
  PROVE  Passes = Height(r)
BY DEF Passes, Height

\* A goes through the contents of a block, pass by pass.
IsLoop(A, kernel, block, m) ==
  /\ A[0] = m.a
  /\ \A k \in 0..Height(r) : A[k] \in Held(block)
  /\ \A k \in 1..Height(r) : A[k] = OnePass(kernel, block, m, A[k - 1], k)

LEMMA RelaxedIs ==
  ASSUME IsInput, vertex_num = Side, r \in 0..(round - 1), NEW block \in Cells(round), NEW kernel,
         ~kernel.global, AliasesFit(kernel, block, r), NEW m, Holds(m, block)
  PROVE  \E A : IsLoop(A, kernel, block, m) /\ Relaxed(kernel, block, m) = A[Height(r)]
<1> PICK N : N = Height(r)
  OBVIOUS
<1> DEFINE S == Held(block)
           step == [k \in 1..N |-> [d \in S |-> OnePass(kernel, block, m, d, k)]]
           After == CHOOSE A : A = [k \in 0..N |-> IF k = 0 THEN m.a
                                                    ELSE OnePass(kernel, block, m, A[k - 1], k)]
<1>1. N \in Nat
  BY SpanTypes
<1>2. \A k \in 1..N, d \in S : OnePass(kernel, block, m, d, k) \in S
  BY OnePassIs
<1>3. step \in [1..N -> [S -> S]]
  BY <1>2
<1>4. m.a \in S
  BY DEF Holds
<1>5. PICK g \in [0..N -> S] : g[0] = m.a /\ \A k \in 1..N : g[k] = step[k][g[k - 1]]
  <2> HIDE DEF step, S
  <2>1. \E g \in [0..N -> S] : Recurs(g, N, m.a, step)
    BY <1>1, <1>3, <1>4, RecursionExists
  <2>2. QED
    BY <2>1 DEF Recurs
<1>6. ASSUME NEW k \in 1..N PROVE g[k] = OnePass(kernel, block, m, g[k - 1], k)
  <2>1. k - 1 \in 0..N /\ g[k - 1] \in S
    BY <1>1
  <2>2. QED
    BY <1>5, <2>1
<1>7. g = [k \in 0..N |-> IF k = 0 THEN m.a ELSE OnePass(kernel, block, m, g[k - 1], k)]
  <2> HIDE DEF S
  <2>1. \A k \in 0..N : g[k] = IF k = 0 THEN m.a ELSE OnePass(kernel, block, m, g[k - 1], k)
    BY <1>1, <1>5, <1>6
  <2>2. QED
    BY <2>1
<1>8. After = [k \in 0..N |-> IF k = 0 THEN m.a ELSE OnePass(kernel, block, m, After[k - 1], k)]
  BY <1>7, Zenon
<1>9. Relaxed(kernel, block, m) = After[N]
  <2>1. Passes = N
    BY PassesIs
  <2>2. QED
    BY <2>1, Zenon DEF Relaxed, OnePass
<1> HIDE DEF After, step
<1> PICK A : A = After
  OBVIOUS
<1>10. A[0] = m.a /\ \A k \in 1..N : A[k] = OnePass(kernel, block, m, A[k - 1], k)
  <2> HIDE DEF S
  <2>1. A = [k \in 0..N |-> IF k = 0 THEN m.a ELSE OnePass(kernel, block, m, A[k - 1], k)]
    BY <1>8
  <2>2. QED
    BY <1>1, <2>1
<1> DEFINE T == {k \in 0..N : A[k] \in S}
<1>11. 0 \in T
  BY <1>1, <1>4, <1>10
<1>12. ASSUME NEW k \in 0..(N - 1), k \in T PROVE k + 1 \in T
  <2>1. k + 1 \in 1..N /\ (k + 1) - 1 = k
    BY <1>1
  <2>2. A[k + 1] = OnePass(kernel, block, m, A[k], k + 1)
    BY <1>10, <2>1
  <2>3. QED
    BY <1>1, <1>2, <1>12, <2>1, <2>2
<1>13. \A k \in 0..N : k \in T
  <2> HIDE DEF T
  <2>1. QED
    BY <1>1, <1>11, <1>12, UpTo
<1>14. IsLoop(A, kernel, block, m)
  BY <1>10, <1>13 DEF IsLoop
<1>15. QED
  BY <1>9, <1>14

\* X is in a block no more, or no less, than the entries of a matrix there.
AtMost(X, b, L) == \A i \in Span(b[1]), j \in Span(b[2]) : At(X, b, i, j) <= L[<<i, j>>]
AtLeast(X, b, L) == \A i \in Span(b[1]), j \in Span(b[2]) : L[<<i, j>>] <= At(X, b, i, j)

\* A block only shrinks, and is a block.
LEMMA RelaxedShrinks ==
  ASSUME IsInput, vertex_num = Side, r \in 0..(round - 1), NEW block \in Cells(round), NEW kernel,
         ~kernel.global, AliasesFit(kernel, block, r), NEW m, Holds(m, block),
         NEW U, AtMost(m.a, block, U), U \in Matrices(Side, INF)
  PROVE  Relaxed(kernel, block, m) \in Held(block) /\ AtMost(Relaxed(kernel, block, m), block, U)
<1>1. PICK A : IsLoop(A, kernel, block, m) /\ Relaxed(kernel, block, m) = A[Height(r)]
  BY RelaxedIs
<1> PICK N : N = Height(r)
  OBVIOUS
<1>2. N \in Nat
  BY SpanTypes
<1> DEFINE T == {k \in 0..N : AtMost(A[k], block, U)}
<1>3. 0 \in T
  BY <1>1, <1>2 DEF IsLoop
<1>4. ASSUME NEW k \in 0..(N - 1), k \in T PROVE k + 1 \in T
  <2>1. k + 1 \in 1..N /\ (k + 1) - 1 = k /\ k \in 0..N /\ k + 1 \in 0..N
    BY <1>2
  <2> PICK h : h = A[k + 1]
    OBVIOUS
  <2>2. h = OnePass(kernel, block, m, A[k], k + 1) /\ A[k] \in Held(block)
    BY <1>1, <2>1 DEF IsLoop
  <2>3. ASSUME NEW i \in Span(block[1]), NEW j \in Span(block[2])
        PROVE  At(h, block, i, j) <= U[<<i, j>>]
    <3>1. At(A[k], block, i, j) <= U[<<i, j>>]
      BY <1>4 DEF AtMost
    <3>2. At(A[k], block, i, j) \in 0..INF /\ At(h, block, i, j) \in 0..INF
      <4>1. A[k + 1] \in Held(block)
        BY <1>1, <2>1 DEF IsLoop
      <4>2. QED
        BY <2>2, <4>1, AtTypes
    <3>3. PICK x : At(h, block, i, j) = Lesser(At(A[k], block, i, j), x)
      <4> PICK a : a = A[k]
        OBVIOUS
      <4>1. a \in Held(block)
        BY <2>2
      <4>2. \A u \in Span(block[1]), v \in Span(block[2]) :
              At(OnePass(kernel, block, m, a, k + 1), block, u, v) =
                Lesser(At(a, block, u, v),
                       At(Operand(kernel.b, block[2] = r, a, m.b), <<block[1], r>>, u, r * B + (k + 1) - 1)
                         + At(Operand(kernel.c, block[1] = r, a, m.c), <<r, block[2]>>,
                              r * B + (k + 1) - 1, v))
        BY <2>1, <4>1, OnePassIs
      <4>3. QED
        BY <2>2, <4>2
    <3>4. U[<<i, j>>] \in 0..INF
      <4>1. i \in 0..(Side - 1) /\ j \in 0..(Side - 1)
        BY PlaceIs
      <4>2. QED
        BY <4>1, SizesAre, EntryType
    <3>5. INF \in Nat
      BY SizesAre
    <3>6. At(h, block, i, j) <= At(A[k], block, i, j)
      BY ONLY <3>2, <3>3, <3>5 DEF Lesser
    <3>7. QED
      BY ONLY <3>1, <3>2, <3>4, <3>5, <3>6
  <2>4. QED
    BY <2>1, <2>3 DEF AtMost
<1> HIDE DEF T
<1>5. \A k \in 0..N : k \in T
  BY <1>2, <1>3, <1>4, UpTo
<1>6. N \in 0..N
  BY <1>2
<1>7. QED
  BY <1>1, <1>5, <1>6 DEF IsLoop, T

\* A pass of the loop, for entry (i, j)
LoopStep(A, kernel, block, m, k, i, j) ==
  /\ k + 1 \in 0..Height(r) /\ r * B + k \in Span(r)
  /\ i \in 0..(Side - 1) /\ j \in 0..(Side - 1) /\ r * B + k \in 0..(Side - 1)
  /\ <<block[1], r>> \in Cells(round) /\ <<r, block[2]>> \in Cells(round)
  /\ A[k] \in Held(block)
  /\ At(A[k], block, i, j) \in 0..INF /\ At(A[k + 1], block, i, j) \in 0..INF
  /\ At(Operand(kernel.b, block[2] = r, A[k], m.b), <<block[1], r>>, i, r * B + k) \in 0..INF
  /\ At(Operand(kernel.c, block[1] = r, A[k], m.c), <<r, block[2]>>, r * B + k, j) \in 0..INF
  /\ At(A[k + 1], block, i, j) =
       Lesser(At(A[k], block, i, j),
              At(Operand(kernel.b, block[2] = r, A[k], m.b), <<block[1], r>>, i, r * B + k)
                + At(Operand(kernel.c, block[1] = r, A[k], m.c), <<r, block[2]>>, r * B + k, j))

LEMMA LoopIs ==
  ASSUME IsInput, vertex_num = Side, r \in 0..(round - 1), NEW block \in Cells(round), NEW kernel,
         ~kernel.global, AliasesFit(kernel, block, r), NEW m, Holds(m, block),
         NEW A, IsLoop(A, kernel, block, m), NEW k \in 0..(Height(r) - 1),
         NEW i \in Span(block[1]), NEW j \in Span(block[2])
  PROVE  LoopStep(A, kernel, block, m, k, i, j)
<1> PICK a, h : a = A[k] /\ h = A[k + 1]
  OBVIOUS
<1>1. Height(r) \in Nat /\ r * B \in Nat
  BY SpanTypes
<1>2. k + 1 \in 1..Height(r) /\ (k + 1) - 1 = k /\ k \in 0..Height(r) /\ k + 1 \in 0..Height(r)
      /\ r * B + (k + 1) - 1 = r * B + k
  BY <1>1
<1>3. a \in Held(block) /\ h \in Held(block) /\ h = OnePass(kernel, block, m, a, k + 1)
  BY <1>2 DEF IsLoop
<1>4. /\ r * B + (k + 1) - 1 \in Span(r)
      /\ \A u \in Span(block[1]), v \in Span(block[2]) :
           At(OnePass(kernel, block, m, a, k + 1), block, u, v) =
             Lesser(At(a, block, u, v),
                    At(Operand(kernel.b, block[2] = r, a, m.b), <<block[1], r>>, u, r * B + (k + 1) - 1)
                      + At(Operand(kernel.c, block[1] = r, a, m.c), <<r, block[2]>>,
                           r * B + (k + 1) - 1, v))
  BY <1>2, <1>3, OnePassIs
<1> PICK v : v = r * B + k
  OBVIOUS
<1>5. /\ v \in Span(r)
      /\ At(h, block, i, j) =
             Lesser(At(a, block, i, j),
                    At(Operand(kernel.b, block[2] = r, a, m.b), <<block[1], r>>, i, v)
                      + At(Operand(kernel.c, block[1] = r, a, m.c), <<r, block[2]>>, v, j))
  BY <1>2, <1>3, <1>4
<1>6. At(a, block, i, j) \in 0..INF /\ At(h, block, i, j) \in 0..INF
  BY <1>3, AtTypes
<1>7. i \in 0..(Side - 1) /\ j \in 0..(Side - 1) /\ v \in 0..(Side - 1)
  BY <1>5, PlaceIs, SpanTypes
<1> PICK b, c : /\ b = Operand(kernel.b, block[2] = r, a, m.b)
                /\ c = Operand(kernel.c, block[1] = r, a, m.c)
  OBVIOUS
<1>8. /\ <<block[1], r>> \in Cells(round) /\ <<r, block[2]>> \in Cells(round)
      /\ b \in Held(<<block[1], r>>) /\ c \in Held(<<r, block[2]>>)
  BY <1>3, OperandTypes
<1>9. At(b, <<block[1], r>>, i, v) \in 0..INF
  <2>1. i \in Span(<<block[1], r>>[1]) /\ v \in Span(<<block[1], r>>[2])
    BY <1>5
  <2>2. QED
    BY <1>8, <2>1, AtTypes
<1>10. At(c, <<r, block[2]>>, v, j) \in 0..INF
  <2>1. v \in Span(<<r, block[2]>>[1]) /\ j \in Span(<<r, block[2]>>[2])
    BY <1>5
  <2>2. QED
    BY <1>8, <2>1, AtTypes
<1>11. QED
  BY <1>2, <1>3, <1>5, <1>6, <1>7, <1>8, <1>9, <1>10 DEF LoopStep

\* L is a matrix that no detour through a vertex of block r of a dimension shortens.
NoDetour(L) ==
  /\ L \in Matrices(Side, INF)
  /\ \A v \in Span(r) : \A i, j \in 0..(Side - 1) : L[<<i, j>>] <= L[<<i, v>>] + L[<<v, j>>]

LEMMA RelaxedStaysAbove ==
  ASSUME IsInput, vertex_num = Side, r \in 0..(round - 1), NEW block \in Cells(round), NEW kernel,
         ~kernel.global, AliasesFit(kernel, block, r), NEW m, Holds(m, block), NEW L, NoDetour(L),
         AtLeast(m.a, block, L), AtLeast(m.b, <<block[1], r>>, L), AtLeast(m.c, <<r, block[2]>>, L)
  PROVE  AtLeast(Relaxed(kernel, block, m), block, L)
<1>1. PICK A : IsLoop(A, kernel, block, m) /\ Relaxed(kernel, block, m) = A[Height(r)]
  BY RelaxedIs
<1> PICK N : N = Height(r)
  OBVIOUS
<1>2. N \in Nat
  BY SpanTypes
<1>3. block = <<block[1], block[2]>>
  BY BlockOfTwo
<1> DEFINE T == {k \in 0..N : AtLeast(A[k], block, L)}
<1>4. 0 \in T
  BY <1>1, <1>2 DEF IsLoop
<1>5. ASSUME NEW k \in 0..(N - 1), k \in T PROVE k + 1 \in T
  <2>1. ASSUME NEW i \in Span(block[1]), NEW j \in Span(block[2])
        PROVE  L[<<i, j>>] <= At(A[k + 1], block, i, j)
    <3> PICK b, c, v : /\ b = Operand(kernel.b, block[2] = r, A[k], m.b)
                       /\ c = Operand(kernel.c, block[1] = r, A[k], m.c)
                       /\ v = r * B + k
      OBVIOUS
    <3> PICK p, q : p = At(b, <<block[1], r>>, i, v) /\ q = At(c, <<r, block[2]>>, v, j)
      OBVIOUS
    <3>1. /\ v \in Span(r)
          /\ i \in 0..(Side - 1) /\ j \in 0..(Side - 1) /\ v \in 0..(Side - 1)
          /\ At(A[k], block, i, j) \in 0..INF /\ p \in 0..INF /\ q \in 0..INF
          /\ At(A[k + 1], block, i, j) = Lesser(At(A[k], block, i, j), p + q)
      <4>1. LoopStep(A, kernel, block, m, k, i, j)
        BY <1>1, LoopIs
      <4>2. QED
        BY <4>1 DEF LoopStep
    <3>2. L[<<i, j>>] <= At(A[k], block, i, j)
      BY <1>5 DEF AtLeast
    <3>3. L[<<i, v>>] <= p
      <4>1. CASE Aliased(kernel.b, block[2] = r)
        <5>1. block[2] = r
          BY <4>1 DEF Aliased, AliasesFit
        <5>2. b = A[k]
          BY <4>1 DEF Operand
        <5>3. L[<<i, v>>] <= At(A[k], block, i, v)
          BY <1>5, <3>1, <5>1 DEF AtLeast
        <5>4. QED
          BY <1>3, <5>1, <5>2, <5>3
      <4>2. CASE ~Aliased(kernel.b, block[2] = r)
        <5>1. b = m.b
          BY <4>2 DEF Operand
        <5>2. QED
          BY <3>1, <5>1 DEF AtLeast
      <4>3. QED
        BY <4>1, <4>2
    <3>4. L[<<v, j>>] <= q
      <4>1. CASE Aliased(kernel.c, block[1] = r)
        <5>1. block[1] = r
          BY <4>1 DEF Aliased, AliasesFit
        <5>2. c = A[k]
          BY <4>1 DEF Operand
        <5>3. L[<<v, j>>] <= At(A[k], block, v, j)
          BY <1>5, <3>1, <5>1 DEF AtLeast
        <5>4. QED
          BY <1>3, <5>1, <5>2, <5>3
      <4>2. CASE ~Aliased(kernel.c, block[1] = r)
        <5>1. c = m.c
          BY <4>2 DEF Operand
        <5>2. QED
          BY <3>1, <5>1 DEF AtLeast
      <4>3. QED
        BY <4>1, <4>2
    <3>5. L[<<i, j>>] <= L[<<i, v>>] + L[<<v, j>>]
      BY <3>1 DEF NoDetour
    <3>6. L[<<i, j>>] \in 0..INF /\ L[<<i, v>>] \in 0..INF /\ L[<<v, j>>] \in 0..INF
      BY <3>1, SizesAre, EntryType DEF NoDetour
    <3>7. INF \in Nat
      BY SizesAre
    <3>8. QED
      BY ONLY <3>1, <3>2, <3>3, <3>4, <3>5, <3>6, <3>7 DEF Lesser
  <2>2. k + 1 \in 0..N
    BY <1>2
  <2>3. QED
    BY <2>1, <2>2 DEF AtLeast
<1> HIDE DEF T
<1>6. \A k \in 0..N : k \in T
  BY <1>2, <1>4, <1>5, UpTo
<1>7. N \in 0..N
  BY <1>2
<1>8. QED
  BY <1>1, <1>6, <1>7 DEF T

\* A block goes through the steps of the round, if the operands that it does not
\* relax itself have gone through them.
LEMMA RelaxedReaches ==
  ASSUME IsInput, vertex_num = Side, r \in 0..(round - 1), NEW block \in Cells(round), NEW kernel,
         ~kernel.global, AliasesFit(kernel, block, r), NEW m, Holds(m, block),
         NEW w, NEW D, IsSteps(D, w, Side, INF), AtMost(m.a, block, D[r * B]),
         Aliased(kernel.b, block[2] = r) \/ AtMost(m.b, <<block[1], r>>, D[End(r)]),
         Aliased(kernel.c, block[1] = r) \/ AtMost(m.c, <<r, block[2]>>, D[End(r)])
  PROVE  AtMost(Relaxed(kernel, block, m), block, D[End(r)])
<1>1. PICK A : IsLoop(A, kernel, block, m) /\ Relaxed(kernel, block, m) = A[Height(r)]
  BY RelaxedIs
<1> PICK N, s : N = Height(r) /\ s = r * B
  OBVIOUS
<1>2. N \in Nat /\ s \in Nat /\ s + N = End(r) /\ End(r) \in 1..Side /\ Side \in Nat
  BY SpanTypes, BlockIs, SizesAre
<1>3. block = <<block[1], block[2]>>
  BY BlockOfTwo
<1> DEFINE T == {k \in 0..N : AtMost(A[k], block, D[s + k])}
<1>4. 0 \in T
  <2>1. s + 0 = s /\ 0 \in 0..N
    BY <1>2
  <2>2. QED
    BY <1>1, <2>1 DEF IsLoop
<1>5. ASSUME NEW k \in 0..(N - 1), k \in T PROVE k + 1 \in T
  <2>0. /\ k + 1 \in 0..N /\ s + (k + 1) = (s + k) + 1 /\ s + k \in 0..(Side - 1)
        /\ s + k \in 0..Side /\ End(r) \in (s + k)..Side
    BY <1>2
  <2>1. ASSUME NEW i \in Span(block[1]), NEW j \in Span(block[2])
        PROVE  At(A[k + 1], block, i, j) <= D[s + (k + 1)][<<i, j>>]
    <3> PICK b, c, v : /\ b = Operand(kernel.b, block[2] = r, A[k], m.b)
                       /\ c = Operand(kernel.c, block[1] = r, A[k], m.c)
                       /\ v = s + k
      OBVIOUS
    <3> PICK p, q : p = At(b, <<block[1], r>>, i, v) /\ q = At(c, <<r, block[2]>>, v, j)
      OBVIOUS
    <3>1. /\ v \in Span(r)
          /\ i \in 0..(Side - 1) /\ j \in 0..(Side - 1) /\ v \in 0..(Side - 1)
          /\ At(A[k], block, i, j) \in 0..INF /\ p \in 0..INF /\ q \in 0..INF
          /\ At(A[k + 1], block, i, j) = Lesser(At(A[k], block, i, j), p + q)
      <4>1. LoopStep(A, kernel, block, m, k, i, j)
        BY <1>1, LoopIs
      <4>2. QED
        BY <4>1 DEF LoopStep
    <3>2. At(A[k], block, i, j) <= D[v][<<i, j>>]
      BY <1>5 DEF AtMost
    <3>3. p <= D[v][<<i, v>>]
      <4>1. CASE Aliased(kernel.b, block[2] = r)
        <5>1. block[2] = r
          BY <4>1 DEF Aliased, AliasesFit
        <5>2. b = A[k]
          BY <4>1 DEF Operand
        <5>3. At(A[k], block, i, v) <= D[v][<<i, v>>]
          BY <1>5, <3>1, <5>1 DEF AtMost
        <5>4. QED
          BY <1>3, <5>1, <5>2, <5>3
      <4>2. CASE ~Aliased(kernel.b, block[2] = r)
        <5>1. b = m.b
          BY <4>2 DEF Operand
        <5>2. p <= D[End(r)][<<i, v>>]
          BY <3>1, <4>2, <5>1 DEF AtMost
        <5>3. D[End(r)][<<i, v>>] <= D[v][<<i, v>>]
          BY <2>0, <3>1, SizesAre, StepsDecrease
        <5>4. D[End(r)][<<i, v>>] \in 0..INF /\ D[v][<<i, v>>] \in 0..INF
          BY <1>2, <2>0, <3>1, SizesAre, StepsTypes
        <5>5. QED
          BY ONLY <3>1, <5>2, <5>3, <5>4, SizesAssumption
      <4>3. QED
        BY <4>1, <4>2
    <3>4. q <= D[v][<<v, j>>]
      <4>1. CASE Aliased(kernel.c, block[1] = r)
        <5>1. block[1] = r
          BY <4>1 DEF Aliased, AliasesFit
        <5>2. c = A[k]
          BY <4>1 DEF Operand
        <5>3. At(A[k], block, v, j) <= D[v][<<v, j>>]
          BY <1>5, <3>1, <5>1 DEF AtMost
        <5>4. QED
          BY <1>3, <5>1, <5>2, <5>3
      <4>2. CASE ~Aliased(kernel.c, block[1] = r)
        <5>1. c = m.c
          BY <4>2 DEF Operand
        <5>2. q <= D[End(r)][<<v, j>>]
          BY <3>1, <4>2, <5>1 DEF AtMost
        <5>3. D[End(r)][<<v, j>>] <= D[v][<<v, j>>]
          BY <2>0, <3>1, SizesAre, StepsDecrease
        <5>4. D[End(r)][<<v, j>>] \in 0..INF /\ D[v][<<v, j>>] \in 0..INF
          BY <1>2, <2>0, <3>1, SizesAre, StepsTypes
        <5>5. QED
          BY ONLY <3>1, <5>2, <5>3, <5>4, SizesAssumption
      <4>3. QED
        BY <4>1, <4>2
    <3>5. D[v + 1][<<i, j>>] = Lesser(D[v][<<i, j>>], D[v][<<i, v>>] + D[v][<<v, j>>])
      BY <2>0, <3>1 DEF IsSteps
    <3>6. D[v][<<i, j>>] \in 0..INF /\ D[v][<<i, v>>] \in 0..INF /\ D[v][<<v, j>>] \in 0..INF
      BY <2>0, <3>1, SizesAre, StepsTypes
    <3>7. At(A[k + 1], block, i, j) <= D[v + 1][<<i, j>>]
      BY ONLY <3>1, <3>2, <3>3, <3>4, <3>5, <3>6, SizesAssumption DEF Lesser
    <3>8. QED
      BY <2>0, <3>7
  <2>3. QED
    BY <2>0, <2>1 DEF AtMost
<1> HIDE DEF T
<1>6. \A k \in 0..N : k \in T
  BY <1>2, <1>4, <1>5, UpTo
<1>7. N \in 0..N
  BY <1>2
<1>8. QED
  BY <1>1, <1>2, <1>6, <1>7 DEF T

-----------------------------------------------------------------------------
(* What holds in every version.                                            *)

\* A matrix of the right size with no entry below the distances
IsMatrix(g) ==
  g \in Matrices(Side, INF) /\ \A i, j \in 0..(Side - 1) : Steps[Side][<<i, j>>] <= g[<<i, j>>]

\* A thread block that was launched in this round
IsThread(t) ==
  /\ t = [kernel |-> t.kernel, stream |-> t.stream, device |-> t.device, memory |-> t.memory,
          blocks |-> t.blocks]
  /\ t.memory \in Memories /\ t.blocks \in Seq(Cells(round)) /\ t.blocks # <<>>
  /\ \A i \in 1..Len(t.blocks) : AliasesFit(t.kernel, t.blocks[i], r)

\* What it holds in shared memory
IsLoaded(m, block) ==
  /\ Holds(m, block) /\ AtLeast(m.a, block, Steps[Side])
  /\ AtLeast(m.b, <<block[1], r>>, Steps[Side]) /\ AtLeast(m.c, <<r, block[2]>>, Steps[Side])

MatricesInv(d) == DOMAIN d = Memories /\ \A m \in Memories : IsMatrix(d[m])

ThreadsInv(T, S) ==
  /\ T # {} => r < round
  /\ \A t \in T : IsThread(t)
  /\ DOMAIN S \subseteq T
  /\ \A t \in DOMAIN S : IF t.kernel.global THEN S[t] \in 1..(Height(r) - 1)
                         ELSE IsLoaded(S[t], Head(t.blocks))

OutputInv(o) ==
  o # NotWritten => \A c \in Cells(n) : o[c] >= ShortestPaths(Weights, n, INF)[c]

BasicInv ==
  /\ IsInput /\ r \in 0..round /\ next \in Nat \ {0}
  /\ MatricesInv(dist) /\ ThreadsInv(todo, sm) /\ OutputInv(Dist_s)

\* What depends on the input only
LEMMA SameInput ==
  ASSUME version' = version, file' = file
  PROVE  /\ IsInput' = IsInput /\ n' = n /\ round' = round /\ Side' = Side /\ Memories' = Memories
         /\ Steps' = Steps /\ Weights' = Weights
         /\ \A i : Height(i)' = Height(i) /\ Span(i)' = Span(i) /\ End(i)' = End(i)
         /\ \A b : Local(b)' = Local(b) /\ Held(b)' = Held(b)
         /\ \A g : IsMatrix(g)' <=> IsMatrix(g)
         /\ \A d : MatricesInv(d)' <=> MatricesInv(d)
         /\ \A o : OutputInv(o)' <=> OutputInv(o)
<1>1. n' = n /\ round' = round /\ Side' = Side /\ Memories' = Memories /\ Weights' = Weights
      /\ IsInput' = IsInput
  BY DEF n, round, Side, Padded, padding_n, Memories, Weights, IsInput
<1>2. Steps' = Steps
  BY <1>1 DEF Steps
<1>3. \A i : Height(i)' = Height(i) /\ Span(i)' = Span(i) /\ End(i)' = End(i)
  BY <1>1 DEF Height, Span, End
<1>4. \A b : Local(b)' = Local(b) /\ Held(b)' = Held(b)
  BY <1>1 DEF Local, Height, Held
<1>5. \A g : IsMatrix(g)' <=> IsMatrix(g)
  BY <1>1, <1>2 DEF IsMatrix, Matrices
<1>6. \A d : MatricesInv(d)' <=> MatricesInv(d)
  BY <1>1, <1>5 DEF MatricesInv
<1>7. \A o : OutputInv(o)' <=> OutputInv(o)
  BY <1>1 DEF OutputInv
<1>8. QED
  BY <1>1, <1>2, <1>3, <1>4, <1>5, <1>6, <1>7

\* ... and on the round
LEMMA SameRound ==
  ASSUME version' = version, file' = file, r' = r
  PROVE  /\ \A t : IsThread(t)' <=> IsThread(t)
         /\ \A m, b : Holds(m, b)' <=> Holds(m, b)
         /\ \A m, b : IsLoaded(m, b)' <=> IsLoaded(m, b)
         /\ \A T, S : ThreadsInv(T, S)' <=> ThreadsInv(T, S)
<1>1. /\ round' = round /\ Side' = Side /\ Memories' = Memories /\ Steps' = Steps
      /\ \A i : Height(i)' = Height(i) /\ Span(i)' = Span(i)
      /\ \A b : Held(b)' = Held(b)
  BY SameInput
<1>2. \A t : IsThread(t)' <=> IsThread(t)
  BY <1>1 DEF IsThread
<1>3. \A m, b : Holds(m, b)' <=> Holds(m, b)
  BY <1>1 DEF Holds
<1>4. \A m, b : IsLoaded(m, b)' <=> IsLoaded(m, b)
  BY <1>1, <1>3 DEF IsLoaded, AtLeast
<1>5. \A T, S : ThreadsInv(T, S)' <=> ThreadsInv(T, S)
  BY <1>1, <1>2, <1>4 DEF ThreadsInv
<1>6. QED
  BY <1>2, <1>3, <1>4, <1>5

LEMMA VertexNum ==
  ASSUME BasicInv
  PROVE  vertex_num = Side
<1>1. DOMAIN dist[0] = Cells(Side)
  <2>1. 0 \in Memories
    BY DEF Memories
  <2>2. QED
    BY <2>1 DEF BasicInv, MatricesInv, IsMatrix, Matrices
<1>2. Side \in Nat \ {0}
  BY SizesAre DEF BasicInv
<1>3. QED
  BY <1>1, <1>2, VertexNumIs

\* No detour shortens a distance.
LEMMA DistancesAre ==
  ASSUME IsInput, r \in 0..(round - 1)
  PROVE  NoDetour(Steps[Side]) /\ Steps[Side] \in Matrices(Side, INF)
<1> PICK N, D, w : N = Side /\ D = Steps /\ w = input(file, Side)
  OBVIOUS
<1>1. N \in Nat /\ INF \in Nat /\ IsSteps(D, w, N, INF)
  BY StepsOfInput
<1>2. Span(r) \subseteq 0..(N - 1)
  BY SpanTypes
<1>3. N \in 0..N
  BY <1>1
<1>4. D[N] \in Matrices(N, INF)
  BY <1>1, <1>3 DEF IsSteps
<1>5. \A v \in Span(r) : \A i, j \in 0..(N - 1) : D[N][<<i, j>>] <= D[N][<<i, v>>] + D[N][<<v, j>>]
  BY <1>1, <1>2, <1>3, Detour
<1>6. QED
  BY <1>4, <1>5 DEF NoDetour

\* The thread blocks that run are of this round.
LEMMA ThreadIs ==
  ASSUME BasicInv, NEW t \in todo
  PROVE  /\ r \in 0..(round - 1) /\ IsThread(t)
         /\ Block(t) = t.blocks[1] /\ Block(t) \in Cells(round) /\ Len(t.blocks) \in Nat \ {0}
         /\ AliasesFit(t.kernel, Block(t), r)
         /\ <<Block(t)[1], r>> \in Cells(round) /\ <<r, Block(t)[2]>> \in Cells(round)
         /\ IsMatrix(dist[t.memory])
<1>1. IsThread(t) /\ r < round /\ r \in 0..round /\ round \in Nat
  BY SizesAre DEF BasicInv, ThreadsInv
<1>2. t.blocks \in Seq(Cells(round)) /\ t.blocks # <<>>
  BY <1>1 DEF IsThread
<1>3. Len(t.blocks) \in Nat \ {0} /\ Block(t) = t.blocks[1] /\ t.blocks[1] \in Cells(round)
  BY <1>2 DEF Block
<1>4. AliasesFit(t.kernel, Block(t), r)
  BY <1>1, <1>3 DEF IsThread
<1>5. <<Block(t)[1], r>> \in Cells(round) /\ <<r, Block(t)[2]>> \in Cells(round)
  BY <1>1, <1>3 DEF Cells
<1>6. IsMatrix(dist[t.memory])
  BY <1>1 DEF BasicInv, MatricesInv, IsThread
<1>7. QED
  BY <1>1, <1>3, <1>4, <1>5, <1>6

\* h is g with block b from shared memory.
Stored(h, g, X, b) ==
  /\ h \in Matrices(Side, INF)
  /\ \A i \in Span(b[1]), j \in Span(b[2]) : h[<<i, j>>] = At(X, b, i, j)
  /\ \A i, j \in 0..(Side - 1) : ~(i \in Span(b[1]) /\ j \in Span(b[2])) => h[<<i, j>>] = g[<<i, j>>]

LEMMA StoreIs ==
  ASSUME BasicInv, NEW t \in todo, Store(t)
  PROVE  /\ t \in DOMAIN sm /\ ~t.kernel.global /\ IsLoaded(sm[t], Block(t))
         /\ Relaxed(t.kernel, Block(t), sm[t]) \in Held(Block(t))
         /\ \E h : dist' = [dist EXCEPT ![t.memory] = h]
                   /\ Stored(h, dist[t.memory], Relaxed(t.kernel, Block(t), sm[t]), Block(t))
<1> PICK b, m, g, X : /\ b = Block(t) /\ m = t.memory /\ g = dist[t.memory]
                      /\ X = Relaxed(t.kernel, Block(t), sm[t])
  OBVIOUS
<1>1. /\ r \in 0..(round - 1) /\ b \in Cells(round) /\ AliasesFit(t.kernel, b, r)
      /\ g \in Matrices(Side, INF) /\ IsInput /\ vertex_num = Side
  BY ThreadIs, VertexNum DEF IsMatrix, BasicInv
<1>2. t \in DOMAIN sm /\ ~t.kernel.global
  BY DEF Store
<1>3. IsLoaded(sm[t], b)
  BY <1>2 DEF BasicInv, ThreadsInv, Block
<1>4. X \in Held(b)
  <2>1. Holds(sm[t], b)
    BY <1>3 DEF IsLoaded
  <2>2. sm[t].a \in Held(b)
    BY <2>1 DEF Holds
  <2> PICK U : U = [c \in Cells(Side) |-> INF]
    OBVIOUS
  <2>3. U \in Matrices(Side, INF) /\ \A i, j \in 0..(Side - 1) : U[<<i, j>>] = INF
    BY SizesAssumption DEF Matrices, Cells
  <2>4. AtMost(sm[t].a, b, U)
    <3>1. ASSUME NEW i \in Span(b[1]), NEW j \in Span(b[2]) PROVE At(sm[t].a, b, i, j) <= U[<<i, j>>]
      <4>1. At(sm[t].a, b, i, j) \in 0..INF
        BY <1>1, <2>2, AtTypes
      <4>2. i \in 0..(Side - 1) /\ j \in 0..(Side - 1)
        BY <1>1, PlaceIs
      <4>3. QED
        BY <2>3, <4>1, <4>2
    <3>2. QED
      BY <3>1 DEF AtMost
  <2>5. QED
    BY <1>1, <1>2, <2>1, <2>3, <2>4, RelaxedShrinks
<1> PICK S : S = Span(b[1]) \X Span(b[2])
  OBVIOUS
<1>5. CellsOf(b) = S
  BY <1>1, CellsOfIs
<1> DEFINE h == [c \in Cells(Side) |-> IF c \in S THEN X[<<c[1] - b[1] * B, c[2] - b[2] * B>>] ELSE g[c]]
<1>6. dist' = [dist EXCEPT ![m] = h]
  <2>1. DOMAIN dist[m] = Cells(Side)
    BY <1>1 DEF Matrices
  <2>2. dist' = [dist EXCEPT ![m] =
                   [c \in DOMAIN @ |-> IF c \in CellsOf(b)
                                       THEN X[<<c[1] - b[1] * B, c[2] - b[2] * B>>] ELSE @[c]]]
    BY Zenon DEF Store
  <2>3. QED
    BY <1>5, <2>1, <2>2
<1>7. ASSUME NEW i \in 0..(Side - 1), NEW j \in 0..(Side - 1)
      PROVE  /\ i \in Span(b[1]) /\ j \in Span(b[2]) => h[<<i, j>>] = At(X, b, i, j)
             /\ ~(i \in Span(b[1]) /\ j \in Span(b[2])) => h[<<i, j>>] = g[<<i, j>>]
             /\ h[<<i, j>>] \in 0..INF
  <2> PICK c : c = <<i, j>>
    OBVIOUS
  <2>1. c \in Cells(Side) /\ c[1] = i /\ c[2] = j /\ (c \in S <=> i \in Span(b[1]) /\ j \in Span(b[2]))
    BY DEF Cells
  <2>2. h[c] = IF c \in S THEN X[<<i - b[1] * B, j - b[2] * B>>] ELSE g[c]
    BY <2>1
  <2>3. i \in Span(b[1]) /\ j \in Span(b[2]) => At(X, b, i, j) \in 0..INF
    BY <1>1, <1>4, AtTypes
  <2>4. g[c] \in 0..INF
    BY <1>1, <2>1 DEF Matrices
  <2>5. QED
    BY <2>1, <2>2, <2>3, <2>4 DEF At
<1>8. h \in Matrices(Side, INF)
  <2>1. ASSUME NEW c \in Cells(Side) PROVE h[c] \in 0..INF
    <3>1. c = <<c[1], c[2]>> /\ c[1] \in 0..(Side - 1) /\ c[2] \in 0..(Side - 1)
      BY DEF Cells
    <3> HIDE DEF h
    <3>2. h[<<c[1], c[2]>>] \in 0..INF
      BY <1>7, <3>1
    <3>3. QED
      BY <3>1, <3>2
  <2> DEFINE e(c) == IF c \in S THEN X[<<c[1] - b[1] * B, c[2] - b[2] * B>>] ELSE g[c]
  <2>2. h = [c \in Cells(Side) |-> e(c)] /\ \A c \in Cells(Side) : h[c] = e(c)
    OBVIOUS
  <2> HIDE DEF h, e
  <2>3. QED
    BY <2>1, <2>2 DEF Matrices
<1>9. Stored(h, g, X, b)
  <2> HIDE DEF h
  <2>1. \A i \in Span(b[1]), j \in Span(b[2]) : i \in 0..(Side - 1) /\ j \in 0..(Side - 1)
    BY <1>1, PlaceIs
  <2>2. QED
    BY <1>7, <1>8, <2>1 DEF Stored
<1> HIDE DEF h
<1>10. QED
  BY <1>2, <1>3, <1>4, <1>6, <1>9

\* A pass in the matrix is one of the algorithm, over a block.
LEMMA PassStepIs ==
  ASSUME BasicInv, NEW t \in todo, Pass(t)
  PROVE  LET k == IF t \in DOMAIN sm THEN sm[t] ELSE 0 IN
         /\ t.kernel.global /\ k \in 0..(Height(r) - 1) /\ r * B + k \in Span(r) /\ Passes = Height(r)
         /\ Span(Block(t)[1]) \in SUBSET (0..(Side - 1)) /\ Span(Block(t)[2]) \in SUBSET (0..(Side - 1))
         /\ dist' = [dist EXCEPT ![t.memory] =
                       Relax(dist[t.memory], Span(Block(t)[1]) \X Span(Block(t)[2]), r * B + k)]
<1> PICK b, m, g, k : /\ b = Block(t) /\ m = t.memory /\ g = dist[t.memory]
                      /\ k = IF t \in DOMAIN sm THEN sm[t] ELSE 0
  OBVIOUS
<1>1. /\ r \in 0..(round - 1) /\ b \in Cells(round)
      /\ g \in Matrices(Side, INF) /\ IsInput /\ vertex_num = Side
  BY ThreadIs, VertexNum DEF IsMatrix, BasicInv
<1>2. t.kernel.global
  BY DEF Pass
<1>3. Height(r) \in Nat \ {0} /\ r * B \in Nat
  BY <1>1, SpanTypes
<1>4. k \in 0..(Height(r) - 1)
  <2>1. t \in DOMAIN sm => sm[t] \in 1..(Height(r) - 1)
    BY <1>2 DEF BasicInv, ThreadsInv
  <2>2. QED
    BY <1>3, <2>1
<1> PICK v : v = r * B + k
  OBVIOUS
<1>5. v \in Span(r)
  BY <1>3, <1>4 DEF Span
<1>6. Span(b[1]) \in SUBSET (0..(Side - 1)) /\ Span(b[2]) \in SUBSET (0..(Side - 1))
      /\ v \in 0..(Side - 1)
  BY <1>1, <1>5, SpanTypes, BlockOfTwo
<1> PICK S : S = Span(b[1]) \X Span(b[2])
  OBVIOUS
<1>7. CellsOf(b) = S
  BY <1>1, CellsOfIs
<1>8. DOMAIN g = Cells(Side)
  BY <1>1 DEF Matrices
<1>9. \A c \in DOMAIN g : Plus(g[<<c[1], v>>], g[<<v, c[2]>>]) = g[<<c[1], v>>] + g[<<v, c[2]>>]
  <2>1. ASSUME NEW c \in DOMAIN g PROVE g[<<c[1], v>>] \in 0..INF /\ g[<<v, c[2]>>] \in 0..INF
    <3>1. c[1] \in 0..(Side - 1) /\ c[2] \in 0..(Side - 1)
      BY <1>8 DEF Cells
    <3>2. <<c[1], v>> \in Cells(Side) /\ <<v, c[2]>> \in Cells(Side)
      BY <1>6, <3>1 DEF Cells
    <3>3. QED
      BY <1>1, <3>2 DEF Matrices
  <2>2. QED
    BY <2>1, PlusIs
<1>10. dist' = [dist EXCEPT ![m] =
                   [c \in DOMAIN @ |-> IF c \in CellsOf(b)
                      THEN Lesser(@[c], Plus(@[<<c[1], v>>], @[<<v, c[2]>>]))
                      ELSE @[c]]]
  BY Zenon DEF Pass
<1>11. [c \in DOMAIN g |-> IF c \in CellsOf(b)
                           THEN Lesser(g[c], Plus(g[<<c[1], v>>], g[<<v, c[2]>>])) ELSE g[c]]
         = Relax(g, S, v)
  BY <1>7, <1>9 DEF Relax
<1>12. dist' = [dist EXCEPT ![m] = Relax(g, S, v)]
  BY <1>10, <1>11, Zenon
<1>13. Passes = Height(r)
  BY <1>1, PassesIs
<1>14. QED
  BY <1>2, <1>4, <1>5, <1>6, <1>12, <1>13, Zenon

LEMMA InitBasic ==
  ASSUME Init
  PROVE  BasicInv /\ \A m \in Memories : dist[m] = Steps[0]
<1>1. IsInput
  <2>1. PICK input_ \in Inputs : version = input_[1] /\ file = input_[2]
    BY DEF Init
  <2>2. QED
    BY <2>1, InputAssumption DEF IsInput
<1>2. /\ Side \in Nat /\ INF \in Nat /\ input(file, Side) \in Matrices(Side, INF)
      /\ IsSteps(Steps, input(file, Side), Side, INF)
  BY <1>1, StepsOfInput
<1>3. dist = [d \in Memories |-> Steps[0]]
  <2>1. dist = [d \in Memories |-> DistOf(version, file)]
    BY DEF Init, Memories
  <2>2. DistOf(version, file) = Steps[0]
    BY <1>1, <1>2, DistIsInput DEF IsSteps
  <2>3. QED
    BY <2>1, <2>2
<1>4. IsMatrix(Steps[0])
  <2>1. Steps[0] \in Matrices(Side, INF)
    BY <1>2 DEF IsSteps
  <2>2. \A i, j \in 0..(Side - 1) : Steps[Side][<<i, j>>] <= Steps[0][<<i, j>>]
    <3> PICK N, D, w : N = Side /\ D = Steps /\ w = input(file, Side)
      OBVIOUS
    <3>1. N \in Nat /\ INF \in Nat /\ IsSteps(D, w, N, INF) /\ 0 \in 0..N /\ N \in 0..N
      BY <1>2
    <3>2. ASSUME NEW i \in 0..(N - 1), NEW j \in 0..(N - 1) PROVE D[N][<<i, j>>] <= D[0][<<i, j>>]
      BY ONLY <3>1, i \in 0..(N - 1), j \in 0..(N - 1), StepsDecrease
    <3>3. QED
      BY <3>2
  <2>3. QED
    BY <2>1, <2>2 DEF IsMatrix
<1>5. MatricesInv(dist)
  BY <1>3, <1>4 DEF MatricesInv
<1>6. ThreadsInv(todo, sm)
  BY DEF Init, ThreadsInv
<1>7. OutputInv(Dist_s)
  BY DEF Init, OutputInv
<1>8. r \in 0..round /\ next \in Nat \ {0}
  BY <1>1, SizesAre DEF Init
<1>9. QED
  BY <1>1, <1>3, <1>5, <1>6, <1>7, <1>8 DEF BasicInv

LEMMA MatrixKept ==
  ASSUME MatricesInv(dist), NEW m \in Memories, NEW h, IsMatrix(h)
  PROVE  MatricesInv([dist EXCEPT ![m] = h])
BY DEF MatricesInv

\* A step that leaves the round alone
LEMMA BasicKept ==
  ASSUME BasicInv, version' = version, file' = file, r' = r, next' \in {next, next + 1},
         MatricesInv(dist'), ThreadsInv(todo', sm'), OutputInv(Dist_s')
  PROVE  BasicInv'
<1>1. /\ IsInput' = IsInput /\ round' = round
      /\ \A d : MatricesInv(d)' <=> MatricesInv(d)
      /\ \A o : OutputInv(o)' <=> OutputInv(o)
  BY SameInput
<1>2. \A T, S : ThreadsInv(T, S)' <=> ThreadsInv(T, S)
  BY SameRound
<1>3. next' \in Nat \ {0}
  BY DEF BasicInv
<1>4. QED
  BY <1>1, <1>2, <1>3 DEF BasicInv

\* A thread block that goes on to its next block
Further(t) == [t EXCEPT !.blocks = Tail(@)]

LEMMA FurtherIs ==
  ASSUME NEW t, IsThread(t), Len(t.blocks) > 1
  PROVE  /\ IsThread(Further(t)) /\ Further(t).blocks = Tail(t.blocks)
         /\ Further(t).kernel = t.kernel /\ Further(t).stream = t.stream
         /\ Further(t).device = t.device /\ Further(t).memory = t.memory
         /\ Len(Tail(t.blocks)) = Len(t.blocks) - 1
         /\ \A i \in 1..(Len(t.blocks) - 1) : Tail(t.blocks)[i] = t.blocks[i + 1]
<1> PICK u, s : u = Further(t) /\ s = t.blocks
  OBVIOUS
<1>1. t = [kernel |-> t.kernel, stream |-> t.stream, device |-> t.device, memory |-> t.memory,
           blocks |-> s]
  BY DEF IsThread
<1>2. /\ u.blocks = Tail(s) /\ u.kernel = t.kernel /\ u.stream = t.stream /\ u.device = t.device
      /\ u.memory = t.memory
      /\ u = [kernel |-> u.kernel, stream |-> u.stream, device |-> u.device, memory |-> u.memory,
              blocks |-> u.blocks]
  BY <1>1 DEF Further
<1>3. s \in Seq(Cells(round)) /\ s # <<>> /\ Len(s) > 1
  BY DEF IsThread
<1>4. /\ Tail(s) \in Seq(Cells(round)) /\ Len(Tail(s)) = Len(s) - 1 /\ Len(s) \in Nat
      /\ \A i \in 1..(Len(s) - 1) : Tail(s)[i] = s[i + 1]
  BY <1>3
<1>5. Tail(s) # <<>>
  <2> PICK x, y : x = Len(Tail(s)) /\ y = Len(s)
    OBVIOUS
  <2>1. x # 0
    BY ONLY <1>3, <1>4, x = Len(Tail(s)), y = Len(s)
  <2>2. Len(<<>>) = 0
    OBVIOUS
  <2>3. QED
    BY <2>1, <2>2, Zenon
<1>6. \A i \in 1..Len(Tail(s)) : AliasesFit(u.kernel, Tail(s)[i], r)
  <2>1. SUFFICES ASSUME NEW i \in 1..(Len(s) - 1) PROVE AliasesFit(t.kernel, s[i + 1], r)
    BY <1>2, <1>4
  <2>2. i + 1 \in 1..Len(s)
    BY <1>4
  <2>3. QED
    BY <2>2 DEF IsThread
<1>7. IsThread(u)
  BY <1>2, <1>4, <1>5, <1>6 DEF IsThread
<1>8. QED
  BY <1>2, <1>4, <1>7

LEMMA LeaveKeeps ==
  ASSUME BasicInv, NEW t \in todo, Leave(t)
  PROVE  ThreadsInv(todo', sm')
<1>1. ThreadsInv(todo, sm)
  BY DEF BasicInv
<1>2. \A u \in todo' : u \in todo \ {t} \/ (u = Further(t) /\ Len(t.blocks) > 1)
  BY DEF Leave, Further
<1>3. \A u \in todo' : IsThread(u)
  BY <1>1, <1>2, FurtherIs DEF ThreadsInv
<1>4. DOMAIN sm' = DOMAIN sm \ {t} /\ \A u \in DOMAIN sm' : sm'[u] = sm[u]
  BY DEF Leave
<1>5. todo \ {t} \subseteq todo'
  BY DEF Leave
<1>6. QED
  BY <1>1, <1>3, <1>4, <1>5 DEF ThreadsInv

LEMMA StartBasic ==
  ASSUME BasicInv, Start
  PROVE  BasicInv'
<1> PICK l, R : l = Launches[next] /\ R = round
  OBVIOUS
<1>1. /\ r \in 0..(R - 1) /\ r < R /\ R \in Nat /\ IsInput /\ next \in DOMAIN Launches /\ ~IsCopy(l)
  BY SizesAre DEF BasicInv, Start
<1>2. IsOperation(l, r, R)
  BY <1>1, OperationsAre DEF Launches
<1>3. IsLaunch(l, R) /\ l.memory \in Memories /\ \A b \in Area(l) : AliasesFit(l.kernel, b, r)
  BY <1>1, <1>2 DEF IsOperation
<1>4. ASSUME NEW t \in ThreadBlocks(l) PROVE IsThread(t)
  <2>1. /\ t = [kernel |-> l.kernel, stream |-> l.stream, device |-> l.device,
                memory |-> l.memory, blocks |-> t.blocks]
        /\ t.blocks \in Seq(Area(l)) /\ t.blocks # <<>>
    BY <1>1, <1>3, ThreadBlocksAre
  <2> PICK s : s = t.blocks
    OBVIOUS
  <2>2. /\ t.kernel = l.kernel /\ t.stream = l.stream /\ t.device = l.device /\ t.memory = l.memory
    BY <2>1
  <2>3. Area(l) \subseteq Cells(R)
    BY <1>1, <1>3, AreaIs
  <2>4. s \in Seq(Cells(R)) /\ \A i \in 1..Len(s) : s[i] \in Area(l)
    BY <2>1, <2>3
  <2>5. t = [kernel |-> t.kernel, stream |-> t.stream, device |-> t.device,
             memory |-> t.memory, blocks |-> t.blocks]
    BY <2>1, <2>2
  <2>6. QED
    BY <1>3, <2>1, <2>2, <2>4, <2>5 DEF IsThread
<1>5. \A t \in todo' : t \in todo \/ t \in ThreadBlocks(l)
  BY DEF Start
<1>6. todo \subseteq todo' /\ sm' = sm /\ dist' = dist /\ Dist_s' = Dist_s
      /\ version' = version /\ file' = file /\ r' = r /\ next' = next + 1
  BY DEF Start
<1>7. ThreadsInv(todo', sm')
  BY <1>1, <1>4, <1>5, <1>6 DEF BasicInv, ThreadsInv
<1>8. QED
  BY <1>6, <1>7, BasicKept DEF BasicInv

LEMMA CopyBasic ==
  ASSUME BasicInv, Copy
  PROVE  BasicInv'
<1> PICK op, R : op = Launches[next] /\ R = round
  OBVIOUS
<1>1. /\ r \in 0..(R - 1) /\ IsInput /\ next \in DOMAIN Launches /\ IsCopy(op)
  BY SizesAre DEF BasicInv, Copy
<1>2. IsOperation(op, r, R)
  BY <1>1, OperationsAre DEF Launches
<1>3. op.from \in Memories /\ op.to \in Memories
  BY <1>1, <1>2 DEF IsOperation
<1>4. IsMatrix(dist[op.from]) /\ IsMatrix(dist[op.to])
  BY <1>3 DEF BasicInv, MatricesInv
<1> DEFINE h == [c \in Cells(Side) |-> IF c[1] < op.rows THEN dist[op.from][c] ELSE dist[op.to][c]]
<1>5. dist' = [dist EXCEPT ![op.to] = h]
  <2>1. DOMAIN dist[op.to] = Cells(Side)
    BY <1>4 DEF IsMatrix, Matrices
  <2>2. dist' = [dist EXCEPT ![op.to] =
                   [c \in DOMAIN @ |-> IF c[1] < op.rows THEN dist[op.from][c] ELSE @[c]]]
    BY Zenon DEF Copy
  <2>3. QED
    BY <2>1, <2>2
<1>6. IsMatrix(h)
  <2>1. h \in Matrices(Side, INF)
    BY <1>4 DEF IsMatrix, Matrices
  <2>2. \A i, j \in 0..(Side - 1) : <<i, j>> \in Cells(Side)
    BY DEF Cells
  <2>3. QED
    BY <1>4, <2>1, <2>2 DEF IsMatrix
<1>7. MatricesInv(dist')
  <2> HIDE DEF h
  <2>1. QED
    BY <1>3, <1>5, <1>6, MatrixKept DEF BasicInv
<1>8. todo' = todo /\ sm' = sm /\ Dist_s' = Dist_s
      /\ version' = version /\ file' = file /\ r' = r /\ next' = next + 1
  BY DEF Copy
<1>9. QED
  BY <1>7, <1>8, BasicKept DEF BasicInv

LEMMA NextRoundBasic ==
  ASSUME BasicInv, NextRound
  PROVE  BasicInv'
<1>1. /\ version' = version /\ file' = file /\ r' = r + 1 /\ next' = 1 /\ r < round
      /\ todo = {} /\ todo' = {} /\ sm' = sm /\ dist' = dist /\ Dist_s' = Dist_s
  BY DEF NextRound
<1>2. /\ IsInput' = IsInput /\ round' = round
      /\ \A d : MatricesInv(d)' <=> MatricesInv(d)
      /\ \A o : OutputInv(o)' <=> OutputInv(o)
  BY <1>1, SameInput
<1>3. DOMAIN sm = {}
  BY <1>1 DEF BasicInv, ThreadsInv
<1>4. ThreadsInv(todo, sm)'
  BY <1>1, <1>3 DEF ThreadsInv
<1>5. r' \in 0..round /\ next' \in Nat \ {0}
  BY <1>1, SizesAre DEF BasicInv
<1>6. QED
  BY <1>1, <1>2, <1>4, <1>5 DEF BasicInv

LEMMA LoadBasic ==
  ASSUME BasicInv, NEW t \in todo, Load(t)
  PROVE  BasicInv'
<1> PICK b, g : b = Block(t) /\ g = dist[t.memory]
  OBVIOUS
<1> PICK x : x = [a |-> Shared(g, b), b |-> Shared(g, <<b[1], r>>), c |-> Shared(g, <<r, b[2]>>)]
  OBVIOUS
<1>1. /\ sm' = [u \in DOMAIN sm \cup {t} |-> IF u = t THEN x ELSE sm[u]]
      /\ t \notin DOMAIN sm /\ ~t.kernel.global
      /\ version' = version /\ file' = file /\ r' = r /\ next' = next
      /\ todo' = todo /\ dist' = dist /\ Dist_s' = Dist_s
  BY DEF Load
<1>2. /\ r \in 0..(round - 1) /\ b \in Cells(round)
      /\ <<b[1], r>> \in Cells(round) /\ <<r, b[2]>> \in Cells(round)
      /\ g \in Matrices(Side, INF) /\ IsInput /\ vertex_num = Side
      /\ \A i, j \in 0..(Side - 1) : Steps[Side][<<i, j>>] <= g[<<i, j>>]
  BY ThreadIs, VertexNum DEF IsMatrix, BasicInv
<1>3. \A c \in Cells(round) : Shared(g, c) \in Held(c) /\ AtLeast(Shared(g, c), c, Steps[Side])
  <2>1. ASSUME NEW c \in Cells(round)
        PROVE  Shared(g, c) \in Held(c) /\ AtLeast(Shared(g, c), c, Steps[Side])
    <3>1. /\ Shared(g, c) \in Held(c)
          /\ \A i \in Span(c[1]), j \in Span(c[2]) : At(Shared(g, c), c, i, j) = g[<<i, j>>]
      BY <1>2, SharedIs
    <3>2. \A i \in Span(c[1]), j \in Span(c[2]) : i \in 0..(Side - 1) /\ j \in 0..(Side - 1)
      BY <1>2, PlaceIs
    <3>3. QED
      BY <1>2, <3>1, <3>2 DEF AtLeast
  <2>2. QED
    BY <2>1
<1>4. IsLoaded(x, b)
  BY <1>2, <1>3 DEF IsLoaded, Holds
<1>5. DOMAIN sm' = DOMAIN sm \cup {t} /\ sm'[t] = x /\ \A u \in DOMAIN sm : sm'[u] = sm[u]
  BY <1>1
<1>6. ThreadsInv(todo', sm')
  BY <1>1, <1>4, <1>5 DEF BasicInv, ThreadsInv, Block
<1>7. QED
  BY <1>1, <1>6, BasicKept DEF BasicInv

LEMMA StoreBasic ==
  ASSUME BasicInv, NEW t \in todo, Store(t)
  PROVE  BasicInv'
<1> PICK b, g, X : b = Block(t) /\ g = dist[t.memory] /\ X = Relaxed(t.kernel, Block(t), sm[t])
  OBVIOUS
<1>1. /\ t \in DOMAIN sm /\ ~t.kernel.global /\ IsLoaded(sm[t], b)
      /\ \E h : dist' = [dist EXCEPT ![t.memory] = h] /\ Stored(h, g, X, b)
  BY StoreIs
<1> PICK h : dist' = [dist EXCEPT ![t.memory] = h] /\ Stored(h, g, X, b)
  BY <1>1
<1>2. /\ r \in 0..(round - 1) /\ b \in Cells(round) /\ AliasesFit(t.kernel, b, r)
      /\ IsMatrix(g) /\ IsInput /\ vertex_num = Side /\ t.memory \in Memories
  BY ThreadIs, VertexNum DEF IsThread, BasicInv
<1>3. AtLeast(X, b, Steps[Side])
  <2>1. NoDetour(Steps[Side])
    BY <1>2, DistancesAre
  <2>2. QED
    BY <1>1, <1>2, <2>1, RelaxedStaysAbove DEF IsLoaded
<1>4. IsMatrix(h)
  BY <1>2, <1>3 DEF IsMatrix, Stored, AtLeast
<1>5. MatricesInv(dist')
  BY <1>2, <1>4, MatrixKept DEF BasicInv
<1>6. ThreadsInv(todo', sm')
  BY LeaveKeeps DEF Store
<1>7. version' = version /\ file' = file /\ r' = r /\ next' = next /\ Dist_s' = Dist_s
  BY DEF Store
<1>8. QED
  BY <1>5, <1>6, <1>7, BasicKept DEF BasicInv

LEMMA PassBasic ==
  ASSUME BasicInv, NEW t \in todo, Pass(t)
  PROVE  BasicInv'
<1> PICK g, S, k : /\ g = dist[t.memory] /\ S = Span(Block(t)[1]) \X Span(Block(t)[2])
                   /\ k = IF t \in DOMAIN sm THEN sm[t] ELSE 0
  OBVIOUS
<1> PICK v : v = r * B + k
  OBVIOUS
<1>1. /\ t.kernel.global /\ k \in 0..(Height(r) - 1) /\ v \in Span(r) /\ Passes = Height(r)
      /\ dist' = [dist EXCEPT ![t.memory] = Relax(g, S, v)]
  BY PassStepIs
<1>2. /\ r \in 0..(round - 1) /\ IsMatrix(g) /\ IsInput /\ t.memory \in Memories
  BY ThreadIs DEF IsThread, BasicInv
<1>3. Side \in Nat /\ INF \in Nat /\ Span(r) \subseteq 0..(Side - 1) /\ Height(r) \in Nat
  BY <1>2, SizesAre, SpanTypes
<1>4. IsMatrix(Relax(g, S, v))
  <2> PICK h, N : h = Relax(g, S, v) /\ N = Side
    OBVIOUS
  <2>1. /\ h \in Matrices(N, INF)
        /\ \A i, j \in 0..(N - 1) :
             h[<<i, j>>] = IF <<i, j>> \in S THEN Lesser(g[<<i, j>>], g[<<i, v>>] + g[<<v, j>>])
                           ELSE g[<<i, j>>]
    <3>1. N \in Nat /\ INF \in Nat /\ g \in Matrices(N, INF) /\ v \in 0..(N - 1)
      BY <1>1, <1>2, <1>3 DEF IsMatrix
    <3>2. QED
      BY <3>1, RelaxIs
  <2>2. ASSUME NEW i \in 0..(N - 1), NEW j \in 0..(N - 1)
        PROVE  Steps[N][<<i, j>>] <= h[<<i, j>>]
    <3> PICK L : L = Steps[N]
      OBVIOUS
    <3>1. NoDetour(L) /\ L \in Matrices(N, INF) /\ g \in Matrices(N, INF) /\ v \in 0..(N - 1)
      BY <1>1, <1>2, <1>3, DistancesAre DEF IsMatrix
    <3>2. /\ L[<<i, j>>] <= g[<<i, j>>] /\ L[<<i, v>>] <= g[<<i, v>>] /\ L[<<v, j>>] <= g[<<v, j>>]
      BY <1>2, <3>1 DEF IsMatrix
    <3>3. L[<<i, j>>] <= L[<<i, v>>] + L[<<v, j>>]
      BY <1>1, <3>1 DEF NoDetour
    <3>4. /\ L[<<i, j>>] \in 0..INF /\ L[<<i, v>>] \in 0..INF /\ L[<<v, j>>] \in 0..INF
          /\ g[<<i, j>>] \in 0..INF /\ g[<<i, v>>] \in 0..INF /\ g[<<v, j>>] \in 0..INF
      BY <1>3, <3>1, EntryType
    <3>5. h[<<i, j>>] \in {g[<<i, j>>], Lesser(g[<<i, j>>], g[<<i, v>>] + g[<<v, j>>])}
      BY <2>1
    <3>6. L[<<i, j>>] <= h[<<i, j>>]
      BY ONLY <1>3, <3>2, <3>3, <3>4, <3>5 DEF Lesser
    <3>7. QED
      BY <3>6
  <2>3. QED
    BY <2>1, <2>2 DEF IsMatrix
<1>5. MatricesInv(dist')
  BY <1>1, <1>2, <1>4, MatrixKept DEF BasicInv
<1>6. ThreadsInv(todo', sm')
  <2>1. CASE k + 1 = Passes
    <3>1. Leave(t)
      BY <2>1 DEF Pass
    <3>2. QED
      BY <3>1, LeaveKeeps
  <2>2. CASE k + 1 # Passes
    <3>1. sm' = [u \in DOMAIN sm \cup {t} |-> IF u = t THEN k + 1 ELSE sm[u]] /\ todo' = todo
      BY <2>2 DEF Pass
    <3>2. DOMAIN sm' = DOMAIN sm \cup {t} /\ sm'[t] = k + 1 /\ \A u \in DOMAIN sm \ {t} : sm'[u] = sm[u]
      BY <3>1
    <3>3. k + 1 \in 1..(Height(r) - 1)
      BY <1>1, <1>3, <2>2
    <3>4. QED
      BY <1>1, <3>1, <3>2, <3>3 DEF BasicInv, ThreadsInv
  <2>3. QED
    BY <2>1, <2>2
<1>7. version' = version /\ file' = file /\ r' = r /\ next' = next /\ Dist_s' = Dist_s
  BY DEF Pass
<1>8. QED
  BY <1>5, <1>6, <1>7, BasicKept DEF BasicInv

LEMMA OutputBasic ==
  ASSUME BasicInv, Output
  PROVE  BasicInv'
<1> PICK o, g, s : o = Dist_s' /\ g = dist[0] /\ s = ShortestPaths(Weights, n, INF)
  OBVIOUS
<1>1. /\ version' = version /\ file' = file /\ r' = r /\ next' = next /\ todo' = todo
      /\ sm' = sm /\ dist' = dist /\ o = [c \in Cells(n) |-> Lesser(g[c], INF)]
  BY DEF Output
<1>2. IsInput /\ n \in Nat /\ Side \in Nat /\ n <= Side /\ INF \in Nat
  BY SizesAre DEF BasicInv
<1>3. IsMatrix(g)
  BY DEF BasicInv, MatricesInv, Memories
<1>4. /\ s \in Matrices(n, INF)
      /\ \A i, j \in 0..(n - 1) : Steps[Side][<<i, j>>] = s[<<i, j>>]
  BY <1>2, LastIsDistances
<1>5. ASSUME NEW c \in Cells(n) PROVE o[c] >= s[c]
  <2> PICK i, j : i = c[1] /\ j = c[2]
    OBVIOUS
  <2>1. c = <<i, j>> /\ i \in 0..(n - 1) /\ j \in 0..(n - 1)
    BY DEF Cells
  <2>2. i \in 0..(Side - 1) /\ j \in 0..(Side - 1)
    BY <1>2, <2>1
  <2>3. s[c] \in 0..INF /\ g[c] \in 0..INF
    <3>1. c \in Cells(Side)
      BY <2>1, <2>2 DEF Cells
    <3>2. QED
      BY <1>3, <1>4, <3>1 DEF IsMatrix, Matrices
  <2>4. s[c] <= g[c]
    BY <1>3, <1>4, <2>1, <2>2 DEF IsMatrix
  <2>5. o[c] = Lesser(g[c], INF)
    BY <1>1
  <2>6. QED
    BY <1>2, <2>3, <2>4, <2>5 DEF Lesser
<1>6. OutputInv(o)
  BY <1>5 DEF OutputInv
<1>7. QED
  BY <1>1, <1>6, BasicKept DEF BasicInv

LEMMA StutterBasic ==
  ASSUME BasicInv, UNCHANGED vars
  PROVE  BasicInv'
<1>1. /\ version' = version /\ file' = file /\ r' = r /\ next' = next /\ todo' = todo
      /\ sm' = sm /\ dist' = dist /\ Dist_s' = Dist_s
  BY DEF vars
<1>2. QED
  BY <1>1, BasicKept DEF BasicInv

LEMMA BasicStep == BasicInv /\ [Next]_vars => BasicInv'
<1> SUFFICES ASSUME BasicInv, [Next]_vars PROVE BasicInv'
  OBVIOUS
<1>1. CASE Start
  BY <1>1, StartBasic
<1>2. CASE Copy
  BY <1>2, CopyBasic
<1>3. CASE NextRound
  BY <1>3, NextRoundBasic
<1>4. CASE Output
  BY <1>4, OutputBasic
<1>5. CASE Finished \/ UNCHANGED vars
  BY <1>5, StutterBasic DEF Finished
<1>6. ASSUME NEW t \in todo, Load(t) \/ Store(t) \/ Pass(t) PROVE BasicInv'
  BY <1>6, LoadBasic, StoreBasic, PassBasic
<1>7. QED
  BY <1>1, <1>2, <1>3, <1>4, <1>5, <1>6 DEF Next

LEMMA SpecBasic == Spec => []BasicInv
<1>1. Init => BasicInv
  BY InitBasic
<1>2. QED
  BY <1>1, BasicStep, PTL DEF Spec

LEMMA BasicImpliesTypes == BasicInv => TypeOK
<1> SUFFICES ASSUME BasicInv PROVE TypeOK
  OBVIOUS
<1>1. /\ DOMAIN dist = Memories /\ \A m \in Memories : dist[m] \in Matrices(Side, INF)
      /\ vertex_num = Side /\ Side \in {n, round * B}
  BY VertexNum, SizesAre DEF BasicInv, MatricesInv, IsMatrix
<1>2. \A m \in DOMAIN dist : dist[m] \in [Cells(vertex_num) -> 0..INF]
  BY <1>1 DEF Matrices
<1>3. r \in 0..round /\ next \in Nat \ {0} /\ DOMAIN sm \subseteq todo
  BY DEF BasicInv, ThreadsInv
<1>4. \A t \in todo : t.memory \in DOMAIN dist /\ t.blocks \in Seq(Cells(round))
  BY <1>1 DEF BasicInv, ThreadsInv, IsThread
<1>5. QED
  BY <1>1, <1>2, <1>3, <1>4 DEF TypeOK

\* No entry exceeds INF, so that no sum of two wraps, whatever the version; a
\* thread block works on blocks that the matrix has, in memory that there is.
THEOREM TypesAreCorrect == Spec => []TypeOK
BY SpecBasic, BasicImpliesTypes, PTL

-----------------------------------------------------------------------------
(* The phases of a round, in the versions that are right.                  *)

LEMMA TurnIs ==
  ASSUME r \in 0..(round - 1), NEW b \in Cells(round)
  PROVE  /\ Turn(b, r) \in 1..3
         /\ <<b[1], r>> \in Cells(round) /\ <<r, b[2]>> \in Cells(round)
         /\ <<b[1], r>> = b \/ (b[2] # r /\ Turn(<<b[1], r>>, r) < Turn(b, r))
         /\ <<r, b[2]>> = b \/ (b[1] # r /\ Turn(<<r, b[2]>>, r) < Turn(b, r))
<1> PICK x, y : x = b[1] /\ y = b[2]
  OBVIOUS
<1>1. b = <<x, y>> /\ x \in 0..(round - 1) /\ y \in 0..(round - 1)
  BY DEF Cells
<1>2. <<x, r>> \in Cells(round) /\ <<r, y>> \in Cells(round)
  BY <1>1 DEF Cells
<1>3. \A u, v : Turn(<<u, v>>, r) = IF u = r /\ v = r THEN 1 ELSE IF u = r \/ v = r THEN 2 ELSE 3
  BY DEF Turn
<1>4. Turn(b, r) \in 1..3
  BY <1>1, <1>3
<1>5. <<x, r>> = b \/ (y # r /\ Turn(<<x, r>>, r) < Turn(b, r))
  BY <1>1, <1>3
<1>6. <<r, y>> = b \/ (x # r /\ Turn(<<r, y>>, r) < Turn(b, r))
  BY <1>1, <1>3
<1>7. QED
  BY <1>2, <1>4, <1>5, <1>6

LEMMA TurnsAre ==
  ASSUME NEW L, NEW rr, NEW R, IsRound(L, rr, R)
  PROVE  /\ Len(L) \in Nat \ {0} /\ DOMAIN L = 1..Len(L)
         /\ TurnAt(L, 1) = 1 /\ TurnAt(L, Len(L)) = 3
         /\ \A i \in 1..Len(L) : TurnAt(L, i) \in 1..3
         /\ \A i, j \in 1..Len(L) : i <= j => TurnAt(L, i) <= TurnAt(L, j)
<1>1. Len(L) \in {4, 6, 9} /\ L \in Seq({L[i] : i \in DOMAIN L})
  BY DEF IsRound
<1>2. DOMAIN L = 1..Len(L)
  BY <1>1
<1> PICK len, m : len = Len(L) /\ m = IF len = 4 THEN 3 ELSE 5
  OBVIOUS
<1>3. \A i : TurnAt(L, i) = IF i = 1 THEN 1 ELSE IF i <= m THEN 2 ELSE 3
  BY DEF TurnAt
<1> DEFINE at(i) == TurnAt(L, i)
<1>4. (len = 4 /\ m = 3) \/ (len = 6 /\ m = 5) \/ (len = 9 /\ m = 5)
  BY <1>1
<1>5. \A i : at(i) = IF i = 1 THEN 1 ELSE IF i <= m THEN 2 ELSE 3
  BY <1>3
<1> HIDE DEF at
<1>6. /\ at(1) = 1 /\ at(len) = 3
      /\ \A i \in 1..len : at(i) \in 1..3
      /\ \A i, j \in 1..len : i <= j => at(i) <= at(j)
  <2>1. at(1) = 1 /\ at(len) = 3
    BY <1>4, <1>5
  <2>2. \A i \in 1..len : at(i) \in 1..3
    BY ONLY <1>5
  <2>3. ASSUME NEW i \in 1..len, NEW j \in 1..len, i <= j PROVE at(i) <= at(j)
    BY ONLY <1>4, <1>5, i \in 1..len, j \in 1..len, i <= j
  <2>4. QED
    BY <2>1, <2>2, <2>3
<1>7. QED
  BY <1>1, <1>2, <1>6 DEF at

\* The phase that was launched last, when the host has come to operation x
Phase(x) == IF x = 1 THEN 0 ELSE TurnAt(Launches, x - 1)

\* A thread block that runs is of that phase.  Two of them have a block of the
\* matrix in common only when the block was relaxed in an earlier phase.
OnTurn(t, x) ==
  /\ t.memory = 0 /\ t.device = 0
  /\ \E i \in 1..(x - 1) :
       /\ TurnAt(Launches, i) = Phase(x)
       /\ t.kernel = Launches[i].kernel /\ t.stream = Launches[i].stream
       /\ Left(t) \subseteq Area(Launches[i])
ThreadsOnTurn(T, x) ==
  /\ \A t \in T : OnTurn(t, x)
  /\ \A t, u \in T : t # u => \A b \in Left(t) \cap Left(u) : Turn(b, r) < Phase(x)

\* A block has gone through the steps of the round when its phase is over, or
\* its launch was and no thread block has it to do.
IsDone(b, T, x) ==
  \/ Turn(b, r) < Phase(x)
  \/ /\ Turn(b, r) = Phase(x) /\ \E i \in 1..(x - 1) : b \in Area(Launches[i])
     /\ \A t \in T : b \notin Left(t)
IsFinal(b, g) == Reached(Steps, End(r), Span(b[1]), Span(b[2]), g)
DoneBlocks(g, T, x) == \A b \in Cells(round) : IsDone(b, T, x) => IsFinal(b, g)

\* What a thread block holds: no less than the matrix at the end of the round,
\* and no more either for a block whose phase is over
IsHeld(X, b, x) ==
  AtLeast(X, b, Steps[End(r)]) /\ (Turn(b, r) < Phase(x) => AtMost(X, b, Steps[End(r)]))
LoadedInTurn(m, b, x) ==
  /\ IsHeld(m.a, b, x) /\ IsHeld(m.b, <<b[1], r>>, x) /\ IsHeld(m.c, <<r, b[2]>>, x)
  /\ AtMost(m.a, b, Steps[r * B])
Progress(g, S, x) ==
  \A t \in DOMAIN S :
    IF t.kernel.global
    THEN Reached(Steps, r * B + S[t], Span(Head(t.blocks)[1]), Span(Head(t.blocks)[2]), g)
    ELSE LoadedInTurn(S[t], Head(t.blocks), x)

RoundInv(g, x, T, S) ==
  /\ x \in 1..(Len(Launches) + 1)
  /\ Between(Steps, r * B, End(r), Side, g)
  /\ ThreadsOnTurn(T, x) /\ DoneBlocks(g, T, x) /\ Progress(g, S, x)

\* Between rounds
StartInv(g, x, T) ==
  /\ r = round => x = 1
  /\ x = 1 => T = {} /\ g = Steps[Lesser(r * B, Side)]

FileInv(o) == o # NotWritten => o = ShortestPaths(Weights, n, INF)

OrderedInv ==
  Ordered => /\ r < round => RoundInv(dist[0], next, todo, sm)
             /\ StartInv(dist[0], next, todo) /\ FileInv(Dist_s)

\* What depends on the input and the round only
LEMMA SameTurns ==
  ASSUME version' = version, file' = file, r' = r
  PROVE  /\ Ordered' <=> Ordered
         /\ round' = round
         /\ \A g, x, T, S : RoundInv(g, x, T, S)' <=> RoundInv(g, x, T, S)
         /\ \A g, x, T : StartInv(g, x, T)' <=> StartInv(g, x, T)
         /\ \A o : FileInv(o)' <=> FileInv(o)
<1>1. n' = n /\ round' = round /\ Side' = Side /\ Steps' = Steps /\ Weights' = Weights
      /\ (\A i : Span(i)' = Span(i)) /\ End(r)' = End(r)
  BY SameInput DEF End
<1>2. Launches' = Launches
  BY <1>1 DEF Launches
<1>3. \A x : Phase(x)' = Phase(x)
  BY <1>2 DEF Phase
<1>4. \A T, x : ThreadsOnTurn(T, x)' <=> ThreadsOnTurn(T, x)
  <2>1. \A t, x : OnTurn(t, x)' <=> OnTurn(t, x)
    BY <1>2, <1>3, Zenon DEF OnTurn
  <2>2. QED
    BY <1>3, <2>1, Zenon DEF ThreadsOnTurn
<1>5. \A g, T, x : DoneBlocks(g, T, x)' <=> DoneBlocks(g, T, x)
  <2>1. \A b, T, x : IsDone(b, T, x)' <=> IsDone(b, T, x)
    BY <1>2, <1>3, Zenon DEF IsDone
  <2>2. \A b, g : IsFinal(b, g)' <=> IsFinal(b, g)
    BY <1>1, Zenon DEF IsFinal, Reached
  <2>3. QED
    BY <1>1, <2>1, <2>2, Zenon DEF DoneBlocks
<1>6. \A g, S, x : Progress(g, S, x)' <=> Progress(g, S, x)
  <2>1. \A X, b, L : (AtLeast(X, b, L)' <=> AtLeast(X, b, L)) /\ (AtMost(X, b, L)' <=> AtMost(X, b, L))
    BY <1>1, Zenon DEF AtLeast, AtMost, At
  <2>2. \A X, b, x : IsHeld(X, b, x)' <=> IsHeld(X, b, x)
    BY <1>1, <1>3, <2>1, Zenon DEF IsHeld
  <2>3. \A m, b, x : LoadedInTurn(m, b, x)' <=> LoadedInTurn(m, b, x)
    BY <1>1, <2>1, <2>2, Zenon DEF LoadedInTurn
  <2>4. QED
    BY <1>1, <2>3, Zenon DEF Progress, Reached
<1>7. \A g, x, T, S : RoundInv(g, x, T, S)' <=> RoundInv(g, x, T, S)
  BY <1>1, <1>2, <1>4, <1>5, <1>6, Zenon DEF RoundInv, Between
<1>8. \A g, x, T : StartInv(g, x, T)' <=> StartInv(g, x, T)
  BY <1>1, Zenon DEF StartInv
<1>9. \A o : FileInv(o)' <=> FileInv(o)
  BY <1>1, Zenon DEF FileInv
<1>10. QED
  BY <1>1, <1>7, <1>8, <1>9 DEF Ordered

\* The matrices of a round
LEMMA RoundSteps ==
  ASSUME IsInput, r \in 0..(round - 1)
  PROVE  /\ Side \in Nat /\ INF \in Nat /\ IsSteps(Steps, input(file, Side), Side, INF)
         /\ \A k \in 0..Side : Steps[k] \in Matrices(Side, INF)
         /\ r * B \in 0..Side /\ End(r) \in 0..Side /\ r * B + Height(r) = End(r)
         /\ r * B < End(r) /\ Height(r) \in Nat
         /\ \A k, m \in 0..Side : k <= m => \A i, j \in 0..(Side - 1) :
              Steps[m][<<i, j>>] <= Steps[k][<<i, j>>]
<1> PICK N, D, w, x, h : N = Side /\ D = Steps /\ w = input(file, Side) /\ x = r * B /\ h = Height(r)
  OBVIOUS
<1>1. N \in Nat /\ INF \in Nat /\ IsSteps(D, w, N, INF)
  BY StepsOfInput
<1>2. x \in 0..(N - 1) /\ x + h = End(r) /\ End(r) \in 1..N /\ h \in Nat \ {0}
  BY BlockIs, SpanTypes, SizesAre
<1>3. \A k \in 0..N : D[k] \in Matrices(N, INF)
  BY <1>1 DEF IsSteps
<1>4. ASSUME NEW k \in 0..N, NEW m \in 0..N, k <= m, NEW i \in 0..(N - 1), NEW j \in 0..(N - 1)
      PROVE  D[m][<<i, j>>] <= D[k][<<i, j>>]
  <2>1. m \in k..N
    BY <1>1, <1>4
  <2>2. QED
    BY ONLY <1>1, <1>4, <2>1, StepsDecrease
<1>5. x \in 0..N /\ End(r) \in 0..N /\ x < End(r)
  BY <1>1, <1>2
<1>6. QED
  BY <1>1, <1>2, <1>3, <1>4, <1>5

\* At the end of a round, no detour through its vertices is of use.
LEMMA EndIsFinal ==
  ASSUME IsInput, r \in 0..(round - 1)
  PROVE  NoDetour(Steps[End(r)])
<1> PICK N, D, w, e : N = Side /\ D = Steps /\ w = input(file, Side) /\ e = End(r)
  OBVIOUS
<1>1. N \in Nat /\ INF \in Nat /\ IsSteps(D, w, N, INF) /\ e \in 0..N /\ D[e] \in Matrices(N, INF)
  BY RoundSteps
<1>2. \A v \in Span(r) : v \in 0..(e - 1)
  <2>1. r * B \in Nat /\ Height(r) \in Nat /\ r * B + Height(r) = e
    BY RoundSteps
  <2> PICK x, h : x = r * B /\ h = Height(r)
    OBVIOUS
  <2>2. QED
    BY ONLY <2>1, x = r * B, h = Height(r) DEF Span
<1>3. ASSUME NEW v \in Span(r), NEW i \in 0..(N - 1), NEW j \in 0..(N - 1)
      PROVE  D[e][<<i, j>>] <= D[e][<<i, v>>] + D[e][<<v, j>>]
  <2>1. v \in 0..(e - 1)
    BY <1>2
  <2>2. QED
    BY ONLY <1>1, <1>3, <2>1, Detour
<1>4. QED
  BY <1>1, <1>3 DEF NoDetour

\* What the host has to do in this round
LEMMA RoundIs ==
  ASSUME IsInput, Ordered, r \in 0..(round - 1)
  PROVE  /\ IsRound(Launches, r, round) /\ DOMAIN Launches = 1..Len(Launches)
         /\ Len(Launches) \in Nat \ {0}
<1>1. IsRound(Launches, r, round)
  BY RoundsAre DEF Launches
<1>2. QED
  BY <1>1, TurnsAre

\* No entry of h is more than that of g.
Shrinks(h, g) == h \in Matrices(Side, INF) /\ \A i, j \in 0..(Side - 1) : h[<<i, j>>] <= g[<<i, j>>]

LEMMA FinalStays ==
  ASSUME IsInput, r \in 0..(round - 1), NEW b \in Cells(round), NEW g \in Matrices(Side, INF),
         NEW h, Shrinks(h, g), NEW v \in 0..Side, Reached(Steps, v, Span(b[1]), Span(b[2]), g)
  PROVE  Reached(Steps, v, Span(b[1]), Span(b[2]), h)
<1> PICK N, D, w, is, js : N = Side /\ D = Steps /\ w = input(file, Side)
                            /\ is = Span(b[1]) /\ js = Span(b[2])
  OBVIOUS
<1>1. N \in Nat /\ INF \in Nat /\ IsSteps(D, w, N, INF) /\ v \in 0..v /\ v \in 0..N
  BY RoundSteps
<1>2. is \in SUBSET (0..(N - 1)) /\ js \in SUBSET (0..(N - 1))
  BY SpanTypes, BlockOfTwo
<1>3. g \in Matrices(N, INF) /\ h \in Matrices(N, INF) /\ \A i, j \in 0..(N - 1) : h[<<i, j>>] <= g[<<i, j>>]
  BY DEF Shrinks
<1>4. Reached(D, v, is, js, g)
  OBVIOUS
<1>5. Reached(D, v, is, js, h)
  BY ONLY <1>1, <1>2, <1>3, <1>4, ReachedStays
<1>6. QED
  BY <1>5

\* The state in which a round begins
RoundStart ==
  /\ IsInput /\ Ordered /\ r \in 0..(round - 1) /\ next = 1 /\ todo = {} /\ DOMAIN sm = {}
  /\ dist[0] = Steps[Lesser(r * B, Side)]

LEMMA RoundBegins == RoundStart => RoundInv(dist[0], next, todo, sm)
<1> SUFFICES ASSUME IsInput, Ordered, r \in 0..(round - 1), next = 1, todo = {}, DOMAIN sm = {},
                    dist[0] = Steps[Lesser(r * B, Side)]
             PROVE  RoundInv(dist[0], 1, {}, sm)
  BY DEF RoundStart
<1>1. r * B \in 0..Side /\ Side \in Nat /\ End(r) \in 0..Side /\ r * B < End(r)
  BY RoundSteps
<1>2. dist[0] = Steps[r * B]
  <2> PICK x : x = r * B
    OBVIOUS
  <2>1. Lesser(x, Side) = x
    BY <1>1 DEF Lesser
  <2>2. QED
    BY <2>1
<1>3. Between(Steps, r * B, End(r), Side, dist[0])
  <2> PICK x, e : x = r * B /\ e = End(r)
    OBVIOUS
  <2>1. x <= e /\ x <= x /\ x \in 0..Side /\ e \in 0..Side
    BY <1>1
  <2>2. \A i, j \in 0..(Side - 1) : /\ Steps[e][<<i, j>>] <= Steps[x][<<i, j>>]
                                    /\ Steps[x][<<i, j>>] <= Steps[x][<<i, j>>]
    BY <2>1, RoundSteps
  <2>3. QED
    BY <1>2, <2>2 DEF Between
<1>4. 1 \in 1..(Len(Launches) + 1)
  BY RoundIs
<1>5. ThreadsOnTurn({}, 1) /\ Progress(dist[0], sm, 1)
  BY DEF ThreadsOnTurn, Progress
<1>6. DoneBlocks(dist[0], {}, 1)
  <2>1. SUFFICES ASSUME NEW b \in Cells(round), IsDone(b, {}, 1) PROVE FALSE
    BY DEF DoneBlocks
  <2>2. Turn(b, r) \in 1..3 /\ Phase(1) = 0
    BY TurnIs DEF Phase
  <2>3. QED
    BY <2>1, <2>2 DEF IsDone
<1>7. QED
  BY <1>3, <1>4, <1>5, <1>6 DEF RoundInv

LEMMA InitOrdered ==
  ASSUME Init
  PROVE  OrderedInv
<1>1. BasicInv /\ \A m \in Memories : dist[m] = Steps[0]
  BY InitBasic
<1>2. r = 0 /\ next = 1 /\ todo = {} /\ DOMAIN sm = {} /\ Dist_s = NotWritten
  BY DEF Init
<1>3. IsInput /\ 0 \in Memories /\ round \in Nat \ {0} /\ r \in 0..(round - 1)
  BY <1>1, <1>2, SizesAre DEF BasicInv, Memories
<1>4. dist[0] = Steps[Lesser(r * B, Side)]
  <2>1. r * B = 0 /\ 0 <= Side /\ Side \in Nat
    BY <1>2, <1>3, SizesAre
  <2>2. Lesser(0, Side) = 0
    BY <2>1 DEF Lesser
  <2>3. QED
    BY <1>1, <1>3, <2>1, <2>2
<1>5. Ordered => RoundInv(dist[0], next, todo, sm)
  BY <1>2, <1>3, <1>4, RoundBegins DEF RoundStart
<1>6. QED
  BY <1>2, <1>4, <1>5 DEF OrderedInv, StartInv, FileInv

\* A step that leaves the round alone
LEMMA OrderedKept ==
  ASSUME version' = version, file' = file, r' = r,
         Ordered => /\ r < round => RoundInv(dist'[0], next', todo', sm')
                    /\ StartInv(dist'[0], next', todo') /\ FileInv(Dist_s')
  PROVE  OrderedInv'
<1>1. /\ Ordered' <=> Ordered
      /\ round' = round
      /\ \A g, x, T, S : RoundInv(g, x, T, S)' <=> RoundInv(g, x, T, S)
      /\ \A g, x, T : StartInv(g, x, T)' <=> StartInv(g, x, T)
      /\ \A o : FileInv(o)' <=> FileInv(o)
  BY SameTurns
<1>2. QED
  BY <1>1 DEF OrderedInv

\* A launch of a phase that runs, or of the next one when nothing does
LEMMA StartInPhase ==
  ASSUME BasicInv, OrderedInv, Ordered, Start
  PROVE  /\ next \in 1..Len(Launches) /\ next + 1 \in 1..(Len(Launches) + 1)
         /\ r \in 0..(round - 1) /\ r < round /\ RoundInv(dist[0], next, todo, sm)
         /\ todo' = todo \cup ThreadBlocks(Launches[next])
         /\ Phase(next + 1) = TurnAt(Launches, next) /\ Phase(next + 1) \in 1..3
         /\ Phase(next) = Phase(next + 1) \/ (todo = {} /\ DOMAIN sm = {})
         /\ next = 1 => Phase(next) = 0 /\ Phase(next + 1) = 1
         /\ next # 1 => next - 1 \in 1..Len(Launches) /\ Phase(next) = TurnAt(Launches, next - 1)
<1> PICK L, x, l : L = Launches /\ x = next /\ l = L[x]
  OBVIOUS
<1>1. IsInput /\ r \in 0..(round - 1) /\ r < round
  BY SizesAre DEF BasicInv, Start
<1>2. IsRound(L, r, round) /\ DOMAIN L = 1..Len(L) /\ Len(L) \in Nat \ {0}
  BY <1>1, RoundIs
<1>3. RoundInv(dist[0], x, todo, sm) /\ StartInv(dist[0], x, todo)
  BY <1>1 DEF OrderedInv
<1>4. /\ x \in 1..Len(L)
      /\ \A t \in todo : t.device # l.device \/ (t.stream # 0 /\ l.stream # 0 /\ t.stream # l.stream)
      /\ todo' = todo \cup ThreadBlocks(l) \/ l.stream > 2
  BY <1>2 DEF Start
<1>5. l.device = 0 /\ l.stream \in 0..2 /\ (TurnAt(L, x) # 2 => l.stream = 0)
  BY <1>2, <1>4 DEF IsRound
<1>6. x + 1 \in 1..(Len(L) + 1) /\ x \in Nat /\ (x + 1) - 1 = x /\ x + 1 # 1
      /\ (x # 1 => x - 1 \in 1..Len(L) /\ x - 1 <= x)
  BY <1>2, <1>4
<1>7. Phase(x + 1) = TurnAt(L, x) /\ (x # 1 => Phase(x) = TurnAt(L, x - 1)) /\ (x = 1 => Phase(x) = 0)
  BY <1>6 DEF Phase
<1>8. TurnAt(L, 1) = 1 /\ (\A i \in 1..Len(L) : TurnAt(L, i) \in 1..3)
  BY <1>2, TurnsAre
<1>9. todo' = todo \cup ThreadBlocks(l)
  <2>1. ~(l.stream > 2)
    BY <1>5
  <2>2. QED
    BY <1>4, <2>1
<1>10. ASSUME Phase(x) # Phase(x + 1), NEW t \in todo PROVE FALSE
  <2>1. OnTurn(t, x) /\ x # 1
    BY <1>3 DEF RoundInv, ThreadsOnTurn, StartInv
  <2>2. PICK i \in 1..(x - 1) : TurnAt(L, i) = Phase(x) /\ t.stream = L[i].stream
    BY <2>1 DEF OnTurn
  <2>3. t.device = 0
    BY <2>1 DEF OnTurn
  <2>4. i \in 1..Len(L)
    BY <1>2, <1>4
  <2>5. TurnAt(L, i) # 2 => t.stream = 0
    BY <1>2, <2>2, <2>4 DEF IsRound
  <2>6. TurnAt(L, i) # TurnAt(L, x)
    BY <1>7, <1>10, <2>2
  <2>7. t.stream = 0 \/ l.stream = 0
    BY <1>5, <2>5, <2>6
  <2>8. QED
    BY <1>4, <1>5, <2>3, <2>7
<1>11. DOMAIN sm \subseteq todo
  BY DEF BasicInv, ThreadsInv
<1>12. QED
  BY <1>1, <1>3, <1>4, <1>6, <1>7, <1>8, <1>9, <1>10, <1>11

LEMMA StartThreads ==
  ASSUME BasicInv, OrderedInv, Ordered, Start
  PROVE  ThreadsOnTurn(todo', next + 1)
<1> PICK L, x, l, p : L = Launches /\ x = next /\ l = L[x] /\ p = Phase(x + 1)
  OBVIOUS
<1>1. /\ x \in 1..Len(L) /\ r \in 0..(round - 1) /\ RoundInv(dist[0], x, todo, sm)
      /\ todo' = todo \cup ThreadBlocks(l) /\ p = TurnAt(L, x) /\ p \in 1..3
      /\ todo # {} => Phase(x) = p
  BY StartInPhase, Zenon
<1>2. IsRound(L, r, round) /\ Len(L) \in Nat /\ round \in Nat
  BY RoundIs, SizesAre, <1>1 DEF BasicInv
<1>3. IsLaunch(l, round) /\ l.memory = 0 /\ l.device = 0
  BY <1>1, <1>2 DEF IsRound
<1>4. /\ \A t \in ThreadBlocks(l) :
           /\ t = [kernel |-> l.kernel, stream |-> l.stream, device |-> l.device,
                   memory |-> l.memory, blocks |-> t.blocks]
           /\ t.blocks \in Seq(Area(l))
      /\ \A t, u \in ThreadBlocks(l) : t # u => Left(t) \cap Left(u) = {}
  BY <1>2, <1>3, ThreadBlocksAre
<1>5. x - 1 \in 0..((x + 1) - 1) /\ x \in 1..((x + 1) - 1) /\ (\A i \in 1..(x - 1) : i \in 1..((x + 1) - 1) /\ i \in 1..Len(L))
      /\ x \notin 1..(x - 1)
  BY <1>1, <1>2
<1>6. ASSUME NEW t \in ThreadBlocks(l) PROVE OnTurn(t, x + 1) /\ Left(t) \subseteq Area(l)
  <2>1. t.kernel = l.kernel /\ t.stream = l.stream /\ t.device = 0 /\ t.memory = 0
    BY <1>3, <1>4
  <2>2. Left(t) \subseteq Area(l)
    <3>1. t.blocks \in Seq(Area(l))
      BY <1>4
    <3>2. QED
      BY <3>1 DEF Left
  <2>3. QED
    BY <1>1, <1>5, <2>1, <2>2 DEF OnTurn
<1>7. ASSUME NEW t \in todo
      PROVE  OnTurn(t, x + 1) /\ \E i \in 1..(x - 1) : TurnAt(L, i) = p /\ Left(t) \subseteq Area(L[i])
  <2>1. OnTurn(t, x) /\ Phase(x) = p
    BY <1>1 DEF RoundInv, ThreadsOnTurn
  <2>2. PICK i \in 1..(x - 1) :
          /\ TurnAt(L, i) = p /\ Left(t) \subseteq Area(L[i])
          /\ t.kernel = L[i].kernel /\ t.stream = L[i].stream
    BY <2>1 DEF OnTurn
  <2>3. i \in 1..((x + 1) - 1) /\ t.memory = 0 /\ t.device = 0
    BY <1>5, <2>1 DEF OnTurn
  <2>4. OnTurn(t, x + 1)
    BY <2>2, <2>3 DEF OnTurn
  <2>5. QED
    BY <2>2, <2>4
<1>8. ASSUME NEW t \in todo, NEW u \in ThreadBlocks(l), NEW b \in Left(t) \cap Left(u)
      PROVE  Turn(b, r) < p
  <2>1. PICK i \in 1..(x - 1) : TurnAt(L, i) = p /\ Left(t) \subseteq Area(L[i])
    BY <1>7
  <2>2. b \in Area(L[i]) /\ b \in Area(L[x]) /\ i \in 1..Len(L) /\ i # x
    BY <1>5, <1>6, <2>1
  <2>3. Turn(b, r) # p
    <3>1. \A j, k \in 1..Len(L) : \A c \in Area(L[j]) \cap Area(L[k]) :
            Turn(c, r) = TurnAt(L, j) /\ Turn(c, r) = TurnAt(L, k) => j = k
      BY <1>2 DEF IsRound
    <3>2. QED
      BY <1>1, <2>1, <2>2, <3>1
  <2>4. Turn(b, r) <= p
    BY <1>1, <1>2, <2>2 DEF IsRound
  <2>5. Turn(b, r) \in {1, 2, 3}
    BY DEF Turn
  <2>6. QED
    BY <1>1, <2>3, <2>4, <2>5
<1>9. ASSUME NEW t \in todo', NEW u \in todo', t # u, NEW b \in Left(t) \cap Left(u)
      PROVE  Turn(b, r) < p
  <2>1. CASE t \in todo /\ u \in todo
    BY <1>1, <1>9, <2>1 DEF RoundInv, ThreadsOnTurn
  <2>2. CASE t \in ThreadBlocks(l) /\ u \in ThreadBlocks(l)
    BY <1>4, <1>9, <2>2
  <2>3. CASE t \in todo /\ u \in ThreadBlocks(l)
    BY <1>8, <2>3
  <2>4. CASE u \in todo /\ t \in ThreadBlocks(l)
    BY <1>8, <2>4
  <2>5. QED
    BY <1>1, <2>1, <2>2, <2>3, <2>4
<1>10. QED
  BY <1>1, <1>6, <1>7, <1>9 DEF ThreadsOnTurn

LEMMA StartDone ==
  ASSUME BasicInv, OrderedInv, Ordered, Start
  PROVE  DoneBlocks(dist[0], todo', next + 1)
<1> PICK L, x, l, p : L = Launches /\ x = next /\ l = L[x] /\ p = Phase(x + 1)
  OBVIOUS
<1>1. /\ x \in 1..Len(L) /\ r \in 0..(round - 1) /\ RoundInv(dist[0], x, todo, sm)
      /\ todo' = todo \cup ThreadBlocks(l) /\ p = TurnAt(L, x) /\ p \in 1..3
      /\ Phase(x) = p \/ todo = {}
      /\ x = 1 => Phase(x) = 0 /\ p = 1
      /\ x # 1 => x - 1 \in 1..Len(L) /\ Phase(x) = TurnAt(L, x - 1)
  BY StartInPhase, Zenon
<1>2. IsRound(L, r, round) /\ Len(L) \in Nat /\ round \in Nat
  BY RoundIs, SizesAre, <1>1 DEF BasicInv
<1>3. /\ \A i \in 1..Len(L) : TurnAt(L, i) \in 1..3
      /\ \A i, j \in 1..Len(L) : i <= j => TurnAt(L, i) <= TurnAt(L, j)
  BY <1>2, TurnsAre
<1>4. \A b \in Area(l) : \E t \in ThreadBlocks(l) : b \in Left(t)
  <2>1. IsLaunch(l, round)
    BY <1>1, <1>2 DEF IsRound
  <2>2. QED
    BY <1>2, <2>1, ThreadBlocksAre
<1>5. ASSUME NEW b \in Cells(round), IsDone(b, todo', x + 1)
      PROVE  IsDone(b, todo, x)
  <2>0. Turn(b, r) \in 1..3 /\ Phase(x) \in 0..3
    <3>1. Turn(b, r) \in 1..3
      BY <1>1, TurnIs
    <3>2. x # 1 => Phase(x) \in 1..3
      BY <1>1, <1>3, Zenon
    <3>3. QED
      BY <1>1, <3>1, <3>2
  <2>9. \/ Turn(b, r) < Phase(x + 1)
        \/ /\ Turn(b, r) = Phase(x + 1) /\ \E i \in 1..((x + 1) - 1) : b \in Area(Launches[i])
           /\ \A t \in todo' : b \notin Left(t)
    BY <1>5, Zenon DEF IsDone
  <2> PICK tb, px : tb = Turn(b, r) /\ px = Phase(x)
    OBVIOUS
  <2>1. CASE Phase(x) = p
    <3>1. CASE tb < p
      BY <2>1, <3>1 DEF IsDone
    <3>2. CASE ~(tb < p)
      <4>1. tb = p /\ (\E i \in 1..((x + 1) - 1) : b \in Area(L[i])) /\ \A t \in todo' : b \notin Left(t)
        BY <2>9, <3>2, Zenon
      <4>2. PICK i \in 1..((x + 1) - 1) : b \in Area(L[i])
        BY <4>1
      <4>3. i # x
        BY <1>1, <1>4, <4>1, <4>2
      <4>4. i \in 1..(x - 1)
        BY <1>1, <1>2, <4>3
      <4>5. QED
        BY <1>1, <2>1, <4>1, <4>2, <4>4 DEF IsDone
    <3>3. QED
      BY <3>1, <3>2
  <2>2. CASE Phase(x) # p
    <3>1. todo = {} /\ px <= p /\ px < p
      <4>1. px <= p
        <5>1. CASE x = 1
          BY <1>1, <5>1
        <5>2. CASE x # 1
          <6>1. x - 1 \in 1..Len(L) /\ x - 1 <= x
            BY <1>1, <1>2, <5>2
          <6>2. TurnAt(L, x - 1) <= TurnAt(L, x)
            BY <1>1, <1>3, <6>1
          <6>3. QED
            BY <1>1, <5>2, <6>2
        <5>3. QED
          BY <5>1, <5>2
      <4>2. QED
        BY <1>1, <2>0, <2>2, <4>1
    <3>2. tb < p
      <4>1. SUFFICES ASSUME ~(tb < p) PROVE FALSE
        OBVIOUS
      <4>2. tb = p /\ (\E i \in 1..((x + 1) - 1) : b \in Area(L[i])) /\ \A t \in todo' : b \notin Left(t)
        BY <2>9, <4>1, Zenon
      <4>3. PICK i \in 1..((x + 1) - 1) : b \in Area(L[i])
        BY <4>2
      <4>4. i # x
        BY <1>1, <1>4, <4>2, <4>3
      <4>5. i \in 1..Len(L) /\ x - 1 \in 1..Len(L) /\ i <= x - 1 /\ x # 1
        BY <1>1, <1>2, <4>4
      <4>6. tb <= TurnAt(L, i)
        BY <1>2, <4>3, <4>5 DEF IsRound
      <4>7. TurnAt(L, i) <= px /\ TurnAt(L, i) \in 1..3
        BY <1>1, <1>3, <4>5
      <4>8. QED
        BY <1>1, <2>0, <3>1, <4>2, <4>6, <4>7
    <3>3. CASE x = 1
      BY <1>1, <2>0, <3>2, <3>3
    <3>4. CASE x # 1
      <4>1. CASE tb < px
        BY <4>1 DEF IsDone
      <4>2. CASE ~(tb < px)
        <5>1. PICK i \in 1..Len(L) : b \in Area(L[i]) /\ tb = TurnAt(L, i)
          BY <1>2 DEF IsRound
        <5>2. ~(x <= i)
          <6>1. x <= i => p <= tb
            BY <1>1, <1>3, <5>1
          <6>2. QED
            BY <1>1, <2>0, <3>2, <6>1
        <5>3. i \in 1..(x - 1) /\ x - 1 \in 1..Len(L) /\ i <= x - 1
          BY <1>1, <1>2, <5>2
        <5>4. tb <= px
          BY <1>1, <1>3, <3>4, <5>1, <5>3
        <5>5. tb = px
          BY <2>0, <4>2, <5>4
        <5>6. QED
          BY <3>1, <5>1, <5>3, <5>5 DEF IsDone
      <4>3. QED
        BY <4>1, <4>2
    <3>5. QED
      BY <3>3, <3>4
  <2>3. QED
    BY <2>1, <2>2
<1>6. QED
  BY <1>1, <1>5 DEF RoundInv, DoneBlocks

LEMMA StartOrdered ==
  ASSUME BasicInv, OrderedInv, Start
  PROVE  OrderedInv'
<1>1. /\ version' = version /\ file' = file /\ r' = r /\ dist' = dist /\ sm' = sm /\ Dist_s' = Dist_s
      /\ next' = next + 1 /\ r < round
  BY DEF Start
<1>2. ASSUME Ordered
      PROVE  RoundInv(dist'[0], next', todo', sm')
  <2>1. /\ next + 1 \in 1..(Len(Launches) + 1) /\ RoundInv(dist[0], next, todo, sm)
        /\ Phase(next) = Phase(next + 1) \/ DOMAIN sm = {}
    BY <1>2, StartInPhase, Zenon
  <2>2. ThreadsOnTurn(todo', next + 1) /\ DoneBlocks(dist[0], todo', next + 1)
    BY <1>2, StartThreads, StartDone
  <2>3. Progress(dist[0], sm, next + 1)
    <3>1. CASE DOMAIN sm = {}
      BY <3>1 DEF Progress
    <3>2. CASE Phase(next) = Phase(next + 1)
      <4>1. \A X, b : IsHeld(X, b, next + 1) <=> IsHeld(X, b, next)
        BY <3>2, Zenon DEF IsHeld
      <4>2. \A m, b : LoadedInTurn(m, b, next + 1) <=> LoadedInTurn(m, b, next)
        BY <4>1, Zenon DEF LoadedInTurn
      <4>3. Progress(dist[0], sm, next)
        BY <2>1 DEF RoundInv
      <4>4. QED
        BY <4>2, <4>3, Zenon DEF Progress
    <3>3. QED
      BY <2>1, <3>1, <3>2
  <2>4. Between(Steps, r * B, End(r), Side, dist[0])
    BY <2>1 DEF RoundInv
  <2>5. QED
    BY <1>1, <2>1, <2>2, <2>3, <2>4, Zenon DEF RoundInv
<1>3. ASSUME Ordered
      PROVE  StartInv(dist'[0], next', todo') /\ FileInv(Dist_s')
  <2>1. next + 1 # 1
    BY DEF BasicInv
  <2>2. r # round
    BY <1>1, SizesAre DEF BasicInv
  <2>3. FileInv(Dist_s)
    BY <1>3 DEF OrderedInv
  <2>4. QED
    BY <1>1, <2>1, <2>2, <2>3 DEF StartInv
<1>4. QED
  BY <1>1, <1>2, <1>3, OrderedKept

\* The thread blocks that run are of the phase that was launched last.
LEMMA RunningIs ==
  ASSUME BasicInv, OrderedInv, Ordered, NEW t \in todo
  PROVE  /\ IsInput /\ r \in 0..(round - 1) /\ r < round /\ r # round
         /\ RoundInv(dist[0], next, todo, sm) /\ next # 1 /\ t.memory = 0
         /\ vertex_num = Side /\ dist[0] \in Matrices(Side, INF) /\ Phase(next) \in 1..3
         /\ Block(t) \in Cells(round) /\ Block(t) \in Left(t)
         /\ Turn(Block(t), r) = Phase(next) => BlockIsAlias(t.kernel, Block(t), r)
         /\ \A b \in Left(t) : b \in Cells(round) /\ Turn(b, r) <= Phase(next)
         /\ FileInv(Dist_s)
<1> PICK L, x : L = Launches /\ x = next
  OBVIOUS
<1>1. /\ r \in 0..(round - 1) /\ IsThread(t) /\ Block(t) = t.blocks[1] /\ Block(t) \in Cells(round)
      /\ Len(t.blocks) \in Nat \ {0} /\ IsInput /\ vertex_num = Side
  BY ThreadIs, VertexNum DEF BasicInv
<1>2. r < round /\ r # round
  BY <1>1, SizesAre
<1>3. RoundInv(dist[0], x, todo, sm) /\ StartInv(dist[0], x, todo) /\ FileInv(Dist_s)
  BY <1>2 DEF OrderedInv
<1>4. x # 1 /\ OnTurn(t, x) /\ x \in 1..(Len(L) + 1)
  BY <1>3 DEF RoundInv, StartInv, ThreadsOnTurn
<1>5. PICK i \in 1..(x - 1) :
        TurnAt(L, i) = Phase(x) /\ t.kernel = L[i].kernel /\ Left(t) \subseteq Area(L[i])
  BY <1>4 DEF OnTurn
<1>6. IsRound(L, r, round) /\ Len(L) \in Nat
  BY <1>1, RoundIs
<1>7. i \in 1..Len(L)
  BY <1>4, <1>6
<1>8. Phase(x) \in 1..3
  BY <1>5, <1>6, <1>7, TurnsAre
<1>9. Block(t) \in Left(t)
  BY <1>1 DEF Left, IsThread
<1>10. ASSUME NEW b \in Left(t)
       PROVE  /\ b \in Cells(round) /\ Turn(b, r) <= Phase(x)
              /\ Turn(b, r) = Phase(x) => BlockIsAlias(t.kernel, b, r)
  <2>1. b \in Area(L[i])
    BY <1>5
  <2>2. IsLaunch(L[i], round) /\ Turn(b, r) <= TurnAt(L, i)
        /\ (Turn(b, r) = TurnAt(L, i) => BlockIsAlias(L[i].kernel, b, r))
    BY <1>6, <1>7, <2>1 DEF IsRound
  <2>3. b \in Cells(round)
    BY <1>1, <2>1, <2>2, AreaIs, SizesAre
  <2>4. QED
    BY <1>5, <2>2, <2>3
<1>11. dist[0] \in Matrices(Side, INF)
  BY DEF BasicInv, MatricesInv, IsMatrix, Memories
<1>12. t.memory = 0
  BY <1>4 DEF OnTurn
<1>13. QED
  BY <1>1, <1>2, <1>3, <1>4, <1>8, <1>9, <1>10, <1>11, <1>12

\* The operands of a block that it does not hold itself are final.
LEMMA OperandsAreFinal ==
  ASSUME BasicInv, OrderedInv, Ordered, NEW t \in todo, NEW b \in Left(t)
  PROVE  /\ <<b[1], r>> = b \/ (b[2] # r /\ Turn(<<b[1], r>>, r) < Phase(next) /\ IsFinal(<<b[1], r>>, dist[0]))
         /\ <<r, b[2]>> = b \/ (b[1] # r /\ Turn(<<r, b[2]>>, r) < Phase(next) /\ IsFinal(<<r, b[2]>>, dist[0]))
<1>1. /\ r \in 0..(round - 1) /\ b \in Cells(round) /\ Turn(b, r) <= Phase(next)
      /\ RoundInv(dist[0], next, todo, sm) /\ Phase(next) \in 1..3
  BY RunningIs
<1>2. /\ Turn(b, r) \in 1..3
      /\ <<b[1], r>> \in Cells(round) /\ <<r, b[2]>> \in Cells(round)
      /\ <<b[1], r>> = b \/ (b[2] # r /\ Turn(<<b[1], r>>, r) < Turn(b, r))
      /\ <<r, b[2]>> = b \/ (b[1] # r /\ Turn(<<r, b[2]>>, r) < Turn(b, r))
  BY <1>1, TurnIs
<1>3. ASSUME NEW c \in Cells(round), Turn(c, r) < Turn(b, r)
      PROVE  Turn(c, r) < Phase(next) /\ IsFinal(c, dist[0])
  <2>1. Turn(c, r) \in 1..3
    BY <1>1, TurnIs
  <2>2. Turn(c, r) < Phase(next)
    BY <1>1, <1>2, <1>3, <2>1
  <2>3. QED
    BY <1>1, <2>2 DEF RoundInv, DoneBlocks, IsDone
<1>4. QED
  BY <1>2, <1>3

LEMMA LoadOrdered ==
  ASSUME BasicInv, OrderedInv, NEW t \in todo, Load(t)
  PROVE  OrderedInv'
<1> PICK b, g : b = Block(t) /\ g = dist[t.memory]
  OBVIOUS
<1> PICK x : x = [a |-> Shared(g, b), b |-> Shared(g, <<b[1], r>>), c |-> Shared(g, <<r, b[2]>>)]
  OBVIOUS
<1>1. /\ sm' = [u \in DOMAIN sm \cup {t} |-> IF u = t THEN x ELSE sm[u]]
      /\ t \notin DOMAIN sm /\ ~t.kernel.global
      /\ version' = version /\ file' = file /\ r' = r /\ next' = next
      /\ todo' = todo /\ dist' = dist /\ Dist_s' = Dist_s
  BY DEF Load
<1>2. ASSUME Ordered
      PROVE  RoundInv(dist[0], next, todo, sm') /\ StartInv(dist[0], next, todo) /\ FileInv(Dist_s)
  <2>1. /\ r \in 0..(round - 1) /\ b \in Cells(round) /\ g = dist[0] /\ IsInput /\ vertex_num = Side
        /\ g \in Matrices(Side, INF) /\ RoundInv(dist[0], next, todo, sm) /\ next # 1 /\ r # round
        /\ FileInv(Dist_s)
    BY <1>2, RunningIs
  <2>2. <<b[1], r>> \in Cells(round) /\ <<r, b[2]>> \in Cells(round)
    BY <2>1, TurnIs
  <2>3. ASSUME NEW c \in Cells(round)
        PROVE  IsHeld(Shared(g, c), c, next) /\ AtMost(Shared(g, c), c, Steps[r * B])
    <3>1. \A i \in Span(c[1]), j \in Span(c[2]) :
            At(Shared(g, c), c, i, j) = g[<<i, j>>] /\ i \in 0..(Side - 1) /\ j \in 0..(Side - 1)
      BY <2>1, SharedIs, PlaceIs
    <3>2. Between(Steps, r * B, End(r), Side, g)
      BY <2>1 DEF RoundInv
    <3>3. AtLeast(Shared(g, c), c, Steps[End(r)]) /\ AtMost(Shared(g, c), c, Steps[r * B])
      BY <3>1, <3>2, Zenon DEF Between, AtLeast, AtMost
    <3>4. Turn(c, r) < Phase(next) => IsFinal(c, g)
      BY <2>1 DEF RoundInv, DoneBlocks, IsDone
    <3>5. IsFinal(c, g) => AtMost(Shared(g, c), c, Steps[End(r)])
      BY <3>1, Zenon DEF IsFinal, Reached, AtMost
    <3>6. QED
      BY <3>3, <3>4, <3>5 DEF IsHeld
  <2>4. LoadedInTurn(x, b, next)
    <3>1. x.a = Shared(g, b) /\ x.b = Shared(g, <<b[1], r>>) /\ x.c = Shared(g, <<r, b[2]>>)
      OBVIOUS
    <3>2. QED
      BY <2>1, <2>2, <2>3, <3>1 DEF LoadedInTurn
  <2>5. DOMAIN sm' = DOMAIN sm \cup {t} /\ sm'[t] = x /\ \A u \in DOMAIN sm : sm'[u] = sm[u]
    BY <1>1
  <2>6. Progress(dist[0], sm', next)
    BY <1>1, <2>1, <2>4, <2>5 DEF RoundInv, Progress, Block
  <2>7. QED
    BY <2>1, <2>6 DEF RoundInv, StartInv
<1>3. QED
  BY <1>1, <1>2, OrderedKept

\* A thread block that is done with a block leaves the round in order.
LEMMA LeaveOrdered ==
  ASSUME BasicInv, OrderedInv, Ordered, NEW t \in todo, Leave(t), NEW h, Shrinks(h, dist[0]),
         Between(Steps, r * B, End(r), Side, h), IsFinal(Block(t), h)
  PROVE  RoundInv(h, next, todo', sm')
<1> PICK g, x, s : g = dist[0] /\ x = next /\ s = t.blocks
  OBVIOUS
<1>1. /\ r \in 0..(round - 1) /\ RoundInv(g, x, todo, sm) /\ IsInput /\ g \in Matrices(Side, INF)
      /\ End(r) \in 0..Side
  BY RunningIs, RoundSteps
<1>2. \A u \in todo' : u \in todo \ {t} \/ (u = Further(t) /\ Len(s) > 1)
  BY DEF Leave, Further
<1>3. IsThread(t) /\ Len(s) \in Nat \ {0} /\ Block(t) = s[1] /\ DOMAIN s = 1..Len(s)
  <2>1. IsThread(t) /\ Len(s) \in Nat \ {0} /\ Block(t) = s[1]
    BY ThreadIs, Zenon
  <2>2. s \in Seq(Cells(round))
    BY <2>1 DEF IsThread
  <2>3. QED
    BY <2>1, <2>2
<1>4. ASSUME Len(s) > 1
      PROVE  /\ OnTurn(Further(t), x) /\ Left(Further(t)) \subseteq Left(t)
             /\ \A b \in Left(t) : b = Block(t) \/ b \in Left(Further(t))
             /\ Further(t) \in todo'
  <2> PICK u : u = Further(t)
    OBVIOUS
  <2>1. /\ u.blocks = Tail(s) /\ u.kernel = t.kernel /\ u.stream = t.stream
        /\ u.device = t.device /\ u.memory = t.memory /\ Len(Tail(s)) = Len(s) - 1
        /\ \A i \in 1..(Len(s) - 1) : Tail(s)[i] = s[i + 1]
        /\ IsThread(u)
    BY <1>3, <1>4, FurtherIs
  <2>2. DOMAIN u.blocks = 1..(Len(s) - 1)
    <3>1. u.blocks \in Seq(Cells(round))
      BY <2>1 DEF IsThread
    <3>2. QED
      BY <2>1, <3>1
  <2>3. Left(u) \subseteq Left(t)
    <3>1. \A i \in 1..(Len(s) - 1) : i + 1 \in 1..Len(s)
      BY <1>3
    <3>2. QED
      BY <1>3, <2>1, <2>2, <3>1 DEF Left
  <2>4. ASSUME NEW b \in Left(t), b # Block(t) PROVE b \in Left(u)
    <3>1. PICK i \in 1..Len(s) : b = s[i]
      BY <1>3 DEF Left
    <3>2. i # 1
      BY <1>3, <2>4, <3>1
    <3>3. i - 1 \in 1..(Len(s) - 1) /\ (i - 1) + 1 = i
      BY <1>3, <3>2
    <3>4. QED
      BY <2>1, <2>2, <3>1, <3>3 DEF Left
  <2>5. OnTurn(t, x)
    BY <1>1 DEF RoundInv, ThreadsOnTurn
  <2>6. OnTurn(u, x)
    BY <2>1, <2>3, <2>5 DEF OnTurn
  <2>7. u \in todo'
    BY <1>4 DEF Leave, Further
  <2>8. QED
    BY <2>3, <2>4, <2>6, <2>7
<1>5. ThreadsOnTurn(todo', x)
  <2>1. \A u \in todo' : OnTurn(u, x)
    BY <1>1, <1>2, <1>4 DEF RoundInv, ThreadsOnTurn
  <2>2. \A u \in todo' : \E v \in todo : Left(u) \subseteq Left(v) /\ (u = v \/ (v = t /\ u = Further(t)))
    BY <1>2, <1>4
  <2>3. ASSUME NEW u \in todo', NEW v \in todo', u # v, NEW b \in Left(u) \cap Left(v)
        PROVE  Turn(b, r) < Phase(x)
    <3>1. \A p, q \in todo : p # q => \A c \in Left(p) \cap Left(q) : Turn(c, r) < Phase(x)
      BY <1>1 DEF RoundInv, ThreadsOnTurn
    <3>2. CASE u = Further(t) /\ Len(s) > 1 /\ v \in todo \ {t}
      BY <1>4, <2>3, <3>1, <3>2
    <3>3. CASE v = Further(t) /\ Len(s) > 1 /\ u \in todo \ {t}
      BY <1>4, <2>3, <3>1, <3>3
    <3>4. CASE u \in todo \ {t} /\ v \in todo \ {t}
      BY <2>3, <3>1, <3>4
    <3>5. QED
      BY <1>2, <2>3, <3>2, <3>3, <3>4
  <2>4. QED
    BY <2>1, <2>3 DEF ThreadsOnTurn
<1>6. DoneBlocks(h, todo', x)
  <2>1. SUFFICES ASSUME NEW b \in Cells(round), IsDone(b, todo', x), b # Block(t) PROVE IsFinal(b, h)
    BY DEF DoneBlocks
  <2>2. \A u \in todo : b \notin Left(u) \/ \E v \in todo' : b \in Left(v)
    <3>1. SUFFICES ASSUME NEW u \in todo, b \in Left(u) PROVE \E v \in todo' : b \in Left(v)
      OBVIOUS
    <3>2. CASE u # t
      BY <3>1, <3>2 DEF Leave
    <3>3. CASE u = t /\ Len(s) > 1
      BY <1>4, <2>1, <3>1, <3>3
    <3>4. CASE u = t /\ ~(Len(s) > 1)
      <4>1. Len(s) = 1
        <5> PICK k : k = Len(s)
          OBVIOUS
        <5>1. k \in Nat \ {0} /\ ~(k > 1)
          BY <1>3, <3>4
        <5>2. k = 1
          BY ONLY <5>1
        <5>3. QED
          BY <5>2
      <4>2. PICK i \in 1..Len(s) : b = s[i]
        BY <1>3, <3>1, <3>4 DEF Left
      <4>3. i = 1
        BY <4>1, <4>2
      <4>4. QED
        BY <1>3, <2>1, <4>2, <4>3
    <3>5. QED
      BY <3>2, <3>3, <3>4
  <2>3. IsDone(b, todo, x)
    BY <2>1, <2>2, Zenon DEF IsDone
  <2>4. IsFinal(b, g)
    BY <1>1, <2>3 DEF RoundInv, DoneBlocks
  <2>5. QED
    BY <1>1, <2>4, FinalStays DEF IsFinal
<1>7. Progress(h, sm', x)
  <2>1. DOMAIN sm' = DOMAIN sm \ {t} /\ \A u \in DOMAIN sm' : sm'[u] = sm[u]
    BY DEF Leave
  <2>2. SUFFICES ASSUME NEW u \in DOMAIN sm, u.kernel.global,
                        Reached(Steps, r * B + sm[u], Span(Head(u.blocks)[1]), Span(Head(u.blocks)[2]), g)
                 PROVE  Reached(Steps, r * B + sm[u], Span(Head(u.blocks)[1]), Span(Head(u.blocks)[2]), h)
    BY <1>1, <2>1 DEF RoundInv, Progress
  <2>3. u \in todo /\ sm[u] \in 1..(Height(r) - 1)
    BY <2>2 DEF BasicInv, ThreadsInv
  <2>4. Block(u) \in Cells(round) /\ Block(u) = Head(u.blocks)
    BY <2>3, ThreadIs DEF Block
  <2>5. r * B + sm[u] \in 0..Side
    <3>1. r * B \in 0..Side /\ r * B + Height(r) = End(r) /\ Height(r) \in Nat /\ Side \in Nat
      BY <1>1, RoundSteps
    <3> PICK y, k, m : y = r * B /\ k = sm[u] /\ m = Height(r)
      OBVIOUS
    <3>2. QED
      BY <1>1, <2>3, <3>1
  <2>6. QED
    BY <1>1, <2>2, <2>4, <2>5, FinalStays
<1>8. QED
  BY <1>1, <1>5, <1>6, <1>7 DEF RoundInv

LEMMA PairIs ==
  ASSUME NEW b, NEW x, NEW y, <<x, y>> = b
  PROVE  b[1] = x /\ b[2] = y
OBVIOUS

\* g becomes h, which is in the round and in which block b is final.
Finishes(h, g, b) == Shrinks(h, g) /\ Between(Steps, r * B, End(r), Side, h) /\ IsFinal(b, h)

\* A kernel with shared memory takes its block to the end of the round at once,
\* also when it is there already.
LEMMA StoreFinishes ==
  ASSUME BasicInv, OrderedInv, Ordered, NEW t \in todo, Store(t)
  PROVE  \E h : dist' = [dist EXCEPT ![0] = h] /\ Finishes(h, dist[0], Block(t))
<1> PICK b, g, m, X, E : /\ b = Block(t) /\ g = dist[0] /\ m = sm[t] /\ E = Steps[End(r)]
                         /\ X = Relaxed(t.kernel, Block(t), sm[t])
  OBVIOUS
<1>1. /\ IsInput /\ r \in 0..(round - 1) /\ RoundInv(g, next, todo, sm) /\ t.memory = 0
      /\ vertex_num = Side /\ g \in Matrices(Side, INF) /\ Phase(next) \in 1..3
      /\ b \in Cells(round) /\ b \in Left(t) /\ Turn(b, r) <= Phase(next)
      /\ Turn(b, r) = Phase(next) => BlockIsAlias(t.kernel, b, r)
  BY RunningIs
<1>2. /\ t \in DOMAIN sm /\ ~t.kernel.global /\ Holds(m, b) /\ AliasesFit(t.kernel, b, r)
      /\ \E h : dist' = [dist EXCEPT ![0] = h] /\ Stored(h, g, X, b)
  <2>1. IsLoaded(m, b) /\ AliasesFit(t.kernel, b, r)
    BY StoreIs, ThreadIs
  <2>2. /\ t \in DOMAIN sm /\ ~t.kernel.global
        /\ \E h : dist' = [dist EXCEPT ![0] = h] /\ Stored(h, g, X, b)
    BY <1>1, StoreIs
  <2>3. QED
    BY <2>1, <2>2 DEF IsLoaded
<1> PICK h : dist' = [dist EXCEPT ![0] = h] /\ Stored(h, g, X, b)
  BY <1>2
<1>3. LoadedInTurn(m, b, next)
  BY <1>1, <1>2 DEF RoundInv, Progress, Block
<1>4. /\ AtLeast(m.a, b, E) /\ AtLeast(m.b, <<b[1], r>>, E) /\ AtLeast(m.c, <<r, b[2]>>, E)
      /\ AtMost(m.a, b, Steps[r * B])
      /\ Turn(b, r) < Phase(next) => AtMost(m.a, b, E)
      /\ Turn(<<b[1], r>>, r) < Phase(next) => AtMost(m.b, <<b[1], r>>, E)
      /\ Turn(<<r, b[2]>>, r) < Phase(next) => AtMost(m.c, <<r, b[2]>>, E)
  BY <1>3 DEF LoadedInTurn, IsHeld
<1>5. AtLeast(X, b, E)
  <2>1. NoDetour(E)
    BY <1>1, EndIsFinal
  <2>2. QED
    BY <1>1, <1>2, <1>4, <2>1, RelaxedStaysAbove
<1>6. AtMost(X, b, E)
  <2>1. CASE Turn(b, r) < Phase(next)
    <3>1. E \in Matrices(Side, INF)
      BY <1>1, RoundSteps
    <3>2. QED
      BY <1>1, <1>2, <1>4, <2>1, <3>1, RelaxedShrinks
  <2>2. CASE ~(Turn(b, r) < Phase(next))
    <3>1. Turn(b, r) = Phase(next)
      <4>1. Turn(b, r) \in 1..3
        BY <1>1, TurnIs
      <4>2. QED
        BY <1>1, <2>2, <4>1
    <3>2. /\ b[2] = r => t.kernel.b \in {"own", "pivot"}
          /\ b[1] = r => t.kernel.c \in {"own", "pivot"}
      BY <1>1, <1>2, <3>1 DEF BlockIsAlias
    <3>3. /\ <<b[1], r>> = b \/ AtMost(m.b, <<b[1], r>>, E)
          /\ <<r, b[2]>> = b \/ AtMost(m.c, <<r, b[2]>>, E)
      BY <1>1, <1>4, OperandsAreFinal
    <3>4. /\ Aliased(t.kernel.b, b[2] = r) \/ AtMost(m.b, <<b[1], r>>, E)
          /\ Aliased(t.kernel.c, b[1] = r) \/ AtMost(m.c, <<r, b[2]>>, E)
      <4>1. (<<b[1], r>> = b => b[2] = r) /\ (<<r, b[2]>> = b => b[1] = r)
        BY PairIs
      <4>2. QED
        BY <3>2, <3>3, <4>1 DEF Aliased
    <3>5. IsSteps(Steps, input(file, Side), Side, INF)
      BY <1>1, RoundSteps
    <3>6. QED
      BY <1>1, <1>2, <1>4, <3>4, <3>5, RelaxedReaches
  <2>3. QED
    BY <2>1, <2>2
<1>7. \A i, j \in 0..(Side - 1) :
        /\ h[<<i, j>>] <= g[<<i, j>>] /\ E[<<i, j>>] <= h[<<i, j>>]
        /\ h[<<i, j>>] <= Steps[r * B][<<i, j>>]
  <2> PICK N, D : N = Side /\ D = Steps[r * B]
    OBVIOUS
  <2>1. SUFFICES ASSUME NEW i \in 0..(N - 1), NEW j \in 0..(N - 1)
                 PROVE  /\ h[<<i, j>>] <= g[<<i, j>>] /\ E[<<i, j>>] <= h[<<i, j>>]
                        /\ h[<<i, j>>] <= D[<<i, j>>]
    OBVIOUS
  <2>2. N \in Nat /\ INF \in Nat /\ g \in Matrices(N, INF) /\ h \in Matrices(N, INF)
        /\ E \in Matrices(N, INF) /\ D \in Matrices(N, INF)
    BY <1>1, RoundSteps DEF Stored
  <2>3. /\ g[<<i, j>>] \in 0..INF /\ h[<<i, j>>] \in 0..INF
        /\ E[<<i, j>>] \in 0..INF /\ D[<<i, j>>] \in 0..INF
    BY <2>2, EntryType
  <2>4. E[<<i, j>>] <= g[<<i, j>>] /\ g[<<i, j>>] <= D[<<i, j>>]
    BY <1>1 DEF RoundInv, Between
  <2>5. CASE i \in Span(b[1]) /\ j \in Span(b[2])
    <3>1. h[<<i, j>>] = At(X, b, i, j)
      BY <2>5 DEF Stored
    <3>2. E[<<i, j>>] <= At(X, b, i, j) /\ At(X, b, i, j) <= E[<<i, j>>]
      BY <1>5, <1>6, <2>5 DEF AtLeast, AtMost
    <3>3. QED
      BY ONLY <2>2, <2>3, <2>4, <3>1, <3>2
  <2>6. CASE ~(i \in Span(b[1]) /\ j \in Span(b[2]))
    <3>1. h[<<i, j>>] = g[<<i, j>>]
      BY <2>6 DEF Stored
    <3>2. QED
      BY ONLY <2>2, <2>3, <2>4, <3>1
  <2>7. QED
    BY <2>5, <2>6
<1>8. Shrinks(h, g) /\ Between(Steps, r * B, End(r), Side, h)
  BY <1>7 DEF Shrinks, Between, Stored
<1>9. IsFinal(b, h)
  BY <1>6 DEF IsFinal, Reached, AtMost, Stored
<1>10. QED
  BY <1>8, <1>9 DEF Finishes

\* A pass in the matrix takes a block from one step to the next.
LEMMA PassReaches ==
  ASSUME BasicInv, OrderedInv, Ordered, NEW t \in todo, Pass(t)
  PROVE  LET k == IF t \in DOMAIN sm THEN sm[t] ELSE 0 IN
         /\ t.kernel.global /\ k \in 0..(Height(r) - 1) /\ Passes = Height(r)
         /\ \E h : /\ dist' = [dist EXCEPT ![0] = h] /\ Shrinks(h, dist[0])
                   /\ Between(Steps, r * B, End(r), Side, h)
                   /\ Reached(Steps, r * B + (k + 1), Span(Block(t)[1]), Span(Block(t)[2]), h)
<1> PICK b, g, k : /\ b = Block(t) /\ g = dist[0]
                   /\ k = IF t \in DOMAIN sm THEN sm[t] ELSE 0
  OBVIOUS
<1> PICK N, D, w, e, s, is, js : /\ N = Side /\ D = Steps /\ w = input(file, Side) /\ e = End(r)
                                 /\ s = r * B /\ is = Span(b[1]) /\ js = Span(b[2])
  OBVIOUS
<1> PICK v : v = s + k
  OBVIOUS
<1>1. /\ IsInput /\ r \in 0..(round - 1) /\ RoundInv(g, next, todo, sm) /\ t.memory = 0
      /\ g \in Matrices(N, INF) /\ b \in Cells(round) /\ b \in Left(t)
  BY RunningIs
<1>2. /\ t.kernel.global /\ k \in 0..(Height(r) - 1) /\ v \in Span(r) /\ Passes = Height(r)
      /\ is \in SUBSET (0..(N - 1)) /\ js \in SUBSET (0..(N - 1))
      /\ dist' = [dist EXCEPT ![0] = Relax(g, is \X js, v)]
  BY <1>1, PassStepIs
<1>3. N \in Nat /\ INF \in Nat /\ IsSteps(D, w, N, INF) /\ s \in 0..N /\ e \in 0..N
      /\ s + Height(r) = e /\ Height(r) \in Nat
  <2>1. /\ Side \in Nat /\ INF \in Nat /\ IsSteps(Steps, input(file, Side), Side, INF)
        /\ r * B \in 0..Side /\ End(r) \in 0..Side /\ r * B + Height(r) = End(r)
        /\ Height(r) \in Nat
    BY <1>1, RoundSteps
  <2>2. QED
    BY <2>1, Zenon
<1>4. v \in s..(e - 1) /\ v \in 0..(N - 1) /\ s <= v /\ v <= e /\ v \in 0..N
  <2> PICK m : m = Height(r)
    OBVIOUS
  <2>1. k \in 0..(m - 1) /\ s + m = e /\ m \in Nat /\ v = s + k
    BY <1>2, <1>3
  <2>2. QED
    BY ONLY <1>3, <2>1
<1>5. Between(D, s, e, N, g)
  BY <1>1 DEF RoundInv
<1>6. \A i, j \in 0..(N - 1) : D[e][<<i, j>>] <= D[v][<<i, j>>]
  <2>1. e \in v..N
    BY <1>3, <1>4
  <2>2. QED
    BY ONLY <1>3, <1>4, <2>1, StepsDecrease
<1>7. Reached(D, v, is, js, g)
  <2>1. CASE t \in DOMAIN sm
    BY <1>1, <1>2, <2>1 DEF RoundInv, Progress, Block
  <2>2. CASE t \notin DOMAIN sm
    <3>1. v = s
      BY <1>3, <2>2
    <3>2. QED
      BY <1>2, <1>5, <3>1 DEF Between, Reached
  <2>3. QED
    BY <2>1, <2>2
<1>8. ASSUME NEW c \in Cells(round), IsFinal(c, g) PROVE Reached(D, v, Span(c[1]), Span(c[2]), g)
  <2>1. SUFFICES ASSUME NEW i \in Span(c[1]), NEW j \in Span(c[2]) PROVE g[<<i, j>>] <= D[v][<<i, j>>]
    BY DEF Reached
  <2>2. i \in 0..(N - 1) /\ j \in 0..(N - 1)
    BY <1>1, PlaceIs
  <2>3. g[<<i, j>>] <= D[e][<<i, j>>]
    BY <1>8 DEF IsFinal, Reached
  <2>4. D[e][<<i, j>>] <= D[v][<<i, j>>]
    BY <1>3, <1>4, <1>6, <2>2
  <2>5. g[<<i, j>>] \in 0..INF /\ D[e][<<i, j>>] \in 0..INF /\ D[v][<<i, j>>] \in 0..INF
    BY <1>1, <1>3, <1>4, <2>2, EntryType, StepsTypes
  <2>6. QED
    BY ONLY <1>3, <2>3, <2>4, <2>5
<1>9. Reached(D, v, is, {v}, g) /\ Reached(D, v, {v}, js, g)
  <2>1. <<b[1], r>> \in Cells(round) /\ <<r, b[2]>> \in Cells(round)
    BY <1>1, TurnIs
  <2>2. /\ <<b[1], r>> = b \/ IsFinal(<<b[1], r>>, g)
        /\ <<r, b[2]>> = b \/ IsFinal(<<r, b[2]>>, g)
    BY <1>1, OperandsAreFinal
  <2>3. Reached(D, v, is, Span(r), g)
    <3>1. CASE <<b[1], r>> = b
      <4>1. b[2] = r
        BY <3>1, PairIs
      <4>2. QED
        BY <1>7, <4>1
    <3>2. CASE IsFinal(<<b[1], r>>, g)
      BY <1>8, <2>1, <3>2
    <3>3. QED
      BY <2>2, <3>1, <3>2
  <2>4. Reached(D, v, Span(r), js, g)
    <3>1. CASE <<r, b[2]>> = b
      <4>1. b[1] = r
        BY <3>1, PairIs
      <4>2. QED
        BY <1>7, <4>1
    <3>2. CASE IsFinal(<<r, b[2]>>, g)
      BY <1>8, <2>1, <3>2
    <3>3. QED
      BY <2>2, <3>1, <3>2
  <2>5. QED
    BY <1>2, <2>3, <2>4 DEF Reached
<1> PICK h : h = Relax(g, is \X js, v)
  OBVIOUS
<1>10. /\ h \in Matrices(N, INF) /\ Between(D, s, e, N, h) /\ Reached(D, v + 1, is, js, h)
       /\ \A i, j \in 0..(N - 1) : h[<<i, j>>] <= g[<<i, j>>]
  <2>1. g \in Matrices(N, INF) /\ is \in SUBSET (0..(N - 1)) /\ js \in SUBSET (0..(N - 1))
    BY <1>1, <1>2
  <2>2. QED
    BY ONLY <1>3, <1>4, <1>5, <1>7, <1>9, <2>1, h = Relax(g, is \X js, v), PassIs
<1>11. v + 1 = s + (k + 1)
  <2>1. k \in Int /\ s \in Int
    BY <1>2, <1>3
  <2>2. QED
    BY ONLY <2>1, v = s + k
<1>12. QED
  BY <1>2, <1>10, <1>11 DEF Shrinks

LEMMA StoreOrdered ==
  ASSUME BasicInv, OrderedInv, NEW t \in todo, Store(t)
  PROVE  OrderedInv'
<1>1. /\ version' = version /\ file' = file /\ r' = r /\ next' = next /\ Dist_s' = Dist_s
      /\ Leave(t)
  BY DEF Store
<1>2. ASSUME Ordered
      PROVE  RoundInv(dist'[0], next, todo', sm') /\ StartInv(dist'[0], next, todo') /\ FileInv(Dist_s)
  <2>1. PICK h : dist' = [dist EXCEPT ![0] = h] /\ Finishes(h, dist[0], Block(t))
    BY <1>2, StoreFinishes
  <2>2. dist'[0] = h
    BY <2>1 DEF BasicInv, MatricesInv, Memories
  <2>3. RoundInv(h, next, todo', sm')
    BY <1>1, <1>2, <2>1, LeaveOrdered DEF Finishes
  <2>4. next # 1 /\ r # round /\ FileInv(Dist_s)
    BY <1>2, RunningIs
  <2>5. QED
    BY <2>2, <2>3, <2>4 DEF StartInv
<1>3. QED
  BY <1>1, <1>2, OrderedKept

\* The last pass of a block
LEMMA LastPassFinishes ==
  ASSUME BasicInv, OrderedInv, Ordered, NEW t \in todo, Pass(t), Leave(t)
  PROVE  \E h : dist' = [dist EXCEPT ![0] = h] /\ Finishes(h, dist[0], Block(t))
<1> PICK k : k = IF t \in DOMAIN sm THEN sm[t] ELSE 0
  OBVIOUS
<1>1. /\ k \in 0..(Height(r) - 1) /\ Passes = Height(r)
      /\ \E h : /\ dist' = [dist EXCEPT ![0] = h] /\ Shrinks(h, dist[0])
                /\ Between(Steps, r * B, End(r), Side, h)
                /\ Reached(Steps, r * B + (k + 1), Span(Block(t)[1]), Span(Block(t)[2]), h)
  BY PassReaches
<1>2. k + 1 = Passes
  <2>1. SUFFICES ASSUME k + 1 # Passes PROVE FALSE
    OBVIOUS
  <2>2. todo' = todo /\ t \in DOMAIN sm'
    BY <2>1 DEF Pass
  <2>3. t \notin DOMAIN sm'
    BY DEF Leave
  <2>4. QED
    BY <2>2, <2>3
<1>3. r * B + (k + 1) = End(r)
  BY <1>1, <1>2, RunningIs, RoundSteps
<1>4. QED
  BY <1>1, <1>3 DEF Finishes, IsFinal

LEMMA PassOrdered ==
  ASSUME BasicInv, OrderedInv, NEW t \in todo, Pass(t)
  PROVE  OrderedInv'
<1>1. version' = version /\ file' = file /\ r' = r /\ next' = next /\ Dist_s' = Dist_s
  BY DEF Pass
<1>2. ASSUME Ordered, Leave(t)
      PROVE  RoundInv(dist'[0], next, todo', sm')
  <2>1. PICK h : dist' = [dist EXCEPT ![0] = h] /\ Finishes(h, dist[0], Block(t))
    BY <1>2, LastPassFinishes
  <2>2. dist'[0] = h
    BY <2>1 DEF BasicInv, MatricesInv, Memories
  <2>3. QED
    BY <1>2, <2>1, <2>2, LeaveOrdered DEF Finishes
<1>3. ASSUME Ordered, ~Leave(t)
      PROVE  RoundInv(dist'[0], next, todo', sm') /\ todo' = todo
  <2> PICK g, k : g = dist[0] /\ k = IF t \in DOMAIN sm THEN sm[t] ELSE 0
    OBVIOUS
  <2>1. /\ IsInput /\ r \in 0..(round - 1) /\ RoundInv(g, next, todo, sm) /\ g \in Matrices(Side, INF)
    BY <1>3, RunningIs
  <2>2. /\ t.kernel.global /\ k \in 0..(Height(r) - 1)
        /\ \E h : /\ dist' = [dist EXCEPT ![0] = h] /\ Shrinks(h, g)
                  /\ Between(Steps, r * B, End(r), Side, h)
                  /\ Reached(Steps, r * B + (k + 1), Span(Block(t)[1]), Span(Block(t)[2]), h)
    BY <1>3, PassReaches
  <2> PICK h : /\ dist' = [dist EXCEPT ![0] = h] /\ Shrinks(h, g)
               /\ Between(Steps, r * B, End(r), Side, h)
               /\ Reached(Steps, r * B + (k + 1), Span(Block(t)[1]), Span(Block(t)[2]), h)
    BY <2>2
  <2>3. dist'[0] = h
    BY DEF BasicInv, MatricesInv, Memories
  <2>4. todo' = todo /\ sm' = [u \in DOMAIN sm \cup {t} |-> IF u = t THEN k + 1 ELSE sm[u]]
    BY <1>3 DEF Pass
  <2>5. DOMAIN sm' = DOMAIN sm \cup {t} /\ sm'[t] = k + 1 /\ \A u \in DOMAIN sm \ {t} : sm'[u] = sm[u]
    BY <2>4
  <2>6. DoneBlocks(h, todo, next)
    <3>1. End(r) \in 0..Side
      BY <2>1, RoundSteps
    <3>2. ASSUME NEW b \in Cells(round), IsDone(b, todo, next) PROVE IsFinal(b, h)
      <4>1. IsFinal(b, g)
        BY <2>1, <3>2 DEF RoundInv, DoneBlocks
      <4>2. QED
        BY <2>1, <3>1, <4>1, FinalStays DEF IsFinal
    <3>3. QED
      BY <3>2 DEF DoneBlocks
  <2>7. ASSUME NEW u \in DOMAIN sm, u.kernel.global,
               Reached(Steps, r * B + sm[u], Span(Head(u.blocks)[1]), Span(Head(u.blocks)[2]), g)
        PROVE  Reached(Steps, r * B + sm[u], Span(Head(u.blocks)[1]), Span(Head(u.blocks)[2]), h)
    <3>1. u \in todo /\ sm[u] \in 1..(Height(r) - 1)
      BY <2>7 DEF BasicInv, ThreadsInv
    <3>2. Block(u) \in Cells(round) /\ Block(u) = Head(u.blocks)
      BY <3>1, ThreadIs DEF Block
    <3>3. r * B + sm[u] \in 0..Side
      <4>1. r * B \in 0..Side /\ r * B + Height(r) = End(r) /\ Height(r) \in Nat /\ Side \in Nat
            /\ End(r) \in 0..Side
        BY <2>1, RoundSteps
      <4> PICK y, i, m : y = r * B /\ i = sm[u] /\ m = Height(r)
        OBVIOUS
      <4>2. QED
        BY <3>1, <4>1
    <3>4. QED
      BY <2>1, <2>7, <3>2, <3>3, FinalStays
  <2>8. Progress(h, sm', next)
    <3>1. SUFFICES ASSUME NEW u \in DOMAIN sm'
                   PROVE  IF u.kernel.global
                          THEN Reached(Steps, r * B + sm'[u], Span(Head(u.blocks)[1]), Span(Head(u.blocks)[2]), h)
                          ELSE LoadedInTurn(sm'[u], Head(u.blocks), next)
      BY Zenon DEF Progress
    <3>2. CASE u = t
      BY <2>2, <2>5, <3>2 DEF Block
    <3>3. CASE u # t
      <4>1. u \in DOMAIN sm /\ sm'[u] = sm[u]
        BY <2>5, <3>3
      <4>2. IF u.kernel.global
            THEN Reached(Steps, r * B + sm[u], Span(Head(u.blocks)[1]), Span(Head(u.blocks)[2]), g)
            ELSE LoadedInTurn(sm[u], Head(u.blocks), next)
        BY <2>1, <4>1, Zenon DEF RoundInv, Progress
      <4>3. QED
        BY <2>7, <4>1, <4>2
    <3>4. QED
      BY <3>2, <3>3
  <2>9. QED
    BY <2>1, <2>3, <2>4, <2>6, <2>8 DEF RoundInv
<1>4. ASSUME Ordered
      PROVE  RoundInv(dist'[0], next, todo', sm') /\ StartInv(dist'[0], next, todo') /\ FileInv(Dist_s)
  <2>1. next # 1 /\ r # round /\ FileInv(Dist_s)
    BY <1>4, RunningIs
  <2>2. QED
    BY <1>2, <1>3, <1>4, <2>1 DEF StartInv
<1>5. QED
  BY <1>1, <1>4, OrderedKept

\* When nothing is left to do, the matrix has gone through the steps of the round.
LEMMA RoundEnds ==
  ASSUME BasicInv, OrderedInv, Ordered, NextRound
  PROVE  dist[0] = Steps[End(r)]
<1> PICK g, L, x : g = dist[0] /\ L = Launches /\ x = next
  OBVIOUS
<1>1. IsInput /\ r \in 0..(round - 1) /\ r < round /\ x \notin DOMAIN L /\ todo = {}
  BY SizesAre DEF BasicInv, NextRound
<1>2. RoundInv(g, x, {}, sm) /\ g \in Matrices(Side, INF)
  BY <1>1 DEF OrderedInv, BasicInv, MatricesInv, IsMatrix, Memories
<1>3. IsRound(L, r, round) /\ DOMAIN L = 1..Len(L) /\ Len(L) \in Nat \ {0}
  BY <1>1, RoundIs
<1>4. x = Len(L) + 1
  BY <1>1, <1>2, <1>3 DEF RoundInv
<1>5. Phase(x) = 3
  <2>1. x # 1 /\ x - 1 = Len(L)
    BY <1>3, <1>4
  <2>2. TurnAt(L, Len(L)) = 3
    BY <1>3, TurnsAre
  <2>3. QED
    BY <2>1, <2>2 DEF Phase
<1>6. ASSUME NEW b \in Cells(round) PROVE IsFinal(b, g)
  <2>1. Turn(b, r) \in 1..3
    BY <1>1, TurnIs
  <2>2. \E i \in 1..Len(L) : b \in Area(L[i])
    BY <1>3 DEF IsRound
  <2>3. \E i \in 1..(x - 1) : b \in Area(L[i])
    BY <1>3, <1>4, <2>2
  <2>4. IsDone(b, {}, x)
    BY <1>5, <2>1, <2>3 DEF IsDone
  <2>5. QED
    BY <1>2, <2>4 DEF RoundInv, DoneBlocks
<1> PICK N, E : N = Side /\ E = Steps[End(r)]
  OBVIOUS
<1>7. N \in Nat /\ INF \in Nat /\ E \in Matrices(N, INF) /\ g \in Matrices(N, INF)
  BY <1>1, <1>2, RoundSteps
<1>8. ASSUME NEW i \in 0..(N - 1), NEW j \in 0..(N - 1) PROVE g[<<i, j>>] = E[<<i, j>>]
  <2>1. PICK u \in 0..(round - 1) : i \in Span(u)
    BY <1>1, VertexBlock
  <2>2. PICK v \in 0..(round - 1) : j \in Span(v)
    BY <1>1, VertexBlock
  <2>3. <<u, v>> \in Cells(round)
    BY DEF Cells
  <2>4. IsFinal(<<u, v>>, g)
    BY <1>6, <2>3
  <2>5. g[<<i, j>>] <= E[<<i, j>>]
    BY <2>1, <2>2, <2>4 DEF IsFinal, Reached
  <2>6. E[<<i, j>>] <= g[<<i, j>>]
    BY <1>2 DEF RoundInv, Between
  <2>7. g[<<i, j>>] \in 0..INF /\ E[<<i, j>>] \in 0..INF
    BY <1>7, EntryType
  <2>8. QED
    BY ONLY <1>7, <2>5, <2>6, <2>7
<1>9. \A c \in Cells(N) : c = <<c[1], c[2]>> /\ c[1] \in 0..(N - 1) /\ c[2] \in 0..(N - 1)
  BY DEF Cells
<1>10. ASSUME NEW c \in Cells(N) PROVE g[c] = E[c]
  <2>1. PICK i, j \in 0..(N - 1) : c = <<i, j>>
    BY <1>9, Zenon
  <2>2. QED
    BY <1>8, <2>1
<1>11. g = E
  BY <1>7, <1>10 DEF Matrices
<1>12. QED
  BY <1>11

LEMMA NextBegins == RoundStart' => RoundInv(dist[0], next, todo, sm)'
BY RoundBegins, PTL

LEMMA NextRoundOrdered ==
  ASSUME BasicInv, OrderedInv, NextRound
  PROVE  OrderedInv'
<1>1. /\ version' = version /\ file' = file /\ r' = r + 1 /\ next' = 1 /\ r < round
      /\ todo = {} /\ todo' = {} /\ sm' = sm /\ dist' = dist /\ Dist_s' = Dist_s
  BY DEF NextRound
<1>2. /\ IsInput' = IsInput /\ round' = round /\ Side' = Side /\ Steps' = Steps
      /\ n' = n /\ Weights' = Weights
  BY <1>1, SameInput
<1>3. Ordered' <=> Ordered
  BY <1>1 DEF Ordered
<1>4. DOMAIN sm = {} /\ IsInput /\ r' \in 0..round /\ round \in Nat
  <2>1. r \in 0..round /\ IsInput /\ round \in Nat
    BY SizesAre DEF BasicInv
  <2>2. DOMAIN sm \subseteq todo
    BY DEF BasicInv, ThreadsInv
  <2>3. r + 1 \in 0..round
    BY ONLY <1>1, <2>1
  <2>4. QED
    BY <1>1, <2>1, <2>2, <2>3
<1>5. ASSUME Ordered PROVE dist'[0] = Steps'[Lesser(r' * B, Side')]
  <2>1. dist[0] = Steps[End(r)]
    BY <1>5, RoundEnds
  <2>2. End(r) = Lesser(r' * B, Side')
    BY <1>1, <1>2 DEF End
  <2>3. QED
    BY <1>1, <1>2, <2>1, <2>2
<1>6. ASSUME Ordered, r' < round' PROVE RoundInv(dist[0], next, todo, sm)'
  <2>1. r' \in 0..(round' - 1)
    BY <1>2, <1>4, <1>6
  <2>2. RoundStart'
    BY <1>1, <1>2, <1>3, <1>4, <1>5, <1>6, <2>1 DEF RoundStart
  <2>3. QED
    BY <2>2, NextBegins
<1>7. ASSUME Ordered PROVE StartInv(dist[0], next, todo)'
  BY <1>1, <1>5, <1>7 DEF StartInv
<1>8. ASSUME Ordered PROVE FileInv(Dist_s)'
  BY <1>1, <1>2, <1>8 DEF OrderedInv, FileInv
<1>9. QED
  BY <1>3, <1>6, <1>7, <1>8 DEF OrderedInv

\* A version that is right does not copy.
LEMMA NoCopy ==
  ASSUME BasicInv, Ordered, Copy
  PROVE  FALSE
<1>1. IsInput /\ r \in 0..(round - 1) /\ next \in DOMAIN Launches /\ IsCopy(Launches[next])
  BY SizesAre DEF BasicInv, Copy
<1>2. IsRound(Launches, r, round) /\ DOMAIN Launches = 1..Len(Launches)
  BY <1>1, RoundIs
<1>3. ~IsCopy(Launches[next])
  BY <1>1, <1>2 DEF IsRound
<1>4. QED
  BY <1>1, <1>3

LEMMA OutputOrdered ==
  ASSUME BasicInv, OrderedInv, Output
  PROVE  OrderedInv'
<1>1. /\ version' = version /\ file' = file /\ r' = r /\ next' = next /\ todo' = todo
      /\ sm' = sm /\ dist' = dist /\ r = round
      /\ Dist_s' = [c \in Cells(n) |-> Lesser(dist[0][c], INF)]
  BY DEF Output
<1> PICK g, N, s : g = dist[0] /\ N = Side /\ s = ShortestPaths(Weights, n, INF)
  OBVIOUS
<1>2. /\ IsInput /\ n \in Nat /\ N \in Nat /\ n <= N /\ N <= round * B /\ INF \in Nat /\ round \in Nat \ {0}
  BY SizesAre DEF BasicInv
<1>3. ASSUME Ordered PROVE StartInv(g, next, todo) /\ FileInv(Dist_s')
  <2>1. StartInv(g, next, todo)
    BY <1>3 DEF OrderedInv
  <2>2. g = Steps[Lesser(round * B, N)]
    BY <1>1, <2>1 DEF StartInv
  <2>3. Lesser(round * B, N) = N
    <3> PICK y : y = round * B
      OBVIOUS
    <3>1. y \in Int
      BY <1>2, SizesAre
    <3>2. QED
      BY <1>2, <3>1 DEF Lesser
  <2>4. g = Steps[N]
    BY <2>2, <2>3
  <2>5. /\ s \in Matrices(n, INF)
        /\ \A i, j \in 0..(n - 1) : Steps[Side][<<i, j>>] = s[<<i, j>>]
    BY <1>2, LastIsDistances
  <2>6. ASSUME NEW c \in Cells(n) PROVE Lesser(g[c], INF) = s[c]
    <3>1. PICK i, j \in 0..(n - 1) : c = <<i, j>>
      BY DEF Cells
    <3>2. g[<<i, j>>] = s[<<i, j>>]
      BY <2>4, <2>5
    <3>3. s[<<i, j>>] \in 0..INF
      BY <1>2, <2>5, EntryType
    <3>4. QED
      BY <1>2, <3>1, <3>2, <3>3 DEF Lesser
  <2>7. s = [c \in Cells(n) |-> s[c]]
    BY <2>5 DEF Matrices
  <2>8. Dist_s' = s
    BY <1>1, <2>6, <2>7
  <2>9. QED
    BY <2>1, <2>8 DEF FileInv
<1>4. QED
  BY <1>1, <1>2, <1>3, OrderedKept

LEMMA StutterOrdered ==
  ASSUME OrderedInv, UNCHANGED vars
  PROVE  OrderedInv'
<1>1. /\ version' = version /\ file' = file /\ r' = r /\ next' = next /\ todo' = todo
      /\ sm' = sm /\ dist' = dist /\ Dist_s' = Dist_s
  BY DEF vars
<1>2. QED
  BY <1>1, OrderedKept DEF OrderedInv

LEMMA OrderedStep == BasicInv /\ OrderedInv /\ [Next]_vars => OrderedInv'
<1> SUFFICES ASSUME BasicInv, OrderedInv, [Next]_vars PROVE OrderedInv'
  OBVIOUS
<1>1. CASE Start
  BY <1>1, StartOrdered
<1>2. CASE Copy
  <2>1. ~Ordered
    BY <1>2, NoCopy
  <2>2. Ordered' <=> Ordered
    BY <1>2 DEF Copy, Ordered
  <2>3. QED
    BY <2>1, <2>2 DEF OrderedInv
<1>3. CASE NextRound
  BY <1>3, NextRoundOrdered
<1>4. CASE Output
  BY <1>4, OutputOrdered
<1>5. CASE Finished \/ UNCHANGED vars
  BY <1>5, StutterOrdered DEF Finished
<1>6. ASSUME NEW t \in todo, Load(t) \/ Store(t) \/ Pass(t) PROVE OrderedInv'
  BY <1>6, LoadOrdered, StoreOrdered, PassOrdered
<1>7. QED
  BY <1>1, <1>2, <1>3, <1>4, <1>5, <1>6 DEF Next

LEMMA SpecOrdered == Spec => [](BasicInv /\ OrderedInv)
<1>1. Init => BasicInv /\ OrderedInv
  BY InitBasic, InitOrdered
<1>2. QED
  BY <1>1, BasicStep, OrderedStep, PTL DEF Spec

LEMMA OrderedImpliesRounds == BasicInv /\ OrderedInv => RoundsMatch
<1> SUFFICES ASSUME BasicInv, OrderedInv, Ordered, next = 1, todo = {}
             PROVE  dist[0] = FloydWarshallSteps(DistOf(version, file), vertex_num)[Lesser(r * B, vertex_num)]
  BY DEF RoundsMatch
<1>1. dist[0] = Steps[Lesser(r * B, Side)]
  BY DEF OrderedInv, StartInv
<1>2. DistOf(version, file) = input(file, Side) /\ vertex_num = Side
  BY DistIsInput, VertexNum DEF BasicInv
<1>3. QED
  BY <1>1, <1>2 DEF Steps

\* Whatever the order of the thread blocks, whatever kernels overlap, and with or
\* without padding, a round of a version that is right is B steps of the
\* algorithm without blocks.
THEOREM RoundsAreSteps == Spec => []RoundsMatch
BY SpecOrdered, OrderedImpliesRounds, PTL

LEMMA OrderedImpliesOutput == BasicInv /\ OrderedInv => OutputIsDistances
<1> SUFFICES ASSUME BasicInv, OrderedInv, Dist_s # NotWritten
             PROVE  IF Ordered THEN Dist_s = ShortestPaths(Weights, n, INF)
                    ELSE \A c \in Cells(n) : Dist_s[c] >= ShortestPaths(Weights, n, INF)[c]
  BY DEF OutputIsDistances
<1>1. CASE Ordered
  BY <1>1 DEF OrderedInv, FileInv
<1>2. CASE ~Ordered
  BY <1>2 DEF BasicInv, OutputInv
<1>3. QED
  BY <1>1, <1>2

\* The output is the distances, in every version that is right; the two that are
\* not never claim a distance that is too short.
THEOREM GpuOutputIsDistances == Spec => []OutputIsDistances
BY SpecOrdered, OrderedImpliesOutput, PTL

\* A thread block that leaves is one that stores, or that passes for the last time.
LEMMA LeavingFinishes ==
  ASSUME BasicInv, OrderedInv, Ordered, [Next]_vars, NEW t \in todo, t \notin todo'
  PROVE  \E h : dist' = [dist EXCEPT ![0] = h] /\ Finishes(h, dist[0], Block(t))
<1>1. PICK u \in todo : Store(u) \/ Pass(u)
  <2>1. Start => todo \subseteq todo'
    BY DEF Start
  <2>2. Copy \/ NextRound \/ Output \/ Finished \/ UNCHANGED vars => todo \subseteq todo'
    BY DEF Copy, NextRound, Output, Finished, vars
  <2>3. \A u \in todo : Load(u) => todo \subseteq todo'
    BY DEF Load
  <2>4. QED
    BY <2>1, <2>2, <2>3 DEF Next
<1>2. CASE Store(u)
  <2>1. u = t
    BY <1>2 DEF Store, Leave
  <2>2. QED
    BY <1>2, <2>1, StoreFinishes
<1>3. CASE Pass(u)
  <2>1. Leave(u)
    BY <1>3 DEF Pass
  <2>2. u = t
    BY <2>1 DEF Leave
  <2>3. QED
    BY <1>3, <2>1, <2>2, LastPassFinishes
<1>4. QED
  BY <1>1, <1>2, <1>3

LEMMA RacesStep == BasicInv /\ OrderedInv /\ [Next]_vars =>
  [Ordered =>
     \A t \in todo \ todo' :
       (\E c \in CellsOf(Block(t)) : dist'[t.memory][c] # dist[t.memory][c]) =>
         \A u \in todo \ {t} : Block(t) \notin Touches(u)]_vars
<1> SUFFICES ASSUME BasicInv, OrderedInv, [Next]_vars, Ordered, NEW t \in todo, t \notin todo',
                    NEW c \in CellsOf(Block(t)), dist'[t.memory][c] # dist[t.memory][c],
                    NEW u \in todo, u # t, Block(t) \in Touches(u)
             PROVE  FALSE
  OBVIOUS
<1> PICK b, g : b = Block(t) /\ g = dist[0]
  OBVIOUS
<1>1. /\ IsInput /\ r \in 0..(round - 1) /\ RoundInv(g, next, todo, sm) /\ t.memory = 0
      /\ g \in Matrices(Side, INF) /\ b \in Cells(round) /\ b \in Left(t)
      /\ Turn(b, r) <= Phase(next) /\ vertex_num = Side /\ Phase(next) \in 1..3
  BY RunningIs
<1>2. PICK h : dist' = [dist EXCEPT ![0] = h] /\ Finishes(h, g, b)
  BY LeavingFinishes
<1>3. dist'[0] = h
  BY <1>2 DEF BasicInv, MatricesInv, Memories
<1>4. PICK i \in Span(b[1]), j \in Span(b[2]) : c = <<i, j>>
  <2>1. CellsOf(b) = Span(b[1]) \X Span(b[2])
    BY <1>1, CellsOfIs
  <2>2. QED
    BY <2>1
<1>5. h[<<i, j>>] # g[<<i, j>>]
  BY <1>1, <1>3, <1>4
<1>6. ~IsFinal(b, g)
  <2>1. SUFFICES ASSUME IsFinal(b, g) PROVE FALSE
    OBVIOUS
  <2> PICK N, E : N = Side /\ E = Steps[End(r)]
    OBVIOUS
  <2>2. i \in 0..(N - 1) /\ j \in 0..(N - 1)
    BY <1>1, PlaceIs
  <2>3. N \in Nat /\ INF \in Nat /\ E \in Matrices(N, INF) /\ g \in Matrices(N, INF) /\ h \in Matrices(N, INF)
    BY <1>1, <1>2, RoundSteps DEF Finishes, Shrinks
  <2>4. g[<<i, j>>] \in 0..INF /\ E[<<i, j>>] \in 0..INF /\ h[<<i, j>>] \in 0..INF
    BY <2>2, <2>3, EntryType
  <2>5. g[<<i, j>>] <= E[<<i, j>>]
    BY <2>1 DEF IsFinal, Reached
  <2>6. h[<<i, j>>] <= g[<<i, j>>] /\ E[<<i, j>>] <= h[<<i, j>>]
    BY <1>2, <2>2 DEF Finishes, Shrinks, Between
  <2>7. QED
    BY ONLY <1>5, <2>3, <2>4, <2>5, <2>6
<1>7. ~(Turn(b, r) < Phase(next))
  BY <1>1, <1>6 DEF RoundInv, DoneBlocks, IsDone
<1>8. PICK d \in Left(u) : b = d \/ b = <<d[1], r>> \/ b = <<r, d[2]>>
  BY DEF Touches, Left
<1>9. CASE b = d
  BY <1>1, <1>7, <1>8, <1>9 DEF RoundInv, ThreadsOnTurn
<1>10. CASE b # d
  BY <1>7, <1>8, <1>10, OperandsAreFinal
<1>11. QED
  BY <1>9, <1>10

\* A race between thread blocks that overlap is harmless: whichever thread block
\* changes a block of the matrix is the only one left that has to do with it.
THEOREM NoHarmfulRaces == Spec => RacesAreBenign
<1>1. BasicInv /\ OrderedInv /\ [Next]_vars =>
        [Ordered =>
           \A t \in todo \ todo' :
             (\E c \in CellsOf(Block(t)) : dist'[t.memory][c] # dist[t.memory][c]) =>
               \A u \in todo \ {t} : Block(t) \notin Touches(u)]_vars
  BY RacesStep
<1>2. QED
  BY <1>1, SpecOrdered, PTL DEF Spec, RacesAreBenign
=============================================================================
