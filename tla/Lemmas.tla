------------------------------- MODULE Lemmas -------------------------------
(***************************************************************************)
(* What the proofs of several modules rest on: induction over the natural  *)
(* numbers and over finite sets, with the predicate given as a SET; what   *)
(* the recursive functions f[k \in 0..n] == ... of the models are; what    *)
(* follows about sums, and about cutting things into pieces; and, for      *)
(* BlockedFW and GpuFW, the lemmas about FloydWarshall: what the steps of  *)
(* the algorithm keep for every graph with weights from 0 to M, and that   *)
(* it ends with the distances.                                             *)
(***************************************************************************)
EXTENDS FloydWarshall, FiniteSetTheorems, WellFoundedInduction, TLAPS

\* < on the natural numbers, as a set of pairs, is well-founded.
LEMMA NatOrder ==
  \E R : IsWellFoundedOn(R, Nat) /\ \A x, y \in Nat : <<x, y>> \in R <=> x < y
<1>1. IsWellFoundedOn(OpToRel(<, Nat), Nat)
  BY NatLessThanWellFounded
<1>2. \A x, y \in Nat : <<x, y>> \in OpToRel(<, Nat) <=> x < y
  BY DEF OpToRel
<1>3. QED
  BY <1>1, <1>2, Zenon

\* A set of natural numbers that is not empty has a least element.
LEMMA LeastElement ==
  ASSUME NEW T, T \subseteq Nat, T # {}
  PROVE  \E x \in T : \A y \in T : x <= y
<1>1. PICK R : IsWellFoundedOn(R, Nat) /\ \A x, y \in Nat : <<x, y>> \in R <=> x < y
  BY NatOrder
<1>2. PICK x \in T : \A y \in T : ~(<<y, x>> \in R)
  <2>1. IsWellFoundedOn(R, Nat)
    BY <1>1
  <2>2. QED
    BY <2>1, WFMin, Zenon
<1>3. \A y \in T : ~(y < x)
  BY <1>1, <1>2, Zenon
<1>4. QED
  BY <1>3

\* A set with 0, and with n + 1 where it has n, has every natural number.
LEMMA Upwards ==
  ASSUME NEW T, 0 \in T, \A n \in Nat : n \in T => n + 1 \in T
  PROVE  \A n \in Nat : n \in T
<1>1. SUFFICES ASSUME Nat \ T # {} PROVE FALSE
  OBVIOUS
<1>2. PICK x \in Nat \ T : \A y \in Nat \ T : x <= y
  BY <1>1, LeastElement
<1>3. x - 1 \in Nat /\ x - 1 \notin Nat \ T
  BY <1>2
<1>4. QED
  BY <1>2, <1>3

\* The same up to a bound
LEMMA UpTo ==
  ASSUME NEW N \in Nat, NEW T, 0 \in T, \A n \in 0..(N - 1) : n \in T => n + 1 \in T
  PROVE  \A n \in 0..N : n \in T
<1> DEFINE U == {n \in Nat : n \in T \/ n > N}
<1>1. 0 \in U
  OBVIOUS
<1>2. \A n \in Nat : n \in U => n + 1 \in U
  OBVIOUS
<1> HIDE DEF U
<1>3. \A n \in Nat : n \in U
  BY <1>1, <1>2, Upwards
<1>4. QED
  BY <1>3 DEF U

\* A set of sets has every subset of a finite set if it has the empty one, and
\* each of which it has all that are one element short.
LEMMA FiniteSetInduction ==
  ASSUME NEW S, IsFiniteSet(S), NEW F, {} \in F,
         \A A \in SUBSET S : A # {} /\ (\A x \in A : A \ {x} \in F) => A \in F
  PROVE  \A A \in SUBSET S : A \in F
<1> DEFINE T == {n \in Nat : \A A \in SUBSET S : Cardinality(A) = n => A \in F}
<1>1. \A A \in SUBSET S : IsFiniteSet(A) /\ Cardinality(A) \in Nat
  BY FS_Subset, FS_CardinalityType
<1>2. 0 \in T
  BY <1>1, FS_EmptySet
<1>3. ASSUME NEW n \in Nat, n \in T PROVE n + 1 \in T
  <2>1. SUFFICES ASSUME NEW A \in SUBSET S, Cardinality(A) = n + 1 PROVE A \in F
    OBVIOUS
  <2>2. A # {}
    BY <1>1, <2>1, FS_EmptySet
  <2>3. ASSUME NEW x \in A PROVE A \ {x} \in F
    <3>1. IsFiniteSet(A) /\ Cardinality(A) \in Nat
      BY <1>1
    <3>2. Cardinality(A \ {x}) = Cardinality(A) - 1
      BY <3>1, FS_RemoveElement
    <3>3. Cardinality(A \ {x}) = n /\ A \ {x} \in SUBSET S
      BY <2>1, <3>2
    <3>4. QED
      BY <1>3, <3>3
  <2>4. QED
    BY <2>2, <2>3
<1> HIDE DEF T
<1>4. \A n \in Nat : n \in T
  BY <1>2, <1>3, Upwards
<1>5. QED
  BY <1>1, <1>4 DEF T

-----------------------------------------------------------------------------
(* Recursive functions.                                                    *)

\* There is a function with a given value at 0 and a given step.
Recurs(g, N, base, step) == g[0] = base /\ \A k \in 1..N : g[k] = step[k][g[k - 1]]

LEMMA RecursionExists ==
  ASSUME NEW N \in Nat, NEW S, NEW base \in S, NEW step \in [1..N -> [S -> S]]
  PROVE  \E g \in [0..N -> S] : Recurs(g, N, base, step)
<1> DEFINE Upto(m, g) == g[0] = base /\ \A k \in 1..m : g[k] = step[k][g[k - 1]]
           T == {m \in 0..N : \E g \in [0..m -> S] : Upto(m, g)}
<1>1. 0 \in T
  <2>1. [k \in 0..0 |-> base] \in [0..0 -> S] /\ Upto(0, [k \in 0..0 |-> base])
    OBVIOUS
  <2> HIDE DEF Upto
  <2>2. QED
    BY <2>1
<1>2. ASSUME NEW m \in 0..(N - 1), m \in T PROVE m + 1 \in T
  <2>1. PICK g \in [0..m -> S] : Upto(m, g)
    BY <1>2
  <2> DEFINE v == step[m + 1][g[m]]
             h == [k \in 0..(m + 1) |-> IF k = m + 1 THEN v ELSE g[k]]
  <2>2. m + 1 \in 1..N /\ g[m] \in S
    BY <2>1
  <2>3. v \in S
    BY <2>2
  <2>4. h \in [0..(m + 1) -> S]
    BY <2>3
  <2>5. h[0] = g[0] /\ h[m + 1] = v /\ \A k \in 0..m : h[k] = g[k]
    OBVIOUS
  <2>6. Upto(m + 1, h)
    <3> HIDE DEF h
    <3>1. ASSUME NEW k \in 1..(m + 1) PROVE h[k] = step[k][h[k - 1]]
      BY <2>1, <2>5
    <3>2. QED
      BY <2>1, <2>5, <3>1
  <2> HIDE DEF h, Upto
  <2>7. QED
    BY <1>2, <2>4, <2>6
<1> HIDE DEF T
<1>3. N \in 0..N /\ \A m \in 0..(N - 1) : m \in T => m + 1 \in T
  BY <1>2
<1>4. N \in T
  BY <1>1, <1>3, UpTo
<1>5. QED
  BY <1>4 DEF T, Recurs

\* The same for a function on all natural numbers
Iterates(g, base, step) == g[0] = base /\ \A k \in Nat : g[k + 1] = step[g[k]]

LEMMA RecursionOnNat ==
  ASSUME NEW S, NEW base \in S, NEW step \in [S -> S]
  PROVE  \E g \in [Nat -> S] : Iterates(g, base, step)
<1> DEFINE Upto(n, g) == g[0] = base /\ \A k \in 1..n : g[k] = step[g[k - 1]]
<1>1. ASSUME NEW n \in Nat PROVE \E g \in [0..n -> S] : Upto(n, g)
  <2>1. PICK always \in [1..n -> [S -> S]] : \A k \in 1..n : always[k] = step
    <3>1. [k \in 1..n |-> step] \in [1..n -> [S -> S]]
      OBVIOUS
    <3>2. QED
      BY <3>1
  <2>2. \E g \in [0..n -> S] : Recurs(g, n, base, always)
    BY RecursionExists
  <2>3. QED
    BY <2>1, <2>2 DEF Recurs
<1>2. ASSUME NEW n \in Nat, NEW g \in [0..n -> S], Upto(n, g),
             NEW m \in Nat, NEW h \in [0..m -> S], Upto(m, h), n <= m
      PROVE  g[n] = h[n]
  <2> DEFINE T == {k \in 0..n : g[k] = h[k]}
  <2>1. 0 \in T
    BY <1>2
  <2>2. ASSUME NEW k \in 0..(n - 1), k \in T PROVE k + 1 \in T
    <3>1. g[k] = h[k] /\ k + 1 \in 1..n /\ k + 1 \in 1..m /\ (k + 1) - 1 = k
      BY <1>2, <2>2
    <3>2. g[k + 1] = step[g[(k + 1) - 1]] /\ h[k + 1] = step[h[(k + 1) - 1]]
      BY <1>2, <3>1
    <3>3. QED
      BY <3>1, <3>2
  <2> HIDE DEF T
  <2>3. \A k \in 0..n : k \in T
    BY <2>1, <2>2, UpTo
  <2>4. QED
    BY <2>3 DEF T
<1> DEFINE of == [n \in Nat |-> CHOOSE g \in [0..n -> S] : Upto(n, g)]
           r == [n \in Nat |-> of[n][n]]
<1>3. ASSUME NEW n \in Nat PROVE of[n] \in [0..n -> S] /\ Upto(n, of[n])
  <2> HIDE DEF Upto
  <2>1. QED
    BY <1>1
<1> HIDE DEF of
<1>4. \A n \in Nat : r[n] = of[n][n] /\ r[n] \in S
  BY <1>3
<1>5. r[0] = base
  BY <1>3, <1>4
<1>6. ASSUME NEW k \in Nat PROVE r[k + 1] = step[r[k]]
  <2>1. k + 1 \in Nat /\ k + 1 \in 1..(k + 1) /\ (k + 1) - 1 = k /\ k <= k + 1
    OBVIOUS
  <2>2. of[k + 1] \in [0..(k + 1) -> S] /\ Upto(k + 1, of[k + 1])
    BY <1>3, <2>1
  <2>3. of[k] \in [0..k -> S] /\ Upto(k, of[k])
    BY <1>3
  <2>4. of[k + 1][k + 1] = step[of[k + 1][k]]
    BY <2>1, <2>2
  <2>5. of[k][k] = of[k + 1][k]
    <3> HIDE DEF Upto
    <3>1. QED
      BY <1>2, <2>1, <2>2, <2>3
  <2>6. QED
    BY <1>4, <2>1, <2>4, <2>5
<1>7. r \in [Nat -> S]
  BY <1>4
<1> HIDE DEF r
<1>8. QED
  BY <1>5, <1>6, <1>7 DEF Iterates

\* F gives the body of a recursive definition: the value of F[f] at d depends on
\* f at elements of less rank only.
IsRecursion(F, D, V, rank) ==
  /\ V # {}
  /\ rank \in [D -> Nat]
  /\ F \in [[D -> V] -> [D -> V]]
  /\ \A f, h \in [D -> V] : \A d \in D :
       (\A e \in D : rank[e] < rank[d] => f[e] = h[e]) => F[f][d] = F[h][d]

HasSolution(F, D, V) == \E f \in [D -> V] : f = F[f]

LEMMA RecursionByRank ==
  ASSUME NEW D, NEW V, NEW rank, NEW F, IsRecursion(F, D, V, rank)
  PROVE  HasSolution(F, D, V)
<1> USE DEF IsRecursion
<1> PICK v \in V : TRUE
  OBVIOUS
<1> PICK S : S = [D -> V]
  OBVIOUS
<1>1. [d \in D |-> v] \in S
  OBVIOUS
<1>2. PICK g \in [Nat -> S] : \A k \in Nat : g[k + 1] = F[g[k]]
  <2>1. F \in [S -> S]
    OBVIOUS
  <2>2. \E g \in [Nat -> S] : Iterates(g, [d \in D |-> v], F)
    BY <1>1, <2>1, RecursionOnNat
  <2>3. QED
    BY <2>2 DEF Iterates
<1>3. \A k \in Nat : g[k] \in [D -> V]
  BY <1>2
<1> DEFINE T == {k \in Nat : \A d \in D : rank[d] < k => g[k][d] = g[k + 1][d]}
<1>4. 0 \in T
  OBVIOUS
<1>5. ASSUME NEW k \in Nat, k \in T PROVE k + 1 \in T
  <2>1. ASSUME NEW d \in D, rank[d] < k + 1 PROVE g[k + 1][d] = g[k + 2][d]
    <3>1. \A e \in D : rank[e] < rank[d] => g[k][e] = g[k + 1][e]
      BY <1>5, <2>1
    <3>2. g[k] \in [D -> V] /\ g[k + 1] \in [D -> V]
      BY <1>3
    <3>3. F[g[k]][d] = F[g[k + 1]][d]
      BY <3>1, <3>2
    <3>4. g[k + 1] = F[g[k]] /\ g[(k + 1) + 1] = F[g[k + 1]] /\ (k + 1) + 1 = k + 2
      BY <1>2
    <3>5. QED
      BY <3>3, <3>4
  <2>2. (k + 1) + 1 = k + 2
    OBVIOUS
  <2>3. QED
    BY <2>1, <2>2
<1> HIDE DEF T
<1>6. \A k \in Nat : k \in T
  BY <1>4, <1>5, Upwards
<1>7. ASSUME NEW d \in D, NEW m \in Nat, rank[d] < m PROVE g[m][d] = g[rank[d] + 1][d]
  <2> DEFINE U == {j \in Nat : g[rank[d] + 1 + j][d] = g[rank[d] + 1][d]}
  <2>1. 0 \in U
    OBVIOUS
  <2>2. ASSUME NEW j \in Nat, j \in U PROVE j + 1 \in U
    <3>1. rank[d] + 1 + j \in T
      BY <1>6
    <3>2. g[rank[d] + 1 + j][d] = g[rank[d] + 1 + j + 1][d]
      BY <3>1 DEF T
    <3>3. rank[d] \in Nat /\ rank[d] + 1 + j + 1 = rank[d] + 1 + (j + 1)
      OBVIOUS
    <3>4. QED
      BY <2>2, <3>2, <3>3
  <2> HIDE DEF U
  <2>3. \A j \in Nat : j \in U
    BY <2>1, <2>2, Upwards
  <2>4. m - rank[d] - 1 \in U /\ rank[d] + 1 + (m - rank[d] - 1) = m
    BY <1>7, <2>3
  <2>5. QED
    BY <2>4 DEF U
<1> DEFINE f == [d \in D |-> g[rank[d] + 1][d]]
<1>8. f \in [D -> V]
  BY <1>3
<1>9. ASSUME NEW d \in D PROVE F[f][d] = f[d]
  <2>1. \A e \in D : rank[e] < rank[d] => f[e] = g[rank[d]][e]
    BY <1>7
  <2>2. F[f][d] = F[g[rank[d]]][d]
    <3> HIDE DEF f
    <3>1. QED
      BY <1>3, <1>8, <2>1
  <2>3. QED
    BY <1>2, <2>2
<1>10. F[f] \in [D -> V]
  BY <1>8
<1>11. QED
  <2> HIDE DEF f
  <2>1. F[f] = f
    BY <1>8, <1>9, <1>10
  <2>2. QED
    BY <1>8, <2>1 DEF HasSolution
-----------------------------------------------------------------------------
(* Sums of natural numbers over a finite set.                              *)

\* The pairs <<x, k>> with k one of the first f[x] numbers: there are as many as
\* the sum of f over A.
Units(f, A) == {p \in A \X Nat : 1 <= p[2] /\ p[2] <= f[p[1]]}

LEMMA UnitsOfOne ==
  ASSUME NEW n \in Nat, NEW x
  PROVE  IsFiniteSet({x} \X (1..n)) /\ Cardinality({x} \X (1..n)) = n
<1>1. IsFiniteSet({x}) /\ Cardinality({x}) = 1
  BY FS_Singleton
<1>2. IsFiniteSet(1..n) /\ Cardinality(1..n) = n
  BY FS_Interval
<1>3. /\ IsFiniteSet({x} \X (1..n))
      /\ Cardinality({x} \X (1..n)) = Cardinality({x}) * Cardinality(1..n)
  BY <1>1, <1>2, FS_Product
<1>4. QED
  BY <1>1, <1>2, <1>3

LEMMA UnitsAdd ==
  ASSUME NEW S, NEW f \in [S -> Nat], NEW A \in SUBSET S, NEW x \in S \ A,
         IsFiniteSet(Units(f, A))
  PROVE  /\ IsFiniteSet(Units(f, A \cup {x}))
         /\ Cardinality(Units(f, A \cup {x})) = f[x] + Cardinality(Units(f, A))
<1> PICK n \in Nat : n = f[x]
  OBVIOUS
<1> PICK U, V : U = Units(f, A) /\ V = {x} \X (1..n)
  OBVIOUS
<1>1. Units(f, A \cup {x}) = U \cup V
  BY DEF Units
<1>2. U \cap V = {}
  BY DEF Units
<1>3. IsFiniteSet(V) /\ Cardinality(V) = n
  BY UnitsOfOne
<1>4. IsFiniteSet(U) /\ Cardinality(U) \in Nat
  BY FS_CardinalityType
<1>5. IsFiniteSet(U \cup V) /\ Cardinality(U \cup V) = Cardinality(U) + Cardinality(V) - Cardinality(U \cap V)
  BY <1>3, <1>4, FS_Union
<1>6. Cardinality(U \cap V) = 0
  BY <1>2, FS_EmptySet
<1>7. Cardinality(U \cup V) = n + Cardinality(U)
  BY <1>3, <1>4, <1>5, <1>6
<1>8. QED
  BY <1>1, <1>5, <1>7

LEMMA UnitsFinite ==
  ASSUME NEW S, IsFiniteSet(S), NEW f \in [S -> Nat]
  PROVE  \A A \in SUBSET S : IsFiniteSet(Units(f, A)) /\ Cardinality(Units(f, A)) \in Nat
<1> DEFINE F == {A \in SUBSET S : IsFiniteSet(Units(f, A))}
<1>1. {} \in F
  <2>1. Units(f, {}) = {}
    BY DEF Units
  <2>2. QED
    BY <2>1, FS_EmptySet
<1>2. ASSUME NEW A \in SUBSET S, A # {}, \A x \in A : A \ {x} \in F
      PROVE  A \in F
  <2>1. PICK x \in A : TRUE
    BY <1>2
  <2>2. IsFiniteSet(Units(f, A \ {x})) /\ A = (A \ {x}) \cup {x}
    BY <1>2, <2>1
  <2>3. IsFiniteSet(Units(f, (A \ {x}) \cup {x}))
    BY <2>2, UnitsAdd
  <2>4. QED
    BY <2>2, <2>3
<1> HIDE DEF F
<1>3. \A A \in SUBSET S : A \in F
  BY <1>1, <1>2, FiniteSetInduction
<1>4. QED
  BY <1>3, FS_CardinalityType DEF F

\* A recursive sum, whatever element it takes first, counts the units.
LEMMA SumIsUnits ==
  ASSUME NEW S, IsFiniteSet(S), NEW f \in [S -> Nat], NEW g, NEW pick,
         \A A \in SUBSET S : A # {} => pick[A] \in A,
         \A A \in SUBSET S : g[A] = IF A = {} THEN 0 ELSE f[pick[A]] + g[A \ {pick[A]}]
  PROVE  g[S] = Cardinality(Units(f, S))
<1> DEFINE F == {A \in SUBSET S : g[A] = Cardinality(Units(f, A))}
<1>1. {} \in F
  <2>1. Units(f, {}) = {}
    BY DEF Units
  <2>2. QED
    BY <2>1, FS_EmptySet
<1>2. ASSUME NEW A \in SUBSET S, A # {}, \A x \in A : A \ {x} \in F
      PROVE  A \in F
  <2> PICK x : x = pick[A]
    OBVIOUS
  <2>1. x \in A /\ A = (A \ {x}) \cup {x} /\ A \ {x} \in SUBSET S
    BY <1>2
  <2>2. g[A \ {x}] = Cardinality(Units(f, A \ {x})) /\ g[A] = f[x] + g[A \ {x}]
    BY <1>2, <2>1
  <2>3. Cardinality(Units(f, (A \ {x}) \cup {x})) = f[x] + Cardinality(Units(f, A \ {x}))
    <3>1. IsFiniteSet(Units(f, A \ {x})) /\ x \in S \ (A \ {x})
      BY <2>1, UnitsFinite
    <3>2. QED
      BY <2>1, <3>1, UnitsAdd
  <2>4. QED
    BY <2>1, <2>2, <2>3
<1> HIDE DEF F
<1>3. \A A \in SUBSET S : A \in F
  BY <1>1, <1>2, FiniteSetInduction
<1>4. QED
  BY <1>3 DEF F

\* One value grows by one, and so does the sum.
LEMMA UnitsMore ==
  ASSUME NEW S, IsFiniteSet(S), NEW f \in [S -> Nat], NEW h \in [S -> Nat], NEW x \in S,
         h[x] = f[x] + 1, \A y \in S \ {x} : h[y] = f[y]
  PROVE  Cardinality(Units(h, S)) = Cardinality(Units(f, S)) + 1
<1> PICK n \in Nat : n = f[x]
  OBVIOUS
<1>1. Units(h, S) = Units(f, S) \cup {<<x, n + 1>>}
  <2>1. ASSUME NEW p \in Units(h, S) PROVE p \in Units(f, S) \/ p = <<x, n + 1>>
    BY DEF Units
  <2>2. Units(f, S) \subseteq Units(h, S)
    BY DEF Units
  <2>3. <<x, n + 1>> \in Units(h, S)
    BY DEF Units
  <2>4. QED
    BY <2>1, <2>2, <2>3
<1>2. <<x, n + 1>> \notin Units(f, S)
  BY DEF Units
<1>3. IsFiniteSet(Units(f, S)) /\ Cardinality(Units(f, S)) \in Nat
  BY UnitsFinite
<1>4. Cardinality(Units(f, S) \cup {<<x, n + 1>>}) = Cardinality(Units(f, S)) + 1
  BY <1>2, <1>3, FS_AddElement
<1>5. QED
  BY <1>1, <1>4

\* No value is larger than the sum.
LEMMA UnitsAtLeast ==
  ASSUME NEW S, IsFiniteSet(S), NEW f \in [S -> Nat], NEW x \in S
  PROVE  f[x] <= Cardinality(Units(f, S))
<1> PICK n \in Nat : n = f[x]
  OBVIOUS
<1>1. {x} \X (1..n) \subseteq Units(f, S)
  BY DEF Units
<1>2. IsFiniteSet(Units(f, S))
  BY UnitsFinite
<1>3. Cardinality({x} \X (1..n)) = n
  BY UnitsOfOne
<1>4. Cardinality({x} \X (1..n)) <= Cardinality(Units(f, S))
  BY <1>1, <1>2, FS_Subset
<1>5. QED
  BY <1>3, <1>4
-----------------------------------------------------------------------------
(* Pieces of nearly equal size.                                            *)

\* Where piece t begins when T * q + m things are cut into T pieces, of which the
\* first m have one thing more than the others
Piece(q, m, t) == q * t + (IF t > m THEN m ELSE t)

LEMMA DivMod ==
  ASSUME NEW a \in Nat, NEW d \in Nat \ {0}
  PROVE  a \div d \in Nat /\ a % d \in 0..(d - 1) /\ a = d * (a \div d) + (a % d)
OBVIOUS

LEMMA TimesMonotone ==
  ASSUME NEW d \in Nat, NEW a \in Nat, NEW b \in Nat, a <= b
  PROVE  d * a <= d * b /\ a * d <= b * d /\ d * a \in Nat /\ d * a = a * d
<1>1. b - a \in Nat /\ d * (b - a) \in Nat /\ d * b = d * a + d * (b - a)
  OBVIOUS
<1>2. d * a \in Nat /\ d * b \in Nat /\ d * a = a * d /\ d * b = b * d
  OBVIOUS
<1>3. QED
  BY <1>1, <1>2

LEMMA PiecesAre ==
  ASSUME NEW T \in Nat \ {0}, NEW q \in Nat, NEW m \in 0..(T - 1)
  PROVE  /\ \A t \in 0..T : Piece(q, m, t) \in 0..(T * q + m)
         /\ \A t \in 0..(T - 1) : Piece(q, m, t + 1) = Piece(q, m, t) + q + (IF t < m THEN 1 ELSE 0)
         /\ \A t, u \in 0..T : t <= u => Piece(q, m, t) <= Piece(q, m, u)
         /\ \A i \in 1..(T * q + m) : \E t \in 0..(T - 1) :
               Piece(q, m, t) < i /\ i <= Piece(q, m, t + 1)
<1>1. \A t \in 0..T : Piece(q, m, t) \in Nat
  BY DEF Piece
<1>2. Piece(q, m, 0) = 0 /\ Piece(q, m, T) = T * q + m
  BY DEF Piece
<1>3. ASSUME NEW t \in 0..T, NEW u \in 0..T, t <= u PROVE Piece(q, m, t) <= Piece(q, m, u)
  <2>1. q * t <= q * u /\ q * t \in Nat /\ q * u \in Nat
    BY <1>3
  <2>2. (IF t > m THEN m ELSE t) <= (IF u > m THEN m ELSE u)
    BY <1>3
  <2>3. QED
    BY <2>1, <2>2 DEF Piece
<1>4. ASSUME NEW t \in 0..(T - 1)
      PROVE  Piece(q, m, t + 1) = Piece(q, m, t) + q + (IF t < m THEN 1 ELSE 0)
  <2>1. q * (t + 1) = q * t + q /\ q * t \in Nat
    OBVIOUS
  <2>2. QED
    BY <2>1 DEF Piece
<1>5. ASSUME NEW i \in 1..(T * q + m)
      PROVE  \E t \in 0..(T - 1) : Piece(q, m, t) < i /\ i <= Piece(q, m, t + 1)
  <2> DEFINE E == {t \in 0..T : i <= Piece(q, m, t)}
  <2>1. E \subseteq Nat /\ T \in E
    BY <1>2
  <2>2. PICK u \in E : \A t \in E : u <= t
    BY <2>1, LeastElement
  <2>3. u \in 1..T /\ i <= Piece(q, m, u)
    BY <1>2, <2>2
  <2>4. u - 1 \in 0..(T - 1) /\ (u - 1) + 1 = u /\ u - 1 \in 0..T /\ u - 1 \notin E
    BY <2>2, <2>3
  <2>5. Piece(q, m, u - 1) < i
    BY <1>1, <2>4
  <2>6. QED
    BY <2>3, <2>4, <2>5
<1>6. \A t \in 0..T : Piece(q, m, t) \in 0..(T * q + m)
  BY <1>1, <1>2, <1>3
<1>7. QED
  BY <1>3, <1>4, <1>5, <1>6
-----------------------------------------------------------------------------
(* The algorithm of Floyd and Warshall.                                    *)

Matrices(n, M) == [Cells(n) -> 0..M]

LEMMA CellsOfGraph ==
  ASSUME NEW n \in Nat, NEW i \in 0..(n - 1), NEW j \in 0..(n - 1)
  PROVE  <<i, j>> \in Cells(n) /\ <<i, j>>[1] = i /\ <<i, j>>[2] = j
BY DEF Cells

\* A pass over a set of cells
LEMMA RelaxIs ==
  ASSUME NEW n \in Nat, NEW M \in Nat, NEW d \in Matrices(n, M), NEW cells, NEW v \in 0..(n - 1)
  PROVE  /\ Relax(d, cells, v) \in Matrices(n, M)
         /\ \A i, j \in 0..(n - 1) :
              Relax(d, cells, v)[<<i, j>>] =
                IF <<i, j>> \in cells THEN Lesser(d[<<i, j>>], d[<<i, v>>] + d[<<v, j>>])
                ELSE d[<<i, j>>]
<1>1. /\ DOMAIN d = Cells(n)
      /\ Relax(d, cells, v) = [c \in Cells(n) |->
           IF c \in cells THEN Lesser(d[c], d[<<c[1], v>>] + d[<<v, c[2]>>]) ELSE d[c]]
  BY DEF Relax, Matrices
<1>2. ASSUME NEW i \in 0..(n - 1), NEW j \in 0..(n - 1)
      PROVE  /\ Relax(d, cells, v)[<<i, j>>] =
                  IF <<i, j>> \in cells THEN Lesser(d[<<i, j>>], d[<<i, v>>] + d[<<v, j>>])
                  ELSE d[<<i, j>>]
             /\ Relax(d, cells, v)[<<i, j>>] \in 0..M
  <2>1. <<i, j>> \in Cells(n) /\ <<i, v>> \in Cells(n) /\ <<v, j>> \in Cells(n)
    BY DEF Cells
  <2>2. d[<<i, j>>] \in 0..M /\ d[<<i, v>>] \in 0..M /\ d[<<v, j>>] \in 0..M
    BY <2>1 DEF Matrices
  <2>3. Relax(d, cells, v)[<<i, j>>] =
          IF <<i, j>> \in cells THEN Lesser(d[<<i, j>>], d[<<i, v>>] + d[<<v, j>>]) ELSE d[<<i, j>>]
    BY <1>1, <2>1
  <2>4. QED
    BY <2>2, <2>3 DEF Lesser
<1>3. ASSUME NEW c \in Cells(n) PROVE Relax(d, cells, v)[c] \in 0..M
  <2>1. PICK i, j \in 0..(n - 1) : c = <<i, j>>
    BY DEF Cells
  <2>2. QED
    BY <1>2, <2>1
<1>4. QED
  BY <1>1, <1>2, <1>3 DEF Matrices

\* The matrices of the algorithm without blocks
LEMMA StepsAre ==
  ASSUME NEW n \in Nat, NEW M \in Nat, NEW w \in Matrices(n, M)
  PROVE  /\ FloydWarshallSteps(w, n)[0] = w
         /\ \A k \in 0..n : FloydWarshallSteps(w, n)[k] \in Matrices(n, M)
         /\ \A k \in 1..n : FloydWarshallSteps(w, n)[k] =
                              Relax(FloydWarshallSteps(w, n)[k - 1], Cells(n), k - 1)
<1> DEFINE S == Matrices(n, M)
           step == [k \in 1..n |-> [d \in S |-> Relax(d, Cells(n), k - 1)]]
           D == FloydWarshallSteps(w, n)
<1>1. step \in [1..n -> [S -> S]]
  <2>1. ASSUME NEW k \in 1..n, NEW d \in S PROVE Relax(d, Cells(n), k - 1) \in S
    <3>1. k - 1 \in 0..(n - 1)
      OBVIOUS
    <3>2. QED
      BY <3>1, RelaxIs
  <2>2. QED
    BY <2>1
<1>2. PICK g \in [0..n -> S] : g[0] = w /\ \A k \in 1..n : g[k] = step[k][g[k - 1]]
  <2> HIDE DEF step, S
  <2>1. w \in S
    BY DEF S
  <2>2. \E g \in [0..n -> S] : Recurs(g, n, w, step)
    BY <1>1, <2>1, RecursionExists
  <2>3. QED
    BY <2>2 DEF Recurs
<1>3. ASSUME NEW k \in 1..n PROVE g[k] = Relax(g[k - 1], Cells(n), k - 1)
  <2>1. k - 1 \in 0..n /\ g[k - 1] \in S
    OBVIOUS
  <2>2. QED
    BY <1>2, <2>1
<1>4. g = [k \in 0..n |-> IF k = 0 THEN w ELSE Relax(g[k - 1], Cells(n), k - 1)]
  <2> HIDE DEF S
  <2>1. \A k \in 0..n : g[k] = IF k = 0 THEN w ELSE Relax(g[k - 1], Cells(n), k - 1)
    BY <1>2, <1>3
  <2>2. QED
    BY <2>1
<1>5. D = [k \in 0..n |-> IF k = 0 THEN w ELSE Relax(D[k - 1], Cells(n), k - 1)]
  BY <1>4, Zenon DEF FloydWarshallSteps
<1> HIDE DEF D, step
<1>6. D[0] = w /\ \A k \in 1..n : D[k] = Relax(D[k - 1], Cells(n), k - 1)
  BY <1>5
<1> DEFINE T == {k \in 0..n : D[k] \in S}
<1>7. 0 \in T
  BY <1>6
<1>8. ASSUME NEW k \in 0..(n - 1), k \in T PROVE k + 1 \in T
  <2>1. D[k + 1] = Relax(D[k], Cells(n), k)
    <3>1. k + 1 \in 1..n /\ (k + 1) - 1 = k
      OBVIOUS
    <3>2. QED
      BY <1>6, <3>1
  <2>2. QED
    BY <1>8, <2>1, RelaxIs
<1> HIDE DEF T
<1>9. \A k \in 0..n : k \in T
  BY <1>7, <1>8, UpTo
<1>10. QED
  BY <1>6, <1>9 DEF T, D

\* D goes through the matrices of the algorithm without blocks, from w on.
IsSteps(D, w, n, M) ==
  /\ D[0] = w
  /\ \A k \in 0..n : D[k] \in Matrices(n, M)
  /\ \A k \in 0..(n - 1) : \A i, j \in 0..(n - 1) :
       D[k + 1][<<i, j>>] = Lesser(D[k][<<i, j>>], D[k][<<i, k>>] + D[k][<<k, j>>])

LEMMA StepsAreSteps ==
  ASSUME NEW n \in Nat, NEW M \in Nat, NEW w \in Matrices(n, M)
  PROVE  IsSteps(FloydWarshallSteps(w, n), w, n, M)
<1> PICK D : D = FloydWarshallSteps(w, n)
  OBVIOUS
<1>1. /\ D[0] = w /\ \A k \in 0..n : D[k] \in Matrices(n, M)
      /\ \A k \in 1..n : D[k] = Relax(D[k - 1], Cells(n), k - 1)
  BY StepsAre
<1>2. ASSUME NEW k \in 0..(n - 1), NEW i \in 0..(n - 1), NEW j \in 0..(n - 1)
      PROVE  D[k + 1][<<i, j>>] = Lesser(D[k][<<i, j>>], D[k][<<i, k>>] + D[k][<<k, j>>])
  <2>1. k + 1 \in 1..n /\ (k + 1) - 1 = k /\ k \in 0..n
    OBVIOUS
  <2>2. D[k + 1] = Relax(D[k], Cells(n), k) /\ D[k] \in Matrices(n, M)
    BY <1>1, <2>1
  <2>3. <<i, j>> \in Cells(n)
    BY DEF Cells
  <2>4. QED
    BY <2>2, <2>3, RelaxIs
<1>3. QED
  BY <1>1, <1>2 DEF IsSteps

LEMMA StepsTypes ==
  ASSUME NEW n \in Nat, NEW M \in Nat, NEW w, NEW D, IsSteps(D, w, n, M), NEW k \in 0..n,
         NEW i \in 0..(n - 1), NEW j \in 0..(n - 1)
  PROVE  D[k][<<i, j>>] \in 0..M
BY DEF IsSteps, Matrices, Cells

\* An entry never grows.
LEMMA StepsDecrease ==
  ASSUME NEW n \in Nat, NEW M \in Nat, NEW w, NEW D, IsSteps(D, w, n, M),
         NEW k \in 0..n, NEW m \in k..n, NEW i \in 0..(n - 1), NEW j \in 0..(n - 1)
  PROVE  D[m][<<i, j>>] <= D[k][<<i, j>>]
<1> DEFINE T == {x \in 0..(n - k) : D[k + x][<<i, j>>] <= D[k][<<i, j>>]}
<1>1. 0 \in T
  BY StepsTypes
<1>2. ASSUME NEW x \in 0..(n - k - 1), x \in T PROVE x + 1 \in T
  <2>1. k + x \in 0..(n - 1) /\ k + x \in 0..n /\ k + (x + 1) = (k + x) + 1
    OBVIOUS
  <2> PICK y : y = k + x
    OBVIOUS
  <2>2. D[y + 1][<<i, j>>] = Lesser(D[y][<<i, j>>], D[y][<<i, y>>] + D[y][<<y, j>>])
    BY <2>1 DEF IsSteps
  <2>3. D[y][<<i, j>>] \in 0..M /\ D[y][<<i, y>>] \in 0..M /\ D[y][<<y, j>>] \in 0..M
        /\ D[k][<<i, j>>] \in 0..M
    BY <2>1, StepsTypes
  <2>4. D[y + 1][<<i, j>>] <= D[y][<<i, j>>] /\ D[y + 1][<<i, j>>] \in Int
    BY <2>2, <2>3 DEF Lesser
  <2>5. QED
    BY <1>2, <2>1, <2>3, <2>4
<1> HIDE DEF T
<1>3. n - k \in Nat /\ \A x \in 0..(n - k - 1) : x \in T => x + 1 \in T
  BY <1>2
<1>4. \A x \in 0..(n - k) : x \in T
  BY <1>1, <1>3, UpTo
<1>5. m - k \in 0..(n - k) /\ k + (m - k) = m
  OBVIOUS
<1>6. QED
  BY <1>4, <1>5 DEF T

\* After a step, a detour through a vertex that was passed is no shorter.
LEMMA Detour ==
  ASSUME NEW n \in Nat, NEW M \in Nat, NEW w, NEW D, IsSteps(D, w, n, M),
         NEW k \in 0..n, NEW v \in 0..(k - 1), NEW i \in 0..(n - 1), NEW j \in 0..(n - 1)
  PROVE  D[k][<<i, j>>] <= D[k][<<i, v>>] + D[k][<<v, j>>]
<1> DEFINE T == {x \in 0..n : \A u \in 0..(x - 1) : \A a, b \in 0..(n - 1) :
                                D[x][<<a, b>>] <= D[x][<<a, u>>] + D[x][<<u, b>>]}
<1>1. 0 \in T
  OBVIOUS
<1>2. ASSUME NEW x \in 0..(n - 1), x \in T PROVE x + 1 \in T
  <2>1. SUFFICES ASSUME NEW u \in 0..x, NEW a \in 0..(n - 1), NEW b \in 0..(n - 1)
                 PROVE  D[x + 1][<<a, b>>] <= D[x + 1][<<a, u>>] + D[x + 1][<<u, b>>]
    BY <1>2
  <2>2. x \in 0..n /\ u \in 0..(n - 1) /\ u \in 0..n
    OBVIOUS
  <2>3. PICK d \in [(0..(n - 1)) \X (0..(n - 1)) -> Nat] : d = D[x]
    <3>1. D[x] \in [Cells(n) -> 0..M]
      BY <2>2 DEF IsSteps, Matrices
    <3>2. QED
      BY <3>1 DEF Cells
  <2>4. PICK ab, au, ub, ax, xb, ux, xu \in Nat :
          /\ ab = d[<<a, b>>] /\ au = d[<<a, u>>] /\ ub = d[<<u, b>>] /\ ax = d[<<a, x>>]
          /\ xb = d[<<x, b>>] /\ ux = d[<<u, x>>] /\ xu = d[<<x, u>>]
    BY <2>2
  <2>5. /\ D[x + 1][<<a, b>>] = Lesser(ab, ax + xb)
        /\ D[x + 1][<<a, u>>] = Lesser(au, ax + xu)
        /\ D[x + 1][<<u, b>>] = Lesser(ub, ux + xb)
    BY <2>2, <2>3, <2>4 DEF IsSteps
  <2>6. CASE u = x
    <3>1. au = ax /\ ub = xb
      BY <2>4, <2>6
    <3>2. au <= ax + xu /\ ub <= ux + xb
      BY <3>1
    <3>3. Lesser(au, ax + xu) = ax /\ Lesser(ub, ux + xb) = xb
      BY <3>1, <3>2 DEF Lesser
    <3>4. Lesser(ab, ax + xb) <= ax + xb
      BY DEF Lesser
    <3>5. QED
      BY <2>5, <3>3, <3>4
  <2>7. CASE u < x
    <3>1. u \in 0..(x - 1)
      BY <2>7
    <3>2. ab <= au + ub /\ ax <= au + ux /\ xb <= xu + ub
      BY <1>2, <2>3, <2>4, <3>1
    <3>3. Lesser(ab, ax + xb) <= Lesser(au, ax + xu) + Lesser(ub, ux + xb)
      BY <3>2 DEF Lesser
    <3>4. QED
      BY <2>5, <3>3
  <2>8. QED
    BY <2>6, <2>7
<1> HIDE DEF T
<1>3. k \in T
  BY <1>1, <1>2, UpTo
<1>4. QED
  BY <1>3 DEF T

-----------------------------------------------------------------------------
(* Walks.                                                                  *)

\* The weights of the walks of at most one edge
Edges(w, n) == [c \in Cells(n) |-> IF c[1] = c[2] THEN 0 ELSE w[c]]

\* l has the least weights when the walks of d may have one more edge.
IsLonger(l, d, edge, n, M) ==
  \A i, j \in 0..(n - 1) :
    /\ \A v \in 0..(n - 1) : l[<<i, j>>] <= d[<<i, v>>] + edge[<<v, j>>]
    /\ l[<<i, j>>] = M \/ \E v \in 0..(n - 1) : l[<<i, j>>] = d[<<i, v>>] + edge[<<v, j>>]

\* W has for each m the least weights of the walks of at most m edges.
IsWalks(W, edge, n, M) ==
  /\ \A m \in 0..n : W[m] \in Matrices(n, M)
  /\ \A i, j \in 0..(n - 1) : W[0][<<i, j>>] = IF i = j THEN 0 ELSE M
  /\ \A m \in 0..(n - 1) : IsLonger(W[m + 1], W[m], edge, n, M)

\* The least weight of a walk with one more edge
OneLonger(d, edge, n, M) ==
  [c \in Cells(n) |-> Lesser(M, Min({d[<<c[1], v>>] + edge[<<v, c[2]>>] : v \in 0..(n - 1)}))]

LEMMA LongerIs ==
  ASSUME NEW n \in Nat, NEW M \in Nat, NEW edge \in Matrices(n, M), NEW d \in Matrices(n, M)
  PROVE  /\ OneLonger(d, edge, n, M) \in Matrices(n, M)
         /\ IsLonger(OneLonger(d, edge, n, M), d, edge, n, M)
<1> PICK l : l = OneLonger(d, edge, n, M)
  OBVIOUS
<1>1. ASSUME NEW i \in 0..(n - 1), NEW j \in 0..(n - 1)
      PROVE  /\ l[<<i, j>>] \in 0..M
             /\ \A v \in 0..(n - 1) : l[<<i, j>>] <= d[<<i, v>>] + edge[<<v, j>>]
             /\ \/ l[<<i, j>>] = M
                \/ \E v \in 0..(n - 1) : l[<<i, j>>] = d[<<i, v>>] + edge[<<v, j>>]
  <2> PICK S : S = {d[<<i, v>>] + edge[<<v, j>>] : v \in 0..(n - 1)}
    OBVIOUS
  <2>1. l[<<i, j>>] = Lesser(M, Min(S))
    BY DEF OneLonger, Cells
  <2>2. \A v \in 0..(n - 1) : d[<<i, v>>] \in Nat /\ edge[<<v, j>>] \in Nat
    BY DEF Matrices, Cells
  <2>3. S \subseteq Nat /\ S # {}
    <3>1. d[<<i, i>>] + edge[<<i, j>>] \in S
      OBVIOUS
    <3>2. ASSUME NEW x \in S PROVE x \in Nat
      <4>1. PICK v \in 0..(n - 1) : x = d[<<i, v>>] + edge[<<v, j>>]
        OBVIOUS
      <4>2. QED
        BY <2>2, <4>1
    <3>3. QED
      BY <3>1, <3>2
  <2>4. Min(S) \in S /\ \A x \in S : Min(S) <= x
    <3>1. \E x \in S : \A y \in S : x <= y
      BY <2>3, LeastElement
    <3>2. QED
      BY <3>1, Zenon DEF Min
  <2>5. PICK u \in 0..(n - 1) : Min(S) = d[<<i, u>>] + edge[<<u, j>>]
    BY <2>4
  <2>6. \A v \in 0..(n - 1) : Min(S) <= d[<<i, v>>] + edge[<<v, j>>]
    BY <2>4
  <2>7. Min(S) \in Nat
    BY <2>3, <2>4
  <2> PICK o : o = Min(S)
    OBVIOUS
  <2>8. Lesser(M, o) \in 0..M /\ Lesser(M, o) <= o /\ (Lesser(M, o) = M \/ Lesser(M, o) = o)
    BY <2>7 DEF Lesser
  <2>9. \A v \in 0..(n - 1) : Lesser(M, o) <= d[<<i, v>>] + edge[<<v, j>>]
    <3>1. SUFFICES ASSUME NEW v \in 0..(n - 1) PROVE Lesser(M, o) <= d[<<i, v>>] + edge[<<v, j>>]
      OBVIOUS
    <3>2. o <= d[<<i, v>>] + edge[<<v, j>>] /\ d[<<i, v>>] + edge[<<v, j>>] \in Nat
      BY <2>2, <2>6
    <3>3. QED
      BY <2>7, <2>8, <3>2
  <2>10. QED
    BY <2>1, <2>5, <2>8, <2>9
<1>2. l \in Matrices(n, M)
  <2>1. \A c \in Cells(n) : l[c] \in 0..M
    BY <1>1 DEF Cells
  <2>2. l = [c \in Cells(n) |-> l[c]]
    BY DEF OneLonger
  <2>3. QED
    BY <2>1, <2>2 DEF Matrices
<1>3. IsLonger(l, d, edge, n, M)
  BY <1>1 DEF IsLonger
<1>4. QED
  BY <1>2, <1>3

\* The matrices of ShortestPaths
LEMMA WalksExist ==
  ASSUME NEW n \in Nat \ {0}, NEW M \in Nat, NEW w, Edges(w, n) \in Matrices(n, M)
  PROVE  \E W : IsWalks(W, Edges(w, n), n, M) /\ ShortestPaths(w, n, M) = W[n - 1]
<1> DEFINE S == Matrices(n, M)
           edge == Edges(w, n)
           none == [c \in Cells(n) |-> IF c[1] = c[2] THEN 0 ELSE M]
           step == [m \in 1..n |-> [d \in S |-> OneLonger(d, edge, n, M)]]
           Walk[m \in 0..n] ==
             IF m = 0 THEN [c \in Cells(n) |-> IF c[1] = c[2] THEN 0 ELSE M]
             ELSE LET shorter == Walk[m - 1] IN
                  [c \in Cells(n) |->
                     Lesser(M, Min({shorter[<<c[1], v>>] + edge[<<v, c[2]>>] : v \in 0..(n - 1)}))]
<1>1. none \in S /\ step \in [1..n -> [S -> S]]
  <2>1. none \in S
    BY DEF Matrices
  <2>2. \A d \in S : OneLonger(d, edge, n, M) \in S
    BY LongerIs
  <2>3. QED
    BY <2>1, <2>2
<1>2. PICK g \in [0..n -> S] : g[0] = none /\ \A m \in 1..n : g[m] = step[m][g[m - 1]]
  <2> HIDE DEF step, S, none
  <2>1. \E g \in [0..n -> S] : Recurs(g, n, none, step)
    BY <1>1, RecursionExists
  <2>2. QED
    BY <2>1 DEF Recurs
<1>3. ASSUME NEW m \in 1..n PROVE g[m - 1] \in S /\ g[m] = OneLonger(g[m - 1], edge, n, M)
  <2>1. m - 1 \in 0..n /\ g[m - 1] \in S
    OBVIOUS
  <2>2. QED
    BY <1>2, <2>1
<1>4. g = [m \in 0..n |-> IF m = 0 THEN none ELSE OneLonger(g[m - 1], edge, n, M)]
  <2> HIDE DEF S, step, none, edge
  <2>1. \A m \in 0..n : g[m] = IF m = 0 THEN none ELSE OneLonger(g[m - 1], edge, n, M)
    BY <1>2, <1>3
  <2>2. QED
    BY <2>1
<1>5. Walk = [m \in 0..n |-> IF m = 0 THEN none ELSE OneLonger(Walk[m - 1], edge, n, M)]
  BY <1>4, Zenon DEF OneLonger
<1>6. ShortestPaths(w, n, M) = Walk[n - 1]
  BY DEF ShortestPaths, Edges
<1> HIDE DEF Walk, step
<1>7. Walk[0] = none /\ \A m \in 0..(n - 1) : Walk[m + 1] = OneLonger(Walk[m], edge, n, M)
  <2> HIDE DEF none, edge
  <2>1. \A m \in 0..n : Walk[m] = IF m = 0 THEN none ELSE OneLonger(Walk[m - 1], edge, n, M)
    BY <1>5, Zenon
  <2>2. 0 \in 0..n /\ \A m \in 0..(n - 1) : m + 1 \in 0..n /\ m + 1 # 0 /\ (m + 1) - 1 = m
    OBVIOUS
  <2>3. QED
    BY <2>1, <2>2, Zenon
<1> DEFINE T == {m \in 0..n : Walk[m] \in S}
<1>8. \A m \in 0..n : m \in T
  <2> HIDE DEF S
  <2>1. 0 \in T
    BY <1>1, <1>7
  <2>2. ASSUME NEW m \in 0..(n - 1), m \in T PROVE m + 1 \in T
    BY <1>7, <2>2, LongerIs DEF S
  <2> HIDE DEF T
  <2>3. QED
    BY <2>1, <2>2, UpTo
<1>9. IsWalks(Walk, edge, n, M)
  <2>1. \A m \in 0..n : Walk[m] \in Matrices(n, M)
    BY <1>8
  <2>2. \A i, j \in 0..(n - 1) : Walk[0][<<i, j>>] = IF i = j THEN 0 ELSE M
    BY <1>7 DEF Cells
  <2>3. ASSUME NEW m \in 0..(n - 1) PROVE IsLonger(Walk[m + 1], Walk[m], edge, n, M)
    <3>1. Walk[m] \in Matrices(n, M) /\ Walk[m + 1] = OneLonger(Walk[m], edge, n, M)
      BY <1>7, <2>1
    <3> HIDE DEF edge
    <3>2. edge \in Matrices(n, M)
      BY DEF edge
    <3>3. IsLonger(OneLonger(Walk[m], edge, n, M), Walk[m], edge, n, M)
      BY <3>1, <3>2, LongerIs
    <3>4. QED
      BY <3>1, <3>3
  <2> HIDE DEF edge
  <2>4. QED
    BY <2>1, <2>2, <2>3 DEF IsWalks
<1>10. QED
  BY <1>6, <1>9

LEMMA WalksTypes ==
  ASSUME NEW n \in Nat, NEW M \in Nat, NEW edge, NEW W, IsWalks(W, edge, n, M), NEW m \in 0..n,
         NEW i \in 0..(n - 1), NEW j \in 0..(n - 1)
  PROVE  W[m][<<i, j>>] \in 0..M
BY DEF IsWalks, Matrices, Cells

LEMMA EntryType ==
  ASSUME NEW n \in Nat, NEW M \in Nat, NEW d \in Matrices(n, M),
         NEW i \in 0..(n - 1), NEW j \in 0..(n - 1)
  PROVE  d[<<i, j>>] \in 0..M
BY DEF Matrices, Cells

\* One more edge is no obstacle: a walk may stay where it is.
LEMMA WalksDecrease ==
  ASSUME NEW n \in Nat, NEW M \in Nat, NEW edge \in Matrices(n, M), NEW W, IsWalks(W, edge, n, M),
         \A v \in 0..(n - 1) : edge[<<v, v>>] = 0,
         NEW m \in 0..(n - 1), NEW i \in 0..(n - 1), NEW j \in 0..(n - 1)
  PROVE  W[m + 1][<<i, j>>] <= W[m][<<i, j>>]
<1>1. W[m + 1][<<i, j>>] <= W[m][<<i, j>>] + edge[<<j, j>>] /\ edge[<<j, j>>] = 0
  BY DEF IsWalks, IsLonger
<1>2. W[m][<<i, j>>] \in 0..M
  BY WalksTypes
<1>3. QED
  BY <1>1, <1>2

\* Vertices in S are as near to i with m edges as with any number of edges.
AreSettled(W, m, n, i, S) ==
  \A j \in S : \A x \in 0..n : W[m][<<i, j>>] <= W[x][<<i, j>>]

\* With one more edge, one more vertex is: the nearest to those there are.
LEMMA OneMoreSettled ==
  ASSUME NEW n \in Nat, NEW M \in Nat, NEW edge \in Matrices(n, M), NEW W, IsWalks(W, edge, n, M),
         \A v \in 0..(n - 1) : edge[<<v, v>>] = 0,
         NEW m \in 0..(n - 1), NEW i \in 0..(n - 1),
         NEW S \in SUBSET (0..(n - 1)), i \in S, S # 0..(n - 1), AreSettled(W, m, n, i, S)
  PROVE  \E u \in (0..(n - 1)) \ S : AreSettled(W, m + 1, n, i, S \cup {u})
<1> DEFINE V == 0..(n - 1)
           near(s, u) == W[m][<<i, s>>] + edge[<<s, u>>]
           All == {near(s, u) : s \in S, u \in V \ S}
<1>1. \A x \in 0..n : \A j \in V : W[x][<<i, j>>] \in Nat /\ W[x][<<i, j>>] <= M
  <2>1. SUFFICES ASSUME NEW x \in 0..n, NEW j \in V
                 PROVE  W[x][<<i, j>>] \in Nat /\ W[x][<<i, j>>] <= M
    OBVIOUS
  <2>2. W[x][<<i, j>>] \in 0..M
    BY WalksTypes
  <2>3. QED
    BY <2>2
<1>2. \A u, v \in V : edge[<<u, v>>] \in Nat
  <2>1. SUFFICES ASSUME NEW u \in V, NEW v \in V PROVE edge[<<u, v>>] \in Nat
    OBVIOUS
  <2>2. edge[<<u, v>>] \in 0..M
    BY EntryType
  <2>3. QED
    BY <2>2
<1>3. m \in 0..n /\ m + 1 \in 0..n
  OBVIOUS
<1>4. \A s, u \in V : near(s, u) \in Nat
  <2>1. SUFFICES ASSUME NEW s \in V, NEW u \in V PROVE near(s, u) \in Nat
    OBVIOUS
  <2>2. W[m][<<i, s>>] \in Nat /\ edge[<<s, u>>] \in Nat
    BY <1>1, <1>2, <1>3
  <2>3. QED
    BY <2>2
<1>5. All \subseteq Nat /\ All # {}
  <2>1. PICK u \in V : u \notin S
    OBVIOUS
  <2>2. near(i, u) \in All
    BY <2>1
  <2>3. QED
    <3> HIDE DEF near
    <3>1. \A x \in All : \E s \in S : \E v \in V \ S : x = near(s, v)
      OBVIOUS
    <3>2. ASSUME NEW x \in All PROVE x \in Nat
      BY <1>4, <3>1
    <3> HIDE DEF All
    <3>3. QED
      BY <2>2, <3>2
<1> HIDE DEF near
<1>6. PICK s \in S, u \in V \ S : \A t \in S, v \in V \ S : near(s, u) <= near(t, v)
  <2>1. PICK o \in All : \A x \in All : o <= x
    <3> HIDE DEF All
    <3>1. QED
      BY <1>5, LeastElement
  <2>2. PICK s \in S, u \in V \ S : o = near(s, u)
    OBVIOUS
  <2>3. \A t \in S, v \in V \ S : near(t, v) \in All
    OBVIOUS
  <2> HIDE DEF All
  <2>4. QED
    BY <2>1, <2>2, <2>3
<1> HIDE DEF All
<1> PICK c : c = near(s, u)
  OBVIOUS
<1>7. c \in Nat /\ s \in V /\ u \in V /\ u \notin S
  BY <1>4
<1>8. W[m + 1][<<i, u>>] <= c
  BY <1>7 DEF IsWalks, IsLonger, near
\* No walk to a vertex outside of S is shorter than c, or than no walk.
<1> DEFINE T == {x \in 0..n : \A v \in V \ S : c <= W[x][<<i, v>>] \/ W[x][<<i, v>>] = M}
<1>9. 0 \in T
  BY DEF IsWalks
<1>10. ASSUME NEW x \in 0..(n - 1), x \in T PROVE x + 1 \in T
  <2>1. SUFFICES ASSUME NEW v \in V \ S, W[x + 1][<<i, v>>] # M PROVE c <= W[x + 1][<<i, v>>]
    BY <1>10
  <2>2. x \in 0..n /\ x + 1 \in 0..n
    OBVIOUS
  <2>3. PICK t \in V : W[x + 1][<<i, v>>] = W[x][<<i, t>>] + edge[<<t, v>>]
    <3>1. IsLonger(W[x + 1], W[x], edge, n, M)
      BY DEF IsWalks
    <3>2. QED
      BY <2>1, <3>1 DEF IsLonger
  <2>4. /\ W[x][<<i, t>>] \in Nat /\ W[x][<<i, t>>] <= M /\ edge[<<t, v>>] \in Nat
        /\ W[m][<<i, t>>] \in Nat /\ W[x + 1][<<i, v>>] <= M
    BY <1>1, <1>2, <1>3, <2>2
  <2>5. CASE t \in S
    <3>1. c <= near(t, v)
      BY <1>6, <2>5
    <3>2. W[m][<<i, t>>] <= W[x][<<i, t>>]
      BY <2>2, <2>5 DEF AreSettled
    <3>3. QED
      BY <1>7, <2>3, <2>4, <3>1, <3>2 DEF near
  <2>6. CASE t \notin S
    <3>1. c <= W[x][<<i, t>>] \/ W[x][<<i, t>>] = M
      BY <1>10, <2>6
    <3>2. QED
      BY ONLY <1>7, <2>1, <2>3, <2>4, <3>1, M \in Nat
  <2>7. QED
    BY <2>5, <2>6
<1> HIDE DEF T
<1>11. \A x \in 0..n : x \in T
  BY <1>9, <1>10, UpTo
<1>12. ASSUME NEW j \in S \cup {u}, NEW x \in 0..n PROVE W[m + 1][<<i, j>>] <= W[x][<<i, j>>]
  <2>1. CASE j \in S
    <3>1. W[m][<<i, j>>] <= W[x][<<i, j>>]
      BY <2>1 DEF AreSettled
    <3>2. W[m + 1][<<i, j>>] <= W[m][<<i, j>>]
      BY <2>1, WalksDecrease
    <3>3. j \in V
      BY <2>1
    <3>4. QED
      BY <1>1, <1>3, <3>1, <3>2, <3>3
  <2>2. CASE j = u
    <3>1. c <= W[x][<<i, u>>] \/ W[x][<<i, u>>] = M
      BY <1>7, <1>11 DEF T
    <3>2. W[x][<<i, u>>] \in Nat /\ W[m + 1][<<i, u>>] \in Nat /\ W[m + 1][<<i, u>>] <= M
      BY <1>1, <1>3, <1>7
    <3>3. QED
      BY <1>7, <1>8, <2>2, <3>1, <3>2
  <2>3. QED
    BY <2>1, <2>2
<1>13. QED
  BY <1>7, <1>12 DEF AreSettled

\* The sizes of the sets of settled vertices
LEMMA SetSizes ==
  ASSUME NEW n \in Nat \ {0}
  PROVE  /\ \A i : IsFiniteSet({i}) /\ Cardinality({i}) = 1
         /\ IsFiniteSet(0..(n - 1)) /\ Cardinality(0..(n - 1)) = n
         /\ \A S \in SUBSET (0..(n - 1)) : Cardinality(S) = n => S = 0..(n - 1)
<1>1. 0 \in Int /\ n - 1 \in Int /\ ~ (0 > n - 1) /\ (n - 1) - 0 + 1 = n
  OBVIOUS
<1> PICK m : m = n - 1
  OBVIOUS
<1>2. IsFiniteSet(0..m) /\ Cardinality(0..m) = n
  BY <1>1, FS_Interval, Zenon
<1>3. ASSUME NEW S \in SUBSET (0..m), Cardinality(S) = n PROVE S = 0..m
  BY ONLY <1>2, <1>3, FS_Subset, Zenon
<1>4. \A i : IsFiniteSet({i}) /\ Cardinality({i}) = 1
  BY FS_Singleton, Zenon
<1>5. QED
  BY <1>2, <1>3, <1>4

\* n - 1 edges are enough.
LEMMA AllSettled ==
  ASSUME NEW n \in Nat \ {0}, NEW M \in Nat, NEW edge \in Matrices(n, M), NEW W, IsWalks(W, edge, n, M),
         \A v \in 0..(n - 1) : edge[<<v, v>>] = 0, NEW i \in 0..(n - 1)
  PROVE  AreSettled(W, n - 1, n, i, 0..(n - 1))
<1> DEFINE V == 0..(n - 1)
           T == {m \in 0..(n - 1) : \E S \in SUBSET V :
                   i \in S /\ IsFiniteSet(S) /\ Cardinality(S) = m + 1 /\ AreSettled(W, m, n, i, S)}
<1>1. IsFiniteSet(V) /\ Cardinality(V) = n
  BY ONLY SetSizes, n \in Nat \ {0}
<1>2. 0 \in T
  <2>1. IsFiniteSet({i}) /\ Cardinality({i}) = 0 + 1
    <3>1. IsFiniteSet({i}) /\ Cardinality({i}) = 1
      BY SetSizes, Zenon
    <3>2. QED
      BY ONLY <3>1
  <2>2. W[0][<<i, i>>] = 0
    BY DEF IsWalks
  <2>3. ASSUME NEW x \in 0..n PROVE W[0][<<i, i>>] <= W[x][<<i, i>>]
    <3>1. W[x][<<i, i>>] \in 0..M
      BY WalksTypes
    <3>2. QED
      BY <2>2, <3>1
  <2>4. AreSettled(W, 0, n, i, {i})
    BY <2>3 DEF AreSettled
  <2>5. {i} \in SUBSET V /\ i \in {i} /\ 0 \in 0..(n - 1)
    OBVIOUS
  <2>6. QED
    BY <2>1, <2>4, <2>5
<1>3. ASSUME NEW m \in 0..(n - 1 - 1), m \in T PROVE m + 1 \in T
  <2>1. PICK S \in SUBSET V :
          i \in S /\ IsFiniteSet(S) /\ Cardinality(S) = m + 1 /\ AreSettled(W, m, n, i, S)
    BY <1>3
  <2>2. m \in 0..(n - 1) /\ m + 1 \in 0..(n - 1)
    OBVIOUS
  <2>3. S # V
    BY <1>1, <2>1
  <2>4. PICK u \in V \ S : AreSettled(W, m + 1, n, i, S \cup {u})
    BY <2>1, <2>2, <2>3, OneMoreSettled
  <2>5. IsFiniteSet(S \cup {u}) /\ Cardinality(S \cup {u}) = (m + 1) + 1
    BY <2>1, <2>4, FS_AddElement
  <2>6. S \cup {u} \in SUBSET V /\ i \in S \cup {u}
    BY <2>1
  <2>7. QED
    BY <2>2, <2>4, <2>5, <2>6
<1> HIDE DEF T
<1>4. n - 1 \in T
  <2>1. n - 1 \in Nat /\ n - 1 \in 0..(n - 1)
    OBVIOUS
  <2>2. QED
    BY <1>2, <1>3, <2>1, UpTo
<1>5. PICK S \in SUBSET V : Cardinality(S) = (n - 1) + 1 /\ AreSettled(W, n - 1, n, i, S)
  BY <1>4 DEF T
<1>6. S = V
  <2>1. (n - 1) + 1 = n
    OBVIOUS
  <2>2. Cardinality(S) = n
    BY ONLY <1>5, <2>1
  <2>3. QED
    BY <2>2, SetSizes, Zenon
<1>7. QED
  BY <1>5, <1>6

\* The algorithm without blocks ends with the distances.
LEMMA StepsAreDistances ==
  ASSUME NEW n \in Nat \ {0}, NEW M \in Nat, NEW w, Edges(w, n) \in Matrices(n, M)
  PROVE  FloydWarshallSteps(Edges(w, n), n)[n] = ShortestPaths(w, n, M)
<1> PICK edge : edge = Edges(w, n)
  OBVIOUS
<1> DEFINE V == 0..(n - 1)
<1>1. PICK W : IsWalks(W, edge, n, M) /\ ShortestPaths(w, n, M) = W[n - 1]
  BY WalksExist
<1> PICK D : D = FloydWarshallSteps(edge, n)
  OBVIOUS
<1>2. edge \in Matrices(n, M) /\ n \in Nat
  OBVIOUS
<1>3. IsSteps(D, edge, n, M)
  BY <1>2, StepsAreSteps
<1>4. D[0] = edge
  BY <1>3 DEF IsSteps
<1>5. \A v \in V : edge[<<v, v>>] = 0
  BY DEF Edges, Cells
<1> PICK X : X = W[n - 1]
  OBVIOUS
<1>6. X \in Matrices(n, M) /\ D[n] \in Matrices(n, M)
  <2>1. n - 1 \in 0..n /\ n \in 0..n
    OBVIOUS
  <2>2. QED
    BY <1>1, <1>3, <2>1 DEF IsWalks, IsSteps
<1>7. /\ \A i, j \in V : edge[<<i, j>>] \in 0..M /\ X[<<i, j>>] \in 0..M
      /\ \A k \in 0..n : \A i, j \in V : D[k][<<i, j>>] \in 0..M /\ W[k][<<i, j>>] \in 0..M
  <2>1. ASSUME NEW i \in V, NEW j \in V
        PROVE  edge[<<i, j>>] \in 0..M /\ X[<<i, j>>] \in 0..M
    BY <1>2, <1>6, EntryType
  <2>2. ASSUME NEW k \in 0..n, NEW i \in V, NEW j \in V
        PROVE  D[k][<<i, j>>] \in 0..M /\ W[k][<<i, j>>] \in 0..M
    BY <1>1, <1>2, <1>3, StepsTypes, WalksTypes
  <2>3. QED
    BY <2>1, <2>2
\* No walk is shorter than the last matrix of the algorithm says.
<1> DEFINE T == {m \in 0..n : \A i, j \in V : D[n][<<i, j>>] <= W[m][<<i, j>>]}
<1>8. 0 \in T
  <2>1. ASSUME NEW i \in V, NEW j \in V PROVE D[n][<<i, j>>] <= W[0][<<i, j>>]
    <3>1. n \in 0..n /\ 0 \in 0..n /\ n \in 0..n
      OBVIOUS
    <3>2. D[n][<<i, j>>] <= D[0][<<i, j>>]
      BY <1>2, <1>3, <3>1, StepsDecrease
    <3>3. D[n][<<i, j>>] \in 0..M
      BY <1>7, <3>1
    <3>4. W[0][<<i, j>>] = IF i = j THEN 0 ELSE M
      BY <1>1 DEF IsWalks
    <3>5. i = j => D[0][<<i, j>>] = 0
      BY <1>4, <1>5
    <3>6. QED
      BY <3>2, <3>3, <3>4, <3>5
  <2>2. QED
    BY <2>1
<1>9. ASSUME NEW m \in 0..(n - 1), m \in T PROVE m + 1 \in T
  <2>1. m + 1 \in 0..n /\ n \in 0..n /\ 0 \in 0..n /\ m \in 0..n
    OBVIOUS
  <2>2. SUFFICES ASSUME NEW i \in V, NEW j \in V PROVE D[n][<<i, j>>] <= W[m + 1][<<i, j>>]
    BY <2>1
  <2>3. CASE W[m + 1][<<i, j>>] = M
    <3>1. D[n][<<i, j>>] \in 0..M
      BY <1>7, <2>1
    <3>2. QED
      BY <2>3, <3>1
  <2>4. CASE \E v \in V : W[m + 1][<<i, j>>] = W[m][<<i, v>>] + edge[<<v, j>>]
    <3>1. PICK v \in V : W[m + 1][<<i, j>>] = W[m][<<i, v>>] + edge[<<v, j>>]
      BY <2>4
    <3>2. D[n][<<i, j>>] <= D[n][<<i, v>>] + D[n][<<v, j>>]
      BY <1>2, <1>3, <2>1, Detour
    <3>3. D[n][<<v, j>>] <= edge[<<v, j>>]
      BY <1>2, <1>3, <1>4, <2>1, StepsDecrease
    <3>4. D[n][<<i, v>>] <= W[m][<<i, v>>]
      BY <1>9
    <3>5. /\ D[n][<<i, j>>] \in 0..M /\ D[n][<<i, v>>] \in 0..M /\ D[n][<<v, j>>] \in 0..M
          /\ W[m][<<i, v>>] \in 0..M /\ edge[<<v, j>>] \in 0..M
      BY <1>7, <2>1
    <3>6. QED
      BY <3>1, <3>2, <3>3, <3>4, <3>5
  <2>5. QED
    BY <1>1, <2>3, <2>4 DEF IsWalks, IsLonger
<1> HIDE DEF T
<1>10. \A m \in 0..n : m \in T
  BY <1>2, <1>8, <1>9, UpTo
<1>11. \A i, j \in V : D[n][<<i, j>>] <= X[<<i, j>>]
  <2>1. n - 1 \in 0..n
    OBVIOUS
  <2>2. n - 1 \in T
    BY <1>10, <2>1
  <2>3. QED
    BY <2>2, Zenon DEF T
\* A last edge shortens no entry of X.
<1>12. \A i, v, j \in V : X[<<i, i>>] = 0 /\ X[<<i, j>>] <= X[<<i, v>>] + edge[<<v, j>>]
  <2>1. SUFFICES ASSUME NEW i \in V, NEW v \in V, NEW j \in V
                 PROVE  X[<<i, i>>] = 0 /\ X[<<i, j>>] <= X[<<i, v>>] + edge[<<v, j>>]
    OBVIOUS
  <2>2. 0 \in 0..n /\ n \in 0..n /\ n - 1 \in 0..(n - 1) /\ (n - 1) + 1 = n
    OBVIOUS
  <2>3. AreSettled(W, n - 1, n, i, V)
    BY <1>1, <1>2, <1>5, AllSettled
  <2>4. X[<<i, i>>] <= W[0][<<i, i>>] /\ X[<<i, j>>] <= W[n][<<i, j>>]
    BY <2>2, <2>3 DEF AreSettled
  <2>5. W[0][<<i, i>>] = 0
    BY <1>1 DEF IsWalks
  <2>6. IsLonger(W[n], X, edge, n, M)
    BY <1>1, <2>2 DEF IsWalks
  <2>7. W[n][<<i, j>>] <= X[<<i, v>>] + edge[<<v, j>>]
    BY <2>6 DEF IsLonger
  <2>8. /\ X[<<i, i>>] \in 0..M /\ X[<<i, j>>] \in 0..M /\ X[<<i, v>>] \in 0..M
        /\ W[n][<<i, j>>] \in 0..M /\ edge[<<v, j>>] \in 0..M
    BY <1>7, <2>2
  <2>9. QED
    BY <2>4, <2>5, <2>7, <2>8
\* So no walk appended to another shortens one.
<1> DEFINE U == {m \in 0..n : \A i, v, j \in V : X[<<i, j>>] <= X[<<i, v>>] + W[m][<<v, j>>]}
<1>13. 0 \in U
  <2>1. ASSUME NEW i \in V, NEW v \in V, NEW j \in V
        PROVE  X[<<i, j>>] <= X[<<i, v>>] + W[0][<<v, j>>]
    <3>1. W[0][<<v, j>>] = IF v = j THEN 0 ELSE M
      BY <1>1 DEF IsWalks
    <3>2. X[<<i, j>>] \in 0..M /\ X[<<i, v>>] \in 0..M
      BY <1>7
    <3>3. QED
      BY <3>1, <3>2
  <2>2. 0 \in 0..n
    OBVIOUS
  <2>3. QED
    BY <2>1, <2>2
<1>14. ASSUME NEW m \in 0..(n - 1), m \in U PROVE m + 1 \in U
  <2>1. m + 1 \in 0..n /\ m \in 0..n
    OBVIOUS
  <2>2. SUFFICES ASSUME NEW i \in V, NEW v \in V, NEW j \in V
                 PROVE  X[<<i, j>>] <= X[<<i, v>>] + W[m + 1][<<v, j>>]
    BY <2>1
  <2>3. X[<<i, j>>] \in 0..M /\ X[<<i, v>>] \in 0..M
    BY <1>7
  <2>4. CASE W[m + 1][<<v, j>>] = M
    BY <2>3, <2>4
  <2>5. CASE \E u \in V : W[m + 1][<<v, j>>] = W[m][<<v, u>>] + edge[<<u, j>>]
    <3>1. PICK u \in V : W[m + 1][<<v, j>>] = W[m][<<v, u>>] + edge[<<u, j>>]
      BY <2>5
    <3>2. X[<<i, u>>] <= X[<<i, v>>] + W[m][<<v, u>>]
      BY <1>14
    <3>3. X[<<i, j>>] <= X[<<i, u>>] + edge[<<u, j>>]
      BY <1>12
    <3>4. X[<<i, u>>] \in 0..M /\ W[m][<<v, u>>] \in 0..M /\ edge[<<u, j>>] \in 0..M
      BY <1>7, <2>1
    <3>5. QED
      BY <2>3, <3>1, <3>2, <3>3, <3>4
  <2>6. W[m + 1][<<v, j>>] = M \/ \E u \in V : W[m + 1][<<v, j>>] = W[m][<<v, u>>] + edge[<<u, j>>]
    BY <1>1 DEF IsWalks, IsLonger
  <2>7. QED
    BY <2>4, <2>5, <2>6
<1> HIDE DEF U
<1>15. \A m \in 0..n : m \in U
  BY <1>2, <1>13, <1>14, UpTo
<1>16. \A i, v, j \in V : X[<<i, j>>] <= X[<<i, v>>] + X[<<v, j>>]
  <2>1. n - 1 \in 0..n
    OBVIOUS
  <2>2. n - 1 \in U
    BY <1>15, <2>1
  <2>3. QED
    BY <2>2, Zenon DEF U
\* And no pass of the algorithm goes below X.
<1> DEFINE P == {k \in 0..n : \A i, j \in V : X[<<i, j>>] <= D[k][<<i, j>>]}
<1>17. 0 \in P
  <2>1. ASSUME NEW i \in V, NEW j \in V PROVE X[<<i, j>>] <= D[0][<<i, j>>]
    <3>1. X[<<i, i>>] = 0 /\ X[<<i, j>>] <= X[<<i, i>>] + edge[<<i, j>>]
      BY <1>12
    <3>2. edge[<<i, j>>] \in 0..M
      BY <1>7
    <3>3. QED
      BY <1>4, <3>1, <3>2
  <2>2. 0 \in 0..n
    OBVIOUS
  <2>3. QED
    BY <2>1, <2>2
<1>18. ASSUME NEW k \in 0..(n - 1), k \in P PROVE k + 1 \in P
  <2>1. k + 1 \in 0..n /\ k \in 0..n /\ k \in V
    OBVIOUS
  <2>2. SUFFICES ASSUME NEW i \in V, NEW j \in V PROVE X[<<i, j>>] <= D[k + 1][<<i, j>>]
    BY <2>1
  <2>3. D[k + 1][<<i, j>>] = Lesser(D[k][<<i, j>>], D[k][<<i, k>>] + D[k][<<k, j>>])
    BY <1>3 DEF IsSteps
  <2>4. /\ X[<<i, j>>] <= D[k][<<i, j>>] /\ X[<<i, k>>] <= D[k][<<i, k>>]
        /\ X[<<k, j>>] <= D[k][<<k, j>>]
    BY <1>18, <2>1
  <2>5. X[<<i, j>>] <= X[<<i, k>>] + X[<<k, j>>]
    BY <1>16, <2>1
  <2>6. /\ X[<<i, j>>] \in 0..M /\ X[<<i, k>>] \in 0..M /\ X[<<k, j>>] \in 0..M
        /\ D[k][<<i, j>>] \in 0..M /\ D[k][<<i, k>>] \in 0..M /\ D[k][<<k, j>>] \in 0..M
    BY <1>7, <2>1
  <2>7. QED
    BY <2>3, <2>4, <2>5, <2>6 DEF Lesser
<1> HIDE DEF P
<1>19. \A k \in 0..n : k \in P
  BY <1>2, <1>17, <1>18, UpTo
<1>20. \A c \in Cells(n) : D[n][c] = X[c]
  <2>1. SUFFICES ASSUME NEW i \in V, NEW j \in V PROVE D[n][<<i, j>>] = X[<<i, j>>]
    BY DEF Cells
  <2>2. n \in 0..n
    OBVIOUS
  <2>3. D[n][<<i, j>>] <= X[<<i, j>>] /\ X[<<i, j>>] <= D[n][<<i, j>>]
    BY <1>11, <1>19, <2>2 DEF P
  <2>4. D[n][<<i, j>>] \in 0..M /\ X[<<i, j>>] \in 0..M
    BY <1>7, <2>2
  <2>5. QED
    BY <2>3, <2>4
<1>21. D[n] = X
  BY <1>6, <1>20 DEF Matrices
<1>22. QED
  BY <1>1, <1>21
-----------------------------------------------------------------------------
(* A pass over a block.                                                    *)

\* g is between the matrices of steps s and e, and at step v in some cells.
Between(D, s, e, n, g) ==
  \A i, j \in 0..(n - 1) : D[e][<<i, j>>] <= g[<<i, j>>] /\ g[<<i, j>>] <= D[s][<<i, j>>]
Reached(D, v, is, js, g) == \A i \in is, j \in js : g[<<i, j>>] <= D[v][<<i, j>>]

\* A pass through vertex v takes the cells of a block from step v to v + 1 if
\* its operands are at step v, and no cell beyond the end of the round.
LEMMA PassIs ==
  ASSUME NEW n \in Nat, NEW M \in Nat, NEW w, NEW D, IsSteps(D, w, n, M),
         NEW s \in 0..n, NEW e \in 0..n, NEW v \in s..(e - 1), NEW g \in Matrices(n, M),
         Between(D, s, e, n, g),
         NEW is \in SUBSET (0..(n - 1)), NEW js \in SUBSET (0..(n - 1)),
         Reached(D, v, is, js, g), Reached(D, v, is, {v}, g), Reached(D, v, {v}, js, g),
         NEW h, h = Relax(g, is \X js, v)
  PROVE  /\ h \in Matrices(n, M) /\ Between(D, s, e, n, h) /\ Reached(D, v + 1, is, js, h)
         /\ \A i, j \in 0..(n - 1) : h[<<i, j>>] <= g[<<i, j>>]
<1>1. v \in 0..(n - 1) /\ v \in 0..n /\ e \in 0..n /\ s \in 0..n /\ v \in 0..(e - 1)
  OBVIOUS
<1>2. h \in Matrices(n, M) /\ \A i, j \in 0..(n - 1) :
        h[<<i, j>>] = IF <<i, j>> \in is \X js THEN Lesser(g[<<i, j>>], g[<<i, v>>] + g[<<v, j>>])
                      ELSE g[<<i, j>>]
  BY <1>1, RelaxIs
<1>3. \A i, j \in 0..(n - 1) : g[<<i, j>>] \in Nat
  BY DEF Matrices, Cells
<1>4. ASSUME NEW u \in 0..n, NEW i \in 0..(n - 1), NEW j \in 0..(n - 1)
      PROVE  D[u][<<i, j>>] \in Nat
  <2>1. D[u][<<i, j>>] \in 0..M
    BY StepsTypes
  <2>2. QED
    BY <2>1
<1>5. ASSUME NEW i \in 0..(n - 1), NEW j \in 0..(n - 1)
      PROVE  /\ D[e][<<i, j>>] <= h[<<i, j>>] /\ h[<<i, j>>] <= g[<<i, j>>]
             /\ h[<<i, j>>] <= D[s][<<i, j>>]
  <2> PICK a, b, c, x, y, z, o :
        /\ a = g[<<i, j>>] /\ b = g[<<i, v>>] /\ c = g[<<v, j>>]
        /\ x = D[e][<<i, j>>] /\ y = D[e][<<i, v>>] /\ z = D[e][<<v, j>>] /\ o = D[s][<<i, j>>]
    OBVIOUS
  <2>1. /\ a \in Nat /\ b \in Nat /\ c \in Nat
        /\ x \in Nat /\ y \in Nat /\ z \in Nat /\ o \in Nat
    BY <1>1, <1>3, <1>4
  <2>2. x <= y + z
    BY <1>1, Detour
  <2>3. x <= a /\ y <= b /\ z <= c /\ a <= o
    BY <1>1 DEF Between
  <2>4. h[<<i, j>>] = IF <<i, j>> \in is \X js THEN Lesser(a, b + c) ELSE a
    BY <1>2
  <2>5. Lesser(a, b + c) \in Nat /\ Lesser(a, b + c) <= a /\ x <= Lesser(a, b + c)
    BY ONLY <2>1, <2>2, <2>3 DEF Lesser
  <2>6. h[<<i, j>>] \in Nat /\ x <= h[<<i, j>>] /\ h[<<i, j>>] <= a
    BY <2>1, <2>3, <2>4, <2>5
  <2>7. QED
    BY <2>1, <2>3, <2>6
<1>6. Between(D, s, e, n, h) /\ \A i, j \in 0..(n - 1) : h[<<i, j>>] <= g[<<i, j>>]
  BY <1>5 DEF Between
<1>7. ASSUME NEW i \in is, NEW j \in js PROVE h[<<i, j>>] <= D[v + 1][<<i, j>>]
  <2> PICK a, b, c, x, y, z :
        /\ a = g[<<i, j>>] /\ b = g[<<i, v>>] /\ c = g[<<v, j>>]
        /\ x = D[v][<<i, j>>] /\ y = D[v][<<i, v>>] /\ z = D[v][<<v, j>>]
    OBVIOUS
  <2>1. i \in 0..(n - 1) /\ j \in 0..(n - 1) /\ <<i, j>> \in is \X js
    OBVIOUS
  <2>2. /\ a \in Nat /\ b \in Nat /\ c \in Nat
        /\ x \in Nat /\ y \in Nat /\ z \in Nat
    BY <1>1, <1>3, <1>4, <2>1
  <2>3. h[<<i, j>>] = Lesser(a, b + c)
    BY <1>2, <2>1
  <2>4. D[v + 1][<<i, j>>] = Lesser(x, y + z)
    BY <1>1, <2>1 DEF IsSteps
  <2>5. a <= x /\ b <= y /\ c <= z
    BY DEF Reached
  <2>6. Lesser(a, b + c) <= Lesser(x, y + z)
    BY ONLY <2>2, <2>5 DEF Lesser
  <2>7. QED
    BY <2>3, <2>4, <2>6
<1>8. QED
  BY <1>2, <1>6, <1>7 DEF Reached

\* What has been reached stays so when no entry grows.
LEMMA ReachedStays ==
  ASSUME NEW n \in Nat, NEW M \in Nat, NEW w, NEW D, IsSteps(D, w, n, M), NEW g \in Matrices(n, M),
         NEW h \in Matrices(n, M), \A i, j \in 0..(n - 1) : h[<<i, j>>] <= g[<<i, j>>],
         NEW x \in 0..n, NEW y \in 0..x,
         NEW is \in SUBSET (0..(n - 1)), NEW js \in SUBSET (0..(n - 1)), Reached(D, x, is, js, g)
  PROVE  Reached(D, y, is, js, h)
<1>1. ASSUME NEW i \in is, NEW j \in js PROVE h[<<i, j>>] <= D[y][<<i, j>>]
  <2>1. i \in 0..(n - 1) /\ j \in 0..(n - 1) /\ y \in 0..n /\ x \in y..n
    OBVIOUS
  <2>2. D[x][<<i, j>>] <= D[y][<<i, j>>]
    BY <2>1, StepsDecrease
  <2>3. D[x][<<i, j>>] \in 0..M /\ D[y][<<i, j>>] \in 0..M
    BY <2>1, StepsTypes
  <2>4. h[<<i, j>>] \in 0..M /\ g[<<i, j>>] \in 0..M
    BY <2>1 DEF Matrices, Cells
  <2>5. h[<<i, j>>] <= g[<<i, j>>] /\ g[<<i, j>>] <= D[x][<<i, j>>]
    BY <2>1 DEF Reached
  <2>6. QED
    BY <2>2, <2>3, <2>4, <2>5
<1>2. QED
  BY <1>1 DEF Reached
=============================================================================
