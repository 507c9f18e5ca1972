---------------------------- MODULE PixelProofs ----------------------------
(***************************************************************************)
(* Proofs about the programs that compute pixels.  Whatever the order of   *)
(* the pairs in a register and whatever the arithmetic, the picture of the *)
(* vectorised Mandelbrot programs is that of the sequential one at every   *)
(* steady point, and in exact arithmetic every point is steady.  Whatever  *)
(* the order of its blocks and warps, a kernel of lab4 or lab5 stores at   *)
(* every pixel what the masks give there; of lab5.cu only the last tile of *)
(* each block, where it is neither one row nor one column.  And whatever   *)
(* the order of its members, a team of lab1 or lab3 counts the points      *)
(* within the circle, when the doubles it computes in are fine enough.     *)
(***************************************************************************)
EXTENDS CirclePixels, Sobel, Mandelbrot, Lemmas
-----------------------------------------------------------------------------
(* Mandelbrot: the loop over a point, and what a program paints.           *)

\* What the loop of core_cal, or else that of core_cal_sse2_sig, makes of z
NextOf(program, z, c) ==
  IF program = "core_cal" THEN IF Goes(z) THEN Turn(z, c) ELSE z ELSE Turn_sse2(z, c, 0)

\* g goes through the first N turns.
IsUnrolled(g, N, program, c) ==
  g = [k \in 0..N |-> IF k = 0 THEN Start ELSE NextOf(program, g[k - 1], c)]

\* A loop may be unrolled, whatever NextOf makes of what it holds.
LEMMA LoopUnrolls ==
  ASSUME NEW N \in Nat, NEW program, NEW c
  PROVE  \E g : IsUnrolled(g, N, program, c)
<1> DEFINE F(g, n) == [k \in 0..n |-> IF k = 0 THEN Start ELSE NextOf(program, g[k - 1], c)]
           T == {n \in 0..N : \E g : g = F(g, n)}
<1>1. 0 \in T
  <2> DEFINE g == [k \in 0..0 |-> Start]
  <2>1. g = F(g, 0)
    OBVIOUS
  <2> HIDE DEF g, F
  <2>2. QED
    BY <2>1
<1>2. ASSUME NEW n \in 0..(N - 1), n \in T PROVE n + 1 \in T
  <2> PICK g : g = F(g, n)
    BY <1>2
  <2> DEFINE h == F(g, n + 1)
  <2> HIDE DEF NextOf
  <2>1. \A k \in 0..n : h[k] = g[k]
    <3>1. \A k \in 0..n : k \in 0..(n + 1)
      OBVIOUS
    <3>2. \A k \in 0..n : g[k] = IF k = 0 THEN Start ELSE NextOf(program, g[k - 1], c)
      OBVIOUS
    <3>3. QED
      BY <3>1, <3>2
  <2>2. h = F(h, n + 1)
    <3>1. ASSUME NEW k \in 0..(n + 1), k # 0 PROVE h[k - 1] = g[k - 1]
      <4>1. k - 1 \in 0..n
        BY <3>1
      <4>2. QED
        BY <2>1, <4>1
    <3>2. QED
      BY <3>1
  <2> HIDE DEF h
  <2>3. QED
    BY <2>2
<1> HIDE DEF T
<1>3. N \in T
  BY <1>1, <1>2, UpTo
<1>4. QED
  BY <1>3 DEF T, IsUnrolled

\* l goes through the loop of core_cal over the point c,
IsLoop(l, c) ==
  /\ l[0] = Start
  /\ \A k \in 0..(view.iters - 1) : l[k + 1] = IF Goes(l[k]) THEN Turn(l[k], c) ELSE l[k]

\* and o through that of core_cal_sse2_sig, for as long as a register may take,
IsOrbit(o, c) ==
  /\ o[0] = Start
  /\ \A k \in 0..(2 * view.iters - 1) : o[k + 1] = Turn_sse2(o[k], c, 0)

\* which Steady says is the same one until it ends, and then outside.
SteadyOrbit(o, c) ==
  \A k \in 0..(2 * view.iters - 1) :
    IF Inside(o[k]) THEN Turn(o[k], c).y = o[k + 1].y ELSE ~Inside(o[k + 1])

\* Every point has its loop, and core_cal counts its turns.
LEMMA LoopExists ==
  ASSUME view.iters \in Nat, NEW c
  PROVE  \E l : IsLoop(l, c) /\ core_cal(c) = l[view.iters].repeats
<1> DEFINE N == view.iters
           Body(z) == IF Goes(z) THEN Turn(z, c) ELSE z
           Loop[k \in 0..N] ==
             IF k = 0 THEN Start
             ELSE IF Goes(Loop[k - 1]) THEN Turn(Loop[k - 1], c) ELSE Loop[k - 1]
<1>1. PICK g : g = [k \in 0..N |-> IF k = 0 THEN Start ELSE Body(g[k - 1])]
  <2>1. PICK g : IsUnrolled(g, N, "core_cal", c)
    BY LoopUnrolls
  <2>2. \A z : NextOf("core_cal", z, c) = Body(z)
    BY DEF NextOf
  <2> HIDE DEF Body
  <2>3. g = [k \in 0..N |-> IF k = 0 THEN Start ELSE Body(g[k - 1])]
    BY <2>1, <2>2 DEF IsUnrolled
  <2>4. QED
    BY <2>3
<1>2. Loop = [k \in 0..N |-> IF k = 0 THEN Start ELSE Body(Loop[k - 1])]
  BY <1>1, Zenon
<1>3. core_cal(c) = Loop[N].repeats
  BY DEF core_cal
<1> HIDE DEF Loop, Body
<1>4. Loop[0] = Start /\ \A k \in 0..(N - 1) : Loop[k + 1] = Body(Loop[k])
  <2>1. \A k \in 0..N : Loop[k] = IF k = 0 THEN Start ELSE Body(Loop[k - 1])
    BY <1>2, Zenon
  <2>2. 0 \in 0..N /\ \A k \in 0..(N - 1) : k + 1 \in 0..N /\ k + 1 # 0 /\ (k + 1) - 1 = k
    OBVIOUS
  <2>3. QED
    BY <2>1, <2>2, Zenon
<1>5. IsLoop(Loop, c)
  BY <1>4 DEF IsLoop, Body
<1>6. QED
  BY <1>3, <1>5

\* Every point has its orbit too, and Steady is about it.
LEMMA OrbitExists ==
  ASSUME view.iters \in Nat, NEW c
  PROVE  \E o : IsOrbit(o, c) /\ (Steady(c) <=> SteadyOrbit(o, c))
<1> DEFINE N == 2 * view.iters
           orbit[k \in 0..N] == IF k = 0 THEN Start ELSE Turn_sse2(orbit[k - 1], c, 0)
<1>1. PICK g : g = [k \in 0..N |-> IF k = 0 THEN Start ELSE Turn_sse2(g[k - 1], c, 0)]
  <2>1. N \in Nat
    OBVIOUS
  <2>2. PICK g : IsUnrolled(g, N, "core_cal_sse2_sig", c)
    BY <2>1, LoopUnrolls
  <2>3. \A z : NextOf("core_cal_sse2_sig", z, c) = Turn_sse2(z, c, 0)
    BY DEF NextOf
  <2>4. g = [k \in 0..N |-> IF k = 0 THEN Start ELSE Turn_sse2(g[k - 1], c, 0)]
    BY <2>2, <2>3 DEF IsUnrolled
  <2>5. QED
    BY <2>4
<1>2. orbit = [k \in 0..N |-> IF k = 0 THEN Start ELSE Turn_sse2(orbit[k - 1], c, 0)]
  BY <1>1, Zenon
<1>3. Steady(c) <=> \A k \in 1..N :
                      IF Inside(orbit[k - 1]) THEN Turn(orbit[k - 1], c).y = orbit[k].y
                      ELSE ~Inside(orbit[k])
  BY Zenon DEF Steady
<1> HIDE DEF orbit
<1>4. /\ 0 \in 0..N
      /\ \A k \in 0..(N - 1) : k + 1 \in 0..N /\ k + 1 \in 1..N /\ k + 1 # 0 /\ (k + 1) - 1 = k
      /\ \A k \in 1..N : k - 1 \in 0..(N - 1) /\ (k - 1) + 1 = k
  OBVIOUS
<1>5. IsOrbit(orbit, c)
  <2>1. \A k \in 0..N : orbit[k] = IF k = 0 THEN Start ELSE Turn_sse2(orbit[k - 1], c, 0)
    BY <1>2, Zenon
  <2>2. orbit[0] = Start /\ \A k \in 0..(N - 1) : orbit[k + 1] = Turn_sse2(orbit[k], c, 0)
    BY <1>4, <2>1, Zenon
  <2>3. QED
    BY <2>2 DEF IsOrbit
<1>6. Steady(c) => SteadyOrbit(orbit, c)
  <2>1. SUFFICES ASSUME Steady(c), NEW k \in 0..(N - 1)
                 PROVE  IF Inside(orbit[k]) THEN Turn(orbit[k], c).y = orbit[k + 1].y
                        ELSE ~Inside(orbit[k + 1])
    BY DEF SteadyOrbit
  <2>2. k + 1 \in 1..N /\ (k + 1) - 1 = k
    BY <1>4
  <2>3. QED
    BY <1>3, <2>1, <2>2, Zenon
<1>7. SteadyOrbit(orbit, c) => Steady(c)
  <2>1. SUFFICES ASSUME SteadyOrbit(orbit, c), NEW k \in 1..N
                 PROVE  IF Inside(orbit[k - 1]) THEN Turn(orbit[k - 1], c).y = orbit[k].y
                        ELSE ~Inside(orbit[k])
    BY <1>3, Zenon
  <2>2. k - 1 \in 0..(N - 1) /\ (k - 1) + 1 = k
    BY <1>4
  <2>3. \A j \in 0..(N - 1) : IF Inside(orbit[j]) THEN Turn(orbit[j], c).y = orbit[j + 1].y
                               ELSE ~Inside(orbit[j + 1])
    BY <2>1 DEF SteadyOrbit
  <2>4. QED
    BY <2>2, <2>3, Zenon
<1>8. QED
  BY <1>5, <1>6, <1>7

\* Once the loop ends it stays.
LEMMA LoopStays ==
  ASSUME view.iters \in Nat, NEW l, NEW c, IsLoop(l, c), NEW k \in 0..view.iters, ~Goes(l[k])
  PROVE  l[view.iters] = l[k]
<1> DEFINE T == {d \in 0..(view.iters - k) : l[k + d] = l[k]}
<1>1. 0 \in T
  OBVIOUS
<1>2. ASSUME NEW d \in 0..((view.iters - k) - 1), d \in T PROVE d + 1 \in T
  <2>1. k + d \in 0..(view.iters - 1) /\ (k + d) + 1 = k + (d + 1)
    OBVIOUS
  <2>2. l[(k + d) + 1] = l[k + d]
    BY <1>2, <2>1 DEF IsLoop
  <2>3. QED
    BY <1>2, <2>1, <2>2
<1> HIDE DEF T
<1>3. view.iters - k \in Nat
  OBVIOUS
<1>4. \A d \in 0..(view.iters - k) : d \in T
  BY <1>1, <1>2, <1>3, UpTo
<1>5. view.iters - k \in T /\ k + (view.iters - k) = view.iters
  BY <1>3, <1>4
<1>6. QED
  BY <1>5 DEF T

\* Half a register z over a steady point, after i turns: it is where the orbit is,
\* and where the loop of core_cal is or, done, has its repeats, whatever the
\* other half does.
Follows(z, l, o, i) ==
  /\ z.x = o[i].x /\ z.y = o[i].y /\ z.length_squared = o[i].length_squared
  /\ Goes(z) => z = l[i] /\ z.repeats = i
  /\ ~Goes(z) => z.repeats = l[view.iters].repeats

\* What it does not tell apart
LEMMA SameTurns ==
  ASSUME NEW z, NEW w, NEW c, z.x = w.x, z.y = w.y, z.length_squared = w.length_squared
  PROVE  /\ Inside(z) <=> Inside(w)
         /\ Turn(z, c).y = Turn(w, c).y
         /\ \A m, n : /\ Turn_sse2(z, c, m).x = Turn_sse2(w, c, n).x
                      /\ Turn_sse2(z, c, m).y = Turn_sse2(w, c, n).y
                      /\ Turn_sse2(z, c, m).length_squared = Turn_sse2(w, c, n).length_squared
BY DEF Inside, Turn, Turn_sse2, Moved

\* The two loops go to the same point where they agree on y.
LEMMA SamePoint ==
  ASSUME NEW z, NEW c, Turn(z, c).y = Turn_sse2(z, c, 1).y
  PROVE  Turn_sse2(z, c, 1) = Turn(z, c)
BY DEF Turn, Turn_sse2, Moved

\* A fresh lane stands at the start of both.
LEMMA StartsInLoop ==
  ASSUME view.iters \in Nat, NEW c, NEW l, NEW o, IsLoop(l, c), IsOrbit(o, c)
  PROVE  Follows(Start, l, o, 0)
<1>1. Start.repeats = 0 /\ l[0] = Start /\ o[0] = Start
  BY DEF Start, IsLoop, IsOrbit
<1>2. ~Goes(Start) => l[view.iters] = Start
  BY <1>1, LoopStays
<1>3. QED
  BY <1>1, <1>2 DEF Follows

\* A turn in a register is a turn of the loop, or comes after its end.
LEMMA TurnsInLoop ==
  ASSUME view.iters \in Nat, NEW c, NEW l, NEW o, NEW i \in 0..(2 * view.iters - 1),
         IsLoop(l, c), IsOrbit(o, c), SteadyOrbit(o, c),
         NEW z, z.repeats \in 0..view.iters, Follows(z, l, o, i)
  PROVE  Follows(Turn_sse2(z, c, IF Goes(z) THEN 1 ELSE 0), l, o, i + 1)
<1>1. o[i + 1] = Turn_sse2(o[i], c, 0) /\ (Inside(z) <=> Inside(o[i]))
      /\ Turn(z, c).y = Turn(o[i], c).y
  <2>1. o[i + 1] = Turn_sse2(o[i], c, 0)
    BY DEF IsOrbit
  <2>2. z.x = o[i].x /\ z.y = o[i].y /\ z.length_squared = o[i].length_squared
    BY DEF Follows
  <2>3. (Inside(z) <=> Inside(o[i])) /\ Turn(z, c).y = Turn(o[i], c).y
    BY ONLY <2>2, SameTurns
  <2>4. QED
    BY <2>1, <2>3
<1>2. ASSUME NEW n
      PROVE  /\ Turn_sse2(z, c, n).x = o[i + 1].x /\ Turn_sse2(z, c, n).y = o[i + 1].y
             /\ Turn_sse2(z, c, n).length_squared = o[i + 1].length_squared
             /\ Turn_sse2(z, c, n).repeats = z.repeats + n
  <2>1. Turn_sse2(z, c, n).repeats = z.repeats + n
    BY DEF Turn_sse2, Moved
  <2>2. QED
    BY <1>1, <2>1, SameTurns DEF Follows
<1>3. CASE Goes(z)
  <2>1. z = l[i] /\ z.repeats = i /\ i \in 0..(view.iters - 1) /\ Inside(z)
    BY <1>3 DEF Follows, Goes
  <2> PICK u : u = Turn_sse2(z, c, 1)
    OBVIOUS
  <2>2. Turn(z, c).y = u.y
    <3>1. Turn(o[i], c).y = o[i + 1].y
      BY <1>1, <2>1 DEF SteadyOrbit
    <3>2. QED
      BY <1>1, <1>2, <3>1
  <2>3. u = Turn(z, c)
    BY <2>2, SamePoint
  <2>4. l[i + 1] = u
    <3>1. l[i + 1] = IF Goes(l[i]) THEN Turn(l[i], c) ELSE l[i]
      BY <2>1 DEF IsLoop
    <3>2. QED
      BY <1>3, <2>1, <2>3, <3>1
  <2>5. ~Goes(u) => l[view.iters] = u
    BY <2>1, <2>4, LoopStays
  <2>6. u.repeats = i + 1
    BY <1>2, <2>1
  <2>7. QED
    BY <1>2, <1>3, <2>4, <2>5, <2>6 DEF Follows
<1>4. CASE ~Goes(z)
  <2> PICK u : u = Turn_sse2(z, c, 0)
    OBVIOUS
  <2>1. u.repeats = z.repeats
    BY <1>2
  <2>2. ~Goes(u)
    <3>1. CASE z.repeats < view.iters
      <4>1. ~Inside(o[i])
        BY <1>1, <1>4, <3>1 DEF Goes
      <4>2. ~Inside(o[i + 1])
        BY <4>1 DEF SteadyOrbit
      <4>3. Inside(u) <=> Inside(o[i + 1])
        <5>1. /\ u.x = o[i + 1].x /\ u.y = o[i + 1].y
              /\ u.length_squared = o[i + 1].length_squared
          BY <1>2
        <5>2. QED
          BY <5>1, SameTurns, Zenon
      <4>4. QED
        BY <4>2, <4>3 DEF Goes
    <3>2. CASE ~(z.repeats < view.iters)
      BY <2>1, <3>2 DEF Goes
    <3>3. QED
      BY <3>1, <3>2
  <2>3. QED
    BY <1>2, <1>4, <2>1, <2>2 DEF Follows
<1>5. QED
  BY <1>3, <1>4
-----------------------------------------------------------------------------
\* What the assumption on the views gives
LEMMA ViewIs ==
  ASSUME view \in Views
  PROVE  /\ view.width \in Nat \ {0} /\ view.height \in Nat \ {0} /\ view.iters \in Nat
         /\ area \in Nat \ {0} /\ area = view.width * view.height
<1>1. \A a, b \in Nat \ {0} : a * b \in Nat \ {0}
  OBVIOUS
<1>2. QED
  BY <1>1, ViewAssumption DEF area

\* A place is a row and a column.
LEMMA RowAndColumn ==
  ASSUME NEW b \in Nat \ {0}, NEW d \in Nat \ {0}, NEW p \in 0..(b * d - 1)
  PROVE  /\ p \div b \in 0..(d - 1) /\ p % b \in 0..(b - 1)
         /\ p = (p \div b) * b + (p % b)
<1> PICK q \in Nat, r \in 0..(b - 1) : q = p \div b /\ r = p % b /\ p = b * q + r
  <2>1. b * d \in Nat /\ p \in Nat
    OBVIOUS
  <2>2. QED
    BY <2>1, DivMod
<1>1. q < d
  <2>1. SUFFICES ASSUME q >= d PROVE FALSE
    OBVIOUS
  <2>2. b * d <= b * q
    BY <2>1, TimesMonotone
  <2>3. b * q \in Nat /\ b * d \in Nat
    OBVIOUS
  <2>4. QED
    BY <2>2, <2>3
<1>2. b * q = q * b
  OBVIOUS
<1>3. QED
  BY <1>1, <1>2

\* and a row and a column are a place.
LEMMA FromRowAndColumn ==
  ASSUME NEW b \in Nat \ {0}, NEW d \in Nat \ {0}, NEW q \in 0..(d - 1), NEW r \in 0..(b - 1)
  PROVE  /\ q * b + r \in 0..(b * d - 1)
         /\ (q * b + r) \div b = q /\ (q * b + r) % b = r
<1> PICK p \in Nat : p = q * b + r
  OBVIOUS
<1>1. p < b * d
  <2>1. b * (q + 1) <= b * d
    BY TimesMonotone
  <2>2. b * (q + 1) = q * b + b /\ q * b \in Nat /\ b * d \in Nat
    OBVIOUS
  <2>3. QED
    BY <2>1, <2>2
<1> PICK e \in Nat, s \in 0..(b - 1) : e = p \div b /\ s = p % b /\ p = b * e + s
  BY DivMod
<1>2. e = q
  <2>1. CASE e < q
    <3>1. b * (e + 1) <= b * q
      BY <2>1, TimesMonotone
    <3>2. b * (e + 1) = b * e + b /\ b * q = q * b /\ b * e \in Nat /\ b * q \in Nat
      OBVIOUS
    <3>3. QED
      BY <3>1, <3>2
  <2>2. CASE q < e
    <3>1. b * (q + 1) <= b * e
      BY <2>2, TimesMonotone
    <3>2. b * (q + 1) = q * b + b /\ q * b \in Nat /\ b * e \in Nat
      OBVIOUS
    <3>3. QED
      BY <3>1, <3>2
  <2>3. QED
    BY <2>1, <2>2
<1>3. s = r
  <2>1. b * e = q * b /\ q * b \in Nat
    BY <1>2
  <2>2. QED
    BY <2>1
<1>4. b * d \in Nat
  OBVIOUS
<1>5. QED
  BY <1>1, <1>2, <1>3, <1>4

\* The same without a bound on the row
LEMMA DivOfSum ==
  ASSUME NEW b \in Nat \ {0}, NEW q \in Nat, NEW r \in 0..(b - 1)
  PROVE  (q * b + r) \div b = q /\ (q * b + r) % b = r
<1> PICK d : d = q + 1
  BY Zenon
<1>1. d \in Nat \ {0} /\ q \in 0..(d - 1)
  OBVIOUS
<1>2. QED
  BY ONLY <1>1, b \in Nat \ {0}, r \in 0..(b - 1), FromRowAndColumn

\* Every place of the picture belongs to a pixel.
LEMMA PositionIsOnto ==
  ASSUME view \in Views, NEW at \in Places
  PROVE  \E p \in Places : Position(p) = at
<1> PICK b \in Nat \ {0}, d \in Nat \ {0} : b = view.width /\ d = view.height /\ area = b * d
  BY ViewIs
<1> PICK q \in 0..(d - 1), r \in 0..(b - 1) : at = q * b + r
  <2>1. at \in 0..(b * d - 1)
    BY DEF Places
  <2>2. QED
    BY ONLY <2>1, b \in Nat \ {0}, d \in Nat \ {0}, RowAndColumn
<1> PICK e \in 0..(d - 1) : e = d - 1 - q
  BY ONLY d \in Nat \ {0}, q \in 0..(d - 1)
<1>1. e * b + r \in Places /\ (e * b + r) \div b = e /\ (e * b + r) % b = r
  <2>1. e * b + r \in 0..(b * d - 1) /\ (e * b + r) \div b = e /\ (e * b + r) % b = r
    BY ONLY b \in Nat \ {0}, d \in Nat \ {0}, e \in 0..(d - 1), r \in 0..(b - 1), FromRowAndColumn
  <2>2. QED
    BY <2>1 DEF Places
<1>2. d - 1 - e = q
  BY ONLY d \in Nat \ {0}, q \in 0..(d - 1), e = d - 1 - q
<1>3. Position(e * b + r) = q * b + r
  BY <1>1, <1>2 DEF Position
<1>4. QED
  BY <1>1, <1>3
-----------------------------------------------------------------------------
\* Half a register after i turns, on its way to the sequential program's number
Computes(z, c, i) ==
  /\ z.repeats \in 0..view.iters
  /\ Steady(c) => \E l, o : /\ IsLoop(l, c) /\ core_cal(c) = l[view.iters].repeats
                           /\ IsOrbit(o, c) /\ SteadyOrbit(o, c) /\ Follows(z, l, o, i)

\* A lane that computes a point: at its start, after a turn and at its end
LEMMA Begins ==
  ASSUME view.iters \in Nat, NEW c
  PROVE  Computes(Start, c, 0)
<1>1. Start.repeats \in 0..view.iters
  BY DEF Start
<1>2. ASSUME Steady(c)
      PROVE  \E l, o : /\ IsLoop(l, c) /\ core_cal(c) = l[view.iters].repeats
                      /\ IsOrbit(o, c) /\ SteadyOrbit(o, c) /\ Follows(Start, l, o, 0)
  <2>1. PICK l : IsLoop(l, c) /\ core_cal(c) = l[view.iters].repeats
    BY LoopExists
  <2>2. PICK o : IsOrbit(o, c) /\ SteadyOrbit(o, c)
    BY <1>2, OrbitExists
  <2>3. Follows(Start, l, o, 0)
    BY <2>1, <2>2, StartsInLoop
  <2>4. QED
    BY <2>1, <2>2, <2>3, Zenon
<1>3. QED
  BY <1>1, <1>2, Zenon DEF Computes

\* A turn more, or a wait at the end, and what it holds is still of the loop.
LEMMA GoesOn ==
  ASSUME view.iters \in Nat, NEW c, NEW i \in 0..(2 * view.iters - 1), NEW z, Computes(z, c, i)
  PROVE  /\ Computes(Turn_sse2(z, c, IF Goes(z) THEN 1 ELSE 0), c, i + 1)
         /\ Turn_sse2(z, c, IF Goes(z) THEN 1 ELSE 0).repeats
              = z.repeats + (IF Goes(z) THEN 1 ELSE 0)
<1> DEFINE u == Turn_sse2(z, c, IF Goes(z) THEN 1 ELSE 0)
<1>1. z.repeats \in 0..view.iters
  BY DEF Computes
<1>2. u.repeats = z.repeats + (IF Goes(z) THEN 1 ELSE 0)
  BY DEF Turn_sse2, Moved
<1>3. u.repeats \in 0..view.iters
  BY <1>1, <1>2 DEF Goes
<1>4. ASSUME Steady(c)
      PROVE  \E l, o : /\ IsLoop(l, c) /\ core_cal(c) = l[view.iters].repeats
                      /\ IsOrbit(o, c) /\ SteadyOrbit(o, c) /\ Follows(u, l, o, i + 1)
  <2>1. PICK l, o : /\ IsLoop(l, c) /\ core_cal(c) = l[view.iters].repeats
                    /\ IsOrbit(o, c) /\ SteadyOrbit(o, c) /\ Follows(z, l, o, i)
    BY <1>4 DEF Computes
  <2>2. Follows(u, l, o, i + 1)
    BY <1>1, <2>1, TurnsInLoop
  <2> HIDE DEF u
  <2>3. QED
    BY <2>1, <2>2, Zenon
<1>5. Computes(u, c, i + 1)
  <2> HIDE DEF u
  <2>1. QED
    BY <1>3, <1>4, Zenon DEF Computes
<1>6. QED
  BY <1>2, <1>5

\* At the end it has the count of core_cal.
LEMMA Ends ==
  ASSUME NEW c, NEW z, NEW i, Computes(z, c, i), ~Goes(z), Steady(c)
  PROVE  z.repeats = core_cal(c)
<1>1. PICK l, o : /\ IsLoop(l, c) /\ core_cal(c) = l[view.iters].repeats
                  /\ IsOrbit(o, c) /\ SteadyOrbit(o, c) /\ Follows(z, l, o, i)
  BY DEF Computes
<1>2. QED
  BY <1>1 DEF Follows

\* What AsSequential leaves aside
Excused(p) ==
  \/ Alone(p) /\ drawing.stored = "pair"
  \/ ~Alone(p) /\ ~Steady(Point(p))

Paired(ps) == ps \in Places /\ ps + 1 \in Places /\ ~Alone(ps) /\ ~Alone(ps + 1)

\* While one half goes on no more turns were taken than the two halves count.
LanesOf(ps) ==
  /\ Paired(ps)
  /\ ps \in DOMAIN coordinates /\ ps + 1 \in DOMAIN coordinates
  /\ \E i \in 0..(2 * view.iters) :
       /\ i <= lanes[ps][1].repeats + lanes[ps][2].repeats
       /\ \A k \in 1..2 : Computes(lanes[ps][k], Point(ps + k - 1), i)

MandelbrotInv ==
  /\ view \in Views
  /\ \A p \in DOMAIN coordinates : p \in Places /\ coordinates[p] = Point(p)
  /\ drawing.stored # "pair" => DOMAIN coordinates = Places
  /\ \A ps \in pairs : Paired(ps)
  /\ \A ps \in DOMAIN lanes : LanesOf(ps)
  /\ \A p \in DOMAIN image : p \in Places /\ (image[p] = core_cal(Point(p)) \/ Excused(p))
  /\ AsSequential

\* The invariant holds at the start.
LEMMA MandelbrotBegins ==
  MandelbrotInit => MandelbrotInv
<1> SUFFICES ASSUME MandelbrotInit PROVE MandelbrotInv
  OBVIOUS
<1> USE DEF MandelbrotInit
<1>1. DOMAIN Nothing = {}
  BY DEF Nothing
<1>2. \A p \in DOMAIN coordinates : p \in Places /\ coordinates[p] = Point(p)
  <2>1. CASE drawing.stored = "before"
    BY <2>1
  <2>2. CASE drawing.stored # "before"
    BY <1>1, <2>2
  <2>3. QED
    BY <2>1, <2>2
<1>3. drawing.stored # "pair" => DOMAIN coordinates = Places
  <2>1. drawing.stored \in {"before", "pair"}
    BY DEF Drawings, hw2a, hw2b, hw2a_t, hw2b_t, pass_all, one_ver
  <2>2. QED
    BY <2>1
<1>4. \A ps \in pairs : Paired(ps)
  <2>1. SUFFICES ASSUME NEW ps \in pairs PROVE Paired(ps)
    OBVIOUS
  <2>2. area \in Nat \ {0} /\ ps \in 0..(area - 1) /\ ps + 1 < area /\ ps % 2 = 0
    BY ViewIs DEF Places
  <2>3. ~Alone(ps) /\ ~Alone(ps + 1)
    BY <2>2 DEF Alone, Odd
  <2>4. QED
    BY <2>2, <2>3 DEF Paired, Places
<1>5. AsSequential
  BY <1>1 DEF AsSequential
<1>6. QED
  BY <1>1, <1>2, <1>3, <1>4, <1>5 DEF MandelbrotInv

\* What Store makes of two functions
LEMMA StoreIs ==
  ASSUME NEW f, NEW g
  PROVE  /\ DOMAIN Store(f, g) = DOMAIN f \cup DOMAIN g
         /\ \A p \in DOMAIN g : Store(f, g)[p] = g[p]
         /\ \A p \in DOMAIN f \ DOMAIN g : Store(f, g)[p] = f[p]
BY DEF Store

\* What a step leaves alone
LEMMA SameView ==
  ASSUME view' = view, drawing' = drawing
  PROVE  /\ Places' = Places /\ area' = area
         /\ \A p : Point(p)' = Point(p) /\ core_cal(p)' = core_cal(p) /\ Excused(p)' = Excused(p)
         /\ \A p : Paired(p)' = Paired(p)
         /\ \A z, c, i : Computes(z, c, i)' = Computes(z, c, i)
         /\ SequentialPicture' = SequentialPicture /\ \A p : PixelAt(p)' = PixelAt(p)
         /\ png' = png => AsSequential' = AsSequential
<1>1. Places' = Places /\ area' = area
  BY DEF Places, area
<1>2. \A p : Point(p)' = Point(p) /\ core_cal(p)' = core_cal(p)
  BY DEF Point, core_cal, Goes, Inside, Turn, Moved
<1>3. /\ \A p : Alone(p)' = Alone(p)
      /\ \A p : Paired(p)' = Paired(p)
  BY <1>1 DEF Paired, Alone, Odd
<1>4. \A c : Steady(c)' = Steady(c)
  BY DEF Steady, Inside, Turn, Turn_sse2, Moved
<1>5. \A p : Excused(p)' = Excused(p)
  BY <1>2, <1>3, <1>4 DEF Excused
<1>6. \A z, c, i : Computes(z, c, i)' = Computes(z, c, i)
  <2>1. /\ \A l, c : IsLoop(l, c)' = IsLoop(l, c)
        /\ \A o, c : IsOrbit(o, c)' = IsOrbit(o, c)
        /\ \A o, c : SteadyOrbit(o, c)' = SteadyOrbit(o, c)
        /\ \A z, l, o, i : Follows(z, l, o, i)' = Follows(z, l, o, i)
    BY DEF IsLoop, IsOrbit, SteadyOrbit, Follows, Goes, Inside, Turn, Turn_sse2, Moved
  <2>2. SUFFICES ASSUME NEW z, NEW c, NEW i PROVE Computes(z, c, i)' = Computes(z, c, i)
    OBVIOUS
  <2>3. \A l, o : /\ IsLoop(l, c)' = IsLoop(l, c) /\ IsOrbit(o, c)' = IsOrbit(o, c)
                 /\ SteadyOrbit(o, c)' = SteadyOrbit(o, c)
                 /\ Follows(z, l, o, i)' = Follows(z, l, o, i)
    BY <2>1
  <2>4. view' = view /\ core_cal(c)' = core_cal(c) /\ Steady(c)' = Steady(c)
    BY <1>2, <1>4
  <2>5. QED
    BY <2>3, <2>4 DEF Computes
<1>7. SequentialPicture' = SequentialPicture /\ \A p : PixelAt(p)' = PixelAt(p)
  BY DEF SequentialPicture, Painted, Places, area, Position, Colours, PixelAt, core_cal, Point,
         Goes, Inside, Turn, Moved
<1>8. ASSUME png' = png PROVE AsSequential' = AsSequential
  BY <1>2, <1>3, <1>4, <1>7, <1>8 DEF AsSequential
<1>9. QED
  BY <1>1, <1>2, <1>3, <1>5, <1>6, <1>7, <1>8

\* so that the pairs that are computed are as they were.
LEMMA LanesStay ==
  ASSUME MandelbrotInv, view' = view, drawing' = drawing, coordinates' = coordinates,
         \A q \in DOMAIN lanes' : q \in DOMAIN lanes /\ lanes'[q] = lanes[q]
  PROVE  \A q \in DOMAIN lanes' : LanesOf(q)'
<1>1. SUFFICES ASSUME NEW q \in DOMAIN lanes'
               PROVE  /\ Paired(q)'
                      /\ q \in DOMAIN coordinates' /\ q + 1 \in DOMAIN coordinates'
                      /\ \E i \in 0..(2 * view.iters) :
                           /\ i <= lanes'[q][1].repeats + lanes'[q][2].repeats
                           /\ \A k \in 1..2 : Computes(lanes[q][k], Point(q + k - 1), i)'
  BY Zenon DEF LanesOf
<1>2. \A z, p, i : Computes(z, Point(p), i)' = Computes(z, Point(p), i)
  BY SameView, Zenon
<1>3. \A p : Paired(p)' = Paired(p)
  BY SameView, Zenon
<1>4. LanesOf(q) /\ lanes'[q] = lanes[q]
  BY DEF MandelbrotInv
<1>5. PICK i \in 0..(2 * view.iters) :
        /\ i <= lanes'[q][1].repeats + lanes'[q][2].repeats
        /\ \A k \in 1..2 : Computes(lanes'[q][k], Point(q + k - 1), i)
  BY <1>4 DEF LanesOf
<1>6. \A k \in 1..2 : Computes(lanes[q][k], Point(q + k - 1), i)'
  <2>1. \A z, p : Computes(z, Point(p), i)' = Computes(z, Point(p), i)
    BY <1>2
  <2>2. QED
    BY <1>5, <2>1, Zenon
<1>7. Paired(q)' /\ q \in DOMAIN coordinates' /\ q + 1 \in DOMAIN coordinates'
  BY <1>3, <1>4 DEF LanesOf
<1>8. QED
  BY <1>5, <1>6, <1>7

\* Each action keeps the invariant: two points go into a register,
LEMMA LoadPairKeeps ==
  ASSUME MandelbrotInv, NEW ps \in Places, LoadPair(ps)
  PROVE  MandelbrotInv'
<1> USE DEF LoadPair
<1>1. /\ view' = view /\ drawing' = drawing /\ image' = image /\ png' = png
      /\ ps + 1 \in Places /\ ps \in Places /\ Paired(ps)
  BY DEF MandelbrotInv, Paired
<1>2. \A q \in {ps, ps + 1} : Pair(ps)[q] = Point(q) /\ DOMAIN Pair(ps) = {ps, ps + 1}
  BY DEF Pair
<1>3. /\ \A p \in DOMAIN coordinates' : p \in Places /\ coordinates'[p] = Point(p)
      /\ DOMAIN coordinates \subseteq DOMAIN coordinates'
      /\ ps \in DOMAIN coordinates' /\ ps + 1 \in DOMAIN coordinates'
  <2>1. CASE drawing.stored = "before"
    BY <1>1, <2>1 DEF MandelbrotInv
  <2>2. CASE drawing.stored # "before"
    <3>1. coordinates' = Store(coordinates, Pair(ps))
      BY <2>2
    <3>2. /\ DOMAIN coordinates' = DOMAIN coordinates \cup {ps, ps + 1}
          /\ \A q \in {ps, ps + 1} : coordinates'[q] = Point(q)
          /\ \A q \in DOMAIN coordinates \ {ps, ps + 1} : coordinates'[q] = coordinates[q]
      <4> DEFINE g == Pair(ps)
      <4> HIDE DEF g
      <4>1. /\ DOMAIN Store(coordinates, g) = DOMAIN coordinates \cup DOMAIN g
            /\ \A p \in DOMAIN g : Store(coordinates, g)[p] = g[p]
            /\ \A p \in DOMAIN coordinates \ DOMAIN g : Store(coordinates, g)[p] = coordinates[p]
        BY StoreIs
      <4>2. QED
        BY <1>2, <3>1, <4>1 DEF g
    <3>3. QED
      BY <1>1, <3>2 DEF MandelbrotInv
  <2>3. QED
    BY <2>1, <2>2
<1>4. drawing.stored # "pair" => DOMAIN coordinates' = Places
  BY <1>3 DEF MandelbrotInv
<1>5. \A p \in pairs' : Paired(p)
  BY DEF MandelbrotInv
<1>6. ASSUME NEW q \in DOMAIN lanes'
      PROVE  /\ Paired(q)
             /\ q \in DOMAIN coordinates' /\ q + 1 \in DOMAIN coordinates'
             /\ \E i \in 0..(2 * view.iters) :
                  /\ i <= lanes'[q][1].repeats + lanes'[q][2].repeats
                  /\ \A k \in 1..2 : Computes(lanes'[q][k], Point(q + k - 1), i)
  <2> DEFINE new == [p \in {ps} |-> <<Start, Start>>]
  <2>1. DOMAIN new = {ps} /\ new[ps] = <<Start, Start>> /\ lanes' = Store(lanes, new)
    OBVIOUS
  <2> HIDE DEF new
  <2>2. /\ DOMAIN lanes' = DOMAIN lanes \cup {ps} /\ lanes'[ps] = <<Start, Start>>
        /\ \A p \in DOMAIN lanes \ {ps} : lanes'[p] = lanes[p]
    <3>1. /\ DOMAIN lanes' = DOMAIN lanes \cup DOMAIN new
          /\ \A p \in DOMAIN new : lanes'[p] = new[p]
          /\ \A p \in DOMAIN lanes \ DOMAIN new : lanes'[p] = lanes[p]
      <4>1. /\ DOMAIN Store(lanes, new) = DOMAIN lanes \cup DOMAIN new
            /\ \A p \in DOMAIN new : Store(lanes, new)[p] = new[p]
            /\ \A p \in DOMAIN lanes \ DOMAIN new : Store(lanes, new)[p] = lanes[p]
        BY StoreIs
      <4>2. QED
        BY <2>1, <4>1
    <3>2. QED
      BY <2>1, <3>1
  <2>3. CASE q = ps
    <3>1. lanes'[q] = <<Start, Start>>
      BY <2>2, <2>3
    <3>2. view.iters \in Nat /\ 0 \in 0..(2 * view.iters)
      BY ViewIs DEF MandelbrotInv
    <3>3. \A k \in 1..2 : Computes(lanes'[q][k], Point(q + k - 1), 0)
      BY <3>1, <3>2, Begins
    <3>4. 0 <= lanes'[q][1].repeats + lanes'[q][2].repeats
      BY <3>1 DEF Start
    <3>5. QED
      BY <1>1, <1>3, <2>3, <3>2, <3>3, <3>4
  <2>4. CASE q # ps
    <3>1. q \in DOMAIN lanes /\ lanes'[q] = lanes[q]
      BY <2>2, <2>4
    <3>2. LanesOf(q)
      BY <3>1 DEF MandelbrotInv
    <3>3. QED
      BY <1>3, <3>1, <3>2 DEF LanesOf
  <2>5. QED
    BY <2>3, <2>4
<1>7. \A q \in DOMAIN lanes' : LanesOf(q)'
  <2>1. /\ \A z, p, i : Computes(z, Point(p), i)' = Computes(z, Point(p), i)
        /\ \A p : Paired(p)' = Paired(p)
    BY <1>1, SameView, Zenon
  <2>2. SUFFICES ASSUME NEW q \in DOMAIN lanes'
                 PROVE  /\ Paired(q)'
                        /\ q \in DOMAIN coordinates' /\ q + 1 \in DOMAIN coordinates'
                        /\ \E i \in 0..(2 * view.iters) :
                             /\ i <= lanes'[q][1].repeats + lanes'[q][2].repeats
                             /\ \A k \in 1..2 : Computes(lanes[q][k], Point(q + k - 1), i)'
    BY <1>1, Zenon DEF LanesOf
  <2>3. PICK i \in 0..(2 * view.iters) :
          /\ i <= lanes'[q][1].repeats + lanes'[q][2].repeats
          /\ \A k \in 1..2 : Computes(lanes'[q][k], Point(q + k - 1), i)
    BY <1>6
  <2>4. \A k \in 1..2 : Computes(lanes[q][k], Point(q + k - 1), i)'
    BY <2>1, <2>3, Zenon
  <2>5. QED
    BY <1>6, <2>1, <2>3, <2>4
<1>8. \A p \in DOMAIN image' : p \in Places' /\ (image'[p] = core_cal(Point(p))' \/ Excused(p)')
  <2>1. \A p \in DOMAIN image : p \in Places /\ (image[p] = core_cal(Point(p)) \/ Excused(p))
    BY DEF MandelbrotInv
  <2>2. \A p : core_cal(Point(p))' = core_cal(Point(p))
    BY <1>1, SameView, Zenon
  <2>3. QED
    BY <1>1, <2>1, <2>2, SameView
<1>9. view' \in Views' /\ AsSequential'
  BY <1>1, SameView DEF MandelbrotInv
<1>10. \A p : Paired(p)' = Paired(p) /\ Point(p)' = Point(p)
  BY <1>1, SameView, Zenon
<1>11. QED
  BY <1>1, <1>3, <1>4, <1>5, <1>7, <1>8, <1>9, <1>10, SameView DEF MandelbrotInv
-----------------------------------------------------------------------------
\* they iterate side by side,
LEMMA IterateKeeps ==
  ASSUME MandelbrotInv, NEW ps \in Places, Iterate(ps)
  PROVE  MandelbrotInv'
<1> USE DEF Iterate
<1>1. /\ view' = view /\ drawing' = drawing /\ image' = image /\ png' = png
      /\ coordinates' = coordinates /\ pairs' = pairs /\ DOMAIN lanes' = DOMAIN lanes
  OBVIOUS
<1>2. view.iters \in Nat
  BY ViewIs DEF MandelbrotInv
<1>3. ASSUME NEW q \in DOMAIN lanes
      PROVE  \E i \in 0..(2 * view.iters) :
               /\ i <= lanes'[q][1].repeats + lanes'[q][2].repeats
               /\ \A k \in 1..2 : Computes(lanes'[q][k], Point(q + k - 1), i)
  <2>1. PICK i \in 0..(2 * view.iters) :
          /\ i <= lanes[q][1].repeats + lanes[q][2].repeats
          /\ \A k \in 1..2 : Computes(lanes[q][k], Point(q + k - 1), i)
    BY DEF MandelbrotInv, LanesOf
  <2>2. CASE q # ps
    BY <2>1, <2>2
  <2>3. CASE q = ps
    <3>1. \A k \in 1..2 : lanes[q][k].repeats \in 0..view.iters
      BY <2>1 DEF Computes
    <3> PICK m \in 0..view.iters, n \in 0..view.iters :
          m = lanes[q][1].repeats /\ n = lanes[q][2].repeats
      BY <3>1
    <3>2. (Goes(lanes[q][1]) /\ m < view.iters) \/ (Goes(lanes[q][2]) /\ n < view.iters)
      <4>1. \E h \in 1..2 : Goes(lanes[q][h]) /\ lanes[q][h].repeats < view.iters
        BY <2>3 DEF Goes
      <4>2. QED
        BY <4>1
    <3>3. i \in 0..(2 * view.iters - 1) /\ i + 1 \in 0..(2 * view.iters)
      BY <1>2, <2>1, <3>2
    <3>4. ASSUME NEW k \in 1..2
          PROVE  lanes'[q][k] = Turn_sse2(lanes[q][k], Point(q + k - 1),
                                          IF Goes(lanes[q][k]) THEN 1 ELSE 0)
      <4>1. q + k - 1 \in DOMAIN coordinates
        <5>1. q \in Int /\ q \in DOMAIN coordinates /\ q + 1 \in DOMAIN coordinates
          BY DEF Places, Paired, MandelbrotInv, LanesOf
        <5>2. QED
          BY <5>1
      <4>2. coordinates[q + k - 1] = Point(q + k - 1)
        BY <4>1 DEF MandelbrotInv
      <4>3. QED
        BY <2>3, <4>2
    <3>5. ASSUME NEW k \in 1..2
          PROVE  /\ Computes(lanes'[q][k], Point(q + k - 1), i + 1)
                 /\ lanes'[q][k].repeats
                      = lanes[q][k].repeats + (IF Goes(lanes[q][k]) THEN 1 ELSE 0)
      BY <1>2, <2>1, <3>3, <3>4, GoesOn
    <3>6. i + 1 <= lanes'[q][1].repeats + lanes'[q][2].repeats
      <4>1. /\ lanes'[q][1].repeats = m + (IF Goes(lanes[q][1]) THEN 1 ELSE 0)
            /\ lanes'[q][2].repeats = n + (IF Goes(lanes[q][2]) THEN 1 ELSE 0)
        BY <3>5
      <4>2. QED
        BY <2>1, <3>2, <4>1
    <3>7. QED
      BY <3>3, <3>5, <3>6
  <2>4. QED
    BY <2>2, <2>3
<1>4. /\ \A p : core_cal(Point(p))' = core_cal(Point(p)) /\ Point(p)' = Point(p)
      /\ \A p : Excused(p)' = Excused(p) /\ Paired(p)' = Paired(p)
      /\ \A z, p, i : Computes(z, Point(p), i)' = Computes(z, Point(p), i)
  BY <1>1, SameView, Zenon
<1>5. \A q \in DOMAIN lanes' : LanesOf(q)'
  <2> HIDE DEF Iterate
  <2>1. SUFFICES ASSUME NEW q \in DOMAIN lanes
                 PROVE  /\ Paired(q)'
                        /\ q \in DOMAIN coordinates' /\ q + 1 \in DOMAIN coordinates'
                        /\ \E i \in 0..(2 * view.iters) :
                             /\ i <= lanes'[q][1].repeats + lanes'[q][2].repeats
                             /\ \A k \in 1..2 : Computes(lanes[q][k], Point(q + k - 1), i)'
    BY <1>1, Zenon DEF LanesOf
  <2>2. PICK i \in 0..(2 * view.iters) :
          /\ i <= lanes'[q][1].repeats + lanes'[q][2].repeats
          /\ \A k \in 1..2 : Computes(lanes'[q][k], Point(q + k - 1), i)
    BY <1>3
  <2>3. \A k \in 1..2 : Computes(lanes[q][k], Point(q + k - 1), i)'
    <3>1. \A z, p : Computes(z, Point(p), i)' = Computes(z, Point(p), i)
      BY <1>4
    <3>2. QED
      BY <2>2, <3>1, Zenon
  <2>4. Paired(q)' /\ q \in DOMAIN coordinates' /\ q + 1 \in DOMAIN coordinates'
    BY <1>1, <1>4 DEF MandelbrotInv, LanesOf
  <2>5. QED
    BY <2>2, <2>3, <2>4
<1>6. QED
  <2>1. Places' = Places /\ AsSequential' = AsSequential
    BY <1>1, SameView
  <2>2. QED
    BY <1>1, <1>4, <1>5, <2>1 DEF MandelbrotInv

\* their repeats are stored,
LEMMA StorePairKeeps ==
  ASSUME MandelbrotInv, NEW ps \in Places, StorePair(ps)
  PROVE  MandelbrotInv'
<1> USE DEF StorePair
<1>1. /\ view' = view /\ drawing' = drawing /\ coordinates' = coordinates /\ png' = png
      /\ pairs' = pairs /\ DOMAIN lanes' = DOMAIN lanes \ {ps}
      /\ \A q \in DOMAIN lanes' : lanes'[q] = lanes[q]
  OBVIOUS
<1>2. LanesOf(ps)
  BY DEF MandelbrotInv
<1>3. ps \in Int /\ ps + 1 \in Places /\ ps \in Places /\ Paired(ps)
  BY <1>2 DEF LanesOf, Paired, Places
<1>4. /\ lanes[ps][1].repeats = core_cal(Point(ps)) \/ Excused(ps)
      /\ lanes[ps][2].repeats = core_cal(Point(ps + 1)) \/ Excused(ps + 1)
  <2>1. ASSUME NEW k \in 1..2, Steady(Point(ps + k - 1))
        PROVE  lanes[ps][k].repeats = core_cal(Point(ps + k - 1))
    <3>1. ~Goes(lanes[ps][k]) /\ \E i : Computes(lanes[ps][k], Point(ps + k - 1), i)
      BY <1>2 DEF LanesOf
    <3>2. QED
      BY <2>1, <3>1, Ends
  <2>2. ps + 1 - 1 = ps /\ ps + 2 - 1 = ps + 1
    BY <1>3
  <2>3. /\ Steady(Point(ps)) \/ Excused(ps)
        /\ Steady(Point(ps + 1)) \/ Excused(ps + 1)
    BY <1>3 DEF Excused, Paired
  <2>4. QED
    BY <2>1, <2>2, <2>3
<1>5. /\ DOMAIN image' = DOMAIN image \cup {ps, ps + 1}
      /\ \A q \in {ps, ps + 1} : image'[q] = core_cal(Point(q)) \/ Excused(q)
      /\ \A q \in DOMAIN image \ {ps, ps + 1} : image'[q] = image[q]
  <2> DEFINE new == [q \in {ps, ps + 1} |-> lanes[ps][q - ps + 1].repeats]
  <2>1. /\ DOMAIN new = {ps, ps + 1} /\ image' = Store(image, new)
        /\ new[ps] = lanes[ps][1].repeats /\ new[ps + 1] = lanes[ps][2].repeats
    <3>1. ps - ps + 1 = 1 /\ (ps + 1) - ps + 1 = 2
      BY <1>3
    <3>2. QED
      BY <3>1
  <2> HIDE DEF new
  <2>2. /\ DOMAIN Store(image, new) = DOMAIN image \cup DOMAIN new
        /\ \A p \in DOMAIN new : Store(image, new)[p] = new[p]
        /\ \A p \in DOMAIN image \ DOMAIN new : Store(image, new)[p] = image[p]
    BY StoreIs
  <2>3. QED
    BY <1>4, <2>1, <2>2
<1>6. /\ Places' = Places /\ AsSequential' = AsSequential
      /\ \A p : Point(p)' = Point(p) /\ Paired(p)' = Paired(p)
      /\ \A p : core_cal(Point(p))' = core_cal(Point(p)) /\ Excused(p)' = Excused(p)
      /\ \A z, p, i : Computes(z, Point(p), i)' = Computes(z, Point(p), i)
  <2>1. Places' = Places /\ AsSequential' = AsSequential
    BY <1>1, SameView
  <2>2. /\ \A p : Point(p)' = Point(p) /\ Paired(p)' = Paired(p)
        /\ \A p : core_cal(Point(p))' = core_cal(Point(p)) /\ Excused(p)' = Excused(p)
        /\ \A z, p, i : Computes(z, Point(p), i)' = Computes(z, Point(p), i)
    BY <1>1, SameView, Zenon
  <2>3. QED
    BY <2>1, <2>2
<1>7. \A q \in DOMAIN lanes' : LanesOf(q)'
  <2> HIDE DEF StorePair
  <2>1. QED
    BY <1>1, LanesStay
<1>8. \A p \in DOMAIN image' : p \in Places /\ (image'[p] = core_cal(Point(p)) \/ Excused(p))
  BY <1>3, <1>5 DEF MandelbrotInv
<1>9. QED
  BY <1>1, <1>6, <1>7, <1>8 DEF MandelbrotInv

\* a last point without a partner is computed,
LEMMA SingleKeeps ==
  ASSUME MandelbrotInv, Single
  PROVE  MandelbrotInv'
<1> USE DEF Single
<1>1. /\ view' = view /\ drawing' = drawing /\ coordinates' = coordinates /\ png' = png
      /\ pairs' = pairs /\ lanes' = lanes /\ DOMAIN lanes = {} /\ Odd
  OBVIOUS
<1>2. PICK c \in (IF area - 1 \in DOMAIN coordinates THEN {coordinates[area - 1]} ELSE Junk) :
        image' = Store(image, [p \in {area - 1} |-> core_cal(c)])
  OBVIOUS
<1>3. area - 1 \in Places
  BY ViewIs DEF Places, MandelbrotInv
<1>4. core_cal(c) = core_cal(Point(area - 1)) \/ Excused(area - 1)
  <2>1. Alone(area - 1)
    BY <1>1 DEF Alone
  <2>2. QED
    BY <1>2, <1>3, <2>1 DEF MandelbrotInv, Excused
<1>5. /\ DOMAIN image' = DOMAIN image \cup {area - 1}
      /\ image'[area - 1] = core_cal(c)
      /\ \A q \in DOMAIN image \ {area - 1} : image'[q] = image[q]
  <2> DEFINE new == [p \in {area - 1} |-> core_cal(c)]
  <2>1. DOMAIN new = {area - 1} /\ image' = Store(image, new) /\ new[area - 1] = core_cal(c)
    BY <1>2
  <2> HIDE DEF new
  <2>2. /\ DOMAIN Store(image, new) = DOMAIN image \cup DOMAIN new
        /\ \A p \in DOMAIN new : Store(image, new)[p] = new[p]
        /\ \A p \in DOMAIN image \ DOMAIN new : Store(image, new)[p] = image[p]
    BY StoreIs
  <2>3. QED
    BY <2>1, <2>2
<1>6. /\ Places' = Places /\ AsSequential' = AsSequential
      /\ \A p : Point(p)' = Point(p) /\ Paired(p)' = Paired(p)
      /\ \A p : core_cal(Point(p))' = core_cal(Point(p)) /\ Excused(p)' = Excused(p)
  <2>1. Places' = Places /\ AsSequential' = AsSequential
    BY <1>1, SameView
  <2>2. /\ \A p : Point(p)' = Point(p) /\ Paired(p)' = Paired(p)
        /\ \A p : core_cal(Point(p))' = core_cal(Point(p)) /\ Excused(p)' = Excused(p)
    BY <1>1, SameView, Zenon
  <2>3. QED
    BY <2>1, <2>2
<1>7. \A p \in DOMAIN image' : p \in Places /\ (image'[p] = core_cal(Point(p)) \/ Excused(p))
  BY <1>3, <1>4, <1>5 DEF MandelbrotInv
<1>8. QED
  BY <1>1, <1>6, <1>7 DEF MandelbrotInv

\* What the colours of a point are stored over
LEMMA PaintedIs ==
  ASSUME NEW was, NEW img, NEW at \in Places \X (0..2), NEW p, p = PixelAt(at[1])
  PROVE  Painted(was, img)[at] =
           IF at[2] \in DOMAIN Colours(img[p]) THEN Colours(img[p])[at[2]] ELSE was
BY DEF Painted

\* and the picture is painted.
LEMMA PaintKeeps ==
  ASSUME MandelbrotInv, Paint
  PROVE  MandelbrotInv'
<1> USE DEF Paint
<1>1. /\ view' = view /\ drawing' = drawing /\ coordinates' = coordinates /\ image' = image
      /\ pairs' = pairs /\ lanes' = lanes
  OBVIOUS
<1> PICK was \in {Cleared, Malloced} : png' = Painted(was, image)
  OBVIOUS
<1> DEFINE seq == [p \in Places |-> core_cal(Point(p))]
<1>2. DOMAIN Painted(was, image) = Places \X (0..2)
  BY DEF Painted
<1>3. ASSUME NEW at \in Places \X (0..2)
      PROVE  \/ Excused(PixelAt(at[1]))
             \/ Painted(was, image)[at] = Painted(Cleared, seq)[at]
             \/ Painted(was, image)[at] = Malloced /\ Painted(Cleared, seq)[at] = Cleared
  <2> DEFINE p == PixelAt(at[1])
  <2>1. p \in Places /\ Position(p) = at[1]
    <3>1. at[1] \in Places /\ view \in Views
      BY DEF MandelbrotInv
    <3>2. \E q \in Places : Position(q) = at[1]
      BY <3>1, PositionIsOnto
    <3>3. QED
      BY <3>2 DEF PixelAt
  <2>2. /\ Painted(was, image)[at] =
             IF at[2] \in DOMAIN Colours(image[p]) THEN Colours(image[p])[at[2]] ELSE was
        /\ Painted(Cleared, seq)[at] =
             IF at[2] \in DOMAIN Colours(seq[p]) THEN Colours(seq[p])[at[2]] ELSE Cleared
    BY PaintedIs
  <2> HIDE DEF p
  <2>3. seq[p] = core_cal(Point(p))
    BY <2>1
  <2>4. image[p] = core_cal(Point(p)) \/ Excused(p)
    BY <2>1 DEF MandelbrotInv
  <2>5. CASE Excused(p)
    BY <2>5 DEF p
  <2>6. CASE image[p] = seq[p]
    <3> HIDE DEF seq
    <3>1. QED
      BY <2>2, <2>6
  <2>7. QED
    BY <2>3, <2>4, <2>5, <2>6
<1>4. /\ Places' = Places /\ area' = area
      /\ \A p : Point(p)' = Point(p) /\ PixelAt(p)' = PixelAt(p) /\ Paired(p)' = Paired(p)
      /\ \A p : core_cal(Point(p))' = core_cal(Point(p)) /\ Excused(p)' = Excused(p)
  <2>1. Places' = Places /\ area' = area
    BY <1>1, SameView
  <2>2. \A p : PixelAt(p)' = PixelAt(p)
    BY <1>1 DEF PixelAt, Position, Places, area
  <2>3. /\ \A p : Point(p)' = Point(p) /\ Paired(p)' = Paired(p)
        /\ \A p : core_cal(Point(p))' = core_cal(Point(p)) /\ Excused(p)' = Excused(p)
    BY <1>1, SameView, Zenon
  <2>4. QED
    BY <2>1, <2>2, <2>3
<1>5. AsSequential'
  <2>1. SequentialPicture' = Painted(Cleared, seq)
    <3>1. SequentialPicture' = SequentialPicture
      BY <1>1, SameView
    <3>2. QED
      BY <3>1 DEF SequentialPicture
  <2> HIDE DEF seq
  <2>2. SUFFICES ASSUME NEW at \in DOMAIN png'
                 PROVE  \/ Excused(PixelAt(at[1]))'
                        \/ png'[at] = SequentialPicture'[at]
                        \/ png'[at] = Malloced' /\ SequentialPicture'[at] = Cleared'
    BY Zenon DEF AsSequential, Excused
  <2>3. Excused(PixelAt(at[1]))' = Excused(PixelAt(at[1]))
    <3>1. \A p : PixelAt(p)' = PixelAt(p) /\ Excused(p)' = Excused(p)
      BY <1>4, SameView, Zenon
    <3>2. QED
      BY <1>1, <3>1, SameView, Zenon
  <2>4. QED
    BY <1>2, <1>3, <2>1, <2>2, <2>3 DEF Malloced, Cleared
<1>6. \A q \in DOMAIN lanes' : LanesOf(q)'
  <2> HIDE DEF Paint
  <2>1. QED
    BY <1>1, LanesStay
<1>7. QED
  BY <1>1, <1>4, <1>5, <1>6 DEF MandelbrotInv

\* hw2: whatever the order of the pairs, and however long the other half of a
\* register goes on, the bytes of the picture are those of the sequential program.
THEOREM PictureAsSequential == MandelbrotSpec => []AsSequential
<1>1. MandelbrotInv /\ UNCHANGED mandelbrotVars => MandelbrotInv'
  <2>1. SUFFICES ASSUME MandelbrotInv, UNCHANGED mandelbrotVars PROVE MandelbrotInv'
    OBVIOUS
  <2>2. /\ view' = view /\ drawing' = drawing /\ coordinates' = coordinates /\ image' = image
        /\ pairs' = pairs /\ lanes' = lanes /\ png' = png
    BY <2>1 DEF mandelbrotVars
  <2>3. Places' = Places /\ AsSequential' = AsSequential
    BY <2>2, SameView
  <2>4. /\ \A p : Point(p)' = Point(p) /\ Paired(p)' = Paired(p)
        /\ \A p : core_cal(Point(p))' = core_cal(Point(p)) /\ Excused(p)' = Excused(p)
        /\ \A z, p, i : Computes(z, Point(p), i)' = Computes(z, Point(p), i)
    BY <2>2, SameView, Zenon
  <2>5. \A q \in DOMAIN lanes' : LanesOf(q)'
    BY <2>1, <2>2, LanesStay
  <2>6. QED
    BY <2>1, <2>2, <2>3, <2>4, <2>5 DEF MandelbrotInv
<1>2. MandelbrotInv /\ MandelbrotNext => MandelbrotInv'
  BY LoadPairKeeps, IterateKeeps, StorePairKeeps, SingleKeeps, PaintKeeps DEF MandelbrotNext
<1>3. MandelbrotInv => AsSequential
  BY DEF MandelbrotInv
<1>4. QED
  BY <1>1, <1>2, <1>3, MandelbrotBegins, PTL DEF MandelbrotSpec
-----------------------------------------------------------------------------
(* Mandelbrot: exact arithmetic.                                           *)

\* Fractions, as numerator and denominator
Fractions == Int \X (Nat \ {0})

\* Arithmetic that does not round
IsExact ==
  /\ \A i \in Int : Num(i) = <<i, 1>>
  /\ \A u, v \in Fractions :
       /\ Plus(u, v) = <<u[1] * v[2] + v[1] * u[2], u[2] * v[2]>>
       /\ Minus(u, v) = <<u[1] * v[2] - v[1] * u[2], u[2] * v[2]>>
       /\ Times(u, v) = <<u[1] * v[1], u[2] * v[2]>>
       /\ v[1] > 0 => Over(u, v) = <<u[1] * v[2], u[2] * v[1]>>
       /\ Less(u, v) <=> u[1] * v[2] < v[1] * u[2]

\* u is n parts out of S.
Parts(u, n, S) == u[1] * S = n * u[2]

\* What the operations make of fractions
LEMMA FractionsClosed ==
  ASSUME IsExact, NEW u \in Fractions, NEW v \in Fractions
  PROVE  /\ Plus(u, v) \in Fractions /\ Minus(u, v) \in Fractions /\ Times(u, v) \in Fractions
         /\ v[1] > 0 => Over(u, v) \in Fractions
<1> PICK a \in Int, b \in Nat \ {0}, p \in Int, q \in Nat \ {0} : u = <<a, b>> /\ v = <<p, q>>
  BY DEF Fractions
<1>1. b * q \in Nat \ {0} /\ (p > 0 => b * p \in Nat \ {0})
  OBVIOUS
<1>2. a * q + p * b \in Int /\ a * q - p * b \in Int /\ a * p \in Int /\ a * q \in Int
  OBVIOUS
<1>3. /\ Plus(u, v) = <<a * q + p * b, b * q>> /\ Minus(u, v) = <<a * q - p * b, b * q>>
      /\ Times(u, v) = <<a * p, b * q>> /\ (v[1] > 0 => Over(u, v) = <<a * q, b * p>>)
  BY DEF IsExact
<1>4. QED
  BY <1>1, <1>2, <1>3 DEF Fractions

\* Two products with a common factor
LEMMA Cancel ==
  ASSUME NEW k \in Nat \ {0}, NEW a \in Int, NEW b \in Int
  PROVE  /\ k * a = k * b <=> a = b
         /\ k * a < k * b <=> a < b
<1>1. a < b => k * (b - a) > 0
  OBVIOUS
<1>2. b < a => k * (a - b) > 0
  OBVIOUS
<1>3. k * (b - a) = k * b - k * a /\ k * (a - b) = k * a - k * b
  OBVIOUS
<1>4. k * a \in Int /\ k * b \in Int
  OBVIOUS
<1>5. QED
  BY <1>1, <1>2, <1>3, <1>4

\* Sums and differences of parts
LEMMA PartsAdd ==
  ASSUME IsExact, NEW u \in Fractions, NEW v \in Fractions, NEW S \in Nat \ {0},
         NEW m \in Int, NEW n \in Int, Parts(u, m, S), Parts(v, n, S)
  PROVE  Parts(Plus(u, v), m + n, S) /\ Parts(Minus(u, v), m - n, S)
<1> PICK a \in Int, b \in Nat \ {0}, p \in Int, q \in Nat \ {0} : u = <<a, b>> /\ v = <<p, q>>
  BY DEF Fractions
<1>1. a * S = m * b /\ p * S = n * q
  BY DEF Parts
<1>2. /\ (a * q + p * b) * S = (a * S) * q + (p * S) * b
      /\ (a * q - p * b) * S = (a * S) * q - (p * S) * b
  OBVIOUS
<1>3. /\ (m * b) * q + (n * q) * b = (m + n) * (b * q)
      /\ (m * b) * q - (n * q) * b = (m - n) * (b * q)
  OBVIOUS
<1>4. Plus(u, v) = <<a * q + p * b, b * q>> /\ Minus(u, v) = <<a * q - p * b, b * q>>
  BY DEF IsExact
<1>5. QED
  BY <1>1, <1>2, <1>3, <1>4 DEF Parts

\* Products of parts
LEMMA PartsMultiply ==
  ASSUME IsExact, NEW u \in Fractions, NEW v \in Fractions, NEW S \in Nat \ {0},
         NEW T \in Nat \ {0}, NEW m \in Int, NEW n \in Int, Parts(u, m, S), Parts(v, n, T)
  PROVE  Parts(Times(u, v), m * n, S * T)
<1> PICK a \in Int, b \in Nat \ {0}, p \in Int, q \in Nat \ {0} : u = <<a, b>> /\ v = <<p, q>>
  BY DEF Fractions
<1>1. a * S = m * b /\ p * T = n * q
  BY DEF Parts
<1>2. (a * p) * (S * T) = (a * S) * (p * T) /\ (m * b) * (n * q) = (m * n) * (b * q)
  OBVIOUS
<1>3. Times(u, v) = <<a * p, b * q>>
  BY DEF IsExact
<1>4. QED
  BY <1>1, <1>2, <1>3 DEF Parts

\* The same parts, each cut again
LEMMA PartsCut ==
  ASSUME NEW u \in Fractions, NEW S \in Nat \ {0}, NEW k \in Nat \ {0}, NEW m \in Int,
         Parts(u, m, S)
  PROVE  Parts(u, m * k, S * k)
<1> PICK a \in Int, b \in Nat \ {0} : u = <<a, b>>
  BY DEF Fractions
<1>1. a * S = m * b
  BY DEF Parts
<1>2. a * (S * k) = (a * S) * k /\ (m * b) * k = (m * k) * b
  OBVIOUS
<1>3. QED
  BY <1>1, <1>2 DEF Parts

\* Of two fractions the smaller one has fewer parts.
LEMMA PartsLess ==
  ASSUME IsExact, NEW u \in Fractions, NEW v \in Fractions, NEW S \in Nat \ {0},
         NEW m \in Int, NEW n \in Int, Parts(u, m, S), Parts(v, n, S)
  PROVE  Less(u, v) <=> m < n
<1> PICK a \in Int, b \in Nat \ {0}, p \in Int, q \in Nat \ {0} : u = <<a, b>> /\ v = <<p, q>>
  BY DEF Fractions
<1>1. a * S = m * b /\ p * S = n * q
  BY DEF Parts
<1>2. Less(u, v) <=> a * q < p * b
  BY DEF IsExact
<1>3. a * q < p * b <=> S * (a * q) < S * (p * b)
  BY Cancel
<1>4. /\ S * (a * q) = (a * S) * q /\ (m * b) * q = (b * q) * m
      /\ S * (p * b) = (p * S) * b /\ (n * q) * b = (b * q) * n
  OBVIOUS
<1>5. S * (a * q) = (b * q) * m /\ S * (p * b) = (b * q) * n
  BY <1>1, <1>4
<1>6. (b * q) * m < (b * q) * n <=> m < n
  <2>1. b * q \in Nat \ {0}
    OBVIOUS
  <2>2. QED
    BY <2>1, Cancel
<1>7. QED
  BY <1>2, <1>3, <1>5, <1>6

\* Two fractions, or four, may be cut in parts of one size.
LEMMA PartsExist ==
  ASSUME NEW u \in Fractions, NEW k \in Nat \ {0}
  PROVE  \E n \in Int : Parts(u, n, u[2] * k)
<1> PICK a \in Int, b \in Nat \ {0} : u = <<a, b>>
  BY DEF Fractions
<1>1. a * (b * k) = (a * k) * b
  OBVIOUS
<1>2. a * k \in Int
  OBVIOUS
<1>3. QED
  BY <1>1, <1>2 DEF Parts

LEMMA CommonParts ==
  ASSUME NEW x \in Fractions, NEW y \in Fractions, NEW p \in Fractions, NEW q \in Fractions
  PROVE  \E S \in Nat \ {0}, m \in Int, n \in Int, i \in Int, j \in Int :
           Parts(x, m, S) /\ Parts(y, n, S) /\ Parts(p, i, S) /\ Parts(q, j, S)
<1> PICK a \in Nat \ {0}, b \in Nat \ {0}, c \in Nat \ {0}, d \in Nat \ {0} :
      a = x[2] /\ b = y[2] /\ c = p[2] /\ d = q[2]
  BY DEF Fractions
<1> PICK S \in Nat \ {0} : S = a * (b * (c * d))
  <2>1. \A g, h \in Nat \ {0} : g * h \in Nat \ {0}
    OBVIOUS
  <2>2. QED
    BY <2>1
<1>1. /\ b * (c * d) \in Nat \ {0} /\ a * (c * d) \in Nat \ {0}
      /\ a * (b * d) \in Nat \ {0} /\ a * (b * c) \in Nat \ {0}
  <2>1. \A g, h \in Nat \ {0} : g * h \in Nat \ {0}
    OBVIOUS
  <2>2. QED
    BY <2>1
<1>2. S = b * (a * (c * d)) /\ S = c * (a * (b * d)) /\ S = d * (a * (b * c))
  OBVIOUS
<1>3. PICK m \in Int : Parts(x, m, S)
  BY <1>1, PartsExist
<1>4. PICK n \in Int : Parts(y, n, S)
  BY <1>1, <1>2, PartsExist
<1>5. PICK i \in Int : Parts(p, i, S)
  BY <1>1, <1>2, PartsExist
<1>6. PICK j \in Int : Parts(q, j, S)
  BY <1>1, <1>2, PartsExist
<1>7. QED
  BY <1>3, <1>4, <1>5, <1>6

\* Cauchy and Schwarz's inequality for two vectors <<a, b>> and <<p, q>>
LEMMA DotIsSmall ==
  ASSUME NEW a \in Int, NEW b \in Int, NEW p \in Int, NEW q \in Int
  PROVE  (a * p + b * q) * (a * p + b * q) <= (a * a + b * b) * (p * p + q * q)
<1> PICK u \in Int, v \in Int : u = a * p + b * q /\ v = a * q - b * p
  OBVIOUS
<1>1. u * u + v * v = (a * a + b * b) * (p * p + q * q)
  OBVIOUS
<1>2. v * v >= 0
  OBVIOUS
<1>3. QED
  BY <1>1, <1>2

\* In parts out of S, with L the square of z's distance from 0, C that of c's, and
\* D the product of z * z and c as vectors: z * z + c is not nearer to 0 than z.
LEMMA FartherArithmetic ==
  ASSUME NEW S \in Nat \ {0}, NEW T \in Nat \ {0}, T = S * S,
         NEW L \in Nat, NEW C \in Nat, NEW D \in Int,
         L >= 4 * T, C <= L, D * D <= (L * L) * C
  PROVE  L * L + 2 * (S * D) + T * C >= T * L
<1>1. SUFFICES ASSUME L * L + 2 * (S * D) + T * C < T * L PROVE FALSE
  BY DotIsSmall
<1> PICK E \in Int, F \in Int, G \in Int : E = L * L - G /\ G = T * (L - C) /\ F = -2 * (S * D)
  OBVIOUS
<1>2. E >= 0
  <2>1. (L - 4 * T) * L >= 0 /\ T * C >= 0 /\ T * L >= 0
    OBVIOUS
  <2>2. (L - 4 * T) * L = L * L - 4 * (T * L) /\ G = T * L - T * C
    OBVIOUS
  <2>3. L * L \in Int /\ T * L \in Int /\ T * C \in Int
    OBVIOUS
  <2>4. QED
    BY <2>1, <2>2, <2>3
<1>3. F > E
  <2>1. G = T * L - T * C
    OBVIOUS
  <2>2. L * L \in Int /\ T * L \in Int /\ T * C \in Int /\ S * D \in Int
    OBVIOUS
  <2>3. QED
    BY <1>1, <2>1, <2>2
<1>4. E * E < F * F
  <2>1. E * (F - E) >= 0 /\ (F - E) * F > 0
    BY <1>2, <1>3
  <2>2. E * (F - E) = E * F - E * E /\ (F - E) * F = F * F - E * F
    OBVIOUS
  <2>3. E * E \in Int /\ E * F \in Int /\ F * F \in Int
    OBVIOUS
  <2>4. QED
    BY <2>1, <2>2, <2>3
<1> PICK Q \in Nat, H \in Int : Q = L * L /\ H = T * (Q * C)
  OBVIOUS
<1>5. F * F <= 4 * H
  <2>1. F * F = 4 * (T * (D * D))
    <3>1. F * F = 4 * ((S * S) * (D * D))
      OBVIOUS
    <3>2. QED
      BY <3>1
  <2>2. T * (D * D) <= T * (Q * C)
    <3>1. D * D \in Nat /\ Q * C \in Nat /\ D * D <= Q * C
      OBVIOUS
    <3>2. QED
      BY <3>1, TimesMonotone
  <2>3. T * (D * D) \in Int
    OBVIOUS
  <2>4. QED
    BY <2>1, <2>2, <2>3
<1>6. E * E - 4 * H = (Q * L) * (L - 4 * T) + 2 * (T * (Q * (L - C))) + G * G
  <2>1. (L * L - T * (L - C)) * (L * L - T * (L - C)) - 4 * (T * ((L * L) * C))
          = ((L * L) * L) * (L - 4 * T) + 2 * (T * ((L * L) * (L - C)))
              + (T * (L - C)) * (T * (L - C))
    OBVIOUS
  <2>2. E = L * L - T * (L - C) /\ H = T * ((L * L) * C)
    OBVIOUS
  <2>3. QED
    BY <2>1, <2>2
<1>7. (Q * L) * (L - 4 * T) >= 0
  <2>1. Q * L \in Nat /\ L - 4 * T \in Nat
    OBVIOUS
  <2>2. QED
    BY <2>1
<1>8. 2 * (T * (Q * (L - C))) >= 0
  <2>1. L - C \in Nat
    OBVIOUS
  <2>2. Q * (L - C) \in Nat
    BY <2>1
  <2>3. QED
    BY <2>2
<1>9. G * G >= 0
  OBVIOUS
<1>10. QED
  BY <1>4, <1>5, <1>6, <1>7, <1>8, <1>9

\* The square of the length of a sum of two vectors, the second one S times longer
LEMMA SquareOfSum ==
  ASSUME NEW a \in Int, NEW b \in Int, NEW i \in Int, NEW j \in Int, NEW S \in Int
  PROVE  (a + i * S) * (a + i * S) + (b + j * S) * (b + j * S)
           = (a * a + b * b) + 2 * (S * (a * i + b * j)) + (S * S) * (i * i + j * j)
OBVIOUS

\* The same in parts: a point outside the circle that is not nearer to 0 than c is
\* goes to one that is neither.
LEMMA PartsFarther ==
  ASSUME NEW S \in Nat \ {0}, NEW m \in Int, NEW n \in Int, NEW i \in Int, NEW j \in Int,
         NEW T \in Nat \ {0}, NEW L \in Nat, NEW C \in Nat, NEW M \in Int,
         T = S * S, L = m * m + n * n, C = i * i + j * j,
         M = (m * m - n * n + i * S) * (m * m - n * n + i * S)
               + (2 * (m * n) + j * S) * (2 * (m * n) + j * S),
         L >= 4 * T, C <= L
  PROVE  M >= 4 * (T * T) /\ M >= C * T
<1> PICK a \in Int, b \in Int : a = m * m - n * n /\ b = 2 * (m * n)
  OBVIOUS
<1> PICK D \in Int : D = a * i + b * j
  OBVIOUS
<1>1. a * a + b * b = L * L
  <2>1. (m * m - n * n) * (m * m - n * n) + (2 * (m * n)) * (2 * (m * n))
           = (m * m + n * n) * (m * m + n * n)
    OBVIOUS
  <2>2. QED
    BY <2>1
<1>2. M = L * L + 2 * (S * D) + T * C
  <2>1. (a + i * S) * (a + i * S) + (b + j * S) * (b + j * S)
           = (a * a + b * b) + 2 * (S * (a * i + b * j)) + (S * S) * (i * i + j * j)
    BY ONLY S \in Nat \ {0}, a \in Int, b \in Int, i \in Int, j \in Int, SquareOfSum
  <2>2. QED
    BY <1>1, <2>1
<1>3. D * D <= (L * L) * C
  <2>1. D * D <= (a * a + b * b) * (i * i + j * j)
    BY DotIsSmall
  <2>2. QED
    BY <1>1, <2>1
<1>4. M >= T * L
  <2>1. L * L + 2 * (S * D) + T * C >= T * L
    BY ONLY <1>3, S \in Nat \ {0}, T \in Nat \ {0}, L \in Nat, C \in Nat, D \in Int,
            T = S * S, L >= 4 * T, C <= L, FartherArithmetic
  <2>2. QED
    BY ONLY <1>2, <2>1
<1>5. T * L >= 4 * (T * T) /\ T * L >= C * T
  <2>1. T * (L - 4 * T) >= 0 /\ T * (L - C) >= 0
    OBVIOUS
  <2>2. T * (L - 4 * T) = T * L - 4 * (T * T) /\ T * (L - C) = T * L - C * T
    OBVIOUS
  <2>3. T * L \in Int /\ T * T \in Int /\ C * T \in Int
    OBVIOUS
  <2>4. QED
    BY <2>1, <2>2, <2>3
<1>6. T * L \in Int /\ T * T \in Int /\ C * T \in Int
  OBVIOUS
<1>7. QED
  BY ONLY <1>4, <1>5, <1>6, M \in Int

\* The square of the distance from 0, as a pass of the loop computes it
Norm(x, y) == Plus(Times(x, x), Times(y, y))

\* and the same in fractions.
LEMMA FractionsFarther ==
  ASSUME IsExact, NEW x \in Fractions, NEW y \in Fractions, NEW p \in Fractions,
         NEW q \in Fractions, NEW u, NEW v,
         u = Plus(Minus(Times(x, x), Times(y, y)), p), v = Plus(Times(Num(2), Times(x, y)), q),
         ~Less(Norm(x, y), Num(4)), ~Less(Norm(x, y), Norm(p, q))
  PROVE  ~Less(Norm(u, v), Num(4)) /\ ~Less(Norm(u, v), Norm(p, q))
<1> PICK S \in Nat \ {0}, m \in Int, n \in Int, i \in Int, j \in Int :
      Parts(x, m, S) /\ Parts(y, n, S) /\ Parts(p, i, S) /\ Parts(q, j, S)
  BY CommonParts
<1> PICK T \in Nat \ {0} : T = S * S
  OBVIOUS
<1> PICK U \in Nat \ {0} : U = T * T
  OBVIOUS
<1> PICK L \in Nat, C \in Nat : L = m * m + n * n /\ C = i * i + j * j
  <2>1. m * m \in Nat /\ n * n \in Nat /\ i * i \in Nat /\ j * j \in Nat
    OBVIOUS
  <2>2. QED
    BY <2>1
<1> PICK a \in Int, b \in Int : a = m * m - n * n + i * S /\ b = 2 * (m * n) + j * S
  OBVIOUS
<1> PICK M \in Int : M = a * a + b * b
  OBVIOUS
<1>1. Num(2) = <<2, 1>> /\ Num(4) = <<4, 1>> /\ Num(2) \in Fractions /\ Num(4) \in Fractions
  BY DEF IsExact, Fractions
<1>2. /\ Times(x, x) \in Fractions /\ Times(y, y) \in Fractions /\ Times(x, y) \in Fractions
      /\ Times(p, p) \in Fractions /\ Times(q, q) \in Fractions
      /\ Parts(Times(x, x), m * m, T) /\ Parts(Times(y, y), n * n, T)
      /\ Parts(Times(x, y), m * n, T)
      /\ Parts(Times(p, p), i * i, T) /\ Parts(Times(q, q), j * j, T)
  BY FractionsClosed, PartsMultiply
<1>3. m * m \in Int /\ n * n \in Int /\ m * n \in Int /\ i * i \in Int /\ j * j \in Int
  OBVIOUS
<1>4. /\ Norm(x, y) \in Fractions /\ Norm(p, q) \in Fractions
      /\ Parts(Norm(x, y), L, T) /\ Parts(Norm(p, q), C, T)
  BY <1>2, <1>3, FractionsClosed, PartsAdd DEF Norm
<1>5. Parts(Num(4), 4 * T, T)
  BY <1>1 DEF Parts
<1>6. L >= 4 * T /\ C <= L
  <2>1. ~(L < 4 * T)
    BY <1>1, <1>4, <1>5, PartsLess
  <2>2. ~(L < C)
    BY <1>4, PartsLess
  <2>3. QED
    BY <2>1, <2>2
<1>7. M >= 4 * U /\ M >= C * T
  BY <1>6, PartsFarther
<1>8. u \in Fractions /\ Parts(u, a, T)
  <2>1. Parts(p, i * S, T)
    BY PartsCut
  <2>2. /\ Minus(Times(x, x), Times(y, y)) \in Fractions
        /\ Parts(Minus(Times(x, x), Times(y, y)), m * m - n * n, T)
    BY <1>2, <1>3, FractionsClosed, PartsAdd
  <2>3. m * m - n * n \in Int /\ i * S \in Int
    BY <1>3
  <2>4. QED
    BY <2>1, <2>2, <2>3, FractionsClosed, PartsAdd
<1>9. v \in Fractions /\ Parts(v, b, T)
  <2>1. Parts(q, j * S, T)
    BY PartsCut
  <2>2. /\ Times(Num(2), Times(x, y)) \in Fractions
        /\ Parts(Times(Num(2), Times(x, y)), 2 * (m * n), T)
    <3>1. Parts(Num(2), 2, 1)
      BY <1>1 DEF Parts
    <3>2. 1 * T = T
      OBVIOUS
    <3>3. Parts(Times(Num(2), Times(x, y)), 2 * (m * n), 1 * T)
      BY <1>1, <1>2, <1>3, <3>1, PartsMultiply
    <3>4. QED
      BY <1>1, <1>2, <3>2, <3>3, FractionsClosed
  <2>3. 2 * (m * n) \in Int /\ j * S \in Int
    BY <1>3
  <2>4. QED
    BY <2>1, <2>2, <2>3, FractionsClosed, PartsAdd
<1>10. Norm(u, v) \in Fractions /\ Parts(Norm(u, v), M, U)
  <2>1. /\ Times(u, u) \in Fractions /\ Times(v, v) \in Fractions
        /\ Parts(Times(u, u), a * a, U) /\ Parts(Times(v, v), b * b, U)
    BY <1>8, <1>9, FractionsClosed, PartsMultiply
  <2>2. a * a \in Int /\ b * b \in Int
    OBVIOUS
  <2>3. QED
    BY <2>1, <2>2, FractionsClosed, PartsAdd DEF Norm
<1>11. ~Less(Norm(u, v), Num(4))
  <2>1. Parts(Num(4), 4 * U, U)
    BY <1>1 DEF Parts
  <2>2. ~(M < 4 * U)
    BY <1>7
  <2>3. QED
    BY <1>1, <1>10, <2>1, <2>2, PartsLess
<1>12. ~Less(Norm(u, v), Norm(p, q))
  <2>1. Parts(Norm(p, q), C * T, U) /\ C * T \in Int
    <3>1. Parts(Norm(p, q), C * T, T * T)
      BY ONLY <1>4, T \in Nat \ {0}, C \in Nat, PartsCut
    <3>2. C * T \in Int /\ U = T * T
      OBVIOUS
    <3>3. QED
      BY <3>1, <3>2
  <2>2. ~(M < C * T)
    BY <1>7, <2>1
  <2>3. QED
    BY <1>4, <1>10, <2>1, <2>2, PartsLess
<1>13. QED
  BY <1>11, <1>12

\* Where the orbit of c may be after k turns: inside only if c is, and outside no
\* nearer to 0 than c is.
OrbitIsAt(o, c, k) ==
  /\ o[k].x \in Fractions /\ o[k].y \in Fractions
  /\ o[k].length_squared = Norm(o[k].x, o[k].y)
  /\ k = 0 \/ IF Inside(o[k]) THEN Less(Norm(c.x, c.y), Num(4))
              ELSE ~Less(Norm(o[k].x, o[k].y), Norm(c.x, c.y))

\* The first point of an orbit is c.
LEMMA FromStart ==
  ASSUME IsExact, NEW p \in Fractions, NEW q \in Fractions
  PROVE  /\ Plus(Minus(Times(Num(0), Num(0)), Times(Num(0), Num(0))), p) = p
         /\ Plus(Times(Num(2), Times(Num(0), Num(0))), q) = q
         /\ Norm(Num(0), Num(0)) = Num(0) /\ Less(Num(0), Num(4)) /\ Num(0) \in Fractions
<1>1. Num(0) = <<0, 1>> /\ Num(2) = <<2, 1>> /\ Num(4) = <<4, 1>>
  BY DEF IsExact
<1> PICK a \in Int, b \in Nat \ {0}, d \in Int, e \in Nat \ {0} : p = <<a, b>> /\ q = <<d, e>>
  BY DEF Fractions
<1>2. /\ <<0, 1>> \in Fractions /\ <<2, 1>> \in Fractions /\ <<4, 1>> \in Fractions
      /\ p \in Fractions /\ q \in Fractions
  BY DEF Fractions
<1>3. Times(<<0, 1>>, <<0, 1>>) = <<0, 1>> /\ Times(<<2, 1>>, <<0, 1>>) = <<0, 1>>
      /\ Minus(<<0, 1>>, <<0, 1>>) = <<0, 1>> /\ Plus(<<0, 1>>, <<0, 1>>) = <<0, 1>>
      /\ Less(<<0, 1>>, <<4, 1>>)
  BY <1>2 DEF IsExact
<1>4. Plus(<<0, 1>>, p) = p /\ Plus(<<0, 1>>, q) = q
  <2>1. /\ Plus(<<0, 1>>, p) = <<0 * b + a * 1, 1 * b>>
        /\ Plus(<<0, 1>>, q) = <<0 * e + d * 1, 1 * e>>
    BY <1>2 DEF IsExact
  <2>2. 0 * b + a * 1 = a /\ 1 * b = b /\ 0 * e + d * 1 = d /\ 1 * e = e
    OBVIOUS
  <2>3. QED
    BY <2>1, <2>2
<1>5. QED
  BY <1>1, <1>2, <1>3, <1>4 DEF Norm

\* A fraction below 4 is below one that is not.
LEMMA BelowFour ==
  ASSUME IsExact, NEW u \in Fractions, NEW v \in Fractions, Less(u, Num(4)), ~Less(v, Num(4))
  PROVE  ~Less(v, u)
<1> PICK S \in Nat \ {0}, m \in Int, n \in Int : Parts(u, m, S) /\ Parts(v, n, S)
  BY CommonParts
<1>1. Parts(Num(4), 4 * S, S) /\ Num(4) \in Fractions
  BY DEF IsExact, Parts, Fractions
<1>2. m < 4 * S /\ ~(n < 4 * S)
  BY <1>1, PartsLess
<1>3. QED
  BY <1>2, PartsLess

\* What a turn makes of x, y and the square of the distance, in either loop
LEMMA ExactTurn ==
  ASSUME IsExact, NEW z, z.x \in Fractions, z.y \in Fractions,
         NEW c, c.x \in Fractions, c.y \in Fractions
  PROVE  LET w == Turn_sse2(z, c, 0)
         IN /\ w.x = Plus(Minus(Times(z.x, z.x), Times(z.y, z.y)), c.x)
            /\ w.y = Plus(Times(Num(2), Times(z.x, z.y)), c.y)
            /\ w.length_squared = Norm(w.x, w.y)
            /\ w.x \in Fractions /\ w.y \in Fractions
            /\ Turn(z, c).y = w.y
<1> PICK x \in Fractions, y \in Fractions : x = z.x /\ y = z.y
  OBVIOUS
<1> DEFINE w == Turn_sse2(z, c, 0)
<1>1. /\ w.x = Plus(Minus(Times(x, x), Times(y, y)), c.x)
      /\ w.y = Plus(Times(Num(2), Times(x, y)), c.y)
      /\ w.length_squared = Norm(w.x, w.y)
      /\ Turn(z, c).y = Plus(Times(Times(Num(2), x), y), c.y)
  BY DEF Turn, Turn_sse2, Moved, Norm
<1>2. Num(2) = <<2, 1>> /\ Num(2) \in Fractions
  BY DEF IsExact, Fractions
<1>3. /\ Times(x, x) \in Fractions /\ Times(y, y) \in Fractions /\ Times(x, y) \in Fractions
      /\ Times(Num(2), x) \in Fractions
  BY <1>2, FractionsClosed
<1>4. Minus(Times(x, x), Times(y, y)) \in Fractions /\ Times(Num(2), Times(x, y)) \in Fractions
  BY <1>2, <1>3, FractionsClosed
<1>5. /\ Plus(Minus(Times(x, x), Times(y, y)), c.x) \in Fractions
      /\ Plus(Times(Num(2), Times(x, y)), c.y) \in Fractions
  BY <1>4, FractionsClosed
<1>6. Times(Times(Num(2), x), y) = Times(Num(2), Times(x, y))
  <2> PICK a \in Int, b \in Nat \ {0}, p \in Int, q \in Nat \ {0} : x = <<a, b>> /\ y = <<p, q>>
    BY DEF Fractions
  <2>1. /\ Times(Num(2), x) = <<2 * a, 1 * b>> /\ Times(x, y) = <<a * p, b * q>>
    BY <1>2 DEF IsExact
  <2>2. /\ Times(Times(Num(2), x), y) = <<(2 * a) * p, (1 * b) * q>>
        /\ Times(Num(2), Times(x, y)) = <<2 * (a * p), 1 * (b * q)>>
    BY <1>2, <1>3, <2>1 DEF IsExact
  <2>3. (2 * a) * p = 2 * (a * p) /\ (1 * b) * q = 1 * (b * q)
    OBVIOUS
  <2>4. QED
    BY <2>2, <2>3
<1> HIDE DEF w
<1>7. QED
  BY <1>1, <1>5, <1>6 DEF w

\* So does the orbit go on,
LEMMA OrbitGoesOn ==
  ASSUME IsExact, view.iters \in Nat, NEW c, c.x \in Fractions, c.y \in Fractions, NEW o,
         IsOrbit(o, c), NEW k \in 0..(2 * view.iters - 1), OrbitIsAt(o, c, k)
  PROVE  /\ OrbitIsAt(o, c, k + 1)
         /\ IF Inside(o[k]) THEN Turn(o[k], c).y = o[k + 1].y ELSE ~Inside(o[k + 1])
<1> PICK z, w : z = o[k] /\ w = o[k + 1]
  OBVIOUS
<1> PICK C : C = Norm(c.x, c.y)
  OBVIOUS
<1>1. w = Turn_sse2(z, c, 0)
  BY DEF IsOrbit
<1>2. /\ z.x \in Fractions /\ z.y \in Fractions /\ z.length_squared = Norm(z.x, z.y)
      /\ k = 0 \/ IF Inside(z) THEN Less(C, Num(4)) ELSE ~Less(Norm(z.x, z.y), C)
  BY DEF OrbitIsAt
<1>3. /\ w.x = Plus(Minus(Times(z.x, z.x), Times(z.y, z.y)), c.x)
      /\ w.y = Plus(Times(Num(2), Times(z.x, z.y)), c.y)
      /\ w.length_squared = Norm(w.x, w.y)
      /\ w.x \in Fractions /\ w.y \in Fractions
      /\ Turn(z, c).y = w.y
  BY <1>1, <1>2, ExactTurn
<1>4. C \in Fractions /\ Norm(w.x, w.y) \in Fractions
  <2>1. \A x, y \in Fractions : Norm(x, y) \in Fractions
    BY FractionsClosed DEF Norm
  <2>2. QED
    BY <1>3, <2>1
<1>5. (Inside(z) <=> Less(Norm(z.x, z.y), Num(4))) /\ (Inside(w) <=> Less(Norm(w.x, w.y), Num(4)))
  BY <1>2, <1>3 DEF Inside
<1>6. CASE k = 0
  <2>1. z.x = Num(0) /\ z.y = Num(0)
    BY <1>6 DEF IsOrbit, Start
  <2>2. w.x = c.x /\ w.y = c.y
    BY <1>3, <2>1, FromStart
  <2>3. Inside(z)
    BY <1>5, <2>1, FromStart
  <2>4. ~Less(C, C)
    <3>1. C[1] \in Int /\ C[2] \in Int /\ (Less(C, C) <=> C[1] * C[2] < C[1] * C[2])
      BY <1>4 DEF IsExact, Fractions
    <3>2. \A n \in Int : ~(n < n)
      OBVIOUS
    <3>3. C[1] * C[2] \in Int
      BY <3>1
    <3>4. QED
      BY <3>1, <3>2, <3>3
  <2>5. QED
    BY <1>3, <1>5, <2>2, <2>3, <2>4 DEF OrbitIsAt
<1>7. CASE k # 0 /\ Inside(z)
  <2>1. Less(C, Num(4))
    BY <1>2, <1>7
  <2>2. ~Inside(w) => ~Less(Norm(w.x, w.y), C)
    BY <1>4, <1>5, <2>1, BelowFour
  <2>3. QED
    BY <1>3, <1>7, <2>1, <2>2 DEF OrbitIsAt
<1>8. CASE k # 0 /\ ~Inside(z)
  <2>1. ~Less(Norm(z.x, z.y), Num(4)) /\ ~Less(Norm(z.x, z.y), C)
    BY <1>2, <1>5, <1>8
  <2>2. ~Less(Norm(w.x, w.y), Num(4)) /\ ~Less(Norm(w.x, w.y), C)
    BY ONLY IsExact, c.x \in Fractions, c.y \in Fractions, C = Norm(c.x, c.y),
            <1>2, <1>3, <2>1, FractionsFarther
  <2>3. ~Inside(w)
    BY <1>5, <2>2
  <2>4. QED
    BY <1>3, <1>8, <2>2, <2>3 DEF OrbitIsAt
<1>9. QED
  BY <1>6, <1>7, <1>8

\* and every point is steady.
LEMMA ExactIsSteady ==
  ASSUME IsExact, view.iters \in Nat, NEW c, c.x \in Fractions, c.y \in Fractions
  PROVE  Steady(c)
<1>1. PICK o : IsOrbit(o, c) /\ (Steady(c) <=> SteadyOrbit(o, c))
  BY OrbitExists
<1> DEFINE T == {k \in 0..(2 * view.iters) : OrbitIsAt(o, c, k)}
<1>2. 0 \in T
  <2>1. o[0] = Start /\ Start.x = Num(0) /\ Start.y = Num(0) /\ Start.length_squared = Num(0)
    BY <1>1 DEF IsOrbit, Start
  <2>2. 0 \in 0..(2 * view.iters)
    OBVIOUS
  <2>3. QED
    BY <2>1, <2>2, FromStart DEF OrbitIsAt
<1>3. ASSUME NEW k \in 0..(2 * view.iters - 1), k \in T PROVE k + 1 \in T
  <2>1. OrbitIsAt(o, c, k + 1)
    BY <1>1, <1>3, OrbitGoesOn
  <2>2. k + 1 \in 0..(2 * view.iters)
    OBVIOUS
  <2>3. QED
    BY <2>1, <2>2
<1> HIDE DEF T
<1>4. 2 * view.iters \in Nat
  OBVIOUS
<1>5. \A k \in 0..(2 * view.iters) : k \in T
  BY <1>2, <1>3, <1>4, UpTo
<1>6. ASSUME NEW k \in 0..(2 * view.iters - 1)
      PROVE  IF Inside(o[k]) THEN Turn(o[k], c).y = o[k + 1].y ELSE ~Inside(o[k + 1])
  <2>1. OrbitIsAt(o, c, k)
    BY <1>5 DEF T
  <2>2. QED
    BY <1>1, <2>1, OrbitGoesOn
<1>7. QED
  BY <1>1, <1>6 DEF SteadyOrbit

\* hw2: in arithmetic that does not round, with the bounds of the view in
\* fractions, every point is steady: what PictureAsSequential leaves aside for the
\* pairs is the work of rounding alone.
THEOREM ExactPointsAreSteady ==
  ASSUME IsExact,
         \A v \in Views : /\ v.left \in Fractions /\ v.right \in Fractions
                          /\ v.lower \in Fractions /\ v.upper \in Fractions
  PROVE  MandelbrotSpec => [](\A p \in Places : Steady(Point(p)))
<1>1. ASSUME view \in Views, NEW p \in Places PROVE Steady(Point(p))
  <2> PICK b \in Nat \ {0}, d \in Nat \ {0} : b = view.width /\ d = view.height
    BY <1>1, ViewIs
  <2>1. p \div b \in Nat /\ p % b \in Nat
    <3>1. p \in Nat
      BY <1>1, ViewIs DEF Places
    <3>2. QED
      BY ONLY <3>1, b \in Nat \ {0}, DivMod
  <2>2. \A i \in Nat : Num(i) = <<i, 1>> /\ Num(i) \in Fractions
    BY DEF IsExact, Fractions
  <2> PICK h, e : h = Over(Minus(view.right, view.left), Num(b))
                  /\ e = Over(Minus(view.upper, view.lower), Num(d))
    OBVIOUS
  <2>3. h \in Fractions /\ e \in Fractions
    <3>1. Minus(view.right, view.left) \in Fractions /\ Minus(view.upper, view.lower) \in Fractions
      BY <1>1, FractionsClosed
    <3>2. Num(b) \in Fractions /\ Num(b)[1] > 0 /\ Num(d) \in Fractions /\ Num(d)[1] > 0
      BY <2>2
    <3>3. QED
      BY <3>1, <3>2, FractionsClosed
  <2>4. /\ Point(p).x = Plus(Times(Num(p % b), h), view.left)
        /\ Point(p).y = Plus(Times(Num(p \div b), e), view.lower)
    BY DEF Point
  <2>5. Times(Num(p % b), h) \in Fractions /\ Times(Num(p \div b), e) \in Fractions
    BY <2>1, <2>2, <2>3, FractionsClosed
  <2>6. Point(p).x \in Fractions /\ Point(p).y \in Fractions
    BY <1>1, <2>4, <2>5, FractionsClosed
  <2>7. view.iters \in Nat
    BY <1>1, ViewIs
  <2>8. QED
    BY <2>6, <2>7, ExactIsSteady
<1>2. MandelbrotInit => view \in Views
  BY DEF MandelbrotInit
<1>3. view \in Views /\ [MandelbrotNext]_mandelbrotVars => (view \in Views)'
  BY DEF MandelbrotNext, mandelbrotVars, LoadPair, Iterate, StorePair, Single, Paint
<1>4. view \in Views => \A p \in Places : Steady(Point(p))
  BY <1>1
<1>5. QED
  BY <1>2, <1>3, <1>4, PTL DEF MandelbrotSpec
-----------------------------------------------------------------------------
(* Sobel: blocks, tiles and threads.                                      *)

Threads == (0..(kernel.dy - 1)) \X (0..(kernel.dx - 1))
Tiles == Nat \X Nat

\* An element of a product is a pair.
LEMMA PairIs ==
  ASSUME NEW S, NEW T, NEW p \in S \X T
  PROVE  p[1] \in S /\ p[2] \in T /\ p = <<p[1], p[2]>>
OBVIOUS

\* Threads beside one another
RowOfThreads(W) == \E y \in 0..(kernel.dy - 1) : W = {<<y, x>> : x \in 0..(kernel.dx - 1)}

\* What the kernels have
LEMMA KernelIs ==
  ASSUME kernel \in Kernels
  PROVE  /\ kernel.dy \in Nat \ {0} /\ kernel.dx \in Nat \ {0} /\ kernel.grid \in Nat \ {0}
         /\ kernel.passes \in Nat \ {0} /\ kernel.gap \in Nat \ {0} /\ kernel.shared \in BOOLEAN
         /\ \A W \in kernel.warps : W \subseteq Threads
         /\ \A th \in Threads : \E W \in kernel.warps : th \in W
         /\ kernel.shared => kernel \in {lab5, lab5_cor}
         /\ kernel = lab5 => /\ kernel.passes = 1 /\ kernel.gap = 2 /\ kernel.shared
                             /\ kernel.dy >= 2 /\ kernel.dx >= 2
                             /\ \A W \in kernel.warps : RowOfThreads(W)
         /\ kernel = lab5_cor => /\ kernel.gap = 1 /\ kernel.shared
                                 /\ \A W, U \in kernel.warps : W = U
<1> USE SobelAssumption
<1>1. CASE kernel = lab4
  <2>1. /\ kernel.dy = 1 /\ kernel.dx = TileSide /\ kernel.grid = SobelGrid /\ kernel.shared = FALSE
        /\ kernel.passes = 1 /\ kernel.gap = 1
        /\ kernel.warps = {{<<0, x>>} : x \in 0..(TileSide - 1)}
    BY <1>1 DEF lab4
  <2>2. kernel # lab5 /\ kernel # lab5_cor
    BY <2>1 DEF lab5, lab5_cor
  <2>3. \A W \in kernel.warps : W \subseteq Threads
    BY <2>1 DEF Threads
  <2>4. ASSUME NEW th \in Threads PROVE \E W \in kernel.warps : th \in W
    <3>1. th[2] \in 0..(TileSide - 1) /\ th = <<0, th[2]>>
      BY <2>1 DEF Threads
    <3>2. QED
      BY <2>1, <3>1
  <2>5. /\ kernel.dy \in Nat \ {0} /\ kernel.dx \in Nat \ {0} /\ kernel.grid \in Nat \ {0}
        /\ kernel.passes \in Nat \ {0} /\ kernel.gap \in Nat \ {0}
    BY <2>1
  <2>6. kernel.shared \in BOOLEAN /\ ~kernel.shared
    BY <2>1, Zenon
  <2>7. QED
    BY <2>2, <2>3, <2>4, <2>5, <2>6, Zenon
<1>2. CASE kernel = lab4_sample
  <2>1. /\ kernel.dy = 1 /\ kernel.dx = 1 /\ kernel.grid = 1 /\ kernel.shared = FALSE
        /\ kernel.passes = 1 /\ kernel.gap = 1 /\ kernel.warps = {{<<0, 0>>}}
    BY <1>2 DEF lab4_sample
  <2>2. kernel # lab5 /\ kernel # lab5_cor
    BY <2>1 DEF lab5, lab5_cor
  <2>3. \A W \in kernel.warps : W \subseteq Threads
    BY <2>1 DEF Threads
  <2>4. ASSUME NEW th \in Threads PROVE \E W \in kernel.warps : th \in W
    BY <2>1 DEF Threads
  <2>5. /\ kernel.dy \in Nat \ {0} /\ kernel.dx \in Nat \ {0} /\ kernel.grid \in Nat \ {0}
        /\ kernel.passes \in Nat \ {0} /\ kernel.gap \in Nat \ {0}
    BY <2>1
  <2>6. kernel.shared \in BOOLEAN /\ ~kernel.shared
    BY <2>1, Zenon
  <2>7. QED
    BY <2>2, <2>3, <2>4, <2>5, <2>6, Zenon
<1>3. CASE kernel = lab5
  <2>1. /\ kernel.dy = TileSide /\ kernel.dx = TileSide /\ kernel.grid = SobelGrid
        /\ kernel.shared = TRUE
        /\ kernel.passes = 1 /\ kernel.gap = 2
        /\ kernel.warps = {{<<y, x>> : x \in 0..(TileSide - 1)} : y \in 0..(TileSide - 1)}
    BY <1>3 DEF lab5
  <2>2. kernel # lab5_cor
    BY <2>1 DEF lab5_cor
  <2>3. \A W \in kernel.warps : W \subseteq Threads
    BY <2>1 DEF Threads
  <2>4. ASSUME NEW th \in Threads PROVE \E W \in kernel.warps : th \in W
    <3>1. th[1] \in 0..(TileSide - 1) /\ th[2] \in 0..(TileSide - 1) /\ th = <<th[1], th[2]>>
      BY <2>1 DEF Threads
    <3>2. th \in {<<th[1], x>> : x \in 0..(TileSide - 1)}
      BY <3>1
    <3>3. {<<th[1], x>> : x \in 0..(TileSide - 1)} \in kernel.warps
      <4>1. \A y \in 0..(TileSide - 1) :
               {<<y, x>> : x \in 0..(TileSide - 1)}
                 \in {{<<z, x>> : x \in 0..(TileSide - 1)} : z \in 0..(TileSide - 1)}
        OBVIOUS
      <4>2. kernel.warps = {{<<z, x>> : x \in 0..(TileSide - 1)} : z \in 0..(TileSide - 1)}
        BY <2>1
      <4>3. QED
        BY <3>1, <4>1, <4>2, Zenon
    <3>4. QED
      BY <3>2, <3>3, Zenon
  <2>5. /\ kernel.dy \in Nat \ {0} /\ kernel.dx \in Nat \ {0} /\ kernel.grid \in Nat \ {0}
        /\ kernel.passes \in Nat \ {0} /\ kernel.gap \in Nat \ {0}
    BY <2>1
  <2>6. /\ kernel.passes = 1 /\ kernel.gap = 2 /\ kernel \in {lab5, lab5_cor}
        /\ kernel.shared \in BOOLEAN /\ kernel.shared
    BY <1>3, <2>1, Zenon
  <2>7. \A W \in kernel.warps : RowOfThreads(W)
    BY <2>1 DEF RowOfThreads
  <2>8. kernel.dy >= 2 /\ kernel.dx >= 2
    BY <2>1
  <2>9. QED
    BY <2>2, <2>3, <2>4, <2>5, <2>6, <2>7, <2>8, Zenon
<1>4. CASE kernel = lab5_cor
  <2>1. /\ kernel.dy = 2 /\ kernel.dx = 2 /\ kernel.grid = SobelGrid /\ kernel.shared = TRUE
        /\ kernel.passes = 2 /\ kernel.gap = 1 /\ kernel.warps = {(0..1) \X (0..1)}
    BY <1>4 DEF lab5_cor
  <2>2. kernel # lab5
    BY <2>1 DEF lab5
  <2>3. Threads = (0..1) \X (0..1)
    BY <2>1 DEF Threads
  <2>4. /\ kernel.dy \in Nat \ {0} /\ kernel.dx \in Nat \ {0} /\ kernel.grid \in Nat \ {0}
        /\ kernel.passes \in Nat \ {0} /\ kernel.gap \in Nat \ {0}
    BY <2>1
  <2>5. /\ kernel.gap = 1 /\ kernel \in {lab5, lab5_cor}
        /\ kernel.shared \in BOOLEAN /\ kernel.shared
    BY <1>4, <2>1, Zenon
  <2>6. /\ \A W \in kernel.warps : W \subseteq Threads
        /\ \A th \in Threads : \E W \in kernel.warps : th \in W
        /\ \A W, U \in kernel.warps : W = U
    BY <2>1, <2>3
  <2>7. QED
    BY <2>2, <2>4, <2>5, <2>6, Zenon
<1>5. QED
  BY <1>1, <1>2, <1>3, <1>4 DEF Kernels

\* What the assumption on the pictures gives
LEMMA PictureIs ==
  ASSUME picture \in Pictures
  PROVE  height \in Nat \ {0} /\ width \in Nat \ {0}
BY SobelAssumption DEF height, width

\* A warp is one of a block's.
LEMMA WarpIs ==
  ASSUME kernel \in Kernels, NEW w \in Warps
  PROVE  /\ w[1] \in Blocks /\ w[1] \in Nat /\ w[2] \in kernel.warps /\ w[2] \subseteq Threads
         /\ \A th \in w[2] : /\ th \in Threads /\ th[1] \in Nat /\ th[2] \in Nat
                             /\ th[1] < kernel.dy /\ th[2] < kernel.dx
<1>1. w[1] \in Blocks /\ w[2] \in kernel.warps
  BY DEF Warps
<1>2. w[2] \subseteq Threads /\ w[1] \in Nat
  BY <1>1, KernelIs DEF Blocks
<1>3. ASSUME NEW th \in Threads
      PROVE  th[1] \in Nat /\ th[2] \in Nat /\ th[1] < kernel.dy /\ th[2] < kernel.dx
  <2>1. th[1] \in 0..(kernel.dy - 1) /\ th[2] \in 0..(kernel.dx - 1)
    BY DEF Threads
  <2>2. QED
    BY <2>1, KernelIs
<1>4. QED
  BY <1>1, <1>2, <1>3

\* The place of a thread: what its tile adds to it is not negative, and grows
\* with the tile.
Grows(b, th, T, m, n) ==
  \A U \in Tiles : T[1] <= U[1] /\ T[2] <= U[2] =>
    \E e, f \in Nat : Place(b, th, U) = <<m + e, n + f>>

\* A thread has a place in every tile, farther on the farther the tile.
LEMMA PlaceIs ==
  ASSUME kernel \in Kernels, NEW b \in Blocks, NEW th \in Threads, NEW T \in Tiles
  PROVE  \E m, n \in Nat : Place(b, th, T) = <<m, n>> /\ Grows(b, th, T, m, n)
<1> PICK dy \in Nat \ {0}, dx \in Nat \ {0}, g \in Nat \ {0} :
      dy = kernel.dy /\ dx = kernel.dx /\ g = kernel.grid
  BY KernelIs
<1> PICK y \in Nat, x \in Nat : y = th[1] /\ x = th[2]
  BY DEF Threads
<1>1. b \in Nat /\ T[1] \in Nat /\ T[2] \in Nat
  BY DEF Blocks, Tiles
<1> PICK m \in Nat, n \in Nat : m = b * dy + y + T[1] * g * dy /\ n = x + T[2] * dx
  <2>1. b * dy \in Nat /\ T[1] * g \in Nat /\ T[2] * dx \in Nat
    BY <1>1
  <2>2. (T[1] * g) * dy \in Nat
    BY <2>1
  <2>3. QED
    BY <2>1, <2>2
<1>2. Place(b, th, T) = <<m, n>>
  BY DEF Place
<1>3. ASSUME NEW U \in Tiles, T[1] <= U[1], T[2] <= U[2]
      PROVE  \E e, f \in Nat : Place(b, th, U) = <<m + e, n + f>>
  <2> PICK i \in Nat, j \in Nat : U[1] = T[1] + i /\ U[2] = T[2] + j
    <3>1. U[1] \in Nat /\ U[2] \in Nat
      BY DEF Tiles
    <3>2. U[1] - T[1] \in Nat /\ U[2] - T[2] \in Nat
      BY <1>1, <1>3, <3>1
    <3>3. U[1] = T[1] + (U[1] - T[1]) /\ U[2] = T[2] + (U[2] - T[2])
      BY <1>1, <3>1
    <3>4. QED
      BY <3>2, <3>3
  <2> PICK e \in Nat, f \in Nat : e = (i * g) * dy /\ f = j * dx
    <3>1. i * g \in Nat /\ j * dx \in Nat
      OBVIOUS
    <3>2. (i * g) * dy \in Nat
      BY <3>1
    <3>3. QED
      BY <3>1, <3>2
  <2>1. b * dy + y + U[1] * g * dy = m + e
    <3>1. (T[1] + i) * g * dy = T[1] * g * dy + (i * g) * dy
      BY <1>1
    <3>2. b * dy \in Nat /\ T[1] * g * dy \in Int
      BY <1>1
    <3>3. QED
      BY <3>1, <3>2
  <2>2. x + U[2] * dx = n + f
    <3>1. (T[2] + j) * dx = T[2] * dx + j * dx
      BY <1>1
    <3>2. T[2] * dx \in Int
      BY <1>1
    <3>3. QED
      BY <3>1, <3>2
  <2>3. Place(b, th, U) = <<b * dy + y + U[1] * g * dy, x + U[2] * dx>>
    BY DEF Place
  <2>4. QED
    BY <2>1, <2>2, <2>3
<1>4. Grows(b, th, T, m, n)
  BY <1>3 DEF Grows
<1>5. QED
  BY <1>2, <1>4
-----------------------------------------------------------------------------
\* The pixels are the pairs of a row and a column.
LEMMA PixelIs ==
  ASSUME picture \in Pictures, NEW m \in Nat, NEW n \in Nat
  PROVE  <<m, n>> \in Pixels <=> m < height /\ n < width
BY PictureIs DEF Pixels

\* A thread whose pixel is in the picture has one in every tile that is not
\* farther down or across.
LEMMA EarlierPlace ==
  ASSUME kernel \in Kernels, picture \in Pictures, NEW b \in Blocks, NEW th \in Threads,
         NEW T \in Tiles, NEW U \in Tiles, T[1] <= U[1], T[2] <= U[2], Place(b, th, U) \in Pixels
  PROVE  Place(b, th, T) \in Pixels
<1> PICK m \in Nat, n \in Nat : Place(b, th, T) = <<m, n>> /\ Grows(b, th, T, m, n)
  BY PlaceIs
<1> PICK e \in Nat, f \in Nat : Place(b, th, U) = <<m + e, n + f>>
  BY DEF Grows
<1>1. m + e < height /\ n + f < width
  BY PixelIs
<1>2. height \in Nat /\ width \in Nat
  BY PictureIs
<1>3. m < height /\ n < width
  BY <1>1, <1>2
<1>4. QED
  BY <1>3, PixelIs

\* How a warp begins a tile
LEMMA FirstStepIs ==
  ASSUME NEW w, NEW ti
  PROVE  /\ FirstStep(w, ti) \in {"load", "mask", "exit"}
         /\ FirstStep(w, ti) = "exit" <=> \A th \in w[2] : Place(w[1], th, ti) \notin Pixels
         /\ FirstStep(w, ti) = "load" => kernel.shared
         /\ FirstStep(w, ti) = "mask" => ~kernel.shared
<1>1. {Place(w[1], th, ti) : th \in w[2]} \cap Pixels = {}
        <=> \A th \in w[2] : Place(w[1], th, ti) \notin Pixels
  OBVIOUS
<1>2. FirstStep(w, ti) = IF {Place(w[1], th, ti) : th \in w[2]} \cap Pixels # {}
                         THEN IF kernel.shared THEN "load" ELSE "mask" ELSE "exit"
  BY DEF FirstStep
<1>3. QED
  BY <1>1, <1>2

\* The tiles a warp is at before ti
Before(T, ti) == T[1] < ti[1] \/ (T[1] = ti[1] /\ T[2] < ti[2])

\* A warp leaves out no tile where it has a pixel.
LEMMA NextTileIs ==
  ASSUME kernel \in Kernels, picture \in Pictures, NEW w \in Warps, NEW ti \in Tiles
  PROVE  /\ NextTile(w, ti) \in Tiles
         /\ FirstStep(w, NextTile(w, ti)) = "exit" => NextTile(w, ti)[2] = 0
         /\ \A T \in Tiles, th \in w[2] :
              Place(w[1], th, T) \in Pixels /\ Before(T, NextTile(w, ti)) => Before(T, ti) \/ T = ti
<1> PICK m \in Nat, n \in Nat : ti = <<m, n>>
  BY PairIs DEF Tiles
<1>1. CASE FirstStep(w, <<m, n + 1>>) # "exit"
  <2>1. NextTile(w, ti) = <<m, n + 1>>
    BY <1>1 DEF NextTile
  <2>2. ASSUME NEW T \in Tiles, Before(T, <<m, n + 1>>) PROVE Before(T, ti) \/ T = ti
    <3> PICK i \in Nat, j \in Nat : T = <<i, j>>
      BY PairIs DEF Tiles
    <3>1. i < m \/ (i = m /\ j < n + 1)
      BY <2>2 DEF Before
    <3>2. i < m \/ (i = m /\ j < n) \/ (i = m /\ j = n)
      BY <3>1
    <3>3. QED
      BY <3>2 DEF Before
  <2>3. QED
    BY <1>1, <2>1, <2>2 DEF Tiles
<1>2. CASE FirstStep(w, <<m, n + 1>>) = "exit"
  <2>1. NextTile(w, ti) = <<m + 1, 0>>
    BY <1>2 DEF NextTile
  <2>2. ASSUME NEW T \in Tiles, NEW th \in w[2], Place(w[1], th, T) \in Pixels,
               Before(T, <<m + 1, 0>>)
        PROVE  Before(T, ti) \/ T = ti
    <3> PICK i \in Nat, j \in Nat : T = <<i, j>>
      BY PairIs DEF Tiles
    <3>1. i <= m
      <4>1. i < m + 1 \/ (i = m + 1 /\ j < 0)
        BY <2>2 DEF Before
      <4>2. QED
        BY <4>1
    <3>2. ASSUME i = m, j > n PROVE FALSE
      <4>1. <<m, n + 1>> \in Tiles /\ <<m, n + 1>>[1] <= T[1] /\ <<m, n + 1>>[2] <= T[2]
        BY <3>2 DEF Tiles
      <4>2. w[1] \in Blocks /\ th \in Threads
        BY WarpIs
      <4>3. Place(w[1], th, <<m, n + 1>>) \in Pixels
        BY <2>2, <4>1, <4>2, EarlierPlace
      <4>4. QED
        BY <1>2, <4>3, FirstStepIs
    <3>3. i < m \/ (i = m /\ j < n) \/ (i = m /\ j = n)
      BY <3>1, <3>2
    <3>4. QED
      BY <3>3 DEF Before
  <2>3. QED
    BY <2>1, <2>2 DEF Tiles
<1>3. QED
  BY <1>1, <1>2

\* ... and when it leaves the loops it has been at all of them.
LEMMA NoTileIsLeft ==
  ASSUME kernel \in Kernels, picture \in Pictures, NEW w \in Warps, NEW ti \in Tiles,
         FirstStep(w, ti) = "exit", ti[2] = 0,
         NEW T \in Tiles, NEW th \in w[2], Place(w[1], th, T) \in Pixels
  PROVE  Before(T, ti)
<1> PICK m \in Nat, n \in Nat : ti = <<m, n>>
  BY PairIs DEF Tiles
<1> PICK i \in Nat, j \in Nat : T = <<i, j>>
  BY PairIs DEF Tiles
<1>1. CASE i < m
  BY <1>1 DEF Before
<1>2. CASE i >= m
  <2>1. ti[1] <= T[1] /\ ti[2] <= T[2]
    BY <1>2
  <2>2. w[1] \in Blocks /\ th \in Threads
    BY WarpIs
  <2>3. Place(w[1], th, ti) \in Pixels
    BY <2>1, <2>2, EarlierPlace
  <2>4. QED
    BY <2>3, FirstStepIs
<1>3. QED
  BY <1>1, <1>2

\* Every pixel is some thread's.
LEMMA PixelsHaveThreads ==
  ASSUME kernel \in Kernels, picture \in Pictures, NEW p \in Pixels
  PROVE  \E w \in Warps : \E th \in w[2], T \in Tiles : Place(w[1], th, T) = p
<1> PICK dy \in Nat \ {0}, dx \in Nat \ {0}, g \in Nat \ {0} :
      dy = kernel.dy /\ dx = kernel.dx /\ g = kernel.grid
  BY KernelIs
<1> PICK m \in Nat, n \in Nat : p = <<m, n>>
  BY PairIs, PictureIs DEF Pixels
<1> PICK q \in Nat, y \in 0..(dy - 1) : m = dy * q + y
  BY ONLY m \in Nat, dy \in Nat \ {0}, DivMod
<1> PICK i \in Nat, b \in 0..(g - 1) : q = g * i + b
  BY ONLY q \in Nat, g \in Nat \ {0}, DivMod
<1> PICK j \in Nat, x \in 0..(dx - 1) : n = dx * j + x
  BY ONLY n \in Nat, dx \in Nat \ {0}, DivMod
<1>1. <<y, x>> \in Threads /\ b \in Blocks /\ <<i, j>> \in Tiles
  BY DEF Threads, Blocks, Tiles
<1> PICK W \in kernel.warps : <<y, x>> \in W
  BY <1>1, KernelIs
<1>2. <<b, W>> \in Warps
  BY <1>1 DEF Warps
<1>3. Place(b, <<y, x>>, <<i, j>>) = <<b * dy + y + i * g * dy, x + j * dx>>
  BY DEF Place
<1>4. b * dy + y + i * g * dy = m
  <2>1. dy * (g * i + b) + y = b * dy + y + i * g * dy
    BY ONLY dy \in Nat \ {0}, g \in Nat \ {0}, i \in Nat, b \in 0..(g - 1), y \in 0..(dy - 1)
  <2>2. QED
    BY <2>1
<1>5. x + j * dx = n
  OBVIOUS
<1>6. Place(<<b, W>>[1], <<y, x>>, <<i, j>>) = p
  BY <1>3, <1>4, <1>5
<1>7. QED
  BY <1>1, <1>2, <1>6
-----------------------------------------------------------------------------
SobelTypes ==
  /\ kernel \in Kernels /\ picture \in Pictures
  /\ tile \in [Warps -> Tiles]
  /\ step \in [Warps -> {"load", "sync", "mask", "exit"}]
  /\ mask \in [Warps -> Nat \ {0}]
  /\ exact \in [Warps -> SUBSET Threads]
  /\ DOMAIN sm_s = Blocks
  /\ t \in [Pixels -> {Unset, "right", "wrong"}]

\* The warps leave out no pixel of a tile they are past, and leave the loops only
\* where they have no pixel.
Walked ==
  \A w \in Warps :
    /\ step[w] = "exit" <=> FirstStep(w, tile[w]) = "exit"
    /\ step[w] = "exit" => tile[w][2] = 0
    /\ \A T \in Tiles, th \in w[2] :
         Before(T, tile[w]) /\ Place(w[1], th, T) \in Pixels => t[Place(w[1], th, T)] # Unset

\* The pixels that are claimed to be right
Sure(p) == kernel = lab5 => ~Overtaken(p) /\ ~Lone(p)

NothingWrong ==
  /\ \A w \in Warps : \A th \in Active(w) : Sure(Place(w[1], th, tile[w])) => th \in exact[w]
  /\ \A p \in Pixels : Sure(p) => t[p] # "wrong"

\* lab5_cor.cu: a block is a single warp, and each thread loads all it reads.
Gathered(w) ==
  \A th \in Active(w) : \A d \in InPicture(Place(w[1], th, tile[w])) :
    sm_s[w[1]][Cell(th, d)] = Near(Place(w[1], th, tile[w]), d)

GatheredInv ==
  kernel = lab5_cor => \A w \in Warps : step[w] \in {"sync", "mask"} => Gathered(w)

\* lab5.cu: of two warps of a block only one that is about to read can be behind,
\* by a tile, and the one before it has not passed the next barrier.
Together(v, x) ==
  step[v] # "exit" =>
    /\ Before(tile[v], tile[x]) =>
         step[v] = "mask" /\ step[x] # "mask" /\ tile[x] = NextTile(v, tile[v])
    /\ tile[x] = tile[v] /\ step[v] = "mask" => step[x] \in {"mask", "exit"}

TogetherInv == kernel = lab5 => \A v, x \in Warps : v[1] = x[1] => Together(v, x)

\* After tile T block b has none.
LastTile(b, T) ==
  \A th \in Threads : /\ Place(b, th, <<T[1], T[2] + 1>>) \notin Pixels
                      /\ Place(b, th, <<T[1] + 1, 0>>) \notin Pixels

\* Warp x has loaded what it loads of tile T.
PastLoading(x, T) == (tile[x] = T /\ step[x] \in {"sync", "mask"}) \/ Before(T, tile[x])

\* lab5.cu: what a warp has loaded of its block's last tile stays.
Kept(x, T) ==
  \A th \in x[2] : Place(x[1], th, T) \in Pixels =>
    \A d \in Loaded(Place(x[1], th, T)) :
      sm_s[x[1]][Cell(th, d)] = Near(Place(x[1], th, T), d)

KeptInv ==
  kernel = lab5 => \A x \in Warps, T \in Tiles :
                     LastTile(x[1], T) /\ PastLoading(x, T) => Kept(x, T)

SobelInv == SobelTypes /\ Walked /\ NothingWrong /\ GatheredInv /\ TogetherInv /\ KeptInv

-----------------------------------------------------------------------------
\* The place in the picture of cell c of a warp at tile ti
Home(w, ti, c) == <<w[1] * kernel.dy + (c[1] - 2) + ti[1] * kernel.grid * kernel.dy,
                    c[2] - 2 + ti[2] * kernel.dx>>

\* A neighbour of a pixel is where the tile's frame has it.
LEMMA NearIsHome ==
  ASSUME kernel \in Kernels, NEW w \in Warps, NEW ti \in Tiles, NEW th \in w[2],
         NEW d \in Bound \X Bound
  PROVE  Near(Place(w[1], th, ti), d) = Home(w, ti, Cell(th, d)) /\ Cell(th, d) \in TileCells
<1> PICK dy \in Nat \ {0}, dx \in Nat \ {0}, g \in Nat \ {0} :
      dy = kernel.dy /\ dx = kernel.dx /\ g = kernel.grid
  BY KernelIs
<1> PICK y \in Nat, x \in Nat : y = th[1] /\ x = th[2] /\ y < dy /\ x < dx
  BY WarpIs
<1> PICK v \in -2..2, u \in -2..2 : d = <<v, u>>
  BY PairIs DEF Bound
<1> PICK b \in Nat, i \in Nat, j \in Nat : b = w[1] /\ i = ti[1] /\ j = ti[2]
  BY WarpIs DEF Tiles
<1> PICK m \in Nat, e \in Nat, f \in Nat : m = b * dy /\ e = i * g * dy /\ f = j * dx
  <2>1. b * dy \in Nat /\ j * dx \in Nat /\ i * g \in Nat
    OBVIOUS
  <2>2. i * g * dy \in Nat
    BY <2>1
  <2>3. QED
    BY <2>1, <2>2
<1>1. Place(w[1], th, ti) = <<m + y + e, x + f>>
  BY DEF Place
<1>2. Near(Place(w[1], th, ti), d) = <<m + y + e + v, x + f + u>>
  BY <1>1 DEF Near
<1>3. Cell(th, d) = <<v + 2 + y, u + 2 + x>>
  BY DEF Cell
<1>4. Home(w, ti, Cell(th, d)) = <<m + ((v + 2 + y) - 2) + e, (u + 2 + x) - 2 + f>>
  BY <1>3 DEF Home
<1>5. m + ((v + 2 + y) - 2) + e = m + y + e + v /\ (u + 2 + x) - 2 + f = x + f + u
  BY ONLY m \in Nat, e \in Nat, f \in Nat, y \in Nat, x \in Nat, v \in -2..2, u \in -2..2
<1>6. v + 2 + y \in 0..(dy + 3) /\ u + 2 + x \in 0..(dx + 3)
  BY ONLY dy \in Nat \ {0}, dx \in Nat \ {0}, y \in Nat, x \in Nat, v \in -2..2, u \in -2..2,
          y < dy, x < dx
<1>7. Cell(th, d) \in TileCells
  BY <1>3, <1>6 DEF TileCells
<1>8. QED
  BY <1>2, <1>4, <1>5, <1>7

\* A warp's loads put into each cell the place that belongs there or nothing.
LEMMA LoadIs ==
  ASSUME kernel \in Kernels, DOMAIN sm_s = Blocks, tile \in [Warps -> Tiles],
         NEW w \in Warps, Load(w)
  PROVE  /\ \A c \in TileCells : sm_s'[w[1]][c] \in {sm_s[w[1]][c], Home(w, tile[w], c)}
         /\ \A th \in Active(w) : \A d \in Loaded(Place(w[1], th, tile[w])) :
              sm_s'[w[1]][Cell(th, d)] = Home(w, tile[w], Cell(th, d))
         /\ \A b \in Blocks \ {w[1]} : sm_s'[b] = sm_s[b]
         /\ DOMAIN sm_s' = Blocks
<1> DEFINE from == [c \in TileCells |->
             {Near(Place(w[1], td[1], tile[w]), td[2]) : td \in
               {td \in Active(w) \X (Bound \X Bound) :
                  /\ td[2] \in Loaded(Place(w[1], td[1], tile[w]))
                  /\ Cell(td[1], td[2]) = c}}]
<1>1. sm_s' = [sm_s EXCEPT ![w[1]] =
                 [c \in TileCells |-> IF from[c] = {} THEN @[c] ELSE CHOOSE p \in from[c] : TRUE]]
  BY DEF Load
<1>2. w[1] \in Blocks /\ tile[w] \in Tiles
  BY WarpIs
<1>3. ASSUME NEW c \in TileCells, NEW p \in from[c] PROVE p = Home(w, tile[w], c)
  <2> PICK td \in Active(w) \X (Bound \X Bound) :
        p = Near(Place(w[1], td[1], tile[w]), td[2]) /\ Cell(td[1], td[2]) = c
    BY <1>3
  <2>1. td[1] \in w[2] /\ td[2] \in Bound \X Bound
    BY PairIs DEF Active
  <2>2. QED
    BY <1>2, <2>1, NearIsHome
<1>4. ASSUME NEW th \in Active(w), NEW d \in Loaded(Place(w[1], th, tile[w]))
      PROVE  Cell(th, d) \in TileCells /\ from[Cell(th, d)] # {}
  <2>1. d \in Bound \X Bound /\ th \in w[2]
    BY DEF Loaded, InPicture, Active
  <2>2. Cell(th, d) \in TileCells
    BY <1>2, <2>1, NearIsHome
  <2>3. <<th, d>> \in Active(w) \X (Bound \X Bound) /\ <<th, d>>[1] = th /\ <<th, d>>[2] = d
    BY <2>1
  <2>4. Near(Place(w[1], th, tile[w]), d) \in from[Cell(th, d)]
    BY <1>4, <2>2, <2>3
  <2>5. QED
    BY <2>2, <2>4
<1> HIDE DEF from
<1>5. \A c \in TileCells :
        sm_s'[w[1]][c] = IF from[c] = {} THEN sm_s[w[1]][c] ELSE CHOOSE p \in from[c] : TRUE
  BY <1>1, <1>2
<1>6. ASSUME NEW c \in TileCells, from[c] # {}
      PROVE  (CHOOSE p \in from[c] : TRUE) = Home(w, tile[w], c)
  BY <1>3, <1>6
<1>7. QED
  BY <1>1, <1>2, <1>4, <1>5, <1>6
-----------------------------------------------------------------------------
\* A step leaves the kernel and its picture as they are.
LEMMA SameKernel ==
  ASSUME kernel' = kernel, picture' = picture
  PROVE  /\ Warps' = Warps /\ Blocks' = Blocks /\ Pixels' = Pixels /\ TileCells' = TileCells
         /\ Threads' = Threads
         /\ \A p : Sure(p)' = Sure(p) /\ Loaded(p)' = Loaded(p)
         /\ \A w, T : NextTile(w, T)' = NextTile(w, T) /\ LastTile(w, T)' = LastTile(w, T)
         /\ \A b, th, T : Place(b, th, T)' = Place(b, th, T)
         /\ \A w, ti : FirstStep(w, ti)' = FirstStep(w, ti)
         /\ \A p : InPicture(p)' = InPicture(p)
<1>1. Warps' = Warps /\ Blocks' = Blocks /\ Pixels' = Pixels
  BY DEF Warps, Blocks, Pixels, height, width
<1>2. TileCells' = TileCells /\ Threads' = Threads
  BY DEF TileCells, Threads
<1>3. \A p : Sure(p)' = Sure(p) /\ Loaded(p)' = Loaded(p)
  BY DEF Sure, Overtaken, Lone, Loaded, InPicture, Pixels, Near, height, width
<1>4. \A b, th, T : Place(b, th, T)' = Place(b, th, T)
  BY DEF Place
<1>5. \A w, ti : FirstStep(w, ti)' = FirstStep(w, ti)
  BY DEF FirstStep, Place, Pixels, height, width
<1>6. \A p : InPicture(p)' = InPicture(p)
  BY DEF InPicture, Pixels, height, width
<1>7. \A w, T : NextTile(w, T)' = NextTile(w, T) /\ LastTile(w, T)' = LastTile(w, T)
  <2>1. \A w, T : NextTile(w, T)' = NextTile(w, T)
    BY DEF NextTile, FirstStep, Place, Pixels, height, width
  <2>2. \A b, T : LastTile(b, T)' = LastTile(b, T)
    BY DEF LastTile, Place, Pixels, Threads, height, width
  <2>3. QED
    BY <2>1, <2>2
<1>8. QED
  BY <1>1, <1>2, <1>3, <1>4, <1>5, <1>6, <1>7

\* A warp that stays at its tile keeps its threads' places.
LEMMA SameTile ==
  ASSUME kernel' = kernel, picture' = picture, NEW w, tile'[w] = tile[w]
  PROVE  /\ Active(w)' = Active(w)
         /\ \A th : Place(w[1], th, tile[w])' = Place(w[1], th, tile[w])
         /\ sm_s'[w[1]] = sm_s[w[1]] => Gathered(w)' = Gathered(w)
<1>1. Active(w)' = Active(w)
  BY DEF Active, Place, Pixels, height, width
<1>2. \A th : Place(w[1], th, tile[w])' = Place(w[1], th, tile[w])
  BY DEF Place
<1>3. ASSUME sm_s'[w[1]] = sm_s[w[1]] PROVE Gathered(w)' = Gathered(w)
  <2>1. \A p : InPicture(p)' = InPicture(p)
    BY SameKernel
  <2>2. \A p, d : Near(p, d)' = Near(p, d)
    BY DEF Near
  <2>3. \A th, d : Cell(th, d)' = Cell(th, d)
    BY DEF Cell
  <2>4. QED
    BY <1>1, <1>2, <1>3, <2>1, <2>2, <2>3 DEF Gathered
<1>4. QED
  BY <1>1, <1>2, <1>3

\* The threads that have a pixel in the warp's tile
LEMMA ActiveIs ==
  ASSUME NEW w, NEW th
  PROVE  th \in Active(w) <=> th \in w[2] /\ Place(w[1], th, tile[w]) \in Pixels
BY DEF Active

\* Of two tiles one is before the other.
LEMMA TilesInOrder ==
  ASSUME NEW T \in Tiles, NEW U \in Tiles
  PROVE  /\ T = U \/ Before(T, U) \/ Before(U, T)
         /\ ~Before(T, T) /\ ~(Before(T, U) /\ Before(U, T))
         /\ \A V \in Tiles : Before(T, U) /\ Before(U, V) => Before(T, V)
<1>1. ASSUME NEW A \in Tiles PROVE A[1] \in Nat /\ A[2] \in Nat /\ A = <<A[1], A[2]>>
  BY PairIs DEF Tiles
<1>2. T = U \/ Before(T, U) \/ Before(U, T)
  <2>1. T[1] = U[1] /\ T[2] = U[2] => T = U
    BY <1>1
  <2>2. QED
    BY <1>1, <2>1 DEF Before
<1>3. QED
  BY <1>1, <1>2 DEF Before

\* A warp comes to no tile after its block's last one.
LEMMA NoneAfterLast ==
  ASSUME kernel \in Kernels, picture \in Pictures, NEW w \in Warps, NEW T \in Tiles,
         NEW U \in Tiles, LastTile(w[1], T), FirstStep(w, U) # "exit"
  PROVE  ~Before(T, U)
<1> PICK th \in w[2] : Place(w[1], th, U) \in Pixels
  BY FirstStepIs
<1>1. w[1] \in Blocks /\ th \in Threads
  BY WarpIs
<1> PICK i \in Nat, j \in Nat : T = <<i, j>>
  BY PairIs DEF Tiles
<1> PICK m \in Nat, n \in Nat : U = <<m, n>>
  BY PairIs DEF Tiles
<1>2. Place(w[1], th, <<i, j + 1>>) \notin Pixels /\ Place(w[1], th, <<i + 1, 0>>) \notin Pixels
  BY <1>1 DEF LastTile
<1>3. <<i, j + 1>> \in Tiles /\ <<i + 1, 0>> \in Tiles
  BY DEF Tiles
<1>4. ~(i + 1 <= m) /\ ~(i <= m /\ j + 1 <= n)
  BY <1>1, <1>2, <1>3, EarlierPlace
<1>5. QED
  BY <1>4 DEF Before

\* The pixels that are not overtaken are those of the last tile.
LEMMA LastTileIs ==
  ASSUME kernel \in Kernels, picture \in Pictures, NEW b \in Blocks, NEW th \in Threads,
         NEW T \in Tiles, ~Overtaken(Place(b, th, T))
  PROVE  LastTile(b, T)
<1> PICK dy \in Nat \ {0}, dx \in Nat \ {0}, g \in Nat \ {0} :
      dy = kernel.dy /\ dx = kernel.dx /\ g = kernel.grid
  BY KernelIs
<1> PICK y \in 0..(dy - 1), x \in 0..(dx - 1) : th = <<y, x>>
  BY PairIs DEF Threads
<1> PICK i \in Nat, j \in Nat : T = <<i, j>>
  BY PairIs DEF Tiles
<1>1. b \in Nat
  BY DEF Blocks
<1> PICK h \in Nat, c \in Nat : h = height /\ c = width
  BY PictureIs
<1> PICK q \in Nat : q = b + i * g
  BY <1>1
<1>2. Place(b, th, T) = <<q * dy + y, j * dx + x>>
  <2>1. b * dy + y + i * g * dy = (b + i * g) * dy + y /\ x + j * dx = j * dx + x
    BY <1>1
  <2>2. Place(b, th, T) = <<b * dy + y + i * g * dy, x + j * dx>>
    BY DEF Place
  <2>3. QED
    BY <2>1, <2>2
<1>3. (q * dy + y) \div dy = q /\ (j * dx + x) \div dx = j
  BY DivOfSum
<1>4. (j + 1) * dx >= c /\ (q + g) * dy >= h
  <2>1. ~((j + 1) * dx < c) /\ ~((q + g) * dy < h)
    BY <1>2, <1>3 DEF Overtaken
  <2>2. (j + 1) * dx \in Nat /\ (q + g) * dy \in Nat
    OBVIOUS
  <2>3. QED
    BY <2>1, <2>2
<1>5. ASSUME NEW o \in Threads
      PROVE  Place(b, o, <<i, j + 1>>) \notin Pixels /\ Place(b, o, <<i + 1, 0>>) \notin Pixels
  <2> PICK v \in 0..(dy - 1), u \in 0..(dx - 1) : o = <<v, u>>
    BY PairIs DEF Threads
  <2>1. /\ Place(b, o, <<i, j + 1>>) = <<b * dy + v + i * g * dy, u + (j + 1) * dx>>
        /\ Place(b, o, <<i + 1, 0>>) = <<b * dy + v + (i + 1) * g * dy, u + 0 * dx>>
    BY DEF Place
  <2>2. b * dy + v + (i + 1) * g * dy = (b + i * g + g) * dy + v
    BY ONLY <1>1, dy \in Nat \ {0}, g \in Nat \ {0}, i \in Nat, v \in 0..(dy - 1)
  <2>3. u + (j + 1) * dx >= c
    <3>1. (j + 1) * dx \in Nat
      OBVIOUS
    <3>2. QED
      BY <1>4, <3>1
  <2>4. (q + g) * dy + v >= h
    <3>1. (q + g) * dy \in Nat
      OBVIOUS
    <3>2. QED
      BY <1>4, <3>1
  <2>5. \A m, n : <<m, n>> \in Pixels => m \in Int /\ n \in Int /\ m < h /\ n < c
    BY DEF Pixels
  <2>6. u + (j + 1) * dx \in Int /\ (q + g) * dy + v \in Int
    OBVIOUS
  <2>7. ~(u + (j + 1) * dx < c) /\ ~((q + g) * dy + v < h)
    BY <2>3, <2>4, <2>6
  <2>8. QED
    BY <2>1, <2>2, <2>5, <2>7, Zenon
<1>6. QED
  BY <1>5 DEF LastTile

\* A warp's next tile is later.
LEMMA NextTileIsLater ==
  ASSUME NEW w, NEW T \in Tiles
  PROVE  Before(T, NextTile(w, T))
<1> PICK i \in Nat, j \in Nat : T = <<i, j>>
  BY PairIs DEF Tiles
<1>1. NextTile(w, T) = <<i, j + 1>> \/ NextTile(w, T) = <<i + 1, 0>>
  BY DEF NextTile
<1>2. QED
  BY <1>1 DEF Before

\* Two warps of a block of lab5.cu that have pixels in a tile go on to the same.
LEMMA SameNext ==
  ASSUME kernel \in Kernels, picture \in Pictures, kernel = lab5, NEW v \in Warps, NEW w \in Warps,
         v[1] = w[1], NEW T \in Tiles, FirstStep(v, T) # "exit", FirstStep(w, T) # "exit"
  PROVE  NextTile(v, T) = NextTile(w, T)
<1> PICK i \in Nat, j \in Nat : T = <<i, j>>
  BY PairIs DEF Tiles
<1>1. ASSUME NEW a \in Warps, NEW e \in Warps, a[1] = e[1], FirstStep(e, T) # "exit",
             FirstStep(a, <<i, j + 1>>) # "exit"
      PROVE  FirstStep(e, <<i, j + 1>>) # "exit"
  <2> PICK b \in Nat : b = a[1]
    BY WarpIs
  <2> PICK dy \in Nat \ {0}, dx \in Nat \ {0}, g \in Nat \ {0} :
        dy = kernel.dy /\ dx = kernel.dx /\ g = kernel.grid
    BY KernelIs
  <2> PICK th \in a[2] : Place(b, th, <<i, j + 1>>) \in Pixels
    BY <1>1, FirstStepIs
  <2> PICK o \in e[2] : Place(b, o, T) \in Pixels
    BY <1>1, FirstStepIs
  <2>1. th[2] \in 0..(dx - 1)
    BY WarpIs DEF Threads
  <2> PICK y \in 0..(dy - 1) : e[2] = {<<y, x>> : x \in 0..(dx - 1)}
    BY WarpIs, KernelIs DEF RowOfThreads
  <2>2. o[1] = y /\ <<y, th[2]>> \in e[2]
    BY <2>1
  <2>3. /\ Place(b, th, <<i, j + 1>>) = <<b * dy + th[1] + i * g * dy, th[2] + (j + 1) * dx>>
        /\ Place(b, o, T) = <<b * dy + o[1] + i * g * dy, o[2] + j * dx>>
        /\ Place(b, <<y, th[2]>>, <<i, j + 1>>) = <<b * dy + y + i * g * dy, th[2] + (j + 1) * dx>>
    BY DEF Place
  <2>4. \A m, n, k, l : <<m, n>> \in Pixels /\ <<k, l>> \in Pixels => <<m, l>> \in Pixels
    BY DEF Pixels
  <2>5. Place(b, <<y, th[2]>>, <<i, j + 1>>) \in Pixels
    BY <2>2, <2>3, <2>4
  <2>6. QED
    BY <1>1, <2>2, <2>5, FirstStepIs
<1>2. FirstStep(v, <<i, j + 1>>) # "exit" <=> FirstStep(w, <<i, j + 1>>) # "exit"
  BY <1>1
<1>3. QED
  BY <1>2 DEF NextTile

\* Along one axis: thread y of a tile of s at o, in a picture of n, has a thread
\* of the tile that loads its neighbour at distance e and has a pixel.
HasLoader(s, o, n, y, e) ==
  \E v \in 0..(s - 1), f \in Bound : v + f = y + e /\ o + v < n /\ (f + 2) % 2 = 0

\* Along one axis: the cell of a neighbour is loaded by a thread of the tile that
\* has a pixel, that of the neighbour or one beside it.
LEMMA LoaderOnAxis ==
  ASSUME NEW s \in Nat, s >= 2, NEW o \in Nat, NEW n \in Nat, NEW y \in 0..(s - 1),
         o + y < n, NEW e \in Bound, 0 <= o + y + e, o + y + e < n,
         ~(o + y = n - 1 /\ y = 0 /\ o + y > 0)
  PROVE  HasLoader(s, o, n, y, e)
<1> USE DEF HasLoader
<1>1. e \in -2..2
  BY DEF Bound
<1>2. \A f \in {-2, 0, 2} : f \in Bound /\ (f + 2) % 2 = 0
  BY DEF Bound
<1>3. CASE e \in {-2, 0, 2}
  BY <1>2, <1>3
<1>4. CASE e \in {-1, 1} /\ y > 0
  <2>1. y - 1 \in 0..(s - 1) /\ e + 1 \in {-2, 0, 2} /\ (y - 1) + (e + 1) = y + e /\ o + (y - 1) < n
    BY <1>4
  <2>2. QED
    BY <1>2, <2>1
<1>5. CASE e \in {-1, 1} /\ y = 0
  <2>1. y + 1 \in 0..(s - 1) /\ e - 1 \in {-2, 0, 2} /\ (y + 1) + (e - 1) = y + e
    BY <1>5
  <2>2. o + (y + 1) < n
    BY <1>5
  <2>3. QED
    BY <1>2, <2>1, <2>2
<1>6. QED
  BY <1>1, <1>3, <1>4, <1>5

\* lab5.cu: some thread of the tile loads the cell of a neighbour, but for the
\* pixels that are alone in a row or column.
LEMMA LoaderIs ==
  ASSUME kernel \in Kernels, picture \in Pictures, kernel = lab5, NEW b \in Blocks,
         NEW th \in Threads, NEW T \in Tiles, NEW p \in Pixels, p = Place(b, th, T), ~Lone(p),
         NEW d \in InPicture(p)
  PROVE  \E o \in Threads : /\ Place(b, o, T) \in Pixels
                            /\ \E e \in Loaded(Place(b, o, T)) :
                                 Cell(o, e) = Cell(th, d) /\ Near(Place(b, o, T), e) = Near(p, d)
<1> PICK dy \in Nat \ {0}, dx \in Nat \ {0}, g \in Nat \ {0} :
      dy = kernel.dy /\ dx = kernel.dx /\ g = kernel.grid /\ dy >= 2 /\ dx >= 2
  BY KernelIs
<1> PICK y \in 0..(dy - 1), x \in 0..(dx - 1) : th = <<y, x>>
  BY PairIs DEF Threads
<1> PICK i \in Nat, j \in Nat : T = <<i, j>>
  BY PairIs DEF Tiles
<1>1. b \in Nat /\ d \in Bound \X Bound /\ Near(p, d) \in Pixels
  BY DEF Blocks, InPicture
<1> PICK v \in Bound, u \in Bound : d = <<v, u>>
  BY <1>1, PairIs
<1> PICK h \in Nat, c \in Nat : h = height /\ c = width
  BY PictureIs
<1> PICK q \in Nat : q = b + i * g
  BY <1>1
<1> PICK m \in Nat, n \in Nat : m = q * dy /\ n = j * dx
  OBVIOUS
<1>2. ASSUME NEW o1 \in Nat, NEW o2 \in Nat PROVE Place(b, <<o1, o2>>, T) = <<m + o1, n + o2>>
  <2>1. b * dy + o1 + i * g * dy = (b + i * g) * dy + o1 /\ o2 + j * dx = j * dx + o2
    BY <1>1
  <2>2. Place(b, <<o1, o2>>, T) = <<b * dy + o1 + i * g * dy, o2 + j * dx>>
    BY DEF Place
  <2>3. QED
    BY <2>1, <2>2
<1>3. p = <<m + y, n + x>> /\ Near(p, d) = <<m + y + v, n + x + u>>
  BY <1>2 DEF Near
<1>4. m + y < h /\ n + x < c
  BY <1>3, PixelIs
<1>5. /\ 0 <= m + y + v /\ m + y + v < h
      /\ 0 <= n + x + u /\ n + x + u < c
  <2>1. \A k, l : <<k, l>> \in Pixels => k \in 0..(h - 1) /\ l \in 0..(c - 1)
    BY DEF Pixels
  <2>2. m + y + v \in 0..(h - 1) /\ n + x + u \in 0..(c - 1)
    BY <1>1, <1>3, <2>1
  <2>3. QED
    BY <2>2
<1>6. ~(m + y = h - 1 /\ y = 0 /\ m + y > 0) /\ ~(n + x = c - 1 /\ x = 0 /\ n + x > 0)
  <2>1. (q * dy + y) % dy = y /\ (j * dx + x) % dx = x
    BY DivOfSum
  <2>2. ~(m + y = h - 1 /\ (m + y) % dy = 0 /\ m + y > 0)
        /\ ~(n + x = c - 1 /\ (n + x) % dx = 0 /\ n + x > 0)
    BY <1>3 DEF Lone
  <2>3. QED
    BY <2>1, <2>2
<1> PICK o1 \in 0..(dy - 1), e1 \in Bound : o1 + e1 = y + v /\ m + o1 < h /\ (e1 + 2) % 2 = 0
  <2>1. dy \in Nat /\ m + y < h /\ 0 <= m + y + v /\ m + y + v < h
    BY <1>4, <1>5
  <2>2. ~(m + y = h - 1 /\ y = 0 /\ m + y > 0)
    BY <1>6
  <2>3. HasLoader(dy, m, h, y, v)
    BY ONLY <2>1, <2>2, dy >= 2, m \in Nat, h \in Nat, y \in 0..(dy - 1), v \in Bound,
            LoaderOnAxis
  <2>4. QED
    BY <2>3 DEF HasLoader
<1> PICK o2 \in 0..(dx - 1), e2 \in Bound : o2 + e2 = x + u /\ n + o2 < c /\ (e2 + 2) % 2 = 0
  <2>1. dx \in Nat /\ n + x < c /\ 0 <= n + x + u /\ n + x + u < c
    BY <1>4, <1>5
  <2>2. ~(n + x = c - 1 /\ x = 0 /\ n + x > 0)
    BY <1>6
  <2>3. HasLoader(dx, n, c, x, u)
    BY ONLY <2>1, <2>2, dx >= 2, n \in Nat, c \in Nat, x \in 0..(dx - 1), u \in Bound,
            LoaderOnAxis
  <2>4. QED
    BY <2>3 DEF HasLoader
<1> DEFINE o == <<o1, o2>>
           e == <<e1, e2>>
<1>7. o \in Threads /\ Place(b, o, T) = <<m + o1, n + o2>> /\ Place(b, o, T) \in Pixels
  BY <1>2, PixelIs DEF Threads
<1>8. e1 \in Int /\ e2 \in Int /\ v \in Int /\ u \in Int
  BY DEF Bound
<1>9. Near(Place(b, o, T), e) = Near(p, d)
  <2>1. Near(Place(b, o, T), e) = <<m + o1 + e1, n + o2 + e2>>
    BY <1>7 DEF Near
  <2>2. m + o1 + e1 = m + (y + v) /\ n + o2 + e2 = n + (x + u)
    <3>1. m + o1 + e1 = m + (o1 + e1) /\ n + o2 + e2 = n + (o2 + e2)
      BY ONLY <1>8, m \in Nat, n \in Nat, o1 \in 0..(dy - 1), o2 \in 0..(dx - 1)
    <3>2. QED
      BY <3>1
  <2>4. m + (y + v) = m + y + v /\ n + (x + u) = n + x + u
    BY ONLY <1>8, m \in Nat, n \in Nat, y \in 0..(dy - 1), x \in 0..(dx - 1)
  <2>3. QED
    BY <1>3, <2>1, <2>2, <2>4
<1>10. Cell(o, e) = Cell(th, d)
  <2>1. e1 + 2 + o1 = v + 2 + y /\ e2 + 2 + o2 = u + 2 + x
    BY <1>8
  <2>2. Cell(o, e) = <<e1 + 2 + o1, e2 + 2 + o2>> /\ Cell(th, d) = <<v + 2 + y, u + 2 + x>>
    BY DEF Cell
  <2>3. QED
    BY <2>1, <2>2
<1>11. e \in Loaded(Place(b, o, T))
  <2>1. e \in InPicture(Place(b, o, T))
    BY <1>1, <1>9 DEF InPicture
  <2>2. kernel.gap = 2
    BY KernelIs
  <2>3. QED
    BY <2>1, <2>2 DEF Loaded
<1>12. QED
  BY <1>7, <1>9, <1>10, <1>11

\* While a warp of lab5.cu reads of a tile, every warp with a pixel there is past
\* its loads of the tile.
LEMMA AllPastLoading ==
  ASSUME SobelInv, kernel = lab5, NEW w \in Warps, step[w] = "mask", NEW x \in Warps,
         x[1] = w[1], NEW th \in x[2], Place(x[1], th, tile[w]) \in Pixels
  PROVE  PastLoading(x, tile[w])
<1> USE DEF SobelInv, SobelTypes
<1>1. Together(w, x) /\ Together(x, w) /\ tile[w] \in Tiles /\ tile[x] \in Tiles
  BY DEF TogetherInv
<1>2. FirstStep(x, tile[w]) # "exit"
  BY FirstStepIs
<1>3. CASE tile[x] = tile[w]
  <2>1. step[x] # "exit"
    BY <1>2, <1>3 DEF Walked
  <2>2. step[x] = "mask"
    BY <1>1, <1>3, <2>1 DEF Together
  <2>3. QED
    BY <1>3, <2>2 DEF PastLoading
<1>4. CASE Before(tile[x], tile[w])
  <2>1. step[x] = "exit"
    BY <1>1, <1>4 DEF Together
  <2>2. FirstStep(x, tile[x]) = "exit" /\ tile[x][2] = 0
    BY <2>1 DEF Walked
  <2>3. Before(tile[w], tile[x])
    BY <1>1, <2>2, NoTileIsLeft
  <2>4. QED
    BY <2>3 DEF PastLoading
<1>5. CASE Before(tile[w], tile[x])
  BY <1>5 DEF PastLoading
<1>6. QED
  BY <1>1, <1>3, <1>4, <1>5, TilesInOrder

\* The threads whose pixels are claimed to be right read what weighs at its place.
LEMMA ReadsAreRight ==
  ASSUME SobelInv, NEW w \in Warps, step[w] = "mask", NEW th \in Active(w),
         Sure(Place(w[1], th, tile[w]))
  PROVE  th \in Reads(w)
<1> USE DEF SobelInv, SobelTypes
<1> PICK p \in Pixels : p = Place(w[1], th, tile[w])
  BY ActiveIs
<1>1. ASSUME kernel.shared, NEW d \in Weighs(p)
      PROVE  sm_s[w[1]][Cell(th, d)] = Near(p, d)
  <2>1. d \in InPicture(p)
    BY <1>1 DEF Weighs
  <2>2. CASE kernel = lab5_cor
    BY <2>1, <2>2 DEF GatheredInv, Gathered
  <2>3. CASE kernel = lab5
    <3>1. ~Overtaken(p) /\ ~Lone(p)
      BY <2>3 DEF Sure
    <3>2. w[1] \in Blocks /\ th \in Threads /\ tile[w] \in Tiles
      BY ActiveIs, WarpIs
    <3> PICK o \in Threads : /\ Place(w[1], o, tile[w]) \in Pixels
                             /\ \E e \in Loaded(Place(w[1], o, tile[w])) :
                                  /\ Cell(o, e) = Cell(th, d)
                                  /\ Near(Place(w[1], o, tile[w]), e) = Near(p, d)
      BY <2>1, <2>3, <3>1, <3>2, LoaderIs
    <3> PICK e \in Loaded(Place(w[1], o, tile[w])) :
          Cell(o, e) = Cell(th, d) /\ Near(Place(w[1], o, tile[w]), e) = Near(p, d)
      OBVIOUS
    <3> PICK W \in kernel.warps : o \in W
      BY KernelIs
    <3> PICK x : x = <<w[1], W>>
      OBVIOUS
    <3>3. x \in Warps /\ x[1] = w[1] /\ o \in x[2]
      BY <3>2 DEF Warps
    <3>4. PastLoading(x, tile[w])
      BY <2>3, <3>3, AllPastLoading
    <3>5. LastTile(x[1], tile[w])
      BY <3>1, <3>2, <3>3, LastTileIs
    <3>6. Kept(x, tile[w])
      BY <2>3, <3>2, <3>3, <3>4, <3>5 DEF KeptInv
    <3>7. sm_s[w[1]][Cell(o, e)] = Near(Place(w[1], o, tile[w]), e)
      BY <3>3, <3>6 DEF Kept
    <3>8. QED
      BY <3>7
  <2>4. QED
    BY <1>1, <2>2, <2>3, KernelIs
<1>2. QED
  BY <1>1 DEF Reads
-----------------------------------------------------------------------------
\* The invariant holds at the start.
LEMMA SobelBegins == SobelInit => SobelInv
<1> SUFFICES ASSUME SobelInit PROVE SobelInv
  OBVIOUS
<1> USE DEF SobelInit
<1>1. kernel \in Kernels /\ picture \in Pictures /\ <<0, 0>> \in Tiles
  BY DEF Tiles
<1>2. \A w \in Warps : tile[w] = <<0, 0>> /\ step[w] = FirstStep(w, <<0, 0>>)
  OBVIOUS
<1>3. SobelTypes
  <2>1. step \in [Warps -> {"load", "sync", "mask", "exit"}]
    BY FirstStepIs
  <2>2. exact \in [Warps -> SUBSET Threads]
    BY <1>1, WarpIs
  <2>3. tile \in [Warps -> Tiles] /\ mask \in [Warps -> Nat \ {0}] /\ DOMAIN sm_s = Blocks
    BY <1>1
  <2>4. t \in [Pixels -> {Unset, "right", "wrong"}]
    OBVIOUS
  <2>5. QED
    BY <1>1, <2>1, <2>2, <2>3, <2>4 DEF SobelTypes
<1>a. ASSUME NEW T \in Tiles PROVE ~Before(T, <<0, 0>>)
  <2>1. T[1] \in Nat /\ T[2] \in Nat
    BY DEF Tiles
  <2>2. QED
    BY <2>1 DEF Before
<1>4. Walked
  BY <1>2, <1>a DEF Walked
<1>5. NothingWrong
  <2>1. \A w \in Warps : \A th \in Active(w) : th \in exact[w]
    BY DEF Active
  <2>2. \A p \in Pixels : t[p] # "wrong"
    BY DEF Unset
  <2>3. QED
    BY <2>1, <2>2 DEF NothingWrong
<1>6. GatheredInv
  <2>1. kernel = lab5_cor => kernel.shared
    BY <1>1, KernelIs
  <2>2. kernel.shared => \A w \in Warps : step[w] \notin {"sync", "mask"}
    BY <1>2, FirstStepIs
  <2>3. QED
    BY <2>1, <2>2 DEF GatheredInv
<1>7. kernel = lab5 => \A w \in Warps : step[w] \in {"load", "exit"}
  <2>1. kernel = lab5 => kernel.shared
    BY <1>1, KernelIs
  <2>2. QED
    BY <1>2, <2>1, FirstStepIs
<1>8. TogetherInv
  BY <1>1, <1>2, <1>a, <1>7 DEF TogetherInv, Together
<1>9. KeptInv
  BY <1>2, <1>a, <1>7 DEF KeptInv, PastLoading
<1>10. QED
  BY <1>3, <1>4, <1>5, <1>6, <1>8, <1>9 DEF SobelInv

\* Steps that leave the tiles, the pixels and what was read alone
LEMMA StillKeeps ==
  ASSUME SobelInv, UNCHANGED <<kernel, picture, tile, mask, exact, t>>,
         step' \in [Warps -> {"load", "sync", "mask", "exit"}],
         \A w \in Warps : step'[w] = "exit" <=> step[w] = "exit", DOMAIN sm_s' = Blocks
  PROVE  SobelTypes' /\ Walked' /\ NothingWrong'
<1>1. /\ Warps' = Warps /\ Blocks' = Blocks /\ Pixels' = Pixels /\ Threads' = Threads
  BY SameKernel
<1>2. SobelTypes'
  BY <1>1 DEF SobelInv, SobelTypes
<1>3. /\ \A b, th, T : Place(b, th, T)' = Place(b, th, T)
      /\ \A w, ti : FirstStep(w, ti)' = FirstStep(w, ti)
      /\ \A p : Sure(p)' = Sure(p)
  BY SameKernel, Zenon
<1>4. Walked'
  <2>1. Walked
    BY DEF SobelInv
  <2>2. QED
    BY <1>1, <1>3, <2>1 DEF Walked
<1>5. \A w \in Warps : Active(w)' = Active(w)
  BY SameTile
<1>6. NothingWrong'
  BY <1>1, <1>3, <1>5 DEF SobelInv, NothingWrong
<1>7. QED
  BY <1>2, <1>4, <1>6

\* The invariants of lab5.cu after a step
LEMMA AfterStep ==
  ASSUME kernel' = kernel, picture' = picture
  PROVE  /\ (kernel = lab5 =>
               \A v, x \in Warps : v[1] = x[1] /\ step'[v] # "exit" =>
                 /\ Before(tile'[v], tile'[x]) =>
                      step'[v] = "mask" /\ step'[x] # "mask" /\ tile'[x] = NextTile(v, tile'[v])
                 /\ tile'[x] = tile'[v] /\ step'[v] = "mask" => step'[x] \in {"mask", "exit"})
             => TogetherInv'
         /\ (kernel = lab5 =>
               \A x \in Warps, T \in Tiles :
                 LastTile(x[1], T) /\ PastLoading(x, T)' =>
                   \A th \in x[2] : Place(x[1], th, T) \in Pixels =>
                     \A d \in Loaded(Place(x[1], th, T)) :
                       sm_s'[x[1]][Cell(th, d)] = Near(Place(x[1], th, T), d))
             => KeptInv'
<1>1. Warps' = Warps /\ Pixels' = Pixels
  BY SameKernel
<1>2. /\ \A w, T : NextTile(w, T)' = NextTile(w, T) /\ LastTile(w, T)' = LastTile(w, T)
      /\ \A b, th, T : Place(b, th, T)' = Place(b, th, T)
      /\ \A p : Loaded(p)' = Loaded(p)
  BY SameKernel, Zenon
<1>3. /\ \A p, d : Near(p, d)' = Near(p, d) /\ Cell(p, d)' = Cell(p, d)
      /\ Tiles' = Tiles
  BY DEF Near, Cell, Tiles
<1>4. ASSUME NEW v, NEW x PROVE Before(tile[v], tile[x])' <=> Before(tile'[v], tile'[x])
  BY DEF Before
<1>5. QED
  BY <1>1, <1>2, <1>3, <1>4 DEF TogetherInv, Together, KeptInv, Kept

\* Each action keeps the invariant: a warp loads,
LEMMA LoadKeeps ==
  ASSUME SobelInv, NEW w \in Warps, Load(w)
  PROVE  SobelInv'
<1> USE DEF SobelInv, SobelTypes
<1>1. /\ UNCHANGED <<kernel, picture, tile, mask, exact, t>> /\ step[w] = "load"
      /\ step' = [step EXCEPT ![w] = "sync"]
  BY DEF Load
<1>2. /\ step'[w] = "sync" /\ \A x \in Warps \ {w} : step'[x] = step[x]
      /\ step' \in [Warps -> {"load", "sync", "mask", "exit"}]
  BY <1>1
<1>3. /\ \A c \in TileCells : sm_s'[w[1]][c] \in {sm_s[w[1]][c], Home(w, tile[w], c)}
      /\ \A th \in Active(w) : \A d \in Loaded(Place(w[1], th, tile[w])) :
           sm_s'[w[1]][Cell(th, d)] = Home(w, tile[w], Cell(th, d))
      /\ \A b \in Blocks \ {w[1]} : sm_s'[b] = sm_s[b]
      /\ DOMAIN sm_s' = Blocks
  BY LoadIs
<1>4. SobelTypes' /\ Walked' /\ NothingWrong'
  BY <1>1, <1>2, <1>3, StillKeeps
<1>5. Warps' = Warps /\ Pixels' = Pixels
  BY <1>1, SameKernel
<1>6. GatheredInv'
  <2>1. SUFFICES ASSUME kernel = lab5_cor, NEW x \in Warps, step'[x] \in {"sync", "mask"}
                 PROVE  Gathered(x)'
    BY <1>1, <1>5 DEF GatheredInv
  <2>2. CASE x = w
    <3>1. ASSUME NEW th \in Active(w), NEW d \in InPicture(Place(w[1], th, tile[w]))
          PROVE  sm_s'[w[1]][Cell(th, d)] = Near(Place(w[1], th, tile[w]), d)
      <4>1. d \in Bound \X Bound /\ th \in w[2]
        BY DEF InPicture, Active
      <4>2. d \in Loaded(Place(w[1], th, tile[w]))
        <5>1. kernel.gap = 1
          BY <2>1, KernelIs
        <5>2. ASSUME NEW i \in 1..2 PROVE (d[i] + 2) % 1 = 0
          <6>1. d[i] \in Int
            BY <4>1, PairIs DEF Bound
          <6>2. QED
            BY <6>1
        <5>3. QED
          BY <5>1, <5>2 DEF Loaded
      <4>3. QED
        BY <1>3, <4>1, <4>2, NearIsHome
    <3>2. Active(w)' = Active(w) /\ \A th : Place(w[1], th, tile[w])' = Place(w[1], th, tile[w])
      BY <1>1, SameTile
    <3>3. \A p : InPicture(p)' = InPicture(p)
      BY <1>1, SameKernel, Zenon
    <3>4. \A p, d : Near(p, d)' = Near(p, d) /\ Cell(p, d)' = Cell(p, d)
      BY DEF Near, Cell
    <3>5. QED
      BY <2>2, <3>1, <3>2, <3>3, <3>4 DEF Gathered
  <2>3. CASE x # w
    <3>1. x[1] # w[1]
      <4>1. x[2] = w[2]
        BY <2>1, KernelIs, WarpIs
      <4>2. x = <<x[1], x[2]>> /\ w = <<w[1], w[2]>>
        BY PairIs DEF Warps
      <4>3. QED
        BY <2>3, <4>1, <4>2
    <3>2. sm_s'[x[1]] = sm_s[x[1]]
      BY <1>3, <3>1, WarpIs
    <3>3. Gathered(x)
      BY <1>2, <2>1, <2>3 DEF GatheredInv
    <3>4. QED
      BY <1>1, <3>2, <3>3, SameTile
  <2>4. QED
    BY <2>2, <2>3
<1>7. TogetherInv'
  <2>1. ASSUME kernel = lab5, NEW v \in Warps, NEW x \in Warps, v[1] = x[1], step'[v] # "exit"
        PROVE  /\ Before(tile[v], tile[x]) =>
                    step'[v] = "mask" /\ step'[x] # "mask" /\ tile[x] = NextTile(v, tile[v])
               /\ tile[x] = tile[v] /\ step'[v] = "mask" => step'[x] \in {"mask", "exit"}
    <3>1. Together(v, x) /\ step[v] # "exit"
      BY <1>1, <1>2, <2>1 DEF TogetherInv
    <3>2. QED
      BY <1>1, <1>2, <3>1 DEF Together
  <2>2. QED
    BY <1>1, <2>1, AfterStep
<1>8. KeptInv'
  <2>1. ASSUME kernel = lab5, NEW x \in Warps, NEW T \in Tiles, LastTile(x[1], T),
               PastLoading(x, T)', NEW th \in x[2], Place(x[1], th, T) \in Pixels,
               NEW d \in Loaded(Place(x[1], th, T))
        PROVE  sm_s'[x[1]][Cell(th, d)] = Near(Place(x[1], th, T), d)
    <3>1. d \in Bound \X Bound /\ tile[w] \in Tiles /\ tile[x] \in Tiles
      BY DEF Loaded, InPicture
    <3>2. Near(Place(x[1], th, T), d) = Home(x, T, Cell(th, d)) /\ Cell(th, d) \in TileCells
      BY <3>1, NearIsHome
    <3>3. (tile[x] = T /\ step'[x] \in {"sync", "mask"}) \/ Before(T, tile[x])
      BY <1>1, <2>1 DEF PastLoading, Before
    <3>4. CASE x = w /\ tile[w] = T
      <4>1. th \in Active(w)
        BY <2>1, <3>4, ActiveIs
      <4>2. QED
        BY <1>3, <2>1, <3>2, <3>4, <4>1
    <3>5. CASE ~(x = w /\ tile[w] = T)
      <4>1. PastLoading(x, T)
        BY <1>2, <3>3, <3>5 DEF PastLoading
      <4>2. sm_s[x[1]][Cell(th, d)] = Home(x, T, Cell(th, d))
        BY <2>1, <3>2, <4>1 DEF KeptInv, Kept
      <4>3. CASE x[1] # w[1]
        BY <1>3, <3>2, <4>2, <4>3, WarpIs
      <4>4. CASE x[1] = w[1]
        <5>1. FirstStep(w, tile[w]) # "exit"
          BY <1>1 DEF Walked
        <5>2. ~Before(T, tile[w])
          BY <2>1, <3>1, <4>4, <5>1, NoneAfterLast
        <5>3. ~Before(tile[w], tile[x])
          BY <1>1, <2>1, <4>4 DEF TogetherInv, Together
        <5>4. ~Before(tile[w], T)
          BY <3>1, <3>3, <5>3, TilesInOrder
        <5>5. tile[w] = T
          BY <3>1, <5>2, <5>4, TilesInOrder
        <5>6. Home(w, tile[w], Cell(th, d)) = Home(x, T, Cell(th, d))
          BY <4>4, <5>5 DEF Home
        <5>7. QED
          BY <1>3, <3>2, <4>2, <4>4, <5>6
      <4>5. QED
        BY <4>3, <4>4
    <3>6. QED
      BY <3>4, <3>5
  <2>2. QED
    BY <1>1, <2>1, AfterStep
<1>9. QED
  BY <1>4, <1>6, <1>7, <1>8

\* passes a barrier,
LEMMA SyncKeeps ==
  ASSUME SobelInv, NEW b \in Blocks, Sync(b)
  PROVE  SobelInv'
<1> USE DEF SobelInv, SobelTypes
<1> PICK mine : mine = {w \in Warps : w[1] = b /\ step[w] # "exit"}
  OBVIOUS
<1>1. /\ UNCHANGED <<kernel, picture, tile, mask, exact, sm_s, t>>
      /\ \A w \in mine : step[w] = "sync"
      /\ step' = [w \in Warps |-> IF w \in mine THEN "mask" ELSE step[w]]
  BY DEF Sync
<1>2. step' \in [Warps -> {"load", "sync", "mask", "exit"}]
  BY <1>1
<1>3. \A w \in Warps : \/ step'[w] = step[w] /\ (w[1] = b => step[w] = "exit")
                       \/ step'[w] = "mask" /\ step[w] = "sync"
  BY <1>1
<1>4. SobelTypes' /\ Walked' /\ NothingWrong'
  BY <1>1, <1>2, <1>3, StillKeeps
<1>5. Warps' = Warps /\ Pixels' = Pixels
  BY <1>1, SameKernel
<1>6. GatheredInv'
  <2>1. SUFFICES ASSUME kernel = lab5_cor, NEW x \in Warps, step'[x] \in {"sync", "mask"}
                 PROVE  Gathered(x)'
    BY <1>1, <1>5 DEF GatheredInv
  <2>2. Gathered(x)
    BY <1>3, <2>1 DEF GatheredInv
  <2>3. QED
    BY <1>1, <2>2, SameTile
<1>7. TogetherInv'
  <2>1. ASSUME kernel = lab5, NEW v \in Warps, NEW x \in Warps, v[1] = x[1], step'[v] # "exit"
        PROVE  /\ Before(tile[v], tile[x]) =>
                    step'[v] = "mask" /\ step'[x] # "mask" /\ tile[x] = NextTile(v, tile[v])
               /\ tile[x] = tile[v] /\ step'[v] = "mask" => step'[x] \in {"mask", "exit"}
    <3>1. Together(v, x) /\ step[v] # "exit"
      BY <1>3, <2>1 DEF TogetherInv
    <3>2. CASE v[1] = b
      BY <1>3, <2>1, <3>1, <3>2 DEF Together
    <3>3. CASE v[1] # b
      <4>1. step'[v] = step[v] /\ step'[x] = step[x]
        BY <1>1, <2>1, <3>3
      <4>2. QED
        BY <3>1, <4>1 DEF Together
    <3>4. QED
      BY <3>2, <3>3
  <2>2. QED
    BY <1>1, <2>1, AfterStep
<1>8. KeptInv'
  <2>1. ASSUME NEW x \in Warps, NEW T, PastLoading(x, T)' PROVE PastLoading(x, T)
    BY <1>1, <1>3, <2>1 DEF PastLoading, Before
  <2>2. QED
    BY <1>1, <2>1, AfterStep DEF KeptInv, Kept
<1>9. QED
  BY <1>1, <1>4, <1>6, <1>7, <1>8
-----------------------------------------------------------------------------
\* Mask with another mask to come
LEMMA MoreMasksKeep ==
  ASSUME SobelInv, NEW w \in Warps, Mask(w), mask[w] < kernel.passes
  PROVE  SobelInv'
<1> USE DEF SobelInv, SobelTypes
<1>1. /\ UNCHANGED <<kernel, picture, sm_s, tile, t>> /\ step[w] = "mask"
      /\ mask' = [mask EXCEPT ![w] = @ + 1]
      /\ exact' = [exact EXCEPT ![w] = exact[w] \cap Reads(w)]
      /\ step' = [step EXCEPT ![w] = "load"]
  BY DEF Mask
<1>2. /\ Warps' = Warps /\ Blocks' = Blocks /\ Pixels' = Pixels
      /\ Threads' = Threads
  BY <1>1, SameKernel
<1>3. /\ \A b, th, T : Place(b, th, T)' = Place(b, th, T)
      /\ \A v, ti : FirstStep(v, ti)' = FirstStep(v, ti)
      /\ \A p : Sure(p)' = Sure(p)
  BY <1>1, SameKernel, Zenon
<1>4. /\ step'[w] = "load" /\ \A x \in Warps \ {w} : step'[x] = step[x]
      /\ exact'[w] = exact[w] \cap Reads(w) /\ \A x \in Warps \ {w} : exact'[x] = exact[x]
  BY <1>1
<1>5. SobelTypes'
  <2>1. mask' \in [Warps -> Nat \ {0}]
    BY <1>1
  <2>2. exact' \in [Warps -> SUBSET Threads]
    BY <1>1
  <2>3. step' \in [Warps -> {"load", "sync", "mask", "exit"}]
    BY <1>1
  <2>4. QED
    BY <1>1, <1>2, <2>1, <2>2, <2>3
<1>6. Walked'
  BY <1>1, <1>2, <1>3, <1>4 DEF Walked
<1>7. \A x \in Warps : Active(x)' = Active(x) /\ Gathered(x)' = Gathered(x)
  BY <1>1, SameTile
<1>8. NothingWrong'
  <2>1. SUFFICES ASSUME NEW x \in Warps, NEW th \in Active(x),
                        Sure(Place(x[1], th, tile[x]))
                 PROVE  th \in exact'[x]
    BY <1>1, <1>2, <1>3, <1>7 DEF NothingWrong
  <2>2. th \in exact[x]
    BY <2>1 DEF NothingWrong
  <2>3. x = w => th \in Reads(w)
    BY <1>1, <2>1, ReadsAreRight
  <2>4. QED
    BY <1>4, <2>2, <2>3
<1>9. GatheredInv'
  BY <1>1, <1>2, <1>4, <1>7 DEF GatheredInv
<1>10. TogetherInv' /\ KeptInv'
  <2>1. kernel # lab5
    <3>1. kernel = lab5 => kernel.passes = 1
      BY KernelIs
    <3>2. mask[w] \in Nat \ {0}
      OBVIOUS
    <3>3. ~(mask[w] < 1)
      BY <3>2
    <3>4. QED
      BY <3>1, <3>3
  <2>2. QED
    BY <1>1, <2>1 DEF TogetherInv, KeptInv
<1>11. QED
  BY <1>5, <1>6, <1>8, <1>9, <1>10

\* Mask with no other to come: the pixels of the tile are stored.
LEMMA LastMaskKeeps ==
  ASSUME SobelInv, NEW w \in Warps, Mask(w), ~(mask[w] < kernel.passes)
  PROVE  SobelInv'
<1> USE DEF SobelInv, SobelTypes
<1> PICK next, good : next = NextTile(w, tile[w]) /\ good = exact[w] \cap Reads(w)
  OBVIOUS
<1>1. /\ UNCHANGED <<kernel, picture, sm_s>> /\ step[w] = "mask"
      /\ t' = [p \in Pixels |->
                 IF \E th \in Active(w) : Place(w[1], th, tile[w]) = p
                 THEN IF \E th \in good : Place(w[1], th, tile[w]) = p THEN "right" ELSE "wrong"
                 ELSE t[p]]
      /\ tile' = [tile EXCEPT ![w] = next]
      /\ step' = [step EXCEPT ![w] = FirstStep(w, next)]
      /\ mask' = [mask EXCEPT ![w] = 1]
      /\ exact' = [exact EXCEPT ![w] = w[2]]
  BY DEF Mask
<1>2. /\ Warps' = Warps /\ Blocks' = Blocks /\ Pixels' = Pixels
      /\ Threads' = Threads
  BY <1>1, SameKernel
<1>3. /\ \A b, th, T : Place(b, th, T)' = Place(b, th, T)
      /\ \A v, ti : FirstStep(v, ti)' = FirstStep(v, ti)
      /\ \A p : Sure(p)' = Sure(p)
  BY <1>1, SameKernel, Zenon
<1>4. /\ tile[w] \in Tiles /\ next \in Tiles
      /\ FirstStep(w, next) = "exit" => next[2] = 0
      /\ \A T \in Tiles, th \in w[2] :
           Place(w[1], th, T) \in Pixels /\ Before(T, next) => Before(T, tile[w]) \/ T = tile[w]
  BY NextTileIs
<1>5. /\ tile'[w] = next /\ step'[w] = FirstStep(w, next) /\ exact'[w] = w[2]
      /\ \A x \in Warps \ {w} : tile'[x] = tile[x] /\ step'[x] = step[x] /\ exact'[x] = exact[x]
  BY <1>1
<1>6. SobelTypes'
  <2>1. mask' \in [Warps -> Nat \ {0}]
    BY <1>1
  <2>2. exact' \in [Warps -> SUBSET Threads]
    BY <1>1, WarpIs
  <2>3. step' \in [Warps -> {"load", "sync", "mask", "exit"}]
    BY <1>1, FirstStepIs
  <2>4. tile' \in [Warps -> Tiles]
    BY <1>1, <1>4
  <2>5. t' \in [Pixels -> {Unset, "right", "wrong"}]
    <3>1. ASSUME NEW p \in Pixels PROVE t'[p] \in {Unset, "right", "wrong"}
      BY <1>1
    <3>2. QED
      BY <1>1, <3>1
  <2>6. QED
    BY <1>1, <1>2, <2>1, <2>2, <2>3, <2>4, <2>5
<1>7. /\ \A p \in Pixels : t[p] # Unset => t'[p] # Unset
      /\ \A th \in Active(w) : t'[Place(w[1], th, tile[w])] # Unset
  <2>1. ASSUME NEW p \in Pixels, \E th \in Active(w) : Place(w[1], th, tile[w]) = p
        PROVE  t'[p] \in {"right", "wrong"}
    BY <1>1, <2>1
  <2>2. ASSUME NEW p \in Pixels, ~ \E th \in Active(w) : Place(w[1], th, tile[w]) = p
        PROVE  t'[p] = t[p]
    BY <1>1, <2>2
  <2>3. "right" # Unset /\ "wrong" # Unset
    BY DEF Unset
  <2>4. QED
    BY <2>1, <2>2, <2>3, ActiveIs
<1>8. Walked'
  <2>1. SUFFICES ASSUME NEW x \in Warps
                 PROVE  /\ step'[x] = "exit" <=> FirstStep(x, tile'[x]) = "exit"
                        /\ step'[x] = "exit" => tile'[x][2] = 0
                        /\ \A T \in Tiles, th \in x[2] :
                             Before(T, tile'[x]) /\ Place(x[1], th, T) \in Pixels
                               => t'[Place(x[1], th, T)] # Unset
    BY <1>2, <1>3 DEF Walked
  <2>2. Walked
    OBVIOUS
  <2>3. /\ step'[x] = "exit" <=> FirstStep(x, tile'[x]) = "exit"
        /\ step'[x] = "exit" => tile'[x][2] = 0
    <3>1. CASE x = w
      BY <1>4, <1>5, <3>1
    <3>2. CASE x # w
      BY <1>5, <2>2, <3>2 DEF Walked
    <3>3. QED
      BY <3>1, <3>2
  <2>4. ASSUME NEW T \in Tiles, NEW th \in x[2], Before(T, tile'[x]), Place(x[1], th, T) \in Pixels
        PROVE  t'[Place(x[1], th, T)] # Unset
    <3>1. CASE Before(T, tile[x])
      BY <1>7, <2>2, <2>4, <3>1 DEF Walked
    <3>2. CASE ~Before(T, tile[x])
      <4>1. x = w
        BY <1>5, <2>4, <3>2
      <4>2. T = tile[w]
        BY <1>4, <1>5, <2>4, <3>2, <4>1
      <4>3. th \in Active(w)
        BY <2>4, <4>1, <4>2, ActiveIs
      <4>4. QED
        BY <1>7, <4>1, <4>2, <4>3
    <3>3. QED
      BY <3>1, <3>2
  <2>5. QED
    BY <2>3, <2>4
<1>9. NothingWrong'
  <2>1. ASSUME NEW th \in Active(w), Sure(Place(w[1], th, tile[w])) PROVE th \in good
    <3>1. th \in exact[w]
      BY <2>1 DEF NothingWrong
    <3>2. th \in Reads(w)
      BY <1>1, <2>1, ReadsAreRight
    <3>3. QED
      BY <3>1, <3>2
  <2>2. ASSUME NEW p \in Pixels, Sure(p) PROVE t'[p] # "wrong"
    <3>1. t[p] # "wrong"
      BY <2>2 DEF NothingWrong
    <3>2. t'[p] = IF \E th \in Active(w) : Place(w[1], th, tile[w]) = p
                  THEN IF \E th \in good : Place(w[1], th, tile[w]) = p THEN "right" ELSE "wrong"
                  ELSE t[p]
      BY <1>1
    <3>3. QED
      BY <2>1, <2>2, <3>1, <3>2
  <2>3. ASSUME NEW x \in Warps, NEW th, th \in Active(x)', Sure(Place(x[1], th, tile'[x]))
        PROVE  th \in exact'[x]
    <3>1. CASE x = w
      <4>1. Active(x)' \subseteq x[2]
        BY DEF Active
      <4>2. QED
        BY <1>5, <2>3, <3>1, <4>1
    <3>2. CASE x # w
      <4>1. Active(x)' = Active(x)
        BY <1>1, <1>5, <3>2, SameTile
      <4>2. QED
        BY <1>5, <2>3, <3>2, <4>1 DEF NothingWrong
    <3>3. QED
      BY <3>1, <3>2
  <2>4. QED
    BY <1>2, <1>3, <2>2, <2>3 DEF NothingWrong
<1>10. GatheredInv'
  <2>1. SUFFICES ASSUME kernel = lab5_cor, NEW x \in Warps, step'[x] \in {"sync", "mask"}
                 PROVE  Gathered(x)'
    BY <1>1, <1>2 DEF GatheredInv
  <2>2. x # w
    <3>1. kernel.shared
      BY <2>1, KernelIs
    <3>2. step'[w] \notin {"sync", "mask"}
      BY <1>5, <3>1, FirstStepIs
    <3>3. QED
      BY <2>1, <3>2
  <2>3. Gathered(x) /\ tile'[x] = tile[x]
    BY <1>5, <2>1, <2>2 DEF GatheredInv
  <2>4. QED
    BY <1>1, <2>3, SameTile
<1>11. TogetherInv'
  <2>1. ASSUME kernel = lab5, NEW v \in Warps, NEW x \in Warps, v[1] = x[1], step'[v] # "exit"
        PROVE  /\ Before(tile'[v], tile'[x]) =>
                    step'[v] = "mask" /\ step'[x] # "mask" /\ tile'[x] = NextTile(v, tile'[v])
               /\ tile'[x] = tile'[v] /\ step'[v] = "mask" => step'[x] \in {"mask", "exit"}
    <3>1. step'[w] \in {"load", "exit"}
      <4>1. kernel.shared
        BY <2>1, KernelIs
      <4>2. QED
        BY <1>5, <4>1, FirstStepIs
    <3>2. Together(v, x) /\ Together(x, v) /\ tile[v] \in Tiles /\ tile[x] \in Tiles
      BY <2>1 DEF TogetherInv
    <3>3. CASE v = w /\ x = w
      BY <1>4, <1>5, <3>1, <3>3, TilesInOrder
    <3>4. CASE v = w /\ x # w
      <4>1. tile'[v] = next /\ tile'[x] = tile[x] /\ step'[v] = "load"
        BY <1>5, <2>1, <3>1, <3>4
      <4>2. ~Before(next, tile[x])
        <5>1. CASE Before(tile[w], tile[x])
          <6>1. tile[x] = next
            BY <1>1, <3>2, <3>4, <5>1 DEF Together
          <6>2. QED
            BY <1>4, <6>1, TilesInOrder
        <5>2. CASE ~Before(tile[w], tile[x])
          <6>1. Before(tile[w], next)
            BY <1>4, NextTileIsLater
          <6>2. QED
            BY <1>4, <3>2, <5>2, <6>1, TilesInOrder
        <5>3. QED
          BY <5>1, <5>2
      <4>3. QED
        BY <4>1, <4>2
    <3>5. CASE v # w /\ x = w
      <4>1. tile'[v] = tile[v] /\ step'[v] = step[v] /\ tile'[x] = next
        BY <1>5, <3>5
      <4>2. CASE tile[v] = tile[w]
        <5>1. step[v] = "mask"
          BY <1>1, <2>1, <3>2, <3>5, <4>1, <4>2 DEF Together
        <5>2. FirstStep(v, tile[w]) # "exit" /\ FirstStep(w, tile[w]) # "exit"
          BY <1>1, <4>2, <5>1 DEF Walked
        <5>3. next = NextTile(v, tile[w])
          BY <1>4, <2>1, <3>5, <5>2, SameNext
        <5>4. tile[w] # next
          BY <1>4, NextTileIsLater, TilesInOrder
        <5>5. QED
          BY <3>1, <3>5, <4>1, <4>2, <5>1, <5>3, <5>4
      <4>3. CASE Before(tile[v], tile[w])
        BY <1>1, <2>1, <3>2, <3>5, <4>1, <4>3 DEF Together
      <4>4. CASE Before(tile[w], tile[v])
        <5>1. tile[v] = next /\ step[v] # "mask"
          BY <1>1, <3>2, <3>5, <4>4 DEF Together
        <5>2. QED
          BY <1>4, <4>1, <5>1, TilesInOrder
      <4>5. QED
        BY <1>4, <3>2, <4>2, <4>3, <4>4, TilesInOrder
    <3>6. CASE v # w /\ x # w
      <4>1. tile'[v] = tile[v] /\ step'[v] = step[v] /\ tile'[x] = tile[x] /\ step'[x] = step[x]
        BY <1>5, <3>6
      <4>2. QED
        BY <2>1, <3>2, <4>1 DEF Together
    <3>7. QED
      BY <3>3, <3>4, <3>5, <3>6
  <2>2. QED
    BY <1>1, <2>1, AfterStep
<1>12. KeptInv'
  <2>1. ASSUME kernel = lab5, NEW x \in Warps, NEW T \in Tiles, PastLoading(x, T)',
               NEW th \in x[2], Place(x[1], th, T) \in Pixels
        PROVE  PastLoading(x, T)
    <3>1. (tile'[x] = T /\ step'[x] \in {"sync", "mask"}) \/ Before(T, tile'[x])
      BY <2>1 DEF PastLoading, Before
    <3>2. CASE x # w
      BY <1>5, <3>1, <3>2 DEF PastLoading
    <3>3. CASE x = w
      <4>1. step'[w] \notin {"sync", "mask"}
        <5>1. kernel.shared
          BY <2>1, KernelIs
        <5>2. QED
          BY <1>5, <5>1, FirstStepIs
      <4>2. Before(T, tile[w]) \/ T = tile[w]
        BY <1>4, <1>5, <2>1, <3>1, <3>3, <4>1
      <4>3. QED
        BY <1>1, <3>3, <4>2 DEF PastLoading
    <3>4. QED
      BY <3>2, <3>3
  <2>2. QED
    BY <1>1, <2>1, AfterStep DEF KeptInv, Kept
<1>13. QED
  BY <1>6, <1>8, <1>9, <1>10, <1>11, <1>12

\* Every step keeps the invariant.
LEMMA SobelStays ==
  ASSUME SobelInv, UNCHANGED sobelVars
  PROVE  SobelInv'
<1> USE DEF SobelInv, SobelTypes, sobelVars
<1>1. Warps' = Warps
  BY SameKernel
<1>2. SobelTypes' /\ Walked' /\ NothingWrong'
  BY StillKeeps
<1>3. GatheredInv'
  BY <1>1, SameTile DEF GatheredInv
<1>4. TogetherInv'
  BY AfterStep DEF TogetherInv, Together
<1>5. KeptInv'
  <2>1. \A x, T : PastLoading(x, T)' <=> PastLoading(x, T)
    BY DEF PastLoading, Before
  <2>2. QED
    BY <2>1, AfterStep DEF KeptInv, Kept
<1>6. QED
  BY <1>2, <1>3, <1>4, <1>5

\* lab4, lab5: at the end every pixel of the picture has been computed, and from
\* values that were read at their places; in lab5.cu those of the last tile of each
\* block, as far as they are not alone in a row or column of the tile.
THEOREM EveryPixelIsRight == SobelSpec => []PictureIsRight
<1>1. SobelInv /\ SobelNext => SobelInv'
  <2>1. ASSUME SobelInv, NEW w \in Warps, Mask(w) PROVE SobelInv'
    BY <2>1, MoreMasksKeep, LastMaskKeeps
  <2>2. QED
    BY <2>1, LoadKeeps, SyncKeeps DEF SobelNext
<1>2. SobelInv /\ UNCHANGED sobelVars => SobelInv'
  BY SobelStays
<1>3. SobelInv => PictureIsRight
  <2>1. SUFFICES ASSUME SobelInv, SobelDone, NEW p \in Pixels
                 PROVE  t[p] # Unset /\ (Sure(p) => t[p] = "right")
    BY DEF PictureIsRight, Sure
  <2> USE DEF SobelInv, SobelTypes
  <2> PICK w \in Warps : \E th \in w[2], T \in Tiles : Place(w[1], th, T) = p
    BY <2>1, PixelsHaveThreads
  <2> PICK th \in w[2], T \in Tiles : Place(w[1], th, T) = p
    OBVIOUS
  <2>2. step[w] = "exit" /\ tile[w] \in Tiles
    BY <2>1 DEF SobelDone
  <2>3. FirstStep(w, tile[w]) = "exit" /\ tile[w][2] = 0
    BY <2>1, <2>2 DEF Walked
  <2>4. Before(T, tile[w])
    BY <2>1, <2>2, <2>3, NoTileIsLeft
  <2>5. t[p] # Unset
    BY <2>1, <2>4 DEF Walked
  <2>6. Sure(p) => t[p] = "right"
    BY <2>1, <2>5 DEF NothingWrong
  <2>7. QED
    BY <2>5, <2>6
<1>4. QED
  BY <1>1, <1>2, <1>3, SobelBegins, PTL DEF SobelSpec
-----------------------------------------------------------------------------
(* CirclePixels: the rows and the members of the team.                    *)

\* Remainders of sums and products
LEMMA ModShift ==
  ASSUME NEW k \in Nat \ {0}, NEW a \in Nat, NEW q \in Nat
  PROVE  (a + k * q) % k = a % k
<1> PICK e \in Nat, s \in 0..(k - 1) : e = a \div k /\ s = a % k /\ a = k * e + s
  BY DivMod
<1>a. e + q \in Nat
  OBVIOUS
<1> PICK n : n = e + q
  BY Zenon
<1>b. n \in Nat
  BY <1>a
<1>1. a + k * q = n * k + s
  <2>1. n * k = k * e + k * q
    OBVIOUS
  <2>2. k * e \in Nat /\ k * q \in Nat
    OBVIOUS
  <2>3. QED
    BY <2>1, <2>2
<1>2. (n * k + s) % k = s
  <2> PICK d : d = n + 1
    BY Zenon
  <2>1. d \in Nat \ {0} /\ n \in 0..(d - 1)
    BY <1>b
  <2>2. QED
    BY ONLY <2>1, k \in Nat \ {0}, s \in 0..(k - 1), FromRowAndColumn
<1>3. QED
  BY <1>1, <1>2

\* Remainders of sums and products are those of the remainders.
LEMMA ModOfMod ==
  ASSUME NEW k \in Nat \ {0}, NEW a \in Nat, NEW b \in Nat, NEW n \in Nat
  PROVE  /\ a % k \in Nat /\ (a % k) % k = a % k
         /\ ((a % k) + b) % k = (a + b) % k /\ (b + (a % k)) % k = (a + b) % k
         /\ (n * (a % k)) % k = (n * a) % k
<1> PICK e \in Nat, s \in 0..(k - 1) : e = a \div k /\ s = a % k /\ a = k * e + s
  BY DivMod
<1>1. s % k = s
  <2>1. a % k = s % k
    <3>1. a = s + k * e
      <4>1. k * e \in Nat
        OBVIOUS
      <4>2. QED
        BY <4>1
    <3>2. QED
      BY <3>1, ModShift
  <2>2. QED
    BY <2>1
<1>2. (s + b) % k = (a + b) % k
  <2>1. a + b = (s + b) + k * e /\ s + b \in Nat
    <3>1. k * e \in Nat
      OBVIOUS
    <3>2. QED
      BY <3>1
  <2>2. QED
    BY ONLY <2>1, k \in Nat \ {0}, e \in Nat, ModShift
<1>3. (n * s) % k = (n * a) % k
  <2>1. n * a = n * s + k * (n * e)
    OBVIOUS
  <2>2. n * s \in Nat /\ n * e \in Nat
    OBVIOUS
  <2>3. QED
    <3> PICK x \in Nat, y \in Nat : x = n * s /\ y = n * e
      BY <2>2
    <3>1. (x + k * y) % k = x % k
      BY ONLY x \in Nat, y \in Nat, k \in Nat \ {0}, ModShift
    <3>2. n * a = x + k * y
      BY <2>1
    <3>3. QED
      BY <3>1, <3>2, Zenon
<1>4. b + s = s + b
  OBVIOUS
<1>5. QED
  BY <1>1, <1>2, <1>3, <1>4

\* The sum of a function counts its units.
LEMMA SumFunctionIs ==
  ASSUME NEW S, IsFiniteSet(S), NEW f \in [S -> Nat]
  PROVE  SumFunction(f) = Cardinality(Units(f, S))
<1> DEFINE pick == [A \in SUBSET S |-> CHOOSE x \in A : TRUE]
           Total(g) == g = [A \in SUBSET S |->
                              IF A = {} THEN 0 ELSE f[pick[A]] + g[A \ {pick[A]}]]
           count == [A \in SUBSET S |-> Cardinality(Units(f, A))]
<1>1. \A A \in SUBSET S : A # {} => pick[A] \in A
  OBVIOUS
<1>2. SumFunction(f) = (CHOOSE g : Total(g))[S]
  <2>1. DOMAIN f = S
    OBVIOUS
  <2>2. SumFunction(f) = FoldFunctionOnSet(+, 0, f, S)
    BY <2>1 DEF SumFunction, SumFunctionOnSet
  <2>3. QED
    <3> DEFINE Plain(g) == g = [A \in SUBSET S |->
                                  IF A = {} THEN 0
                                  ELSE f[CHOOSE x \in A : TRUE] + g[A \ {CHOOSE x \in A : TRUE}]]
    <3>1. SumFunction(f) = (CHOOSE g : Plain(g))[S]
      BY <2>2 DEF FoldFunctionOnSet, MapThenFoldSet
    <3>2. \A g : Plain(g) <=> Total(g)
      OBVIOUS
    <3> HIDE DEF Plain, Total
    <3>3. (CHOOSE g : Plain(g)) = (CHOOSE g : Total(g))
      BY <3>2
    <3>4. QED
      BY <3>1, <3>3
<1> HIDE DEF pick
<1>3. Total(count)
  <2>1. count[{}] = 0
    <3>1. Units(f, {}) = {}
      BY DEF Units
    <3>2. QED
      BY <3>1, FS_EmptySet
  <2>2. ASSUME NEW A \in SUBSET S, A # {}
        PROVE  count[A] = f[pick[A]] + count[A \ {pick[A]}]
    <3> PICK x : x = pick[A]
      OBVIOUS
    <3>1. x \in A /\ A = (A \ {x}) \cup {x} /\ A \ {x} \in SUBSET S /\ x \in S \ (A \ {x})
      BY <1>1, <2>2
    <3>2. IsFiniteSet(Units(f, A \ {x}))
      BY <3>1, UnitsFinite
    <3>3. Cardinality(Units(f, (A \ {x}) \cup {x})) = f[x] + Cardinality(Units(f, A \ {x}))
      BY <3>1, <3>2, UnitsAdd
    <3>4. count[A] = f[x] + count[A \ {x}]
      BY <3>1, <3>3
    <3>5. QED
      BY <3>4
  <2>3. \A A \in SUBSET S : count[A] = IF A = {} THEN 0 ELSE f[pick[A]] + count[A \ {pick[A]}]
    BY <2>1, <2>2
  <2>4. QED
    BY <2>3
<1>4. ASSUME NEW g, Total(g) PROVE g[S] = Cardinality(Units(f, S))
  <2>1. ASSUME NEW A \in SUBSET S
        PROVE  g[A] = IF A = {} THEN 0 ELSE f[pick[A]] + g[A \ {pick[A]}]
    BY <1>4
  <2>2. QED
    BY <1>1, <2>1, SumIsUnits
<1>5. QED
  BY <1>2, <1>3, <1>4

\* c counts something on sets of rows.
Additive(c, R) ==
  /\ c \in [SUBSET R -> Nat]
  /\ c[{}] = 0
  /\ \A A, B \in SUBSET R : A \cap B = {} => c[A \cup B] = c[A] + c[B]

AllOf(S, part) == UNION {part[s] : s \in S}

\* Each of S has a part of R, and its number in f is what it counts, modulo k.
InParts(S, R, part, c, k, f) ==
  /\ IsFiniteSet(S) /\ Additive(c, R) /\ k \in Nat \ {0}
  /\ part \in [S -> SUBSET R] /\ \A s, u \in S : s # u => part[s] \cap part[u] = {}
  /\ f \in [S -> Nat] /\ \A s \in S : f[s] = c[part[s]] % k

\* Those who count a part each modulo k have counted everything modulo k.
LEMMA SumOfParts ==
  ASSUME NEW S, NEW R, NEW part, NEW c, NEW k, NEW f, InParts(S, R, part, c, k, f)
  PROVE  /\ SumFunction(f) \in Nat
         /\ SumFunction(f) % k = c[AllOf(S, part)] % k
<1> SUFFICES ASSUME IsFiniteSet(S), f \in [S -> Nat], Additive(c, R),
                    k \in Nat \ {0}, part \in [S -> SUBSET R],
                    \A s, u \in S : s # u => part[s] \cap part[u] = {},
                    \A s \in S : f[s] = c[part[s]] % k
             PROVE  /\ SumFunction(f) \in Nat
                    /\ SumFunction(f) % k = c[UNION {part[s] : s \in S}] % k
  BY DEF InParts, AllOf
<1> DEFINE Of(A) == UNION {part[s] : s \in A}
           F == {A \in SUBSET S : Cardinality(Units(f, A)) % k = c[Of(A)] % k}
<1>1. {} \in F
  <2>1. Units(f, {}) = {} /\ Of({}) = {}
    BY DEF Units
  <2>2. QED
    BY <2>1, FS_EmptySet DEF Additive
<1>2. \A A \in SUBSET S : A # {} /\ (\A x \in A : A \ {x} \in F) => A \in F
  <2> SUFFICES ASSUME NEW A \in SUBSET S, A # {}, \A x \in A : A \ {x} \in F
               PROVE  A \in F
    OBVIOUS
  <2> PICK x \in A : TRUE
    OBVIOUS
  <2> DEFINE B == A \ {x}
  <2>1. B \in SUBSET S /\ x \in S \ B /\ A = B \cup {x} /\ B \in F
    OBVIOUS
  <2> HIDE DEF B
  <2>2. /\ IsFiniteSet(Units(f, B)) /\ Cardinality(Units(f, B)) \in Nat
        /\ Cardinality(Units(f, A)) = f[x] + Cardinality(Units(f, B))
    BY <2>1, UnitsFinite, UnitsAdd
  <2>3. Of(A) = Of(B) \cup part[x] /\ Of(B) \cap part[x] = {} /\ Of(B) \in SUBSET R /\ part[x] \in SUBSET R
    <3>1. Of(B) \in SUBSET R
      BY <2>1
    <3>2. Of(B) \cap part[x] = {}
      BY <2>1
    <3>3. Of(A) = Of(B) \cup part[x]
      BY <2>1
    <3>4. QED
      BY <3>1, <3>2, <3>3
  <2>4. c[Of(A)] = c[Of(B)] + c[part[x]] /\ c[Of(B)] \in Nat /\ c[part[x]] \in Nat
    BY <2>3 DEF Additive
  <2>5. Cardinality(Units(f, B)) % k = c[Of(B)] % k /\ f[x] = c[part[x]] % k
    BY <2>1
  <2> PICK u \in Nat, v \in Nat, w \in Nat :
           u = Cardinality(Units(f, B)) /\ v = c[Of(B)] /\ w = c[part[x]]
    BY <2>2, <2>4
  <2>6. ((w % k) + u) % k = (v + w) % k
    <3>1. ((w % k) + u) % k = (w + u) % k /\ (w + (u % k)) % k = (u + w) % k
          /\ (w + (v % k)) % k = (v + w) % k
      BY ONLY k \in Nat \ {0}, u \in Nat, v \in Nat, w \in Nat, ModOfMod
    <3>2. u % k = v % k /\ w + u = u + w
      BY <2>5
    <3>3. QED
      BY <3>1, <3>2
  <2>7. Cardinality(Units(f, A)) % k = c[Of(A)] % k
    BY <2>2, <2>4, <2>5, <2>6
  <2>8. QED
    BY <2>7
<1> HIDE DEF F
<1>3. S \in F
  <2>1. S \in SUBSET S
    OBVIOUS
  <2>2. QED
    BY <1>1, <1>2, <2>1, FiniteSetInduction, Zenon
<1>4. QED
  BY <1>3, SumFunctionIs, UnitsFinite DEF F

\* Counting units, any number of times, is additive.
LEMMA UnitsAdditive ==
  ASSUME NEW R, IsFiniteSet(R), NEW g \in [R -> Nat], NEW e \in Nat
  PROVE  Additive([A \in SUBSET R |-> e * Cardinality(Units(g, A))], R)
<1> DEFINE c == [A \in SUBSET R |-> e * Cardinality(Units(g, A))]
<1>1. \A A \in SUBSET R : IsFiniteSet(Units(g, A)) /\ Cardinality(Units(g, A)) \in Nat
  BY UnitsFinite
<1>2. c \in [SUBSET R -> Nat]
  BY <1>1
<1>3. c[{}] = 0
  <2>1. Units(g, {}) = {}
    BY DEF Units
  <2>2. QED
    BY <2>1, FS_EmptySet
<1>4. ASSUME NEW A \in SUBSET R, NEW B \in SUBSET R, A \cap B = {}
      PROVE  c[A \cup B] = c[A] + c[B]
  <2>1. Units(g, A \cup B) = Units(g, A) \cup Units(g, B) /\ Units(g, A) \cap Units(g, B) = {}
    <3>1. Units(g, A \cup B) = Units(g, A) \cup Units(g, B)
      BY DEF Units
    <3>2. Units(g, A) \cap Units(g, B) = {}
      BY <1>4 DEF Units
    <3>3. QED
      BY <3>1, <3>2
  <2> PICK a \in Nat, b \in Nat : a = Cardinality(Units(g, A)) /\ b = Cardinality(Units(g, B))
    BY <1>1
  <2>2. Cardinality(Units(g, A \cup B)) = a + b
    <3>1. Cardinality(Units(g, A) \cup Units(g, B))
            = a + b - Cardinality(Units(g, A) \cap Units(g, B))
      BY <1>1, FS_Union, Zenon
    <3>2. Cardinality(Units(g, A) \cap Units(g, B)) = 0
      BY <2>1, FS_EmptySet, Zenon
    <3>3. a + b - 0 = a + b
      OBVIOUS
    <3>4. QED
      BY <2>1, <3>1, <3>2, <3>3, Zenon
  <2>3. A \cup B \in SUBSET R /\ e * (a + b) = e * a + e * b
    OBVIOUS
  <2>4. QED
    BY <2>2, <2>3
<1>5. QED
  BY <1>2, <1>3, <1>4 DEF Additive
-----------------------------------------------------------------------------
Sq(x) == x * x

\* The side of the square that the rows leave out, how often they are counted,
\* and what they bring
Low == IF prog.octant THEN r_half ELSE 0
Copies == IF prog.octant THEN 2 ELSE 1
Rows == 0..(RowEnd - 1)
Gain == [x \in Rows |-> RowGain(x)]

Quadrant == {c \in (0..(circle.r - 1)) \X (0..(circle.r - 1)) :
               c[1] * c[1] + c[2] * c[2] < circle.r * circle.r}

\* r_half is the integer it stands for.
HalfIsExact == prog.octant => r_half = ExactHalf(circle.r)

\* The program and its arguments
IsCircle == /\ circle.r \in Nat \ {0} /\ circle.k \in Nat \ {0}
            /\ Word \in Nat /\ circle.r + circle.k <= Word
            /\ prog.octant \in BOOLEAN /\ HalfIsExact

\* Squares grow.
LEMMA SqIs ==
  /\ \A x \in Nat : Sq(x) \in Nat
  /\ \A x, y \in Nat : x <= y => Sq(x) <= Sq(y)
<1>1. \A x \in Nat : Sq(x) \in Nat
  BY DEF Sq
<1>2. ASSUME NEW x \in Nat, NEW y \in Nat, x <= y PROVE Sq(x) <= Sq(y)
  <2>1. x * x <= x * y /\ x * y <= y * y
    BY <1>2, TimesMonotone
  <2>2. x * x \in Nat /\ x * y \in Nat /\ y * y \in Nat
    OBVIOUS
  <2>3. QED
    BY <2>1, <2>2 DEF Sq
<1>3. QED
  BY <1>1, <1>2

\* A set of numbers up to n with n has a least number, as Least chooses it.
LEMMA LeastExists ==
  ASSUME NEW n \in Nat, NEW T \in SUBSET (0..n), n \in T
  PROVE  \E i \in 0..n : i \in T /\ \A j \in 0..(i - 1) : j \notin T
<1>1. T \subseteq Nat /\ T # {}
  OBVIOUS
<1> PICK i \in T : \A j \in T : i <= j
  BY <1>1, LeastElement
<1>2. i \in 0..n /\ \A j \in 0..(i - 1) : j \notin T
  OBVIOUS
<1>3. QED
  BY <1>2

\* A row's pixels are those with a point within the circle.
LEMMA RowPixelsIs ==
  ASSUME IsCircle, NEW x \in Nat
  PROVE  /\ RowPixels(x) \in 0..circle.r
         /\ \A y \in Nat : y < RowPixels(x) <=> Sq(x) + Sq(y) < Sq(circle.r)
<1> PICK r \in Nat : r = circle.r
  BY DEF IsCircle
<1> DEFINE In(i) == i * i >= r * r - x * x
           T == {i \in 0..r : In(i)}
           Chosen(i) == In(i) /\ \A j \in 0..(i - 1) : ~In(j)
<1>0. \A i \in Nat : In(i) <=> Sq(i) + Sq(x) >= Sq(r)
  <2> SUFFICES ASSUME NEW i \in Nat PROVE In(i) <=> Sq(i) + Sq(x) >= Sq(r)
    OBVIOUS
  <2>1. i * i \in Nat /\ x * x \in Nat /\ r * r \in Nat
    OBVIOUS
  <2>2. QED
    BY <2>1 DEF Sq
<1>1. RowPixels(x) = CHOOSE i \in 0..r : Chosen(i)
  BY DEF RowPixels, Least
<1> HIDE DEF In
<1>2. r \in T
  BY <1>0, SqIs
<1>3. \E i \in 0..r : i \in T /\ \A j \in 0..(i - 1) : j \notin T
  <2> HIDE DEF T
  <2>1. T \in SUBSET (0..r)
    BY DEF T
  <2>2. QED
    BY <1>2, <2>1, LeastExists
<1>4. \E i \in 0..r : Chosen(i)
  BY <1>3
<1> HIDE DEF Chosen
<1> PICK p : p = RowPixels(x)
  OBVIOUS
<1>5. p \in 0..r /\ Chosen(p)
  BY <1>1, <1>4
<1>6. ASSUME NEW y \in Nat PROVE y < p <=> Sq(x) + Sq(y) < Sq(r)
  <2>1. CASE y < p
    <3>1. ~In(y)
      BY <1>5, <2>1 DEF Chosen
    <3>2. QED
      BY <1>0, <2>1, <3>1, SqIs
  <2>2. CASE y >= p
    <3>1. In(p) /\ p \in Nat
      BY <1>5 DEF Chosen
    <3>2. Sq(p) + Sq(x) >= Sq(r) /\ Sq(p) <= Sq(y)
      BY <1>0, <2>2, <3>1, SqIs
    <3>3. QED
      BY <2>2, <3>1, <3>2, SqIs
  <2>3. QED
    BY <1>5, <2>1, <2>2
<1>7. QED
  BY <1>5, <1>6

\* The side of the square that half a quadrant leaves out
LEMMA ExactHalfIs ==
  ASSUME NEW r \in Nat
  PROVE  /\ ExactHalf(r) \in 0..r
         /\ \A y \in Nat : y < ExactHalf(r) <=> 2 * Sq(y) < Sq(r)
<1> DEFINE In(i) == 2 * i * i >= r * r
           T == {i \in 0..r : In(i)}
           Chosen(i) == In(i) /\ \A j \in 0..(i - 1) : ~In(j)
<1>0. \A i \in Nat : In(i) <=> 2 * Sq(i) >= Sq(r)
  <2> SUFFICES ASSUME NEW i \in Nat PROVE In(i) <=> 2 * Sq(i) >= Sq(r)
    OBVIOUS
  <2>1. 2 * i * i = 2 * (i * i)
    OBVIOUS
  <2>2. QED
    BY <2>1 DEF Sq
<1>1. ExactHalf(r) = CHOOSE i \in 0..r : Chosen(i)
  BY DEF ExactHalf, Least
<1> HIDE DEF In
<1>2. r \in T
  BY <1>0, SqIs
<1>3. \E i \in 0..r : i \in T /\ \A j \in 0..(i - 1) : j \notin T
  <2> HIDE DEF T
  <2>1. T \in SUBSET (0..r)
    BY DEF T
  <2>2. QED
    BY <1>2, <2>1, LeastExists
<1>4. \E i \in 0..r : Chosen(i)
  BY <1>3
<1> HIDE DEF Chosen
<1> PICK p : p = ExactHalf(r)
  OBVIOUS
<1>5. p \in 0..r /\ Chosen(p)
  BY <1>1, <1>4
<1>6. ASSUME NEW y \in Nat PROVE y < p <=> 2 * Sq(y) < Sq(r)
  <2>1. CASE y < p
    <3>1. ~In(y)
      BY <1>5, <2>1 DEF Chosen
    <3>2. Sq(y) \in Nat /\ Sq(r) \in Nat /\ ~(2 * Sq(y) >= Sq(r))
      BY <1>0, <3>1, SqIs
    <3>3. QED
      BY <2>1, <3>2
  <2>2. CASE y >= p
    <3>1. In(p) /\ p \in Nat
      BY <1>5 DEF Chosen
    <3>2. 2 * Sq(p) >= Sq(r) /\ Sq(p) <= Sq(y)
      BY <1>0, <2>2, <3>1, SqIs
    <3>3. QED
      BY <2>2, <3>1, <3>2, SqIs
  <2>3. QED
    BY <1>5, <2>1, <2>2
<1>7. QED
  BY <1>5, <1>6

\* Half a quadrant has a row's pixels beyond the square.
LEMMA GainIs ==
  ASSUME IsCircle
  PROVE  /\ Low \in 0..circle.r /\ RowEnd \in 0..circle.r /\ Copies \in Nat
         /\ Gain \in [Rows -> Nat]
         /\ \A x \in Rows : Gain[x] = RowPixels(x) - Low /\ Low <= RowPixels(x)
<1> PICK r \in Nat \ {0} : r = circle.r
  BY DEF IsCircle
<1> PICK h \in 0..r : h = ExactHalf(r)
  BY ExactHalfIs
<1>0. prog.octant => r_half = h
  BY DEF IsCircle, HalfIsExact
<1>1. Low \in 0..r /\ RowEnd \in 0..r /\ Copies \in Nat
  BY <1>0 DEF Low, RowEnd, Copies, IsCircle
<1>2. ASSUME NEW x \in Rows
      PROVE  Gain[x] = RowPixels(x) - Low /\ Low <= RowPixels(x) /\ RowPixels(x) \in Nat
  <2>1. x \in Nat /\ x < RowEnd /\ Gain[x] = RowGain(x)
    BY <1>1, <1>2 DEF Rows, Gain
  <2> PICK p \in 0..r : p = RowPixels(x)
    BY <2>1, RowPixelsIs
  <2>2. Low <= p
    <3>1. CASE prog.octant
      <4>1. x < h /\ Low = h
        BY <1>0, <2>1, <3>1 DEF RowEnd, Low
      <4>2. SUFFICES ASSUME p < h PROVE FALSE
        BY <4>1
      <4>3. 2 * Sq(x) < Sq(r) /\ 2 * Sq(p) < Sq(r)
        BY <2>1, <4>1, <4>2, ExactHalfIs
      <4>4. ~(Sq(x) + Sq(p) < Sq(r))
        BY <2>1, RowPixelsIs
      <4>5. QED
        BY <2>1, <4>3, <4>4, SqIs
    <3>2. CASE ~prog.octant
      BY <3>2 DEF Low
    <3>3. QED
      BY <3>1, <3>2
  <2>3. RowGain(x) = p - Low
    <3>1. CASE prog.octant
      <4>1. RowGain(x) = (p - h) % Word /\ Low = h
        BY <1>0, <3>1 DEF RowGain, Low
      <4>2. p - h \in 0..(Word - 1) /\ Word \in Nat \ {0}
        <5>1. h \in 0..r /\ p \in 0..r /\ h <= p
          BY <2>2, <4>1
        <5>2. r + circle.k <= Word /\ circle.k \in Nat \ {0} /\ Word \in Nat
          BY DEF IsCircle
        <5>3. QED
          BY <5>1, <5>2
      <4>3. QED
        BY <4>1, <4>2
    <3>2. CASE ~prog.octant
      BY <3>2 DEF RowGain, Low
    <3>3. QED
      BY <3>1, <3>2
  <2>4. QED
    BY <2>1, <2>2, <2>3
<1>3. Gain \in [Rows -> Nat]
  <2>1. \A x \in Rows : Gain[x] \in Nat
    BY <1>1, <1>2
  <2>2. QED
    BY <2>1 DEF Gain
<1>4. QED
  BY <1>1, <1>2, <1>3
-----------------------------------------------------------------------------
\* A one-to-one function onto T
LEMMA SameSize ==
  ASSUME NEW S, NEW T, IsFiniteSet(S), NEW f \in [S -> T],
         \A x, y \in S : f[x] = f[y] => x = y,
         \A z \in T : \E x \in S : f[x] = z
  PROVE  IsFiniteSet(T) /\ Cardinality(T) = Cardinality(S)
<1>1. f \in Bijection(S, T)
  BY DEF Bijection, Injection, Surjection, IsInjective
<1>2. ExistsBijection(S, T)
  BY <1>1 DEF ExistsBijection
<1>3. QED
  BY <1>2, FS_Bijection

\* The points of the quadrant, row by row
LEMMA InQuadrant ==
  ASSUME IsCircle, NEW a \in Nat, NEW b \in Nat
  PROVE  /\ <<a, b>> \in Quadrant <=> Sq(a) + Sq(b) < Sq(circle.r)
         /\ <<a, b>> \in Quadrant <=> a < circle.r /\ b < RowPixels(a)
<1> PICK r \in Nat \ {0} : r = circle.r
  BY DEF IsCircle
<1>1. <<a, b>> \in Quadrant <=> a < r /\ b < r /\ Sq(a) + Sq(b) < Sq(r)
  BY DEF Quadrant, Sq
<1>2. Sq(a) \in Nat /\ Sq(b) \in Nat /\ Sq(r) \in Nat
  BY SqIs
<1>3. a >= r => Sq(r) <= Sq(a)
  BY SqIs
<1>4. b >= r => Sq(r) <= Sq(b)
  BY SqIs
<1>5. <<a, b>> \in Quadrant <=> Sq(a) + Sq(b) < Sq(r)
  BY <1>1, <1>2, <1>3, <1>4
<1>6. b < RowPixels(a) <=> Sq(a) + Sq(b) < Sq(r)
  BY RowPixelsIs
<1>7. QED
  BY <1>1, <1>5, <1>6

\* Those the rows count
Left == {c \in Quadrant : c[1] < RowEnd /\ c[2] >= Low}

\* The rows count the points that are left to them.
LEMMA LeftCount ==
  ASSUME IsCircle
  PROVE  IsFiniteSet(Left) /\ Cardinality(Left) = Cardinality(Units(Gain, Rows))
<1> DEFINE f == [p \in Units(Gain, Rows) |-> <<p[1], p[2] + Low - 1>>]
<1>1. Low \in Nat /\ Rows \subseteq Nat /\ Gain \in [Rows -> Nat] /\ RowEnd \in 0..circle.r
  BY GainIs DEF Rows, IsCircle
<1>2. ASSUME NEW p \in Units(Gain, Rows)
      PROVE  /\ p[1] \in Rows /\ p[2] \in Nat /\ p = <<p[1], p[2]>>
             /\ f[p] = <<p[1], p[2] + Low - 1>> /\ f[p] \in Left
  <2>1. p[1] \in Rows /\ p[2] \in Nat /\ p = <<p[1], p[2]>> /\ 1 <= p[2] /\ p[2] <= Gain[p[1]]
    BY DEF Units
  <2> PICK a \in Rows, b \in Nat : a = p[1] /\ b = p[2] + Low - 1
    BY <1>1, <2>1
  <2>2. RowPixels(a) \in Nat /\ Gain[a] = RowPixels(a) - Low
    BY <1>1, GainIs, RowPixelsIs DEF IsCircle
  <2>3. a < circle.r /\ b < RowPixels(a) /\ a < RowEnd /\ b >= Low
    BY <1>1, <2>1, <2>2 DEF Rows, IsCircle
  <2>4. <<a, b>> \in Quadrant
    BY <1>1, <2>3, InQuadrant
  <2>5. <<a, b>> \in Left
    BY <2>3, <2>4 DEF Left
  <2>6. f[p] = <<a, b>>
    OBVIOUS
  <2>7. QED
    BY <2>1, <2>5, <2>6
<1>3. ASSUME NEW c \in Left PROVE \E p \in Units(Gain, Rows) : f[p] = c
  <2>1. c \in (0..(circle.r - 1)) \X (0..(circle.r - 1)) /\ c \in Quadrant /\ c[1] < RowEnd /\ c[2] >= Low
    BY DEF Left, Quadrant
  <2> PICK a \in 0..(circle.r - 1), b \in 0..(circle.r - 1) : c = <<a, b>>
    BY <2>1
  <2>2. a \in Nat /\ b \in Nat /\ a \in Rows /\ b >= Low
    BY <1>1, <2>1 DEF Rows, IsCircle
  <2>3. b < RowPixels(a) /\ RowPixels(a) \in Nat /\ Gain[a] = RowPixels(a) - Low
    BY <2>1, <2>2, InQuadrant, RowPixelsIs, GainIs DEF IsCircle
  <2> PICK n \in Nat : n = b - Low + 1
    BY <1>1, <2>2
  <2>4. 1 <= n /\ n <= Gain[a] /\ n + Low - 1 = b
    BY <1>1, <2>2, <2>3
  <2>5. <<a, n>> \in Units(Gain, Rows)
    BY <2>2, <2>4 DEF Units
  <2>6. f[<<a, n>>] = <<a, b>>
    BY <2>4, <2>5
  <2>7. QED
    BY <2>5, <2>6
<1>4. ASSUME NEW p \in Units(Gain, Rows), NEW q \in Units(Gain, Rows), f[p] = f[q] PROVE p = q
  <2>1. <<p[1], p[2] + Low - 1>> = <<q[1], q[2] + Low - 1>>
    BY <1>2, <1>4
  <2>2. p[1] = q[1] /\ p[2] = q[2]
    <3>1. p[1] = q[1] /\ p[2] + Low - 1 = q[2] + Low - 1
      BY <2>1, Zenon
    <3>2. p[2] \in Nat /\ q[2] \in Nat
      BY <1>2
    <3>3. QED
      BY <1>1, <3>1, <3>2
  <2>3. QED
    BY <1>2, <2>2, Zenon
<1>5. f \in [Units(Gain, Rows) -> Left]
  BY <1>2
<1>6. IsFiniteSet(Units(Gain, Rows))
  <2>1. IsFiniteSet(Rows)
    BY <1>1, FS_Interval DEF Rows, IsCircle
  <2>2. Rows \in SUBSET Rows
    OBVIOUS
  <2>3. QED
    BY <1>1, <2>1, <2>2, UnitsFinite
<1> HIDE DEF f
<1>7. QED
  BY <1>3, <1>4, <1>5, <1>6, SameSize

\* A quadrant is a square and, twice, the part of it beyond the square.
LEMMA QuadrantCount ==
  ASSUME IsCircle
  PROVE  Cardinality(Quadrant) = Copies * Cardinality(Units(Gain, Rows)) + Low * Low
<1> PICK r \in Nat \ {0} : r = circle.r
  BY DEF IsCircle
<1> PICK h \in 0..r : h = ExactHalf(r)
  BY ExactHalfIs
<1>1. ASSUME NEW c \in Quadrant
      PROVE  c[1] \in Nat /\ c[2] \in Nat /\ c[1] < r /\ c[2] < r /\ c = <<c[1], c[2]>>
             /\ Sq(c[1]) + Sq(c[2]) < Sq(r)
  BY DEF Quadrant, Sq
<1> PICK n : n = Cardinality(Left)
  OBVIOUS
<1>2. IsFiniteSet(Left) /\ n \in Nat /\ n = Cardinality(Units(Gain, Rows))
  BY LeftCount, FS_CardinalityType
<1>3. CASE ~prog.octant
  <2>1. Low = 0 /\ Copies = 1 /\ RowEnd = r
    BY <1>3 DEF Low, Copies, RowEnd
  <2>2. Left = Quadrant
    BY <1>1, <2>1 DEF Left
  <2>3. Copies * n + Low * Low = n
    BY <1>2, <2>1
  <2>4. QED
    BY <1>2, <2>2, <2>3, Zenon
<1>4. CASE prog.octant
  <2>1. Low = h /\ Copies = 2 /\ RowEnd = h
    BY <1>4 DEF Low, Copies, RowEnd, IsCircle, HalfIsExact
  <2> DEFINE Right == {c \in Quadrant : c[1] >= h /\ c[2] < h}
             Middle == (0..(h - 1)) \X (0..(h - 1))
             Mirror == [c \in Left |-> <<c[2], c[1]>>]
  <2>2. Left = {c \in Quadrant : c[1] < h /\ c[2] >= h}
    BY <2>1 DEF Left
  <2>3. \A y \in Nat : y < h <=> 2 * Sq(y) < Sq(r)
    BY ExactHalfIs
  <2>4. Middle \subseteq Quadrant
    <3> SUFFICES ASSUME NEW a \in 0..(h - 1), NEW b \in 0..(h - 1) PROVE <<a, b>> \in Quadrant
      OBVIOUS
    <3>1. a \in Nat /\ b \in Nat /\ 2 * Sq(a) < Sq(r) /\ 2 * Sq(b) < Sq(r)
      BY <2>3
    <3>2. Sq(a) + Sq(b) < Sq(r)
      BY <3>1, SqIs
    <3>3. QED
      BY <3>1, <3>2, InQuadrant
  <2>5. \A c \in Quadrant : c[1] < h \/ c[2] < h
    <3> SUFFICES ASSUME NEW c \in Quadrant, c[1] >= h, c[2] >= h PROVE FALSE
      BY <1>1
    <3>1. ~(2 * Sq(c[1]) < Sq(r)) /\ ~(2 * Sq(c[2]) < Sq(r))
      BY <1>1, <2>3
    <3>2. Sq(c[1]) \in Nat /\ Sq(c[2]) \in Nat /\ Sq(r) \in Nat
      BY <1>1, SqIs
    <3>3. QED
      BY <1>1, <3>1, <3>2
  <2>6. Quadrant = (Left \cup Right) \cup Middle
    <3>1. \A c \in Quadrant : c \in Left \/ c \in Right \/ c \in Middle
      BY <1>1, <2>2, <2>5
    <3>2. QED
      BY <2>2, <2>4, <3>1
  <2>7. Left \cap Right = {} /\ (Left \cup Right) \cap Middle = {}
    BY <1>1, <2>2
  <2>8. IsFiniteSet(Right) /\ Cardinality(Right) = n
    <3>1. \A c \in Left : <<c[2], c[1]>> \in Right /\ Mirror[c] = <<c[2], c[1]>>
      <4> SUFFICES ASSUME NEW c \in Left PROVE <<c[2], c[1]>> \in Right
        OBVIOUS
      <4>1. c \in Quadrant /\ c[1] < h /\ c[2] >= h
        BY <2>2
      <4> PICK a \in Nat, b \in Nat : a = c[1] /\ b = c[2]
        BY <1>1, <4>1
      <4>2. Sq(b) + Sq(a) < Sq(r)
        BY <1>1, <4>1, SqIs
      <4>3. <<b, a>> \in Quadrant
        BY <4>2, InQuadrant
      <4>4. QED
        BY <4>1, <4>3
    <3>2. \A c \in Right : <<c[2], c[1]>> \in Left /\ c = <<c[1], c[2]>>
      <4> SUFFICES ASSUME NEW c \in Right PROVE <<c[2], c[1]>> \in Left /\ c = <<c[1], c[2]>>
        OBVIOUS
      <4>1. c \in Quadrant /\ c[2] < h /\ c[1] >= h
        OBVIOUS
      <4> PICK a \in Nat, b \in Nat : a = c[1] /\ b = c[2]
        BY <1>1, <4>1
      <4>2. Sq(b) + Sq(a) < Sq(r)
        BY <1>1, <4>1, SqIs
      <4>3. <<b, a>> \in Quadrant
        BY <4>2, InQuadrant
      <4>4. QED
        BY <1>1, <2>2, <4>1, <4>3
    <3>3. \A c \in Left : c = <<c[1], c[2]>>
      BY <1>1, <2>2
    <3>4. Mirror \in [Left -> Right]
      BY <3>1
    <3>5. \A c, d \in Left : Mirror[c] = Mirror[d] => c = d
      BY <3>1, <3>3
    <3>6. \A d \in Right : \E c \in Left : Mirror[c] = d
      BY <3>1, <3>2
    <3> HIDE DEF Mirror, Right
    <3>7. QED
      BY <1>2, <3>4, <3>5, <3>6, SameSize
  <2>9. IsFiniteSet(Middle) /\ Cardinality(Middle) = h * h
    <3>1. IsFiniteSet(0..(h - 1)) /\ Cardinality(0..(h - 1)) = h
      <4>1. 0 \in Int /\ h - 1 \in Int /\ h \in Nat
        OBVIOUS
      <4>2. /\ IsFiniteSet(0..(h - 1))
            /\ Cardinality(0..(h - 1)) = IF 0 > h - 1 THEN 0 ELSE (h - 1) - 0 + 1
        BY <4>1, FS_Interval, Zenon
      <4>3. (IF 0 > h - 1 THEN 0 ELSE (h - 1) - 0 + 1) = h
        BY <4>1
      <4>4. QED
        BY <4>2, <4>3, Zenon
    <3>2. QED
      BY <3>1, FS_Product
  <2>10. IsFiniteSet(Left \cup Right) /\ Cardinality(Left \cup Right) = n + n
    <3> HIDE DEF Right
    <3>1. /\ IsFiniteSet(Left \cup Right)
          /\ Cardinality(Left \cup Right) = n + n - Cardinality(Left \cap Right)
      BY <1>2, <2>8, FS_Union
    <3>2. Cardinality(Left \cap Right) = 0
      BY <2>7, FS_EmptySet
    <3>3. QED
      BY <1>2, <3>1, <3>2
  <2>11. Cardinality(Quadrant) = n + n + h * h
    <3> HIDE DEF Right, Middle
    <3>1. Cardinality((Left \cup Right) \cup Middle)
            = n + n + h * h - Cardinality((Left \cup Right) \cap Middle)
      BY <2>9, <2>10, FS_Union
    <3>2. Cardinality((Left \cup Right) \cap Middle) = 0
      BY <2>7, FS_EmptySet
    <3>3. h * h \in Nat
      OBVIOUS
    <3>4. QED
      BY <1>2, <2>6, <3>1, <3>2, <3>3
  <2>12. QED
    BY <1>2, <2>1, <2>11
<1>5. QED
  BY <1>3, <1>4 DEF IsCircle
-----------------------------------------------------------------------------
\* The rows of a member, and those of a process
RowsOf(m) == {x \in Rows : x % Stride = RankOf(m)}
RowsOfProcess(p) == UNION {RowsOf(<<p, th>>) : th \in 0..(prog.threads - 1)}

CountOf(A) == Cardinality(Units(Gain, A))

CircleTypes ==
  /\ prog \in CirclePrograms
  /\ circle \in Circles
  /\ HalfIsExact
  /\ ncpus \in [Processes -> Nat]
  /\ row \in [Members -> Int]
  /\ pixels \in [Members -> Nat]
  /\ res \in [Members -> Int]
  /\ sum \in [Processes -> Int]
  /\ got \in Nat

\* A member that has begun goes over its own rows, and the stride is there.
RowsWalked ==
  /\ prog.team # "omp" => \A p \in Processes : ncpus[p] = Stride
  /\ \A m \in Members : row[m] # Pending =>
       row[m] \in Nat /\ ncpus[m[1]] = Stride /\ row[m] % Stride = RankOf(m)

\* Its sum counts the rows it has gone over,
Counted ==
  \A m \in Members : pixels[m] = CountOf({x \in RowsOf(m) : x < row[m]}) % circle.k

\* and what it returns all of its rows.
Returned ==
  \A m \in Members : res[m] # Pending => res[m] = CountOf(RowsOf(m)) % circle.k

Summed ==
  /\ \A p \in Processes : sum[p] # Pending =>
       sum[p] = (Copies * CountOf(RowsOfProcess(p))) % circle.k
  /\ \A p \in 1..(got - 1) : p \in Processes => sum[p] # Pending

\* What is printed
Printed == printed = Pending \/ printed = (4 * Cardinality(Quadrant)) % circle.k

CircleInv == CircleTypes /\ RowsWalked /\ Counted /\ Returned /\ Summed /\ Printed

\* What the programs and the assumption on the arguments give
LEMMA ProgramIs ==
  ASSUME prog \in CirclePrograms, circle \in Circles, HalfIsExact
  PROVE  /\ IsCircle
         /\ prog.processes \in Nat \ {0} /\ prog.threads \in Nat \ {0}
         /\ Stride \in Nat \ {0}
<1>1. IsCircle /\ prog.processes \in Nat \ {0} /\ prog.threads \in Nat \ {0}
  <2>1. /\ circle.r \in Nat \ {0} /\ circle.k \in Nat \ {0}
        /\ Word \in Nat /\ circle.r + circle.k <= Word
    <3> PICK r \in Nat \ {0}, k \in Nat \ {0} :
          /\ r = circle.r /\ k = circle.k /\ Word \in Nat
          /\ r * r < Word /\ 8 * k <= Word
      BY CircleAssumption
    <3>1. r = 1 \/ 2 * r <= r * r
      <4>1. r >= 2 => 2 * r <= r * r
        BY ONLY r \in Nat \ {0}, TimesMonotone
      <4>2. QED
        BY <4>1
    <3>2. r + k <= Word
      <4> PICK s \in Nat : s = r * r
        OBVIOUS
      <4>1. s < Word /\ 8 * k <= Word /\ (r = 1 \/ 2 * r <= s) /\ Word \in Nat
        BY <3>1
      <4>2. QED
        BY ONLY <4>1, s \in Nat, r \in Nat \ {0}, k \in Nat \ {0}
    <3>3. QED
      BY <3>2
  <2>2. CircleProcs \in Nat \ {0} /\ CircleThreads \in Nat \ {0}
    BY CircleAssumption
  <2>3. prog.octant \in BOOLEAN
    <3>1. /\ lab1.octant = FALSE /\ lab1_sample.octant = FALSE
          /\ lab3_pthread.octant = TRUE /\ lab3_omp.octant = TRUE /\ lab3_hybrid.octant = TRUE
      BY DEF lab1, lab1_sample, lab3_pthread, lab3_omp, lab3_hybrid
    <3>2. \/ prog = lab1 \/ prog = lab1_sample
          \/ prog = lab3_pthread \/ prog = lab3_omp \/ prog = lab3_hybrid
      BY DEF CirclePrograms
    <3>3. QED
      BY <3>1, <3>2, Zenon
  <2>4. prog.processes \in {1, CircleProcs} /\ prog.threads \in {1, CircleThreads}
    BY DEF CirclePrograms, lab1, lab1_sample, lab3_pthread, lab3_omp, lab3_hybrid
  <2>5. QED
    BY <2>1, <2>2, <2>3, <2>4 DEF IsCircle
<1>2. \A a, b \in Nat \ {0} : a * b \in Nat \ {0}
  OBVIOUS
<1>3. QED
  BY <1>1, <1>2 DEF Stride

\* The ranks number the members.
LEMMA RanksAre ==
  ASSUME prog \in CirclePrograms, circle \in Circles, HalfIsExact
  PROVE  /\ \A m \in Members : RankOf(m) \in 0..(Stride - 1)
         /\ \A m, n \in Members : RankOf(m) = RankOf(n) => m = n
         /\ \A i \in 0..(Stride - 1) : \E p \in Processes, th \in 0..(prog.threads - 1) :
              RankOf(<<p, th>>) = i
<1> PICK b \in Nat \ {0}, d \in Nat \ {0} : b = prog.threads /\ d = prog.processes
  BY ProgramIs
<1>1. Stride = b * d /\ Processes = 0..(d - 1) /\ Members = (0..(d - 1)) \X (0..(b - 1))
  <2>1. d * b = b * d
    OBVIOUS
  <2>2. QED
    BY <2>1 DEF Stride, Processes, Members
<1>2. ASSUME NEW m \in Members
      PROVE  /\ m[1] \in 0..(d - 1) /\ m[2] \in 0..(b - 1) /\ m = <<m[1], m[2]>>
             /\ RankOf(m) \in 0..(b * d - 1)
             /\ RankOf(m) \div b = m[1] /\ RankOf(m) % b = m[2]
  <2>1. m[1] \in 0..(d - 1) /\ m[2] \in 0..(b - 1) /\ m = <<m[1], m[2]>>
    BY <1>1
  <2> PICK q, r : q = m[1] /\ r = m[2]
    OBVIOUS
  <2>2. q \in 0..(d - 1) /\ r \in 0..(b - 1)
    BY <2>1
  <2>3. RankOf(m) = q * b + r
    BY DEF RankOf
  <2>4. /\ q * b + r \in 0..(b * d - 1)
        /\ (q * b + r) \div b = q /\ (q * b + r) % b = r
    BY ONLY <2>2, b \in Nat \ {0}, d \in Nat \ {0}, FromRowAndColumn
  <2>5. QED
    BY <2>1, <2>3, <2>4, Zenon
<1>3. ASSUME NEW m \in Members, NEW n \in Members, RankOf(m) = RankOf(n) PROVE m = n
  <2>1. m[1] = n[1] /\ m[2] = n[2] /\ m = <<m[1], m[2]>> /\ n = <<n[1], n[2]>>
    BY <1>2, <1>3, Zenon
  <2>2. QED
    BY <2>1, Zenon
<1>4. ASSUME NEW i \in 0..(b * d - 1)
      PROVE  \E p \in Processes, th \in 0..(prog.threads - 1) : RankOf(<<p, th>>) = i
  <2> PICK p, th : p = i \div b /\ th = i % b
    OBVIOUS
  <2>1. p \in 0..(d - 1) /\ th \in 0..(b - 1) /\ i = p * b + th
    BY ONLY p = i \div b /\ th = i % b, b \in Nat \ {0}, d \in Nat \ {0}, i \in 0..(b * d - 1),
            RowAndColumn
  <2>2. RankOf(<<p, th>>) = i
    BY <2>1 DEF RankOf
  <2>3. QED
    BY <1>1, <2>1, <2>2
<1>5. QED
  BY <1>1, <1>2, <1>3, <1>4
-----------------------------------------------------------------------------
\* Every row is that of one member, and of one process.
LEMMA RowsSplit ==
  ASSUME prog \in CirclePrograms, circle \in Circles, HalfIsExact
  PROVE  /\ Rows \subseteq Nat /\ IsFiniteSet(Rows)
         /\ \A m, n \in Members : m # n => RowsOf(m) \cap RowsOf(n) = {}
         /\ \A p, q \in Processes : p # q => RowsOfProcess(p) \cap RowsOfProcess(q) = {}
         /\ \A p \in Processes : RowsOfProcess(p) \subseteq Rows
         /\ UNION {RowsOfProcess(p) : p \in Processes} = Rows
<1>1. Rows \subseteq Nat /\ IsFiniteSet(Rows)
  <2>1. RowEnd \in Int
    BY ProgramIs, GainIs DEF IsCircle
  <2>2. QED
    BY <2>1, FS_Interval DEF Rows
<1>2. ASSUME NEW m \in Members, NEW n \in Members, m # n
      PROVE  RowsOf(m) \cap RowsOf(n) = {}
  <2>1. RankOf(m) # RankOf(n)
    BY <1>2, RanksAre
  <2>2. QED
    BY <2>1 DEF RowsOf
<1>3. ASSUME NEW p \in Processes, NEW q \in Processes, p # q
      PROVE  RowsOfProcess(p) \cap RowsOfProcess(q) = {}
  <2> SUFFICES ASSUME NEW x \in RowsOfProcess(p), x \in RowsOfProcess(q) PROVE FALSE
    OBVIOUS
  <2> PICK th \in 0..(prog.threads - 1) : x \in RowsOf(<<p, th>>)
    BY DEF RowsOfProcess
  <2> PICK ti \in 0..(prog.threads - 1) : x \in RowsOf(<<q, ti>>)
    BY DEF RowsOfProcess
  <2>1. <<p, th>> \in Members /\ <<q, ti>> \in Members /\ <<p, th>> # <<q, ti>>
    BY <1>3 DEF Members
  <2>2. QED
    BY <1>2, <2>1
<1>4. ASSUME NEW p \in Processes PROVE RowsOfProcess(p) \subseteq Rows
  BY DEF RowsOfProcess, RowsOf
<1>5. ASSUME NEW x \in Rows PROVE \E p \in Processes : x \in RowsOfProcess(p)
  <2> PICK i : i = x % Stride
    OBVIOUS
  <2>1. i \in 0..(Stride - 1)
    BY <1>1, ProgramIs, DivMod
  <2> PICK p \in Processes, th \in 0..(prog.threads - 1) : RankOf(<<p, th>>) = i
    BY <2>1, RanksAre
  <2>2. x \in RowsOf(<<p, th>>)
    BY DEF RowsOf
  <2>3. x \in RowsOfProcess(p)
    BY <2>2 DEF RowsOfProcess
  <2>4. QED
    BY <2>3
<1>6. UNION {RowsOfProcess(p) : p \in Processes} = Rows
  BY <1>4, <1>5
<1>7. QED
  BY <1>1, <1>2, <1>3, <1>4, <1>6

\* Numbers with the same remainder are at least a stride apart.
LEMMA SameRemainder ==
  ASSUME NEW S \in Nat \ {0}, NEW i \in Nat, NEW x \in Nat, x % S = i % S, i <= x, x < i + S
  PROVE  x = i
<1> PICK a \in Nat, s \in 0..(S - 1) : s = x % S /\ x = S * a + s
  BY DivMod
<1> PICK b \in Nat, u \in 0..(S - 1) : u = i % S /\ i = S * b + u
  BY DivMod
<1>0. u = s
  OBVIOUS
<1>1. S * a \in Nat /\ S * b \in Nat
  OBVIOUS
<1>2. CASE b < a
  <2>1. S * (b + 1) <= S * a
    BY <1>2, TimesMonotone
  <2>2. S * (b + 1) = S * b + S
    OBVIOUS
  <2>3. QED
    BY <1>0, <1>1, <2>1, <2>2
<1>3. CASE a <= b
  <2>1. S * a <= S * b
    BY <1>3, TimesMonotone
  <2>2. QED
    BY <1>0, <1>1, <2>1
<1>4. QED
  BY <1>2, <1>3

\* A member goes from row to row, and leaves out none of its own.
LEMMA RowsAre ==
  ASSUME prog \in CirclePrograms, circle \in Circles, HalfIsExact, NEW m \in Members
  PROVE  /\ {x \in RowsOf(m) : x < Pending} = {}
         /\ RankOf(m) \in Nat /\ RankOf(m) % Stride = RankOf(m)
         /\ {x \in RowsOf(m) : x < RankOf(m)} = {}
         /\ \A i \in Nat : i % Stride = RankOf(m) =>
              /\ (i + Stride) % Stride = RankOf(m)
              /\ i < RowEnd =>
                   /\ i \in Rows
                   /\ {x \in RowsOf(m) : x < i + Stride} = {x \in RowsOf(m) : x < i} \cup {i}
              /\ i >= RowEnd => {x \in RowsOf(m) : x < i} = RowsOf(m)
<1> PICK S \in Nat \ {0} : S = Stride
  BY ProgramIs
<1> PICK k \in 0..(S - 1) : k = RankOf(m)
  BY RanksAre
<1>1. Rows \subseteq Nat /\ RowEnd \in Nat
  BY RowsSplit, ProgramIs, GainIs DEF IsCircle
<1>2. \A x \in RowsOf(m) : x \in Nat /\ x \in Rows /\ x % S = k /\ x < RowEnd
  BY <1>1 DEF RowsOf, Rows
<1>3. ASSUME NEW x \in Nat PROVE x % S <= x /\ (x + S) % S = x % S
  <2> PICK q \in Nat, s \in 0..(S - 1) : s = x % S /\ x = S * q + s
    BY ONLY x \in Nat, S \in Nat \ {0}, DivMod
  <2>1. S * q \in Nat
    OBVIOUS
  <2>2. (x + S * 1) % S = x % S
    BY ONLY S \in Nat \ {0}, x \in Nat, ModShift
  <2>3. S * 1 = S
    OBVIOUS
  <2>4. s <= x
    BY <2>1
  <2>5. QED
    BY <2>2, <2>3, <2>4
<1>4. {x \in RowsOf(m) : x < Pending} = {}
  BY <1>2 DEF Pending
<1>5. {x \in RowsOf(m) : x < k} = {}
  BY <1>2, <1>3
<1>6. k % S = k
  <2>1. /\ 0 \in 0..(S - 1)
        /\ k = 0 * S + k /\ 1 \in Nat \ {0} /\ 0 \in 0..(1 - 1)
    OBVIOUS
  <2>2. (0 * S + k) % S = k
    BY ONLY <2>1, S \in Nat \ {0}, k \in 0..(S - 1), FromRowAndColumn
  <2>3. QED
    BY <2>1, <2>2, Zenon
<1>7. ASSUME NEW i \in Nat, i % S = k, i < RowEnd
      PROVE  /\ i \in Rows
             /\ {x \in RowsOf(m) : x < i + S} = {x \in RowsOf(m) : x < i} \cup {i}
  <2>1. i \in Rows
    BY <1>1, <1>7 DEF Rows
  <2>2. i \in RowsOf(m)
    BY <1>7, <2>1 DEF RowsOf
  <2>3. ASSUME NEW x \in RowsOf(m), x < i + S, ~(x < i) PROVE x = i
    <3>1. x \in Nat /\ x % S = k
      BY <1>2
    <3>2. i <= x
      BY <2>3, <3>1
    <3>3. QED
      BY ONLY <3>1, <3>2, <2>3, <1>7, i \in Nat, S \in Nat \ {0}, SameRemainder
  <2>4. {x \in RowsOf(m) : x < i + S} = {x \in RowsOf(m) : x < i} \cup {i}
    <3>1. \A x \in RowsOf(m) : x < i + S <=> x < i \/ x = i
      BY <1>2, <2>3
    <3>2. QED
      BY <2>2, <3>1
  <2>5. QED
    BY <2>1, <2>4
<1>8. ASSUME NEW i \in Nat, i >= RowEnd PROVE {x \in RowsOf(m) : x < i} = RowsOf(m)
  BY <1>1, <1>2, <1>8
<1>9. ASSUME NEW i \in Nat, i % S = k
      PROVE  /\ (i + S) % S = k
             /\ i < RowEnd =>
                  /\ i \in Rows
                  /\ {x \in RowsOf(m) : x < i + S} = {x \in RowsOf(m) : x < i} \cup {i}
             /\ i >= RowEnd => {x \in RowsOf(m) : x < i} = RowsOf(m)
  <2>1. (i + S) % S = k
    BY <1>3, <1>9, Zenon
  <2>2. QED
    BY <1>7, <1>8, <1>9, <2>1, Zenon
<1>10. k \in Nat
  OBVIOUS
<1>11. QED
  BY <1>4, <1>5, <1>6, <1>9, <1>10, Zenon

\* What a row adds to a count
LEMMA CountIs ==
  ASSUME prog \in CirclePrograms, circle \in Circles, HalfIsExact
  PROVE  /\ CountOf({}) = 0
         /\ \A A \in SUBSET Rows : CountOf(A) \in Nat
         /\ \A A \in SUBSET Rows : \A x \in Rows \ A :
              CountOf(A \cup {x}) = CountOf(A) + RowGain(x)
         /\ \A x \in Rows : RowGain(x) \in Nat
         /\ \A e \in Nat : Additive([A \in SUBSET Rows |-> e * CountOf(A)], Rows)
<1>1. Gain \in [Rows -> Nat] /\ \A x \in Rows : Gain[x] = RowGain(x)
  BY ProgramIs, GainIs DEF Gain
<1>2. IsFiniteSet(Rows)
  BY RowsSplit
<1>3. \A A \in SUBSET Rows : IsFiniteSet(Units(Gain, A)) /\ CountOf(A) \in Nat
  BY <1>1, <1>2, UnitsFinite DEF CountOf
<1>4. CountOf({}) = 0
  <2>1. Units(Gain, {}) = {}
    BY DEF Units
  <2>2. QED
    BY <2>1, FS_EmptySet DEF CountOf
<1>5. ASSUME NEW A \in SUBSET Rows, NEW x \in Rows \ A
      PROVE  CountOf(A \cup {x}) = CountOf(A) + RowGain(x)
  <2>1. CountOf(A \cup {x}) = Gain[x] + CountOf(A)
    BY <1>1, <1>3, UnitsAdd DEF CountOf
  <2>2. Gain[x] = RowGain(x) /\ Gain[x] \in Nat /\ CountOf(A) \in Nat
    BY <1>1, <1>3
  <2>3. QED
    BY <2>1, <2>2
<1>6. ASSUME NEW e \in Nat PROVE Additive([A \in SUBSET Rows |-> e * CountOf(A)], Rows)
  BY <1>1, <1>2, UnitsAdditive DEF CountOf
<1>7. QED
  BY <1>1, <1>3, <1>4, <1>5, <1>6
-----------------------------------------------------------------------------
\* What the members of a process return sums up to what its rows bring,
LEMMA JoinSum ==
  ASSUME CircleInv, NEW p \in Processes,
         \A th \in 0..(prog.threads - 1) : res[<<p, th>>] # Pending
  PROVE  LET s == SumFunction([th \in 0..(prog.threads - 1) |-> res[<<p, th>>]])
         IN  s \in Nat /\ s % circle.k = CountOf(RowsOfProcess(p)) % circle.k
<1> PICK k \in Nat \ {0}, n \in Nat \ {0} : k = circle.k /\ n = prog.threads
  BY ProgramIs DEF CircleInv, CircleTypes, IsCircle
<1> DEFINE S == 0..(n - 1)
           f == [th \in S |-> res[<<p, th>>]]
           part == [th \in S |-> RowsOf(<<p, th>>)]
           c == [A \in SUBSET Rows |-> 1 * CountOf(A)]
<1>1. Additive(c, Rows) /\ \A A \in SUBSET Rows : c[A] = CountOf(A) /\ CountOf(A) \in Nat
  <2>1. \A A \in SUBSET Rows : CountOf(A) \in Nat
    BY CountIs DEF CircleInv, CircleTypes
  <2>2. Additive(c, Rows)
    BY CountIs DEF CircleInv, CircleTypes
  <2>3. QED
    BY <2>1, <2>2
<1>2. \A th \in S : <<p, th>> \in Members /\ RowsOf(<<p, th>>) \subseteq Rows
  BY DEF Members, RowsOf
<1>3. \A th \in S : f[th] = CountOf(RowsOf(<<p, th>>)) % k
  BY <1>2 DEF CircleInv, Returned
<1>4. f \in [S -> Nat]
  <2>1. \A th \in S : f[th] \in Nat
    <3>1. \A a \in Nat : a % k \in Nat
      BY ONLY k \in Nat \ {0}, DivMod
    <3>2. QED
      BY <1>1, <1>2, <1>3, <3>1
  <2>2. QED
    BY <2>1
<1>5. part \in [S -> SUBSET Rows] /\ \A s, u \in S : s # u => part[s] \cap part[u] = {}
  <2>1. \A s, u \in S : s # u => RowsOf(<<p, s>>) \cap RowsOf(<<p, u>>) = {}
    <3>1. \A s, u \in S : s # u => <<p, s>> # <<p, u>>
      OBVIOUS
    <3>2. QED
      BY <1>2, <3>1, RowsSplit DEF CircleInv, CircleTypes
  <2>2. QED
    BY <1>2, <2>1
<1>6. \A s \in S : f[s] = c[part[s]] % k
  BY <1>1, <1>2, <1>3
<1>7. IsFiniteSet(S)
  BY FS_Interval
<1>8. AllOf(S, part) = RowsOfProcess(p) /\ RowsOfProcess(p) \in SUBSET Rows
  <2>1. AllOf(S, part) = RowsOfProcess(p)
    BY DEF RowsOfProcess, AllOf
  <2>2. QED
    BY <2>1, RowsSplit DEF CircleInv, CircleTypes
<1>9. SumFunction(f) = SumFunction([th \in 0..(prog.threads - 1) |-> res[<<p, th>>]])
  OBVIOUS
<1> HIDE DEF S, f, part, c
<1>10. SumFunction(f) \in Nat /\ SumFunction(f) % k = c[AllOf(S, part)] % k
  <2>1. InParts(S, Rows, part, c, k, f)
    BY <1>1, <1>4, <1>5, <1>6, <1>7, Zenon DEF InParts
  <2>2. QED
    BY ONLY <2>1, SumOfParts
<1>11. QED
  BY <1>1, <1>8, <1>9, <1>10

\* and the sums of the processes to what all rows bring.
LEMMA PrintSum ==
  ASSUME CircleInv, \A p \in Processes : sum[p] # Pending
  PROVE  /\ SumFunction(sum) \in Nat
         /\ SumFunction(sum) % circle.k = (Copies * CountOf(Rows)) % circle.k
         /\ CountOf(Rows) \in Nat /\ Copies \in Nat
<1> PICK k \in Nat \ {0}, n \in Nat \ {0} : k = circle.k /\ n = prog.processes
  BY ProgramIs DEF CircleInv, CircleTypes, IsCircle
<1> DEFINE S == 0..(n - 1)
           part == [p \in S |-> RowsOfProcess(p)]
           c == [A \in SUBSET Rows |-> Copies * CountOf(A)]
<1>0. S = Processes /\ Copies \in Nat
  BY ProgramIs, GainIs DEF Processes, CircleInv, CircleTypes
<1>1. \A A \in SUBSET Rows : CountOf(A) \in Nat /\ c[A] = Copies * CountOf(A)
  BY CountIs DEF CircleInv, CircleTypes
<1>2. Additive(c, Rows)
  BY <1>0, CountIs DEF CircleInv, CircleTypes
<1>3. \A p \in S : RowsOfProcess(p) \in SUBSET Rows /\ part[p] = RowsOfProcess(p)
  BY <1>0, RowsSplit DEF CircleInv, CircleTypes
<1>4. \A p \in S : sum[p] = c[part[p]] % k
  BY <1>0, <1>1, <1>3 DEF CircleInv, Summed
<1>5. sum \in [S -> Nat]
  <2>1. \A p \in S : c[part[p]] \in Nat
    BY <1>2, <1>3 DEF Additive
  <2>2. \A p \in S : sum[p] \in Nat
    <3>1. \A a \in Nat : a % k \in Nat
      BY ONLY k \in Nat \ {0}, DivMod
    <3>2. QED
      BY <1>4, <2>1, <3>1
  <2>3. QED
    BY <1>0, <2>2 DEF CircleInv, CircleTypes
<1>6. part \in [S -> SUBSET Rows] /\ \A s, u \in S : s # u => part[s] \cap part[u] = {}
  BY <1>0, <1>3, RowsSplit DEF CircleInv, CircleTypes
<1>7. IsFiniteSet(S)
  BY FS_Interval
<1>8. AllOf(S, part) = Rows /\ Rows \in SUBSET Rows
  <2>1. AllOf(S, part) = UNION {RowsOfProcess(p) : p \in Processes}
    BY <1>0 DEF AllOf
  <2>2. QED
    BY <2>1, RowsSplit DEF CircleInv, CircleTypes
<1> HIDE DEF S, part, c
<1>9. SumFunction(sum) \in Nat /\ SumFunction(sum) % k = c[AllOf(S, part)] % k
  <2>1. InParts(S, Rows, part, c, k, sum)
    BY <1>2, <1>4, <1>5, <1>6, <1>7, Zenon DEF InParts
  <2>2. QED
    BY ONLY <2>1, SumOfParts
<1>10. QED
  BY <1>0, <1>1, <1>8, <1>9

\* A step leaves the program and its arguments as they are.
LEMMA SameProgram ==
  ASSUME prog' = prog, circle' = circle, r_half' = r_half
  PROVE  /\ Processes' = Processes /\ Members' = Members /\ Stride' = Stride
         /\ Copies' = Copies /\ Rows' = Rows
         /\ \A m : RankOf(m)' = RankOf(m) /\ RowsOf(m)' = RowsOf(m)
         /\ \A p : RowsOfProcess(p)' = RowsOfProcess(p)
         /\ \A A : CountOf(A)' = CountOf(A)
         /\ Quadrant' = Quadrant /\ HalfIsExact' = HalfIsExact
         /\ printed' = printed => Printed' = Printed
<1>1. /\ Processes' = Processes /\ Members' = Members /\ Stride' = Stride
      /\ RowEnd' = RowEnd /\ Copies' = Copies /\ Quadrant' = Quadrant
  BY DEF Processes, Members, Stride, RowEnd, Copies, Quadrant
<1>2. \A x : RowGain(x)' = RowGain(x)
  <2>1. \A x : RowPixels(x)' = RowPixels(x)
    BY Zenon DEF RowPixels, Least
  <2>2. QED
    BY <2>1 DEF RowGain
<1>3. Rows' = Rows /\ Gain' = Gain
  BY <1>1, <1>2 DEF Rows, Gain
<1>4. \A m : RankOf(m)' = RankOf(m)
  BY DEF RankOf
<1>5. \A m : RowsOf(m)' = RowsOf(m)
  BY <1>1, <1>3, <1>4 DEF RowsOf
<1>6. \A p : RowsOfProcess(p)' = RowsOfProcess(p)
  BY <1>5 DEF RowsOfProcess
<1>7. \A A : CountOf(A)' = CountOf(A)
  BY <1>3 DEF CountOf
<1>8. printed' = printed => Printed' = Printed
  BY <1>1 DEF Printed
<1>9. HalfIsExact' = HalfIsExact
  <2>1. ExactHalf(circle.r)' = ExactHalf(circle.r)
    BY Zenon DEF ExactHalf, Least
  <2>2. QED
    BY <2>1 DEF HalfIsExact
<1>10. QED
  BY <1>1, <1>3, <1>4, <1>5, <1>6, <1>7, <1>8, <1>9
-----------------------------------------------------------------------------
\* The invariant holds at the start.
LEMMA CircleBegins == CircleInit /\ HalfIsExact => CircleInv
<1> SUFFICES ASSUME CircleInit, HalfIsExact PROVE CircleInv
  OBVIOUS
<1> USE DEF CircleInit
<1>1. IsCircle /\ Stride \in Nat \ {0} /\ circle.k \in Nat \ {0}
  BY ProgramIs DEF IsCircle
<1>2. CircleTypes
  BY <1>1 DEF CircleTypes, Pending
<1>3. RowsWalked
  BY DEF RowsWalked
<1>4. Counted
  <2> SUFFICES ASSUME NEW m \in Members
               PROVE  pixels[m] = CountOf({x \in RowsOf(m) : x < row[m]}) % circle.k
    BY DEF Counted
  <2>1. row[m] = Pending /\ pixels[m] = 0
    OBVIOUS
  <2>2. CountOf({x \in RowsOf(m) : x < row[m]}) = 0
    BY <2>1, RowsAre, CountIs
  <2>3. 0 % circle.k = 0
    BY <1>1
  <2>4. QED
    BY <2>1, <2>2, <2>3
<1>5. Returned
  BY DEF Returned
<1>6. Summed
  BY DEF Summed
<1>7. Printed
  BY DEF Printed
<1>8. QED
  BY <1>2, <1>3, <1>4, <1>5, <1>6, <1>7 DEF CircleInv

\* pthread_create, or the receipt of a sum that is there
LEMMA CreateKeeps ==
  ASSUME CircleInv, UNCHANGED <<prog, circle, r_half, ncpus, row, pixels, res, sum, printed>>,
         \/ got' = got
         \/ (got \in Processes => sum[got] # Pending) /\ got' = got + 1
  PROVE  CircleInv'
<1> USE DEF CircleInv
<1>1. /\ Processes' = Processes /\ Members' = Members /\ Stride' = Stride /\ Copies' = Copies
      /\ \A m : RankOf(m)' = RankOf(m) /\ RowsOf(m)' = RowsOf(m)
      /\ \A p : RowsOfProcess(p)' = RowsOfProcess(p)
      /\ \A A : CountOf(A)' = CountOf(A)
      /\ HalfIsExact' = HalfIsExact
      /\ Printed' = Printed
  BY SameProgram
<1>2. CircleTypes'
  BY <1>1 DEF CircleTypes
<1>3. RowsWalked'
  BY <1>1 DEF RowsWalked
<1>4. Counted'
  BY <1>1 DEF Counted
<1>5. Returned'
  BY <1>1 DEF Returned
<1>6. Summed'
  <2>1. got \in Nat
    BY DEF CircleTypes
  <2>2. \A p \in 1..(got' - 1) : p \in Processes => sum[p] # Pending
    BY <2>1 DEF Summed
  <2>3. QED
    BY <1>1, <2>2 DEF Summed
<1>7. QED
  BY <1>1, <1>2, <1>3, <1>4, <1>5, <1>6

\* Each action keeps the invariant: a member learns its rank,
LEMMA BeginKeeps ==
  ASSUME CircleInv, NEW m \in Members, Begin(m)
  PROVE  CircleInv'
<1> USE DEF CircleInv, Begin
<1>1. /\ Processes' = Processes /\ Members' = Members /\ Stride' = Stride /\ Copies' = Copies
      /\ \A n : RankOf(n)' = RankOf(n) /\ RowsOf(n)' = RowsOf(n)
      /\ \A p : RowsOfProcess(p)' = RowsOfProcess(p)
      /\ \A A : CountOf(A)' = CountOf(A)
      /\ HalfIsExact' = HalfIsExact
      /\ Printed' = Printed
  BY SameProgram
<1>2. /\ Stride \in Nat \ {0} /\ RankOf(m) \in Nat /\ RankOf(m) % Stride = RankOf(m)
      /\ m[1] \in Processes
      /\ {x \in RowsOf(m) : x < RankOf(m)} = {} /\ {x \in RowsOf(m) : x < Pending} = {}
  BY ProgramIs, RowsAre DEF CircleTypes, Members
<1>3. ncpus' \in [Processes -> Nat] /\ ncpus'[m[1]] = Stride
      /\ \A p \in Processes : ncpus'[p] \in {ncpus[p], Stride}
  <2>1. CASE prog.team = "omp"
    BY <1>2, <2>1 DEF CircleTypes
  <2>2. CASE prog.team # "omp"
    BY <1>2, <2>2 DEF CircleTypes, RowsWalked
  <2>3. QED
    BY <2>1, <2>2
<1>4. row' \in [Members -> Int] /\ row'[m] = RankOf(m) /\ \A n \in Members \ {m} : row'[n] = row[n]
  BY <1>2 DEF CircleTypes
<1>5. CircleTypes'
  BY <1>1, <1>3, <1>4 DEF CircleTypes
<1>6. RowsWalked'
  <2>1. ASSUME NEW n \in Members, row'[n] # Pending
        PROVE  row'[n] \in Nat /\ ncpus'[n[1]] = Stride /\ row'[n] % Stride = RankOf(n)
    <3>1. CASE n = m
      BY <1>2, <1>3, <1>4, <3>1
    <3>2. CASE n # m
      <4>1. n[1] \in Processes /\ row'[n] = row[n]
        BY <1>4, <3>2 DEF Members
      <4>2. QED
        BY <1>3, <2>1, <4>1 DEF RowsWalked
    <3>3. QED
      BY <3>1, <3>2
  <2>2. prog.team # "omp" => \A p \in Processes : ncpus'[p] = Stride
    BY <1>3 DEF RowsWalked
  <2>3. QED
    BY <1>1, <2>1, <2>2 DEF RowsWalked
<1>7. Counted'
  <2> SUFFICES ASSUME NEW n \in Members
               PROVE  pixels[n] = CountOf({x \in RowsOf(n) : x < row'[n]}) % circle.k
    BY <1>1 DEF Counted
  <2>1. {x \in RowsOf(n) : x < row'[n]} = {x \in RowsOf(n) : x < row[n]}
    <3>1. CASE n = m
      BY <1>2, <1>4, <3>1
    <3>2. CASE n # m
      BY <1>4, <3>2
    <3>3. QED
      BY <3>1, <3>2
  <2>2. QED
    BY <2>1 DEF Counted
<1>8. Returned'
  BY <1>1 DEF Returned
<1>9. Summed'
  BY <1>1 DEF Summed
<1>10. QED
  BY <1>1, <1>5, <1>6, <1>7, <1>8, <1>9

\* adds a row,
LEMMA AddRowKeeps ==
  ASSUME CircleInv, NEW m \in Members, AddRow(m)
  PROVE  CircleInv'
<1> USE DEF CircleInv, AddRow
<1>1. /\ Processes' = Processes /\ Members' = Members /\ Stride' = Stride /\ Copies' = Copies
      /\ \A n : RankOf(n)' = RankOf(n) /\ RowsOf(n)' = RowsOf(n)
      /\ \A p : RowsOfProcess(p)' = RowsOfProcess(p)
      /\ \A A : CountOf(A)' = CountOf(A)
      /\ HalfIsExact' = HalfIsExact
      /\ Printed' = Printed
  BY SameProgram
<1> PICK k \in Nat \ {0} : k = circle.k
  BY ProgramIs DEF CircleTypes, IsCircle
<1> PICK S \in Nat \ {0} : S = Stride
  BY ProgramIs DEF CircleTypes
<1> PICK i \in Nat : i = row[m]
  BY DEF RowsWalked
<1>2. /\ ncpus[m[1]] = S /\ i % S = RankOf(m) /\ i < RowEnd
  BY DEF RowsWalked
<1> DEFINE A == {x \in RowsOf(m) : x < i}
<1>3. /\ i \in Rows /\ (i + S) % S = RankOf(m)
      /\ {x \in RowsOf(m) : x < i + S} = A \cup {i} /\ i \notin A /\ A \in SUBSET Rows
  <2>1. i \notin A /\ A \in SUBSET Rows
    BY DEF RowsOf
  <2>2. QED
    <3>1. /\ (i + S) % S = RankOf(m) /\ i \in Rows
          /\ {x \in RowsOf(m) : x < i + S} = {x \in RowsOf(m) : x < i} \cup {i}
      <4>1. prog \in CirclePrograms /\ circle \in Circles /\ HalfIsExact
        BY DEF CircleTypes
      <4>2. i % Stride = RankOf(m) /\ i \in Nat
        BY <1>2
      <4>3. /\ (i + Stride) % Stride = RankOf(m) /\ i \in Rows
            /\ {x \in RowsOf(m) : x < i + Stride} = {x \in RowsOf(m) : x < i} \cup {i}
        BY <1>2, <4>1, <4>2, RowsAre, Zenon
      <4>4. QED
        BY <4>3, Zenon
    <3>2. QED
      BY <2>1, <3>1
<1> HIDE DEF A
<1>4. pixels[m] = CountOf(A) % k /\ CountOf(A) \in Nat /\ RowGain(i) \in Nat
      /\ CountOf(A \cup {i}) = CountOf(A) + RowGain(i)
  BY <1>3, CountIs DEF Counted, CircleTypes, A
<1>5. row'[m] = i + S /\ \A n \in Members \ {m} : row'[n] = row[n] /\ pixels'[n] = pixels[n]
  BY <1>2 DEF CircleTypes
<1>6. pixels'[m] = CountOf(A \cup {i}) % k /\ pixels'[m] \in Nat
  <2>1. pixels'[m] = (pixels[m] + RowGain(i)) % k
    <3>1. pixels'[m] = ((pixels[m] + RowGain(i)) % Word) % k
      BY DEF CircleTypes
    <3>2. pixels[m] \in 0..(k - 1)
      <4>1. \A n \in Nat : n % k \in 0..(k - 1)
        BY ONLY k \in Nat \ {0}, DivMod
      <4>2. QED
        BY ONLY <1>4, <4>1
    <3>3. RowGain(i) \in 0..circle.r /\ circle.r + k <= Word /\ Word \in Nat /\ circle.r \in Nat
      BY <1>3, GainIs, RowPixelsIs, ProgramIs DEF CircleTypes, IsCircle, Gain, Rows
    <3>4. pixels[m] + RowGain(i) \in 0..(Word - 1) /\ Word \in Nat \ {0}
      BY <3>2, <3>3
    <3>5. (pixels[m] + RowGain(i)) % Word = pixels[m] + RowGain(i)
      BY <3>4
    <3>6. QED
      BY <3>1, <3>5
  <2> PICK a \in Nat, b \in Nat : a = CountOf(A) /\ b = RowGain(i)
    BY <1>4
  <2>2. ((a % k) + b) % k = (a + b) % k /\ (a + b) % k \in Nat
    <3>1. a + b \in Nat
      OBVIOUS
    <3>2. QED
      BY ONLY <3>1, k \in Nat \ {0}, a \in Nat, b \in Nat, ModOfMod, DivMod
  <2>3. QED
    BY <1>4, <2>1, <2>2
<1>7. CircleTypes'
  BY <1>1, <1>2, <1>6 DEF CircleTypes
<1>8. RowsWalked'
  <2> SUFFICES ASSUME NEW n \in Members, row'[n] # Pending
               PROVE  row'[n] \in Nat /\ ncpus[n[1]] = S /\ row'[n] % S = RankOf(n)
    BY <1>1 DEF RowsWalked
  <2>1. CASE n = m
    BY <1>2, <1>3, <1>5, <2>1
  <2>2. CASE n # m
    BY <1>5, <2>2 DEF RowsWalked
  <2>3. QED
    BY <2>1, <2>2
<1>9. Counted'
  <2> SUFFICES ASSUME NEW n \in Members
               PROVE  pixels'[n] = CountOf({x \in RowsOf(n) : x < row'[n]}) % k
    BY <1>1 DEF Counted
  <2>1. CASE n = m
    BY <1>3, <1>5, <1>6, <2>1
  <2>2. CASE n # m
    BY <1>5, <2>2 DEF Counted
  <2>3. QED
    BY <2>1, <2>2
<1>10. Returned'
  BY <1>1 DEF Returned
<1>11. Summed'
  BY <1>1 DEF Summed
<1>12. QED
  BY <1>1, <1>7, <1>8, <1>9, <1>10, <1>11
-----------------------------------------------------------------------------
\* returns its sum,
LEMMA LeaveKeeps ==
  ASSUME CircleInv, NEW m \in Members, Leave(m)
  PROVE  CircleInv'
<1> USE DEF CircleInv, Leave
<1>1. /\ Processes' = Processes /\ Members' = Members /\ Stride' = Stride /\ Copies' = Copies
      /\ \A n : RankOf(n)' = RankOf(n) /\ RowsOf(n)' = RowsOf(n)
      /\ \A p : RowsOfProcess(p)' = RowsOfProcess(p)
      /\ \A A : CountOf(A)' = CountOf(A)
      /\ HalfIsExact' = HalfIsExact
      /\ Printed' = Printed
  BY SameProgram
<1>2. CircleTypes'
  BY <1>1 DEF CircleTypes
<1>3. RowsWalked' /\ Counted' /\ Summed'
  BY <1>1 DEF RowsWalked, Counted, Summed
<1>4. pixels[m] = CountOf(RowsOf(m)) % circle.k
  <2>1. row[m] \in Nat /\ row[m] % Stride = RankOf(m) /\ row[m] >= RowEnd
    BY DEF RowsWalked
  <2>2. {x \in RowsOf(m) : x < row[m]} = RowsOf(m)
    BY <2>1, RowsAre DEF CircleTypes
  <2>3. QED
    BY <2>2 DEF Counted
<1>5. Returned'
  <2> SUFFICES ASSUME NEW n \in Members, res'[n] # Pending
               PROVE  res'[n] = CountOf(RowsOf(n)) % circle.k
    BY <1>1 DEF Returned
  <2>1. CASE n = m
    BY <1>4, <2>1 DEF CircleTypes
  <2>2. CASE n # m
    BY <2>2 DEF CircleTypes, Returned
  <2>3. QED
    BY <2>1, <2>2
<1>6. QED
  BY <1>1, <1>2, <1>3, <1>5

\* its process adds up the sums,
LEMMA JoinKeeps ==
  ASSUME CircleInv, NEW p \in Processes, Join(p)
  PROVE  CircleInv'
<1>1. /\ UNCHANGED <<prog, circle, r_half, ncpus, row, pixels, res, got, printed>>
      /\ \A th \in 0..(prog.threads - 1) : res[<<p, th>>] # Pending
  BY DEF Join
<1>2. /\ Processes' = Processes /\ Members' = Members /\ Stride' = Stride /\ Copies' = Copies
      /\ \A n : RankOf(n)' = RankOf(n) /\ RowsOf(n)' = RowsOf(n)
      /\ \A q : RowsOfProcess(q)' = RowsOfProcess(q)
      /\ \A A : CountOf(A)' = CountOf(A)
      /\ HalfIsExact' = HalfIsExact
      /\ Printed' = Printed
  BY <1>1, SameProgram
<1> PICK k \in Nat \ {0} : k = circle.k
  BY ProgramIs DEF CircleInv, CircleTypes, IsCircle
<1> PICK s \in Nat : s = SumFunction([th \in 0..(prog.threads - 1) |-> res[<<p, th>>]])
  BY <1>1, JoinSum
<1> PICK c \in Nat : c = CountOf(RowsOfProcess(p))
  BY CountIs, RowsSplit DEF CircleInv, CircleTypes
<1>3. s % k = c % k
  BY <1>1, JoinSum
<1>4. sum' = [sum EXCEPT ![p] = IF prog.octant THEN (2 * (s % k)) % k ELSE s % k]
  BY DEF Join
<1>5. prog.octant \in BOOLEAN /\ Copies = IF prog.octant THEN 2 ELSE 1
  BY ProgramIs DEF CircleInv, CircleTypes, IsCircle, Copies
<1>6. (2 * (c % k)) % k = (2 * c) % k /\ (2 * c) % k \in Nat /\ (1 * c) % k = c % k /\ c % k \in Nat
  <2>1. 1 * c = c /\ 2 \in Nat /\ 2 * c \in Nat
    OBVIOUS
  <2>2. (2 * (c % k)) % k = (2 * c) % k /\ c % k \in Nat
    BY ONLY <2>1, c \in Nat, k \in Nat \ {0}, ModOfMod
  <2>3. (2 * c) % k \in Nat
    BY ONLY <2>1, k \in Nat \ {0}, DivMod
  <2>4. QED
    BY <2>1, <2>2, <2>3, Zenon
<1>7. /\ sum'[p] = (Copies * c) % k /\ sum' \in [Processes -> Int] /\ sum'[p] \in Nat
      /\ \A q \in Processes \ {p} : sum'[q] = sum[q]
  <2>1. (IF prog.octant THEN (2 * (s % k)) % k ELSE s % k) = (Copies * c) % k
    <3>1. CASE prog.octant
      BY <1>3, <1>5, <1>6, <3>1, Zenon
    <3>2. CASE ~prog.octant
      BY <1>3, <1>5, <1>6, <3>2, Zenon
    <3>3. QED
      BY <3>1, <3>2
  <2>2. (Copies * c) % k \in Nat
    BY <1>5, <1>6, Zenon
  <2>3. QED
    BY <1>4, <2>1, <2>2 DEF CircleInv, CircleTypes
<1>8. CircleTypes' /\ RowsWalked' /\ Counted' /\ Returned'
  BY <1>1, <1>2, <1>7 DEF CircleInv, CircleTypes, RowsWalked, Counted, Returned
<1>9. Summed'
  <2>1. ASSUME NEW q \in Processes, sum'[q] # Pending
        PROVE  sum'[q] = (Copies * CountOf(RowsOfProcess(q))) % k
    <3>1. CASE q = p
      BY <1>7, <3>1
    <3>2. CASE q # p
      BY <1>7, <2>1, <3>2 DEF CircleInv, Summed
    <3>3. QED
      BY <3>1, <3>2
  <2>2. \A q \in 1..(got - 1) : q \in Processes => sum'[q] # Pending
    <3>1. sum'[p] # Pending
      BY <1>7 DEF Pending
    <3>2. QED
      BY <1>7, <3>1 DEF CircleInv, Summed
  <2>3. QED
    BY <1>1, <1>2, <2>1, <2>2 DEF Summed
<1>10. QED
  BY <1>2, <1>8, <1>9 DEF CircleInv

\* and process 0 prints.
LEMMA PrintOutKeeps ==
  ASSUME CircleInv, PrintOut
  PROVE  CircleInv'
<1>1. UNCHANGED <<prog, circle, r_half, ncpus, row, pixels, res, sum, got>>
  BY DEF PrintOut
<1>2. /\ Processes' = Processes /\ Members' = Members /\ Stride' = Stride /\ Copies' = Copies
      /\ \A n : RankOf(n)' = RankOf(n) /\ RowsOf(n)' = RowsOf(n)
      /\ \A q : RowsOfProcess(q)' = RowsOfProcess(q)
      /\ \A A : CountOf(A)' = CountOf(A)
      /\ HalfIsExact' = HalfIsExact /\ Quadrant' = Quadrant /\ circle' = circle
  BY <1>1, SameProgram
<1>3. IsCircle /\ prog.processes \in Nat \ {0}
  BY ProgramIs DEF CircleInv, CircleTypes
<1> PICK k \in Nat \ {0} : k = circle.k
  BY <1>3 DEF IsCircle
<1>4. \A p \in Processes : sum[p] # Pending
  <2>1. CASE prog.gather = "send"
    <3>1. sum[0] # Pending /\ got = prog.processes
      BY <2>1 DEF PrintOut
    <3>2. \A p \in 1..(prog.processes - 1) : sum[p] # Pending
      BY <3>1 DEF CircleInv, Summed, Processes
    <3>3. \A p \in Processes : p = 0 \/ p \in 1..(prog.processes - 1)
      BY <1>3 DEF Processes
    <3>4. QED
      BY <3>1, <3>2, <3>3
  <2>2. CASE prog.gather # "send"
    BY <2>2 DEF PrintOut
  <2>3. QED
    BY <2>1, <2>2
<1> PICK s \in Nat, x \in Nat : s = SumFunction(sum) /\ x = Copies * CountOf(Rows)
  <2>1. \A a, b \in Nat : a * b \in Nat
    OBVIOUS
  <2>2. QED
    BY <1>4, <2>1, PrintSum
<1> PICK y \in Nat : y = Low * Low
  <2>1. \A a \in Nat : a * a \in Nat
    OBVIOUS
  <2>2. Low \in Nat
    BY <1>3, GainIs DEF IsCircle
  <2>3. QED
    BY <2>1, <2>2
<1>5. s % k = x % k
  BY <1>4, PrintSum
<1>6. (IF prog.octant THEN (r_half * r_half) % k ELSE 0) = y % k
  <2>1. CASE prog.octant
    BY <2>1 DEF Low
  <2>2. CASE ~prog.octant
    <3>1. y = 0
      BY <2>2 DEF Low
    <3>2. 0 % k = 0
      OBVIOUS
    <3>3. QED
      BY <2>2, <3>1, <3>2
  <2>3. QED
    BY <2>1, <2>2
<1>7. printed' = (4 * ((s % k) + (IF prog.octant THEN (r_half * r_half) % k ELSE 0))) % k
  BY DEF PrintOut
<1>8. (4 * ((x % k) + (y % k))) % k = (4 * (x + y)) % k
  <2> PICK a \in Nat, b \in Nat, z \in Nat : a = x % k /\ b = y % k /\ z = x + y
    <3>1. x % k \in Nat /\ y % k \in Nat
      BY ONLY x \in Nat, y \in Nat, k \in Nat \ {0}, DivMod
    <3>2. x + y \in Nat
      OBVIOUS
    <3>3. QED
      BY <3>1, <3>2
  <2> PICK u \in Nat : u = a + b
    OBVIOUS
  <2>1. u % k = z % k
    <3>1. ((x % k) + b) % k = (x + b) % k
      BY ONLY x \in Nat, b \in Nat, k \in Nat \ {0}, ModOfMod
    <3>2. (x + (y % k)) % k = (y + x) % k
      BY ONLY x \in Nat, y \in Nat, k \in Nat \ {0}, ModOfMod
    <3>3. y + x = x + y
      OBVIOUS
    <3>4. QED
      BY <3>1, <3>2, <3>3, Zenon
  <2>2. (4 * (u % k)) % k = (4 * u) % k /\ (4 * (z % k)) % k = (4 * z) % k
    <3>1. 4 \in Nat
      OBVIOUS
    <3>2. QED
      BY ONLY <3>1, u \in Nat, z \in Nat, k \in Nat \ {0}, ModOfMod
  <2>3. QED
    BY <2>1, <2>2, Zenon
<1>9. Cardinality(Quadrant) = x + y
  BY <1>3, QuadrantCount DEF CountOf
<1>10. printed' = (4 * Cardinality(Quadrant)) % k
  BY <1>5, <1>6, <1>7, <1>8, <1>9, Zenon
<1>11. Printed'
  BY <1>2, <1>10 DEF Printed
<1>12. CircleTypes' /\ RowsWalked' /\ Counted' /\ Returned' /\ Summed'
  BY <1>1, <1>2 DEF CircleInv, CircleTypes, RowsWalked, Counted, Returned, Summed
<1>13. QED
  BY <1>11, <1>12 DEF CircleInv

\* Every step keeps the invariant.
LEMMA CircleStays == CircleInv /\ [CircleNext]_circleVars => CircleInv'
<1> SUFFICES ASSUME CircleInv, [CircleNext]_circleVars PROVE CircleInv'
  OBVIOUS
<1>1. ASSUME NEW p \in Processes, Create(p) PROVE CircleInv'
  BY <1>1, CreateKeeps DEF Create
<1>2. ASSUME NEW p \in Processes, Join(p) PROVE CircleInv'
  BY <1>2, JoinKeeps
<1>3. ASSUME NEW m \in Members, Begin(m) PROVE CircleInv'
  BY <1>3, BeginKeeps
<1>4. ASSUME NEW m \in Members, AddRow(m) PROVE CircleInv'
  BY <1>4, AddRowKeeps
<1>5. ASSUME NEW m \in Members, Leave(m) PROVE CircleInv'
  BY <1>5, LeaveKeeps
<1>6. CASE Receive
  BY <1>6, CreateKeeps DEF Receive
<1>7. CASE PrintOut
  BY <1>7, PrintOutKeeps
<1>8. CASE UNCHANGED circleVars
  BY <1>8, CreateKeeps DEF circleVars
<1>9. QED
  BY <1>1, <1>2, <1>3, <1>4, <1>5, <1>6, <1>7, <1>8 DEF CircleNext
-----------------------------------------------------------------------------
\* Twice a square is no square: the least root of one would have a lesser one.
LEMMA RootIsIrrational ==
  ASSUME NEW r \in Nat \ {0}, NEW m \in Nat
  PROVE  2 * Sq(m) # Sq(r)
<1> DEFINE T == {n \in Nat \ {0} : \E i \in Nat : 2 * Sq(i) = Sq(n)}
<1> SUFFICES ASSUME T # {} PROVE FALSE
  OBVIOUS
<1> PICK n \in T : \A j \in T : n <= j
  <2>1. T \subseteq Nat
    OBVIOUS
  <2> HIDE DEF T
  <2>2. QED
    BY <2>1, LeastElement
<1> PICK i \in Nat : 2 * Sq(i) = Sq(n)
  OBVIOUS
<1> PICK q \in Nat, b \in 0..1 : n = 2 * q + b
  <2>1. /\ n \div 2 \in Nat /\ n % 2 \in 0..(2 - 1) /\ n = 2 * (n \div 2) + (n % 2)
    BY DivMod
  <2>2. QED
    BY <2>1
<1>1. Sq(i) \in Nat /\ Sq(q) \in Nat /\ Sq(n) \in Nat
  BY SqIs
<1>2. b = 0 /\ Sq(n) = 4 * Sq(q)
  <2>1. b = 1 => Sq(n) = 4 * Sq(q) + 4 * q + 1
    <3>1. (2 * q + 1) * (2 * q + 1) = 4 * (q * q) + 4 * q + 1
      OBVIOUS
    <3>2. QED
      BY <3>1 DEF Sq
  <2>2. b # 1
    BY <1>1, <2>1
  <2>3. b = 0
    BY <2>2
  <2>4. (2 * q) * (2 * q) = 4 * (q * q)
    OBVIOUS
  <2>5. n = 2 * q
    BY <2>3
  <2>6. QED
    BY <2>3, <2>4, <2>5 DEF Sq
<1>3. Sq(i) = 2 * Sq(q)
  BY <1>1, <1>2
<1>4. Sq(n) >= 1
  <2>1. Sq(1) <= Sq(n) /\ Sq(1) = 1
    BY SqIs DEF Sq
  <2>2. QED
    BY <1>1, <2>1
<1>5. i # 0
  <2>1. Sq(0) = 0
    BY DEF Sq
  <2>2. QED
    BY <1>4, <2>1
<1>6. i \in T
  BY <1>3, <1>5
<1>7. i < n
  <2>1. SUFFICES ASSUME n <= i PROVE FALSE
    BY <1>6
  <2>2. Sq(n) <= Sq(i)
    BY <2>1, SqIs
  <2>3. QED
    BY <1>1, <1>4, <2>2
<1>8. QED
  BY <1>6, <1>7

\* Where the doubles are fine enough, the computed side is the exact one: one
\* more would make Root2 too small by far, one less the rounding too coarse.
LEMMA PreciseIsExact ==
  ASSUME NEW r \in Nat \ {0}, Precise(r), NEW h \in Halves(r)
  PROVE  h = ExactHalf(r)
<1> PICK N \in Nat, D \in Nat \ {0}, P \in Nat \ {0} :
      /\ N = RootTop /\ D = RootBottom /\ P = Precision
      /\ D <= N /\ N * N <= 2 * D * D
  BY CircleAssumption
<1> PICK g \in 0..r : g = ExactHalf(r) /\ \A y \in Nat : y < g <=> 2 * Sq(y) < Sq(r)
  BY ExactHalfIs
<1>0. h \in Nat /\ h \in 0..r
  BY ONLY h \in Halves(r), r \in Nat \ {0} DEF Halves
<1>1. /\ h \in 0..r /\ (h - 1) * N < r * D /\ r * D * (P - 1) <= h * N * P
      /\ 2 * r * r <= P /\ r * r * (2 * D * D - N * N) < N * N
  BY DEF Halves, Precise
<1> PICK R \in Nat \ {0} : R = r * r /\ R = Sq(r)
  BY DEF Sq
<1> PICK NN \in Nat, DD \in Nat \ {0} : NN = N * N /\ DD = D * D
  OBVIOUS
<1>2. NN <= 2 * DD /\ 2 * R <= P /\ R * (2 * DD - NN) < NN
  <2>1. 2 * D * D = 2 * (D * D) /\ 2 * r * r = 2 * (r * r)
    OBVIOUS
  <2>2. QED
    BY <1>1, <2>1
<1>3. ~(g < h)
  <2> SUFFICES ASSUME g < h PROVE FALSE
    OBVIOUS
  <2> PICK G \in Nat : G = Sq(g)
    BY SqIs
  <2>1. 2 * G >= R + 1
    <3>1. ~(2 * G < R)
      OBVIOUS
    <3>2. 2 * G # R
      BY RootIsIrrational
    <3>3. QED
      BY <3>1, <3>2
  <2>2. G * NN <= R * DD
    <3> PICK a \in Nat, b \in Nat : a = g * N /\ b = r * D
      OBVIOUS
    <3>1. a <= b
      <4> PICK e \in Nat : e = h - 1 /\ g <= e
        <5>1. h - 1 \in Nat /\ g <= h - 1
          BY ONLY <1>0, g \in 0..r, r \in Nat \ {0}, g < h
        <5>2. QED
          BY <5>1, Zenon
      <4>1. N * g <= N * e
        BY ONLY N \in Nat, g \in Nat, e \in Nat, g <= e, TimesMonotone
      <4>2. N * g = a /\ N * e = e * N /\ N * e \in Nat
        OBVIOUS
      <4>3. e * N < b
        BY <1>1
      <4>4. QED
        BY ONLY <4>1, <4>2, <4>3, a \in Nat, b \in Nat
    <3>2. Sq(a) <= Sq(b)
      BY <3>1, SqIs
    <3>3. Sq(a) = G * NN /\ Sq(b) = R * DD
      BY DEF Sq
    <3>4. QED
      BY <3>2, <3>3
  <2>3. (R + 1) * NN <= 2 * (R * DD)
    <3>1. NN * (R + 1) <= NN * (2 * G)
      BY <2>1, TimesMonotone
    <3>2. NN * (R + 1) = (R + 1) * NN /\ NN * (2 * G) = 2 * (G * NN)
      OBVIOUS
    <3>3. G * NN \in Nat /\ R * DD \in Nat /\ (R + 1) * NN \in Nat
      OBVIOUS
    <3>4. QED
      BY <2>2, <3>1, <3>2, <3>3
  <2>4. (R + 1) * NN = R * NN + NN /\ R * (2 * DD - NN) = 2 * (R * DD) - R * NN
    OBVIOUS
  <2>5. R * NN \in Nat /\ R * DD \in Nat
    OBVIOUS
  <2>6. QED
    BY <1>2, <2>3, <2>4, <2>5
<1>4. ~(h < g)
  <2> SUFFICES ASSUME h < g PROVE FALSE
    OBVIOUS
  <2> PICK H \in Nat : H = Sq(h)
    BY <1>0, SqIs, Zenon
  <2>1. 2 * H <= R - 1
    <3>1. 2 * Sq(h) < Sq(r)
      BY <1>1
    <3>2. QED
      BY ONLY <3>1, H = Sq(h), R = Sq(r), H \in Nat, R \in Nat \ {0}
  <2> PICK M \in Nat : M = P - 1
    OBVIOUS
  <2> PICK MM \in Nat, PP \in Nat : MM = M * M /\ PP = P * P
    OBVIOUS
  <2>2. (R * DD) * MM <= (H * NN) * PP
    <3> PICK a \in Nat, b \in Nat : a = r * D * M /\ b = h * N * P
      <4>1. r * D * M \in Nat
        BY ONLY r \in Nat \ {0}, D \in Nat \ {0}, M \in Nat
      <4>2. h * N * P \in Nat
        BY ONLY <1>0, N \in Nat, P \in Nat \ {0}
      <4>3. QED
        BY <4>1, <4>2
    <3>1. a <= b
      BY <1>1
    <3>2. Sq(a) <= Sq(b)
      BY <3>1, SqIs
    <3>3. Sq(a) = (R * DD) * MM
      <4>1. (r * D * M) * (r * D * M) = ((r * r) * (D * D)) * (M * M)
        BY ONLY r \in Nat \ {0}, D \in Nat \ {0}, M \in Nat
      <4>2. QED
        BY ONLY <4>1, a = r * D * M, R = r * r, DD = D * D, MM = M * M DEF Sq
    <3>5. Sq(b) = (H * NN) * PP
      <4>1. (h * N * P) * (h * N * P) = ((h * h) * (N * N)) * (P * P)
        BY ONLY <1>0, N \in Nat, P \in Nat \ {0}
      <4>2. QED
        BY ONLY <4>1, b = h * N * P, H = Sq(h), NN = N * N, PP = P * P DEF Sq
    <3>4. QED
      BY ONLY <3>2, <3>3, <3>5
  <2> PICK E \in Nat \ {0} : E = 2 * DD
    OBVIOUS
  <2>3. (R * E) * MM <= ((R - 1) * E) * PP
    <3>1. (2 * H) * NN <= (R - 1) * E
      <4> PICK F \in Nat, HH \in Nat : F = R - 1 /\ HH = 2 * H
        <5>1. R - 1 \in Nat /\ 2 * H \in Nat
          BY ONLY R \in Nat \ {0}, H \in Nat
        <5>2. QED
          BY <5>1, Zenon
      <4>0. HH <= F /\ NN <= E
        BY <1>2, <2>1
      <4>1. NN * HH <= NN * F /\ F * NN <= F * E
        BY ONLY <4>0, HH \in Nat, F \in Nat, NN \in Nat, E \in Nat \ {0}, TimesMonotone
      <4>2. NN * HH = HH * NN /\ NN * F = F * NN
        OBVIOUS
      <4>3. HH * NN \in Nat /\ F * NN \in Nat /\ F * E \in Nat
        OBVIOUS
      <4>4. HH * NN <= F * E
        BY ONLY <4>1, <4>2, <4>3
      <4>5. QED
        BY <4>4
    <3> PICK x \in Nat, y \in Nat, z \in Nat, u \in Nat :
          /\ x = (2 * H) * NN /\ y = (R - 1) * E
          /\ z = (R * DD) * MM /\ u = (H * NN) * PP
      <4>1. (2 * H) * NN \in Nat /\ (H * NN) * PP \in Nat
        BY ONLY H \in Nat, NN \in Nat, PP \in Nat
      <4>2. (R - 1) * E \in Nat /\ (R * DD) * MM \in Nat
        BY ONLY R \in Nat \ {0}, E \in Nat \ {0}, DD \in Nat \ {0}, MM \in Nat
      <4>3. QED
        BY <4>1, <4>2, Zenon
    <3>2. PP * x <= PP * y
      BY ONLY <3>1, x = (2 * H) * NN, y = (R - 1) * E, x \in Nat, y \in Nat, PP \in Nat,
              TimesMonotone
    <3>3. PP * x = 2 * u /\ PP * y = y * PP
      <4>1. PP * ((2 * H) * NN) = 2 * ((H * NN) * PP)
        BY ONLY H \in Nat, NN \in Nat, PP \in Nat
      <4>2. QED
        BY <4>1
    <3>4. (R * E) * MM = 2 * z
      <4>1. (R * (2 * DD)) * MM = 2 * ((R * DD) * MM)
        BY ONLY R \in Nat \ {0}, DD \in Nat \ {0}, MM \in Nat
      <4>2. QED
        BY <4>1
    <3>5. 2 * z <= PP * y
      BY ONLY <2>2, <3>2, <3>3, u = (H * NN) * PP, z = (R * DD) * MM,
              x \in Nat, y \in Nat, z \in Nat, u \in Nat, PP \in Nat
    <3>6. QED
      BY ONLY <3>3, <3>4, <3>5, y = (R - 1) * E
  <2>4. R * MM <= (R - 1) * PP
    <3> SUFFICES ASSUME (R - 1) * PP + 1 <= R * MM PROVE FALSE
      OBVIOUS
    <3>1. E * ((R - 1) * PP + 1) <= E * (R * MM)
      BY TimesMonotone
    <3>2. E * ((R - 1) * PP + 1) = ((R - 1) * E) * PP + E /\ E * (R * MM) = (R * E) * MM
      OBVIOUS
    <3>3. ((R - 1) * E) * PP \in Nat /\ (R * E) * MM \in Nat
      OBVIOUS
    <3>4. QED
      BY <2>3, <3>1, <3>2, <3>3
  <2>5. R * MM = R * PP - P * (2 * R) + R /\ (R - 1) * PP = R * PP - PP
    <3>1. MM = PP - 2 * P + 1
      OBVIOUS
    <3>2. R * (PP - 2 * P + 1) = R * PP - P * (2 * R) + R
      OBVIOUS
    <3>3. QED
      BY <3>1, <3>2
  <2>6. P * (2 * R) <= PP
    BY <1>2, TimesMonotone
  <2>7. R * PP \in Nat /\ P * (2 * R) \in Nat
    OBVIOUS
  <2>8. QED
    BY <2>4, <2>5, <2>6, <2>7
<1>5. QED
  BY <1>1, <1>3, <1>4

\* The program, its arguments and the side it has computed
Arguments ==
  /\ prog \in CirclePrograms
  /\ circle \in Circles
  /\ prog.octant => r_half \in Halves(circle.r)

CircleHolds == Arguments /\ (HalfIsExact => CircleInv)

LEMMA CircleHoldsAlways == CircleSpec => []CircleHolds
<1>1. CircleInit => CircleHolds
  BY CircleBegins DEF CircleHolds, Arguments, CircleInit
<1>2. CircleHolds /\ [CircleNext]_circleVars => CircleHolds'
  <2> SUFFICES ASSUME CircleHolds, [CircleNext]_circleVars PROVE CircleHolds'
    OBVIOUS
  <2>1. prog' = prog /\ circle' = circle /\ r_half' = r_half
    BY DEF CircleNext, circleVars, Create, Join, Begin, AddRow, Leave, Receive, PrintOut
  <2>2. HalfIsExact' = HalfIsExact
    BY <2>1, SameProgram
  <2>3. Arguments'
    <3>1. prog.octant => r_half \in Halves(circle.r)'
      BY <2>1 DEF Halves, CircleHolds, Arguments
    <3>2. QED
      BY <2>1, <3>1 DEF CircleHolds, Arguments
  <2>4. HalfIsExact => CircleInv'
    BY CircleStays DEF CircleHolds
  <2>5. QED
    BY <2>2, <2>3, <2>4 DEF CircleHolds
<1>3. QED
  BY <1>1, <1>2, PTL DEF CircleSpec

\* Every program of lab1 and lab3, however its members interleave, prints the
\* number of points of the circle modulo k, for every number of processes and
\* threads, every modulus, and every radius for which the doubles that r_half
\* is computed in are fine enough; beyond those, whenever r_half comes out as
\* the integer it stands for.
THEOREM EveryPointCounted == CircleSpec => []CountIsRight
<1>1. CircleHolds => CountIsRight
  <2> SUFFICES ASSUME CircleHolds PROVE CountIsRight
    OBVIOUS
  <2>1. prog \in CirclePrograms /\ circle \in Circles /\ circle.r \in Nat \ {0}
    BY CircleAssumption DEF CircleHolds, Arguments
  <2>2. CASE HalfIsExact
    BY <2>2 DEF CircleHolds, CircleInv, Printed, Quadrant, CountIsRight
  <2>3. CASE ~HalfIsExact
    <3>1. prog.octant /\ r_half # ExactHalf(circle.r) /\ r_half \in Halves(circle.r)
      BY <2>3 DEF HalfIsExact, CircleHolds, Arguments
    <3>2. ~Precise(circle.r)
      BY <2>1, <3>1, PreciseIsExact
    <3>3. QED
      BY <3>1, <3>2 DEF CountIsRight
  <2>4. QED
    BY <2>2, <2>3
<1>2. QED
  BY <1>1, CircleHoldsAlways, PTL

\* With Root2 as written in lab3 and doubles of 53 bits, the side is the exact
\* one for every radius up to 2^26.
THEOREM DoublesAreFineEnough ==
  ASSUME RootTop = 6369051672525772, RootBottom = 4503599627370496,
         Precision = 9007199254740992, NEW r \in Nat \ {0}, r <= 67108864
  PROVE  Halves(r) \subseteq {ExactHalf(r)}
<1>1. Precise(r)
  <2> PICK s \in Nat : s = r * r
    BY ONLY r \in Nat \ {0}, SMT
  <2>1. s <= 67108864 * 67108864
    <3>1. r * r <= r * 67108864 /\ r * 67108864 <= 67108864 * 67108864
      BY ONLY r \in Nat \ {0}, r <= 67108864, TimesMonotone, SMT
    <3>2. QED
      BY ONLY <3>1, r \in Nat \ {0}, s \in Nat, s = r * r, SMT
  <2>2. 2 * r * r = 2 * s
    BY ONLY r \in Nat \ {0}, s = r * r, SMT
  <2>3. 2 * s <= Precision
    BY ONLY <2>1, s \in Nat, Precision = 9007199254740992, SMT
  <2>4. s * (2 * RootBottom * RootBottom - RootTop * RootTop) < RootTop * RootTop
    <3> PICK B \in Nat : B = 67108864
      BY SMT
    <3> PICK D \in Nat : D = B * B
      BY ONLY B \in Nat, SMT
    <3>1. D = RootBottom /\ 94906265 * B + 41892812 = RootTop
      BY ONLY D = B * B, B = 67108864, RootTop = 6369051672525772, RootBottom = 4503599627370496, SMT
    <3>2. RootTop * RootTop = 9007199136250225 * D + 7951780634534360 * B + 1755007697267344
      <4>1. /\ 94906265 * 94906265 = 9007199136250225
            /\ 94906265 * 41892812 = 3975890317267180
            /\ 41892812 * 41892812 = 1755007697267344
        BY ONLY TRUE, SMT
      <4>2. \A x, y \in Nat : (x * B + y) * (x * B + y)
                               = (x * x) * D + 2 * (x * y) * B + y * y
        BY ONLY D = B * B, B \in Nat, SMT
      <4>3. QED
        BY ONLY <3>1, <4>1, <4>2, B \in Nat, D \in Nat, SMT
    <3>3. 2 * RootBottom * RootBottom = 9007199254740992 * D
      BY ONLY <3>1, D \in Nat, RootBottom = 4503599627370496, SMT
    <3>4. 9007199254740992 * D - RootTop * RootTop = 7192236498376048
      <4>1. D * 118490767 = B * 7951780767858688
        BY ONLY D = B * B, B = 67108864, B \in Nat, SMT
      <4>2. QED
        BY ONLY <3>2, <4>1, D \in Nat, B \in Nat, B = 67108864, SMT
    <3>5. s * 7192236498376048 < RootTop * RootTop
      <4>1. s <= D /\ D > 0
        BY ONLY <2>1, s \in Nat, D \in Nat, D = B * B, B = 67108864, SMT
      <4>2. QED
        BY ONLY <4>1, <3>2, s \in Nat, D \in Nat, B \in Nat, SMT
    <3>6. QED
      BY ONLY <3>3, <3>4, <3>5, SMT
  <2>5. QED
    BY ONLY <2>2, <2>3, <2>4, s = r * r, SMT DEF Precise
<1>2. QED
  BY ONLY <1>1, r \in Nat \ {0}, PreciseIsExact, Zenon
=============================================================================
