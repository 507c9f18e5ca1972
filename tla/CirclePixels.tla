---------------------------- MODULE CirclePixels ----------------------------
(***************************************************************************)
(* lab1 and lab3: how many pixels a circle of radius r covers, modulo k.   *)
(* The rows (lab1: of a quadrant; lab3: of half a quadrant, beyond the     *)
(* square of side r_half) are dealt to the members of a team, each taking  *)
(* every ncpus-th; the team is one of MPI processes (lab1.cc), of POSIX    *)
(* threads (lab3_pthread.cc), of OpenMP threads (lab3_omp.cc), or of       *)
(* OpenMP threads in MPI processes (lab3_hybrid.cc).                       *)
(***************************************************************************)
EXTENDS Integers, FiniteSets, Functions

CONSTANTS Circles,        \* the command lines: radius r and modulus k
          CircleProcs,    \* MPI processes, where there are any
          CircleThreads,  \* threads of a team, where there are any
          Word,           \* the number of values of an unsigned long long
          RootTop, RootBottom,   \* Root2 as a double is the fraction of the two
          Precision       \* a double differs from what it is rounded from by no
                          \* more than a Precision-th: 2^53

\* The sums fit an unsigned long long; Root2 is written a little too small.
ASSUME CircleAssumption ==
  /\ CircleProcs \in Nat \ {0} /\ CircleThreads \in Nat \ {0} /\ Word \in Nat
  /\ \A c \in Circles :
       /\ c.r \in Nat \ {0} /\ c.k \in Nat \ {0}
       /\ c.r * c.r < Word /\ 8 * c.k <= Word /\ CircleProcs * c.k <= Word
  /\ RootTop \in Nat /\ RootBottom \in Nat \ {0} /\ Precision \in Nat \ {0}
  /\ RootBottom <= RootTop /\ RootTop * RootTop <= 2 * RootBottom * RootBottom

\* octant: the rows of half a quadrant; team: who runs the threads of a
\* process; gather: how the sums reach process 0.
lab1 == [octant |-> FALSE, processes |-> CircleProcs, threads |-> 1,
         team |-> "main", gather |-> "send"]
lab1_sample == [octant |-> FALSE, processes |-> 1, threads |-> 1,
                team |-> "main", gather |-> "none"]
lab3_pthread == [octant |-> TRUE, processes |-> 1, threads |-> CircleThreads,
                 team |-> "pthread", gather |-> "none"]
lab3_omp == [octant |-> TRUE, processes |-> 1, threads |-> CircleThreads,
             team |-> "omp", gather |-> "none"]
lab3_hybrid == [octant |-> TRUE, processes |-> CircleProcs, threads |-> CircleThreads,
                team |-> "omp", gather |-> "reduce"]

CirclePrograms == {lab1, lab1_sample, lab3_pthread, lab3_omp, lab3_hybrid}

Pending == -1

VARIABLES
  prog,      \* the program that runs
  circle,    \* its arguments
  r_half,    \* the side of the square that half a quadrant leaves out
  created,   \* how many of its threads each process has
  ncpus,     \* the stride of the rows, a global variable of each process
  row,       \* for each member, the row it is at
  pixels,    \* for each member, its sum so far
  res,       \* for each member, its sum once it is through
  sum,       \* for each process, the sum it sends, reduces or prints
  got,       \* how many of the sums process 0 has received
  printed

circleVars == <<prog, circle, r_half, created, ncpus, row, pixels, res, sum, got, printed>>

Processes == 0..(prog.processes - 1)
Members == Processes \X (0..(prog.threads - 1))
-----------------------------------------------------------------------------
(* The rows.                                                               *)

Least(n, P(_)) == CHOOSE i \in 0..n : P(i) /\ \A j \in 0..(i - 1) : ~P(j)

\* ceil(sqrtl(r * r - x * x)): a long double has all the bits of the integer,
\* and enough for its root to be on the right side of the next integer.
RowPixels(x) == Least(circle.r, LAMBDA i : i * i >= circle.r * circle.r - x * x)

\* A plausible slip: the quotient is cut off, as a conversion to an integer does.
MutantHalves(r) == {(r * RootBottom) \div RootTop}

\* What ceil((double)r / (double)Root2) can be: the quotient is rounded to a
\* double, down to an integer that is just below it too, but not past an integer.
Halves(r) == {h \in 0..r : /\ (h - 1) * RootTop < r * RootBottom
                           /\ r * RootBottom * (Precision - 1) <= h * RootTop * Precision}

\* The difference is one of unsigned integers.
RowEnd == IF prog.octant THEN r_half ELSE circle.r
RowGain(x) == IF prog.octant THEN (RowPixels(x) - r_half) % Word ELSE RowPixels(x)

Stride == prog.processes * prog.threads

\* A plausible slip: the threads are given &i, the variable of the loop that
\* creates them.
MutantRank(m) == IF prog.team = "pthread" THEN created[m[1]] - 1
                 ELSE m[1] * prog.threads + m[2]

\* ranks[i] of the thread, or mpi_rank * omp_threads + omp_thread.
RankOf(m) == m[1] * prog.threads + m[2]
-----------------------------------------------------------------------------
\* The program starts.  An OpenMP region has all its threads at once; ncpus is
\* 0 until a thread of the region writes it.
CircleInit ==
  /\ prog \in CirclePrograms
  /\ circle \in Circles
  /\ r_half \in IF prog.octant THEN Halves(circle.r) ELSE {0}
  /\ created = [p \in Processes |-> IF prog.team = "pthread" THEN 0 ELSE prog.threads]
  /\ ncpus = [p \in Processes |-> IF prog.team = "omp" THEN 0 ELSE Stride]
  /\ row = [m \in Members |-> Pending]
  /\ pixels = [m \in Members |-> 0]
  /\ res = [m \in Members |-> Pending]
  /\ sum = [p \in Processes |-> Pending]
  /\ got = 1
  /\ printed = Pending

\* pthread_create.
Create(p) ==
  /\ created[p] < prog.threads
  /\ created' = [created EXCEPT ![p] = @ + 1]
  /\ UNCHANGED <<prog, circle, r_half, ncpus, row, pixels, res, sum, got, printed>>

\* A plausible slip: only the master thread of the region writes ncpus.
MutantBegin(m) ==
  /\ m[2] < created[m[1]]
  /\ row[m] = Pending
  /\ row' = [row EXCEPT ![m] = RankOf(m)]
  /\ ncpus' = IF prog.team = "omp" /\ m[2] = 0 THEN [ncpus EXCEPT ![m[1]] = Stride]
              ELSE ncpus
  /\ UNCHANGED <<prog, circle, r_half, created, pixels, res, sum, got, printed>>

\* A member learns its rank.  Every thread of an OpenMP region writes ncpus,
\* others of the team being already in their loops.
Begin(m) ==
  /\ m[2] < created[m[1]]
  /\ row[m] = Pending
  /\ row' = [row EXCEPT ![m] = RankOf(m)]
  /\ ncpus' = IF prog.team = "omp" THEN [ncpus EXCEPT ![m[1]] = Stride] ELSE ncpus
  /\ UNCHANGED <<prog, circle, r_half, created, pixels, res, sum, got, printed>>

\* One row of calc_pixs_m; the stride is read after the row.
AddRow(m) ==
  /\ row[m] # Pending
  /\ row[m] < RowEnd
  /\ pixels' = [pixels EXCEPT ![m] = ((@ + RowGain(row[m])) % Word) % circle.k]
  /\ row' = [row EXCEPT ![m] = @ + ncpus[m[1]]]
  /\ UNCHANGED <<prog, circle, r_half, created, ncpus, res, sum, got, printed>>

\* No row is left for the member.
Leave(m) ==
  /\ row[m] # Pending
  /\ row[m] >= RowEnd
  /\ res[m] = Pending
  /\ res' = [res EXCEPT ![m] = pixels[m]]
  /\ UNCHANGED <<prog, circle, r_half, created, ncpus, row, pixels, sum, got, printed>>

\* The threads are joined, or the region ends, and main adds their sums; a
\* half quadrant stands for two.
Join(p) ==
  /\ sum[p] = Pending
  /\ \A t \in 0..(prog.threads - 1) : res[<<p, t>>] # Pending
  /\ LET all == SumFunction([t \in 0..(prog.threads - 1) |-> res[<<p, t>>]]) % circle.k
     IN sum' = [sum EXCEPT ![p] = IF prog.octant THEN (2 * all) % circle.k ELSE all]
  /\ UNCHANGED <<prog, circle, r_half, created, ncpus, row, pixels, res, got, printed>>

\* Process 0 of lab1 receives from the others, in the order of their ranks.
Receive ==
  /\ prog.gather = "send"
  /\ sum[0] # Pending
  /\ got < prog.processes
  /\ sum[got] # Pending
  /\ got' = got + 1
  /\ UNCHANGED <<prog, circle, r_half, created, ncpus, row, pixels, res, sum, printed>>

\* Process 0 has every sum, adds the square of side r_half where the rows left
\* it out, and prints four quadrants.
PrintOut ==
  /\ printed = Pending
  /\ CASE prog.gather = "send" -> sum[0] # Pending /\ got = prog.processes
       [] OTHER                -> \A p \in Processes : sum[p] # Pending
  /\ LET all == SumFunction(sum) % circle.k
         square == IF prog.octant THEN (r_half * r_half) % circle.k ELSE 0
     IN printed' = (4 * (all + square)) % circle.k
  /\ UNCHANGED <<prog, circle, r_half, created, ncpus, row, pixels, res, sum, got>>

CircleNext ==
  \/ \E p \in Processes : Create(p) \/ Join(p)
  \/ \E m \in Members : Begin(m) \/ AddRow(m) \/ Leave(m)
  \/ Receive
  \/ PrintOut

CircleSpec == CircleInit /\ [][CircleNext]_circleVars
-----------------------------------------------------------------------------
(* Properties.                                                             *)

\* The integer that r_half stands for
ExactHalf(r) == Least(r, LAMBDA i : 2 * i * i >= r * r)

\* The radii for which the doubles are fine enough: the first condition keeps
\* the quotient from being rounded down to an integer, the second one the
\* quotient by Root2 from passing an integer that the one by the root of 2 does
\* not.  With the constants of the code they are those up to 2^26.
Precise(r) ==
  /\ 2 * r * r <= Precision
  /\ r * r * (2 * RootBottom * RootBottom - RootTop * RootTop) < RootTop * RootTop

\* The number printed is the number of grid points within the circle, as if
\* the quadrant had been counted point by point, unless the radius is beyond
\* what the doubles are fine enough for and r_half is not what it stands for.
CountIsRight ==
  \/ printed = Pending
  \/ printed = (4 * Cardinality({c \in (0..(circle.r - 1)) \X (0..(circle.r - 1)) :
                                  c[1] * c[1] + c[2] * c[2] < circle.r * circle.r}))
               % circle.k
  \/ prog.octant /\ ~Precise(circle.r) /\ r_half # ExactHalf(circle.r)
=============================================================================
