---------------------------- MODULE GpuPrograms ----------------------------
(***************************************************************************)
(* The versions of blocked Floyd-Warshall in hw4-1 and hw4-2: for each the *)
(* matrix that its input makes, its kernels, and what block_FW_cuda gives  *)
(* the GPU to do in round r of `round` rounds.  GpuFW runs them.           *)
(*                                                                         *)
(* A kernel works on blocks of B x B entries.  Of block (i, j) it needs,   *)
(* beside a, the block itself, b, block (i, r), and c, block (r, j).  Each *)
(* of the two is "own", an alias of a, "loaded" beside it, or "pivot": an  *)
(* alias of a if it is the same block, else loaded.                        *)
(***************************************************************************)
EXTENDS FloydWarshall, Sequences

CONSTANTS B,         \* the width of a block
          INF        \* no path

\* A plausible slip: the matrix is filled with twice INF and one.
MutantInput(f, size) ==
  [c \in Cells(size) |->
     IF \E e \in f.edges : <<e[1], e[2]>> = c
     THEN (CHOOSE e \in f.edges : <<e[1], e[2]>> = c)[3]
     ELSE IF c[1] = c[2] THEN 0 ELSE 2 * INF + 1]

\* input: 0 on the diagonal, INF elsewhere, padding included, then the edges
input(f, size) ==
  [c \in Cells(size) |->
     IF \E e \in f.edges : <<e[1], e[2]>> = c
     THEN (CHOOSE e \in f.edges : <<e[1], e[2]>> = c)[3]
     ELSE IF c[1] = c[2] THEN 0 ELSE INF]

Rounds(n) == (n + B - 1) \div B
padding_n(n) == Rounds(n) * B

-----------------------------------------------------------------------------
(* Launches.                                                               *)

\* A thread block for one block of the matrix, or one that goes on to further
\* blocks by the size of the grid; shared memory, or each pass in the matrix
OneBlock(b, c) == [stride |-> FALSE, global |-> FALSE, b |-> b, c |-> c]
Strided(b, c) == [stride |-> TRUE, global |-> FALSE, b |-> b, c |-> c]
InMatrix == [stride |-> TRUE, global |-> TRUE, b |-> "own", c |-> "own"]

\* kernel<<<(gx, gy)>>>(..., x, y, width, height), on the default stream
Launch(kernel, gx, gy, x, y, width, height) ==
  [kernel |-> kernel, gx |-> gx, gy |-> gy, x |-> x, y |-> y,
   width |-> width, height |-> height, stream |-> 0, device |-> 0, memory |-> 0]
OnStream(s, launch) == [launch EXCEPT !.stream = s]
OnDevice(d, m, launch) == [launch EXCEPT !.device = d, !.memory = m]

\* A stream that was destroyed: the launch fails or not.
Destroyed(launch) == [launch EXCEPT !.stream = @ + 2]

\* The blocks that thread block (bx, by) of a launch works on, in its order
BlocksOf(l, bx, by) ==
  IF ~l.kernel.stride THEN <<<<l.x + bx, l.y + by>>>>
  ELSE LET steps(from, size, grid) ==
             IF from < size THEN (size - from - 1) \div grid + 1 ELSE 0
           columns == steps(by, l.width, l.gy)
       IN [s \in 1..(steps(bx, l.height, l.gx) * columns) |->
             <<l.x + bx + l.gx * ((s - 1) \div columns), l.y + by + l.gy * ((s - 1) % columns)>>]

\* The parts of a round when thread blocks stride: the rest of the pivot's row
\* and column in two parts each
Cross(kernel, r, round) ==
  LET rest == round - r - 1 IN
  << Launch(kernel, r, 1, r, 0, r, 1), Launch(kernel, rest, 1, r, r + 1, rest, 1),
     Launch(kernel, r, 1, 0, r, 1, r), Launch(kernel, rest, 1, r + 1, r, 1, rest) >>

\* ... and the rest of the matrix in four.  The grid's x is the width of the
\* part, though x is what a thread block starts its rows from.
Quadrants(kernel, r, round) ==
  LET rest == round - r - 1 IN
  << Launch(kernel, r, r, 0, 0, r, r), Launch(kernel, rest, r, 0, r + 1, rest, r),
     Launch(kernel, r, rest, r + 1, 0, r, rest), Launch(kernel, rest, rest, r + 1, r + 1, rest, rest) >>

\* One processor, or one thread block, for each part
Serially(launches) == [i \in DOMAIN launches |-> [launches[i] EXCEPT !.gx = 1, !.gy = 1]]

All(kernel, round) == Launch(kernel, round, round, 0, 0, round, round)
Pivot(kernel, r) == Launch(kernel, 1, 1, r, r, 1, 1)

\* Phase 2 in two kernels, each over the pivot too.  The grid of one dimension
\* leaves all of the row to its first thread block.
RowOf(kernel, r, round) == Launch(kernel, round, 1, r, 0, round, 1)
ColumnOf(kernel, r, round) == Launch(kernel, round, 1, 0, r, 1, round)

-----------------------------------------------------------------------------
(* sample/seq.cc and sample/hw4-1.cu: sequential.                          *)

seq_Dist(f) == input(f, f.n)
seq_cal == InMatrix
seq_block_FW(r, round) ==
  Serially(<<Pivot(seq_cal, r)>> \o Cross(seq_cal, r, round) \o Quadrants(seq_cal, r, round))

sample_Dist(f) == input(f, f.n)
sample_cal == InMatrix
sample_block_FW(r, round) ==
  Serially(<<Pivot(sample_cal, r)>> \o Cross(sample_cal, r, round) \o Quadrants(sample_cal, r, round))

(* hw4-1_corr.cu, and two with timers: without streams, without shared     *)
(* memory.                                                                 *)

corr_Dist(f) == input(f, f.n)
corr_cal_cuda == Strided("pivot", "pivot")
corr_block_FW_cuda(r, round) ==
  <<Pivot(corr_cal_cuda, r)>> \o Cross(corr_cal_cuda, r, round) \o Quadrants(corr_cal_cuda, r, round)

nostream_Dist(f) == input(f, f.n)
nostream_cal_cuda == Strided("pivot", "pivot")
nostream_block_FW_cuda(r, round) ==
  <<Pivot(nostream_cal_cuda, r)>> \o Cross(nostream_cal_cuda, r, round)
    \o Quadrants(nostream_cal_cuda, r, round)

global_Dist(f) == input(f, f.n)
global_cal_cuda == InMatrix
global_block_FW_cuda(r, round) ==
  <<Pivot(global_cal_cuda, r)>> \o Cross(global_cal_cuda, r, round)
    \o Quadrants(global_cal_cuda, r, round)

(* hw4-1_old.cu: phase 3 over the whole matrix.                            *)

old_Dist(f) == input(f, f.n)
old_phase3_cal_cuda == Strided("loaded", "loaded")
old_cal_cuda == Strided("pivot", "pivot")
old_block_FW_cuda(r, round) ==
  <<Pivot(old_cal_cuda, r)>> \o Cross(old_cal_cuda, r, round) \o <<All(old_phase3_cal_cuda, round)>>

(* timer/hw4-1_t.cu and prof/hw4-1_prof.cu: phase 2 over the pivot too.    *)
(* The stream is given where the size of the shared memory is expected, so *)
(* that all is on the default stream.                                      *)

t_Dist(f) == input(f, f.n)
t_phase3_cal_cuda == Strided("loaded", "loaded")
t_cal_cuda == Strided("pivot", "pivot")
t_block_FW_cuda(r, round) ==
  << Pivot(t_cal_cuda, r), RowOf(t_cal_cuda, r, round), ColumnOf(t_cal_cuda, r, round),
     All(t_phase3_cal_cuda, round) >>

prof_Dist(f) == input(f, f.n)
prof_phase3_cal_cuda == Strided("loaded", "loaded")
prof_cal_cuda == Strided("pivot", "pivot")
prof_block_FW_cuda(r, round) ==
  << Pivot(prof_cal_cuda, r), RowOf(prof_cal_cuda, r, round), ColumnOf(prof_cal_cuda, r, round),
     All(prof_phase3_cal_cuda, round) >>

(* hw4-1_static.cu, hw4-1_test.cu: a kernel for each phase, the default    *)
(* stream again; hw4-1_dynamic.cu: streams.                                *)

static_Dist(f) == input(f, f.n)
static_phase1 == Strided("own", "own")
static_phase3 == Strided("loaded", "loaded")
static_phase21 == Strided("loaded", "own")
static_phase22 == Strided("own", "loaded")
static_block_FW_cuda(r, round) ==
  << Pivot(static_phase1, r), RowOf(static_phase21, r, round), ColumnOf(static_phase22, r, round),
     All(static_phase3, round) >>

test_Dist(f) == input(f, f.n)
test_phase1 == Strided("own", "own")
test_phase3 == Strided("loaded", "loaded")
test_phase21 == Strided("loaded", "own")
test_phase22 == Strided("own", "loaded")
test_block_FW_cuda(r, round) ==
  << Pivot(test_phase1, r), RowOf(test_phase21, r, round), ColumnOf(test_phase22, r, round),
     All(test_phase3, round) >>

dynamic_Dist(f) == input(f, f.n)
dynamic_phase1 == Strided("own", "own")
dynamic_phase3 == Strided("loaded", "loaded")
dynamic_phase21 == Strided("loaded", "own")
dynamic_phase22 == Strided("own", "loaded")
dynamic_block_FW_cuda(r, round) ==
  << Pivot(dynamic_phase1, r), OnStream(1, RowOf(dynamic_phase21, r, round)),
     OnStream(2, ColumnOf(dynamic_phase22, r, round)), All(dynamic_phase3, round) >>

-----------------------------------------------------------------------------
(* From here on the matrix is padded, and each thread block has one block. *)

\* Phase 2 on a grid of its own shape, on two streams
Phase2(phase21, phase22, r, round) ==
  << OnStream(1, Launch(phase21, 1, round, r, 0, round, 1)),
     OnStream(2, Launch(phase22, round, 1, 0, r, 1, round)) >>

\* Phase 3 in two parts: the upper half of the rows, and the lower
Upper(kernel, round) == Launch(kernel, (round + 1) \div 2, round, 0, 0, round, (round + 1) \div 2)
Lower(kernel, round) ==
  Launch(kernel, round \div 2, round, (round + 1) \div 2, 0, round, round \div 2)

(* prof/hw4-1_flexable.cu and hw4-1.cu.                                    *)

flexable_Dist(f) == input(f, padding_n(f.n))
flexable_phase1 == OneBlock("own", "own")
flexable_phase3 == OneBlock("loaded", "loaded")
flexable_phase21 == OneBlock("loaded", "own")
flexable_phase22 == OneBlock("own", "loaded")
flexable_block_FW_cuda(r, round) ==
  <<Pivot(flexable_phase1, r)>> \o Phase2(flexable_phase21, flexable_phase22, r, round)
    \o <<All(flexable_phase3, round)>>

Dist(f) == input(f, padding_n(f.n))
phase1_cal_cuda == OneBlock("own", "own")
phase3_cal_cuda == OneBlock("loaded", "loaded")
phase21_cal_cuda == OneBlock("loaded", "own")
phase22_cal_cuda == OneBlock("own", "loaded")

\* A plausible slip: the two kernels of phase 2 are launched with their
\* starting blocks exchanged.
MutantBlockFW(r, round) ==
  <<Pivot(phase1_cal_cuda, r)>> \o Phase2(phase22_cal_cuda, phase21_cal_cuda, r, round)
    \o <<All(phase3_cal_cuda, round)>>

\* A plausible slip: phase 3 is on a stream, which waits for one kernel only.
MutantStreams(r, round) ==
  <<Pivot(phase1_cal_cuda, r)>> \o Phase2(phase21_cal_cuda, phase22_cal_cuda, r, round)
    \o <<OnStream(1, All(phase3_cal_cuda, round))>>

block_FW_cuda(r, round) ==
  <<Pivot(phase1_cal_cuda, r)>> \o Phase2(phase21_cal_cuda, phase22_cal_cuda, r, round)
    \o <<All(phase3_cal_cuda, round)>>

(* hw4-1_beta.cu: the two halves of phase 3 on the streams of phase 2,     *)
(* which block_FW_cuda has destroyed by then.                              *)

beta_Dist(f) == input(f, padding_n(f.n))
beta_phase1 == OneBlock("own", "own")
beta_phase3 == OneBlock("loaded", "loaded")
beta_phase21 == OneBlock("loaded", "own")
beta_phase22 == OneBlock("own", "loaded")
beta_block_FW_cuda(r, round) ==
  <<Pivot(beta_phase1, r)>> \o Phase2(beta_phase21, beta_phase22, r, round)
    \o <<Destroyed(OnStream(1, Upper(beta_phase3, round))),
         Destroyed(OnStream(2, Lower(beta_phase3, round)))>>

(* hw4-2/hw4-2.cu: a matrix on each of two devices.  Setup and each round  *)
(* leave device 1 the current one, so that it runs phases 1 and 2, in the  *)
(* memory of device 0; it is taken that the devices reach each other's.    *)

two_Dist(f) == input(f, padding_n(f.n))
two_phase1 == OneBlock("own", "own")
two_phase3 == OneBlock("loaded", "loaded")
two_phase21 == OneBlock("loaded", "own")
two_phase22 == OneBlock("own", "loaded")

\* cudaMemcpyPeer: so many rows of the matrix, which are entries and not blocks
CopyRows(from, to, rows) == [from |-> from, to |-> to, rows |-> rows]
IsCopy(op) == "rows" \in DOMAIN op

two_block_FW_cuda(r, round) ==
  LET Of1(launches) == [i \in DOMAIN launches |-> OnDevice(1, 0, launches[i])] IN
  Of1(<<Pivot(two_phase1, r)>> \o Phase2(two_phase21, two_phase22, r, round)) \o
  << Upper(two_phase3, round),                CopyRows(0, 1, (round + 1) \div 2),
     OnDevice(1, 1, Lower(two_phase3, round)), CopyRows(1, 0, round \div 2) >>

-----------------------------------------------------------------------------
Versions == {"hw4-1", "seq", "sample", "corr", "nostream", "global", "old", "t", "prof",
             "static", "test", "dynamic", "flexable", "beta", "hw4-2"}

DistOf(v, f) ==
  CASE v = "hw4-1"    -> Dist(f)          [] v = "seq"    -> seq_Dist(f)
    [] v = "sample"   -> sample_Dist(f)   [] v = "corr"   -> corr_Dist(f)
    [] v = "nostream" -> nostream_Dist(f) [] v = "global" -> global_Dist(f)
    [] v = "old"      -> old_Dist(f)      [] v = "t"      -> t_Dist(f)
    [] v = "prof"     -> prof_Dist(f)     [] v = "static" -> static_Dist(f)
    [] v = "test"     -> test_Dist(f)     [] v = "dynamic" -> dynamic_Dist(f)
    [] v = "flexable" -> flexable_Dist(f) [] v = "beta"   -> beta_Dist(f)
    [] v = "hw4-2"    -> two_Dist(f)

RoundOf(v, r, round) ==
  CASE v = "hw4-1"    -> block_FW_cuda(r, round)          [] v = "seq"    -> seq_block_FW(r, round)
    [] v = "sample"   -> sample_block_FW(r, round)        [] v = "corr"   -> corr_block_FW_cuda(r, round)
    [] v = "nostream" -> nostream_block_FW_cuda(r, round) [] v = "global" -> global_block_FW_cuda(r, round)
    [] v = "old"      -> old_block_FW_cuda(r, round)      [] v = "t"      -> t_block_FW_cuda(r, round)
    [] v = "prof"     -> prof_block_FW_cuda(r, round)     [] v = "static" -> static_block_FW_cuda(r, round)
    [] v = "test"     -> test_block_FW_cuda(r, round)     [] v = "dynamic" -> dynamic_block_FW_cuda(r, round)
    [] v = "flexable" -> flexable_block_FW_cuda(r, round) [] v = "beta"   -> beta_block_FW_cuda(r, round)
    [] v = "hw4-2"    -> two_block_FW_cuda(r, round)
=============================================================================
