# A verification project for pp2020

The repository holds the programs of a course on parallel programming: a sort
over MPI (`hw1`), two renderers of the Mandelbrot set (`hw2`, one with a pool
of POSIX threads, one with MPI and OpenMP), all-pairs shortest paths with
OpenMP (`hw3`), on one GPU (`hw4-1`) and on two (`hw4-2`), and smaller labs.
What they have in common is that their results must not depend on an order
nobody controls: of threads, of messages, of thread blocks.  The modules here
model that order.  The data (a pixel's colour, the digits of a float) is
abstracted to what the properties tell apart.

Most programs were kept beside earlier and timed versions of themselves.  They
are modelled as versions of one module: a variable, chosen in `Init`, says
which program runs, and actions differ where the programs do.

## The system

| component | state | operations | interaction | hard part |
|---|---|---|---|---|
| **hw2a**, `hw2/hw2a.cc` | an array of tasks with a `head`, `is_finish`, one mutex, `x0s`, `image`, `raw_img` | `make_task`, `push`, `pop`, `worker`, `core_cal_sse2`, `image_to_png`, `end_pool`, `write_png` | main pushes, then works like a worker; all share the array and the arrays of pixels | loop condition read without the lock; a pointer into the array used after the unlock; chunk borders; aligned stores; two pixels in one register |
| **queue**, `hw2/libs/queue` | doubly linked list with a dummy | `push`, `pop`, `is_q_empty` | called by the pool with its lock held, except `is_q_empty` | several assignments per link |
| **thread pool**, `hw2/libs/thread_pool` | queue, mutex, `is_submit_done`, `is_finish` | `submit`, `start_pool`, `submit_done`, `end_pool`, `resest_pool`, `free_pool`, `worker` | user thread (the test, or early versions of hw2a) and polling workers | workers leave on a condition read without the lock; reuse after a reset; coordinates stored while tasks run |
| **hw2b**, `hw2/hw2b.cc` | `ps_p` and its mutex, `not_recv_task`, messages, each process's `raw_img` | `assign_task`, `master`, `master_thread_task_comm`, `slave`, the reduction | two threads on rank 0, messages to and from slaves, `MPI_Reduce` | counts of answers, tasks sent ahead, end of work, merging bytes |
| **hw2seq**, `hw2/sample/hw2seq.cc` | one array of pixels | one loop | none | what the pictures are compared with |
| **hw1**, `hw1/hw1.cc` | each process's block, phase, buffers; messages | `OESort`, `merge_realc`, block arithmetic, file I/O by offset | neighbours exchange blocks, without a barrier; earlier versions reduce "something changed" after each phase | messages of neighbouring phases; number of phases; life of send buffers; leaving early |
| **hw3**, `hw3/hw3.cc` | the matrix, block and round | `omp_buf2graph`, `relax_block`, `block_floyd_warshall` | OpenMP threads on one matrix, barriers between loops | no locks; last block smaller; edges of weight 0 |
| **hw4-1**, `hw4-1/*.cu` | the matrix on the device, padded in the last versions | `input`, kernels, `block_FW_cuda`, `output` | kernels on streams | kernels overlap and store blocks that others load; INF + INF |
| **hw4-2**, `hw4-2/hw4-2.cu` | a matrix on each of two devices | the same, with phase 3 split between devices | copies between devices | current device, sizes of copies |
| **lab1**, **lab3** | partial sums | rows dealt in strides to processes, POSIX or OpenMP threads, or both | sums sent, reduced, or added under a mutex or `critical` | a stride that threads write while others read it; the remainder of a sum of remainders |
| **lab4**, **lab5** | a picture, a tile in shared memory | a convolution with two masks | threads, warps and blocks of a grid | the tile of one step overwritten for the next; the border |

What makes each correct: hw2a and hw2b compute every pixel once and write the
picture that the sequential program writes; the pool runs each submitted task
once, in order of submission, and ends; hw1 writes a sorted permutation of its
input; hw3, hw4-1 and hw4-2 write the distances; lab1 and lab3 print the number
of pixels, and lab4 and lab5 weigh a pixel's neighbours at their places.
`PROJECT.json` lists the hazards at their lines.

## Modules

| module | models | state and actions |
|---|---|---|
| `TaskPool` | `hw2/hw2a.cc`; versions `pass_all` and `timer/hw2a-t.cc` | One `pc` per thread.  `PushChunk`, `PushLast`, `CreateWorker`, `SetFinish`, `EndPool`, `WritePng` are main's; `TestFinish` to `ImageToPng` are the loop that `worker` and `main` both contain.  The two halves of the loop condition are separate reads without the lock, and `--q->head` is a read and a write.  A pixel of `image` is "unset", "own" (computed from its coordinates) or "junk" (from memory nobody wrote).  In `pass_all` all coordinates are stored before, and threads poll with `trylock` (`LockBusy`). |
| `SharedWork` | what `hw2a` and `hw2b` promise | Members of a team `Take` free pixels, `Hand` what they hold to each other, `Compute` and `Leave`; `Write` when all have left.  `TaskPool` and `MasterSlave` implement it.  Free are, in one, the pixels still to be pushed and the tasks below `head`, in the other those from `ps_p` on; held are a thread's task or chunk, or what is on its way to a slave and in its job.  In `MasterSlave` the communication thread is a member of its own, which takes and hands on but never computes. |
| `TaskPoolProofs` | | Theorems about `TaskPool`, among them that it implements `SharedWork`. |
| `LinkedQueue` | `hw2/libs/queue/queue.c` | The heap of nodes, `head`, `size`.  `push` and `pop` are two steps each, split where `head` moves, because the pool reads `head` without the lock. |
| `ThreadPool` | `hw2/libs/thread_pool/thread_pool.c` and its users: `hw2/test/test.cc`, `1_ver/hw2a.cc`, `all_in_one/hw2a.cc` | `EXTENDS LinkedQueue`.  The submitter's calls in every order the client makes them (`StartPool` before, between or after `Submit`s), and the workers' polling loop.  The clients of `hw2` compute a pair of pixels per task, `ReadPair` and `StorePair`, of which the second is the next task's too. |
| `ThreadPoolProofs` | | Theorems about `ThreadPool`. |
| `Fifo` | | A first-in first-out queue: what `ThreadPool` implements, with a refinement mapping along `prev`. |
| `MasterSlave` | `hw2/hw2b.cc`; `timer/hw2b-t.cc` has the same behaviours | `pc["main"]` and `pc["comm"]` for the threads of rank 0, `spc` for the slaves, a channel to each slave and a count of answers from each.  `assign_task` is a read and a write. |
| `MasterSlaveProofs` | | Theorems about `MasterSlave`, among them how answers are counted and that it implements `SharedWork`. |
| `Mandelbrot` | the pixels of `hw2a.cc`, `hw2b.cc`, their versions and `hw2seq.cc` | `LoadPair` takes two points into the halves of the registers, `Iterate` is a turn of the loop that goes on until both are done, `StorePair` stores their counts, `Single` is the pixel behind the last pair, and `Paint` writes three bytes of each pixel.  The arithmetic of the coordinates is a parameter, of which nothing is assumed; the two loops (`Turn`, `Turn_sse2`) multiply in different orders.  `hw2seq.cc` is the definition they are compared with. |
| `OddEvenSort` | `hw1/hw1.cc` and six versions | Each rank's phase, buffer, receive buffer; messages with their tags; messages longer than `EagerLimit` keep a reference to the sender's buffer until they arrive.  A version has a reduction after each phase, ends early, or keeps buffers for longer. |
| `OddEvenSortProofs` | | Theorems about `OddEvenSort`. |
| `FloydWarshall` | | Reference definitions: one relaxation pass, the algorithm without blocks, and distances defined by walks (not by the algorithm): the shortest of at most `m` edges, for `m` up to `n - 1`. |
| `Lemmas` | | What the proofs share: induction over naturals and finite sets, functions given by recursion, counting and sums, the pieces of a shared-out loop, and what follows about the definitions of `FloydWarshall`. |
| `BlockedFW` | `hw3/hw3.cc`; version `timer/hw3-t.cc` | Each thread's share of a loop (`todo`) and its pass over the first block in it.  `Barrier` and `NextRound` are the implicit barriers. |
| `BlockedFWProofs` | | Theorems about `BlockedFW`. |
| `GpuPrograms` | 14 programs of `hw4-1`, two of them sequential, and `hw4-2.cu` | No state: for each program the matrix `input` makes, its kernels, and what a round launches, on which stream and device, with which grid. |
| `GpuFW` | what a GPU does with those launches | Thread blocks that `Load` their operands and later `Store` their block, kernels that wait for their stream; `Copy` between two memories; `NextRound`. |
| `GpuFWProofs` | | Theorems about `GpuFW`. |
| `CirclePixels` | `lab1/*.cc`, `lab3/*.cc` | `Create`, `Begin`, `AddRow`, `Leave` for the members of a team; `Join`, `Receive`, `PrintOut` for the processes.  `Halves` is what `r_half` can be when its quotient is rounded to a double. |
| `Sobel` | `lab4/lab4.cu`, `lab4/sample/lab4.cu`, `lab5/lab5.cu`, `lab5/lab5_cor.cu` | Warps `Load` their part of a tile, meet in `Sync`, and `Mask` computes their pixels and goes on to the next tile.  A cell of shared memory holds the place of the pixel loaded into it.  All three kernels run a grid of blocks; in `lab5.cu` a thread loads every other neighbour. |
| `PixelProofs` | | Theorems about `CirclePixels`, `Sobel` and `Mandelbrot`. |
| `MC...` | | The inputs TLC explores.  `MCPixels` puts `CirclePixels`, `Sobel` and `Mandelbrot` side by side. |

External code is modelled from its use: MPI keeps the order of messages
between two processes and matches by tag, `MPI_ANY_SOURCE` takes any sender, a
reduction gives its result when every process has given to it; OpenMP's static
schedule cuts a loop into consecutive pieces; a kernel in CUDA's default stream
waits for all kernels launched before it, and one on another stream for those
of the default stream; the threads of a warp run in lockstep.

## Runs

| run | question | bounds |
|---|---|---|
| `task_pool` | Is every pixel computed once, in all interleavings, and the picture complete when it is written (`SharesWork`: does it implement `SharedWork`)?  For `hw2a` and its two versions. | 3 workers and main; areas 3, 10, 11, 20, 21 |
| `task_pool_junk` | violated: is every pixel computed from its own coordinates? | 1 worker, areas 3 to 5 |
| `thread_pool` | Is the list intact and a FIFO queue, does each task run once, does the pool end, and what is the picture made of? | 3 clients, 3 workers, 4 tasks, 5 addresses |
| `thread_pool_reuse` | violated: can a pool be used after `resest_pool`? | 1 worker, 1 task, 2 rounds |
| `master_slave` | Do master and slaves share out the pixels (`SharesWork`), do the counts of answers balance, and does everybody get to the reduction? | 2 slaves; pictures of 1x1, 2x3, 4x4, 5x3 |
| `master_slave_bytes` | violated: does the picture have all its bytes? | 1 slave, 2x2 and 2x3 |
| `odd_even_sort` | Does the output hold every number, in order, are phases not confused, and do the versions that may stop early stop together? | 4 ranks; all files of zeros and ones of 0, 2, 4, 5, 6 numbers (versions: some) |
| `odd_even_short` | violated: is it sorted with other lengths too? | 6 ranks, 8 numbers |
| `odd_even_send` | violated: does a segment arrive as it was sent? | 2 ranks, 4 numbers, eager limit 1 |
| `blocked_fw` | Do threads without locks never conflict, and are the results distances? | 3 threads, blocks of 2, graphs of 2 to 7 vertices |
| `gpu_fw` | Are overlapping kernels harmless, and are the results distances?  For 15 programs. | blocks of 2, graphs of 3 to 5 vertices |
| `pixels` | Do the programs that compute pixels compute the right ones, and end? | circles of 1 to 24; 2 processes, 3 threads; pictures up to 5x4, two blocks with tiles of 3; eight views of the Mandelbrot set |

Why the bounds are enough to be interesting.

- `task_pool`: with three CPUs a chunk has ten pixels (eight in `pass_all`).
  The areas are less than a chunk, a chunk, a chunk and a pixel, two chunks,
  two and a pixel: every outcome of the loop that pushes tasks, with both
  parities of the last chunk.  There are more threads than tasks, so threads
  find the queue empty before and after they hold the lock.
- `thread_pool`: four tasks make the list empty, of one node, of two and of
  more, with three poppers; every address can be reused.  The pool of
  `all_in_one` starts after the first of four tasks (`StartAt`), so that
  coordinates are missing for some tasks and not for others.
- `master_slave`: pictures of one chunk, of fewer chunks than first tasks, of
  more (so that the loop that answers slaves runs), with a last chunk that is
  whole and one that is not.
- `odd_even_sort`: `merge_realc` only compares, so by the 0-1 principle inputs
  of zeros and ones stand for all.  Lengths are below, at and above the
  number of processes; blocks of unequal lengths, and empty ones, occur.
  These lengths are sorted; `odd_even_short` shows one that is not.  With an
  eager limit of 2 every block is copied by MPI; the other case is
  `odd_even_send`.
- `blocked_fw`: all graphs on three vertices with weights 0 and 2 (two blocks,
  one of them residual), and chosen ones on up to seven (four blocks, so that
  a thread's share has several blocks).
- `gpu_fw`: two blocks in each dimension with and without padding, all
  interleavings of loads and stores; three blocks on one graph.  Weights reach
  `INF`, and addition wraps at twice `INF` plus one as an `int` does.
- `pixels`: radii for which rows are dealt unevenly, or not to every member,
  and a modulus that sums exceed.  Doubles are coarse (a precision of 72, 7/5
  for `Root2`), so that radii up to 6 are precise, and for 17 and 24 `r_half`
  can come out right or one off.  Pictures smaller than a tile, of a tile, of
  several tiles in one block and in two, and with a last tile of one row or
  column.  Views with a pair that begins in one row and ends in the next, a last
  pixel without a partner, and points that leave the circle at different turns
  beside points that never do.  Coordinates are quarters and results are rounded
  down to quarters; five points are such that rounding brings them back inside.

Deadlock is checked in every run but `pixels`; the end of a program is an
action `Finished` that stutters.  The programs of `pixels` just end, and
`PixelsEnd` says that they do so with a result.

**Fairness.**  `FairSpec` assumes weak fairness of each thread or process: the
operating system runs it.  Messages that were sent can be received.  Nothing
is assumed of a mutex: a POSIX mutex may pass a waiter over for ever.  In
`TaskPool` the mutex is contended only while threads have tasks to pop, and in
`ThreadPool` the workers poll, so `EndPoolReturns` is stated from the moment
the caller waits in `end_pool`.  (That `submit` itself returns is not stated:
pollers may starve it.)  In `pixels` weak fairness of `Next` is enough, since
every step brings the program nearer to its end.

**Mutants.**  Each property has one: a definition of the model replaced by a
plausible slip (`Mutant...`, kept before the definition it changes) for which
TLC finds the property violated.

**What the properties leave aside.**  Where a program is known to be wrong, the
property says for which program or input it is not claimed, and why:

- `JunkOnlyLast` and `AsSequential`: the pixel behind the last pair (1 below).
- `AsSequential`: in pairs, points that are not `Steady`.  A half that is done
  goes on being computed, and could only count again if rounding brought its
  point back inside the circle; and `core_cal` computes `(2 * x) * y` where
  `core_cal_sse2_sig` computes `2 * (x * y)`, which could differ only by rounding
  too.  (Doubling a double is exact, and the numbers are far from the largest
  and smallest ones, so the second does not happen in doubles.)  In arithmetic
  that does not round every point is steady, which is proved.
- `PictureOwn`: pixels of `all_in_one` behind the one that started its pool. A
  task computes pixels behind its own, and their coordinates may not be stored.
- `SortedOutput`: a version with a reduction that stopped early.  One phase that
  changed nothing has looked at every other pair of neighbours only, so
  0 0 1 1 0 0 1 1 on four processes stays as it is.
- `RacesAreBenign`, `RoundsMatch`: `hw4-1_beta.cu`, which launches phase 3 on
  streams it has destroyed, and `hw4-2.cu`, whose device 1 runs phases 1 and 2
  of every round in the memory of device 0, not ordered with device 0's work,
  and which copies as many rows of entries as there are rows of blocks.  Of
  both `OutputIsDistances` says only that no distance is too short.
- `PictureIsRight`: two sorts of pixels in `lab5.cu`, neither of which is always
  right.  What is left is claimed for every block, and that every pixel is
  stored is claimed for all.
  - Those of a tile that its block follows with another (`Overtaken`).  The only
    barrier (`lab5.cu:184`) is between a tile's loads and its masks, so a warp may
    load the next tile over this one while another warp reads it.  A picture
    wider than 32 pixels has a second tile in its first block.
  - Those of a last row or column of the picture that is the only one of its
    tile (`Lone`).  Every other neighbour is loaded (`lab5.cu:174`), and those
    between are left to the threads beside.  A picture 33 pixels high has a tile
    of one row, the only tile of its second block if it is no wider than 32:
    rows 30 and 32 are loaded, nobody loads row 31, and row 32 is computed from
    what was in shared memory.
- `CountIsRight`: in `lab3`, radii so large that a double is too coarse
  (`Precise`; beyond 2^26 with the code's constants), as far as `r_half` comes
  out wrong for them.

## What the violations show

1. `hw2a.cc:216`: when the number of pixels is odd the last one is computed
   from `x0s[i]` and `y0s[i]`, which only the vector loop assigns.  The same
   run without that property (`JunkOnlyLast` in `task_pool`) shows that no
   other pixel is concerned.
2. `thread_pool.c:112`: `resest_pool` frees the queue and installs no new one.
3. `hw2b.cc:397`: the reduction merges whole words of four bytes, so up to
   three bytes at the end of the picture are lost when a slave computed them.
4. `hw1.cc:99`: `c_size + 1` phases do not sort blocks of unequal lengths.
   Six processes and 8 7 6 5 4 3 2 1 give 1 2 3 5 4 6 7 8.
5. `hw1.cc:133`: the buffer of a send is freed while the send may be pending.

## Proofs

Eight modules hold theorems, each for every value of the constants.  Assumed
are only the named assumptions about constants that the component's module
states.  Each invariant is proved by induction over the steps: it holds in
`Init`, one lemma or step for each action shows that the action keeps it, and
it implies the property.

**`Lemmas`** holds what several proofs need.  Induction is stated for a set
instead of an operator (a set that holds 0 and with each number the next holds
all of them), so that a proof cites it with the set of the numbers for which its
claim is true; in the same way for finite sets.  From it follow that a function
given by recursion (over naturals, or along any rank) exists and satisfies its
equation, and
that the consecutive pieces of a shared-out loop cover it without overlap.

It also proves that the algorithm without blocks computes the distances, for
any number of vertices and any weights (`StepsAreDistances`): after step `k` an
entry is the length of a shortest walk through vertices below `k`.  That no
walk of more than `n - 1` edges is shorter is proved as Dijkstra's algorithm is:
from each vertex the others are settled one by one, and what is settled after
`m` of them has a shortest walk of at most `m` edges.

**`TaskPoolProofs`** proves, for every number of CPUs, every set of areas and
the three versions, `Spec => []P` for `TypeOK`, `NoPixelLost`, `Exclusive`,
`PointerStable`, `AlignedStores`, `PictureComplete` and `JunkOnlyLast`.  None of
these is inductive alone.  The inductive invariant `IInv` adds:

- `MutexInv`: exactly the owner of the mutex is between `Lock` and `Unlock`;
- `PhaseInv`: what main's place says of the others, among it `idx = head *
  Chunk` while tasks are pushed, from which it follows that `push` never finds
  the array full (`CapacityEnough`), and that main, once past its loop, has
  seen an empty queue nobody fills again;
- `QueueInv`: the tasks in the array share no pixel and start at even ones;
- `PointerInv` and `SlotInv`: a popped slot is above `head` and belongs to one
  thread until its pixels are in the picture;
- `ChunkInv`, `SetInv`, `UnsetInv`: what a thread computes is the task it
  points at; pixels behind its loop variable are computed, and those that are
  queued or ahead of it are not.

The proof describes ownership slot by slot: slots are disjoint in pixels, and
threads in slots, so threads are disjoint in pixels.  `ChunkEven` (whatever
`cpu_num` is, the size of a chunk is even) is what makes `StoresAreAligned`
true for every instance and not only for three CPUs, and what leaves a single
pixel without a partner only at the end of the picture (`JunkIsOnlyLast`).

It proves `SharesWork` from the same invariant: each step maps to a step of
`SharedWork` or leaves alone what it speaks of.  A push leaves a pixel free; the
store of `head` is `Take`, of exactly one task because the slots share no pixel
(`QueueInv`); `image_to_png` is `Compute`, of pixels that have all been set
(`SetInv`); a thread that reads `head = 0` may `Leave` though it reads without
the lock, because nobody pushes any more (`PhaseInv`).

**`ThreadPoolProofs`** proves `TypeOK`, `QueueExclusive`, `EveryTaskRunOnce`,
`ListIntact`, `PictureOwn`, the action property `LeaveOnlyWhenDone` and the
refinement `FirstInFirstOut`, for every number of tasks, workers and rounds and
all three clients.  It goes in two stages.  `IInv` is about places, the mutex
and the two flags: whoever works on the list holds the mutex, and
`is_submit_done`, once a worker has seen it, is not withdrawn while the worker
lives.  `TInv` is about the tasks.  Tasks are numbered in the order of
submission, so the queue always holds consecutive numbers up to that of the last
push: `ListInv` says so of the nodes from `head` along `prev`, and `OpInv` what
differs in the middle of a push or pop, where a node is linked on one side
only; `SizeInv` that `size` is their number; `HandInv` that a task in a worker's
hands is not in the queue nor in another's; `CountInv` that exactly the tasks
that are neither still to come, nor queued, nor in hand have been run in this
round; `ExitInv` that a worker which has left saw the queue empty after the last
task.  The queue as a sequence is then the tasks from the first of those numbers
to the last, so that a push appends to it and a pop takes its head away: the
refinement.

**`MasterSlaveProofs`** proves `OnePlacePerPixel`, `TypeOK`, `AnswersBalance`
and `SharesWork`, for pictures of every shape and any number of CPUs and slaves.
`MutexInv` and `AssignInv` say that what
`assign_task` has read is still so when it writes; `SlaveInv` that the messages
to one slave, and the task it computes, share no pixel; `PlaceInv` that the two
threads, the ways to the slaves and the pictures of all processes are disjoint
and make up the pixels below `ps_p`.  A sum over the slaves is the size of a set of units
(one for each answer), so that a step which adds one for a single slave adds one
to the sum.  For `SharesWork` it adds `EmptyInv` (an assignment of no pixels, and
every place behind one, means that none are left) and `DoneInv` (DONE is the
last message to a slave, sent when the communication thread leaves, and a slave
that left has an empty channel).  So a slave that receives DONE has no work on
its way, and no work is sent to a slave that has left.

**`OddEvenSortProofs`** proves, for any number of processes, any file and all
seven versions:

- `StopTogether`.  `GivenInv` says which processes have given to the reduction
  of a phase, and `ReductionInv` that one past it saw all of them, and went on
  or left for the same reason as the others.
- `AtMostTwoInFlight`.  `FlightInv` counts: the messages on the way from `s` to
  `t` are those `s` sent less those `t` received, each the number of phases
  behind it in which the two are partners.  No way has a negative length, the
  one back neither, so that neither of the two is more than two meetings ahead.
- `TypeOK`, with `SegmentsFit`.  `HeldInv` says that a process's buffer, and each
  message of it, has the length of its block, which a merge keeps; the block of
  process 0 is the largest, so that every segment fits into what is allocated
  for it.
- `InLockstep`: what a process holds after `t` phases is what it would hold if
  all went through the phases together, whatever the order of the messages.
  `SentInv` says that the messages from `s` to `t` belong, in order, to the
  meetings `s` has passed and `t` has not, each with the block `s` held in that
  phase; so a process always merges with the block of its own phase, although
  the other may be two meetings ahead.  This holds as long as segments arrive as
  they were sent (`SegmentsArrive`), which `odd_even_send` shows not to be so
  for every block; the theorem `CopiedBlocksInLockstep` needs no such hypothesis
  for blocks that MPI copies (`count_b_size(0) <= EagerLimit`, `CopyInv`).
- `OutputIsWhole`, the part of `SortedOutput` that no number is lost, for every
  file, under the same hypothesis (`NothingIsLost`) or for copied blocks
  (`CopiedNothingIsLost`).  The two of a pair merge on
  their own, one from the front and one from the back.  `MergeKeeps`: both take
  the same parts of the two blocks (`Parts`), because
  only one way of cutting them leaves as many numbers as the left block has on
  one side, with none greater than one on the other side and equal ones taken
  from the left block first (`PartsUnique`).  So a phase changes who holds a
  number, but none is lost or held twice; the blocks tile the output
  (`BlocksTile`).
- `SortedOutput`, for every file the processes share evenly (`n % CommSize =
  0`; `EvenBlocksAreSorted`, `CopiedEvenBlocksAreSorted`).  As the 0-1
  principle has it, one value is looked at at a time: `Tally` counts the numbers
  above it from each border on, and a phase moves as many of them over the
  border of a pair as the block behind it can hold or the pair has
  (`PhaseMoves`).  `Arrived` bounds from below how many are behind a border
  after `t` phases; after `c_size + 1` they fill the last blocks, whatever the
  value, so that no block holds a number above one of a later block.

**`BlockedFWProofs`** proves `TypeOK`, `NoConflict`, `RoundsMatch` and
`Distances`, for any number of threads and any size of blocks and graph.
`NoConflict` follows from the pieces of a loop being disjoint, and from the
blocks of a phase not being operands of other blocks of it.  For `RoundsMatch`
the invariant `RoundInv` says that within a round each entry lies between those
of the algorithm without blocks at the start of the round and at its end
(`Between`), and that those of finished blocks have reached the latter
(`Reached`).  That is what makes it harmless that a block reads entries of
itself, or of its pivots, that have gone further than a sequential program's
would have: an entry is never less than the end's, and a path through the
round's vertices that the end's entry stands for can be followed from one of
them to the next (`Detour`).  With `StepsAreDistances` the output is the
distances.

**`GpuFWProofs`** proves `TypeOK`, `RoundsMatch`, `OutputIsDistances` and
`RacesAreBenign`, for all fifteen programs, any graph, size of blocks and `INF`.
`BasicInv` holds of every program, those with unordered kernels too: entries lie
between the distances and `INF` (so no sum exceeds twice `INF` and none wraps),
what a thread block has loaded does so too, and thread blocks work on
blocks that are there.  `OrderedInv` is about the programs whose kernels wait
for one another.  Within a round it says of each entry what `RoundInv` of
`BlockedFW` does: it lies between those of the algorithm without blocks at the
round's start and end, and is at the latter in blocks that are finished.  What
is new is why the operands are finished when they are loaded: kernels of an
earlier phase have left, which follows from what each program launches on which
stream.  `StartInv` says that a round starts with `Steps[r * B]`, and `FileInv`
that the output is the distances.  `RacesAreBenign`
follows: a block that is changed is not finished, so it is of the running
phase; the operands of the thread blocks that run are finished, and no two of
them have the same block.

**`PixelProofs`** proves the properties of the three modules of pixels.

- `AsSequential` of `Mandelbrot`, for every view, whatever the arithmetic of
  its coordinates.  `MandelbrotInv` says of each half of a register that it is
  where the sequential loop for its pixel is after as many turns (`Follows`),
  and that a half that is done keeps its count.  The pair goes on until both
  halves are done, which takes no more turns than the two have repeats
  together, so twice `iters` turns are what `Steady` speaks of.
- `ExactPointsAreSteady`: in arithmetic that does not round (`IsExact`, that of
  fractions), with fractions for the view's bounds, no point is left aside: the
  two products are one, and a point once outside the circle only goes farther
  away (`OrbitIsAt`, `FractionsFarther`).
- `PictureIsRight` of `Sobel`, for pictures, tiles and grids of any size.  `Walked`
  says that no pixel of a tile passed has been left out, `GatheredInv` that in
  `lab5_cor.cu`, where a block is one warp, a warp that masks has loaded all it
  reads.  For `lab5.cu` `TogetherInv` says that of two warps of a block only one
  that is about to read can be behind the other, by one tile, and `KeptInv` that
  what a warp has loaded of its block's last tile stays there, since no tile
  follows.  `LoaderIs` finds for each neighbour that weighs a thread of the tile
  that loads it: the thread itself or one beside it, behind it where the
  picture goes on, before it at the picture's end, unless it is a lone one.
- `CountIsRight` of `CirclePixels`, for every modulus and number of processes
  and threads.  `RowsWalked` says that a member of a team that has begun knows
  the stride, though threads write it while others read it, and goes over the
  rows that are its rank modulo the stride; `Counted`, `Returned` and `Summed`
  that a member's sum, a process's and the printed one count the rows gone over,
  modulo `k`.  `QuadrantCount` is what the programs that go over half of a
  quadrant rely on: a quadrant is a square and twice what is beside it.  A modulus
  taken early or late is the same (`ModOfMod`).  That `r_half` is the square's
  side for precise radii rests on `r * r` not being twice a square
  (`RootIsIrrational`): the quotient keeps away from integers, and rounding does
  not take it past one.  `DoublesAreFineEnough` gives it with the constants of
  the code for radii up to 2^26.

**Model-checked only.**

- Liveness (`Termination`, `EndPoolReturns`, `PixelsEnd`): the prover has no
  rules for fairness and `ENABLED` here.
- `SortedOutput` of `OddEvenSort` for files that the processes do not share
  evenly: it is false of some of them (4 above); the run shows it for the lengths
  it has.

## Not modelled

- Copies: `hw2/submit/*` and `hw3/submit/hw3.cc` are the main programs;
  `hw4-2/timer`, `hw4-2/prof` and `hw4-2/sample` hold those of `hw4-1`, and
  `lab5/sample/lab4.cu` is that of `lab4`.
- Timers and the fixed-point numbers of `hw2/libs/pd128`, which measure or are
  printed by a test; generators, validators, comparison tools and scripts, from
  which the models take their input assumptions; vendored code and samples.
- Code that does not run: `phase2_cal_cuda` of `hw4-1_old.cu`, the functions of
  `lab3_pthread.cc` that nobody calls, and what is commented out.
- Inside modelled programs: png encoding and decoding and other I/O that fails;
  floats that are NaN; vector instructions beyond what they compute; the sums
  of the edge masks; the threads within one CUDA thread block (`__syncthreads`
  separates their passes) and the OpenMP loops within a chunk of hw2b
  (iterations share nothing); graphs without vertices; a run of hw2b with one
  process; stores of `1_ver` and `all_in_one` behind the last pixel; and an
  `all_in_one` with so few pixels that its pool is never started.
- What is taken: `MPI_Isend` of the two integers of a task copies them; the two
  devices of `hw4-2` reach each other's memory; a double is within 2^-53 of what
  it is rounded from; the long double root of a row gives the exact ceiling; the
  programs of `hw2` compute the same sum or product of the same two doubles.  In
  `pixels` two shades of a colour stand for 16, and tiles of three for those of
  32.

## Plan

Done: the modules and theorems above.  What is left: the race between warps
within a pass of `hw4-1`'s phases 1 and 2, as a module about a single thread
block.
