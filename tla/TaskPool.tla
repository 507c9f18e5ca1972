------------------------------ MODULE TaskPool ------------------------------
(***************************************************************************)
(* hw2/hw2a.cc: the picture is cut into chunks of consecutive pixels, the  *)
(* main thread pushes every chunk on a stack kept in an array, starts      *)
(* cpu_num workers, and then works beside them until the stack is empty.   *)
(*                                                                         *)
(* The loop conditions of the workers read is_finish and the stack's head  *)
(* without the lock; pop() hands out a POINTER into the array, which the   *)
(* thread dereferences after it has released the lock.                     *)
(*                                                                         *)
(* A pixel is its index in image; its iteration count is abstracted to     *)
(* where the coordinates it was computed from come from ("own": its own    *)
(* x0, y0; "junk": memory nobody wrote).                                   *)
(***************************************************************************)
EXTENDS Integers

CONSTANTS CpuNum,      \* cpu_num: the CPUs of the affinity mask
          Areas,       \* the values of width * height that are explored
          CHUNK_SIZE   \* the macro of pass_all, 128 there

ASSUME CpuNumAssumption == CpuNum \in Nat \ {0}
ASSUME AreasAssumption == Areas \subseteq Nat \ {0}
ASSUME ChunkSizeAssumption == CHUNK_SIZE \in Nat \ {0} /\ CHUNK_SIZE % 2 = 0

\* The versions of the program: hw2a; hw2a with timers, which nothing waits
\* for; and pass_all, whose main assigns all coordinates first and only waits
\* while its workers try the lock instead of waiting for it.
hw2a     == "hw2a"
hw2a_t   == hw2a
pass_all == "pass_all"

Versions == {hw2a, hw2a_t, pass_all}

Main    == 0
Workers == 1..CpuNum
Threads == {Main} \cup Workers
NoOne   == -1       \* the owner of a free mutex
NoSlot  == -1       \* is_has_task is 0

VARIABLES
  version,
  area,       \* width * height
  idx,        \* main's loop variable while it makes the tasks
  queue,      \* Task_Queue.queue, the array
  head,       \* Task_Queue.head
  lock,       \* pool->lock: its owner
  is_finish,  \* pool->is_finish
  pc,         \* where each thread is
  task,       \* the slot each thread's task pointer points at
  chunk,      \* the parameters (ps, size) of the thread's core_cal_sse2
  at,         \* its loop variable i
  x0s,        \* the pixels whose x0s[] and y0s[] were assigned
  image,      \* image[]
  raw_img     \* raw_img[], one cell per pixel

poolVars  == <<queue, head, lock, is_finish>>
pixelVars == <<x0s, image, raw_img>>
localVars == <<task, chunk, at>>
vars == <<version, area, idx, poolVars, pc, localVars, pixelVars>>

Squ == CpuNum * CpuNum

\* A plausible slip: the rounding of an odd chunk is forgotten.
MutantOddChunk == CASE version = pass_all -> CHUNK_SIZE
                    [] OTHER              -> IF Squ <= 1 THEN Squ + 1 ELSE Squ

\* set_chunk_size: an even number of pixels.
Chunk == IF version = pass_all THEN CHUNK_SIZE
         ELSE IF Squ % 2 = 1 \/ Squ <= 1 THEN Squ + 1 ELSE Squ

Task   == [ps : Nat, size : Nat]
NoTask == [ps |-> 0, size |-> 0]
Pixels == 0..(area - 1)
Origin == {"unset", "own", "junk"}

\* create_queue(area / CHUNK_SIZE + 1)
Capacity == area \div Chunk + 1

Goto(t, l) == pc' = [pc EXCEPT ![t] = l]

Init ==
  /\ version \in Versions
  /\ area \in Areas
  /\ idx = 0
  /\ queue = [k \in 0..(Capacity - 1) |-> NoTask]
  /\ head = 0
  /\ lock = NoOne
  /\ is_finish = FALSE
  /\ pc = [t \in Threads |-> IF t = Main THEN "push" ELSE "unborn"]
  /\ task = [t \in Threads |-> NoSlot]
  /\ chunk = [t \in Threads |-> NoTask]
  /\ at = [t \in Threads |-> 0]
  /\ x0s = IF version = pass_all THEN Pixels ELSE {}
  /\ image = [p \in Pixels |-> "unset"]
  /\ raw_img = [p \in Pixels |-> "unset"]

-----------------------------------------------------------------------------
(* The main thread before and after its share of the work.                 *)

\* make_task: push() drops the task, silently, when the array is full.
MakeTask(ps, size) ==
  IF head < Capacity
  THEN /\ queue' = [queue EXCEPT ![head] = [ps |-> ps, size |-> size]]
       /\ head' = head + 1
  ELSE UNCHANGED <<queue, head>>

PushChunk ==
  /\ pc[Main] = "push"
  /\ idx + Chunk < area
  /\ MakeTask(idx, Chunk)
  /\ idx' = idx + Chunk
  /\ UNCHANGED <<version, area, lock, is_finish, pc, localVars, pixelVars>>

\* A plausible slip: the last chunk is assumed to be a full one.
MutantPushLast ==
  /\ pc[Main] = "push"
  /\ ~(idx + Chunk < area)
  /\ idx + Chunk = area => MakeTask(idx, area - idx)
  /\ idx + Chunk # area => UNCHANGED <<queue, head>>
  /\ Goto(Main, "create")
  /\ UNCHANGED <<version, area, idx, lock, is_finish, localVars, pixelVars>>

PushLast ==
  /\ pc[Main] = "push"
  /\ ~(idx + Chunk < area)
  /\ MakeTask(idx, area - idx)
  /\ Goto(Main, "create")
  /\ UNCHANGED <<version, area, idx, lock, is_finish, localVars, pixelVars>>

\* start_pool: pthread_create in the order of the thread ids.
CreateWorker ==
  /\ pc[Main] = "create"
  /\ \E w \in Workers :
       /\ pc[w] = "unborn"
       /\ \A v \in Workers : v < w => pc[v] # "unborn"
       /\ Goto(w, "testFinish")
  /\ UNCHANGED <<version, area, idx, poolVars, localVars, pixelVars>>

\* A plausible slip: the pool is ended, and its flag set, nowhere.
MutantSetFinish ==
  /\ pc[Main] = "create"
  /\ \A w \in Workers : pc[w] # "unborn"
  /\ Goto(Main, "testFinish")
  /\ UNCHANGED <<version, area, idx, poolVars, localVars, pixelVars>>

\* set_finish, before main starts to work; in pass_all the first statement of
\* end_pool, before main waits.
SetFinish ==
  /\ pc[Main] = "create"
  /\ \A w \in Workers : pc[w] # "unborn"
  /\ is_finish' = TRUE
  /\ Goto(Main, IF version = pass_all THEN "join" ELSE "testFinish")
  /\ UNCHANGED <<version, area, idx, queue, head, lock, localVars, pixelVars>>

\* A plausible slip: end_pool does not wait for the workers.
MutantEndPool ==
  /\ pc[Main] = "join"
  /\ is_finish' = TRUE
  /\ Goto(Main, "write")
  /\ UNCHANGED <<version, area, idx, queue, head, lock, localVars, pixelVars>>

\* end_pool joins the workers one after the other; a thread that has exited
\* stays so, hence main gets through when all of them have.
EndPool ==
  /\ pc[Main] = "join"
  /\ \A w \in Workers : pc[w] = "exited"
  /\ is_finish' = TRUE
  /\ Goto(Main, "write")
  /\ UNCHANGED <<version, area, idx, queue, head, lock, localVars, pixelVars>>

\* write_png writes raw_img, row by row, to the file.
WritePng ==
  /\ pc[Main] = "write"
  /\ Goto(Main, "done")
  /\ UNCHANGED <<version, area, idx, poolVars, localVars, pixelVars>>

-----------------------------------------------------------------------------
(* The loop that worker() and main() share.                                *)

\* The first half of the loop condition, read without the lock.
TestFinish(t) ==
  /\ pc[t] = "testFinish"
  /\ Goto(t, IF is_finish THEN "testQueue" ELSE "lock")
  /\ UNCHANGED <<version, area, idx, poolVars, localVars, pixelVars>>

\* The second half, evaluated when is_finish is set, again without the lock.
TestQueue(t) ==
  /\ pc[t] = "testQueue"
  /\ Goto(t, CASE head # 0              -> "lock"
               [] head = 0 /\ t = Main  -> "join"
               [] head = 0 /\ t # Main  -> "exited")
  /\ UNCHANGED <<version, area, idx, poolVars, localVars, pixelVars>>

\* A plausible slip: the pop is not protected.
MutantLock(t) ==
  /\ pc[t] = "lock"
  /\ lock' = t
  /\ Goto(t, "popRead")
  /\ UNCHANGED <<version, area, idx, queue, head, is_finish, localVars, pixelVars>>

Lock(t) ==
  /\ pc[t] = "lock"
  /\ lock = NoOne
  /\ lock' = t
  /\ Goto(t, "popRead")
  /\ UNCHANGED <<version, area, idx, queue, head, is_finish, localVars, pixelVars>>

\* pthread_mutex_trylock returns EBUSY: back to the loop condition.
LockBusy(t) ==
  /\ pc[t] = "lock"
  /\ version = pass_all
  /\ lock # NoOne
  /\ Goto(t, "testFinish")
  /\ UNCHANGED <<version, area, idx, poolVars, localVars, pixelVars>>

\* A plausible slip: pop does not test for the empty queue.
MutantPopRead(t) ==
  /\ pc[t] = "popRead"
  /\ task' = [task EXCEPT ![t] = head - 1]
  /\ Goto(t, "popWrite")
  /\ UNCHANGED <<version, area, idx, poolVars, chunk, at, pixelVars>>

\* The emptiness test and the load of --q->head.
PopRead(t) ==
  /\ pc[t] = "popRead"
  /\ IF head # 0
     THEN task' = [task EXCEPT ![t] = head - 1] /\ Goto(t, "popWrite")
     ELSE UNCHANGED task /\ Goto(t, "unlock")
  /\ UNCHANGED <<version, area, idx, poolVars, chunk, at, pixelVars>>

\* The store of --q->head.
PopWrite(t) ==
  /\ pc[t] = "popWrite"
  /\ head' = task[t]
  /\ Goto(t, "unlock")
  /\ UNCHANGED <<version, area, idx, queue, lock, is_finish, localVars, pixelVars>>

Unlock(t) ==
  /\ pc[t] = "unlock"
  /\ lock' = NoOne
  /\ Goto(t, IF task[t] # NoSlot THEN "call" ELSE "testFinish")
  /\ UNCHANGED <<version, area, idx, queue, head, is_finish, localVars, pixelVars>>

\* thread_task_func(task) dereferences the pointer, after the unlock.
Call(t) ==
  /\ pc[t] = "call"
  /\ chunk' = [chunk EXCEPT ![t] = queue[task[t]]]
  /\ at' = [at EXCEPT ![t] = queue[task[t]].ps]
  /\ Goto(t, "compute")
  /\ UNCHANGED <<version, area, idx, poolVars, task, pixelVars>>

-----------------------------------------------------------------------------
(* core_cal_sse2: two pixels at a time, then the odd one, then the picture. *)

EndOf(t)     == chunk[t].ps + chunk[t].size
VectorEnd(t) == chunk[t].ps + 2 * (chunk[t].size \div 2)

\* assign_x0s_y0s_sig (not in pass_all) and core_cal_sse2_sig on pixels i and i + 1
VectorPair(t) ==
  /\ pc[t] = "compute"
  /\ at[t] < VectorEnd(t)
  /\ x0s' = x0s \cup {at[t], at[t] + 1}
  /\ image' = [image EXCEPT ![at[t]] = "own", ![at[t] + 1] = "own"]
  /\ at' = [at EXCEPT ![t] = @ + 2]
  /\ UNCHANGED <<version, area, idx, poolVars, pc, task, chunk, raw_img>>

\* core_cal on the pixel that is left over: it reads x0s[i] and y0s[i], which
\* only the vector loop assigns.
ScalarRest(t) ==
  /\ pc[t] = "compute"
  /\ VectorEnd(t) <= at[t] /\ at[t] < EndOf(t)
  /\ image' = [image EXCEPT ![at[t]] =
                 IF at[t] \in x0s THEN "own" ELSE "junk"]
  /\ at' = [at EXCEPT ![t] = @ + 1]
  /\ UNCHANGED <<version, area, idx, poolVars, pc, task, chunk, x0s, raw_img>>

\* image_to_png, and back to the loop condition
ImageToPng(t) ==
  /\ pc[t] = "compute"
  /\ EndOf(t) <= at[t]
  /\ raw_img' = [p \in Pixels |-> IF chunk[t].ps <= p /\ p < EndOf(t)
                                  THEN image[p] ELSE raw_img[p]]
  /\ task' = [task EXCEPT ![t] = NoSlot]
  /\ Goto(t, "testFinish")
  /\ UNCHANGED <<version, area, idx, poolVars, chunk, at, x0s, image>>

-----------------------------------------------------------------------------
WorkerLoop(t) ==
  \/ TestFinish(t) \/ TestQueue(t)
  \/ Lock(t) \/ LockBusy(t) \/ PopRead(t) \/ PopWrite(t) \/ Unlock(t)
  \/ Call(t) \/ VectorPair(t) \/ ScalarRest(t) \/ ImageToPng(t)

MainThread ==
  \/ PushChunk \/ PushLast \/ CreateWorker \/ SetFinish
  \/ WorkerLoop(Main)
  \/ EndPool \/ WritePng

\* The process has returned from main.
Finished == pc[Main] = "done" /\ UNCHANGED vars

Next ==
  \/ MainThread
  \/ \E w \in Workers : WorkerLoop(w)
  \/ Finished

Spec == Init /\ [][Next]_vars

\* The operating system runs every thread: each takes steps as long as it can.
\* The mutex needs no more, not even where it is tried: it is contended only
\* while tasks are left.
Fairness == WF_vars(MainThread) /\ \A w \in Workers : WF_vars(WorkerLoop(w))
FairSpec == Spec /\ Fairness

-----------------------------------------------------------------------------
(* Properties.                                                             *)

Labels == {"unborn", "push", "create", "testFinish", "testQueue", "lock",
           "popRead", "popWrite", "unlock", "call", "compute", "join",
           "exited", "write", "done"}

TypeOK ==
  /\ version \in Versions
  /\ area \in Nat \ {0}
  /\ idx \in Nat
  /\ queue \in [0..(Capacity - 1) -> Task]
  /\ head \in 0..Capacity
  /\ lock \in Threads \cup {NoOne}
  /\ is_finish \in BOOLEAN
  /\ pc \in [Threads -> Labels]
  /\ task \in [Threads -> {NoSlot} \cup 0..(Capacity - 1)]
  /\ chunk \in [Threads -> Task]
  /\ at \in [Threads -> Nat]
  /\ x0s \subseteq Nat
  /\ image \in [Pixels -> Origin]
  /\ raw_img \in [Pixels -> Origin]

Covers(c, p) == c.ps <= p /\ p < c.ps + c.size

\* Thread t has pixel p still to finish: it is in the task it points at, or in
\* the chunk it computes.
Owns(t, p) ==
  \/ pc[t] \in {"unlock", "call"} /\ task[t] # NoSlot /\ Covers(queue[task[t]], p)
  \/ pc[t] = "compute" /\ Covers(chunk[t], p)

\* No pixel falls between the stools: at any moment it is still to be pushed,
\* or in a slot below head, or in the hands of a thread, or in the picture
\* (make_task, push, pop and the unlocked loop conditions together).
NoPixelLost ==
  \A p \in Pixels :
    \/ pc[Main] = "push" /\ idx <= p
    \/ \E k \in 0..(head - 1) : Covers(queue[k], p)
    \/ \E t \in Threads : Owns(t, p)
    \/ raw_img[p] # "unset"

\* Two threads never work on the same pixel, and no thread recomputes one
\* that another has finished: the pixels a thread still has to compute are
\* unset and belong to no other thread (pop under the lock).
Exclusive ==
  \A t \in Threads : pc[t] = "compute" =>
    /\ \A p \in at[t]..(EndOf(t) - 1) : image[p] = "unset"
    /\ \A u \in Threads \ {t} : pc[u] = "compute" =>
         \A p \in chunk[t].ps..(EndOf(t) - 1) : ~Covers(chunk[u], p)

\* The pointer pop() returned still points at the caller's task when it is
\* dereferenced after the unlock: its slot is above head, where only a push
\* could overwrite it, and no two threads point at one slot.
PointerStable ==
  \A t \in Threads : pc[t] = "call" =>
    /\ task[t] >= head
    /\ \A u \in Threads \ {t} : pc[u] \in {"unlock", "call"} => task[u] # task[t]

\* The threads share the pixels: a pop takes those of one task from the ones
\* that are queued or still to be pushed, and image_to_png is the end of them; a
\* worker leaves, on a condition read without the lock, only when nothing is
\* left, and the picture is written when all pixels are there.
Free ==
  {p \in Pixels : \/ pc[Main] = "push" /\ idx <= p
                  \/ \E k \in 0..(head - 1) : Covers(queue[k], p)}
Held == [t \in Threads |-> {p \in Pixels : Owns(t, p)}]
Computed == {p \in Pixels : raw_img[p] # "unset"}
Leavers == {t \in Threads : pc[t] = "exited" \/ pc[t] \in {"write", "done"}}
Written == pc[Main] = "done"

Work == INSTANCE SharedWork WITH Members <- Threads, free <- Free, held <- Held,
                                 computed <- Computed, left <- Leavers, written <- Written
SharesWork == Work!Spec

\* The 16-byte stores of assign_x0s_y0s_sig need an even pixel index, which
\* is why set_chunk_size makes the chunk even.
AlignedStores ==
  \A t \in Threads : pc[t] = "compute" /\ at[t] < VectorEnd(t) => at[t] % 2 = 0

\* When write_png runs every pixel was converted and no thread is still
\* writing to raw_img (end_pool joins all of them).
PictureComplete ==
  pc[Main] = "write" =>
    /\ \A p \in Pixels : raw_img[p] # "unset"
    /\ \A w \in Workers : pc[w] = "exited"

\* Only the last pixel, and only of a picture with an odd number of them, can
\* be computed from memory nobody wrote.
JunkOnlyLast ==
  \A p \in Pixels : image[p] = "junk" => p = area - 1 /\ area % 2 = 1

\* hw2seq.cc and the test script's comparison: every pixel is computed from
\* its own coordinates.  Refuted: see ScalarRest.
EveryPixelOwn ==
  pc[Main] = "done" => \A p \in Pixels : raw_img[p] = "own"

\* The program ends: no worker spins or waits for the mutex for ever.
Termination == <>(pc[Main] = "done")
=============================================================================
