-------------------------- MODULE ThreadPoolProofs --------------------------
(***************************************************************************)
(* Theorems about ThreadPool, for every number of tasks and workers, every *)
(* number of rounds and every user of the pool: the list is touched by one *)
(* thread at a time, stays intact and implements a first in, first out     *)
(* queue; every task is run once, no worker leaves while it could be       *)
(* needed, and the pictures are made of the pixels' own coordinates.       *)
(***************************************************************************)
EXTENDS ThreadPool, Lemmas, SequenceTheorems, TLAPS

\* Where a thread holds the mutex
MainHolds == {"push", "unlock"}
WorkerHolds == {"pop", "popEnd", "unlock"}

MainPlaces == {"caller", "lock", "push", "unlock", "join", "ended", "done"}
WorkerPlaces == {"unborn", "testDone", "testEmpty", "try", "pop", "popEnd", "unlock", "run",
                 "store", "exited"}
PcInv ==
  /\ pc \in [Threads -> MainPlaces \cup WorkerPlaces]
  /\ pc[Main] \in MainPlaces
  /\ \A w \in Workers : pc[w] \in WorkerPlaces

\* The mutex has the owner who is between lock and unlock.
MutexInv ==
  /\ pc[Main] \in MainHolds <=> lock = Main
  /\ \A w \in Workers : pc[w] \in WorkerHolds <=> lock = w

\* A worker runs only in a pool that was started, and before end_pool returns;
\* so start_pool and resest_pool find none of them holding the mutex.
AliveInv ==
  \A w \in Workers : pc[w] \notin {"unborn", "exited"} =>
    started /\ pc[Main] \notin {"ended", "done"}

\* is_submit_done is never withdrawn from a worker that has seen it.
DoneInv ==
  /\ is_submit_done => next = NumTasks /\ pc[Main] \notin {"lock", "push", "unlock"}
  /\ \A w \in Workers : pc[w] = "testEmpty" => is_submit_done

\* Main is none of the workers, and nobody is NoOne.
LEMMA ThreadsDiffer ==
  /\ Main \notin Workers /\ Main # NoOne /\ NoOne \notin Workers
  /\ Main \in Threads /\ Workers \subseteq Threads
BY SizesAssumption DEF Main, Workers, NoOne, Threads

\* The owner of the mutex is a thread, or nobody.
LockInv == lock \in Threads \cup {NoOne}

IInv == PcInv /\ LockInv /\ MutexInv /\ AliveInv /\ DoneInv

LEMMA IInvInit == Init => IInv
<1> SUFFICES ASSUME Init PROVE IInv
  OBVIOUS
<1>1. PcInv
  BY ThreadsDiffer DEF Init, PcInv, MainPlaces, WorkerPlaces
<1>2. MutexInv
  BY ThreadsDiffer DEF Init, MutexInv, MainHolds, WorkerHolds
<1>3. AliveInv
  BY ThreadsDiffer DEF Init, AliveInv
<1>4. DoneInv
  BY ThreadsDiffer DEF Init, DoneInv
<1>5. LockInv
  BY DEF Init, LockInv
<1>6. QED
  BY <1>1, <1>2, <1>3, <1>4, <1>5 DEF IInv

\* A step of the submitter
LEMMA SubmitterInv == IInv /\ Submitter => IInv'
<1> SUFFICES ASSUME IInv, Submitter PROVE IInv'
  OBVIOUS
<1> USE DEF IInv, PcInv, MainPlaces, WorkerPlaces, LockInv, MutexInv, AliveInv, DoneInv, MainHolds, WorkerHolds
<1>1. CASE Submit
  BY <1>1, ThreadsDiffer DEF Submit, Goto, flagVars
<1>2. CASE SubmitLock
  BY <1>2, ThreadsDiffer DEF SubmitLock, Goto, flagVars, mainVars
<1>3. CASE SubmitPush
  BY <1>3, ThreadsDiffer DEF SubmitPush, Goto, flagVars, mainVars
<1>4. CASE SubmitUnlock
  BY <1>4, ThreadsDiffer DEF SubmitUnlock, Goto, flagVars, mainVars
<1>5. CASE StartPool
  BY <1>5, ThreadsDiffer DEF StartPool, Started, flagVars
<1>6. CASE SubmitDone
  BY <1>6, ThreadsDiffer DEF SubmitDone, mainVars
<1>7. CASE EndPool
  BY <1>7, ThreadsDiffer DEF EndPool, Goto, flagVars, mainVars
<1>8. CASE Joined
  BY <1>8, ThreadsDiffer DEF Joined, Goto, mainVars
<1>9. CASE ResetPool
  BY <1>9, ThreadsDiffer DEF ResetPool, Goto
<1>10. CASE FreePool
  BY <1>10, ThreadsDiffer DEF FreePool, Goto, mainVars
<1>11. CASE WritePicture
  BY <1>11, ThreadsDiffer DEF WritePicture, Goto, flagVars, mainVars
<1>12. QED
  BY <1>1, <1>2, <1>3, <1>4, <1>5, <1>6, <1>7, <1>8, <1>9, <1>10, <1>11, ThreadsDiffer DEF Submitter

\* A step of a worker
LEMMA WorkerInv == ASSUME NEW w \in Workers, IInv, Worker(w) PROVE IInv'
<1> USE DEF IInv, PcInv, MainPlaces, WorkerPlaces, LockInv, MutexInv, AliveInv, DoneInv, MainHolds, WorkerHolds
<1>1. CASE TestDone(w)
  BY <1>1, ThreadsDiffer DEF TestDone, Goto, flagVars, mainVars
<1>2. CASE TestEmpty(w)
  BY <1>2, ThreadsDiffer DEF TestEmpty, Goto, flagVars, mainVars
<1>3. CASE TryLock(w)
  BY <1>3, ThreadsDiffer DEF TryLock, Goto, flagVars, mainVars
<1>4. CASE GetTask(w)
  BY <1>4, ThreadsDiffer DEF GetTask, Goto, flagVars, mainVars
<1>5. CASE GotTask(w)
  BY <1>5, ThreadsDiffer DEF GotTask, Goto, flagVars, mainVars
<1>6. CASE Unlock(w)
  BY <1>6, ThreadsDiffer DEF Unlock, Goto, flagVars, mainVars
<1>7. CASE Run(w)
  BY <1>7, ThreadsDiffer DEF Run, Goto, flagVars, mainVars
<1>8. CASE ReadPair(w)
  BY <1>8, ThreadsDiffer DEF ReadPair, Goto, flagVars, mainVars
<1>9. CASE StorePair(w)
  BY <1>9, ThreadsDiffer DEF StorePair, Goto, flagVars, mainVars
<1>10. QED
  BY <1>1, <1>2, <1>3, <1>4, <1>5, <1>6, <1>7, <1>8, <1>9, ThreadsDiffer DEF Worker

LEMMA IInvNext == IInv /\ [Next]_vars => IInv'
<1> SUFFICES ASSUME IInv, [Next]_vars PROVE IInv'
  OBVIOUS
<1>1. CASE Submitter
  BY <1>1, SubmitterInv
<1>2. ASSUME NEW w \in Workers, Worker(w) PROVE IInv'
  BY <1>2, WorkerInv
<1>3. CASE UNCHANGED vars
  BY <1>3 DEF vars, flagVars, mainVars, IInv, PcInv, LockInv, MutexInv, AliveInv, DoneInv
<1>4. QED
  BY <1>1, <1>2, <1>3 DEF Next, Finished

\* The invariant that the theorems below follow from.
LEMMA SpecIInv == Spec => []IInv
BY IInvInit, IInvNext, PTL DEF Spec

\* Two threads inside push or pop would both own the mutex.
LEMMA IInvExclusive == IInv => QueueExclusive
BY ThreadsDiffer DEF IInv, PcInv, MainPlaces, WorkerPlaces, MutexInv, MainHolds, WorkerHolds,
  QueueExclusive, Threads

\* However many workers poll with pthread_mutex_trylock while the submitter
\* waits in pthread_mutex_lock, start_pool and resest_pool included: push and
\* pop of thread_pool.c are never inside the list at the same time.
THEOREM PoolExclusive == Spec => []QueueExclusive
BY SpecIInv, IInvExclusive, PTL

\* The step by which a worker leaves
LEMMA LeaveStep ==
  ASSUME IInv, [Next]_vars
  PROVE  \A w \in Workers : pc[w] # "exited" /\ pc'[w] = "exited" =>
           next = NumTasks /\ is_q_empty /\ pc[Main] \in {"caller", "join"}
<1> SUFFICES ASSUME NEW w \in Workers, pc[w] # "exited", pc'[w] = "exited"
             PROVE  next = NumTasks /\ is_q_empty /\ pc[Main] \in {"caller", "join"}
  OBVIOUS
<1>1. pc' # pc
  OBVIOUS
<1>2. ~Submitter
  BY ThreadsDiffer DEF IInv, PcInv, Submitter, Submit, SubmitLock, SubmitPush, SubmitUnlock,
    StartPool, Started, SubmitDone, EndPool, Joined, ResetPool, FreePool, WritePicture, Goto
<1>3. PICK u \in Workers : Worker(u)
  BY <1>1, <1>2 DEF Next, Finished, vars
<1>4. TestEmpty(u) /\ u = w /\ is_q_empty
  BY <1>3, ThreadsDiffer DEF IInv, PcInv, Worker, TestDone, TestEmpty, TryLock, GetTask, GotTask,
    Unlock, Run, ReadPair, StorePair, Goto
<1>5. pc[w] = "testEmpty"
  BY <1>4 DEF TestEmpty
<1>6. QED
  BY <1>4, <1>5 DEF IInv, PcInv, MainPlaces, AliveInv, DoneInv

\* A worker's loop in thread_pool.c reads is_submit_done and then the queue,
\* without the lock: when it ends, the caller has nothing more to submit and
\* the queue is empty, whatever the others do between the two reads.
THEOREM PoolLeave == Spec => LeaveOnlyWhenDone
<1>1. IInv /\ [Next]_vars =>
        [\A w \in Workers : pc[w] # "exited" /\ pc'[w] = "exited" =>
           next = NumTasks /\ is_q_empty /\ pc[Main] \in {"caller", "join"}]_vars
  BY LeaveStep
<1>2. QED
  BY <1>1, SpecIInv, PTL DEF Spec, LeaveOnlyWhenDone

-----------------------------------------------------------------------------
(* The tasks are numbered in the order of submission, so that the queue is *)
(* always lo..hi for two tasks lo and hi; with that the list needs no      *)
(* recursion to be described.                                              *)

\* The last task of this round that is in the queue, or was
Pushed == IF pc[Main] \in {"lock", "push"} THEN next - 1 ELSE next

\* The nodes between head and tail
Items == live \ {tail, op.node}

Ops == [kind : {"idle", "push", "pop"}, node : Nodes \cup {NULL}, temp : Nodes \cup {NULL}]

HeapInv ==
  /\ node \in [Nodes -> Node] /\ live \subseteq Nodes /\ tail \in live
  /\ op \in Ops

\* What the submitter has done
MainInv ==
  /\ client \in Clients /\ queue_live \in BOOLEAN /\ is_finish \in BOOLEAN
  /\ next \in 0..NumTasks /\ started \in BOOLEAN /\ is_submit_done \in BOOLEAN
  /\ round \in 1..(Rounds + 1)
  /\ pc[Main] \in {"lock", "push"} => next > 0 /\ task[Main] = next
  /\ started \/ next > 0 => round <= Rounds
  /\ pc[Main] \in {"join", "ended", "done"} => started /\ is_submit_done

\* Inside push or pop
OpInv ==
  /\ op.kind = "idle" => op = Idle
  /\ op.kind = "pop" <=> \E w \in Workers : pc[w] = "popEnd"
  /\ op.kind = "push" =>
       /\ pc[Main] = "push"
       /\ op.node \in live \ {tail}
       /\ node[op.node].prev = tail /\ node[op.node].data = Pushed + 1
       /\ node[tail].next = op.node
       /\ head # tail => op.temp \in Items /\ node[op.temp].data = Pushed
  /\ op.kind = "pop" =>
       /\ op.node \in live \ {tail}
       /\ head # tail => node[head].data > 1

\* From head to tail along prev: consecutive tasks, the last one that of Pushed
ListInv ==
  /\ head \in Items \cup {tail}
  /\ head = tail => Items = {}
  /\ \A a \in Items : node[a].data \in node[head].data..Pushed /\ node[a].data > 0
  /\ \A a, b \in Items : node[a].data = node[b].data => a = b
  /\ \A a \in Items :
       \/ node[a].prev = tail /\ node[a].data = Pushed
       \/ node[a].prev \in Items /\ node[node[a].prev].data = node[a].data + 1
  /\ head # tail /\ op.kind # "push" =>
       node[tail].next \in Items /\ node[node[tail].next].data = Pushed

SizeInv ==
  size = (IF head = tail THEN 0 ELSE Pushed - node[head].data + 1)
         + (IF op.kind = "idle" THEN 0 ELSE 1)

\* A worker has a task that it has not begun to run.
Holding(w) == pc[w] \in {"popEnd", "unlock", "run"} /\ task[w] # NULL

\* A task is in the queue, or with one worker, or nowhere.
HandInv ==
  /\ task \in [Threads -> Tasks \cup {NULL}]
  /\ \A w \in Workers :
       /\ pc[w] \in {"unborn", "testDone", "testEmpty", "try", "pop", "exited"} => task[w] = NULL
       /\ pc[w] \in {"popEnd", "run", "store"} => task[w] # NULL
       /\ Holding(w) => task[w] <= Pushed
       /\ Holding(w) => \A a \in Items : node[a].data # task[w]
  /\ \A v, w \in Workers : v # w /\ Holding(v) /\ Holding(w) => task[v] # task[w]

\* The tasks of this round that were not run
Waiting(i) ==
  \/ i > Pushed
  \/ \E a \in Items : node[a].data = i
  \/ \E w \in Workers : Holding(w) /\ task[w] = i

CountInv ==
  /\ res \in [Tasks -> Int]
  /\ \A i \in Tasks : res[i] = IF Waiting(i) THEN round - 1 ELSE round

\* In a pool that was started, a worker that left saw the queue empty after the
\* last task; nobody fills it again.
ExitInv ==
  started => \A w \in Workers :
    pc[w] # "unborn" /\ (pc[w] = "exited" => is_submit_done /\ head = tail)

\* What the workers do for a picture
ResultInv ==
  /\ coords \in 0..NumTasks
  /\ image \in [Tasks -> {"unset", "own", "junk"}]
  /\ DOMAIN result = Workers
  /\ \A w \in Workers :
       IF pc[w] = "store" THEN result[w] \in [TaskPixels(w) -> {"own", "junk"}]
       ELSE DOMAIN result[w] = {}

TInv == HeapInv /\ MainInv /\ OpInv /\ ListInv /\ SizeInv /\ HandInv /\ CountInv /\ ExitInv /\ ResultInv


LEMMA Constants ==
  /\ Data = Tasks /\ NULL \notin Nodes /\ tail \in Nodes /\ tail # NULL /\ NULL \notin Tasks
  /\ NumTasks \in Nat /\ Rounds \in Nat
  /\ Tasks = 1..NumTasks
BY QueueAssumption, SizesAssumption DEF tail, Tasks, NULL, Dummy

LEMMA TInvInit == Init => TInv
<1> SUFFICES ASSUME Init PROVE TInv
  OBVIOUS
<1>1. Items = {} /\ Pushed = 0
  BY ThreadsDiffer DEF Init, QueueInit, Items, Pushed, tail
<1>2. HeapInv
  BY Constants DEF Init, QueueInit, HeapInv, Node, NullNode, Ops, Idle, tail, Dummy
<1>3. MainInv
  <2>1. pc[Main] = "caller"
    BY ThreadsDiffer DEF Init
  <2>2. is_submit_done \in BOOLEAN /\ is_finish \in BOOLEAN /\ queue_live \in BOOLEAN /\ started \in BOOLEAN
    BY DEF Init
  <2>3. next = 0 /\ round = 1 /\ started = FALSE /\ client \in Clients
    BY DEF Init
  <2>4. QED
    BY <2>1, <2>2, <2>3, Constants DEF MainInv
<1>4. OpInv
  BY ThreadsDiffer DEF Init, QueueInit, OpInv, Idle
<1>5. ListInv
  BY <1>1 DEF Init, QueueInit, ListInv, tail
<1>6. SizeInv
  BY <1>1 DEF Init, QueueInit, SizeInv, tail, Idle
<1>7. HandInv
  BY Constants, ThreadsDiffer DEF Init, HandInv, Holding
<1>8. CountInv
  <2>1. \A i \in Tasks : i > Pushed
    BY <1>1, Constants
  <2>2. QED
    BY <2>1 DEF Init, CountInv, Waiting
<1>9. ExitInv
  BY DEF Init, ExitInv
<1>10. ResultInv
  BY Constants, ThreadsDiffer DEF Init, ResultInv
<1>11. QED
  BY <1>2, <1>3, <1>4, <1>5, <1>6, <1>7, <1>8, <1>9, <1>10 DEF TInv

\* Steps that leave the list alone
LEMMA ListKept ==
  ASSUME TInv, UNCHANGED queueVars, Pushed' = Pushed
  PROVE  HeapInv' /\ ListInv' /\ SizeInv' /\ Items' = Items
BY DEF TInv, queueVars, HeapInv, ListInv, SizeInv, Items, tail


\* Steps in which no task is run or passed on
LEMMA CountKept ==
  ASSUME TInv, UNCHANGED <<queueVars, res, round>>, Pushed' = Pushed,
         \A w \in Workers : (Holding(w)' <=> Holding(w)) /\ (Holding(w) => task'[w] = task[w])
  PROVE  CountInv'
<1>1. Items' = Items /\ node' = node
  BY ListKept DEF queueVars
<1>2. \A i \in Tasks : Waiting(i)' <=> Waiting(i)
  BY <1>1 DEF Waiting
<1>3. QED
  BY <1>2 DEF TInv, CountInv

\* A step in which worker w runs its task
LEMMA CountRun ==
  ASSUME TInv, NEW w \in Workers, UNCHANGED <<queueVars, round>>, Pushed' = Pushed,
         pc[w] = "run", ~Holding(w)', res' = [res EXCEPT ![task[w]] = @ + 1],
         \A v \in Workers \ {w} : (Holding(v)' <=> Holding(v)) /\ task'[v] = task[v]
  PROVE  CountInv'
<1>1. Items' = Items /\ node' = node
  BY ListKept DEF queueVars
<1>2. task[w] \in Tasks /\ Holding(w)
  BY ThreadsDiffer DEF TInv, HandInv, Holding
<1>3. Pushed \in Int
  BY DEF Pushed, TInv, MainInv
<1>4. ASSUME NEW i \in Tasks, i # task[w] PROVE Waiting(i)' <=> Waiting(i)
  BY <1>1, <1>4 DEF Waiting
<1>5. ASSUME NEW i \in Tasks, i = task[w] PROVE Waiting(i) /\ ~Waiting(i)'
  <2>1. Waiting(i)
    BY <1>2, <1>5 DEF Waiting
  <2>2. ~(i > Pushed') /\ ~\E a \in Items' : node'[a].data = i
    BY <1>1, <1>2, <1>3, <1>5, Constants DEF TInv, HandInv
  <2>3. ~\E v \in Workers : Holding(v)' /\ task'[v] = i
    BY <1>2, <1>5 DEF TInv, HandInv
  <2>4. QED
    BY <2>1, <2>2, <2>3 DEF Waiting
<1>6. QED
  BY <1>2, <1>4, <1>5 DEF TInv, CountInv, MainInv


LEMMA SubmitStep == ASSUME IInv, TInv, Submit PROVE TInv'
<1> USE DEF IInv, TInv, PcInv, MainPlaces, WorkerPlaces
<1>1. UNCHANGED queueVars /\ Pushed' = Pushed
  BY ThreadsDiffer DEF Submit, Goto, flagVars, mainVars, pictureVars, queueVars, Pushed, MainInv
<1>2. HeapInv' /\ ListInv' /\ SizeInv' /\ Items' = Items
  BY <1>1, ListKept
<1>3. MainInv'
  BY ThreadsDiffer, Constants DEF Submit, Goto, flagVars, mainVars, pictureVars, queueVars, MainInv, HandInv
<1>4. OpInv'
  BY <1>1, <1>2, ThreadsDiffer DEF Submit, Goto, flagVars, mainVars, pictureVars, queueVars, OpInv, tail, AliveInv
<1>5. HandInv'
  BY <1>1, <1>2, ThreadsDiffer, Constants DEF Submit, Goto, flagVars, mainVars, pictureVars, queueVars, HandInv, Holding, MainInv, AliveInv
<1>6. CountInv'
  <2>1. \A v \in Workers : (Holding(v)' <=> Holding(v)) /\ (Holding(v) => task'[v] = task[v])
    BY ThreadsDiffer DEF Submit, Goto, flagVars, mainVars, pictureVars, queueVars, Holding, HandInv, AliveInv
  <2>2. QED
    BY <1>1, <2>1, CountKept DEF Submit, Goto, flagVars, mainVars, pictureVars, queueVars
<1>7. ExitInv'
  BY ThreadsDiffer DEF Submit, Goto, flagVars, mainVars, pictureVars, queueVars, ExitInv, DoneInv, tail, is_q_empty
<1>8. ResultInv'
  <2>1. coords' \in 0..NumTasks
    BY Constants DEF Submit, Goto, flagVars, mainVars, pictureVars, queueVars, MainInv, ResultInv
  <2>2. QED
    BY <2>1, ThreadsDiffer DEF Submit, Goto, flagVars, mainVars, pictureVars, queueVars, ResultInv, TaskPixels, HandInv
<1>9. QED
  BY <1>2, <1>3, <1>4, <1>5, <1>6, <1>7, <1>8

LEMMA SubmitLockStep == ASSUME IInv, TInv, SubmitLock PROVE TInv'
<1> USE DEF IInv, TInv, PcInv, MainPlaces, WorkerPlaces
<1>1. UNCHANGED queueVars /\ Pushed' = Pushed
  BY ThreadsDiffer DEF SubmitLock, Goto, flagVars, mainVars, pictureVars, queueVars, Pushed, MainInv
<1>2. HeapInv' /\ ListInv' /\ SizeInv' /\ Items' = Items
  BY <1>1, ListKept
<1>3. MainInv'
  BY ThreadsDiffer, Constants DEF SubmitLock, Goto, flagVars, mainVars, pictureVars, queueVars, MainInv, HandInv
<1>4. OpInv'
  BY <1>1, <1>2, ThreadsDiffer DEF SubmitLock, Goto, flagVars, mainVars, pictureVars, queueVars, OpInv, tail, AliveInv
<1>5. HandInv'
  BY <1>1, <1>2, ThreadsDiffer, Constants DEF SubmitLock, Goto, flagVars, mainVars, pictureVars, queueVars, HandInv, Holding, MainInv, AliveInv
<1>6. CountInv'
  <2>1. \A v \in Workers : (Holding(v)' <=> Holding(v)) /\ (Holding(v) => task'[v] = task[v])
    BY ThreadsDiffer DEF SubmitLock, Goto, flagVars, mainVars, pictureVars, queueVars, Holding, HandInv, AliveInv
  <2>2. QED
    BY <1>1, <2>1, CountKept DEF SubmitLock, Goto, flagVars, mainVars, pictureVars, queueVars
<1>7. ExitInv'
  BY ThreadsDiffer DEF SubmitLock, Goto, flagVars, mainVars, pictureVars, queueVars, ExitInv, DoneInv, tail, is_q_empty
<1>8. ResultInv'
  BY ThreadsDiffer, Constants DEF SubmitLock, Goto, flagVars, mainVars, pictureVars, queueVars, ResultInv, TaskPixels, HandInv, AliveInv
<1>9. QED
  BY <1>2, <1>3, <1>4, <1>5, <1>6, <1>7, <1>8

LEMMA SubmitUnlockStep == ASSUME IInv, TInv, SubmitUnlock PROVE TInv'
<1> USE DEF IInv, TInv, PcInv, MainPlaces, WorkerPlaces
<1>1. UNCHANGED queueVars /\ Pushed' = Pushed
  BY ThreadsDiffer DEF SubmitUnlock, Goto, flagVars, mainVars, pictureVars, queueVars, Pushed, MainInv
<1>2. HeapInv' /\ ListInv' /\ SizeInv' /\ Items' = Items
  BY <1>1, ListKept
<1>3. MainInv'
  BY ThreadsDiffer, Constants DEF SubmitUnlock, Goto, flagVars, mainVars, pictureVars, queueVars, MainInv, HandInv
<1>4. OpInv'
  BY <1>1, <1>2, ThreadsDiffer DEF SubmitUnlock, Goto, flagVars, mainVars, pictureVars, queueVars, OpInv, tail, AliveInv
<1>5. HandInv'
  BY <1>1, <1>2, ThreadsDiffer, Constants DEF SubmitUnlock, Goto, flagVars, mainVars, pictureVars, queueVars, HandInv, Holding, MainInv, AliveInv
<1>6. CountInv'
  <2>1. \A v \in Workers : (Holding(v)' <=> Holding(v)) /\ (Holding(v) => task'[v] = task[v])
    BY ThreadsDiffer DEF SubmitUnlock, Goto, flagVars, mainVars, pictureVars, queueVars, Holding, HandInv, AliveInv
  <2>2. QED
    BY <1>1, <2>1, CountKept DEF SubmitUnlock, Goto, flagVars, mainVars, pictureVars, queueVars
<1>7. ExitInv'
  BY ThreadsDiffer DEF SubmitUnlock, Goto, flagVars, mainVars, pictureVars, queueVars, ExitInv, DoneInv, tail, is_q_empty
<1>8. ResultInv'
  BY ThreadsDiffer, Constants DEF SubmitUnlock, Goto, flagVars, mainVars, pictureVars, queueVars, ResultInv, TaskPixels, HandInv, AliveInv
<1>9. QED
  BY <1>2, <1>3, <1>4, <1>5, <1>6, <1>7, <1>8

LEMMA StartPoolStep == ASSUME IInv, TInv, StartPool PROVE TInv'
<1> USE DEF IInv, TInv, PcInv, MainPlaces, WorkerPlaces
<1>1. UNCHANGED queueVars /\ Pushed' = Pushed
  BY ThreadsDiffer DEF StartPool, Goto, flagVars, mainVars, pictureVars, queueVars, Started, Pushed, MainInv
<1>2. HeapInv' /\ ListInv' /\ SizeInv' /\ Items' = Items
  BY <1>1, ListKept
<1>3. MainInv'
  BY ThreadsDiffer, Constants DEF StartPool, Goto, flagVars, mainVars, pictureVars, queueVars, Started, MainInv, HandInv
<1>4. OpInv'
  BY <1>1, <1>2, ThreadsDiffer DEF StartPool, Goto, flagVars, mainVars, pictureVars, queueVars, Started, OpInv, tail, AliveInv
<1>5. HandInv'
  BY <1>1, <1>2, ThreadsDiffer, Constants DEF StartPool, Goto, flagVars, mainVars, pictureVars, queueVars, Started, HandInv, Holding, MainInv, AliveInv
<1>6. CountInv'
  <2>1. \A v \in Workers : (Holding(v)' <=> Holding(v)) /\ (Holding(v) => task'[v] = task[v])
    BY ThreadsDiffer DEF StartPool, Goto, flagVars, mainVars, pictureVars, queueVars, Started, Holding, HandInv, AliveInv
  <2>2. QED
    BY <1>1, <2>1, CountKept DEF StartPool, Goto, flagVars, mainVars, pictureVars, queueVars, Started
<1>7. ExitInv'
  BY ThreadsDiffer DEF StartPool, Goto, flagVars, mainVars, pictureVars, queueVars, Started, ExitInv, DoneInv, tail, is_q_empty
<1>8. ResultInv'
  <2>1. coords' \in 0..NumTasks
    BY Constants, ClientAssumption DEF StartPool, Goto, flagVars, mainVars, pictureVars, queueVars, Started, MainInv, ResultInv
  <2>2. QED
    BY <2>1, ThreadsDiffer DEF StartPool, Goto, flagVars, mainVars, pictureVars, queueVars, Started, ResultInv, TaskPixels, HandInv, AliveInv
<1>9. QED
  BY <1>2, <1>3, <1>4, <1>5, <1>6, <1>7, <1>8

LEMMA SubmitDoneStep == ASSUME IInv, TInv, SubmitDone PROVE TInv'
<1> USE DEF IInv, TInv, PcInv, MainPlaces, WorkerPlaces
<1>1. UNCHANGED queueVars /\ Pushed' = Pushed
  BY ThreadsDiffer DEF SubmitDone, Goto, flagVars, mainVars, pictureVars, queueVars, Pushed, MainInv
<1>2. HeapInv' /\ ListInv' /\ SizeInv' /\ Items' = Items
  BY <1>1, ListKept
<1>3. MainInv'
  BY ThreadsDiffer, Constants DEF SubmitDone, Goto, flagVars, mainVars, pictureVars, queueVars, MainInv, HandInv
<1>4. OpInv'
  BY <1>1, <1>2, ThreadsDiffer DEF SubmitDone, Goto, flagVars, mainVars, pictureVars, queueVars, OpInv, tail, AliveInv
<1>5. HandInv'
  BY <1>1, <1>2, ThreadsDiffer, Constants DEF SubmitDone, Goto, flagVars, mainVars, pictureVars, queueVars, HandInv, Holding, MainInv, AliveInv
<1>6. CountInv'
  <2>1. \A v \in Workers : (Holding(v)' <=> Holding(v)) /\ (Holding(v) => task'[v] = task[v])
    BY ThreadsDiffer DEF SubmitDone, Goto, flagVars, mainVars, pictureVars, queueVars, Holding, HandInv, AliveInv
  <2>2. QED
    BY <1>1, <2>1, CountKept DEF SubmitDone, Goto, flagVars, mainVars, pictureVars, queueVars
<1>7. ExitInv'
  BY ThreadsDiffer DEF SubmitDone, Goto, flagVars, mainVars, pictureVars, queueVars, ExitInv, DoneInv, tail, is_q_empty
<1>8. ResultInv'
  BY ThreadsDiffer, Constants DEF SubmitDone, Goto, flagVars, mainVars, pictureVars, queueVars, ResultInv, TaskPixels, HandInv, AliveInv
<1>9. QED
  BY <1>2, <1>3, <1>4, <1>5, <1>6, <1>7, <1>8

LEMMA EndPoolStep == ASSUME IInv, TInv, EndPool PROVE TInv'
<1> USE DEF IInv, TInv, PcInv, MainPlaces, WorkerPlaces
<1>1. UNCHANGED queueVars /\ Pushed' = Pushed
  BY ThreadsDiffer DEF EndPool, Goto, flagVars, mainVars, pictureVars, queueVars, Pushed, MainInv
<1>2. HeapInv' /\ ListInv' /\ SizeInv' /\ Items' = Items
  BY <1>1, ListKept
<1>3. MainInv'
  BY ThreadsDiffer, Constants DEF EndPool, Goto, flagVars, mainVars, pictureVars, queueVars, MainInv, HandInv
<1>4. OpInv'
  BY <1>1, <1>2, ThreadsDiffer DEF EndPool, Goto, flagVars, mainVars, pictureVars, queueVars, OpInv, tail, AliveInv
<1>5. HandInv'
  BY <1>1, <1>2, ThreadsDiffer, Constants DEF EndPool, Goto, flagVars, mainVars, pictureVars, queueVars, HandInv, Holding, MainInv, AliveInv
<1>6. CountInv'
  <2>1. \A v \in Workers : (Holding(v)' <=> Holding(v)) /\ (Holding(v) => task'[v] = task[v])
    BY ThreadsDiffer DEF EndPool, Goto, flagVars, mainVars, pictureVars, queueVars, Holding, HandInv, AliveInv
  <2>2. QED
    BY <1>1, <2>1, CountKept DEF EndPool, Goto, flagVars, mainVars, pictureVars, queueVars
<1>7. ExitInv'
  BY ThreadsDiffer DEF EndPool, Goto, flagVars, mainVars, pictureVars, queueVars, ExitInv, DoneInv, tail, is_q_empty
<1>8. ResultInv'
  BY ThreadsDiffer, Constants DEF EndPool, Goto, flagVars, mainVars, pictureVars, queueVars, ResultInv, TaskPixels, HandInv, AliveInv
<1>9. QED
  BY <1>2, <1>3, <1>4, <1>5, <1>6, <1>7, <1>8

LEMMA JoinedStep == ASSUME IInv, TInv, Joined PROVE TInv'
<1> USE DEF IInv, TInv, PcInv, MainPlaces, WorkerPlaces
<1>1. UNCHANGED queueVars /\ Pushed' = Pushed
  BY ThreadsDiffer DEF Joined, Goto, flagVars, mainVars, pictureVars, queueVars, Pushed, MainInv
<1>2. HeapInv' /\ ListInv' /\ SizeInv' /\ Items' = Items
  BY <1>1, ListKept
<1>3. MainInv'
  BY ThreadsDiffer, Constants DEF Joined, Goto, flagVars, mainVars, pictureVars, queueVars, MainInv, HandInv
<1>4. OpInv'
  BY <1>1, <1>2, ThreadsDiffer DEF Joined, Goto, flagVars, mainVars, pictureVars, queueVars, OpInv, tail, AliveInv
<1>5. HandInv'
  BY <1>1, <1>2, ThreadsDiffer, Constants DEF Joined, Goto, flagVars, mainVars, pictureVars, queueVars, HandInv, Holding, MainInv, AliveInv
<1>6. CountInv'
  <2>1. \A v \in Workers : (Holding(v)' <=> Holding(v)) /\ (Holding(v) => task'[v] = task[v])
    BY ThreadsDiffer DEF Joined, Goto, flagVars, mainVars, pictureVars, queueVars, Holding, HandInv, AliveInv
  <2>2. QED
    BY <1>1, <2>1, CountKept DEF Joined, Goto, flagVars, mainVars, pictureVars, queueVars
<1>7. ExitInv'
  BY ThreadsDiffer DEF Joined, Goto, flagVars, mainVars, pictureVars, queueVars, ExitInv, DoneInv, tail, is_q_empty
<1>8. ResultInv'
  BY ThreadsDiffer, Constants DEF Joined, Goto, flagVars, mainVars, pictureVars, queueVars, ResultInv, TaskPixels, HandInv, AliveInv
<1>9. QED
  BY <1>2, <1>3, <1>4, <1>5, <1>6, <1>7, <1>8

LEMMA FreePoolStep == ASSUME IInv, TInv, FreePool PROVE TInv'
<1> USE DEF IInv, TInv, PcInv, MainPlaces, WorkerPlaces
<1>1. UNCHANGED queueVars /\ Pushed' = Pushed
  BY ThreadsDiffer DEF FreePool, Goto, flagVars, mainVars, pictureVars, queueVars, Pushed, MainInv
<1>2. HeapInv' /\ ListInv' /\ SizeInv' /\ Items' = Items
  BY <1>1, ListKept
<1>3. MainInv'
  BY ThreadsDiffer, Constants DEF FreePool, Goto, flagVars, mainVars, pictureVars, queueVars, MainInv, HandInv
<1>4. OpInv'
  BY <1>1, <1>2, ThreadsDiffer DEF FreePool, Goto, flagVars, mainVars, pictureVars, queueVars, OpInv, tail, AliveInv
<1>5. HandInv'
  BY <1>1, <1>2, ThreadsDiffer, Constants DEF FreePool, Goto, flagVars, mainVars, pictureVars, queueVars, HandInv, Holding, MainInv, AliveInv
<1>6. CountInv'
  <2>1. \A v \in Workers : (Holding(v)' <=> Holding(v)) /\ (Holding(v) => task'[v] = task[v])
    BY ThreadsDiffer DEF FreePool, Goto, flagVars, mainVars, pictureVars, queueVars, Holding, HandInv, AliveInv
  <2>2. QED
    BY <1>1, <2>1, CountKept DEF FreePool, Goto, flagVars, mainVars, pictureVars, queueVars
<1>7. ExitInv'
  BY ThreadsDiffer DEF FreePool, Goto, flagVars, mainVars, pictureVars, queueVars, ExitInv, DoneInv, tail, is_q_empty
<1>8. ResultInv'
  BY ThreadsDiffer, Constants DEF FreePool, Goto, flagVars, mainVars, pictureVars, queueVars, ResultInv, TaskPixels, HandInv, AliveInv
<1>9. QED
  BY <1>2, <1>3, <1>4, <1>5, <1>6, <1>7, <1>8

LEMMA WritePictureStep == ASSUME IInv, TInv, WritePicture PROVE TInv'
<1> USE DEF IInv, TInv, PcInv, MainPlaces, WorkerPlaces
<1>1. UNCHANGED queueVars /\ Pushed' = Pushed
  BY ThreadsDiffer DEF WritePicture, Goto, flagVars, mainVars, pictureVars, queueVars, Pushed, MainInv
<1>2. HeapInv' /\ ListInv' /\ SizeInv' /\ Items' = Items
  BY <1>1, ListKept
<1>3. MainInv'
  BY ThreadsDiffer, Constants DEF WritePicture, Goto, flagVars, mainVars, pictureVars, queueVars, MainInv, HandInv
<1>4. OpInv'
  BY <1>1, <1>2, ThreadsDiffer DEF WritePicture, Goto, flagVars, mainVars, pictureVars, queueVars, OpInv, tail, AliveInv
<1>5. HandInv'
  BY <1>1, <1>2, ThreadsDiffer, Constants DEF WritePicture, Goto, flagVars, mainVars, pictureVars, queueVars, HandInv, Holding, MainInv, AliveInv
<1>6. CountInv'
  <2>1. \A v \in Workers : (Holding(v)' <=> Holding(v)) /\ (Holding(v) => task'[v] = task[v])
    BY ThreadsDiffer DEF WritePicture, Goto, flagVars, mainVars, pictureVars, queueVars, Holding, HandInv, AliveInv
  <2>2. QED
    BY <1>1, <2>1, CountKept DEF WritePicture, Goto, flagVars, mainVars, pictureVars, queueVars
<1>7. ExitInv'
  BY ThreadsDiffer DEF WritePicture, Goto, flagVars, mainVars, pictureVars, queueVars, ExitInv, DoneInv, tail, is_q_empty
<1>8. ResultInv'
  BY ThreadsDiffer, Constants DEF WritePicture, Goto, flagVars, mainVars, pictureVars, queueVars, ResultInv, TaskPixels, HandInv, AliveInv
<1>9. QED
  BY <1>2, <1>3, <1>4, <1>5, <1>6, <1>7, <1>8

LEMMA TestDoneStep == ASSUME NEW w \in Workers, IInv, TInv, TestDone(w) PROVE TInv'
<1> USE DEF IInv, TInv, PcInv, MainPlaces, WorkerPlaces
<1>1. UNCHANGED queueVars /\ Pushed' = Pushed
  BY ThreadsDiffer DEF TestDone, Goto, flagVars, mainVars, pictureVars, queueVars, Pushed, MainInv
<1>2. HeapInv' /\ ListInv' /\ SizeInv' /\ Items' = Items
  BY <1>1, ListKept
<1>3. MainInv'
  BY ThreadsDiffer, Constants DEF TestDone, Goto, flagVars, mainVars, pictureVars, queueVars, MainInv, HandInv
<1>4. OpInv'
  BY <1>1, <1>2, ThreadsDiffer DEF TestDone, Goto, flagVars, mainVars, pictureVars, queueVars, OpInv, tail, AliveInv
<1>5. HandInv'
  BY <1>1, <1>2, ThreadsDiffer, Constants DEF TestDone, Goto, flagVars, mainVars, pictureVars, queueVars, HandInv, Holding, MainInv, AliveInv
<1>6. CountInv'
  <2>1. \A v \in Workers : (Holding(v)' <=> Holding(v)) /\ (Holding(v) => task'[v] = task[v])
    BY ThreadsDiffer DEF TestDone, Goto, flagVars, mainVars, pictureVars, queueVars, Holding, HandInv, AliveInv
  <2>2. QED
    BY <1>1, <2>1, CountKept DEF TestDone, Goto, flagVars, mainVars, pictureVars, queueVars
<1>7. ExitInv'
  BY ThreadsDiffer DEF TestDone, Goto, flagVars, mainVars, pictureVars, queueVars, ExitInv, DoneInv, tail, is_q_empty
<1>8. ResultInv'
  BY ThreadsDiffer, Constants DEF TestDone, Goto, flagVars, mainVars, pictureVars, queueVars, ResultInv, TaskPixels, HandInv, AliveInv
<1>9. QED
  BY <1>2, <1>3, <1>4, <1>5, <1>6, <1>7, <1>8

LEMMA TestEmptyStep == ASSUME NEW w \in Workers, IInv, TInv, TestEmpty(w) PROVE TInv'
<1> USE DEF IInv, TInv, PcInv, MainPlaces, WorkerPlaces
<1>1. UNCHANGED queueVars /\ Pushed' = Pushed
  BY ThreadsDiffer DEF TestEmpty, Goto, flagVars, mainVars, pictureVars, queueVars, Pushed, MainInv
<1>2. HeapInv' /\ ListInv' /\ SizeInv' /\ Items' = Items
  BY <1>1, ListKept
<1>3. MainInv'
  BY ThreadsDiffer, Constants DEF TestEmpty, Goto, flagVars, mainVars, pictureVars, queueVars, MainInv, HandInv
<1>4. OpInv'
  BY <1>1, <1>2, ThreadsDiffer DEF TestEmpty, Goto, flagVars, mainVars, pictureVars, queueVars, OpInv, tail, AliveInv
<1>5. HandInv'
  BY <1>1, <1>2, ThreadsDiffer, Constants DEF TestEmpty, Goto, flagVars, mainVars, pictureVars, queueVars, HandInv, Holding, MainInv, AliveInv
<1>6. CountInv'
  <2>1. \A v \in Workers : (Holding(v)' <=> Holding(v)) /\ (Holding(v) => task'[v] = task[v])
    BY ThreadsDiffer DEF TestEmpty, Goto, flagVars, mainVars, pictureVars, queueVars, Holding, HandInv, AliveInv
  <2>2. QED
    BY <1>1, <2>1, CountKept DEF TestEmpty, Goto, flagVars, mainVars, pictureVars, queueVars
<1>7. ExitInv'
  BY ThreadsDiffer DEF TestEmpty, Goto, flagVars, mainVars, pictureVars, queueVars, ExitInv, DoneInv, tail, is_q_empty
<1>8. ResultInv'
  BY ThreadsDiffer, Constants DEF TestEmpty, Goto, flagVars, mainVars, pictureVars, queueVars, ResultInv, TaskPixels, HandInv, AliveInv
<1>9. QED
  BY <1>2, <1>3, <1>4, <1>5, <1>6, <1>7, <1>8

LEMMA TryLockStep == ASSUME NEW w \in Workers, IInv, TInv, TryLock(w) PROVE TInv'
<1> USE DEF IInv, TInv, PcInv, MainPlaces, WorkerPlaces
<1>1. UNCHANGED queueVars /\ Pushed' = Pushed
  BY ThreadsDiffer DEF TryLock, Goto, flagVars, mainVars, pictureVars, queueVars, Pushed, MainInv
<1>2. HeapInv' /\ ListInv' /\ SizeInv' /\ Items' = Items
  BY <1>1, ListKept
<1>3. MainInv'
  BY ThreadsDiffer, Constants DEF TryLock, Goto, flagVars, mainVars, pictureVars, queueVars, MainInv, HandInv
<1>4. OpInv'
  BY <1>1, <1>2, ThreadsDiffer DEF TryLock, Goto, flagVars, mainVars, pictureVars, queueVars, OpInv, tail, AliveInv
<1>5. HandInv'
  BY <1>1, <1>2, ThreadsDiffer, Constants DEF TryLock, Goto, flagVars, mainVars, pictureVars, queueVars, HandInv, Holding, MainInv, AliveInv
<1>6. CountInv'
  <2>1. \A v \in Workers : (Holding(v)' <=> Holding(v)) /\ (Holding(v) => task'[v] = task[v])
    BY ThreadsDiffer DEF TryLock, Goto, flagVars, mainVars, pictureVars, queueVars, Holding, HandInv, AliveInv
  <2>2. QED
    BY <1>1, <2>1, CountKept DEF TryLock, Goto, flagVars, mainVars, pictureVars, queueVars
<1>7. ExitInv'
  BY ThreadsDiffer DEF TryLock, Goto, flagVars, mainVars, pictureVars, queueVars, ExitInv, DoneInv, tail, is_q_empty
<1>8. ResultInv'
  BY ThreadsDiffer, Constants DEF TryLock, Goto, flagVars, mainVars, pictureVars, queueVars, ResultInv, TaskPixels, HandInv, AliveInv
<1>9. QED
  BY <1>2, <1>3, <1>4, <1>5, <1>6, <1>7, <1>8

LEMMA UnlockStep == ASSUME NEW w \in Workers, IInv, TInv, Unlock(w) PROVE TInv'
<1> USE DEF IInv, TInv, PcInv, MainPlaces, WorkerPlaces
<1>1. UNCHANGED queueVars /\ Pushed' = Pushed
  BY ThreadsDiffer DEF Unlock, Goto, flagVars, mainVars, pictureVars, queueVars, Pushed, MainInv
<1>2. HeapInv' /\ ListInv' /\ SizeInv' /\ Items' = Items
  BY <1>1, ListKept
<1>3. MainInv'
  BY ThreadsDiffer, Constants DEF Unlock, Goto, flagVars, mainVars, pictureVars, queueVars, MainInv, HandInv
<1>4. OpInv'
  BY <1>1, <1>2, ThreadsDiffer DEF Unlock, Goto, flagVars, mainVars, pictureVars, queueVars, OpInv, tail, AliveInv
<1>5. HandInv'
  BY <1>1, <1>2, ThreadsDiffer, Constants DEF Unlock, Goto, flagVars, mainVars, pictureVars, queueVars, HandInv, Holding, MainInv, AliveInv
<1>6. CountInv'
  <2>1. \A v \in Workers : (Holding(v)' <=> Holding(v)) /\ (Holding(v) => task'[v] = task[v])
    BY ThreadsDiffer DEF Unlock, Goto, flagVars, mainVars, pictureVars, queueVars, Holding, HandInv, AliveInv
  <2>2. QED
    BY <1>1, <2>1, CountKept DEF Unlock, Goto, flagVars, mainVars, pictureVars, queueVars
<1>7. ExitInv'
  BY ThreadsDiffer DEF Unlock, Goto, flagVars, mainVars, pictureVars, queueVars, ExitInv, DoneInv, tail, is_q_empty
<1>8. ResultInv'
  BY ThreadsDiffer, Constants DEF Unlock, Goto, flagVars, mainVars, pictureVars, queueVars, ResultInv, TaskPixels, HandInv, AliveInv
<1>9. QED
  BY <1>2, <1>3, <1>4, <1>5, <1>6, <1>7, <1>8

LEMMA RunStep == ASSUME NEW w \in Workers, IInv, TInv, Run(w) PROVE TInv'
<1> USE DEF IInv, TInv, PcInv, MainPlaces, WorkerPlaces
<1>1. UNCHANGED queueVars /\ Pushed' = Pushed
  BY ThreadsDiffer DEF Run, Goto, flagVars, mainVars, pictureVars, queueVars, Pushed, MainInv
<1>2. HeapInv' /\ ListInv' /\ SizeInv' /\ Items' = Items
  BY <1>1, ListKept
<1>3. MainInv'
  BY ThreadsDiffer, Constants DEF Run, Goto, flagVars, mainVars, pictureVars, queueVars, MainInv, HandInv
<1>4. OpInv'
  BY <1>1, <1>2, ThreadsDiffer DEF Run, Goto, flagVars, mainVars, pictureVars, queueVars, OpInv, tail, AliveInv
<1>5. HandInv'
  BY <1>1, <1>2, ThreadsDiffer, Constants DEF Run, Goto, flagVars, mainVars, pictureVars, queueVars, HandInv, Holding, MainInv, AliveInv
<1>6. CountInv'
  <2>1. ~Holding(w)' /\ \A v \in Workers \ {w} : (Holding(v)' <=> Holding(v)) /\ task'[v] = task[v]
    BY ThreadsDiffer DEF Run, Goto, flagVars, mainVars, pictureVars, queueVars, Holding, HandInv
  <2>2. QED
    BY <1>1, <2>1, CountRun DEF Run, Goto, flagVars, mainVars, pictureVars, queueVars
<1>7. ExitInv'
  BY ThreadsDiffer DEF Run, Goto, flagVars, mainVars, pictureVars, queueVars, ExitInv, DoneInv, tail, is_q_empty
<1>8. ResultInv'
  BY ThreadsDiffer, Constants DEF Run, Goto, flagVars, mainVars, pictureVars, queueVars, ResultInv, TaskPixels, HandInv, AliveInv
<1>9. QED
  BY <1>2, <1>3, <1>4, <1>5, <1>6, <1>7, <1>8

LEMMA ReadPairStep == ASSUME NEW w \in Workers, IInv, TInv, ReadPair(w) PROVE TInv'
<1> USE DEF IInv, TInv, PcInv, MainPlaces, WorkerPlaces
<1>1. UNCHANGED queueVars /\ Pushed' = Pushed
  BY ThreadsDiffer DEF ReadPair, Goto, flagVars, mainVars, pictureVars, queueVars, Pushed, MainInv
<1>2. HeapInv' /\ ListInv' /\ SizeInv' /\ Items' = Items
  BY <1>1, ListKept
<1>3. MainInv'
  BY ThreadsDiffer, Constants DEF ReadPair, Goto, flagVars, mainVars, pictureVars, queueVars, MainInv, HandInv
<1>4. OpInv'
  BY <1>1, <1>2, ThreadsDiffer DEF ReadPair, Goto, flagVars, mainVars, pictureVars, queueVars, OpInv, tail, AliveInv
<1>5. HandInv'
  BY <1>1, <1>2, ThreadsDiffer, Constants DEF ReadPair, Goto, flagVars, mainVars, pictureVars, queueVars, HandInv, Holding, MainInv, AliveInv
<1>6. CountInv'
  <2>1. ~Holding(w)' /\ \A v \in Workers \ {w} : (Holding(v)' <=> Holding(v)) /\ task'[v] = task[v]
    BY ThreadsDiffer DEF ReadPair, Goto, flagVars, mainVars, pictureVars, queueVars, Holding, HandInv
  <2>2. QED
    BY <1>1, <2>1, CountRun DEF ReadPair, Goto, flagVars, mainVars, pictureVars, queueVars
<1>7. ExitInv'
  BY ThreadsDiffer DEF ReadPair, Goto, flagVars, mainVars, pictureVars, queueVars, ExitInv, DoneInv, tail, is_q_empty
<1>8. ResultInv'
  BY ThreadsDiffer, Constants DEF ReadPair, Goto, flagVars, mainVars, pictureVars, queueVars, ResultInv, TaskPixels, HandInv, AliveInv
<1>9. QED
  BY <1>2, <1>3, <1>4, <1>5, <1>6, <1>7, <1>8

LEMMA StorePairStep == ASSUME NEW w \in Workers, IInv, TInv, StorePair(w) PROVE TInv'
<1> USE DEF IInv, TInv, PcInv, MainPlaces, WorkerPlaces
<1>1. UNCHANGED queueVars /\ Pushed' = Pushed
  BY ThreadsDiffer DEF StorePair, Goto, flagVars, mainVars, pictureVars, queueVars, Pushed, MainInv
<1>2. HeapInv' /\ ListInv' /\ SizeInv' /\ Items' = Items
  BY <1>1, ListKept
<1>3. MainInv'
  BY ThreadsDiffer, Constants DEF StorePair, Goto, flagVars, mainVars, pictureVars, queueVars, MainInv, HandInv
<1>4. OpInv'
  BY <1>1, <1>2, ThreadsDiffer DEF StorePair, Goto, flagVars, mainVars, pictureVars, queueVars, OpInv, tail, AliveInv
<1>5. HandInv'
  BY <1>1, <1>2, ThreadsDiffer, Constants DEF StorePair, Goto, flagVars, mainVars, pictureVars, queueVars, HandInv, Holding, MainInv, AliveInv
<1>6. CountInv'
  <2>1. \A v \in Workers : (Holding(v)' <=> Holding(v)) /\ (Holding(v) => task'[v] = task[v])
    BY ThreadsDiffer DEF StorePair, Goto, flagVars, mainVars, pictureVars, queueVars, Holding, HandInv, AliveInv
  <2>2. QED
    BY <1>1, <2>1, CountKept DEF StorePair, Goto, flagVars, mainVars, pictureVars, queueVars
<1>7. ExitInv'
  BY ThreadsDiffer DEF StorePair, Goto, flagVars, mainVars, pictureVars, queueVars, ExitInv, DoneInv, tail, is_q_empty
<1>8. ResultInv'
  <2>1. image' \in [Tasks -> {"unset", "own", "junk"}]
    BY DEF StorePair, Goto, flagVars, mainVars, pictureVars, queueVars, ResultInv
  <2>2. DOMAIN result' = Workers /\ DOMAIN result'[w] = {}
    BY DEF StorePair, Goto, flagVars, mainVars, pictureVars, queueVars, ResultInv
  <2>3. \A v \in Workers \ {w} : result'[v] = result[v] /\ pc'[v] = pc[v] /\ task'[v] = task[v]
    BY ThreadsDiffer DEF StorePair, Goto, flagVars, mainVars, pictureVars, queueVars, ResultInv, HandInv
  <2>4. pc'[w] = "testDone" /\ coords' = coords
    BY ThreadsDiffer DEF StorePair, Goto, flagVars, mainVars, pictureVars, queueVars
  <2>5. QED
    BY <2>1, <2>2, <2>3, <2>4 DEF ResultInv, TaskPixels
<1>9. QED
  BY <1>2, <1>3, <1>4, <1>5, <1>6, <1>7, <1>8

-----------------------------------------------------------------------------
(* The steps of push and pop.                                              *)

LEMMA PushBeginStep ==
  ASSUME IInv, TInv, pc[Main] = "push", PushBegin(task[Main]),
         UNCHANGED <<client, pc, pictureVars, lock, flagVars, task, mainVars, res>>
  PROVE  TInv'
<1> USE DEF IInv, TInv, pictureVars, flagVars, mainVars
<1>1. PICK a \in Nodes \ live :
        /\ node' = [node EXCEPT ![a] = [next |-> node[tail].next, prev |-> tail, data |-> task[Main]],
                                ![tail].next = a]
        /\ live' = live \cup {a}
        /\ op' = [kind |-> "push", node |-> a, temp |-> node[tail].next]
        /\ size' = size + 1 /\ head' = head
  BY DEF PushBegin
<1>2. op = Idle
  BY DEF PushBegin
<1>3. a # tail /\ a # NULL /\ node[tail].next \in Nodes \cup {NULL}
  BY <1>1, Constants DEF HeapInv, Node
<1>4. Items' = Items /\ Pushed' = Pushed
  BY <1>1, <1>2, <1>3, Constants DEF Items, Idle, Pushed, HeapInv, tail
<1>5. a \notin Items /\ tail \notin Items /\ Items \subseteq Nodes
  BY <1>1 DEF Items, HeapInv
<1>6. \A b \in Items : node'[b] = node[b]
  BY <1>1, <1>5 DEF HeapInv
<1>7. /\ node'[a].prev = tail /\ node'[a].data = task[Main]
      /\ node'[tail].next = a
  BY <1>1, <1>3, Constants DEF HeapInv, Node
<1>8. task[Main] = Pushed + 1 /\ task[Main] \in Tasks
  BY Constants DEF MainInv, Pushed
<1>9. HeapInv'
  <2>1. [next |-> node[tail].next, prev |-> tail, data |-> task[Main]] \in Node
    BY <1>3, <1>8, Constants DEF Node, HeapInv
  <2>2. [node[tail] EXCEPT !.next = a] \in Node
    BY Constants DEF HeapInv, Node
  <2>3. node' \in [Nodes -> Node]
    BY <1>1, <1>3, <2>1, <2>2, Constants DEF HeapInv
  <2>4. op' \in Ops
    BY <1>1, <1>3 DEF Ops
  <2>5. QED
    BY <1>1, <2>3, <2>4 DEF HeapInv, tail
<1>10. MainInv'
  BY DEF MainInv
<1>11. OpInv'
  <2>1. head # tail => node[tail].next \in Items /\ node[node[tail].next].data = Pushed
    BY <1>2 DEF ListInv, Idle
  <2>2. \A w \in Workers : pc[w] # "popEnd"
    BY <1>2 DEF OpInv, Idle
  <2>3. QED
    BY <1>1, <1>3, <1>4, <1>6, <1>7, <1>8, <2>1, <2>2 DEF OpInv, tail
<1>12. ListInv'
  <2>1. head' \in Items' \cup {tail} /\ (head' = tail => Items' = {})
    BY <1>1, <1>4 DEF ListInv
  <2>2. head' # tail => node'[head'] = node[head]
    BY <1>1, <1>6 DEF ListInv
  <2>3. op'.kind = "push"
    BY <1>1
  <2>4. QED
    BY <1>4, <1>6, <2>1, <2>2, <2>3 DEF ListInv, tail
<1>13. SizeInv'
  <2>1. head # tail => node'[head].data = node[head].data
    BY <1>6 DEF ListInv
  <2>2. Pushed \in Int /\ (head # tail => node[head].data \in Int)
    BY <1>8, Constants DEF ListInv, MainInv, Pushed
  <2>3. size' = size + 1 /\ op'.kind = "push" /\ op.kind = "idle" /\ head' = head
    BY <1>1, <1>2 DEF Idle
  <2>4. QED
    BY <1>4, <2>1, <2>2, <2>3 DEF SizeInv, tail
<1>14. HandInv' /\ CountInv'
  <2>1. \A w \in Workers : Holding(w)' <=> Holding(w)
    BY DEF Holding
  <2>2. HandInv'
    BY <1>4, <1>6, <2>1 DEF HandInv
  <2>3. \A i \in Tasks : Waiting(i)' <=> Waiting(i)
    BY <1>4, <1>6, <2>1 DEF Waiting
  <2>4. QED
    BY <2>2, <2>3 DEF CountInv
<1>15. ExitInv' /\ ResultInv'
  BY <1>1 DEF ExitInv, ResultInv, TaskPixels, tail
<1>16. QED
  BY <1>9, <1>10, <1>11, <1>12, <1>13, <1>14, <1>15

LEMMA PushEndStep ==
  ASSUME IInv, TInv, pc[Main] = "push", PushEnd, Goto(Main, "unlock"),
         UNCHANGED <<client, pictureVars, lock, flagVars, task, mainVars, res>>
  PROVE  TInv'
<1> USE DEF IInv, TInv, pictureVars, flagVars, mainVars
<1>1. /\ op.kind = "push" /\ op' = Idle /\ live' = live /\ size' = size
      /\ op.node \in live /\ op.node # tail
      /\ node[op.node].prev = tail /\ node[op.node].data = Pushed + 1
      /\ node[tail].next = op.node
  BY DEF PushEnd, OpInv
<1>2. /\ pc'[Main] = "unlock" /\ \A w \in Workers : pc'[w] = pc[w]
      /\ Pushed' = Pushed + 1 /\ Pushed \in 0..(NumTasks - 1)
  BY ThreadsDiffer, Constants DEF Goto, Pushed, MainInv, PcInv
<1>3. Items' = Items \cup {op.node} /\ op.node \notin Items /\ tail \notin Items
  BY <1>1, Constants DEF Items, Idle, HeapInv, tail
<1>4. \A a \in Items : node[a].data \in 1..Pushed /\ a \in Nodes
  BY <1>2, Constants DEF ListInv, Items, HeapInv, Node
<1>5. HeapInv'
  BY <1>1, Constants DEF PushEnd, HeapInv, Node, Ops, Idle, tail
<1>6. /\ \A a \in Items' : node'[a].data = node[a].data
      /\ node'[tail].next = op.node
      /\ node'[op.node].prev = tail
  <2>1. CASE head = tail
    BY <1>1, <2>1 DEF PushEnd, is_q_empty
  <2>2. CASE head # tail
    BY <1>1, <1>3, <1>4, <2>2, Constants DEF PushEnd, is_q_empty, OpInv, HeapInv, Node
  <2>3. QED
    BY <2>1, <2>2
<1>7. MainInv'
  BY <1>2, Constants DEF MainInv
<1>8. OpInv'
  BY <1>1, <1>2 DEF OpInv, Idle
<1>9. ListInv'
  <2>1. CASE head = tail
    <3>1. Items' = {op.node} /\ head' = op.node /\ node' = node
      BY <1>1, <1>3, <2>1 DEF PushEnd, is_q_empty, ListInv
    <3>2. QED
      BY <1>1, <1>2, <1>6, <3>1 DEF ListInv, tail
  <2>2. CASE head # tail
    <3>1. /\ head' = head /\ op.temp \in Items /\ node[op.temp].data = Pushed
          /\ node'[op.temp].prev = op.node
          /\ \A a \in Items \ {op.temp} : node'[a] = node[a]
      BY <1>1, <1>3, <1>4, <2>2 DEF PushEnd, is_q_empty, OpInv, HeapInv, Node
    <3>2. head \in Items
      BY <2>2 DEF ListInv
    <3>3. \A a \in Items' : node'[a].data \in node'[head'].data..Pushed' /\ node'[a].data > 0
      BY <1>1, <1>2, <1>3, <1>4, <1>6, <3>1, <3>2 DEF ListInv
    <3>4. \A a, b \in Items' : node'[a].data = node'[b].data => a = b
      BY <1>1, <1>2, <1>3, <1>4, <1>6 DEF ListInv
    <3>5. ASSUME NEW a \in Items'
          PROVE  \/ node'[a].prev = tail /\ node'[a].data = Pushed'
                 \/ node'[a].prev \in Items' /\ node'[node'[a].prev].data = node'[a].data + 1
      <4>1. CASE a = op.node
        BY <1>1, <1>2, <1>3, <1>6, <4>1
      <4>2. CASE a = op.temp
        BY <1>1, <1>2, <1>3, <1>6, <3>1, <4>2
      <4>3. CASE a \in Items \ {op.temp}
        <5>1. node[a].data # Pushed
          BY <3>1, <4>3 DEF ListInv
        <5>2. node[a].prev \in Items /\ node[node[a].prev].data = node[a].data + 1
          BY <4>3, <5>1 DEF ListInv
        <5>3. QED
          BY <1>3, <1>6, <3>1, <4>3, <5>2
      <4>4. QED
        BY <1>3, <4>1, <4>2, <4>3
    <3>6. node'[tail].next \in Items' /\ node'[node'[tail].next].data = Pushed'
      BY <1>1, <1>2, <1>3, <1>6
    <3>7. QED
      BY <1>3, <3>1, <3>2, <3>3, <3>4, <3>5, <3>6 DEF ListInv, tail
  <2>3. QED
    BY <2>1, <2>2
<1>10. SizeInv'
  <2>1. CASE head = tail
    BY <1>1, <1>2, <1>3, <1>6, <2>1 DEF PushEnd, is_q_empty, SizeInv, Idle, tail
  <2>2. CASE head # tail
    <3>1. head' = head /\ head \in Items
      BY <2>2 DEF PushEnd, is_q_empty, ListInv
    <3>2. node'[head].data = node[head].data /\ node[head].data \in Int
      BY <1>3, <1>4, <1>6, <3>1
    <3>3. QED
      BY <1>1, <1>2, <2>2, <3>1, <3>2 DEF SizeInv, Idle, tail
  <2>3. QED
    BY <2>1, <2>2
<1>11. \A w \in Workers : Holding(w)' <=> Holding(w)
  BY <1>2 DEF Holding
<1>12. HandInv'
  <2>1. ASSUME NEW w \in Workers, Holding(w)
        PROVE  task[w] <= Pushed' /\ \A a \in Items' : node'[a].data # task[w]
    <3>1. task[w] \in Int /\ task[w] <= Pushed
      BY <2>1, ThreadsDiffer, Constants DEF HandInv, Holding
    <3>2. QED
      BY <1>1, <1>2, <1>3, <1>6, <2>1, <3>1 DEF HandInv
  <2>2. QED
    BY <1>2, <1>11, <2>1 DEF HandInv
<1>13. CountInv'
  <2>1. ASSUME NEW i \in Tasks PROVE Waiting(i)' <=> Waiting(i)
    <3>1. i > Pushed <=> i > Pushed' \/ i = Pushed + 1
      BY <1>2, Constants
    <3>2. (\E a \in Items' : node'[a].data = i) <=> (\E a \in Items : node[a].data = i) \/ i = Pushed + 1
      BY <1>1, <1>3, <1>6
    <3>3. QED
      BY <1>11, <3>1, <3>2 DEF Waiting
  <2>2. QED
    BY <2>1 DEF CountInv
<1>14. ExitInv' /\ ResultInv'
  <2>1. ~is_submit_done
    BY DEF DoneInv
  <2>2. QED
    BY <1>2, <2>1 DEF ExitInv, ResultInv, TaskPixels
<1>15. QED
  BY <1>5, <1>7, <1>8, <1>9, <1>10, <1>12, <1>13, <1>14

LEMMA SubmitPushStep == ASSUME IInv, TInv, SubmitPush PROVE TInv'
BY PushBeginStep, PushEndStep DEF SubmitPush

\* get_task of a queue that is empty
LEMMA GetNothingStep ==
  ASSUME NEW w \in Workers, IInv, TInv, pc[w] = "pop", Goto(w, "unlock"),
         UNCHANGED <<client, pictureVars, queueVars, lock, flagVars, task, mainVars, res>>
  PROVE  TInv'
<1> USE DEF IInv, TInv, PcInv, pictureVars, flagVars, mainVars
<1>1. /\ pc'[w] = "unlock" /\ task[w] = NULL
      /\ \A t \in Threads \ {w} : pc'[t] = pc[t]
  BY ThreadsDiffer DEF Goto, HandInv
<1>2. Pushed' = Pushed
  BY <1>1, ThreadsDiffer DEF Pushed
<1>3. HeapInv' /\ ListInv' /\ SizeInv' /\ Items' = Items
  BY <1>2, ListKept
<1>4. \A v \in Workers : Holding(v)' <=> Holding(v)
  BY <1>1, ThreadsDiffer DEF Holding
<1>5. MainInv'
  BY <1>1, ThreadsDiffer DEF MainInv
<1>6. OpInv'
  BY <1>1, <1>2, <1>3, ThreadsDiffer DEF OpInv, queueVars, tail
<1>7. HandInv'
  BY <1>1, <1>2, <1>3, <1>4, ThreadsDiffer DEF HandInv, queueVars
<1>8. CountInv'
  BY <1>2, <1>4, CountKept
<1>9. ExitInv' /\ ResultInv'
  BY <1>1, ThreadsDiffer DEF ExitInv, ResultInv, TaskPixels, queueVars, tail
<1>10. QED
  BY <1>3, <1>5, <1>6, <1>7, <1>8, <1>9

\* get_task of a queue that is not
LEMMA PopBeginStep ==
  ASSUME NEW w \in Workers, IInv, TInv, pc[w] = "pop", PopBegin, Goto(w, "popEnd"),
         task' = [task EXCEPT ![w] = node[head].data],
         UNCHANGED <<client, pictureVars, lock, flagVars, mainVars, res>>
  PROVE  TInv'
<1> USE DEF IInv, TInv, PcInv, pictureVars, flagVars, mainVars
<1>1. /\ pc'[w] = "popEnd" /\ task'[w] = node[head].data
      /\ \A t \in Threads \ {w} : pc'[t] = pc[t] /\ task'[t] = task[t]
  BY ThreadsDiffer DEF Goto, HandInv
<1>2. /\ op = Idle /\ head # tail /\ head \in Items
      /\ head' = node[head].prev /\ op' = [kind |-> "pop", node |-> head, temp |-> NULL]
      /\ node' = node /\ live' = live /\ size' = size
  BY DEF PopBegin, is_q_empty, ListInv
<1>3. Pushed' = Pushed /\ Pushed \in 0..NumTasks
  BY <1>1, ThreadsDiffer, Constants DEF Pushed, MainInv
<1>4. Items' = Items \ {head} /\ tail \notin Items /\ NULL \notin Items
  BY <1>2, Constants DEF Items, Idle, HeapInv, tail
<1>5. \A a \in Items : node[a].data \in node[head].data..Pushed /\ node[a].data > 0
  BY DEF ListInv
<1>6. node[head].data \in 1..Pushed /\ node[head].data \in Tasks
  BY <1>2, <1>3, <1>5, Constants DEF HeapInv, Node, Items
<1>7. \A a \in Items' : node[a].data \in (node[head].data + 1)..Pushed
  BY <1>2, <1>4, <1>5, <1>6 DEF ListInv
<1>8. \/ head' = tail /\ node[head].data = Pushed /\ Items' = {}
      \/ head' \in Items' /\ node[head'].data = node[head].data + 1
  <2>1. CASE node[head].prev = tail /\ node[head].data = Pushed
    BY <1>2, <1>3, <1>7, <2>1
  <2>2. CASE node[head].prev \in Items /\ node[node[head].prev].data = node[head].data + 1
    BY <1>2, <1>4, <1>6, <2>2
  <2>3. QED
    BY <1>2, <2>1, <2>2 DEF ListInv
<1>9. HeapInv'
  BY <1>2, <1>4, Constants DEF HeapInv, Ops, Items, tail
<1>10. MainInv'
  BY <1>1, ThreadsDiffer DEF MainInv
<1>11. OpInv'
  <2>1. op'.kind = "pop" /\ op'.node = head
    BY <1>2
  <2>2. head \in live \ {tail}
    BY <1>2 DEF Items
  <2>3. head' # tail => node[head'].data > 1
    BY <1>6, <1>8
  <2>4. QED
    BY <1>1, <1>2, <2>1, <2>2, <2>3 DEF OpInv, tail
<1>12. ListInv'
  <2>1. \A a \in Items' : node[a].data \in node[head'].data..Pushed
    BY <1>7, <1>8
  <2>2. ASSUME NEW a \in Items'
        PROVE  \/ node[a].prev = tail /\ node[a].data = Pushed
               \/ node[a].prev \in Items' /\ node[node[a].prev].data = node[a].data + 1
    <3>1. a \in Items /\ node[a].data \in Int /\ node[a].data > node[head].data
      BY <1>4, <1>6, <1>7
    <3>2. QED
      BY <1>4, <1>6, <3>1 DEF ListInv
  <2>3. head' # tail => node[tail].next \in Items' /\ node[node[tail].next].data = Pushed
    <3>1. node[tail].next \in Items /\ node[node[tail].next].data = Pushed
      BY <1>2 DEF ListInv, Idle
    <3>2. head' # tail => node[head].data # Pushed
      BY <1>6, <1>7, <1>8
    <3>3. QED
      BY <1>4, <3>1, <3>2
  <2>4. QED
    BY <1>2, <1>3, <1>4, <1>5, <1>8, <2>1, <2>2, <2>3 DEF ListInv, tail
<1>13. SizeInv'
  <2>1. size = Pushed - node[head].data + 1
    BY <1>2, <1>3, <1>6 DEF SizeInv, Idle
  <2>2. op'.kind = "pop"
    BY <1>2
  <2>3. QED
    BY <1>2, <1>3, <1>4, <1>6, <1>8, <2>1, <2>2 DEF SizeInv, tail
<1>14. /\ Holding(w)' /\ ~Holding(w)
       /\ \A v \in Workers \ {w} : Holding(v)' <=> Holding(v)
  BY <1>1, <1>6, ThreadsDiffer, Constants DEF Holding
<1>15. HandInv'
  <2>1. task' \in [Threads -> Tasks \cup {NULL}]
    BY <1>6 DEF HandInv
  <2>2. task'[w] <= Pushed /\ \A a \in Items' : node[a].data # task'[w]
    BY <1>1, <1>3, <1>6, <1>7
  <2>3. \A v \in Workers \ {w} : Holding(v) =>
          task[v] <= Pushed /\ (\A a \in Items' : node[a].data # task[v]) /\ task[v] # task'[w]
    BY <1>1, <1>2, <1>4 DEF HandInv
  <2>4. task'[w] # NULL
    BY <1>1, <1>6, Constants
  <2>5. QED
    BY <1>1, <1>2, <1>3, <1>14, <2>1, <2>2, <2>3, <2>4, ThreadsDiffer DEF HandInv
<1>16. CountInv'
  <2>1. ASSUME NEW i \in Tasks PROVE Waiting(i)' <=> Waiting(i)
    <3>1. (\E a \in Items : node[a].data = i) <=> (\E a \in Items' : node[a].data = i) \/ i = node[head].data
      BY <1>2, <1>4
    <3>2. (\E v \in Workers : Holding(v)' /\ task'[v] = i)
             <=> (\E v \in Workers : Holding(v) /\ task[v] = i) \/ i = node[head].data
      BY <1>1, <1>14, ThreadsDiffer
    <3>3. QED
      BY <1>2, <1>3, <3>1, <3>2 DEF Waiting
  <2>2. QED
    BY <2>1 DEF CountInv
<1>17. ExitInv' /\ ResultInv'
  BY <1>1, <1>2, ThreadsDiffer DEF ExitInv, ResultInv, TaskPixels, tail
<1>18. QED
  BY <1>9, <1>10, <1>11, <1>12, <1>13, <1>15, <1>16, <1>17

LEMMA GetTaskStep == ASSUME NEW w \in Workers, IInv, TInv, GetTask(w) PROVE TInv'
BY GetNothingStep, PopBeginStep DEF GetTask

LEMMA GotTaskStep == ASSUME NEW w \in Workers, IInv, TInv, GotTask(w) PROVE TInv'
<1> USE DEF IInv, TInv, PcInv, pictureVars, flagVars, mainVars
<1>1. /\ pc[w] = "popEnd" /\ pc'[w] = "unlock" /\ task' = task
      /\ \A t \in Threads \ {w} : pc'[t] = pc[t]
  BY ThreadsDiffer DEF GotTask, Goto
<1>2. /\ op.kind = "pop" /\ op' = Idle /\ head' = head /\ size' = size - 1
      /\ op.node \in live \ {tail} /\ live' = live \ {op.node}
      /\ node' = [node EXCEPT ![head].next = NULL, ![op.node] = NullNode]
  BY DEF GotTask, PopEnd, OpInv
<1>3. Pushed' = Pushed
  BY <1>1, ThreadsDiffer DEF Pushed, GotTask
<1>4. Items' = Items /\ op.node \notin Items /\ Items \subseteq Nodes /\ head \in Nodes
      /\ op.node \in Nodes /\ op.node # head
  BY <1>2, Constants DEF Items, Idle, HeapInv, ListInv, tail
<1>5. \A a \in Items : node'[a].data = node[a].data /\ node'[a].prev = node[a].prev
  BY <1>2, <1>4 DEF HeapInv, Node
<1>6. head # tail => node'[tail].next = node[tail].next
  BY <1>2, <1>4, Constants DEF HeapInv, Node
<1>7. HeapInv'
  <2>1. [node[head] EXCEPT !.next = NULL] \in Node /\ NullNode \in Node
    BY <1>4 DEF HeapInv, Node, NullNode
  <2>2. node' \in [Nodes -> Node]
    BY <1>2, <1>4, <2>1 DEF HeapInv
  <2>3. QED
    BY <1>2, <2>2 DEF HeapInv, Ops, Idle, tail
<1>8. MainInv'
  BY <1>1, ThreadsDiffer DEF GotTask, MainInv
<1>9. OpInv'
  <2>1. \A v \in Workers \ {w} : pc[v] # "popEnd"
    BY <1>1 DEF MutexInv, WorkerHolds
  <2>2. QED
    BY <1>1, <1>2, <2>1, ThreadsDiffer DEF OpInv, Idle
<1>10. ListInv'
  <2>1. head' # tail => node'[head'].data = node[head].data
    BY <1>2, <1>5 DEF ListInv
  <2>2. ASSUME NEW a \in Items
        PROVE  \/ node'[a].prev = tail /\ node'[a].data = Pushed
               \/ node'[a].prev \in Items /\ node'[node'[a].prev].data = node'[a].data + 1
    BY <1>5 DEF ListInv
  <2>3. head # tail => node'[tail].next \in Items /\ node'[node'[tail].next].data = Pushed
    BY <1>2, <1>5, <1>6 DEF ListInv
  <2>4. head' \in Items' \cup {tail} /\ (head' = tail => Items' = {})
    BY <1>2, <1>4 DEF ListInv
  <2>5. ASSUME NEW a \in Items, NEW b \in Items, node'[a].data = node'[b].data
        PROVE  a = b
    BY <1>5, <2>5 DEF ListInv
  <2>6. ASSUME NEW a \in Items
        PROVE  node'[a].data \in node'[head'].data..Pushed /\ node'[a].data > 0
    BY <1>2, <1>5, <2>1, <2>6 DEF ListInv
  <2>7. head' = head /\ tail' = tail
    BY <1>2 DEF tail
  <2>8. \A a \in Items' :
          \/ node'[a].prev = tail' /\ node'[a].data = Pushed'
          \/ node'[a].prev \in Items' /\ node'[node'[a].prev].data = node'[a].data + 1
    BY <1>3, <1>4, <2>2, <2>7
  <2>9. \A a, b \in Items' : node'[a].data = node'[b].data => a = b
    BY <1>4, <2>5
  <2>10. \A a \in Items' : node'[a].data \in node'[head'].data..Pushed' /\ node'[a].data > 0
    BY <1>3, <1>4, <2>6
  <2>11. QED
    BY <1>3, <1>4, <2>3, <2>4, <2>7, <2>8, <2>9, <2>10 DEF ListInv
<1>11. SizeInv'
  <2>1. head # tail => node'[head].data = node[head].data /\ node[head].data \in Int
    BY <1>5, Constants DEF ListInv
  <2>2. Pushed \in Int
    BY Constants DEF MainInv, Pushed
  <2>3. QED
    BY <1>2, <1>3, <2>1, <2>2 DEF SizeInv, Idle, tail
<1>12. \A v \in Workers : Holding(v)' <=> Holding(v)
  BY <1>1, ThreadsDiffer DEF Holding
<1>13. HandInv'
  BY <1>1, <1>3, <1>4, <1>5, <1>12, ThreadsDiffer DEF HandInv
<1>14. CountInv'
  <2>1. \A i \in Tasks : Waiting(i)' <=> Waiting(i)
    BY <1>1, <1>3, <1>4, <1>5, <1>12 DEF Waiting
  <2>2. QED
    BY <2>1 DEF CountInv, GotTask
<1>15. ExitInv' /\ ResultInv'
  BY <1>1, <1>2, ThreadsDiffer DEF GotTask, ExitInv, ResultInv, TaskPixels, tail
<1>16. QED
  BY <1>7, <1>8, <1>9, <1>10, <1>11, <1>13, <1>14, <1>15

-----------------------------------------------------------------------------
(* The end of a round.                                                     *)

\* When end_pool has returned nothing waits any more.
LEMMA NothingWaits ==
  ASSUME IInv, TInv, pc[Main] = "ended"
  PROVE  /\ Items = {} /\ op = Idle /\ head = tail
         /\ Pushed = NumTasks
         /\ \A w \in Workers : pc[w] = "exited"
         /\ \A i \in Tasks : res[i] = round
<1> USE DEF IInv, TInv
<1>1. started /\ is_submit_done
  BY DEF MainInv
<1>2. \A w \in Workers : pc[w] = "exited"
  BY <1>1 DEF AliveInv, ExitInv
<1>3. 1 \in Workers
  BY SizesAssumption DEF Workers
<1>4. head = tail /\ Items = {}
  BY <1>1, <1>2, <1>3 DEF ExitInv, ListInv
<1>5. op = Idle
  BY <1>2 DEF OpInv, HeapInv, Ops
<1>6. Pushed = NumTasks
  BY <1>1 DEF DoneInv, Pushed
<1>7. \A i \in Tasks : ~Waiting(i)
  BY <1>2, <1>4, <1>6, Constants DEF Waiting, Holding
<1>8. QED
  BY <1>2, <1>4, <1>5, <1>6, <1>7 DEF CountInv

LEMMA ResetPoolStep == ASSUME IInv, TInv, ResetPool PROVE TInv'
<1> USE DEF IInv, TInv, PcInv, pictureVars, flagVars, mainVars, queueVars
<1>1. /\ Items = {} /\ op = Idle /\ head = tail /\ Pushed = NumTasks
      /\ \A w \in Workers : pc[w] = "exited"
      /\ \A i \in Tasks : res[i] = round
  BY NothingWaits DEF ResetPool
<1>2. /\ pc'[Main] = "caller" /\ \A w \in Workers : pc'[w] = "exited"
      /\ next' = 0 /\ started' = FALSE /\ is_submit_done' = FALSE
      /\ UNCHANGED <<client, queueVars, task, res, pictureVars>>
  BY <1>1, ThreadsDiffer DEF ResetPool, Goto
<1>3. Items' = {} /\ Pushed' = 0
  BY <1>1, <1>2 DEF Items, Pushed, tail
<1>4. HeapInv'
  BY <1>2 DEF HeapInv, tail
<1>5. MainInv'
  <2>1. round' = round + 1 /\ round \in 1..(Rounds + 1) /\ round <= Rounds
    BY DEF ResetPool, MainInv
  <2>2. queue_live' \in BOOLEAN /\ is_finish' \in BOOLEAN
    BY DEF ResetPool
  <2>3. started' \in BOOLEAN /\ is_submit_done' \in BOOLEAN /\ client' \in Clients
    BY <1>2 DEF MainInv
  <2>4. round' \in 1..(Rounds + 1)
    BY <2>1, Constants
  <2>5. QED
    BY <1>2, <2>2, <2>3, <2>4, Constants DEF MainInv
<1>6. OpInv'
  BY <1>1, <1>2 DEF OpInv, Idle
<1>7. ListInv' /\ SizeInv'
  BY <1>1, <1>2, <1>3 DEF ListInv, SizeInv, Idle, tail
<1>8. HandInv'
  BY <1>1, <1>2, ThreadsDiffer DEF HandInv, Holding
<1>9. CountInv'
  <2>1. \A i \in Tasks : Waiting(i)'
    BY <1>3, Constants DEF Waiting
  <2>2. round' = round + 1 /\ round \in Int
    BY DEF ResetPool, MainInv
  <2>3. QED
    BY <1>1, <1>2, <2>1, <2>2 DEF CountInv
<1>10. ExitInv' /\ ResultInv'
  BY <1>1, <1>2 DEF ExitInv, ResultInv, TaskPixels
<1>11. QED
  BY <1>4, <1>5, <1>6, <1>7, <1>8, <1>9, <1>10

LEMMA TInvNext == IInv /\ TInv /\ [Next]_vars => TInv'
<1> SUFFICES ASSUME IInv, TInv, [Next]_vars PROVE TInv'
  OBVIOUS
<1>1. CASE Submitter
  BY <1>1, SubmitStep, SubmitLockStep, SubmitPushStep, SubmitUnlockStep, StartPoolStep,
     SubmitDoneStep, EndPoolStep, JoinedStep, ResetPoolStep, FreePoolStep, WritePictureStep
     DEF Submitter
<1>2. ASSUME NEW w \in Workers, Worker(w) PROVE TInv'
  BY <1>2, TestDoneStep, TestEmptyStep, TryLockStep, GetTaskStep, GotTaskStep, UnlockStep,
     RunStep, ReadPairStep, StorePairStep DEF Worker
<1>3. CASE UNCHANGED vars
  <2>1. UNCHANGED <<pc, queueVars, task, res, round>> /\ Pushed' = Pushed
    BY <1>3 DEF vars, mainVars, Pushed
  <2>2. HeapInv' /\ ListInv' /\ SizeInv' /\ Items' = Items
    BY <2>1, ListKept
  <2>3. CountInv'
    BY <2>1, CountKept DEF Holding
  <2>4. HandInv' /\ OpInv'
    BY <2>1, <2>2 DEF TInv, HandInv, OpInv, Holding, queueVars, tail
  <2>5. MainInv' /\ ExitInv' /\ ResultInv'
    BY <1>3 DEF TInv, MainInv, ExitInv, ResultInv, TaskPixels, vars, flagVars, mainVars, queueVars,
            pictureVars, tail
  <2>6. QED
    BY <2>2, <2>3, <2>4, <2>5 DEF TInv
<1>4. QED
  BY <1>1, <1>2, <1>3 DEF Next, Finished

LEMMA SpecTInv == Spec => []TInv
BY SpecIInv, TInvInit, IInvInit, IInvNext, TInvNext, PTL DEF Spec

LEMMA TInvTypeOK == IInv /\ TInv => TypeOK
<1> SUFFICES ASSUME IInv, TInv PROVE TypeOK
  OBVIOUS
<1> USE DEF TInv
<1>1. node \in [Nodes -> Node] /\ live \subseteq Nodes /\ head \in live
  BY DEF HeapInv, ListInv, Items
<1>2. size \in 0..NumTasks
  <2>1. Pushed \in 0..NumTasks /\ (op.kind = "push" => Pushed < NumTasks)
    BY Constants DEF MainInv, Pushed, OpInv
  <2>2. op.kind = "pop" => NumTasks > 0
    <3>1. ASSUME op.kind = "pop" PROVE \E w \in Workers : task[w] \in Tasks
      BY <3>1, ThreadsDiffer DEF OpInv, HandInv
    <3>2. QED
      BY <3>1, Constants
  <2>3. op.kind \in {"idle", "push", "pop"}
    BY DEF HeapInv, Ops
  <2>4. CASE head = tail
    BY <2>1, <2>2, <2>3, <2>4, Constants DEF SizeInv
  <2>5. CASE head # tail
    <3>1. node[head].data \in 1..Pushed /\ (op.kind = "pop" => node[head].data > 1)
      BY <2>1, <2>5 DEF ListInv, OpInv
    <3>2. QED
      BY <2>1, <2>3, <2>5, <3>1, Constants DEF SizeInv
  <2>6. QED
    BY <2>4, <2>5
<1>3. lock \in Threads \cup {NoOne}
  BY DEF IInv, LockInv
<1>4. /\ is_submit_done \in BOOLEAN /\ is_finish \in BOOLEAN /\ queue_live \in BOOLEAN
      /\ next \in 0..NumTasks /\ started \in BOOLEAN /\ round \in 1..(Rounds + 1)
      /\ client \in Clients
  BY DEF MainInv
<1>5. task \in [Threads -> Tasks \cup {NULL}]
  BY DEF HandInv
<1>6. res \in [Tasks -> 0..Rounds]
  <2>1. ASSUME NEW i \in Tasks PROVE res[i] \in 0..Rounds
    <3>1. CASE round <= Rounds
      BY <3>1, Constants DEF CountInv, MainInv
    <3>2. CASE round = Rounds + 1
      <4>1. next = 0 /\ Pushed = 0
        BY <3>2, Constants DEF MainInv, Pushed
      <4>2. Waiting(i)
        BY <4>1, Constants DEF Waiting
      <4>3. QED
        BY <3>2, <4>2, Constants DEF CountInv, MainInv
    <3>3. QED
      BY <3>1, <3>2, Constants DEF MainInv
  <2>2. QED
    BY <2>1 DEF CountInv
<1>7. /\ coords \in 0..NumTasks /\ image \in [Tasks -> {"unset", "own", "junk"}]
      /\ \A w \in Workers : \A i \in DOMAIN result[w] : result[w][i] \in {"own", "junk"}
  BY DEF ResultInv
<1>8. QED
  BY <1>1, <1>2, <1>3, <1>4, <1>5, <1>6, <1>7 DEF TypeOK

\* The variables of thread_pool.c and of the list keep their types: among them
\* size, which counts tasks that are queued or half queued, and res, which no
\* task pushes beyond one run in a round.
THEOREM PoolTypes == Spec => []TypeOK
BY SpecIInv, SpecTInv, TInvTypeOK, PTL

\* Every task that was submitted has been run when end_pool of thread_pool.c
\* returns, and none more than once.
THEOREM PoolRunsOnce == Spec => []EveryTaskRunOnce
<1>1. IInv /\ TInv => EveryTaskRunOnce
  BY NothingWaits DEF EveryTaskRunOnce
<1>2. QED
  BY <1>1, SpecIInv, SpecTInv, PTL

-----------------------------------------------------------------------------
(* The list as a value.                                                    *)

Addresses == Nodes \cup {NULL}

\* What Chain's recursion computes
LEMMA ChainIs ==
  ASSUME node \in [Nodes -> Node]
  PROVE  \A n \in Nat : \A a \in Addresses :
           /\ Chain[<<n, a>>] \in Seq(Addresses)
           /\ n = 0 \/ a = tail \/ a = NULL => Chain[<<n, a>>] = <<>>
           /\ n > 0 /\ a # tail /\ a # NULL =>
                Chain[<<n, a>>] = <<a>> \o Chain[<<n - 1, node[a].prev>>]
<1> DEFINE D == Nat \X Addresses
           V == Seq(Addresses)
           Step(f, p) == IF p[1] = 0 \/ p[2] = tail \/ p[2] = NULL THEN <<>>
                         ELSE <<p[2]>> \o f[<<p[1] - 1, node[p[2]].prev>>]
           F == [f \in [D -> V] |-> [p \in D |-> Step(f, p)]]
           rank == [p \in D |-> p[1]]
<1>1. <<>> \in V /\ rank \in [D -> Nat]
  OBVIOUS
<1>2. ASSUME NEW a \in Addresses, a # NULL PROVE node[a].prev \in Addresses
  BY <1>2 DEF Addresses, Node
<1>3. ASSUME NEW f \in [D -> V], NEW p \in D PROVE Step(f, p) \in V
  <2>1. PICK n \in Nat, a \in Addresses : p = <<n, a>>
    OBVIOUS
  <2>2. CASE n = 0 \/ a = tail \/ a = NULL
    BY <2>1, <2>2
  <2>3. CASE ~(n = 0 \/ a = tail \/ a = NULL)
    <3>1. <<n - 1, node[a].prev>> \in D
      BY <1>2, <2>3
    <3>2. <<a>> \in V /\ f[<<n - 1, node[a].prev>>] \in V
      BY <3>1
    <3>3. <<a>> \o f[<<n - 1, node[a].prev>>] \in V
      BY <3>2, ConcatProperties
    <3>4. QED
      BY <2>1, <2>3, <3>3
  <2>4. QED
    BY <2>2, <2>3
<1>4. F \in [[D -> V] -> [D -> V]]
  <2> HIDE DEF Step, D, V
  <2>1. QED
    BY <1>3
<1>5. ASSUME NEW f \in [D -> V], NEW h \in [D -> V], NEW p \in D,
             \A e \in D : rank[e] < rank[p] => f[e] = h[e]
      PROVE  F[f][p] = F[h][p]
  <2>1. PICK n \in Nat, a \in Addresses : p = <<n, a>>
    OBVIOUS
  <2>2. CASE n = 0 \/ a = tail \/ a = NULL
    BY <2>1, <2>2
  <2>3. CASE ~(n = 0 \/ a = tail \/ a = NULL)
    <3>1. <<n - 1, node[a].prev>> \in D
      BY <1>2, <2>3
    <3>2. rank[<<n - 1, node[a].prev>>] = n - 1 /\ rank[p] = n
      BY <2>1, <3>1
    <3>3. f[<<n - 1, node[a].prev>>] = h[<<n - 1, node[a].prev>>]
      BY <1>5, <3>1, <3>2
    <3>4. Step(f, p) = Step(h, p)
      BY <2>1, <3>3
    <3>5. QED
      BY <3>4
  <2>4. QED
    BY <2>2, <2>3
<1>6. \E f \in [D -> V] : f = F[f]
  <2> HIDE DEF D, V, Step, F, rank
  <2>1. IsRecursion(F, D, V, rank)
    BY <1>1, <1>4, <1>5 DEF IsRecursion
  <2>2. HasSolution(F, D, V)
    BY <2>1, RecursionByRank
  <2>3. QED
    BY <2>2 DEF HasSolution
<1>7. PICK f \in [D -> V] : f = [p \in D |-> Step(f, p)]
  BY <1>6
<1>8. Chain = [p \in D |-> Step(Chain, p)]
  BY <1>7, Zenon DEF Chain, Addresses
<1>9. ASSUME NEW n \in Nat, NEW a \in Addresses
      PROVE  /\ n = 0 \/ a = tail \/ a = NULL => Chain[<<n, a>>] = <<>>
             /\ n > 0 /\ a # tail /\ a # NULL =>
                  Chain[<<n, a>>] = <<a>> \o Chain[<<n - 1, node[a].prev>>]
  <2>1. Chain[<<n, a>>] = Step(Chain, <<n, a>>)
    <3> HIDE DEF Step
    <3>1. <<n, a>> \in D
      OBVIOUS
    <3>2. QED
      BY <1>8, <3>1
  <2>2. QED
    BY <2>1
<1> DEFINE T == {n \in Nat : \A a \in Addresses : Chain[<<n, a>>] \in V}
<1>10. 0 \in T
  BY <1>1, <1>9
<1>11. ASSUME NEW n \in Nat, n \in T PROVE n + 1 \in T
  <2>1. ASSUME NEW a \in Addresses PROVE Chain[<<n + 1, a>>] \in V
    <3>1. CASE a = tail \/ a = NULL
      <4>1. n + 1 \in Nat
        OBVIOUS
      <4>2. Chain[<<n + 1, a>>] = <<>>
        BY <1>9, <3>1, <4>1
      <4>3. QED
        BY <1>1, <4>2
    <3>2. CASE a # tail /\ a # NULL
      <4>1. n + 1 \in Nat /\ n + 1 > 0 /\ (n + 1) - 1 = n
        OBVIOUS
      <4>2. Chain[<<n + 1, a>>] = <<a>> \o Chain[<<n, node[a].prev>>]
        BY <1>9, <3>2, <4>1
      <4>3. Chain[<<n, node[a].prev>>] \in V /\ <<a>> \in V
        BY <1>2, <1>11, <3>2
      <4>4. <<a>> \o Chain[<<n, node[a].prev>>] \in V
        BY <4>3, ConcatProperties
      <4>5. QED
        BY <4>2, <4>4
    <3>3. QED
      BY <3>1, <3>2
  <2>2. QED
    BY <2>1
<1> HIDE DEF T
<1>12. \A n \in Nat : n \in T
  BY <1>10, <1>11, Upwards
<1>13. ASSUME NEW n \in Nat, NEW a \in Addresses PROVE Chain[<<n, a>>] \in V
  BY <1>12 DEF T
<1>14. QED
  BY <1>9, <1>13

\* The tasks in the queue are consecutive.
LEMMA ItemWithData ==
  ASSUME TInv, head # tail, NEW x \in node[head].data..Pushed
  PROVE  \E a \in Items : node[a].data = x
<1> PICK F \in Nat : F = node[head].data
  BY Constants DEF TInv, ListInv
<1> DEFINE T == {m \in Nat : F + m <= Pushed => \E a \in Items : node[a].data = F + m}
<1>1. Pushed \in Int
  BY DEF TInv, MainInv, Pushed
<1>2. 0 \in T
  BY DEF TInv, ListInv
<1>3. ASSUME NEW m \in Nat, m \in T PROVE m + 1 \in T
  <2>1. SUFFICES ASSUME F + (m + 1) <= Pushed PROVE \E a \in Items : node[a].data = F + (m + 1)
    OBVIOUS
  <2>2. PICK a \in Items : node[a].data = F + m
    BY <1>1, <1>3, <2>1
  <2>3. node[a].data # Pushed
    BY <1>1, <2>1, <2>2
  <2>4. node[a].prev \in Items /\ node[node[a].prev].data = node[a].data + 1
    BY <2>2, <2>3 DEF TInv, ListInv
  <2>5. QED
    BY <2>2, <2>4
<1> HIDE DEF T
<1>4. x - F \in T
  BY <1>1, <1>2, <1>3, Upwards
<1>5. QED
  BY <1>1, <1>4 DEF T

\* There are as many addresses as tasks in the queue.
LEMMA EnoughNodes ==
  ASSUME TInv, head # tail
  PROVE  Cardinality(Nodes) \in Nat /\ Pushed < node[head].data + Cardinality(Nodes)
<1> PICK F \in Nat : F = node[head].data
  BY Constants DEF TInv, ListInv
<1> PICK f : f = [x \in F..Pushed |-> CHOOSE a \in Items : node[a].data = x]
  OBVIOUS
<1>1. Pushed \in Int
  BY DEF TInv, MainInv, Pushed
<1>2. \A x \in F..Pushed : f[x] \in Items /\ node[f[x]].data = x
  BY ItemWithData
<1>3. Items \subseteq Nodes
  BY DEF Items, TInv, HeapInv
<1>4. f \in [F..Pushed -> Nodes] /\ \A x, y \in F..Pushed : f[x] = f[y] => x = y
  BY <1>2, <1>3
<1>5. f \in Injection(F..Pushed, Nodes)
  BY <1>4 DEF Injection, IsInjective
<1>6. IsFiniteSet(Nodes)
  BY QueueAssumption
<1>7. Cardinality(Nodes) \in Nat /\ Cardinality(F..Pushed) <= Cardinality(Nodes)
  BY <1>5, <1>6, FS_Injection, FS_CardinalityType
<1>8. F <= Pushed
  BY DEF TInv, ListInv
<1>9. Cardinality(F..Pushed) = Pushed - F + 1
  <2>1. PICK p \in Int : p = Pushed
    BY <1>1
  <2>2. F \in Int /\ ~(F > p)
    BY <1>8, <2>1
  <2>3. Cardinality(F..p) = p - F + 1
    BY <2>2, FS_Interval
  <2>4. QED
    BY <2>1, <2>3
<1>10. QED
  BY <1>1, <1>7, <1>8, <1>9

\* From the node of a task on, the chain has the tasks pushed after it.
LEMMA ChainOfItems ==
  ASSUME TInv, NEW n \in Nat, NEW a \in Items, Pushed < node[a].data + n
  PROVE  /\ Chain[<<n, a>>] \in Seq(Addresses)
         /\ Len(Chain[<<n, a>>]) = Pushed - node[a].data + 1
         /\ \A i \in 1..(Pushed - node[a].data + 1) :
              Chain[<<n, a>>][i] \in Items /\ node[Chain[<<n, a>>][i]].data = node[a].data + i - 1
<1> PICK p \in Int : p = Pushed
  BY DEF TInv, MainInv, Pushed
<1> DEFINE Q(m, b) ==
             /\ Chain[<<m, b>>] \in Seq(Addresses)
             /\ Len(Chain[<<m, b>>]) = p - node[b].data + 1
             /\ \A i \in 1..(p - node[b].data + 1) :
                  /\ Chain[<<m, b>>][i] \in Items
                  /\ node[Chain[<<m, b>>][i]].data = node[b].data + i - 1
           T == {m \in Nat : \A b \in Items : p < node[b].data + m => Q(m, b)}
<1>1. tail \notin Items /\ NULL \notin Items /\ Items \subseteq Addresses
  BY Constants DEF TInv, HeapInv, Items, Addresses
<1>2. \A b \in Items : node[b].data \in Int /\ node[b].data <= p
  BY <1>1, Constants DEF TInv, ListInv, HeapInv, Node, Addresses
<1>3. 0 \in T
  BY <1>1, <1>2
<1>4. ASSUME NEW m \in Nat, m \in T PROVE m + 1 \in T
  <2>1. SUFFICES ASSUME NEW b \in Items, p < node[b].data + (m + 1) PROVE Q(m + 1, b)
    OBVIOUS
  <2> PICK x \in Int : x = node[b].data
    BY <1>2
  <2> PICK c : c = node[b].prev
    OBVIOUS
  <2>2. node \in [Nodes -> Node] /\ b \in Addresses /\ b # NULL /\ b # tail
    BY <1>1 DEF TInv, HeapInv
  <2>3. Chain[<<m + 1, b>>] = <<b>> \o Chain[<<m, c>>]
    <3>1. m + 1 \in Nat /\ m + 1 > 0 /\ (m + 1) - 1 = m
      OBVIOUS
    <3>2. QED
      BY <2>2, <3>1, ChainIs
  <2>4. CASE c = tail /\ x = p
    <3>1. Chain[<<m, c>>] = <<>>
      BY <2>2, <2>4, ChainIs, Constants DEF Addresses
    <3>2. Chain[<<m + 1, b>>] = <<b>>
      BY <2>3, <3>1
    <3>3. <<b>> \in Seq(Addresses) /\ Len(<<b>>) = 1 /\ <<b>>[1] = b
      BY <2>2
    <3>4. p - node[b].data + 1 = 1 /\ node[b].data + 1 - 1 = node[b].data
      BY <2>4
    <3>5. \A i \in 1..1 : <<b>>[i] \in Items /\ node[<<b>>[i]].data = node[b].data + i - 1
      BY <3>3, <3>4
    <3>6. QED
      BY <3>2, <3>3, <3>4, <3>5
  <2>5. CASE c \in Items /\ node[c].data = x + 1
    <3> PICK s : s = Chain[<<m, c>>]
      OBVIOUS
    <3>1. Q(m, c)
      <4>1. p < node[c].data + m
        BY <2>1, <2>5
      <4> HIDE DEF Q
      <4>2. QED
        BY <1>4, <2>5, <4>1
    <3>2. /\ s \in Seq(Addresses) /\ Len(s) = p - x
          /\ \A i \in 1..(p - x) : s[i] \in Items /\ node[s[i]].data = x + i
      <4>1. p - node[c].data + 1 = p - x
        BY <2>5
      <4>2. \A i \in 1..(p - x) : node[c].data + i - 1 = x + i
        BY <2>5
      <4>3. QED
        BY <3>1, <4>1, <4>2
    <3>3. <<b>> \in Seq(Addresses) /\ Len(<<b>>) = 1 /\ <<b>>[1] = b
      BY <2>2
    <3>4. /\ <<b>> \o s \in Seq(Addresses) /\ Len(<<b>> \o s) = p - x + 1
          /\ \A i \in 1..(p - x + 1) : (<<b>> \o s)[i] = IF i <= 1 THEN <<b>>[i] ELSE s[i - 1]
      <4>1. /\ <<b>> \o s \in Seq(Addresses) /\ Len(<<b>> \o s) = Len(<<b>>) + Len(s)
            /\ \A i \in 1..(Len(<<b>>) + Len(s)) :
                 (<<b>> \o s)[i] = IF i <= Len(<<b>>) THEN <<b>>[i] ELSE s[i - Len(<<b>>)]
        <5>1. <<b>> \in Seq(Addresses) /\ s \in Seq(Addresses)
          BY <3>2, <3>3
        <5>2. QED
          BY ONLY <5>1, ConcatProperties
      <4>2. Len(<<b>>) + Len(s) = p - x + 1
        BY <3>2, <3>3
      <4>3. QED
        BY <3>3, <4>1, <4>2
    <3>5. ASSUME NEW i \in 1..(p - x + 1)
          PROVE  (<<b>> \o s)[i] \in Items /\ node[(<<b>> \o s)[i]].data = x + i - 1
      <4>1. CASE i = 1
        BY <3>3, <3>4, <4>1
      <4>2. CASE i # 1
        <5>1. i - 1 \in 1..(p - x) /\ x + (i - 1) = x + i - 1
          BY <1>1, <4>2
        <5>2. (<<b>> \o s)[i] = s[i - 1]
          BY <1>1, <3>4, <4>2
        <5>3. QED
          BY <3>2, <5>1, <5>2
      <4>3. QED
        BY <4>1, <4>2
    <3>6. QED
      BY <2>3, <3>4, <3>5
  <2>6. QED
    BY <2>4, <2>5 DEF TInv, ListInv
<1> HIDE DEF T
<1>5. n \in T
  BY <1>3, <1>4, Upwards
<1>6. QED
  BY <1>5 DEF T

\* What Queued is
QueuedInv ==
  /\ Queued \in Seq(Nodes)
  /\ Len(Queued) = IF head = tail THEN 0 ELSE Pushed - node[head].data + 1
  /\ \A i \in 1..Len(Queued) : Queued[i] \in Items /\ node[Queued[i]].data = node[head].data + i - 1

LEMMA TInvQueued == TInv => QueuedInv
<1> SUFFICES ASSUME TInv PROVE QueuedInv
  OBVIOUS
<1>1. Items \subseteq Nodes /\ Cardinality(Nodes) \in Nat /\ node \in [Nodes -> Node]
  BY QueueAssumption, FS_CardinalityType DEF Items, TInv, HeapInv
<1>2. CASE head = tail
  <2>1. Chain[<<Cardinality(Nodes), head>>] = <<>>
    BY <1>1, <1>2, ChainIs, Constants DEF Addresses
  <2>2. QED
    BY <1>2, <2>1 DEF QueuedInv, Queued
<1>3. CASE head # tail
  <2> PICK L : L = Pushed - node[head].data + 1
    OBVIOUS
  <2>1. head \in Items
    BY <1>3 DEF TInv, ListInv
  <2>2. Pushed < node[head].data + Cardinality(Nodes)
    BY <1>3, EnoughNodes
  <2>3. /\ Queued \in Seq(Addresses) /\ Len(Queued) = L
        /\ \A i \in 1..L : Queued[i] \in Items /\ node[Queued[i]].data = node[head].data + i - 1
    BY <1>1, <2>1, <2>2, ChainOfItems DEF Queued
  <2>4. Queued \in Seq(Nodes)
    BY <1>1, <2>3
  <2>5. QED
    BY <1>3, <2>3, <2>4 DEF QueuedInv
<1>4. QED
  BY <1>2, <1>3

-----------------------------------------------------------------------------
(* The list between push and pop.                                          *)

\* next is the inverse of prev, but for the node that a push has still to
\* redirect; the node at the head has no next, but for one that a pop has still
\* to clear.
LinkInv ==
  /\ \A a \in Items : (node[a].prev = tail /\ op.kind = "push") \/ node[node[a].prev].next = a
  /\ op.kind = "push" => node[op.node].next = IF head = tail THEN NULL ELSE op.temp
  /\ op.kind = "idle" \/ (op.kind = "push" /\ head # tail) => node[head].next = NULL

LEMMA LinkInit == Init => LinkInv
<1>1. ASSUME Init PROVE Items = {} /\ node[head].next = NULL /\ op.kind = "idle"
  BY <1>1, QueueAssumption DEF Init, QueueInit, Items, tail, Idle, NullNode
<1>2. QED
  BY <1>1 DEF LinkInv

LEMMA LinkPushBegin ==
  ASSUME IInv, TInv, LinkInv, PushBegin(task[Main])
  PROVE  LinkInv'
<1>1. PICK a \in Nodes \ live :
        /\ node' = [node EXCEPT ![a] = [next |-> node[tail].next, prev |-> tail, data |-> task[Main]],
                                ![tail].next = a]
        /\ live' = live \cup {a}
        /\ op' = [kind |-> "push", node |-> a, temp |-> node[tail].next]
        /\ head' = head
  BY DEF PushBegin
<1>2. op = Idle
  BY DEF PushBegin
<1>3. a # tail /\ node \in [Nodes -> Node] /\ tail \in live /\ live \subseteq Nodes
  BY <1>1 DEF TInv, HeapInv
<1>4. Items' = Items /\ Items \subseteq Nodes /\ a \notin Items /\ tail \notin Items
  BY <1>1, <1>2, <1>3, Constants DEF Items, Idle, tail
<1>5. \A b \in Nodes \ {a, tail} : node'[b] = node[b]
  BY <1>1, <1>3
<1>6. node'[a].next = node[tail].next
  BY <1>1, <1>3
<1>7. tail' = tail /\ op'.kind = "push" /\ op'.node = a /\ op'.temp = node[tail].next /\ op.kind = "idle"
  BY <1>1, <1>2 DEF tail, Idle
<1>8. ASSUME NEW b \in Items' PROVE node'[b].prev = tail \/ node'[node'[b].prev].next = b
  <2>1. node'[b] = node[b]
    BY <1>3, <1>4, <1>5, <1>8
  <2>2. CASE node[b].prev = tail
    BY <2>1, <2>2
  <2>3. CASE node[b].prev \in Items
    <3>1. node'[node[b].prev] = node[node[b].prev]
      BY <1>3, <1>4, <1>5, <2>3
    <3>2. node[node[b].prev].next = b
      BY <1>4, <1>7, <1>8, <2>3 DEF LinkInv
    <3>3. QED
      BY <2>1, <3>1, <3>2
  <2>4. QED
    BY <1>4, <1>8, <2>2, <2>3 DEF TInv, ListInv
<1>9. node[head].next = NULL
  BY <1>7 DEF LinkInv
<1>10. head # tail => node'[head] = node[head]
  BY <1>3, <1>4, <1>5 DEF TInv, ListInv
<1>11. QED
  BY <1>1, <1>6, <1>7, <1>8, <1>9, <1>10 DEF LinkInv

LEMMA LinkPushEnd ==
  ASSUME IInv, TInv, LinkInv, PushEnd
  PROVE  LinkInv'
<1>1. /\ op.kind = "push" /\ op' = Idle /\ live' = live /\ op'.kind = "idle" /\ tail' = tail
      /\ op.node \in live /\ op.node # tail /\ node[op.node].prev = tail /\ node[tail].next = op.node
      /\ node \in [Nodes -> Node] /\ tail \in live /\ live \subseteq Nodes
  BY DEF PushEnd, TInv, OpInv, HeapInv, Idle, tail
<1>2. Items' = Items \cup {op.node} /\ op.node \notin Items /\ tail \notin Items /\ Items \subseteq Nodes
  BY <1>1, Constants DEF Items, Idle
<1>3. CASE head = tail
  <2>1. Items' = {op.node} /\ head' = op.node /\ node' = node
    BY <1>2, <1>3 DEF PushEnd, is_q_empty, TInv, ListInv
  <2>2. node[op.node].next = NULL
    BY <1>1, <1>3 DEF LinkInv
  <2>3. QED
    BY <1>1, <2>1, <2>2 DEF LinkInv
<1>4. CASE head # tail
  <2>1. /\ head' = head /\ head \in Items /\ op.temp \in Items
        /\ node[op.node].next = op.temp /\ node[head].next = NULL
        /\ node[op.temp].data = Pushed
        /\ node' = [node EXCEPT ![op.temp].prev = op.node]
    BY <1>1, <1>4 DEF PushEnd, is_q_empty, TInv, ListInv, OpInv, LinkInv
  <2>2. /\ \A b \in Nodes \ {op.temp} : node'[b] = node[b]
        /\ \A b \in Nodes : node'[b].next = node[b].next
        /\ node'[op.temp].prev = op.node
    BY <1>1, <1>2, <2>1 DEF Node
  <2>3. ASSUME NEW b \in Items' PROVE node'[node'[b].prev].next = b
    <3>1. CASE b = op.node
      BY <1>1, <1>2, <2>1, <2>2, <3>1
    <3>2. CASE b = op.temp
      BY <1>1, <2>1, <2>2, <3>2
    <3>3. CASE b \in Items /\ b # op.temp
      <4>1. node'[b] = node[b]
        BY <1>2, <2>2, <3>3
      <4>2. node[b].data # Pushed
        BY <2>1, <3>3 DEF TInv, ListInv
      <4>3. node[b].prev \in Items /\ node[b].prev # tail
        BY <1>2, <3>3, <4>2 DEF TInv, ListInv
      <4>4. node[node[b].prev].next = b
        BY <3>3, <4>3 DEF LinkInv
      <4>5. QED
        BY <1>2, <2>2, <4>1, <4>3, <4>4
    <3>4. QED
      BY <1>2, <3>1, <3>2, <3>3
  <2>4. node'[head'].next = NULL
    BY <1>2, <2>1, <2>2
  <2>5. QED
    BY <1>1, <2>3, <2>4 DEF LinkInv
<1>5. QED
  BY <1>3, <1>4

LEMMA LinkPopBegin ==
  ASSUME IInv, TInv, LinkInv, PopBegin
  PROVE  LinkInv'
<1>1. /\ op = Idle /\ op.kind = "idle" /\ tail' = tail /\ live' = live /\ node' = node
      /\ op' = [kind |-> "pop", node |-> head, temp |-> NULL]
      /\ node \in [Nodes -> Node]
  BY DEF PopBegin, Idle, TInv, HeapInv, tail
<1>2. Items' \subseteq Items
  BY <1>1, Constants DEF Items, Idle, TInv, HeapInv
<1>3. QED
  BY <1>1, <1>2 DEF LinkInv

LEMMA LinkPopEnd ==
  ASSUME IInv, TInv, LinkInv, PopEnd
  PROVE  LinkInv'
<1>1. /\ op.kind = "pop" /\ op' = Idle /\ op'.kind = "idle" /\ head' = head /\ tail' = tail
      /\ op.node \in live \ {tail} /\ live' = live \ {op.node}
      /\ node' = [node EXCEPT ![head].next = NULL, ![op.node] = NullNode]
      /\ node \in [Nodes -> Node] /\ tail \in live /\ live \subseteq Nodes
  BY DEF PopEnd, TInv, OpInv, HeapInv, Idle, tail
<1>2. /\ Items' = Items /\ op.node \notin Items /\ tail \notin Items /\ Items \subseteq Nodes
      /\ head \in Nodes /\ head # op.node
  BY <1>1, Constants DEF Items, Idle, TInv, ListInv
<1>3. /\ \A b \in Nodes \ {op.node, head} : node'[b] = node[b]
      /\ \A b \in Nodes \ {op.node} : node'[b].prev = node[b].prev
      /\ node'[head].next = NULL
  BY <1>1, <1>2 DEF Node
<1>4. ASSUME NEW b \in Items' PROVE node'[node'[b].prev].next = b
  <2>1. node'[b].prev = node[b].prev /\ node[node[b].prev].next = b
    BY <1>1, <1>2, <1>3, <1>4 DEF LinkInv
  <2>2. node[b].prev \in Nodes \ {op.node, head}
    <3>1. node[head].data \in Int /\ node[b].data \in Int /\ node[b].data >= node[head].data /\ head \in Items
      BY <1>2, <1>4, Constants DEF TInv, ListInv, HeapInv, Node
    <3>2. CASE node[b].prev = tail
      BY <1>1, <1>2, <3>1, <3>2
    <3>3. CASE node[b].prev \in Items /\ node[node[b].prev].data = node[b].data + 1
      BY <1>2, <3>1, <3>3
    <3>4. QED
      BY <1>2, <1>4, <3>2, <3>3 DEF TInv, ListInv
  <2>3. QED
    BY <1>3, <2>1, <2>2
<1>5. QED
  BY <1>1, <1>3, <1>4 DEF LinkInv

\* Which steps there are, to the list
LEMMA ListSteps ==
  ASSUME [Next]_vars
  PROVE  \/ UNCHANGED queueVars
         \/ pc[Main] = "push" /\ PushBegin(task[Main]) /\ UNCHANGED <<pc, next>>
         \/ pc[Main] = "push" /\ PushEnd /\ Goto(Main, "unlock") /\ UNCHANGED next
         \/ \E w \in Workers : PopBegin /\ Goto(w, "popEnd") /\ UNCHANGED next
         \/ \E w \in Workers : PopEnd /\ Goto(w, "unlock") /\ UNCHANGED next
<1>1. CASE Submitter
  BY <1>1 DEF Submitter, Submit, SubmitLock, SubmitPush, SubmitUnlock, StartPool, Started, SubmitDone,
     EndPool, Joined, ResetPool, FreePool, WritePicture, mainVars
<1>2. ASSUME NEW w \in Workers, Worker(w)
      PROVE  \/ UNCHANGED queueVars
             \/ PopBegin /\ Goto(w, "popEnd") /\ UNCHANGED next
             \/ PopEnd /\ Goto(w, "unlock") /\ UNCHANGED next
  BY <1>2 DEF Worker, TestDone, TestEmpty, TryLock, GetTask, GotTask, Unlock, Run, ReadPair, StorePair,
     mainVars
<1>3. CASE UNCHANGED vars
  BY <1>3 DEF vars
<1>4. QED
  BY <1>1, <1>2, <1>3 DEF Next, Finished

LEMMA LinkStep == IInv /\ TInv /\ LinkInv /\ [Next]_vars => LinkInv'
<1> SUFFICES ASSUME IInv, TInv, LinkInv, [Next]_vars PROVE LinkInv'
  OBVIOUS
<1>1. CASE UNCHANGED queueVars
  BY <1>1 DEF queueVars, LinkInv, Items, tail
<1>2. QED
  BY <1>1, ListSteps, LinkPushBegin, LinkPushEnd, LinkPopBegin, LinkPopEnd

LEMMA ListIsIntact == TInv /\ QueuedInv /\ LinkInv => ListIntact
<1> SUFFICES ASSUME TInv, QueuedInv, LinkInv, op = Idle PROVE ListIntact
  BY DEF ListIntact
<1>1. op.kind = "idle" /\ Items = live \ {tail} /\ tail \in live /\ live \subseteq Nodes
  BY Constants DEF Idle, Items, TInv, HeapInv
<1>2. Pushed \in Int /\ \A a \in Items : node[a].data \in node[head].data..Pushed
  BY DEF TInv, ListInv, MainInv, Pushed
<1>3. ASSUME NEW a \in Items PROVE \E i \in 1..Len(Queued) : Queued[i] = a
  <2>1. head \in Items /\ head # tail
    BY <1>1, <1>3 DEF TInv, ListInv
  <2>2. node[head].data \in Int /\ Len(Queued) = Pushed - node[head].data + 1
    BY <1>2, <2>1 DEF QueuedInv, TInv, ListInv
  <2>3. PICK i \in 1..Len(Queued) : i = node[a].data - node[head].data + 1
    BY <1>2, <1>3, <2>2
  <2>4. Queued[i] \in Items /\ node[Queued[i]].data = node[a].data
    BY <1>2, <2>2, <2>3 DEF QueuedInv
  <2>5. QED
    BY <1>3, <2>4 DEF TInv, ListInv
<1>4. live = {Queued[i] : i \in 1..Len(Queued)} \cup {tail}
  BY <1>1, <1>3 DEF QueuedInv
<1>5. size = Len(Queued)
  <2>1. size = IF head = tail THEN 0 ELSE Pushed - node[head].data + 1
    <3>1. head # tail => node[head].data \in Int
      BY <1>1, Constants DEF TInv, ListInv, HeapInv, Node
    <3>2. QED
      BY <1>1, <1>2, <3>1 DEF TInv, SizeInv
  <2>2. QED
    BY <2>1 DEF QueuedInv
<1>6. node[head].next = NULL /\ \A i \in 1..Len(Queued) : node[node[Queued[i]].prev].next = Queued[i]
  BY <1>1 DEF LinkInv, QueuedInv
<1>7. QED
  BY <1>4, <1>5, <1>6 DEF ListIntact

\* The doubly linked list of queue.c is in order whenever nobody is inside push
\* or pop: its links are each other's inverses, no node is lost, and size is how
\* many there are.
THEOREM ListStaysIntact == Spec => []ListIntact
<1>1. Init => LinkInv
  BY LinkInit
<1>2. IInv /\ TInv /\ LinkInv /\ [Next]_vars => LinkInv'
  BY LinkStep
<1>3. TInv /\ LinkInv => ListIntact
  BY TInvQueued, ListIsIntact
<1>4. QED
  BY <1>1, <1>2, <1>3, SpecIInv, SpecTInv, PTL DEF Spec

-----------------------------------------------------------------------------
(* The queue is first in, first out.                                       *)

\* The abstract queue
QueueItems == [i \in 1..Len(Queued) |-> node[Queued[i]].data]

\* It holds the tasks from that of the head to the last that was pushed.
LEMMA FifoIs ==
  ASSUME TInv, QueuedInv
  PROVE  /\ head = tail => QueueItems = <<>>
         /\ head # tail =>
              /\ node[head].data \in Nat /\ Pushed \in Nat /\ node[head].data <= Pushed
              /\ QueueItems = [i \in 1..(Pushed - node[head].data + 1) |-> node[head].data + i - 1]
<1>1. CASE head = tail
  BY <1>1 DEF QueueItems, QueuedInv
<1>2. CASE head # tail
  <2>1. node[head].data \in Nat /\ Pushed \in Nat /\ node[head].data <= Pushed
    BY <1>2, Constants DEF TInv, ListInv, MainInv, Pushed
  <2>2. QueueItems = [i \in 1..(Pushed - node[head].data + 1) |-> node[head].data + i - 1]
    BY <1>2 DEF QueueItems, QueuedInv
  <2>3. QED
    BY <1>2, <2>1, <2>2
<1>3. QED
  BY <1>1, <1>2

\* Consecutive numbers with one more at the end, or one less at the beginning
LEMMA Consecutive ==
  ASSUME NEW x \in Nat, NEW y \in Nat, x <= y
  PROVE  /\ Append([i \in 1..(y - x + 1) |-> x + i - 1], y + 1) = [i \in 1..((y + 1) - x + 1) |-> x + i - 1]
         /\ Tail([i \in 1..(y - x + 1) |-> x + i - 1]) = [i \in 1..(y - (x + 1) + 1) |-> (x + 1) + i - 1]
         /\ [i \in 1..(y - x + 1) |-> x + i - 1] # <<>>
<1> PICK n \in Nat : n = y - x + 1 /\ n > 0
  OBVIOUS
<1> PICK s : s = [i \in 1..n |-> x + i - 1]
  OBVIOUS
<1>1. s \in Seq(Nat) /\ Len(s) = n /\ \A i \in 1..n : s[i] = x + i - 1
  OBVIOUS
<1>2. s # <<>>
  BY <1>1
<1>3. Append(s, y + 1) = [i \in 1..(n + 1) |-> x + i - 1]
  <2>1. Append(s, y + 1) = [i \in 1..(n + 1) |-> IF i = n + 1 THEN y + 1 ELSE s[i]]
    BY <1>1
  <2>2. \A i \in 1..(n + 1) : (IF i = n + 1 THEN y + 1 ELSE s[i]) = x + i - 1
    BY <1>1
  <2>3. QED
    BY <2>1, <2>2
<1>4. Tail(s) = [i \in 1..(n - 1) |-> (x + 1) + i - 1]
  <2>1. Tail(s) = [i \in 1..(n - 1) |-> s[i + 1]]
    BY <1>1, <1>2
  <2>2. \A i \in 1..(n - 1) : s[i + 1] = (x + 1) + i - 1
    BY <1>1
  <2>3. QED
    BY <2>1, <2>2
<1>5. (y + 1) - x + 1 = n + 1 /\ y - (x + 1) + 1 = n - 1
  OBVIOUS
<1>6. QED
  BY <1>2, <1>3, <1>4, <1>5

LEMMA FifoPush ==
  ASSUME IInv, TInv, TInv', QueuedInv, QueuedInv', pc[Main] = "push", PushEnd, Goto(Main, "unlock"),
         UNCHANGED next
  PROVE  \E d \in Tasks : QueueItems' = Append(QueueItems, d)
<1>1. /\ op.kind = "push" /\ op.node \in Nodes
      /\ node[op.node].data = Pushed + 1
      /\ (head # tail => op.temp \in Nodes)
      /\ node \in [Nodes -> Node] /\ tail' = tail /\ tail \notin Items /\ op.node # tail
  BY DEF PushEnd, TInv, OpInv, HeapInv, Items, tail
<1>2. Pushed' = Pushed + 1 /\ Pushed + 1 \in Tasks /\ Pushed \in Nat
  BY ThreadsDiffer, Constants DEF Goto, Pushed, IInv, PcInv, TInv, MainInv
<1>3. CASE head = tail
  <2>1. head' = op.node /\ node' = node
    BY <1>3 DEF PushEnd, is_q_empty
  <2>2. QueueItems = <<>>
    BY <1>3, FifoIs
  <2>3. head' # tail'
    BY <1>1, <2>1
  <2>4. /\ node'[head'].data = Pushed + 1
        /\ QueueItems' = [i \in 1..(Pushed' - node'[head'].data + 1) |-> node'[head'].data + i - 1]
    BY <1>1, <2>1, <2>3 DEF QueueItems, QueuedInv
  <2>5. QueueItems' = <<Pushed + 1>>
    <3>1. 1..(Pushed' - node'[head'].data + 1) = 1..1
      BY <1>2, <2>4
    <3>2. \A i \in 1..1 : node'[head'].data + i - 1 = Pushed + 1
      BY <1>2, <2>4
    <3>3. QED
      BY <2>4, <3>1, <3>2
  <2>6. QED
    BY <1>2, <2>2, <2>5
<1>4. CASE head # tail
  <2>1. head' = head /\ node' = [node EXCEPT ![op.temp].prev = op.node]
    BY <1>4 DEF PushEnd, is_q_empty
  <2>2. head \in Nodes /\ node'[head'].data = node[head].data
    BY <1>1, <2>1 DEF TInv, ListInv, HeapInv, Items, Node
  <2>3. QueueItems' = [i \in 1..(Pushed' - node'[head'].data + 1) |-> node'[head'].data + i - 1]
    BY <1>1, <1>4, <2>1 DEF QueueItems, QueuedInv
  <2> PICK x \in Nat, y \in Nat : x = node[head].data /\ y = Pushed /\ x <= y
    BY <1>4, FifoIs
  <2>4. QueueItems = [i \in 1..(y - x + 1) |-> x + i - 1]
    BY <1>4, FifoIs
  <2>5. QueueItems' = [i \in 1..((y + 1) - x + 1) |-> x + i - 1]
    BY <1>2, <2>2, <2>3
  <2>6. QueueItems' = Append(QueueItems, y + 1)
    BY <2>4, <2>5, Consecutive
  <2>7. QED
    BY <1>2, <2>6
<1>5. QED
  BY <1>3, <1>4

LEMMA FifoPop ==
  ASSUME IInv, TInv, TInv', QueuedInv, QueuedInv', NEW w \in Workers, PopBegin, Goto(w, "popEnd"),
         UNCHANGED next
  PROVE  QueueItems # <<>> /\ QueueItems' = Tail(QueueItems)
<1>1. head # tail /\ node' = node /\ head' = node[head].prev /\ tail' = tail /\ head \in Items
  BY DEF PopBegin, is_q_empty, TInv, ListInv, tail
<1>2. Pushed' = Pushed
  BY ThreadsDiffer DEF Goto, Pushed, IInv, PcInv
<1> PICK x \in Nat, y \in Nat : x = node[head].data /\ y = Pushed /\ x <= y
  BY <1>1, FifoIs
<1>3. QueueItems = [i \in 1..(y - x + 1) |-> x + i - 1]
  BY <1>1, FifoIs
<1>4. QueueItems # <<>> /\ Tail(QueueItems) = [i \in 1..(y - (x + 1) + 1) |-> (x + 1) + i - 1]
  BY <1>3, Consecutive
<1>5. CASE head' = tail /\ node[head].data = Pushed
  <2>1. QueueItems' = <<>>
    BY <1>1, <1>5 DEF QueueItems, QueuedInv
  <2>2. y - (x + 1) + 1 = 0
    BY <1>5
  <2>3. QED
    BY <1>4, <2>1, <2>2
<1>6. CASE head' \in Items /\ node[head'].data = node[head].data + 1
  <2>1. head' # tail'
    BY <1>1, <1>6 DEF Items
  <2>2. QueueItems' = [i \in 1..(Pushed' - node'[head'].data + 1) |-> node'[head'].data + i - 1]
    BY <2>1 DEF QueueItems, QueuedInv
  <2>3. Pushed' = y /\ node'[head'].data = x + 1
    BY <1>1, <1>2, <1>6
  <2>4. QED
    BY <1>4, <2>2, <2>3
<1>7. QED
  BY <1>1, <1>5, <1>6 DEF TInv, ListInv

\* Between the two steps of a push the new task is not seen from the head, and
\* what is left to do of a pop does not touch the list.
LEMMA FifoKept ==
  ASSUME TInv, TInv', QueuedInv, QueuedInv', head' = head,
         head # tail => node'[head].data = node[head].data /\ Pushed' = Pushed
  PROVE  QueueItems' = QueueItems
<1>1. tail' = tail
  BY DEF tail
<1>2. CASE head = tail
  BY <1>1, <1>2 DEF QueueItems, QueuedInv
<1>3. CASE head # tail
  <2>1. QueueItems' = [i \in 1..(Pushed' - node'[head'].data + 1) |-> node'[head'].data + i - 1]
    BY <1>1, <1>3 DEF QueueItems, QueuedInv
  <2>2. QED
    BY <1>3, <2>1, FifoIs
<1>4. QED
  BY <1>2, <1>3

LEMMA FifoStep ==
  ASSUME IInv, TInv, TInv', QueuedInv, QueuedInv', [Next]_vars
  PROVE  \/ QueueItems # <<>> /\ QueueItems' = Tail(QueueItems)
         \/ \E d \in Tasks : QueueItems' = Append(QueueItems, d)
         \/ QueueItems' = QueueItems
<1> USE ThreadsDiffer
<1>1. head # tail => head \in Items /\ head \in Nodes /\ head # op.node
  BY DEF TInv, ListInv, Items, HeapInv
<1>2. node \in [Nodes -> Node]
  BY DEF TInv, HeapInv
<1>3. CASE UNCHANGED queueVars
  BY <1>3 DEF queueVars, QueueItems, Queued, Chain, tail
<1>4. CASE pc[Main] = "push" /\ PushBegin(task[Main]) /\ UNCHANGED <<pc, next>>
  <2>1. Pushed' = Pushed
    BY <1>4 DEF Pushed
  <2>2. head' = head
    BY <1>4 DEF PushBegin
  <2>3. head # tail => node'[head] = node[head]
    BY <1>1, <1>2, <1>4 DEF PushBegin, Items
  <2>4. QED
    BY <2>1, <2>2, <2>3, FifoKept
<1>5. CASE pc[Main] = "push" /\ PushEnd /\ Goto(Main, "unlock") /\ UNCHANGED next
  BY <1>5, FifoPush
<1>6. ASSUME NEW w \in Workers, PopBegin, Goto(w, "popEnd"), UNCHANGED next
      PROVE  QueueItems # <<>> /\ QueueItems' = Tail(QueueItems)
  BY <1>6, FifoPop
<1>7. ASSUME NEW w \in Workers, PopEnd, Goto(w, "unlock"), UNCHANGED next
      PROVE  QueueItems' = QueueItems
  <2>1. Pushed' = Pushed
    BY <1>7 DEF Goto, Pushed, IInv, PcInv
  <2>2. head' = head /\ node' = [node EXCEPT ![head].next = NULL, ![op.node] = NullNode]
    BY <1>7 DEF PopEnd
  <2>3. head # tail => node'[head].data = node[head].data
    BY <1>1, <1>2, <2>2 DEF Node
  <2>4. QED
    BY <2>1, <2>2, <2>3, FifoKept
<1>8. QED
  BY <1>3, <1>4, <1>5, <1>6, <1>7, ListSteps

\* In spite of the steps inside push and pop, of those who read head without the
\* lock, and of the rounds, the queue that thread_pool.c uses is a queue: its
\* steps are those of a push, a pop or nothing at all.
THEOREM PoolIsFifo == Spec => FirstInFirstOut
<1>1. Init /\ TInv /\ QueuedInv => Abstract!Init
  <2>1. ASSUME Init, TInv, QueuedInv PROVE QueueItems = <<>>
    BY <2>1, FifoIs DEF Init, QueueInit, tail
  <2>2. QED
    BY <2>1 DEF QueueItems, Abstract!Init
<1>2. IInv /\ TInv /\ TInv' /\ QueuedInv /\ QueuedInv' /\ [Next]_vars
        => [Abstract!Next]_([i \in 1..Len(Queued) |-> node[Queued[i]].data])
  BY FifoStep DEF QueueItems, Abstract!Next, Abstract!Push, Abstract!Pop
<1>3. QED
  BY <1>1, <1>2, TInvQueued, SpecIInv, SpecTInv, PTL DEF Spec, FirstInFirstOut, Abstract!Spec

-----------------------------------------------------------------------------
(* The picture.                                                            *)

\* The pixels that nobody computes before they have coordinates
Settled(i) == client = one_ver \/ i <= StartAt + 1

\* The programs that compute a picture use the pool for one round, and start
\* it when the settled pixels have their coordinates.
CoordsInv ==
  client # test =>
    /\ \A w \in Workers : pc[w] # "unborn" => started
    /\ coords >= next
    /\ started /\ client = one_ver => next = NumTasks /\ coords = NumTasks
    /\ started /\ client = all_in_one => next >= StartAt /\ coords > StartAt

\* A task that was run has put its pixel into the picture, or is about to; a
\* settled pixel is only ever computed from its own coordinates.
PictureInv ==
  client # test =>
    /\ \A i \in Tasks : image[i] = "junk" => ~Settled(i)
    /\ \A w \in Workers : pc[w] = "store" =>
         \A i \in TaskPixels(w) : result[w][i] = "junk" => ~Settled(i)
    /\ \A i \in Tasks : Waiting(i) \/ image[i] # "unset"
                        \/ \E w \in Workers : pc[w] = "store" /\ task[w] = i

LEMMA PictureInit == Init => CoordsInv /\ PictureInv
<1> SUFFICES ASSUME Init PROVE CoordsInv /\ PictureInv
  OBVIOUS
<1>1. \A w \in Workers : pc[w] = "unborn"
  BY ThreadsDiffer DEF Init
<1>2. Pushed = 0
  BY ThreadsDiffer DEF Init, Pushed
<1>3. \A i \in Tasks : Waiting(i)
  BY <1>2, Constants DEF Waiting
<1>4. CoordsInv
  BY <1>1 DEF Init, CoordsInv
<1>5. PictureInv
  BY <1>1, <1>3 DEF Init, PictureInv
<1>6. QED
  BY <1>4, <1>5

LEMMA CoordsStep ==
  ASSUME IInv, TInv, CoordsInv, [Next]_vars
  PROVE  CoordsInv'
<1> USE DEF CoordsInv, Goto, pictureVars, flagVars, mainVars
<1>1. /\ NumTasks \in Nat /\ next \in 0..NumTasks /\ coords \in 0..NumTasks /\ StartAt \in Nat
      /\ client \in {test, one_ver, all_in_one} /\ one_ver # test /\ all_in_one # test /\ one_ver # all_in_one
  BY Constants, ClientAssumption DEF TInv, MainInv, ResultInv, test, one_ver, all_in_one
<1>2. CASE Submit
  BY <1>1, <1>2, ThreadsDiffer DEF Submit, IInv, PcInv
<1>3. CASE StartPool
  BY <1>1, <1>3, ThreadsDiffer DEF StartPool, Started, IInv, PcInv
<1>4. CASE SubmitLock \/ SubmitPush \/ SubmitUnlock \/ SubmitDone \/ EndPool \/ Joined
           \/ ResetPool \/ FreePool \/ WritePicture
  BY <1>1, <1>4, ThreadsDiffer DEF SubmitLock, SubmitPush, SubmitUnlock, SubmitDone, EndPool, Joined,
     ResetPool, FreePool, WritePicture, IInv, PcInv
<1>5. ASSUME NEW w \in Workers, Worker(w) PROVE CoordsInv'
  <2>1. pc[w] # "unborn" /\ UNCHANGED <<client, next, started, coords>>
    BY <1>5 DEF Worker, TestDone, TestEmpty, TryLock, GetTask, GotTask, Unlock, Run, ReadPair, StorePair
  <2>2. \A v \in Workers : pc'[v] # "unborn" => pc[v] # "unborn"
    BY <1>5, ThreadsDiffer DEF Worker, TestDone, TestEmpty, TryLock, GetTask, GotTask, Unlock, Run,
       ReadPair, StorePair, IInv, PcInv
  <2>3. QED
    BY <2>1, <2>2
<1>6. CASE UNCHANGED vars
  BY <1>6 DEF vars
<1>7. QED
  BY <1>2, <1>3, <1>4, <1>5, <1>6 DEF Next, Submitter, Finished

\* A step that neither runs a task nor stores pixels
LEMMA PictureKept ==
  ASSUME PictureInv, UNCHANGED <<client, result, image>>,
         \A i \in Tasks : Waiting(i) => Waiting(i)',
         \A w \in Workers : /\ pc'[w] = "store" <=> pc[w] = "store"
                            /\ pc[w] = "store" => task'[w] = task[w]
  PROVE  PictureInv'
<1>1. \A i : Settled(i)' <=> Settled(i)
  BY DEF Settled
<1>2. \A w \in Workers : pc[w] = "store" => TaskPixels(w)' = TaskPixels(w)
  BY DEF TaskPixels
<1>3. QED
  BY <1>1, <1>2 DEF PictureInv
\* The steps that touch the picture, and all others
LEMMA PictureSteps ==
  ASSUME IInv, TInv, [Next]_vars
  PROVE  \/ \E w \in Workers : Run(w) \/ ReadPair(w) \/ StorePair(w)
         \/ ResetPool
         \/ /\ UNCHANGED <<client, result, image>>
            /\ \A w \in Workers : /\ pc'[w] = "store" <=> pc[w] = "store"
                                  /\ pc[w] = "store" => task'[w] = task[w]
            /\ res' = res /\ round' = round
<1> USE DEF Goto, pictureVars, flagVars, mainVars
<1>1. CASE Submitter
  <2>1. CASE StartPool
    <3>1. \A w \in Workers : pc[w] # "store"
      BY <2>1 DEF StartPool, IInv, AliveInv
    <3>2. QED
      BY <2>1, <3>1, ThreadsDiffer DEF StartPool, Started
  <2>2. CASE Submit
    BY <2>2, ThreadsDiffer DEF Submit, IInv, PcInv, TInv, HandInv
  <2>3. CASE SubmitLock \/ SubmitPush \/ SubmitUnlock \/ SubmitDone \/ EndPool \/ Joined
             \/ FreePool \/ WritePicture
    BY <2>3, ThreadsDiffer DEF SubmitLock, SubmitPush, SubmitUnlock, SubmitDone, EndPool, Joined,
       FreePool, WritePicture, IInv, PcInv
  <2>4. QED
    BY <1>1, <2>1, <2>2, <2>3 DEF Submitter
<1>2. ASSUME NEW w \in Workers,
             TestDone(w) \/ TestEmpty(w) \/ TryLock(w) \/ GetTask(w) \/ GotTask(w) \/ Unlock(w)
      PROVE  /\ UNCHANGED <<client, result, image>>
             /\ \A v \in Workers : /\ pc'[v] = "store" <=> pc[v] = "store"
                                   /\ pc[v] = "store" => task'[v] = task[v]
             /\ res' = res /\ round' = round
  <2>1. /\ pc[w] # "store" /\ UNCHANGED <<client, result, image, res, round>>
        /\ \A v \in Threads \ {w} : task'[v] = task[v]
    BY <1>2 DEF TestDone, TestEmpty, TryLock, GetTask, GotTask, Unlock, TInv, HandInv
  <2>2. pc'[w] # "store" /\ \A v \in Threads \ {w} : pc'[v] = pc[v]
    BY <1>2, ThreadsDiffer DEF TestDone, TestEmpty, TryLock, GetTask, GotTask, Unlock, IInv, PcInv
  <2>3. ASSUME NEW v \in Workers
        PROVE  (pc'[v] = "store" <=> pc[v] = "store") /\ (pc[v] = "store" => task'[v] = task[v])
    <3>1. CASE v = w
      BY <2>1, <2>2, <3>1
    <3>2. CASE v # w
      <4>1. v \in Threads \ {w}
        BY <3>2, ThreadsDiffer
      <4>2. QED
        BY <2>1, <2>2, <4>1
    <3>3. QED
      BY <3>1, <3>2
  <2>4. QED
    BY <2>1, <2>3
<1>3. CASE UNCHANGED vars
  BY <1>3 DEF vars
<1>4. QED
  BY <1>1, <1>2, <1>3 DEF Next, Finished, Worker

\* Which tasks were run is told by res: it never becomes less.
LEMMA WaitingKept ==
  ASSUME TInv, TInv', res' = res, round' = round, NEW i \in Tasks, Waiting(i)
  PROVE  Waiting(i)'
<1>1. res[i] = round - 1 /\ round \in Int
  BY DEF TInv, CountInv, MainInv
<1>2. ~Waiting(i)' => res'[i] = round'
  BY DEF TInv, CountInv
<1>3. QED
  BY <1>1, <1>2

LEMMA PictureStep ==
  ASSUME IInv, TInv, TInv', CoordsInv, PictureInv, [Next]_vars
  PROVE  PictureInv'
<1> USE DEF Goto, pictureVars, flagVars, mainVars
<1>1. /\ NumTasks \in Nat /\ coords \in 0..NumTasks /\ StartAt \in Nat
      /\ client \in {test, one_ver, all_in_one} /\ one_ver # test /\ all_in_one # test
  BY Constants, ClientAssumption DEF TInv, MainInv, ResultInv, test, one_ver, all_in_one
<1>2. CASE client = test /\ client' = client
  BY <1>2 DEF PictureInv, test
<1>3. ASSUME NEW w \in Workers, ReadPair(w) PROVE PictureInv'
  <2>1. /\ pc[w] = "run" /\ client # test /\ UNCHANGED <<client, task, image, round, queueVars, mainVars>>
        /\ pc'[w] = "store" /\ \A v \in Workers \ {w} : pc'[v] = pc[v] /\ result'[v] = result[v]
        /\ pc'[Main] = pc[Main]
        /\ result'[w] = [i \in TaskPixels(w) |-> IF i <= coords THEN "own" ELSE "junk"]
    BY <1>3, ThreadsDiffer DEF ReadPair, IInv, PcInv, TInv, ResultInv
  <2>2. (\A i : Settled(i)' <=> Settled(i)) /\ \A v \in Workers : TaskPixels(v)' = TaskPixels(v)
    BY <2>1 DEF Settled, TaskPixels
  <2>3. ASSUME NEW i \in TaskPixels(w), result'[w][i] = "junk" PROVE ~Settled(i)
    <3>1. i > coords /\ i \in Tasks
      BY <1>1, <2>1, <2>3, Constants DEF TaskPixels
    <3>2. started
      BY <2>1 DEF CoordsInv
    <3>3. QED
      BY <1>1, <2>1, <3>1, <3>2, Constants DEF CoordsInv, Settled
  <2>4. ASSUME NEW i \in Tasks, ~(\E v \in Workers : pc'[v] = "store" /\ task'[v] = i), image'[i] = "unset"
        PROVE  Waiting(i)'
    <3>1. i # task[w] /\ image[i] = "unset" /\ ~(\E v \in Workers : pc[v] = "store" /\ task[v] = i)
      BY <2>1, <2>4
    <3>2. Waiting(i)
      BY <2>1, <3>1 DEF PictureInv
    <3>3. Pushed' = Pushed /\ Items' = Items /\ node' = node
      BY <2>1 DEF Pushed, Items, queueVars, tail
    <3>4. \A v \in Workers \ {w} : Holding(v)' <=> Holding(v)
      BY <2>1 DEF Holding
    <3>5. QED
      BY <2>1, <3>1, <3>2, <3>3, <3>4 DEF Waiting
  <2>5. QED
    BY <2>1, <2>2, <2>3, <2>4 DEF PictureInv
<1>4. ASSUME NEW w \in Workers, StorePair(w) PROVE PictureInv'
  <2>1. /\ pc[w] = "store" /\ UNCHANGED <<client, res, round, queueVars, mainVars>>
        /\ pc'[w] = "testDone" /\ \A v \in Workers \ {w} : pc'[v] = pc[v] /\ result'[v] = result[v] /\ task'[v] = task[v]
        /\ image' = [i \in Tasks |-> IF i \in TaskPixels(w) THEN result[w][i] ELSE image[i]]
        /\ result[w] \in [TaskPixels(w) -> {"own", "junk"}]
        /\ task[w] \in Tasks
    BY <1>4, ThreadsDiffer DEF StorePair, IInv, PcInv, TInv, ResultInv, HandInv
  <2>2. (\A i : Settled(i)' <=> Settled(i)) /\ \A v \in Workers \ {w} : TaskPixels(v)' = TaskPixels(v)
    BY <2>1 DEF Settled, TaskPixels
  <2>3. CASE client = test
    BY <2>1, <2>3 DEF PictureInv
  <2>4. CASE client # test
    <3>1. ASSUME NEW i \in Tasks, image'[i] = "junk" PROVE ~Settled(i)
      BY <2>1, <2>4, <3>1 DEF PictureInv
    <3>2. ASSUME NEW v \in Workers, pc'[v] = "store", NEW i \in TaskPixels(v)', result'[v][i] = "junk"
          PROVE  ~Settled(i)
      <4>1. v # w /\ pc[v] = "store" /\ i \in TaskPixels(v) /\ result[v][i] = "junk"
        BY <2>1, <2>2, <3>2
      <4>2. QED
        BY <2>4, <4>1 DEF PictureInv
    <3>3. ASSUME NEW i \in Tasks, ~(\E v \in Workers : pc'[v] = "store" /\ task'[v] = i), image'[i] = "unset"
          PROVE  Waiting(i)'
      <4>1. i \notin TaskPixels(w) /\ image[i] = "unset"
        BY <2>1, <3>3
      <4>2. i # task[w]
        BY <2>1, <4>1 DEF TaskPixels
      <4>3. ~(\E v \in Workers : pc[v] = "store" /\ task[v] = i)
        BY <2>1, <3>3, <4>2
      <4>4. Waiting(i)
        BY <2>4, <4>1, <4>3 DEF PictureInv
      <4>5. QED
        BY <2>1, <4>4, WaitingKept
    <3>4. QED
      BY <2>2, <3>1, <3>2, <3>3 DEF PictureInv
  <2>5. QED
    BY <2>3, <2>4
<1>5. CASE ResetPool \/ \E w \in Workers : Run(w)
  BY <1>2, <1>5 DEF ResetPool, Run
<1>6. CASE /\ UNCHANGED <<client, result, image>>
           /\ \A w \in Workers : /\ pc'[w] = "store" <=> pc[w] = "store"
                                 /\ pc[w] = "store" => task'[w] = task[w]
           /\ res' = res /\ round' = round
  <2>1. \A i \in Tasks : Waiting(i) => Waiting(i)'
    BY <1>6, WaitingKept
  <2>2. QED
    BY <1>6, <2>1, PictureKept
<1>7. QED
  BY <1>3, <1>4, <1>5, <1>6, PictureSteps

\* Nothing waits any more when the picture has been written.
LEMMA PictureDone ==
  ASSUME IInv, TInv, PictureInv
  PROVE  PictureOwn
<1> SUFFICES ASSUME pc[Main] = "done", client # test, NEW i \in Tasks
             PROVE  image[i] = "own" \/ (client = all_in_one /\ i > StartAt + 1 /\ image[i] = "junk")
  BY DEF PictureOwn
<1>1. started /\ is_submit_done
  BY DEF TInv, MainInv
<1>2. \A w \in Workers : pc[w] = "exited"
  BY <1>1 DEF IInv, AliveInv, TInv, ExitInv
<1>3. 1 \in Workers
  BY SizesAssumption DEF Workers
<1>4. Items = {}
  BY <1>1, <1>2, <1>3 DEF TInv, ExitInv, ListInv
<1>5. Pushed = NumTasks
  BY <1>1 DEF IInv, DoneInv, Pushed
<1>6. ~Waiting(i)
  BY <1>2, <1>4, <1>5, Constants DEF Waiting, Holding
<1>7. image[i] # "unset" /\ image[i] \in {"unset", "own", "junk"}
  BY <1>2, <1>6 DEF PictureInv, TInv, ResultInv
<1>8. client \in {test, one_ver, all_in_one} /\ StartAt \in Nat
  BY ClientAssumption DEF TInv, MainInv
<1>9. QED
  BY <1>7, <1>8, Constants DEF PictureInv, Settled

\* The pictures of hw2a's early versions: every pixel is computed in the end,
\* and from its own coordinates unless all_in_one was still assigning them.
THEOREM PictureIsOwn == Spec => []PictureOwn
<1>1. Init => CoordsInv /\ PictureInv
  BY PictureInit
<1>2. IInv /\ TInv /\ TInv' /\ CoordsInv /\ PictureInv /\ [Next]_vars => (CoordsInv /\ PictureInv)'
  BY CoordsStep, PictureStep
<1>3. IInv /\ TInv /\ PictureInv => PictureOwn
  BY PictureDone
<1>4. QED
  BY <1>1, <1>2, <1>3, SpecIInv, SpecTInv, PTL DEF Spec
=============================================================================
