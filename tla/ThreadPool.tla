----------------------------- MODULE ThreadPool -----------------------------
(***************************************************************************)
(* hw2/libs/thread_pool/thread_pool.c on the queue of LinkedQueue, with    *)
(* its users: one thread submits NumTasks tasks, starts the workers, calls *)
(* submit_done and joins them with end_pool.  test is hw2/test/test.cc's   *)
(* test_thread_pool, which starts them somewhere along the way and in the  *)
(* end frees the pool or resets it for another round; one_ver and          *)
(* all_in_one are early versions of hw2a, with a task for each pixel.      *)
(*                                                                         *)
(* A worker polls: it reads is_submit_done and the queue without the lock, *)
(* tries the lock, and goes round again when it did not get it.            *)
(***************************************************************************)
EXTENDS LinkedQueue, FiniteSets

CONSTANTS NumTasks,     \* tasks submitted in a round
          ThreadsNum,   \* threads_num
          Rounds,       \* rounds in which the submitter uses the pool (bound)
          Clients,      \* the users that are explored
          StartAt       \* cpu_num * cpu_num, the pixel at which all_in_one starts the pool

Tasks   == 1..NumTasks
Workers == 1..ThreadsNum
Main    == 0
Threads == {Main} \cup Workers
NoOne   == -1

test       == "test"
one_ver    == "one_ver"
all_in_one == "all_in_one"

ASSUME QueueAssumption ==
  Data = Tasks /\ NULL \notin Nodes /\ Dummy \in Nodes /\ IsFiniteSet(Nodes)
ASSUME SizesAssumption == NumTasks \in Nat /\ ThreadsNum \in Nat \ {0} /\ Rounds \in Nat
ASSUME ClientAssumption ==
  Clients \subseteq {test, one_ver, all_in_one} /\ StartAt \in 0..(NumTasks - 1)

VARIABLES
  client,
  lock,            \* pool->lock: its owner
  is_submit_done,
  is_finish,
  queue_live,      \* pool->queue was not freed
  pc,
  task,            \* each worker's task; for Main, the one it submits
  next,            \* the tasks submitted in this round
  started,         \* start_pool was called in this round
  round,
  res,             \* tas[i].res: how often the task was run
  coords,          \* how many pixels have their x0s[] and y0s[]
  result,          \* what each worker has computed of its task's pixels
  image            \* the coordinates each pixel was computed from

pictureVars == <<coords, result, image>>
flagVars == <<is_submit_done, is_finish, queue_live>>
mainVars == <<next, started, round>>
vars == <<client, queueVars, lock, flagVars, pc, task, mainVars, res, pictureVars>>

Goto(t, l) == pc' = [pc EXCEPT ![t] = l]

Init ==
  /\ client \in Clients
  /\ QueueInit
  /\ lock = NoOne
  /\ is_submit_done = FALSE /\ is_finish = FALSE /\ queue_live = TRUE
  /\ pc = [t \in Threads |-> IF t = Main THEN "caller" ELSE "unborn"]
  /\ task = [t \in Threads |-> NULL]
  /\ next = 0 /\ started = FALSE /\ round = 1
  /\ res = [i \in Tasks |-> 0]
  /\ coords = 0
  /\ result = [w \in Workers |-> <<>>]
  /\ image = [i \in Tasks |-> "unset"]

-----------------------------------------------------------------------------
(* The submitter.                                                          *)

\* submit: a call after submit_done is dropped.  The programs that compute a
\* picture assign the coordinates of the task's pixel first.
Submit ==
  /\ pc[Main] = "caller" /\ round <= Rounds
  /\ next < NumTasks
  /\ client = all_in_one /\ next = StartAt => started
  /\ ~is_submit_done
  /\ next' = next + 1
  /\ task' = [task EXCEPT ![Main] = next + 1]
  /\ coords' = IF client = test THEN coords ELSE next + 1
  /\ Goto(Main, "lock")
  /\ UNCHANGED <<client, queueVars, lock, flagVars, started, round, res, result, image>>

SubmitLock ==
  /\ pc[Main] = "lock"
  /\ lock = NoOne
  /\ lock' = Main
  /\ Goto(Main, "push")
  /\ UNCHANGED <<client, pictureVars, queueVars, flagVars, task, mainVars, res>>

SubmitPush ==
  /\ pc[Main] = "push"
  /\ \/ PushBegin(task[Main]) /\ UNCHANGED pc
     \/ PushEnd /\ Goto(Main, "unlock")
  /\ UNCHANGED <<client, pictureVars, lock, flagVars, task, mainVars, res>>

SubmitUnlock ==
  /\ pc[Main] = "unlock"
  /\ lock' = NoOne
  /\ Goto(Main, "caller")
  /\ UNCHANGED <<client, pictureVars, queueVars, flagVars, task, mainVars, res>>

Started ==
  /\ started' = TRUE
  /\ pc' = [t \in Threads |-> IF t = Main THEN pc[t] ELSE "testDone"]
  /\ UNCHANGED <<client, queueVars, lock, flagVars, task, next, round, res, result, image>>

\* A plausible slip: one_ver starts the pool where all_in_one does (a line that
\* is commented out in its source).
MutantStartPool ==
  /\ pc[Main] = "caller" /\ round <= Rounds
  /\ ~started
  /\ client = all_in_one => next = StartAt
  /\ coords' = IF client = all_in_one THEN next + 1 ELSE coords
  /\ Started

\* start_pool: test calls it anywhere, one_ver after its last task, all_in_one
\* at pixel StartAt, which has its coordinates by then.
StartPool ==
  /\ pc[Main] = "caller" /\ round <= Rounds
  /\ ~started
  /\ client = one_ver => next = NumTasks
  /\ client = all_in_one => next = StartAt
  /\ coords' = IF client = all_in_one THEN next + 1 ELSE coords
  /\ Started

SubmitDone ==
  /\ pc[Main] = "caller"
  /\ next = NumTasks
  /\ client = one_ver => started
  /\ ~is_submit_done
  /\ is_submit_done' = TRUE
  /\ UNCHANGED <<client, pictureVars, queueVars, lock, is_finish, queue_live, pc, task, mainVars, res>>

\* end_pool: the caller blocks in the first pthread_join...
EndPool ==
  /\ pc[Main] = "caller"
  /\ started /\ is_submit_done
  /\ Goto(Main, "join")
  /\ UNCHANGED <<client, pictureVars, queueVars, lock, flagVars, task, mainVars, res>>

\* ... and gets through the last when every worker has exited.
Joined ==
  /\ pc[Main] = "join"
  /\ \A w \in Workers : pc[w] = "exited"
  /\ is_finish' = TRUE
  /\ Goto(Main, "ended")
  /\ UNCHANGED <<client, pictureVars, queueVars, lock, is_submit_done, queue_live, task, mainVars, res>>

\* resest_pool: the queue is freed, and no new one created.
ResetPool ==
  /\ client = test
  /\ pc[Main] = "ended" /\ is_finish
  /\ queue_live' = FALSE
  /\ is_finish' = FALSE /\ is_submit_done' = FALSE
  /\ next' = 0 /\ started' = FALSE /\ round' = round + 1
  /\ Goto(Main, "caller")
  /\ UNCHANGED <<client, pictureVars, queueVars, lock, task, res>>

\* free_pool
FreePool ==
  /\ client = test
  /\ pc[Main] = "ended" /\ is_finish
  /\ queue_live' = FALSE
  /\ Goto(Main, "done")
  /\ UNCHANGED <<client, pictureVars, queueVars, lock, is_submit_done, is_finish, task, mainVars, res>>

\* write_png
WritePicture ==
  /\ client # test
  /\ pc[Main] = "ended"
  /\ Goto(Main, "done")
  /\ UNCHANGED <<client, pictureVars, queueVars, lock, flagVars, task, mainVars, res>>

-----------------------------------------------------------------------------
(* worker                                                                  *)

\* A plausible slip: the loop condition is an "and".
MutantTestDone(t) ==
  /\ pc[t] = "testDone"
  /\ Goto(t, IF is_submit_done \/ is_q_empty THEN "exited" ELSE "try")
  /\ UNCHANGED <<client, pictureVars, queueVars, lock, flagVars, task, mainVars, res>>

\* A plausible slip: the loop waits for is_finish, which end_pool sets last.
MutantTestFinish(t) ==
  /\ pc[t] = "testDone"
  /\ Goto(t, IF is_finish THEN "testEmpty" ELSE "try")
  /\ UNCHANGED <<client, pictureVars, queueVars, lock, flagVars, task, mainVars, res>>

TestDone(t) ==
  /\ pc[t] = "testDone"
  /\ Goto(t, IF is_submit_done THEN "testEmpty" ELSE "try")
  /\ UNCHANGED <<client, pictureVars, queueVars, lock, flagVars, task, mainVars, res>>

TestEmpty(t) ==
  /\ pc[t] = "testEmpty"
  /\ Goto(t, IF is_q_empty THEN "exited" ELSE "try")
  /\ UNCHANGED <<client, pictureVars, queueVars, lock, flagVars, task, mainVars, res>>

\* A plausible slip: the result of pthread_mutex_trylock is not looked at.
MutantTryLock(t) ==
  /\ pc[t] = "try"
  /\ lock' = IF lock = NoOne THEN t ELSE lock
  /\ Goto(t, "pop")
  /\ UNCHANGED <<client, pictureVars, queueVars, flagVars, task, mainVars, res>>

TryLock(t) ==
  /\ pc[t] = "try"
  /\ lock' = IF lock = NoOne THEN t ELSE lock
  /\ Goto(t, IF lock = NoOne THEN "pop" ELSE "testDone")
  /\ UNCHANGED <<client, pictureVars, queueVars, flagVars, task, mainVars, res>>

\* get_task, when the queue is not empty
GetTask(t) ==
  /\ pc[t] = "pop"
  /\ IF is_q_empty
     THEN Goto(t, "unlock") /\ UNCHANGED <<queueVars, task>>
     ELSE /\ PopBegin
          /\ task' = [task EXCEPT ![t] = node[head].data]
          /\ Goto(t, "popEnd")
  /\ UNCHANGED <<client, pictureVars, lock, flagVars, mainVars, res>>

GotTask(t) ==
  /\ pc[t] = "popEnd"
  /\ PopEnd
  /\ Goto(t, "unlock")
  /\ UNCHANGED <<client, pictureVars, lock, flagVars, task, mainVars, res>>

Unlock(t) ==
  /\ pc[t] = "unlock"
  /\ lock' = NoOne
  /\ Goto(t, IF task[t] # NULL THEN "run" ELSE "testDone")
  /\ UNCHANGED <<client, pictureVars, queueVars, flagVars, task, mainVars, res>>

\* task->func(task->arg) of test, a counter; is_has_task is 0 again
Run(t) ==
  /\ pc[t] = "run"
  /\ client = test
  /\ res' = [res EXCEPT ![task[t]] = @ + 1]
  /\ task' = [task EXCEPT ![t] = NULL]
  /\ Goto(t, "testDone")
  /\ UNCHANGED <<client, pictureVars, queueVars, lock, flagVars, mainVars>>

\* The pixels of a task: its own, and some that follow (four in all in one_ver,
\* granularity = 16 in all_in_one; a pair here), as far as there are any.
TaskPixels(t) == {task[t], task[t] + 1} \cap Tasks

\* thread_task of the others: core_cal_sse2_sig reads the coordinates of a pair
\* of pixels ...
ReadPair(t) ==
  /\ pc[t] = "run"
  /\ client # test
  /\ res' = [res EXCEPT ![task[t]] = @ + 1]
  /\ result' = [result EXCEPT ![t] =
        [i \in TaskPixels(t) |-> IF i <= coords THEN "own" ELSE "junk"]]
  /\ Goto(t, "store")
  /\ UNCHANGED <<client, queueVars, lock, flagVars, task, mainVars, coords, image>>

\* ... and stores how many iterations they took.
StorePair(t) ==
  /\ pc[t] = "store"
  /\ image' = [i \in Tasks |-> IF i \in TaskPixels(t) THEN result[t][i] ELSE image[i]]
  /\ result' = [result EXCEPT ![t] = <<>>]
  /\ task' = [task EXCEPT ![t] = NULL]
  /\ Goto(t, "testDone")
  /\ UNCHANGED <<client, queueVars, lock, flagVars, mainVars, res, coords>>

-----------------------------------------------------------------------------
Submitter ==
  \/ Submit \/ SubmitLock \/ SubmitPush \/ SubmitUnlock
  \/ StartPool \/ SubmitDone \/ EndPool \/ Joined
  \/ ResetPool \/ FreePool \/ WritePicture

Worker(t) ==
  \/ TestDone(t) \/ TestEmpty(t) \/ TryLock(t)
  \/ GetTask(t) \/ GotTask(t) \/ Unlock(t)
  \/ Run(t) \/ ReadPair(t) \/ StorePair(t)

\* The caller has no use for the pool any more.
Finished ==
  /\ \/ pc[Main] = "done"
     \/ pc[Main] = "caller" /\ round > Rounds
  /\ UNCHANGED vars

Next == Submitter \/ (\E w \in Workers : Worker(w)) \/ Finished

Spec == Init /\ [][Next]_vars

\* Every thread runs.  Nothing is assumed of the mutex: a pthread mutex may
\* pass over a waiting thread for ever.
FairSpec == Spec /\ WF_vars(Submitter) /\ \A w \in Workers : WF_vars(Worker(w))

-----------------------------------------------------------------------------
(* Properties.                                                             *)

TypeOK ==
  /\ node \in [Nodes -> Node] /\ live \subseteq Nodes /\ head \in live
  /\ size \in 0..NumTasks
  /\ lock \in Threads \cup {NoOne}
  /\ is_submit_done \in BOOLEAN /\ is_finish \in BOOLEAN /\ queue_live \in BOOLEAN
  /\ task \in [Threads -> Tasks \cup {NULL}]
  /\ next \in 0..NumTasks /\ started \in BOOLEAN /\ round \in 1..(Rounds + 1)
  /\ res \in [Tasks -> 0..Rounds]
  /\ client \in Clients /\ coords \in 0..NumTasks
  /\ \A w \in Workers : \A i \in DOMAIN result[w] : result[w][i] \in {"own", "junk"}
  /\ image \in [Tasks -> {"unset", "own", "junk"}]

\* The nodes between head and tail, head first.
Queued == Chain[<<Cardinality(Nodes), head>>]

\* The queue is one chain of live nodes: when nobody is inside push or pop the
\* next links are the inverse of the prev links, the end of the chain is the
\* dummy, nothing is leaked and size counts the nodes.
ListIntact ==
  op = Idle =>
    /\ live = {Queued[i] : i \in 1..Len(Queued)} \cup {tail}
    /\ size = Len(Queued)
    /\ node[head].next = NULL
    /\ \A i \in 1..Len(Queued) : node[node[Queued[i]].prev].next = Queued[i]

\* In spite of the steps inside push and pop, and of the readers that do not
\* take the lock, the queue is first in, first out.
Abstract == INSTANCE Fifo WITH
  Data <- Tasks, items <- [i \in 1..Len(Queued) |-> node[Queued[i]].data]
FirstInFirstOut == Abstract!Spec

\* Submitter and workers, one blocking in lock and the others polling trylock,
\* never touch the list at the same time: push and pop hold the lock.
QueueExclusive ==
  \A t, u \in Threads :
    pc[t] \in {"push", "pop", "popEnd"} /\ pc[u] \in {"push", "pop", "popEnd"} => t = u

\* test.cc: when end_pool returns, every task has been run, and once.
EveryTaskRunOnce == pc[Main] = "ended" => \A i \in Tasks : res[i] = round

\* What the picture is made of: one_ver computes every pixel from its own
\* coordinates, though two tasks compute each.  In all_in_one, whose tasks go
\* beyond their pixel while coordinates are still being assigned, a late task
\* may leave junk where the pixel's own task had been, but no pixel up to the
\* one that started the pool is touched.
PictureOwn ==
  pc[Main] = "done" /\ client # test =>
    \A i \in Tasks :
      \/ image[i] = "own"
      \/ client = all_in_one /\ i > StartAt + 1 /\ image[i] = "junk"

\* A worker leaves only when there is nothing left that it could be needed
\* for: the caller has submitted its last task and the queue is empty.
LeaveOnlyWhenDone ==
  [][\A w \in Workers : pc[w] # "exited" /\ pc'[w] = "exited" =>
       next = NumTasks /\ is_q_empty /\ pc[Main] \in {"caller", "join"}]_vars

\* Once the caller waits in end_pool the pool drains and lets it go, though
\* the workers poll for a mutex that is not fair.
EndPoolReturns == pc[Main] = "join" ~> pc[Main] = "ended"

\* resest_pool's comment: the pool is reset and can be used again.  Refuted:
\* its queue is freed memory from then on.
NoUseAfterFree ==
  /\ pc[Main] \in {"push", "unlock"} => queue_live
  /\ \A w \in Workers : pc[w] \in {"testEmpty", "pop", "popEnd"} => queue_live
=============================================================================
