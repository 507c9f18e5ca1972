---------------------------- MODULE MasterSlave ----------------------------
(***************************************************************************)
(* hw2/hw2b.cc: rank 0 runs two threads.  The main thread takes chunks of  *)
(* pixels and computes them; the communication thread takes chunks, sends  *)
(* them to the slaves, three ahead each, and one more for every answer.    *)
(* Both take chunks with assign_task under one mutex.  At the end the      *)
(* bytes of the picture are merged with MPI_Reduce.                        *)
(*                                                                         *)
(* MPI is external: messages from one process to another arrive in order,  *)
(* a receive from MPI_ANY_SOURCE takes any sender that has one waiting,    *)
(* and an MPI_Isend of a few bytes has copied its buffer when it returns.  *)
(***************************************************************************)
EXTENDS Integers, Sequences, FiniteSets, FiniteSetsExt

CONSTANTS CpuNum,     \* cpu_num
          CommSize,   \* comm_size
          Shapes      \* the pictures explored: pairs <<width, height>>

ASSUME CommAssumption == CommSize \in Nat /\ CommSize >= 2
ASSUME CpuAssumption == CpuNum \in Nat \ {0}
ASSUME ShapesAssumption == Shapes \subseteq (Nat \ {0}) \X (Nat \ {0})

Master == 0
Slaves == 1..(CommSize - 1)
Procs  == {Master} \cup Slaves

VARIABLES
  width, height,
  ps_p,           \* the first pixel nobody was assigned
  lock,           \* the mutex of assign_task: "none", "main" or "comm"
  pc,             \* pc["main"] and pc["comm"]
  ps_size,        \* the chunk each of the two has been assigned
  tkq, i,         \* the communication thread's loop variables
  to,             \* status.MPI_SOURCE: the slave it answers
  not_recv_task,
  chan,           \* chan[s]: the messages on their way to slave s
  ack,            \* ack[s]: the answers on their way from slave s
  spc,            \* where each slave is
  job,            \* the chunk each slave computes
  raw_img,        \* raw_img[r]: the pixels in rank r's raw_img
  picture         \* the bytes of the picture that is written

threadVars == <<lock, pc, ps_size, ps_p>>
commVars   == <<tkq, i, to, not_recv_task>>
slaveVars  == <<spc, job>>
vars == <<width, height, threadVars, commVars, chan, ack, slaveVars, raw_img, picture>>

area   == width * height
Pixels == 0..(area - 1)
Chunks == [ps : 0..area, size : 0..area]
None   == [ps |-> 0, size |-> 0]
Done   == [tag |-> "done"]
Working(c) == [tag |-> "working", task |-> c]
PixelsOf(c) == c.ps..(c.ps + c.size - 1)

\* set_chunk_size
Chunk ==
  LET upper == area \div (CpuNum * CommSize * CpuNum * CommSize)
  IN  IF upper = 0 THEN 2 ELSE 2 * upper

Init ==
  /\ \E shape \in Shapes : width = shape[1] /\ height = shape[2]
  /\ ps_p = 0
  /\ lock = "none"
  /\ pc = [main |-> "lock", comm |-> "first"]
  /\ ps_size = [main |-> None, comm |-> None]
  /\ tkq = 0 /\ i = 1 /\ to = 0 /\ not_recv_task = 0
  /\ chan = [s \in Slaves |-> <<>>]
  /\ ack = [s \in Slaves |-> 0]
  /\ spc = [s \in Slaves |-> "recv"]
  /\ job = [s \in Slaves |-> None]
  /\ raw_img = [r \in Procs |-> {}]
  /\ picture = {}

Goto(t, l) == pc' = [pc EXCEPT ![t] = l]

-----------------------------------------------------------------------------
(* assign_task, called with the lock held.                                 *)

\* A plausible slip: the last chunk is as long as the others.
MutantAssigned == [ps |-> ps_p, size |-> IF ps_p >= area THEN 0 ELSE Chunk]

\* A plausible slip: a last chunk that is shorter than the others is left out.
MutantWholeChunks == [ps |-> ps_p, size |-> IF ps_p + Chunk > area THEN 0 ELSE Chunk]

\* What assign_task writes to ps_size: size 0 when it returns 0.
Assigned ==
  [ps |-> ps_p, size |-> CASE ps_p >= area -> 0
                           [] ps_p < area /\ ps_p + Chunk >= area -> area - ps_p
                           [] ps_p + Chunk < area -> Chunk]

\* A plausible slip: the mutex is another one in each thread.
MutantLock(t) ==
  /\ pc[t] = "lock"
  /\ lock' = t
  /\ Goto(t, "read")
  /\ UNCHANGED <<width, height, ps_p, ps_size, commVars, chan, ack, slaveVars, raw_img, picture>>

Lock(t) ==
  /\ pc[t] = "lock"
  /\ lock = "none"
  /\ lock' = t
  /\ Goto(t, "read")
  /\ UNCHANGED <<width, height, ps_p, ps_size, commVars, chan, ack, slaveVars, raw_img, picture>>

AssignRead(t) ==
  /\ pc[t] = "read"
  /\ ps_size' = [ps_size EXCEPT ![t] = Assigned]
  /\ Goto(t, "write")
  /\ UNCHANGED <<width, height, ps_p, lock, commVars, chan, ack, slaveVars, raw_img, picture>>

AssignWrite(t) ==
  /\ pc[t] = "write"
  /\ ps_p' = ps_size[t].ps + ps_size[t].size
  /\ Goto(t, "unlock")
  /\ UNCHANGED <<width, height, ps_size, lock, commVars, chan, ack, slaveVars, raw_img, picture>>

Unlock(t, hasTask, noTask) ==
  /\ pc[t] = "unlock"
  /\ lock' = "none"
  /\ Goto(t, IF ps_size[t].size # 0 THEN hasTask ELSE noTask)
  /\ UNCHANGED <<width, height, ps_p, ps_size, commVars, chan, ack, slaveVars, raw_img, picture>>

-----------------------------------------------------------------------------
(* master: the main thread of rank 0.                                      *)

MainCompute ==
  /\ pc["main"] = "compute"
  /\ raw_img' = [raw_img EXCEPT ![Master] = @ \cup PixelsOf(ps_size["main"])]
  /\ Goto("main", "lock")
  /\ UNCHANGED <<width, height, ps_p, ps_size, lock, commVars, chan, ack, slaveVars, picture>>

\* pthread_join on the communication thread
MainJoin ==
  /\ pc["main"] = "join"
  /\ pc["comm"] = "exited"
  /\ Goto("main", "reduce")
  /\ UNCHANGED <<width, height, ps_p, ps_size, lock, commVars, chan, ack, slaveVars, raw_img, picture>>

Position(p) == (height - 1 - p \div width) * width + (p % width)

\* MPI_Reduce over row_size * height / sizeof(unsigned) words of four bytes:
\* the bytes behind the last whole word stay what they are on rank 0.
ReducedBytes == 4 * ((3 * area) \div 4)
BytesOf(r) == UNION {{3 * Position(p) + b : b \in 0..2} : p \in raw_img[r]}

Reduce ==
  /\ pc["main"] = "reduce"
  /\ \A s \in Slaves : spc[s] = "reduce"
  /\ picture' = BytesOf(Master) \cup
                {b \in UNION {BytesOf(s) : s \in Slaves} : b < ReducedBytes}
  /\ Goto("main", "done")
  /\ spc' = [s \in Slaves |-> "done"]
  /\ UNCHANGED <<width, height, ps_p, ps_size, lock, commVars, chan, ack, job, raw_img>>

-----------------------------------------------------------------------------
(* master_thread_task_comm: the communication thread.                      *)

Send(s, m) == chan' = [chan EXCEPT ![s] = Append(@, m)]

\* The first tasks: three rounds over the slaves with the lock held.
FirstLock ==
  /\ pc["comm"] = "first"
  /\ lock = "none"
  /\ lock' = "comm"
  /\ Goto("comm", "deal")
  /\ UNCHANGED <<width, height, ps_p, ps_size, commVars, chan, ack, slaveVars, raw_img, picture>>

FirstSend ==
  /\ pc["comm"] = "deal"
  /\ tkq < 3 /\ i < CommSize /\ ps_p < area
  /\ Send(i, Working(Assigned))
  /\ ps_p' = ps_p + Assigned.size
  /\ not_recv_task' = not_recv_task + 1
  /\ i' = i + 1
  /\ UNCHANGED <<width, height, ps_size, lock, pc, tkq, to, ack, slaveVars, raw_img, picture>>

\* No task is left, or every slave has one: the inner loop ends.
FirstRound ==
  /\ pc["comm"] = "deal"
  /\ tkq < 3
  /\ i = CommSize \/ ps_p >= area
  /\ tkq' = tkq + 1 /\ i' = 1
  /\ UNCHANGED <<width, height, threadVars, to, not_recv_task, chan, ack, slaveVars, raw_img, picture>>

FirstUnlock ==
  /\ pc["comm"] = "deal"
  /\ tkq = 3
  /\ lock' = "none"
  /\ Goto("comm", "lock")
  /\ UNCHANGED <<width, height, ps_p, ps_size, commVars, chan, ack, slaveVars, raw_img, picture>>

\* A task is assigned: wait for an answer from any slave ...
CommRecv ==
  /\ pc["comm"] = "recv"
  /\ \E s \in Slaves :
       /\ ack[s] > 0
       /\ ack' = [ack EXCEPT ![s] = @ - 1]
       /\ to' = s
  /\ Goto("comm", "reply")
  /\ UNCHANGED <<width, height, ps_p, ps_size, lock, tkq, i, not_recv_task, chan, slaveVars, raw_img, picture>>

\* A plausible slip: the task goes to another slave than the one that answered.
MutantCommReply ==
  /\ pc["comm"] = "reply"
  /\ Send(1, Working(ps_size["comm"]))
  /\ Goto("comm", "lock")
  /\ UNCHANGED <<width, height, ps_p, ps_size, lock, commVars, ack, slaveVars, raw_img, picture>>

\* ... and send it to that slave.
CommReply ==
  /\ pc["comm"] = "reply"
  /\ Send(to, Working(ps_size["comm"]))
  /\ Goto("comm", "lock")
  /\ UNCHANGED <<width, height, ps_p, ps_size, lock, commVars, ack, slaveVars, raw_img, picture>>

\* No task is left: receive the answers that are still to come.
Drain ==
  /\ pc["comm"] = "drain"
  /\ not_recv_task > 0
  /\ \E s \in Slaves : ack[s] > 0 /\ ack' = [ack EXCEPT ![s] = @ - 1]
  /\ not_recv_task' = not_recv_task - 1
  /\ UNCHANGED <<width, height, threadVars, tkq, i, to, chan, slaveVars, raw_img, picture>>

\* DONE to every slave, and pthread_exit
Terminate ==
  /\ pc["comm"] = "drain"
  /\ not_recv_task <= 0
  /\ chan' = [s \in Slaves |-> Append(chan[s], Done)]
  /\ Goto("comm", "exited")
  /\ UNCHANGED <<width, height, ps_p, ps_size, lock, commVars, ack, slaveVars, raw_img, picture>>

-----------------------------------------------------------------------------
(* slave                                                                   *)

SlaveRecv(s) ==
  /\ spc[s] = "recv"
  /\ chan[s] # <<>>
  /\ chan' = [chan EXCEPT ![s] = Tail(@)]
  /\ LET m == Head(chan[s])
     IN  \/ /\ m.tag = "done"
            /\ spc' = [spc EXCEPT ![s] = "reduce"]
            /\ UNCHANGED job
         \/ /\ m.tag = "working"
            /\ spc' = [spc EXCEPT ![s] = "compute"]
            /\ job' = [job EXCEPT ![s] = m.task]
  /\ UNCHANGED <<width, height, threadVars, commVars, ack, raw_img, picture>>

\* A plausible slip: the slave does not answer an empty-handed master.
MutantSlaveCompute(s) ==
  /\ spc[s] = "compute"
  /\ raw_img' = [raw_img EXCEPT ![s] = @ \cup PixelsOf(job[s])]
  /\ ack' = IF chan[s] = <<>> THEN [ack EXCEPT ![s] = @ + 1] ELSE ack
  /\ spc' = [spc EXCEPT ![s] = "recv"]
  /\ UNCHANGED <<width, height, threadVars, commVars, chan, job, picture>>

\* core_cal_sse2_omp on the chunk, and the answer
SlaveCompute(s) ==
  /\ spc[s] = "compute"
  /\ raw_img' = [raw_img EXCEPT ![s] = @ \cup PixelsOf(job[s])]
  /\ ack' = [ack EXCEPT ![s] = @ + 1]
  /\ spc' = [spc EXCEPT ![s] = "recv"]
  /\ UNCHANGED <<width, height, threadVars, commVars, chan, job, picture>>

-----------------------------------------------------------------------------
MainThread ==
  \/ Lock("main") \/ AssignRead("main") \/ AssignWrite("main")
  \/ Unlock("main", "compute", "join")
  \/ MainCompute \/ MainJoin \/ Reduce

CommThread ==
  \/ FirstLock \/ FirstSend \/ FirstRound \/ FirstUnlock
  \/ Lock("comm") \/ AssignRead("comm") \/ AssignWrite("comm")
  \/ Unlock("comm", "recv", "drain")
  \/ CommRecv \/ CommReply \/ Drain \/ Terminate

Slave(s) == SlaveRecv(s) \/ SlaveCompute(s)

\* MPI_Finalize
Finished == pc["main"] = "done" /\ UNCHANGED vars

Next == MainThread \/ CommThread \/ (\E s \in Slaves : Slave(s)) \/ Finished

Spec == Init /\ [][Next]_vars

\* Every thread and every process runs, and messages arrive.
FairSpec ==
  /\ Spec
  /\ WF_vars(MainThread) /\ WF_vars(CommThread)
  /\ \A s \in Slaves : WF_vars(Slave(s))

\* hw2/other_ver/timer/hw2b-t.cc: the same threads and messages.  Its timers are
\* one of each thread, and comm_thread_t_time is read after the join.
hw2b_t == FairSpec

-----------------------------------------------------------------------------
(* Properties.                                                             *)

TypeOK ==
  /\ ps_p \in 0..area
  /\ lock \in {"none", "main", "comm"}
  /\ pc["main"] \in {"lock", "read", "write", "unlock", "compute", "join", "reduce", "done"}
  /\ pc["comm"] \in {"first", "deal", "lock", "read", "write", "unlock", "recv",
                     "reply", "drain", "exited"}
  /\ ps_size \in [{"main", "comm"} -> Chunks]
  /\ tkq \in 0..3 /\ i \in 1..CommSize /\ to \in 0..(CommSize - 1)
  /\ not_recv_task \in 0..area
  /\ \A s \in Slaves : \A k \in 1..Len(chan[s]) :
       chan[s][k] = Done \/ chan[s][k] \in [tag : {"working"}, task : Chunks]
  /\ ack \in [Slaves -> 0..area]
  /\ spc \in [Slaves -> {"recv", "compute", "reduce", "done"}]
  /\ job \in [Slaves -> Chunks]
  /\ raw_img \in [Procs -> SUBSET Pixels]

\* The tasks sent to slave s whose answers the master has not received.
Outstanding(s) ==
  Cardinality({k \in 1..Len(chan[s]) : chan[s][k] # Done})
  + (IF spc[s] = "compute" THEN 1 ELSE 0) + ack[s]

\* The count the communication thread keeps is the number of answers that will
\* come, though it is not touched while a slave is answered: so neither Recv
\* can wait for an answer nobody will send.  A slave is never more than three
\* tasks ahead of the master, to whichever slave the answers are.
AnswersBalance ==
  /\ MapThenSumSet(Outstanding, Slaves)
       = not_recv_task - (IF pc["comm"] = "reply" THEN 1 ELSE 0)
  /\ \A s \in Slaves : Outstanding(s) <= 3

\* Pixels in somebody's hands: messages, jobs, and the chunk of each thread.
HeldBy(t) == IF pc[t] \in {"unlock", "compute", "recv", "reply"}
             THEN PixelsOf(ps_size[t]) ELSE {}
InFlight(s) ==
  (IF spc[s] = "compute" THEN PixelsOf(job[s]) ELSE {}) \cup
  UNION {IF chan[s][k] = Done THEN {} ELSE PixelsOf(chan[s][k].task) : k \in 1..Len(chan[s])}

\* Every pixel below ps_p is in exactly one place: a thread of the master, the
\* messages and the job of a slave, or one process's picture; and no pixel
\* from ps_p on is anywhere.
OnePlacePerPixel ==
  LET Places == <<HeldBy("main"), HeldBy("comm")>>
                \o [s \in Slaves |-> InFlight(s)]
                \o [r \in 1..CommSize |-> raw_img[r - 1]]
  IN  /\ \A j, k \in DOMAIN Places : j # k => Places[j] \cap Places[k] = {}
      /\ (\A t \in {"main", "comm"} : pc[t] # "write") =>
           UNION {Places[k] : k \in DOMAIN Places} = 0..(ps_p - 1)

\* The threads of the master and the slaves share the pixels: each is taken by
\* one of them, the communication thread hands what it took to a slave, a slave
\* goes to the reduction only when nothing is left for it, though work was sent
\* ahead to it, and the picture is written when every pixel has been computed.
CommMember == CommSize
Members == Procs \cup {CommMember}
Free == ps_p..(area - 1)
Held == [m \in Members |-> IF m = Master THEN HeldBy("main")
                           ELSE IF m = CommMember THEN HeldBy("comm") ELSE InFlight(m)]
Computed == UNION {raw_img[r] : r \in Procs}
Leavers ==
  {m \in Members :
     \/ m = Master /\ pc["main"] \in {"join", "reduce", "done"}
     \/ m = CommMember /\ pc["comm"] = "exited"
     \/ m \in Slaves /\ spc[m] \in {"reduce", "done"}}
Written == pc["main"] = "done"

Work == INSTANCE SharedWork WITH free <- Free, held <- Held, computed <- Computed,
                                 left <- Leavers, written <- Written
SharesWork == Work!Spec

\* Everybody gets to the reduction.
Termination == <>(pc["main"] = "done")

\* The test script's comparison with hw2seq: the picture has all its bytes.
\* Refuted: see ReducedBytes.
EveryByteReduced == pc["main"] = "done" => picture = 0..(3 * area - 1)
=============================================================================
