--------------------------- MODULE TaskPoolProofs ---------------------------
(***************************************************************************)
(* Proofs about TaskPool, for every number of CPUs and every picture.      *)
(*                                                                         *)
(* What the threads hold is described slot by slot: the slots below head   *)
(* are nobody's, a slot above it belongs to the one thread that popped it  *)
(* until its pixels are in the picture.  The tasks of different slots      *)
(* share no pixel, hence neither do the threads.                           *)
(***************************************************************************)
EXTENDS TaskPool, TLAPS

Slots == 0..(Capacity - 1)

Holding == {"popWrite", "unlock", "call", "compute"}

\* Exactly the owner of the mutex is between Lock and Unlock.
MutexInv ==
  \A t \in Threads : lock = t <=> pc[t] \in {"popRead", "popWrite", "unlock"}

\* What main's place says of the others.
PhaseInv ==
  /\ \A w \in Workers : pc[w] \notin {"push", "create", "join", "write", "done"}
  /\ pc[Main] \notin {"unborn", "exited"}
  /\ pc[Main] = "push" =>
       /\ \A w \in Workers : pc[w] = "unborn"
       /\ idx = head * Chunk
       /\ idx < area
       /\ idx % 2 = 0
       /\ \A k \in Slots : queue[k].ps + queue[k].size <= idx
  /\ \A w \in Workers : pc[w] = "exited" => head = 0
  /\ pc[Main] \in {"write", "done"} => \A w \in Workers : pc[w] = "exited"

\* The tasks in the array: no pixel is in two of them.
QueueInv ==
  /\ \A k \in Slots : queue[k].ps + queue[k].size <= area /\ queue[k].ps % 2 = 0
  /\ \A j, k \in Slots : \A p \in Pixels :
       Covers(queue[j], p) /\ Covers(queue[k], p) => j = k

\* The slot a thread points at: from the pop until its pixels are in the
\* picture, above head but for the moment between the two halves of the pop.
PointerInv ==
  \A t \in Threads :
    /\ pc[t] \notin Holding => task[t] = NoSlot
    /\ pc[t] = "popWrite" => head # 0 /\ task[t] = head - 1
    /\ pc[t] \in {"call", "compute"} => task[t] # NoSlot
    /\ pc[t] \in {"unlock", "call", "compute"} /\ task[t] # NoSlot => task[t] >= head

\* No two threads point at one slot.
SlotInv ==
  \A t, u \in Threads : t # u /\ task[t] = task[u] => task[t] = NoSlot

\* The parameters of core_cal_sse2 are the task pointed at.
ChunkInv ==
  \A t \in Threads : pc[t] = "compute" =>
    /\ chunk[t] = queue[task[t]]
    /\ chunk[t].ps <= at[t] /\ at[t] <= EndOf(t)
    /\ at[t] <= VectorEnd(t) => (at[t] - chunk[t].ps) % 2 = 0

\* Thread t has pixel p still to compute.
ToDo(t, p) ==
  \/ pc[t] \in {"unlock", "call"} /\ task[t] # NoSlot /\ Covers(queue[task[t]], p)
  \/ pc[t] = "compute" /\ at[t] <= p /\ p < EndOf(t)

\* The pixels nobody has computed yet.
UnsetInv ==
  \A p \in Pixels :
    /\ pc[Main] = "push" => image[p] = "unset"
    /\ \A k \in Slots : k < head /\ Covers(queue[k], p) => image[p] = "unset"
    /\ \A t \in Threads : ToDo(t, p) => image[p] = "unset"

\* The pixels behind the loop variable are computed.
SetInv ==
  \A t \in Threads : \A p \in Pixels :
    pc[t] = "compute" /\ chunk[t].ps <= p /\ p < at[t] => image[p] # "unset"

IInv ==
  /\ TypeOK
  /\ MutexInv
  /\ PhaseInv
  /\ QueueInv
  /\ PointerInv
  /\ SlotInv
  /\ ChunkInv
  /\ UnsetInv
  /\ SetInv
  /\ NoPixelLost

-----------------------------------------------------------------------------
(* Facts about the constants and the operators.                            *)

\* Main and the workers are the threads; none of them is NoOne.
LEMMA ThreadFacts ==
  /\ Main \in Threads
  /\ \A w \in Workers : w \in Threads /\ w # Main
  /\ \A t \in Threads : t \in Int /\ t # NoOne /\ (t # Main => t \in Workers)
BY CpuNumAssumption DEF Threads, Workers, Main, NoOne

\* set_chunk_size returns, and CHUNK_SIZE is, a positive number of pixels.
LEMMA ChunkPositive == Chunk \in Nat \ {0}
<1>1. Squ \in Nat
  BY CpuNumAssumption DEF Squ
<1>2. CASE version = pass_all
  BY <1>2, ChunkSizeAssumption DEF Chunk
<1>3. CASE version # pass_all
  BY <1>1, <1>3 DEF Chunk
<1>4. QED
  BY <1>2, <1>3

\* Both are even, whatever the parity of cpu_num.
LEMMA ChunkEven == Chunk % 2 = 0
<1>1. Squ \in Nat
  BY CpuNumAssumption DEF Squ
<1>2. Squ >= 1
  BY CpuNumAssumption DEF Squ
<1>3. QED
  BY <1>1, <1>2, ChunkSizeAssumption DEF Chunk

\* The array has room for h + 1 tasks when h full chunks leave a pixel over.
LEMMA CapacityEnough ==
  ASSUME area \in Nat \ {0}, NEW h \in Nat, h * Chunk < area
  PROVE  Capacity \in Nat \ {0} /\ h < Capacity
<1> DEFINE q == area \div Chunk
<1>1. Chunk \in Nat \ {0}
  BY ChunkPositive
<1>2. q \in Nat /\ area % Chunk \in 0..(Chunk - 1) /\ area = Chunk * q + (area % Chunk)
  BY <1>1
<1>3. SUFFICES h <= q
  BY <1>2 DEF Capacity
<1> HIDE DEF q
<1>4. SUFFICES ASSUME q + 1 <= h PROVE FALSE
  BY <1>2
<1>5. Chunk * (q + 1) <= Chunk * h
  BY <1>1, <1>2, <1>4
<1>6. Chunk * (q + 1) = Chunk * q + Chunk
  BY <1>1, <1>2
<1>7. QED
  BY <1>1, <1>2, <1>5, <1>6


\* A pair that starts inside the vector part of a chunk ends inside it.
LEMMA PairFits ==
  ASSUME NEW n \in Nat, NEW ps \in Nat, NEW a \in Nat,
         ps <= a, (a - ps) % 2 = 0, a < ps + 2 * (n \div 2)
  PROVE  /\ a + 2 <= ps + 2 * (n \div 2) /\ a + 2 <= ps + n
         /\ (a + 2 - ps) % 2 = 0
BY SMT

-----------------------------------------------------------------------------
(* Initial states and steps.                                               *)

\* Nothing is pushed, popped or computed yet.
LEMMA InitInv == Init => IInv
<1> SUFFICES ASSUME Init PROVE IInv
  OBVIOUS
<1> USE ThreadFacts
<1>1. area \in Nat \ {0} /\ Capacity \in Nat \ {0}
  BY AreasAssumption, ChunkPositive, CapacityEnough DEF Init
<1>2. TypeOK
  <2>1. Capacity - 1 \in Int /\ 0 \in 0..Capacity
    BY <1>1
  <2>2. NoTask \in Task
    BY DEF NoTask, Task
  <2>3. queue \in [0..(Capacity - 1) -> Task] /\ chunk \in [Threads -> Task]
    BY <2>2 DEF Init
  <2>4. pc \in [Threads -> Labels]
    BY DEF Init, Labels
  <2>5. Pixels \subseteq Nat
    BY DEF Pixels
  <2>6. x0s \subseteq Nat
    BY <2>5 DEF Init
  <2>7. QED
    BY <1>1, <2>1, <2>3, <2>4, <2>6 DEF Init, TypeOK, Origin
<1>3. MutexInv
  BY DEF Init, MutexInv
<1>4. PhaseInv
  BY <1>1, ChunkPositive DEF Init, PhaseInv, Slots, NoTask
<1>5. QueueInv
  BY <1>1 DEF Init, QueueInv, Slots, NoTask, Covers, Pixels
<1>6. PointerInv /\ SlotInv /\ ChunkInv
  BY DEF Init, PointerInv, SlotInv, ChunkInv, Holding
<1>7. UnsetInv
  BY DEF Init, UnsetInv, ToDo, Pixels
<1>8. SetInv
  BY DEF Init, SetInv, Pixels
<1>9. NoPixelLost
  BY DEF Init, NoPixelLost, Pixels
<1>10. QED
  BY <1>2, <1>3, <1>4, <1>5, <1>6, <1>7, <1>8, <1>9 DEF IInv

\* What is in a slot.
LEMMA SlotTask ==
  ASSUME TypeOK, NEW k \in Slots
  PROVE  queue[k] \in Task /\ queue[k].ps \in Nat /\ queue[k].size \in Nat
BY DEF TypeOK, Slots, Task

\* The picture has at least one pixel, and create_queue room for one task.
LEMMA AreaFacts == IInv => area \in Nat \ {0} /\ Capacity \in Nat \ {0}
<1>1. ASSUME IInv PROVE area \in Nat \ {0} /\ Capacity \in Nat \ {0}
  <2>1. 0 * Chunk < area
    BY <1>1, ChunkPositive DEF IInv, TypeOK
  <2>2. QED
    BY <1>1, <2>1, CapacityEnough DEF IInv, TypeOK
<1>2. QED
  BY <1>1

\* The version and the sizes of the picture, a chunk and the array never change.
LEMMA AreaFixed ==
  [Next]_vars => version' = version /\ Chunk' = Chunk /\ area' = area /\ Capacity' = Capacity
BY DEF Chunk, Next, MainThread, WorkerLoop, Finished, vars, PushChunk, PushLast,
       CreateWorker, SetFinish, EndPool, WritePng, TestFinish, TestQueue, Lock, LockBusy,
       PopRead, PopWrite, Unlock, Call, VectorPair, ScalarRest, ImageToPng, Capacity

\* A push by main finds room, and changes the slot at head only.
LEMMA MakeTaskEffect ==
  ASSUME IInv, pc[Main] = "push", NEW n \in Nat, MakeTask(idx, n)
  PROVE  /\ head \in Slots /\ head' = head + 1 /\ head' \in 0..Capacity
         /\ queue' \in [Slots -> Task]
         /\ queue'[head].ps = idx /\ queue'[head].size = n
         /\ \A k \in Slots : k # head => queue'[k] = queue[k]
<1>1. head \in Nat /\ Capacity \in Nat /\ head < Capacity /\ idx \in Nat
  BY CapacityEnough DEF IInv, TypeOK, PhaseInv
<1>2. queue \in [Slots -> Task]
  BY DEF IInv, TypeOK, Slots
<1>3. queue' = [queue EXCEPT ![head] = [ps |-> idx, size |-> n]] /\ head' = head + 1
  BY <1>1 DEF MakeTask
<1>4. [ps |-> idx, size |-> n] \in Task
  BY <1>1 DEF Task
<1>5. head \in Slots
  BY <1>1 DEF Slots
<1>6. QED
  BY <1>1, <1>2, <1>3, <1>4, <1>5

LEMMA TypeOKStep == IInv /\ [Next]_vars => TypeOK'
<1> SUFFICES ASSUME IInv, [Next]_vars PROVE TypeOK'
  OBVIOUS
<1> USE ThreadFacts, ChunkPositive
        DEF IInv, Goto, vars, poolVars, localVars, pixelVars
<1>1. area \in Nat \ {0} /\ Capacity \in Nat \ {0}
  BY AreaFacts
<1>2. version' = version /\ Chunk' = Chunk /\ area' = area /\ Capacity' = Capacity
  BY AreaFixed
<1>3. CASE PushChunk
  <2>1. Chunk \in Nat
    BY <1>3 DEF PushChunk, TypeOK, PhaseInv
  <2>2. head' \in 0..Capacity /\ queue' \in [Slots -> Task]
    BY <1>3, <2>1, MakeTaskEffect DEF PushChunk
  <2>3. QED
    BY <1>1, <1>2, <1>3, <2>1, <2>2 DEF PushChunk, Slots, TypeOK, Labels, Pixels
<1>4. CASE PushLast
  <2>1. area - idx \in Nat
    BY <1>4 DEF PushLast, TypeOK, PhaseInv
  <2>2. head' \in 0..Capacity /\ queue' \in [Slots -> Task]
    BY <1>4, <2>1, MakeTaskEffect DEF PushLast
  <2>3. QED
    BY <1>1, <1>2, <1>4, <2>1, <2>2 DEF PushLast, Slots, TypeOK, Labels, Pixels
<1>5. CASE CreateWorker
  BY <1>1, <1>2, <1>5 DEF CreateWorker, TypeOK, Task, Labels, Origin, Pixels, EndOf, VectorEnd
<1>6. CASE SetFinish
  BY <1>1, <1>2, <1>6 DEF SetFinish, TypeOK, Task, Labels, Origin, Pixels, EndOf, VectorEnd
<1>7. CASE EndPool
  BY <1>1, <1>2, <1>7 DEF EndPool, TypeOK, Task, Labels, Origin, Pixels, EndOf, VectorEnd
<1>8. CASE WritePng
  BY <1>1, <1>2, <1>8 DEF WritePng, TypeOK, Task, Labels, Origin, Pixels, EndOf, VectorEnd
<1>9. ASSUME NEW t \in Threads, TestFinish(t) PROVE TypeOK'
  BY <1>1, <1>2, <1>9 DEF TestFinish, TypeOK, Task, Labels, Origin, Pixels, EndOf, VectorEnd
<1>10. ASSUME NEW t \in Threads, TestQueue(t) PROVE TypeOK'
  BY <1>1, <1>2, <1>10 DEF TestQueue, TypeOK, Task, Labels, Origin, Pixels, EndOf, VectorEnd
<1>11. ASSUME NEW t \in Threads, Lock(t) PROVE TypeOK'
  BY <1>1, <1>2, <1>11 DEF Lock, TypeOK, Task, Labels, Origin, Pixels, EndOf, VectorEnd
<1>11b. ASSUME NEW t \in Threads, LockBusy(t) PROVE TypeOK'
  BY <1>1, <1>2, <1>11b DEF LockBusy, TypeOK, Task, Labels, Origin, Pixels, EndOf, VectorEnd
<1>12. ASSUME NEW t \in Threads, PopRead(t) PROVE TypeOK'
  <2>1. head # 0 => head - 1 \in 0..(Capacity - 1)
    BY <1>1 DEF TypeOK
  <2>2. task' \in [Threads -> {NoSlot} \cup 0..(Capacity - 1)]
    BY <1>12, <2>1 DEF PopRead, TypeOK
  <2>3. pc' \in [Threads -> Labels]
    BY <1>12 DEF PopRead, TypeOK, Labels
  <2>4. QED
    BY <1>2, <1>12, <2>2, <2>3 DEF PopRead, TypeOK, Pixels
<1>13. ASSUME NEW t \in Threads, PopWrite(t) PROVE TypeOK'
  <2>1. head' \in 0..Capacity
    BY <1>1, <1>13 DEF PopWrite, TypeOK, PointerInv
  <2>2. QED
    BY <1>2, <1>13, <2>1 DEF PopWrite, TypeOK, Labels, Pixels
<1>14. ASSUME NEW t \in Threads, Unlock(t) PROVE TypeOK'
  BY <1>1, <1>2, <1>14 DEF Unlock, TypeOK, Task, Labels, Origin, Pixels, EndOf, VectorEnd
<1>15. ASSUME NEW t \in Threads, Call(t) PROVE TypeOK'
  <2>1. queue[task[t]] \in Task /\ queue[task[t]].ps \in Nat
    BY <1>15 DEF Call, TypeOK, PointerInv, Task
  <2>2. QED
    BY <1>2, <1>15, <2>1 DEF Call, TypeOK, Labels, Pixels
<1>16. ASSUME NEW t \in Threads, VectorPair(t) PROVE TypeOK'
  <2>1. at[t] \in Nat /\ at[t] + 1 \in Nat /\ at[t] + 2 \in Nat
    BY DEF TypeOK
  <2>2. at' \in [Threads -> Nat] /\ x0s' \subseteq Nat
    BY <1>16, <2>1 DEF VectorPair, TypeOK
  <2>3. image' \in [Pixels -> Origin]
    BY <1>16 DEF VectorPair, TypeOK, Origin
  <2>4. QED
    BY <1>2, <1>16, <2>2, <2>3 DEF VectorPair, TypeOK, Pixels
<1>17. ASSUME NEW t \in Threads, ScalarRest(t) PROVE TypeOK'
  <2>1. at' \in [Threads -> Nat]
    BY <1>17 DEF ScalarRest, TypeOK
  <2>2. image' \in [Pixels -> Origin]
    BY <1>17 DEF ScalarRest, TypeOK, Origin
  <2>3. QED
    BY <1>2, <1>17, <2>1, <2>2 DEF ScalarRest, TypeOK, Pixels
<1>18. ASSUME NEW t \in Threads, ImageToPng(t) PROVE TypeOK'
  BY <1>1, <1>2, <1>18 DEF ImageToPng, TypeOK, Task, Labels, Origin, Pixels, EndOf, VectorEnd
<1>19. CASE UNCHANGED vars
  BY <1>1, <1>2, <1>19 DEF TypeOK, Task, Labels, Origin, Pixels, EndOf, VectorEnd
<1>20. QED
  BY <1>3, <1>4, <1>5, <1>6, <1>7, <1>8, <1>9, <1>10, <1>11, <1>11b, <1>12, <1>13, <1>14, <1>15, <1>16, <1>17, <1>18, <1>19
     DEF Next, MainThread, WorkerLoop, Finished

\* Only Lock takes the mutex, only Unlock gives it back.
LEMMA MutexInvStep == IInv /\ [Next]_vars => MutexInv'
<1> SUFFICES ASSUME IInv, [Next]_vars PROVE MutexInv'
  OBVIOUS
<1> USE ThreadFacts, ChunkPositive
        DEF IInv, Goto, vars, poolVars, localVars, pixelVars
<1>1. area \in Nat \ {0} /\ Capacity \in Nat \ {0}
  BY AreaFacts
<1>2. version' = version /\ Chunk' = Chunk /\ area' = area /\ Capacity' = Capacity
  BY AreaFixed
<1>3. CASE PushChunk
  BY <1>1, <1>2, <1>3 DEF PushChunk, MakeTask, TypeOK, MutexInv, PhaseInv
<1>4. CASE PushLast
  BY <1>1, <1>2, <1>4 DEF PushLast, MakeTask, TypeOK, MutexInv, PhaseInv
<1>5. CASE CreateWorker
  BY <1>1, <1>2, <1>5 DEF CreateWorker, TypeOK, MutexInv, PhaseInv
<1>6. CASE SetFinish
  BY <1>1, <1>2, <1>6 DEF SetFinish, TypeOK, MutexInv, PhaseInv
<1>7. CASE EndPool
  BY <1>1, <1>2, <1>7 DEF EndPool, TypeOK, MutexInv, PhaseInv
<1>8. CASE WritePng
  BY <1>1, <1>2, <1>8 DEF WritePng, TypeOK, MutexInv, PhaseInv
<1>9. ASSUME NEW t \in Threads, TestFinish(t) PROVE MutexInv'
  BY <1>1, <1>2, <1>9 DEF TestFinish, TypeOK, MutexInv, PhaseInv
<1>10. ASSUME NEW t \in Threads, TestQueue(t) PROVE MutexInv'
  BY <1>1, <1>2, <1>10 DEF TestQueue, TypeOK, MutexInv, PhaseInv
<1>11. ASSUME NEW t \in Threads, Lock(t) PROVE MutexInv'
  BY <1>1, <1>2, <1>11 DEF Lock, TypeOK, MutexInv, PhaseInv
<1>11b. ASSUME NEW t \in Threads, LockBusy(t) PROVE MutexInv'
  BY <1>1, <1>2, <1>11b DEF LockBusy, TypeOK, MutexInv, PhaseInv
<1>12. ASSUME NEW t \in Threads, PopRead(t) PROVE MutexInv'
  BY <1>1, <1>2, <1>12 DEF PopRead, TypeOK, MutexInv, PhaseInv
<1>13. ASSUME NEW t \in Threads, PopWrite(t) PROVE MutexInv'
  BY <1>1, <1>2, <1>13 DEF PopWrite, TypeOK, MutexInv, PhaseInv
<1>14. ASSUME NEW t \in Threads, Unlock(t) PROVE MutexInv'
  BY <1>1, <1>2, <1>14 DEF Unlock, TypeOK, MutexInv, PhaseInv
<1>15. ASSUME NEW t \in Threads, Call(t) PROVE MutexInv'
  BY <1>1, <1>2, <1>15 DEF Call, TypeOK, MutexInv, PhaseInv
<1>16. ASSUME NEW t \in Threads, VectorPair(t) PROVE MutexInv'
  BY <1>1, <1>2, <1>16 DEF VectorPair, TypeOK, MutexInv, PhaseInv
<1>17. ASSUME NEW t \in Threads, ScalarRest(t) PROVE MutexInv'
  BY <1>1, <1>2, <1>17 DEF ScalarRest, TypeOK, MutexInv, PhaseInv
<1>18. ASSUME NEW t \in Threads, ImageToPng(t) PROVE MutexInv'
  BY <1>1, <1>2, <1>18 DEF ImageToPng, TypeOK, MutexInv, PhaseInv
<1>19. CASE UNCHANGED vars
  BY <1>1, <1>2, <1>19 DEF TypeOK, MutexInv, PhaseInv
<1>20. QED
  BY <1>3, <1>4, <1>5, <1>6, <1>7, <1>8, <1>9, <1>10, <1>11, <1>11b, <1>12, <1>13, <1>14, <1>15, <1>16, <1>17, <1>18, <1>19
     DEF Next, MainThread, WorkerLoop, Finished

\* Main pushes before there are workers, and leaves its loop on an empty stack.
LEMMA PhaseInvStep == IInv /\ [Next]_vars => PhaseInv'
<1> SUFFICES ASSUME IInv, [Next]_vars PROVE PhaseInv'
  OBVIOUS
<1> USE ThreadFacts, ChunkPositive
        DEF IInv, Goto, vars, poolVars, localVars, pixelVars
<1>1. area \in Nat \ {0} /\ Capacity \in Nat \ {0}
  BY AreaFacts
<1>2. version' = version /\ Chunk' = Chunk /\ area' = area /\ Capacity' = Capacity
  BY AreaFixed
<1>3. CASE PushChunk
  <2> USE DEF PushChunk
  <2>1. /\ head' = head + 1
        /\ queue'[head].ps = idx /\ queue'[head].size = Chunk
        /\ \A k \in Slots : k # head => queue'[k] = queue[k]
    BY <1>3, MakeTaskEffect
  <2>2. idx' = head' * Chunk
    BY <1>3, <2>1 DEF PhaseInv, TypeOK
  <2>3. \A k \in Slots' : queue'[k].ps + queue'[k].size <= idx'
    <3>1. Slots' = Slots /\ idx' = idx + Chunk /\ idx \in Nat /\ idx \in Int
      BY <1>2, <1>3 DEF Slots, TypeOK
    <3>2. SUFFICES ASSUME NEW k \in Slots PROVE queue'[k].ps + queue'[k].size <= idx'
      BY <3>1
    <3>3. CASE k = head
      BY <2>1, <3>1, <3>3
    <3>4. CASE k # head
      BY <1>3, <2>1, <3>1, <3>4, SlotTask DEF PhaseInv
    <3>5. QED
      BY <3>3, <3>4
  <2>4. idx' % 2 = 0
    <3>1. idx \in Nat /\ idx % 2 = 0 /\ idx' = idx + Chunk
      BY <1>3 DEF PhaseInv, TypeOK
    <3>2. QED
      BY <3>1, ChunkEven
  <2>5. QED
    BY <1>2, <1>3, <2>2, <2>3, <2>4 DEF PhaseInv, TypeOK
<1>4. CASE PushLast
  BY <1>1, <1>2, <1>4 DEF PushLast, MakeTask, TypeOK, MutexInv, PhaseInv, PointerInv, Slots, Task
<1>5. CASE CreateWorker
  BY <1>1, <1>2, <1>5 DEF CreateWorker, TypeOK, MutexInv, PhaseInv, PointerInv, Slots, Task
<1>6. CASE SetFinish
  BY <1>1, <1>2, <1>6 DEF SetFinish, TypeOK, MutexInv, PhaseInv, PointerInv, Slots, Task
<1>7. CASE EndPool
  BY <1>1, <1>2, <1>7 DEF EndPool, TypeOK, MutexInv, PhaseInv, PointerInv, Slots, Task
<1>8. CASE WritePng
  BY <1>1, <1>2, <1>8 DEF WritePng, TypeOK, MutexInv, PhaseInv, PointerInv, Slots, Task
<1>9. ASSUME NEW t \in Threads, TestFinish(t) PROVE PhaseInv'
  BY <1>1, <1>2, <1>9 DEF TestFinish, TypeOK, MutexInv, PhaseInv, PointerInv, Slots, Task
<1>10. ASSUME NEW t \in Threads, TestQueue(t) PROVE PhaseInv'
  BY <1>1, <1>2, <1>10 DEF TestQueue, TypeOK, MutexInv, PhaseInv, PointerInv, Slots, Task
<1>11. ASSUME NEW t \in Threads, Lock(t) PROVE PhaseInv'
  BY <1>1, <1>2, <1>11 DEF Lock, TypeOK, MutexInv, PhaseInv, PointerInv, Slots, Task
<1>11b. ASSUME NEW t \in Threads, LockBusy(t) PROVE PhaseInv'
  BY <1>1, <1>2, <1>11b DEF LockBusy, TypeOK, MutexInv, PhaseInv, PointerInv, Slots, Task
<1>12. ASSUME NEW t \in Threads, PopRead(t) PROVE PhaseInv'
  BY <1>1, <1>2, <1>12 DEF PopRead, TypeOK, MutexInv, PhaseInv, PointerInv, Slots, Task
<1>13. ASSUME NEW t \in Threads, PopWrite(t) PROVE PhaseInv'
  BY <1>1, <1>2, <1>13 DEF PopWrite, TypeOK, MutexInv, PhaseInv, PointerInv, Slots, Task
<1>14. ASSUME NEW t \in Threads, Unlock(t) PROVE PhaseInv'
  BY <1>1, <1>2, <1>14 DEF Unlock, TypeOK, MutexInv, PhaseInv, PointerInv, Slots, Task
<1>15. ASSUME NEW t \in Threads, Call(t) PROVE PhaseInv'
  BY <1>1, <1>2, <1>15 DEF Call, TypeOK, MutexInv, PhaseInv, PointerInv, Slots, Task
<1>16. ASSUME NEW t \in Threads, VectorPair(t) PROVE PhaseInv'
  BY <1>1, <1>2, <1>16 DEF VectorPair, TypeOK, MutexInv, PhaseInv, PointerInv, Slots, Task
<1>17. ASSUME NEW t \in Threads, ScalarRest(t) PROVE PhaseInv'
  BY <1>1, <1>2, <1>17 DEF ScalarRest, TypeOK, MutexInv, PhaseInv, PointerInv, Slots, Task
<1>18. ASSUME NEW t \in Threads, ImageToPng(t) PROVE PhaseInv'
  BY <1>1, <1>2, <1>18 DEF ImageToPng, TypeOK, MutexInv, PhaseInv, PointerInv, Slots, Task
<1>19. CASE UNCHANGED vars
  BY <1>1, <1>2, <1>19 DEF TypeOK, MutexInv, PhaseInv, PointerInv, Slots, Task
<1>20. QED
  BY <1>3, <1>4, <1>5, <1>6, <1>7, <1>8, <1>9, <1>10, <1>11, <1>11b, <1>12, <1>13, <1>14, <1>15, <1>16, <1>17, <1>18, <1>19
     DEF Next, MainThread, WorkerLoop, Finished

\* A new task starts where the last one ended.
LEMMA QueueInvStep == IInv /\ [Next]_vars => QueueInv'
<1> SUFFICES ASSUME IInv, [Next]_vars PROVE QueueInv'
  OBVIOUS
<1> USE ThreadFacts, ChunkPositive
        DEF IInv, Goto, vars, poolVars, localVars, pixelVars
<1>1. area \in Nat \ {0} /\ Capacity \in Nat \ {0}
  BY AreaFacts
<1>2. version' = version /\ Chunk' = Chunk /\ area' = area /\ Capacity' = Capacity
  BY AreaFixed
<1>3. CASE PushChunk
  <2>1. Chunk \in Nat /\ idx \in Nat /\ idx + Chunk <= area
    BY <1>3 DEF PushChunk, TypeOK, PhaseInv
  <2>2. /\ queue'[head].ps = idx /\ queue'[head].size = Chunk
        /\ \A k \in Slots : k # head => queue'[k] = queue[k]
    BY <1>3, <2>1, MakeTaskEffect DEF PushChunk
  <2>3. idx % 2 = 0
    BY <1>3 DEF PushChunk, PhaseInv
  <2>4. ASSUME NEW k \in Slots, NEW p \in Pixels, Covers(queue[k], p) PROVE p < idx
    <3>1. queue[k].ps + queue[k].size <= idx
      BY <1>3 DEF PushChunk, PhaseInv
    <3>2. QED
      BY <2>1, <2>4, <3>1, SlotTask DEF Covers, Pixels, TypeOK
  <2>5. \A k \in Slots : queue'[k].ps + queue'[k].size <= area /\ queue'[k].ps % 2 = 0
    BY <2>1, <2>2, <2>3 DEF QueueInv
  <2>6. \A p \in Pixels : Covers(queue'[head], p) => p >= idx
    BY <2>1, <2>2 DEF Covers
  <2>7. \A j, k \in Slots : \A p \in Pixels :
          Covers(queue'[j], p) /\ Covers(queue'[k], p) => j = k
    BY <2>1, <2>2, <2>4, <2>6 DEF QueueInv, Pixels
  <2>8. QED
    BY <1>2, <2>5, <2>7 DEF QueueInv, Slots, Pixels, Covers
<1>4. CASE PushLast
  <2>1. area - idx \in Nat /\ idx \in Nat /\ idx + area - idx <= area
    BY <1>4 DEF PushLast, TypeOK, PhaseInv
  <2>2. /\ queue'[head].ps = idx /\ queue'[head].size = area - idx
        /\ \A k \in Slots : k # head => queue'[k] = queue[k]
    BY <1>4, <2>1, MakeTaskEffect DEF PushLast
  <2>3. idx % 2 = 0
    BY <1>4 DEF PushLast, PhaseInv
  <2>4. ASSUME NEW k \in Slots, NEW p \in Pixels, Covers(queue[k], p) PROVE p < idx
    <3>1. queue[k].ps + queue[k].size <= idx
      BY <1>4 DEF PushLast, PhaseInv
    <3>2. QED
      BY <2>1, <2>4, <3>1, SlotTask DEF Covers, Pixels, TypeOK
  <2>5. \A k \in Slots : queue'[k].ps + queue'[k].size <= area /\ queue'[k].ps % 2 = 0
    BY <2>1, <2>2, <2>3 DEF QueueInv
  <2>6. \A p \in Pixels : Covers(queue'[head], p) => p >= idx
    BY <2>1, <2>2 DEF Covers
  <2>7. \A j, k \in Slots : \A p \in Pixels :
          Covers(queue'[j], p) /\ Covers(queue'[k], p) => j = k
    BY <2>1, <2>2, <2>4, <2>6 DEF QueueInv, Pixels
  <2>8. QED
    BY <1>2, <2>5, <2>7 DEF QueueInv, Slots, Pixels, Covers
<1>5. CASE CreateWorker
  BY <1>1, <1>2, <1>5 DEF CreateWorker, TypeOK, PhaseInv, QueueInv, Slots, Covers, Pixels, Task
<1>6. CASE SetFinish
  BY <1>1, <1>2, <1>6 DEF SetFinish, TypeOK, PhaseInv, QueueInv, Slots, Covers, Pixels, Task
<1>7. CASE EndPool
  BY <1>1, <1>2, <1>7 DEF EndPool, TypeOK, PhaseInv, QueueInv, Slots, Covers, Pixels, Task
<1>8. CASE WritePng
  BY <1>1, <1>2, <1>8 DEF WritePng, TypeOK, PhaseInv, QueueInv, Slots, Covers, Pixels, Task
<1>9. ASSUME NEW t \in Threads, TestFinish(t) PROVE QueueInv'
  BY <1>1, <1>2, <1>9 DEF TestFinish, TypeOK, PhaseInv, QueueInv, Slots, Covers, Pixels, Task
<1>10. ASSUME NEW t \in Threads, TestQueue(t) PROVE QueueInv'
  BY <1>1, <1>2, <1>10 DEF TestQueue, TypeOK, PhaseInv, QueueInv, Slots, Covers, Pixels, Task
<1>11. ASSUME NEW t \in Threads, Lock(t) PROVE QueueInv'
  BY <1>1, <1>2, <1>11 DEF Lock, TypeOK, PhaseInv, QueueInv, Slots, Covers, Pixels, Task
<1>11b. ASSUME NEW t \in Threads, LockBusy(t) PROVE QueueInv'
  BY <1>1, <1>2, <1>11b DEF LockBusy, TypeOK, PhaseInv, QueueInv, Slots, Covers, Pixels, Task
<1>12. ASSUME NEW t \in Threads, PopRead(t) PROVE QueueInv'
  BY <1>1, <1>2, <1>12 DEF PopRead, TypeOK, PhaseInv, QueueInv, Slots, Covers, Pixels, Task
<1>13. ASSUME NEW t \in Threads, PopWrite(t) PROVE QueueInv'
  BY <1>1, <1>2, <1>13 DEF PopWrite, TypeOK, PhaseInv, QueueInv, Slots, Covers, Pixels, Task
<1>14. ASSUME NEW t \in Threads, Unlock(t) PROVE QueueInv'
  BY <1>1, <1>2, <1>14 DEF Unlock, TypeOK, PhaseInv, QueueInv, Slots, Covers, Pixels, Task
<1>15. ASSUME NEW t \in Threads, Call(t) PROVE QueueInv'
  BY <1>1, <1>2, <1>15 DEF Call, TypeOK, PhaseInv, QueueInv, Slots, Covers, Pixels, Task
<1>16. ASSUME NEW t \in Threads, VectorPair(t) PROVE QueueInv'
  BY <1>1, <1>2, <1>16 DEF VectorPair, TypeOK, PhaseInv, QueueInv, Slots, Covers, Pixels, Task
<1>17. ASSUME NEW t \in Threads, ScalarRest(t) PROVE QueueInv'
  BY <1>1, <1>2, <1>17 DEF ScalarRest, TypeOK, PhaseInv, QueueInv, Slots, Covers, Pixels, Task
<1>18. ASSUME NEW t \in Threads, ImageToPng(t) PROVE QueueInv'
  BY <1>1, <1>2, <1>18 DEF ImageToPng, TypeOK, PhaseInv, QueueInv, Slots, Covers, Pixels, Task
<1>19. CASE UNCHANGED vars
  BY <1>1, <1>2, <1>19 DEF TypeOK, PhaseInv, QueueInv, Slots, Covers, Pixels, Task
<1>20. QED
  BY <1>3, <1>4, <1>5, <1>6, <1>7, <1>8, <1>9, <1>10, <1>11, <1>11b, <1>12, <1>13, <1>14, <1>15, <1>16, <1>17, <1>18, <1>19
     DEF Next, MainThread, WorkerLoop, Finished

\* A popped slot is at or above head from then on.
LEMMA PointerInvStep == IInv /\ [Next]_vars => PointerInv'
<1> SUFFICES ASSUME IInv, [Next]_vars PROVE PointerInv'
  OBVIOUS
<1> USE ThreadFacts, ChunkPositive
        DEF IInv, Goto, vars, poolVars, localVars, pixelVars
<1>1. area \in Nat \ {0} /\ Capacity \in Nat \ {0}
  BY AreaFacts
<1>2. version' = version /\ Chunk' = Chunk /\ area' = area /\ Capacity' = Capacity
  BY AreaFixed
<1>3. CASE PushChunk
  BY <1>1, <1>2, <1>3 DEF PushChunk, MakeTask, TypeOK, MutexInv, PhaseInv, PointerInv, Holding
<1>4. CASE PushLast
  BY <1>1, <1>2, <1>4 DEF PushLast, MakeTask, TypeOK, MutexInv, PhaseInv, PointerInv, Holding
<1>5. CASE CreateWorker
  BY <1>1, <1>2, <1>5 DEF CreateWorker, TypeOK, MutexInv, PhaseInv, PointerInv, Holding
<1>6. CASE SetFinish
  BY <1>1, <1>2, <1>6 DEF SetFinish, TypeOK, MutexInv, PhaseInv, PointerInv, Holding
<1>7. CASE EndPool
  BY <1>1, <1>2, <1>7 DEF EndPool, TypeOK, MutexInv, PhaseInv, PointerInv, Holding
<1>8. CASE WritePng
  BY <1>1, <1>2, <1>8 DEF WritePng, TypeOK, MutexInv, PhaseInv, PointerInv, Holding
<1>9. ASSUME NEW t \in Threads, TestFinish(t) PROVE PointerInv'
  BY <1>1, <1>2, <1>9 DEF TestFinish, TypeOK, MutexInv, PhaseInv, PointerInv, Holding
<1>10. ASSUME NEW t \in Threads, TestQueue(t) PROVE PointerInv'
  BY <1>1, <1>2, <1>10 DEF TestQueue, TypeOK, MutexInv, PhaseInv, PointerInv, Holding
<1>11. ASSUME NEW t \in Threads, Lock(t) PROVE PointerInv'
  BY <1>1, <1>2, <1>11 DEF Lock, TypeOK, MutexInv, PhaseInv, PointerInv, Holding
<1>11b. ASSUME NEW t \in Threads, LockBusy(t) PROVE PointerInv'
  BY <1>1, <1>2, <1>11b DEF LockBusy, TypeOK, MutexInv, PhaseInv, PointerInv, Holding
<1>12. ASSUME NEW t \in Threads, PopRead(t) PROVE PointerInv'
  BY <1>1, <1>2, <1>12 DEF PopRead, TypeOK, MutexInv, PhaseInv, PointerInv, Holding
<1>13. ASSUME NEW t \in Threads, PopWrite(t) PROVE PointerInv'
  BY <1>1, <1>2, <1>13 DEF PopWrite, TypeOK, MutexInv, PhaseInv, PointerInv, Holding
<1>14. ASSUME NEW t \in Threads, Unlock(t) PROVE PointerInv'
  BY <1>1, <1>2, <1>14 DEF Unlock, TypeOK, MutexInv, PhaseInv, PointerInv, Holding
<1>15. ASSUME NEW t \in Threads, Call(t) PROVE PointerInv'
  BY <1>1, <1>2, <1>15 DEF Call, TypeOK, MutexInv, PhaseInv, PointerInv, Holding
<1>16. ASSUME NEW t \in Threads, VectorPair(t) PROVE PointerInv'
  BY <1>1, <1>2, <1>16 DEF VectorPair, TypeOK, MutexInv, PhaseInv, PointerInv, Holding
<1>17. ASSUME NEW t \in Threads, ScalarRest(t) PROVE PointerInv'
  BY <1>1, <1>2, <1>17 DEF ScalarRest, TypeOK, MutexInv, PhaseInv, PointerInv, Holding
<1>18. ASSUME NEW t \in Threads, ImageToPng(t) PROVE PointerInv'
  BY <1>1, <1>2, <1>18 DEF ImageToPng, TypeOK, MutexInv, PhaseInv, PointerInv, Holding
<1>19. CASE UNCHANGED vars
  BY <1>1, <1>2, <1>19 DEF TypeOK, MutexInv, PhaseInv, PointerInv, Holding
<1>20. QED
  BY <1>3, <1>4, <1>5, <1>6, <1>7, <1>8, <1>9, <1>10, <1>11, <1>11b, <1>12, <1>13, <1>14, <1>15, <1>16, <1>17, <1>18, <1>19
     DEF Next, MainThread, WorkerLoop, Finished

\* The slot popped under the lock is below every other thread's.
LEMMA SlotInvStep == IInv /\ [Next]_vars => SlotInv'
<1> SUFFICES ASSUME IInv, [Next]_vars PROVE SlotInv'
  OBVIOUS
<1> USE ThreadFacts, ChunkPositive
        DEF IInv, Goto, vars, poolVars, localVars, pixelVars
<1>1. area \in Nat \ {0} /\ Capacity \in Nat \ {0}
  BY AreaFacts
<1>2. version' = version /\ Chunk' = Chunk /\ area' = area /\ Capacity' = Capacity
  BY AreaFixed
<1>3. CASE PushChunk
  BY <1>1, <1>2, <1>3 DEF PushChunk, MakeTask, TypeOK, MutexInv, PhaseInv, PointerInv, SlotInv, Holding
<1>4. CASE PushLast
  BY <1>1, <1>2, <1>4 DEF PushLast, MakeTask, TypeOK, MutexInv, PhaseInv, PointerInv, SlotInv, Holding
<1>5. CASE CreateWorker
  BY <1>1, <1>2, <1>5 DEF CreateWorker, TypeOK, MutexInv, PhaseInv, PointerInv, SlotInv, Holding
<1>6. CASE SetFinish
  BY <1>1, <1>2, <1>6 DEF SetFinish, TypeOK, MutexInv, PhaseInv, PointerInv, SlotInv, Holding
<1>7. CASE EndPool
  BY <1>1, <1>2, <1>7 DEF EndPool, TypeOK, MutexInv, PhaseInv, PointerInv, SlotInv, Holding
<1>8. CASE WritePng
  BY <1>1, <1>2, <1>8 DEF WritePng, TypeOK, MutexInv, PhaseInv, PointerInv, SlotInv, Holding
<1>9. ASSUME NEW t \in Threads, TestFinish(t) PROVE SlotInv'
  BY <1>1, <1>2, <1>9 DEF TestFinish, TypeOK, MutexInv, PhaseInv, PointerInv, SlotInv, Holding
<1>10. ASSUME NEW t \in Threads, TestQueue(t) PROVE SlotInv'
  BY <1>1, <1>2, <1>10 DEF TestQueue, TypeOK, MutexInv, PhaseInv, PointerInv, SlotInv, Holding
<1>11. ASSUME NEW t \in Threads, Lock(t) PROVE SlotInv'
  BY <1>1, <1>2, <1>11 DEF Lock, TypeOK, MutexInv, PhaseInv, PointerInv, SlotInv, Holding
<1>11b. ASSUME NEW t \in Threads, LockBusy(t) PROVE SlotInv'
  BY <1>1, <1>2, <1>11b DEF LockBusy, TypeOK, MutexInv, PhaseInv, PointerInv, SlotInv, Holding
<1>12. ASSUME NEW t \in Threads, PopRead(t) PROVE SlotInv'
  <2> USE <1>12 DEF PopRead
  <2>1. ASSUME NEW u \in Threads, u # t, head # 0 PROVE task[u] # head - 1
    <3>1. pc[u] \notin {"popRead", "popWrite", "unlock"}
      BY <2>1 DEF MutexInv
    <3>2. task[u] = NoSlot \/ task[u] >= head
      BY <3>1 DEF PointerInv, Holding
    <3>3. QED
      BY <2>1, <3>2 DEF TypeOK, NoSlot
  <2>2. QED
    BY <2>1 DEF SlotInv, TypeOK
<1>13. ASSUME NEW t \in Threads, PopWrite(t) PROVE SlotInv'
  BY <1>1, <1>2, <1>13 DEF PopWrite, TypeOK, MutexInv, PhaseInv, PointerInv, SlotInv, Holding
<1>14. ASSUME NEW t \in Threads, Unlock(t) PROVE SlotInv'
  BY <1>1, <1>2, <1>14 DEF Unlock, TypeOK, MutexInv, PhaseInv, PointerInv, SlotInv, Holding
<1>15. ASSUME NEW t \in Threads, Call(t) PROVE SlotInv'
  BY <1>1, <1>2, <1>15 DEF Call, TypeOK, MutexInv, PhaseInv, PointerInv, SlotInv, Holding
<1>16. ASSUME NEW t \in Threads, VectorPair(t) PROVE SlotInv'
  BY <1>1, <1>2, <1>16 DEF VectorPair, TypeOK, MutexInv, PhaseInv, PointerInv, SlotInv, Holding
<1>17. ASSUME NEW t \in Threads, ScalarRest(t) PROVE SlotInv'
  BY <1>1, <1>2, <1>17 DEF ScalarRest, TypeOK, MutexInv, PhaseInv, PointerInv, SlotInv, Holding
<1>18. ASSUME NEW t \in Threads, ImageToPng(t) PROVE SlotInv'
  BY <1>1, <1>2, <1>18 DEF ImageToPng, TypeOK, MutexInv, PhaseInv, PointerInv, SlotInv, Holding
<1>19. CASE UNCHANGED vars
  BY <1>1, <1>2, <1>19 DEF TypeOK, MutexInv, PhaseInv, PointerInv, SlotInv, Holding
<1>20. QED
  BY <1>3, <1>4, <1>5, <1>6, <1>7, <1>8, <1>9, <1>10, <1>11, <1>11b, <1>12, <1>13, <1>14, <1>15, <1>16, <1>17, <1>18, <1>19
     DEF Next, MainThread, WorkerLoop, Finished

\* The loop variable of core_cal_sse2 stays in its chunk, at an even distance.
LEMMA ChunkInvStep == IInv /\ [Next]_vars => ChunkInv'
<1> SUFFICES ASSUME IInv, [Next]_vars PROVE ChunkInv'
  OBVIOUS
<1> USE ThreadFacts, ChunkPositive
        DEF IInv, Goto, vars, poolVars, localVars, pixelVars
<1>1. area \in Nat \ {0} /\ Capacity \in Nat \ {0}
  BY AreaFacts
<1>2. version' = version /\ Chunk' = Chunk /\ area' = area /\ Capacity' = Capacity
  BY AreaFixed
<1>3. CASE PushChunk
  BY <1>1, <1>2, <1>3 DEF PushChunk, MakeTask, TypeOK, PhaseInv, PointerInv, ChunkInv, EndOf, VectorEnd, Holding, Task
<1>4. CASE PushLast
  BY <1>1, <1>2, <1>4 DEF PushLast, MakeTask, TypeOK, PhaseInv, PointerInv, ChunkInv, EndOf, VectorEnd, Holding, Task
<1>5. CASE CreateWorker
  BY <1>1, <1>2, <1>5 DEF CreateWorker, TypeOK, PhaseInv, PointerInv, ChunkInv, EndOf, VectorEnd, Holding, Task
<1>6. CASE SetFinish
  BY <1>1, <1>2, <1>6 DEF SetFinish, TypeOK, PhaseInv, PointerInv, ChunkInv, EndOf, VectorEnd, Holding, Task
<1>7. CASE EndPool
  BY <1>1, <1>2, <1>7 DEF EndPool, TypeOK, PhaseInv, PointerInv, ChunkInv, EndOf, VectorEnd, Holding, Task
<1>8. CASE WritePng
  BY <1>1, <1>2, <1>8 DEF WritePng, TypeOK, PhaseInv, PointerInv, ChunkInv, EndOf, VectorEnd, Holding, Task
<1>9. ASSUME NEW t \in Threads, TestFinish(t) PROVE ChunkInv'
  BY <1>1, <1>2, <1>9 DEF TestFinish, TypeOK, PhaseInv, PointerInv, ChunkInv, EndOf, VectorEnd, Holding, Task
<1>10. ASSUME NEW t \in Threads, TestQueue(t) PROVE ChunkInv'
  BY <1>1, <1>2, <1>10 DEF TestQueue, TypeOK, PhaseInv, PointerInv, ChunkInv, EndOf, VectorEnd, Holding, Task
<1>11. ASSUME NEW t \in Threads, Lock(t) PROVE ChunkInv'
  BY <1>1, <1>2, <1>11 DEF Lock, TypeOK, PhaseInv, PointerInv, ChunkInv, EndOf, VectorEnd, Holding, Task
<1>11b. ASSUME NEW t \in Threads, LockBusy(t) PROVE ChunkInv'
  BY <1>1, <1>2, <1>11b DEF LockBusy, TypeOK, PhaseInv, PointerInv, ChunkInv, EndOf, VectorEnd, Holding, Task
<1>12. ASSUME NEW t \in Threads, PopRead(t) PROVE ChunkInv'
  BY <1>1, <1>2, <1>12 DEF PopRead, TypeOK, PhaseInv, PointerInv, ChunkInv, EndOf, VectorEnd, Holding, Task
<1>13. ASSUME NEW t \in Threads, PopWrite(t) PROVE ChunkInv'
  BY <1>1, <1>2, <1>13 DEF PopWrite, TypeOK, PhaseInv, PointerInv, ChunkInv, EndOf, VectorEnd, Holding, Task
<1>14. ASSUME NEW t \in Threads, Unlock(t) PROVE ChunkInv'
  BY <1>1, <1>2, <1>14 DEF Unlock, TypeOK, PhaseInv, PointerInv, ChunkInv, EndOf, VectorEnd, Holding, Task
<1>15. ASSUME NEW t \in Threads, Call(t) PROVE ChunkInv'
  <2> USE <1>15 DEF Call
  <2>1. task[t] \in Slots
    BY DEF TypeOK, PointerInv, Slots
  <2>2. /\ chunk'[t] = queue'[task'[t]] /\ at'[t] = chunk'[t].ps
        /\ chunk'[t].ps \in Nat /\ chunk'[t].size \in Nat
    BY <2>1, SlotTask DEF TypeOK
  <2>3. ASSUME NEW u \in Threads, u # t
        PROVE  chunk'[u] = chunk[u] /\ at'[u] = at[u] /\ pc'[u] = pc[u]
    BY <2>3 DEF TypeOK
  <2>4. QED
    BY <2>2, <2>3 DEF ChunkInv, EndOf, VectorEnd
<1>16. ASSUME NEW t \in Threads, VectorPair(t) PROVE ChunkInv'
  <2> USE <1>16 DEF VectorPair
  <2>1. /\ at[t] \in Nat /\ chunk[t].ps \in Nat /\ chunk[t].size \in Nat
        /\ at'[t] = at[t] + 2 /\ chunk[t].ps <= at[t]
    BY DEF TypeOK, Task, ChunkInv
  <2>2. /\ chunk[t].ps <= at'[t] /\ at'[t] <= EndOf(t)
        /\ at'[t] <= VectorEnd(t) => (at'[t] - chunk[t].ps) % 2 = 0
    BY <2>1, PairFits DEF EndOf, VectorEnd, ChunkInv
  <2>3. ASSUME NEW u \in Threads, u # t PROVE at'[u] = at[u]
    BY <2>3 DEF TypeOK
  <2>4. QED
    BY <2>2, <2>3 DEF ChunkInv, EndOf, VectorEnd
<1>17. ASSUME NEW t \in Threads, ScalarRest(t) PROVE ChunkInv'
  <2> USE <1>17 DEF ScalarRest
  <2>1. /\ at[t] \in Nat /\ chunk[t].ps \in Nat /\ chunk[t].size \in Nat
        /\ at'[t] = at[t] + 1 /\ chunk[t].ps <= at[t]
    BY DEF TypeOK, Task, ChunkInv
  <2>2. /\ chunk[t].ps <= at'[t] /\ at'[t] <= EndOf(t)
        /\ at'[t] <= VectorEnd(t) => (at'[t] - chunk[t].ps) % 2 = 0
    BY <2>1 DEF EndOf, VectorEnd, ChunkInv
  <2>3. ASSUME NEW u \in Threads, u # t PROVE at'[u] = at[u]
    BY <2>3 DEF TypeOK
  <2>4. QED
    BY <2>2, <2>3 DEF ChunkInv, EndOf, VectorEnd
<1>18. ASSUME NEW t \in Threads, ImageToPng(t) PROVE ChunkInv'
  BY <1>1, <1>2, <1>18 DEF ImageToPng, TypeOK, PhaseInv, PointerInv, ChunkInv, EndOf, VectorEnd, Holding, Task
<1>19. CASE UNCHANGED vars
  BY <1>1, <1>2, <1>19 DEF TypeOK, PhaseInv, PointerInv, ChunkInv, EndOf, VectorEnd, Holding, Task
<1>20. QED
  BY <1>3, <1>4, <1>5, <1>6, <1>7, <1>8, <1>9, <1>10, <1>11, <1>11b, <1>12, <1>13, <1>14, <1>15, <1>16, <1>17, <1>18, <1>19
     DEF Next, MainThread, WorkerLoop, Finished

\* A pixel of the chunk a thread computes is in no slot below head and in no
\* other thread's task.
LEMMA OwnPixel ==
  ASSUME IInv, NEW t \in Threads, pc[t] = "compute",
         NEW q \in Pixels, Covers(chunk[t], q)
  PROVE  /\ task[t] \in Slots /\ Covers(queue[task[t]], q)
         /\ \A k \in Slots : k < head => ~Covers(queue[k], q)
         /\ \A u \in Threads : u # t => ~Owns(u, q) /\ ~ToDo(u, q)
<1>1. /\ task[t] \in Slots /\ task[t] >= head /\ chunk[t] = queue[task[t]]
      /\ Covers(queue[task[t]], q) /\ head \in Nat
  BY DEF IInv, TypeOK, PointerInv, ChunkInv, Slots
<1>2. \A k \in Slots : k < head => ~Covers(queue[k], q)
  BY <1>1 DEF IInv, QueueInv, Slots
<1>3. ASSUME NEW u \in Threads, u # t, Owns(u, q) \/ ToDo(u, q) PROVE FALSE
  <2>1. task[u] # NoSlot /\ task[u] \in Slots /\ Covers(queue[task[u]], q)
    BY <1>3 DEF IInv, TypeOK, PointerInv, ChunkInv, Owns, ToDo, Covers, EndOf, Slots, Task, Pixels
  <2>2. task[u] = task[t]
    BY <1>1, <2>1 DEF IInv, QueueInv
  <2>3. QED
    BY <1>3, <2>1, <2>2 DEF IInv, SlotInv
<1>4. QED
  BY <1>1, <1>2, <1>3

\* Computing a pixel of one's own leaves the pixels of the others unset.
LEMMA UnsetInvStep == IInv /\ [Next]_vars => UnsetInv'
<1> SUFFICES ASSUME IInv, [Next]_vars PROVE UnsetInv'
  OBVIOUS
<1> USE ThreadFacts, ChunkPositive
        DEF IInv, Goto, vars, poolVars, localVars, pixelVars
<1>1. area \in Nat \ {0} /\ Capacity \in Nat \ {0}
  BY AreaFacts
<1>2. version' = version /\ Chunk' = Chunk /\ area' = area /\ Capacity' = Capacity
  BY AreaFixed
<1>3. CASE PushChunk
  <2>1. \A p \in Pixels : image'[p] = "unset"
    BY <1>3 DEF PushChunk, UnsetInv
  <2>2. QED
    BY <1>2, <2>1 DEF UnsetInv, Pixels
<1>4. CASE PushLast
  <2>1. \A p \in Pixels : image'[p] = "unset"
    BY <1>4 DEF PushLast, UnsetInv
  <2>2. QED
    BY <1>2, <2>1 DEF UnsetInv, Pixels
<1>5. CASE CreateWorker
  <2> USE <1>5 DEF CreateWorker
  <2>1. ASSUME NEW p \in Pixels, NEW u \in Threads, ToDo(u, p)' PROVE ToDo(u, p)
    BY <2>1 DEF ToDo, EndOf, TypeOK
  <2>2. pc'[Main] # "push"
    BY DEF PhaseInv, TypeOK
  <2>3. QED
    BY <1>2, <2>1, <2>2 DEF UnsetInv, Slots, Pixels
<1>6. CASE SetFinish
  <2> USE <1>6 DEF SetFinish
  <2>1. ASSUME NEW p \in Pixels, NEW u \in Threads, ToDo(u, p)' PROVE ToDo(u, p)
    BY <2>1 DEF ToDo, EndOf, TypeOK
  <2>2. pc'[Main] # "push"
    BY DEF PhaseInv, TypeOK
  <2>3. QED
    BY <1>2, <2>1, <2>2 DEF UnsetInv, Slots, Pixels
<1>7. CASE EndPool
  <2> USE <1>7 DEF EndPool
  <2>1. ASSUME NEW p \in Pixels, NEW u \in Threads, ToDo(u, p)' PROVE ToDo(u, p)
    BY <2>1 DEF ToDo, EndOf, TypeOK
  <2>2. pc'[Main] # "push"
    BY DEF PhaseInv, TypeOK
  <2>3. QED
    BY <1>2, <2>1, <2>2 DEF UnsetInv, Slots, Pixels
<1>8. CASE WritePng
  <2> USE <1>8 DEF WritePng
  <2>1. ASSUME NEW p \in Pixels, NEW u \in Threads, ToDo(u, p)' PROVE ToDo(u, p)
    BY <2>1 DEF ToDo, EndOf, TypeOK
  <2>2. pc'[Main] # "push"
    BY DEF PhaseInv, TypeOK
  <2>3. QED
    BY <1>2, <2>1, <2>2 DEF UnsetInv, Slots, Pixels
<1>9. ASSUME NEW t \in Threads, TestFinish(t) PROVE UnsetInv'
  <2> USE <1>9 DEF TestFinish
  <2>1. ASSUME NEW p \in Pixels, NEW u \in Threads, ToDo(u, p)' PROVE ToDo(u, p)
    BY <2>1 DEF ToDo, EndOf, TypeOK, PointerInv, Holding
  <2>2. pc'[Main] # "push"
    BY DEF PhaseInv, TypeOK
  <2>3. QED
    BY <1>2, <2>1, <2>2 DEF UnsetInv, Slots, Pixels
<1>10. ASSUME NEW t \in Threads, TestQueue(t) PROVE UnsetInv'
  <2> USE <1>10 DEF TestQueue
  <2>1. ASSUME NEW p \in Pixels, NEW u \in Threads, ToDo(u, p)' PROVE ToDo(u, p)
    BY <2>1 DEF ToDo, EndOf, TypeOK, PointerInv, Holding
  <2>2. pc'[Main] # "push"
    BY DEF PhaseInv, TypeOK
  <2>3. QED
    BY <1>2, <2>1, <2>2 DEF UnsetInv, Slots, Pixels
<1>11. ASSUME NEW t \in Threads, Lock(t) PROVE UnsetInv'
  <2> USE <1>11 DEF Lock
  <2>1. ASSUME NEW p \in Pixels, NEW u \in Threads, ToDo(u, p)' PROVE ToDo(u, p)
    BY <2>1 DEF ToDo, EndOf, TypeOK, PointerInv, Holding
  <2>2. pc'[Main] # "push"
    BY DEF PhaseInv, TypeOK
  <2>3. QED
    BY <1>2, <2>1, <2>2 DEF UnsetInv, Slots, Pixels
<1>11b. ASSUME NEW t \in Threads, LockBusy(t) PROVE UnsetInv'
  <2> USE <1>11b DEF LockBusy
  <2>1. ASSUME NEW p \in Pixels, NEW u \in Threads, ToDo(u, p)' PROVE ToDo(u, p)
    BY <2>1 DEF ToDo, EndOf, TypeOK, PointerInv, Holding
  <2>2. pc'[Main] # "push"
    BY DEF PhaseInv, TypeOK
  <2>3. QED
    BY <1>2, <2>1, <2>2 DEF UnsetInv, Slots, Pixels
<1>12. ASSUME NEW t \in Threads, PopRead(t) PROVE UnsetInv'
  <2> USE <1>12 DEF PopRead
  <2>1. ASSUME NEW p \in Pixels, NEW u \in Threads, ToDo(u, p)' PROVE ToDo(u, p)
    BY <2>1 DEF ToDo, EndOf, TypeOK, PointerInv, Holding
  <2>2. pc'[Main] # "push"
    BY DEF PhaseInv, TypeOK
  <2>3. QED
    BY <1>2, <2>1, <2>2 DEF UnsetInv, Slots, Pixels
<1>13. ASSUME NEW t \in Threads, PopWrite(t) PROVE UnsetInv'
  <2> USE <1>13 DEF PopWrite
  <2>1. head' = head - 1 /\ task[t] = head - 1 /\ task[t] \in Slots /\ head \in Nat
    BY <1>1 DEF TypeOK, PointerInv, Slots
  <2>2. ASSUME NEW p \in Pixels, NEW u \in Threads, ToDo(u, p)' PROVE image[p] = "unset"
    <3>1. CASE u = t
      <4>1. Covers(queue[task[t]], p)
        BY <2>2, <3>1 DEF ToDo, EndOf, TypeOK
      <4>2. QED
        BY <2>1, <4>1 DEF UnsetInv
    <3>2. CASE u # t
      BY <2>2, <3>2 DEF UnsetInv, ToDo, EndOf, TypeOK
    <3>3. QED
      BY <3>1, <3>2
  <2>3. ASSUME NEW p \in Pixels, NEW k \in Slots, k < head', Covers(queue[k], p)
        PROVE  image[p] = "unset"
    BY <2>1, <2>3 DEF UnsetInv, Slots
  <2>4. pc'[Main] # "push"
    BY DEF PhaseInv, TypeOK
  <2>5. QED
    BY <1>2, <2>2, <2>3, <2>4 DEF UnsetInv, Slots, Pixels
<1>14. ASSUME NEW t \in Threads, Unlock(t) PROVE UnsetInv'
  <2> USE <1>14 DEF Unlock
  <2>1. ASSUME NEW p \in Pixels, NEW u \in Threads, ToDo(u, p)' PROVE ToDo(u, p)
    BY <2>1 DEF ToDo, EndOf, TypeOK, PointerInv, Holding
  <2>2. pc'[Main] # "push"
    BY DEF PhaseInv, TypeOK
  <2>3. QED
    BY <1>2, <2>1, <2>2 DEF UnsetInv, Slots, Pixels
<1>15. ASSUME NEW t \in Threads, Call(t) PROVE UnsetInv'
  <2> USE <1>15 DEF Call
  <2>1. ASSUME NEW p \in Pixels, NEW u \in Threads, ToDo(u, p)' PROVE ToDo(u, p)
    <3>1. CASE u = t
      BY <2>1, <3>1 DEF ToDo, EndOf, Covers, TypeOK, PointerInv
    <3>2. CASE u # t
      BY <2>1, <3>2 DEF ToDo, EndOf, TypeOK
    <3>3. QED
      BY <3>1, <3>2
  <2>2. pc'[Main] # "push"
    BY DEF PhaseInv, TypeOK
  <2>3. QED
    BY <1>2, <2>1, <2>2 DEF UnsetInv, Slots, Pixels
<1>16. ASSUME NEW t \in Threads, VectorPair(t) PROVE UnsetInv'
  <2> USE <1>16 DEF VectorPair
  <2>1. ASSUME NEW p \in Pixels, image'[p] # image[p]
        PROVE  p \in {at[t], at[t] + 1} /\ Covers(chunk[t], p)
    <3>1. p \in {at[t], at[t] + 1}
      BY <2>1 DEF TypeOK
    <3>2. /\ at[t] \in Nat /\ chunk[t].ps \in Nat /\ chunk[t].size \in Nat
          /\ chunk[t].ps <= at[t] /\ (at[t] - chunk[t].ps) % 2 = 0
      BY DEF TypeOK, Task, ChunkInv, VectorEnd
    <3>3. at[t] + 2 <= EndOf(t)
      BY <3>2, PairFits DEF VectorEnd, EndOf
    <3>4. QED
      BY <3>1, <3>2, <3>3 DEF Covers, EndOf
  <2>2. ASSUME NEW p \in Pixels, NEW u \in Threads, ToDo(u, p)' PROVE image'[p] = "unset"
    <3>1. ToDo(u, p)
      <4>1. at[u] \in Nat /\ (at'[u] = at[u] \/ at'[u] = at[u] + 2) /\ p \in Int
        BY DEF TypeOK, Pixels
      <4>2. QED
        BY <2>2, <4>1 DEF ToDo, EndOf
    <3>2. CASE u = t
      BY <2>1, <2>2, <3>1, <3>2 DEF ToDo, UnsetInv, TypeOK
    <3>3. CASE u # t
      BY <2>1, <3>1, <3>3, OwnPixel DEF UnsetInv
    <3>4. QED
      BY <3>2, <3>3
  <2>3. ASSUME NEW p \in Pixels, NEW k \in Slots, k < head, Covers(queue[k], p)
        PROVE  image'[p] = "unset"
    BY <2>1, <2>3, OwnPixel DEF UnsetInv
  <2>4. pc'[Main] # "push"
    BY DEF PhaseInv, TypeOK
  <2>5. QED
    BY <1>2, <2>2, <2>3, <2>4 DEF UnsetInv, Slots, Pixels
<1>17. ASSUME NEW t \in Threads, ScalarRest(t) PROVE UnsetInv'
  <2> USE <1>17 DEF ScalarRest
  <2>1. ASSUME NEW p \in Pixels, image'[p] # image[p]
        PROVE  p \in {at[t]} /\ Covers(chunk[t], p)
    <3>1. p \in {at[t]}
      BY <2>1 DEF TypeOK
    <3>2. /\ at[t] \in Nat /\ chunk[t].ps \in Nat /\ chunk[t].size \in Nat
          /\ chunk[t].ps <= at[t]
      BY DEF TypeOK, Task, ChunkInv
    <3>3. QED
      BY <3>1, <3>2 DEF Covers, VectorEnd, EndOf
  <2>2. ASSUME NEW p \in Pixels, NEW u \in Threads, ToDo(u, p)' PROVE image'[p] = "unset"
    <3>1. ToDo(u, p)
      <4>1. at[u] \in Nat /\ (at'[u] = at[u] \/ at'[u] = at[u] + 1) /\ p \in Int
        BY DEF TypeOK, Pixels
      <4>2. QED
        BY <2>2, <4>1 DEF ToDo, EndOf
    <3>2. CASE u = t
      BY <2>1, <2>2, <3>1, <3>2 DEF ToDo, UnsetInv, TypeOK
    <3>3. CASE u # t
      BY <2>1, <3>1, <3>3, OwnPixel DEF UnsetInv
    <3>4. QED
      BY <3>2, <3>3
  <2>3. ASSUME NEW p \in Pixels, NEW k \in Slots, k < head, Covers(queue[k], p)
        PROVE  image'[p] = "unset"
    BY <2>1, <2>3, OwnPixel DEF UnsetInv
  <2>4. pc'[Main] # "push"
    BY DEF PhaseInv, TypeOK
  <2>5. QED
    BY <1>2, <2>2, <2>3, <2>4 DEF UnsetInv, Slots, Pixels
<1>18. ASSUME NEW t \in Threads, ImageToPng(t) PROVE UnsetInv'
  <2> USE <1>18 DEF ImageToPng
  <2>1. ASSUME NEW p \in Pixels, NEW u \in Threads, ToDo(u, p)' PROVE ToDo(u, p)
    BY <2>1 DEF ToDo, EndOf, TypeOK
  <2>2. pc'[Main] # "push"
    BY DEF PhaseInv, TypeOK
  <2>3. QED
    BY <1>2, <2>1, <2>2 DEF UnsetInv, Slots, Pixels
<1>19. CASE UNCHANGED vars
  BY <1>1, <1>2, <1>19 DEF TypeOK, PhaseInv, PointerInv, UnsetInv, ToDo, Slots, Holding, Pixels, EndOf
<1>20. QED
  BY <1>3, <1>4, <1>5, <1>6, <1>7, <1>8, <1>9, <1>10, <1>11, <1>11b, <1>12, <1>13, <1>14, <1>15, <1>16, <1>17, <1>18, <1>19
     DEF Next, MainThread, WorkerLoop, Finished

\* A pixel that is passed by the loop variable is computed.
LEMMA SetInvStep == IInv /\ [Next]_vars => SetInv'
<1> SUFFICES ASSUME IInv, [Next]_vars PROVE SetInv'
  OBVIOUS
<1> USE ThreadFacts, ChunkPositive
        DEF IInv, Goto, vars, poolVars, localVars, pixelVars
<1>1. area \in Nat \ {0} /\ Capacity \in Nat \ {0}
  BY AreaFacts
<1>2. version' = version /\ Chunk' = Chunk /\ area' = area /\ Capacity' = Capacity
  BY AreaFixed
<1>3. CASE PushChunk
  BY <1>1, <1>2, <1>3 DEF PushChunk, MakeTask, TypeOK, PhaseInv, SetInv, Pixels
<1>4. CASE PushLast
  BY <1>1, <1>2, <1>4 DEF PushLast, MakeTask, TypeOK, PhaseInv, SetInv, Pixels
<1>5. CASE CreateWorker
  BY <1>1, <1>2, <1>5 DEF CreateWorker, TypeOK, PhaseInv, SetInv, Pixels
<1>6. CASE SetFinish
  BY <1>1, <1>2, <1>6 DEF SetFinish, TypeOK, PhaseInv, SetInv, Pixels
<1>7. CASE EndPool
  BY <1>1, <1>2, <1>7 DEF EndPool, TypeOK, PhaseInv, SetInv, Pixels
<1>8. CASE WritePng
  BY <1>1, <1>2, <1>8 DEF WritePng, TypeOK, PhaseInv, SetInv, Pixels
<1>9. ASSUME NEW t \in Threads, TestFinish(t) PROVE SetInv'
  BY <1>1, <1>2, <1>9 DEF TestFinish, TypeOK, PhaseInv, SetInv, Pixels
<1>10. ASSUME NEW t \in Threads, TestQueue(t) PROVE SetInv'
  BY <1>1, <1>2, <1>10 DEF TestQueue, TypeOK, PhaseInv, SetInv, Pixels
<1>11. ASSUME NEW t \in Threads, Lock(t) PROVE SetInv'
  BY <1>1, <1>2, <1>11 DEF Lock, TypeOK, PhaseInv, SetInv, Pixels
<1>11b. ASSUME NEW t \in Threads, LockBusy(t) PROVE SetInv'
  BY <1>1, <1>2, <1>11b DEF LockBusy, TypeOK, PhaseInv, SetInv, Pixels
<1>12. ASSUME NEW t \in Threads, PopRead(t) PROVE SetInv'
  BY <1>1, <1>2, <1>12 DEF PopRead, TypeOK, PhaseInv, SetInv, Pixels
<1>13. ASSUME NEW t \in Threads, PopWrite(t) PROVE SetInv'
  BY <1>1, <1>2, <1>13 DEF PopWrite, TypeOK, PhaseInv, SetInv, Pixels
<1>14. ASSUME NEW t \in Threads, Unlock(t) PROVE SetInv'
  BY <1>1, <1>2, <1>14 DEF Unlock, TypeOK, PhaseInv, SetInv, Pixels
<1>15. ASSUME NEW t \in Threads, Call(t) PROVE SetInv'
  <2> USE <1>15 DEF Call
  <2>1. task[t] \in Slots
    BY DEF TypeOK, PointerInv, Slots
  <2>2. chunk'[t].ps = at'[t] /\ at'[t] \in Nat
    BY <2>1, SlotTask DEF TypeOK
  <2>3. ASSUME NEW u \in Threads, u # t
        PROVE  chunk'[u] = chunk[u] /\ at'[u] = at[u] /\ pc'[u] = pc[u]
    BY <2>3 DEF TypeOK
  <2>4. QED
    BY <1>2, <2>2, <2>3 DEF SetInv, Pixels
<1>16. ASSUME NEW t \in Threads, VectorPair(t) PROVE SetInv'
  <2> USE <1>16 DEF VectorPair
  <2>1. at[t] \in Nat /\ at'[t] = at[t] + 2
    BY DEF TypeOK
  <2>2. ASSUME NEW p \in Pixels, image[p] # "unset" PROVE image'[p] # "unset"
    BY <2>2 DEF TypeOK
  <2>3. ASSUME NEW p \in Pixels, at[t] <= p, p < at'[t] PROVE image'[p] # "unset"
    BY <2>1, <2>3 DEF TypeOK, Pixels
  <2>4. ASSUME NEW u \in Threads, u # t PROVE at'[u] = at[u]
    BY <2>4 DEF TypeOK
  <2>5. SUFFICES ASSUME NEW u \in Threads, NEW p \in Pixels,
                        pc[u] = "compute", chunk[u].ps <= p, p < at'[u]
                 PROVE  image'[p] # "unset"
    BY <1>2 DEF SetInv, Pixels
  <2>6. CASE u = t /\ at[t] <= p
    BY <2>3, <2>5, <2>6
  <2>7. CASE ~(u = t /\ at[t] <= p)
    <3>1. p < at[u]
      BY <2>1, <2>4, <2>5, <2>7 DEF Pixels, TypeOK
    <3>2. QED
      BY <2>2, <2>5, <3>1 DEF SetInv
  <2>8. QED
    BY <2>6, <2>7
<1>17. ASSUME NEW t \in Threads, ScalarRest(t) PROVE SetInv'
  <2> USE <1>17 DEF ScalarRest
  <2>1. at[t] \in Nat /\ at'[t] = at[t] + 1
    BY DEF TypeOK
  <2>2. ASSUME NEW p \in Pixels, image[p] # "unset" PROVE image'[p] # "unset"
    BY <2>2 DEF TypeOK
  <2>3. ASSUME NEW p \in Pixels, at[t] <= p, p < at'[t] PROVE image'[p] # "unset"
    BY <2>1, <2>3 DEF TypeOK, Pixels
  <2>4. ASSUME NEW u \in Threads, u # t PROVE at'[u] = at[u]
    BY <2>4 DEF TypeOK
  <2>5. SUFFICES ASSUME NEW u \in Threads, NEW p \in Pixels,
                        pc[u] = "compute", chunk[u].ps <= p, p < at'[u]
                 PROVE  image'[p] # "unset"
    BY <1>2 DEF SetInv, Pixels
  <2>6. CASE u = t /\ at[t] <= p
    BY <2>3, <2>5, <2>6
  <2>7. CASE ~(u = t /\ at[t] <= p)
    <3>1. p < at[u]
      BY <2>1, <2>4, <2>5, <2>7 DEF Pixels, TypeOK
    <3>2. QED
      BY <2>2, <2>5, <3>1 DEF SetInv
  <2>8. QED
    BY <2>6, <2>7
<1>18. ASSUME NEW t \in Threads, ImageToPng(t) PROVE SetInv'
  BY <1>1, <1>2, <1>18 DEF ImageToPng, TypeOK, PhaseInv, SetInv, Pixels
<1>19. CASE UNCHANGED vars
  BY <1>1, <1>2, <1>19 DEF TypeOK, PhaseInv, SetInv, Pixels
<1>20. QED
  BY <1>3, <1>4, <1>5, <1>6, <1>7, <1>8, <1>9, <1>10, <1>11, <1>11b, <1>12, <1>13, <1>14, <1>15, <1>16, <1>17, <1>18, <1>19
     DEF Next, MainThread, WorkerLoop, Finished

\* A pixel moves from main to a slot, to a thread, to the picture.
LEMMA NoPixelLostStep == IInv /\ [Next]_vars => NoPixelLost'
<1> SUFFICES ASSUME IInv, [Next]_vars PROVE NoPixelLost'
  OBVIOUS
<1> USE ThreadFacts, ChunkPositive
        DEF IInv, Goto, vars, poolVars, localVars, pixelVars
<1>1. area \in Nat \ {0} /\ Capacity \in Nat \ {0}
  BY AreaFacts
<1>2. version' = version /\ Chunk' = Chunk /\ area' = area /\ Capacity' = Capacity
  BY AreaFixed
<1>3. CASE PushChunk
  <2>1. Chunk \in Nat /\ idx \in Nat /\ head \in Nat
    BY <1>3 DEF PushChunk, TypeOK, PhaseInv
  <2>2. /\ head' = head + 1
        /\ queue'[head].ps = idx /\ queue'[head].size = Chunk
        /\ \A k \in Slots : k # head => queue'[k] = queue[k]
    BY <1>3, <2>1, MakeTaskEffect DEF PushChunk
  <2>3. SUFFICES ASSUME NEW p \in Pixels
                 PROVE  \/ pc'[Main] = "push" /\ idx' <= p
                        \/ \E k \in 0..(head' - 1) : Covers(queue'[k], p)
                        \/ raw_img'[p] # "unset"
    BY <1>2 DEF NoPixelLost, Pixels
  <2>4. CASE idx <= p
    <3>1. p < idx + Chunk => Covers(queue'[head], p)
      BY <2>1, <2>2, <2>4 DEF Covers, Pixels
    <3>2. p >= idx + Chunk => pc'[Main] = "push" /\ idx' <= p
      BY <1>3, <2>1 DEF PushChunk, Pixels, TypeOK
    <3>3. QED
      BY <2>1, <2>2, <3>1, <3>2 DEF Pixels, TypeOK
  <2>5. ASSUME NEW k \in 0..(head - 1), Covers(queue[k], p)
        PROVE  \E j \in 0..(head' - 1) : Covers(queue'[j], p)
    <3>1. k \in Slots /\ k # head /\ k \in 0..(head' - 1)
      BY <1>1, <2>1, <2>2 DEF Slots, TypeOK
    <3>2. QED
      BY <2>2, <2>5, <3>1
  <2>6. ASSUME NEW t \in Threads, Owns(t, p) PROVE FALSE
    BY <1>3, <2>6 DEF PushChunk, Owns, PhaseInv
  <2>7. CASE raw_img[p] # "unset"
    BY <1>3, <2>7 DEF PushChunk
  <2>8. QED
    BY <2>4, <2>5, <2>6, <2>7 DEF NoPixelLost
<1>4. CASE PushLast
  <2>1. area - idx \in Nat /\ idx \in Nat /\ head \in Nat
    BY <1>4 DEF PushLast, TypeOK, PhaseInv
  <2>2. /\ head' = head + 1
        /\ queue'[head].ps = idx /\ queue'[head].size = area - idx
        /\ \A k \in Slots : k # head => queue'[k] = queue[k]
    BY <1>4, <2>1, MakeTaskEffect DEF PushLast
  <2>3. SUFFICES ASSUME NEW p \in Pixels
                 PROVE  \/ pc'[Main] = "push" /\ idx' <= p
                        \/ \E k \in 0..(head' - 1) : Covers(queue'[k], p)
                        \/ raw_img'[p] # "unset"
    BY <1>2 DEF NoPixelLost, Pixels
  <2>4. CASE idx <= p
    <3>1. p < idx + area - idx => Covers(queue'[head], p)
      BY <2>1, <2>2, <2>4 DEF Covers, Pixels
    <3>2. p >= idx + area - idx => pc'[Main] = "push" /\ idx' <= p
      BY <1>4, <2>1 DEF PushLast, Pixels, TypeOK
    <3>3. QED
      BY <2>1, <2>2, <3>1, <3>2 DEF Pixels, TypeOK
  <2>5. ASSUME NEW k \in 0..(head - 1), Covers(queue[k], p)
        PROVE  \E j \in 0..(head' - 1) : Covers(queue'[j], p)
    <3>1. k \in Slots /\ k # head /\ k \in 0..(head' - 1)
      BY <1>1, <2>1, <2>2 DEF Slots, TypeOK
    <3>2. QED
      BY <2>2, <2>5, <3>1
  <2>6. ASSUME NEW t \in Threads, Owns(t, p) PROVE FALSE
    BY <1>4, <2>6 DEF PushLast, Owns, PhaseInv
  <2>7. CASE raw_img[p] # "unset"
    BY <1>4, <2>7 DEF PushLast
  <2>8. QED
    BY <2>4, <2>5, <2>6, <2>7 DEF NoPixelLost
<1>5. CASE CreateWorker
  BY <1>1, <1>2, <1>5 DEF CreateWorker, TypeOK, PhaseInv, PointerInv, NoPixelLost, Owns, Holding, Slots, Covers, EndOf, VectorEnd, Pixels, Task, Origin
<1>6. CASE SetFinish
  BY <1>1, <1>2, <1>6 DEF SetFinish, TypeOK, PhaseInv, PointerInv, NoPixelLost, Owns, Holding, Slots, Covers, EndOf, VectorEnd, Pixels, Task, Origin
<1>7. CASE EndPool
  BY <1>1, <1>2, <1>7 DEF EndPool, TypeOK, PhaseInv, PointerInv, NoPixelLost, Owns, Holding, Slots, Covers, EndOf, VectorEnd, Pixels, Task, Origin
<1>8. CASE WritePng
  BY <1>1, <1>2, <1>8 DEF WritePng, TypeOK, PhaseInv, PointerInv, NoPixelLost, Owns, Holding, Slots, Covers, EndOf, VectorEnd, Pixels, Task, Origin
<1>9. ASSUME NEW t \in Threads, TestFinish(t) PROVE NoPixelLost'
  BY <1>1, <1>2, <1>9 DEF TestFinish, TypeOK, PhaseInv, PointerInv, NoPixelLost, Owns, Holding, Slots, Covers, EndOf, VectorEnd, Pixels, Task, Origin
<1>10. ASSUME NEW t \in Threads, TestQueue(t) PROVE NoPixelLost'
  BY <1>1, <1>2, <1>10 DEF TestQueue, TypeOK, PhaseInv, PointerInv, NoPixelLost, Owns, Holding, Slots, Covers, EndOf, VectorEnd, Pixels, Task, Origin
<1>11. ASSUME NEW t \in Threads, Lock(t) PROVE NoPixelLost'
  BY <1>1, <1>2, <1>11 DEF Lock, TypeOK, PhaseInv, PointerInv, NoPixelLost, Owns, Holding, Slots, Covers, EndOf, VectorEnd, Pixels, Task, Origin
<1>11b. ASSUME NEW t \in Threads, LockBusy(t) PROVE NoPixelLost'
  BY <1>1, <1>2, <1>11b DEF LockBusy, TypeOK, PhaseInv, PointerInv, NoPixelLost, Owns, Holding, Slots, Covers, EndOf, VectorEnd, Pixels, Task, Origin
<1>12. ASSUME NEW t \in Threads, PopRead(t) PROVE NoPixelLost'
  BY <1>1, <1>2, <1>12 DEF PopRead, TypeOK, PhaseInv, PointerInv, NoPixelLost, Owns, Holding, Slots, Covers, EndOf, VectorEnd, Pixels, Task, Origin
<1>13. ASSUME NEW t \in Threads, PopWrite(t) PROVE NoPixelLost'
  <2> USE <1>13 DEF PopWrite
  <2>1. head' = head - 1 /\ task[t] = head - 1 /\ task[t] # NoSlot /\ head \in Nat
    BY DEF TypeOK, PointerInv, NoSlot
  <2>2. ASSUME NEW p \in Pixels, NEW k \in 0..(head - 1), Covers(queue[k], p)
        PROVE  (\E j \in 0..(head' - 1) : Covers(queue[j], p)) \/ Owns(t, p)'
    <3>1. CASE k = head - 1
      BY <2>1, <2>2, <3>1 DEF Owns, TypeOK
    <3>2. CASE k # head - 1
      <4>1. k \in 0..(head' - 1)
        BY <2>1, <3>2
      <4>2. QED
        BY <2>2, <4>1
    <3>3. QED
      BY <3>1, <3>2
  <2>3. ASSUME NEW p \in Pixels, NEW u \in Threads, Owns(u, p) PROVE Owns(u, p)'
    BY <2>3 DEF Owns, EndOf, TypeOK
  <2>4. pc[Main] # "push"
    BY DEF PhaseInv
  <2>5. QED
    BY <1>2, <2>2, <2>3, <2>4 DEF NoPixelLost, Pixels
<1>14. ASSUME NEW t \in Threads, Unlock(t) PROVE NoPixelLost'
  BY <1>1, <1>2, <1>14 DEF Unlock, TypeOK, PhaseInv, PointerInv, NoPixelLost, Owns, Holding, Slots, Covers, EndOf, VectorEnd, Pixels, Task, Origin
<1>15. ASSUME NEW t \in Threads, Call(t) PROVE NoPixelLost'
  BY <1>1, <1>2, <1>15 DEF Call, TypeOK, PhaseInv, PointerInv, NoPixelLost, Owns, Holding, Slots, Covers, EndOf, VectorEnd, Pixels, Task, Origin
<1>16. ASSUME NEW t \in Threads, VectorPair(t) PROVE NoPixelLost'
  BY <1>1, <1>2, <1>16 DEF VectorPair, TypeOK, PhaseInv, PointerInv, NoPixelLost, Owns, Holding, Slots, Covers, EndOf, VectorEnd, Pixels, Task, Origin
<1>17. ASSUME NEW t \in Threads, ScalarRest(t) PROVE NoPixelLost'
  BY <1>1, <1>2, <1>17 DEF ScalarRest, TypeOK, PhaseInv, PointerInv, NoPixelLost, Owns, Holding, Slots, Covers, EndOf, VectorEnd, Pixels, Task, Origin
<1>18. ASSUME NEW t \in Threads, ImageToPng(t) PROVE NoPixelLost'
  <2> USE <1>18 DEF ImageToPng
  <2>1. ASSUME NEW p \in Pixels, Covers(chunk[t], p) PROVE image[p] # "unset"
    BY <2>1 DEF SetInv, Covers, EndOf, ChunkInv, TypeOK, Task, Pixels
  <2>2. ASSUME NEW p \in Pixels, Covers(chunk[t], p) PROVE raw_img'[p] # "unset"
    BY <2>1, <2>2 DEF Covers, EndOf
  <2>3. ASSUME NEW p \in Pixels, raw_img[p] # "unset" PROVE raw_img'[p] # "unset"
    BY <2>2, <2>3 DEF Covers, EndOf
  <2>4. ASSUME NEW p \in Pixels, NEW u \in Threads, Owns(u, p)
        PROVE  Owns(u, p)' \/ raw_img'[p] # "unset"
    <3>1. CASE u = t
      BY <2>2, <2>4, <3>1 DEF Owns
    <3>2. CASE u # t
      BY <2>4, <3>2 DEF Owns, TypeOK
    <3>3. QED
      BY <3>1, <3>2
  <2>5. pc[Main] # "push"
    BY DEF PhaseInv
  <2>6. QED
    BY <1>2, <2>3, <2>4, <2>5 DEF NoPixelLost, Pixels
<1>19. CASE UNCHANGED vars
  BY <1>1, <1>2, <1>19 DEF TypeOK, PhaseInv, PointerInv, NoPixelLost, Owns, Holding, Slots, Covers, EndOf, VectorEnd, Pixels, Task, Origin
<1>20. QED
  BY <1>3, <1>4, <1>5, <1>6, <1>7, <1>8, <1>9, <1>10, <1>11, <1>11b, <1>12, <1>13, <1>14, <1>15, <1>16, <1>17, <1>18, <1>19
     DEF Next, MainThread, WorkerLoop, Finished

-----------------------------------------------------------------------------
(* The theorems.                                                           *)

\* The inductive invariant holds in every reachable state.
THEOREM Invariance == Spec => []IInv
<1>1. Init => IInv
  BY InitInv
<1>2. IInv /\ [Next]_vars => IInv'
  BY TypeOKStep, MutexInvStep, PhaseInvStep, QueueInvStep, PointerInvStep,
     SlotInvStep, ChunkInvStep, UnsetInvStep, SetInvStep, NoPixelLostStep DEF IInv
<1>3. QED
  BY <1>1, <1>2, PTL DEF Spec

\* Every variable keeps its type: head stays inside the array that
\* create_queue allocated, whatever the picture and the number of CPUs.
THEOREM TypeCorrect == Spec => []TypeOK
<1>1. IInv => TypeOK
  BY DEF IInv
<1>2. QED
  BY <1>1, Invariance, PTL

\* make_task never drops a chunk and no thread leaves one behind.
THEOREM NoPixelIsLost == Spec => []NoPixelLost
<1>1. IInv => NoPixelLost
  BY DEF IInv
<1>2. QED
  BY <1>1, Invariance, PTL

\* No two threads compute one pixel.
THEOREM ChunksAreExclusive == Spec => []Exclusive
<1>1. ASSUME IInv PROVE Exclusive
  <2> USE <1>1
  <2>1. SUFFICES ASSUME NEW t \in Threads, pc[t] = "compute"
                 PROVE  /\ \A p \in at[t]..(EndOf(t) - 1) : image[p] = "unset"
                        /\ \A u \in Threads \ {t} : pc[u] = "compute" =>
                             \A p \in chunk[t].ps..(EndOf(t) - 1) : ~Covers(chunk[u], p)
    BY DEF Exclusive
  <2>2. /\ at[t] \in Nat /\ chunk[t].ps \in Nat /\ chunk[t].size \in Nat
        /\ chunk[t].ps <= at[t] /\ EndOf(t) <= area /\ area \in Nat
    <3>1. task[t] \in Slots /\ chunk[t] = queue[task[t]]
      BY <2>1 DEF IInv, TypeOK, PointerInv, ChunkInv, Slots
    <3>2. QED
      BY <2>1, <3>1, SlotTask DEF IInv, TypeOK, ChunkInv, QueueInv, EndOf
  <2>3. ASSUME NEW p \in chunk[t].ps..(EndOf(t) - 1)
        PROVE  p \in Pixels /\ Covers(chunk[t], p)
    BY <2>2 DEF Pixels, Covers, EndOf
  <2>4. ASSUME NEW p \in at[t]..(EndOf(t) - 1) PROVE image[p] = "unset"
    <3>1. EndOf(t) \in Nat /\ p \in Nat /\ at[t] <= p /\ p < EndOf(t)
      BY <2>2 DEF EndOf
    <3>2. p \in Pixels /\ ToDo(t, p)
      BY <2>1, <2>2, <3>1 DEF Pixels, ToDo
    <3>3. QED
      BY <3>2 DEF IInv, UnsetInv
  <2>5. ASSUME NEW u \in Threads \ {t}, pc[u] = "compute",
               NEW p \in chunk[t].ps..(EndOf(t) - 1)
        PROVE  ~Covers(chunk[u], p)
    BY <2>1, <2>3, <2>5, OwnPixel DEF Owns
  <2>6. QED
    BY <2>4, <2>5
<1>2. QED
  BY <1>1, Invariance, PTL

\* The pointer that pop() returns is good until it is dereferenced.
THEOREM PointersAreStable == Spec => []PointerStable
<1>1. IInv => PointerStable
  BY DEF IInv, PointerInv, SlotInv, PointerStable
<1>2. QED
  BY <1>1, Invariance, PTL

\* The vector stores are aligned on every machine.
THEOREM StoresAreAligned == Spec => []AlignedStores
<1>1. ASSUME IInv, NEW t \in Threads, pc[t] = "compute", at[t] < VectorEnd(t)
      PROVE  at[t] % 2 = 0
  <2>1. task[t] \in Slots /\ chunk[t] = queue[task[t]]
    BY <1>1 DEF IInv, TypeOK, PointerInv, ChunkInv, Slots
  <2>2. /\ chunk[t].ps \in Nat /\ chunk[t].ps % 2 = 0 /\ at[t] \in Nat
        /\ chunk[t].ps <= at[t] /\ VectorEnd(t) \in Nat
    BY <1>1, <2>1, SlotTask DEF IInv, TypeOK, QueueInv, ChunkInv, VectorEnd
  <2>3. (at[t] - chunk[t].ps) % 2 = 0
    BY <1>1, <2>2 DEF IInv, ChunkInv
  <2>4. QED
    BY <2>2, <2>3
<1>2. IInv => AlignedStores
  BY <1>1 DEF AlignedStores
<1>3. QED
  BY <1>2, Invariance, PTL

\* write_png starts on a finished picture.
THEOREM PictureIsComplete == Spec => []PictureComplete
<1>1. ASSUME IInv, pc[Main] = "write"
      PROVE  /\ \A p \in Pixels : raw_img[p] # "unset"
             /\ \A w \in Workers : pc[w] = "exited"
  <2>0. 1 \in Workers
    BY CpuNumAssumption DEF Workers
  <2>1. head = 0 /\ \A w \in Workers : pc[w] = "exited"
    BY <1>1, <2>0 DEF IInv, PhaseInv
  <2>2. ASSUME NEW t \in Threads, NEW p \in Pixels PROVE ~Owns(t, p)
    BY <1>1, <2>1, ThreadFacts DEF Owns
  <2>3. QED
    BY <1>1, <2>1, <2>2 DEF IInv, NoPixelLost
<1>2. IInv => PictureComplete
  BY <1>1 DEF PictureComplete
<1>3. QED
  BY <1>2, Invariance, PTL

-----------------------------------------------------------------------------
(* What is computed from memory nobody wrote.                              *)

\* Only the last task can have an odd number of pixels.
OddInv ==
  \A k \in Slots : queue[k].size % 2 = 1 => queue[k].ps + queue[k].size = area

\* A chunk with a pixel behind its vector part is odd, and it is the last one.
LEMMA RestFits ==
  ASSUME NEW n \in Nat, NEW ps \in Nat, NEW a \in Nat, ps % 2 = 0,
         ps + 2 * (n \div 2) <= a, a < ps + n
  PROVE  n % 2 = 1 /\ a = ps + n - 1 /\ (ps + n) % 2 = 1
<1>1. n = 2 * (n \div 2) + (n % 2) /\ n % 2 \in {0, 1}
  OBVIOUS
<1>2. n % 2 = 1 /\ a = ps + n - 1
  BY <1>1
<1>3. QED
  BY <1>2

LEMMA OddInvStep == IInv /\ OddInv /\ [Next]_vars => OddInv'
<1> SUFFICES ASSUME IInv, OddInv, [Next]_vars PROVE OddInv'
  OBVIOUS
<1> USE DEF IInv, vars, poolVars, localVars, pixelVars
<1>1. area' = area /\ Slots' = Slots
  BY AreaFixed DEF Slots
<1>2. CASE PushChunk
  <2>1. Chunk \in Nat /\ Chunk % 2 = 0
    BY ChunkPositive, ChunkEven
  <2>2. /\ head \in Slots /\ queue'[head].ps = idx /\ queue'[head].size = Chunk
        /\ \A k \in Slots : k # head => queue'[k] = queue[k]
    BY <1>2, <2>1, MakeTaskEffect DEF PushChunk
  <2>3. QED
    BY <1>1, <2>1, <2>2 DEF OddInv
<1>3. CASE PushLast
  <2>1. area - idx \in Nat /\ idx \in Nat /\ area \in Nat
    BY <1>3 DEF PushLast, TypeOK, PhaseInv
  <2>2. /\ head \in Slots /\ queue'[head].ps = idx /\ queue'[head].size = area - idx
        /\ \A k \in Slots : k # head => queue'[k] = queue[k]
    BY <1>3, <2>1, MakeTaskEffect DEF PushLast
  <2>3. QED
    BY <1>1, <2>1, <2>2 DEF OddInv
<1>4. CASE UNCHANGED queue
  BY <1>1, <1>4 DEF OddInv
<1>5. QED
  BY <1>2, <1>3, <1>4 DEF Next, MainThread, WorkerLoop, Finished, CreateWorker, SetFinish,
     EndPool, WritePng, TestFinish, TestQueue, Lock, LockBusy, PopRead, PopWrite, Unlock,
     Call, VectorPair, ScalarRest, ImageToPng

LEMMA JunkStep == IInv /\ OddInv /\ JunkOnlyLast /\ [Next]_vars => JunkOnlyLast'
<1> SUFFICES ASSUME IInv, OddInv, JunkOnlyLast, [Next]_vars PROVE JunkOnlyLast'
  OBVIOUS
<1> USE DEF IInv, vars, poolVars, localVars, pixelVars
<1>1. area' = area /\ Pixels' = Pixels
  BY AreaFixed DEF Pixels
<1>2. ASSUME NEW t \in Threads, VectorPair(t) PROVE JunkOnlyLast'
  <2>1. \A p \in Pixels : image'[p] \in {image[p], "own"}
    BY <1>2 DEF VectorPair, TypeOK
  <2>2. QED
    BY <1>1, <2>1 DEF JunkOnlyLast
<1>3. ASSUME NEW t \in Threads, ScalarRest(t) PROVE JunkOnlyLast'
  <2>1. task[t] \in Slots /\ chunk[t] = queue[task[t]]
    BY <1>3 DEF ScalarRest, TypeOK, PointerInv, ChunkInv, Slots
  <2>2. /\ chunk[t].ps \in Nat /\ chunk[t].size \in Nat /\ chunk[t].ps % 2 = 0
        /\ at[t] \in Nat
    BY <2>1, SlotTask DEF TypeOK, QueueInv
  <2>3. /\ chunk[t].size % 2 = 1 /\ at[t] = chunk[t].ps + chunk[t].size - 1
        /\ (chunk[t].ps + chunk[t].size) % 2 = 1
    BY <1>3, <2>2, RestFits DEF ScalarRest, VectorEnd, EndOf
  <2>4. at[t] = area - 1 /\ area % 2 = 1
    <3>1. chunk[t].ps + chunk[t].size = area
      BY <2>1, <2>3 DEF OddInv
    <3>2. QED
      BY <2>2, <2>3, <3>1
  <2>5. \A p \in Pixels : p # at[t] => image'[p] = image[p]
    BY <1>3 DEF ScalarRest, TypeOK
  <2>6. QED
    BY <1>1, <2>4, <2>5 DEF JunkOnlyLast
<1>4. CASE UNCHANGED image
  BY <1>1, <1>4 DEF JunkOnlyLast
<1>5. QED
  BY <1>2, <1>3, <1>4, ThreadFacts DEF Next, MainThread, WorkerLoop, Finished, PushChunk,
     PushLast, CreateWorker, SetFinish, EndPool, WritePng, TestFinish, TestQueue, Lock,
     LockBusy, PopRead, PopWrite, Unlock, Call, ImageToPng

\* Only the last pixel, and only of a picture with an odd number of them, can
\* be computed from coordinates nobody assigned.
THEOREM JunkIsOnlyLast == Spec => []JunkOnlyLast
<1>1. Init => OddInv /\ JunkOnlyLast
  <2>1. ASSUME Init PROVE OddInv
    BY <2>1, InitInv DEF Init, OddInv, Slots, NoTask
  <2>2. ASSUME Init PROVE JunkOnlyLast
    BY <2>2 DEF Init, JunkOnlyLast
  <2>3. QED
    BY <2>1, <2>2
<1>2. IInv /\ OddInv /\ JunkOnlyLast /\ [Next]_vars => (OddInv /\ JunkOnlyLast)'
  BY OddInvStep, JunkStep
<1>3. QED
  BY <1>1, <1>2, Invariance, PTL DEF Spec

-----------------------------------------------------------------------------
(* TaskPool implements SharedWork: each of its steps is a step of the      *)
(* abstract specification, or leaves alone all that it speaks of.          *)

workVars == <<Free, Held, Computed, Leavers, Written>>

LEMMA HeldIs ==
  /\ Held = [t \in Threads |-> Held[t]]
  /\ \A t \in Threads : Held[t] = {p \in Pixels : Owns(t, p)}
BY DEF Held

LEMMA HeldIsNext ==
  ASSUME area' = area
  PROVE  /\ Held' = [t \in Threads |-> Held'[t]]
         /\ \A t \in Threads : Held'[t] = {p \in Pixels : Owns(t, p)'}
BY DEF Held, Pixels

\* A step that leaves the pixels of all threads but t alone
LEMMA HeldByOne ==
  ASSUME area' = area, NEW t \in Threads, NEW S, Held'[t] = S,
         \A u \in Threads \ {t} : \A p \in Pixels : Owns(u, p)' <=> Owns(u, p)
  PROVE  Held' = [Held EXCEPT ![t] = S]
<1>1. \A u \in Threads \ {t} : Held'[u] = Held[u]
  BY HeldIs, HeldIsNext
<1>2. QED
  BY <1>1, HeldIs, HeldIsNext

LEMMA HeldKept ==
  ASSUME area' = area, \A t \in Threads : \A p \in Pixels : Owns(t, p)' <=> Owns(t, p)
  PROVE  Held' = Held
<1>1. \A t \in Threads : Held'[t] = Held[t]
  BY HeldIs, HeldIsNext
<1>2. QED
  BY <1>1, HeldIs, HeldIsNext

\* Once the tasks are made, the free pixels are those below head.
LEMMA FreeKept ==
  ASSUME pc[Main] # "push", pc'[Main] # "push", UNCHANGED <<area, queue, head>>
  PROVE  Free' = Free
BY DEF Free, Pixels, Covers

LEMMA NothingFree ==
  ASSUME pc[Main] # "push", head = 0
  PROVE  Free = {}
BY DEF Free

\* A thread that leaves no place of its own behind
LEMMA LeaversKept ==
  ASSUME \A t \in Threads : pc'[t] \in {"exited", "write", "done"} <=> pc[t] \in {"exited", "write", "done"}
  PROVE  Leavers' = Leavers
BY DEF Leavers

\* Where a thread is in its loop, the tasks have been made.
LEMMA Looping ==
  ASSUME IInv, NEW t \in Threads, pc[t] \notin {"push", "unborn"}
  PROVE  pc[Main] # "push"
BY ThreadFacts DEF IInv, PhaseInv

-----------------------------------------------------------------------------
(* The steps.                                                              *)

\* A task that is pushed stays free.
LEMMA PushStutters ==
  ASSUME IInv, PushChunk \/ PushLast
  PROVE  UNCHANGED workVars
<1> USE DEF Goto
<1> PICK n : n = IF idx + Chunk < area THEN Chunk ELSE area - idx
  OBVIOUS
<1>1. /\ pc[Main] = "push" /\ idx \in Nat /\ idx < area /\ area \in Nat /\ n \in Nat /\ MakeTask(idx, n)
      /\ \A w \in Workers : pc[w] = "unborn"
      /\ UNCHANGED <<area, image, raw_img>>
  BY ChunkPositive DEF IInv, TypeOK, PhaseInv, PushChunk, PushLast, pixelVars
<1>2. \A t \in Threads : pc[t] \in {"push", "unborn"} /\ pc'[t] \in {"push", "unborn", "create"}
  BY <1>1, ThreadFacts DEF IInv, TypeOK, PushChunk, PushLast
<1>3. Held' = Held
  BY <1>1, <1>2, HeldKept DEF Owns
<1>4. Leavers' = Leavers
  BY <1>2, LeaversKept
<1>5. Free' = Free
  <2>1. /\ head \in Slots /\ head' = head + 1 /\ head \in Nat
        /\ queue'[head].ps = idx /\ queue'[head].size = n
        /\ \A k \in Slots : k # head => queue'[k] = queue[k]
        /\ Slots = 0..(Capacity - 1) /\ Capacity \in Nat
    BY <1>1, AreaFacts, MakeTaskEffect DEF Slots
  <2>2. \A k \in 0..(head - 1) : k \in Slots /\ k # head
    BY <2>1
  <2>3. 0..(head' - 1) = (0..(head - 1)) \cup {head}
    BY <2>1
  <2>4. ASSUME NEW p \in Pixels
        PROVE  Covers(queue'[head], p) <=> idx <= p /\ p < idx + n
    BY <2>1 DEF Covers
  <2>5. ASSUME NEW p \in Pixels
        PROVE  (\E k \in 0..(head' - 1) : Covers(queue'[k], p))
               <=> (\E k \in 0..(head - 1) : Covers(queue[k], p)) \/ (idx <= p /\ p < idx + n)
    BY <2>1, <2>2, <2>3, <2>4 DEF Covers
  <2>6. \/ pc'[Main] = "push" /\ idx' = idx + n /\ n = Chunk
        \/ pc'[Main] # "push" /\ n = area - idx
    BY <1>1, ThreadFacts DEF IInv, TypeOK, PushChunk, PushLast
  <2>7. ASSUME NEW p \in Pixels
        PROVE  (pc'[Main] = "push" /\ idx' <= p) \/ (idx <= p /\ p < idx + n) <=> idx <= p
    BY <1>1, <2>6 DEF Pixels
  <2>8. Pixels' = Pixels
    BY <1>1 DEF Pixels
  <2>9. QED
    BY <1>1, <2>5, <2>7, <2>8 DEF Free
<1>6. Computed' = Computed /\ Written' = Written
  BY <1>1, <1>2, ThreadFacts DEF Computed, Written, Pixels
<1>7. QED
  BY <1>3, <1>4, <1>5, <1>6 DEF workVars

\* Steps of the pool and of the loop that leave alone all that SharedWork
\* speaks of
LEMMA Stutters ==
  ASSUME IInv,
         \/ CreateWorker \/ SetFinish
         \/ \E t \in Threads : TestFinish(t) \/ Lock(t) \/ LockBusy(t) \/ PopRead(t)
                               \/ Unlock(t) \/ Call(t) \/ VectorPair(t) \/ ScalarRest(t)
         \/ UNCHANGED vars
  PROVE  UNCHANGED workVars
<1> USE DEF Goto
<1>1. UNCHANGED <<area, queue, head, raw_img>>
  BY DEF CreateWorker, SetFinish, TestFinish, Lock, LockBusy, PopRead, Unlock, Call, VectorPair,
         ScalarRest, poolVars, pixelVars, localVars, vars
<1>2. \A t \in Threads : /\ pc'[t] \in {"exited", "write", "done"} <=> pc[t] \in {"exited", "write", "done"}
                         /\ pc'[t] = "done" <=> pc[t] = "done"
                         /\ \A p \in Pixels : Owns(t, p)' <=> Owns(t, p)
  <2>1. CASE CreateWorker \/ SetFinish
    BY <2>1, ThreadFacts
       DEF IInv, TypeOK, PhaseInv, CreateWorker, SetFinish, poolVars, localVars, Owns, Covers
  <2>2. CASE \E t \in Threads : TestFinish(t) \/ Lock(t) \/ LockBusy(t)
    BY <2>2 DEF IInv, TypeOK, TestFinish, Lock, LockBusy, poolVars, localVars, Owns, Covers
  <2>3. CASE \E t \in Threads : PopRead(t) \/ Unlock(t)
    BY <2>3 DEF IInv, TypeOK, PointerInv, Holding, PopRead, Unlock, poolVars, localVars, Owns, Covers
  <2>4. CASE \E t \in Threads : Call(t)
    BY <2>4 DEF IInv, TypeOK, PointerInv, Call, poolVars, Owns, Covers
  <2>5. CASE \E t \in Threads : VectorPair(t) \/ ScalarRest(t)
    BY <2>5 DEF VectorPair, ScalarRest, poolVars, Owns, Covers
  <2>6. CASE UNCHANGED vars
    BY <2>6 DEF vars, poolVars, localVars, Owns, Covers
  <2>7. QED
    BY <2>1, <2>2, <2>3, <2>4, <2>5, <2>6
<1>3. \/ pc[Main] = "push" /\ pc'[Main] = "push" /\ idx' = idx
      \/ pc[Main] # "push" /\ pc'[Main] # "push"
  <2>1. CASE CreateWorker \/ SetFinish
    BY <2>1, ThreadFacts DEF IInv, TypeOK, CreateWorker, SetFinish
  <2>2. CASE \E t \in Threads : TestFinish(t) \/ Lock(t) \/ LockBusy(t) \/ PopRead(t)
                               \/ Unlock(t) \/ Call(t) \/ VectorPair(t) \/ ScalarRest(t)
    <3>1. PICK t \in Threads : TestFinish(t) \/ Lock(t) \/ LockBusy(t) \/ PopRead(t)
                               \/ Unlock(t) \/ Call(t) \/ VectorPair(t) \/ ScalarRest(t)
      BY <2>2
    <3>2. pc[t] \notin {"push", "unborn"}
      BY <3>1 DEF TestFinish, Lock, LockBusy, PopRead, Unlock, Call, VectorPair, ScalarRest
    <3>3. pc'[Main] # "push"
      BY <3>1, <3>2, Looping, ThreadFacts
         DEF IInv, TypeOK, TestFinish, Lock, LockBusy, PopRead, Unlock, Call, VectorPair, ScalarRest
    <3>4. QED
      BY <3>2, <3>3, Looping
  <2>3. CASE UNCHANGED vars
    BY <2>3 DEF vars
  <2>4. QED
    BY <2>1, <2>2, <2>3
<1>4. Free' = Free
  BY <1>1, <1>3, FreeKept DEF Free, Pixels, Covers
<1>5. Held' = Held /\ Leavers' = Leavers /\ Computed' = Computed /\ Written' = Written
  BY <1>1, <1>2, HeldKept, LeaversKept, ThreadFacts DEF Computed, Written, Pixels
<1>6. QED
  BY <1>4, <1>5 DEF workVars

\* A thread finds the array empty, without the lock: nothing is left for it.
LEMMA TestQueueLeaves ==
  ASSUME IInv, NEW t \in Threads, TestQueue(t)
  PROVE  Work!Leave(t) \/ UNCHANGED workVars
<1> USE DEF Goto
<1>1. /\ UNCHANGED <<area, queue, head, raw_img, task, chunk>>
      /\ pc[t] = "testQueue" /\ pc'[t] \in {"lock", "join", "exited"}
      /\ \A u \in Threads \ {t} : pc'[u] = pc[u]
      /\ pc'[t] = "exited" => head = 0
  <2>1. CASE head # 0
    BY <2>1 DEF IInv, TypeOK, TestQueue, poolVars, localVars, pixelVars
  <2>2. CASE head = 0 /\ t = Main
    BY <2>2 DEF IInv, TypeOK, TestQueue, poolVars, localVars, pixelVars
  <2>3. CASE head = 0 /\ t # Main
    BY <2>3 DEF IInv, TypeOK, TestQueue, poolVars, localVars, pixelVars
  <2>4. QED
    BY <2>1, <2>2, <2>3
<1>2. pc[Main] # "push" /\ pc'[Main] # "push"
  BY <1>1, Looping, ThreadFacts
<1>3. Held' = Held /\ Held[t] = {}
  BY <1>1, HeldKept, HeldIs DEF Owns, Covers
<1>4. Free' = Free
  BY <1>1, <1>2, FreeKept
<1>5. Computed' = Computed /\ Written' = Written
  BY <1>1, ThreadFacts DEF Computed, Written, Pixels
<1>6. CASE pc'[t] = "exited"
  <2>1. Leavers' = Leavers \cup {t}
    BY <1>1, <1>6 DEF Leavers
  <2>2. Free = {}
    BY <1>1, <1>2, <1>6, NothingFree
  <2>3. QED
    BY <1>3, <1>4, <1>5, <2>1, <2>2 DEF Work!Leave
<1>7. CASE pc'[t] # "exited"
  <2>1. Leavers' = Leavers
    BY <1>1, <1>7, LeaversKept
  <2>2. QED
    BY <1>3, <1>4, <1>5, <2>1 DEF workVars
<1>8. QED
  BY <1>6, <1>7

\* The pixels of the task popped are free no more: no other slot has them.
LEMMA PopWriteTakes ==
  ASSUME IInv, NEW t \in Threads, PopWrite(t)
  PROVE  Work!Take(t)
<1> USE DEF Goto
<1> PICK k : k = head - 1
  OBVIOUS
<1>1. /\ UNCHANGED <<area, queue, raw_img, task, chunk>>
      /\ pc[t] = "popWrite" /\ pc'[t] = "unlock"
      /\ \A u \in Threads \ {t} : pc'[u] = pc[u]
      /\ task[t] = k /\ head' = k /\ k \in Slots /\ k # NoSlot /\ head = k + 1 /\ k \in Nat
      /\ 0..(head - 1) = (0..(k - 1)) \cup {k} /\ Slots = 0..(Capacity - 1) /\ Capacity \in Nat
  BY AreaFacts DEF IInv, TypeOK, PointerInv, PopWrite, pixelVars, localVars, Slots, NoSlot
<1>2. pc[Main] # "push" /\ pc'[Main] # "push" /\ t \notin Leavers
  BY <1>1, Looping, ThreadFacts DEF Leavers
<1>3. /\ Free = {p \in Pixels : \E j \in 0..k : Covers(queue[j], p)}
      /\ Free' = {p \in Pixels : \E j \in 0..(k - 1) : Covers(queue[j], p)}
  BY <1>1, <1>2 DEF Free, Pixels, Covers
<1>4. \A p \in Pixels : \A j \in 0..(k - 1) : Covers(queue[k], p) => ~Covers(queue[j], p)
  <2>1. \A j \in 0..(k - 1) : j \in Slots /\ j # k
    BY <1>1
  <2>2. QED
    BY <1>1, <2>1 DEF IInv, QueueInv
<1>5. Free' \subseteq Free /\ Free \ Free' = {p \in Pixels : Covers(queue[k], p)}
  <2>1. 0..k = (0..(k - 1)) \cup {k}
    BY <1>1
  <2>2. QED
    BY <1>3, <1>4, <2>1
<1>6. Held' = [Held EXCEPT ![t] = @ \cup (Free \ Free')]
  <2>1. Held[t] = {}
    BY <1>1, HeldIs DEF Owns
  <2>2. Held'[t] = {p \in Pixels : Covers(queue[k], p)}
    BY <1>1, HeldIsNext DEF Owns, Covers
  <2>3. \A u \in Threads \ {t} : \A p \in Pixels : Owns(u, p)' <=> Owns(u, p)
    BY <1>1 DEF Owns, Covers
  <2>4. Held' = [Held EXCEPT ![t] = Held'[t]]
    BY <1>1, <2>3, HeldByOne
  <2>5. QED
    BY <1>5, <2>1, <2>2, <2>4, HeldIs
<1>7. Leavers' = Leavers
  BY <1>1, LeaversKept
<1>8. Computed' = Computed /\ Written' = Written
  BY <1>1, ThreadFacts DEF Computed, Written, Pixels
<1>9. QED
  BY <1>2, <1>5, <1>6, <1>7, <1>8 DEF Work!Take

\* All pixels of the chunk have been computed when image_to_png runs.
LEMMA ImageToPngComputes ==
  ASSUME IInv, NEW t \in Threads, ImageToPng(t)
  PROVE  Work!Compute(t)
<1> USE DEF Goto
<1>1. /\ UNCHANGED <<area, queue, head, image, chunk>>
      /\ pc[t] = "compute" /\ pc'[t] = "testFinish" /\ EndOf(t) <= at[t]
      /\ \A u \in Threads \ {t} : pc'[u] = pc[u] /\ task'[u] = task[u]
      /\ raw_img' = [p \in Pixels |-> IF Covers(chunk[t], p) THEN image[p] ELSE raw_img[p]]
  BY DEF IInv, TypeOK, ImageToPng, poolVars, Covers, EndOf
<1>2. pc[Main] # "push" /\ pc'[Main] # "push"
  BY <1>1, Looping, ThreadFacts
<1>3. /\ Held[t] = {p \in Pixels : Covers(chunk[t], p)} /\ Held'[t] = {}
      /\ Held' = [Held EXCEPT ![t] = Held'[t]]
  <2>1. Held[t] = {p \in Pixels : Covers(chunk[t], p)}
    BY <1>1, HeldIs DEF Owns
  <2>2. Held'[t] = {}
    BY <1>1, HeldIsNext DEF Owns
  <2>3. \A u \in Threads \ {t} : \A p \in Pixels : Owns(u, p)' <=> Owns(u, p)
    BY <1>1 DEF Owns, Covers
  <2>4. QED
    BY <1>1, <2>1, <2>2, <2>3, HeldByOne
<1>4. \A p \in Pixels : Covers(chunk[t], p) => image[p] # "unset"
  <2>1. /\ chunk[t].ps \in Nat /\ chunk[t].size \in Nat /\ at[t] \in Nat
        /\ Pixels \subseteq Int
    BY DEF IInv, TypeOK, Task, Pixels
  <2>2. \A p \in Pixels : Covers(chunk[t], p) => chunk[t].ps <= p /\ p < at[t]
    BY <1>1, <2>1 DEF Covers, EndOf
  <2>3. QED
    BY <1>1, <2>2 DEF IInv, SetInv
<1>5. Computed' = Computed \cup (Held[t] \ Held'[t])
  <2>1. Pixels' = Pixels
    BY <1>1 DEF Pixels
  <2>2. QED
    BY <1>1, <1>3, <1>4, <2>1 DEF Computed
<1>6. Free' = Free
  BY <1>1, <1>2, FreeKept
<1>7. Leavers' = Leavers /\ Written' = Written
  BY <1>1, LeaversKept, ThreadFacts DEF Written
<1>8. QED
  BY <1>3, <1>5, <1>6, <1>7 DEF Work!Compute

\* The workers have found nothing left, and hence nothing is left for main.
LEMMA EndPoolLeaves ==
  ASSUME IInv, EndPool
  PROVE  Work!Leave(Main)
<1> USE DEF Goto
<1>1. /\ UNCHANGED <<area, queue, head, raw_img, task, chunk>>
      /\ Main \in Threads /\ pc[Main] = "join" /\ pc'[Main] = "write"
      /\ \A u \in Threads \ {Main} : pc'[u] = pc[u]
  BY ThreadFacts DEF IInv, TypeOK, EndPool, pixelVars, localVars
<1>2. head = 0
  BY CpuNumAssumption DEF IInv, PhaseInv, EndPool, Workers
<1>3. Held' = Held /\ Held[Main] = {}
  BY <1>1, HeldKept, HeldIs DEF Owns, Covers
<1>4. Leavers' = Leavers \cup {Main}
  BY <1>1 DEF Leavers
<1>5. Free = {} /\ Free' = Free
  BY <1>1, <1>2, NothingFree, FreeKept
<1>6. Computed' = Computed /\ Written' = Written
  BY <1>1 DEF Computed, Written, Pixels
<1>7. QED
  BY <1>3, <1>4, <1>5, <1>6 DEF Work!Leave

LEMMA WritePngWrites ==
  ASSUME IInv, WritePng
  PROVE  Work!Write
<1> USE DEF Goto
<1>1. /\ UNCHANGED <<area, queue, head, raw_img, task, chunk>>
      /\ Main \in Threads /\ pc[Main] = "write" /\ pc'[Main] = "done"
      /\ \A u \in Threads \ {Main} : pc'[u] = pc[u]
  BY ThreadFacts DEF IInv, TypeOK, WritePng, poolVars, pixelVars, localVars
<1>2. Leavers = Threads
  BY <1>1, ThreadFacts DEF IInv, PhaseInv, Leavers
<1>3. Leavers' = Leavers
  BY <1>1, LeaversKept
<1>4. Held' = Held
  BY <1>1, HeldKept DEF Owns, Covers
<1>5. Free' = Free
  BY <1>1, FreeKept
<1>6. Computed' = Computed /\ Written' = TRUE
  BY <1>1 DEF Computed, Written, Pixels
<1>7. QED
  BY <1>2, <1>3, <1>4, <1>5, <1>6 DEF Work!Write

-----------------------------------------------------------------------------
(* The theorem.                                                            *)

LEMMA InitShares == Init => Work!Init
<1> SUFFICES ASSUME Init PROVE Work!Init
  OBVIOUS
<1>1. \A t \in Threads : pc[t] \in {"push", "unborn"}
  BY DEF Init
<1>2. Held = [t \in Threads |-> {}]
  BY <1>1, HeldIs DEF Owns
<1>3. Computed = {}
  BY DEF Init, Computed
<1>4. Leavers = {} /\ Written = FALSE
  BY <1>1, ThreadFacts DEF Leavers, Written
<1>5. QED
  BY <1>2, <1>3, <1>4 DEF Work!Init

LEMMA StepShares == IInv /\ [Next]_vars => [Work!Next]_workVars
<1> SUFFICES ASSUME IInv, [Next]_vars PROVE Work!Next \/ UNCHANGED workVars
  OBVIOUS
<1> USE ThreadFacts DEF Work!Next
<1>1. CASE PushChunk \/ PushLast
  BY <1>1, PushStutters
<1>2. ASSUME NEW t \in Threads, TestQueue(t) PROVE Work!Next \/ UNCHANGED workVars
  BY <1>2, TestQueueLeaves
<1>3. ASSUME NEW t \in Threads, PopWrite(t) PROVE Work!Next \/ UNCHANGED workVars
  BY <1>3, PopWriteTakes
<1>4. ASSUME NEW t \in Threads, ImageToPng(t) PROVE Work!Next \/ UNCHANGED workVars
  BY <1>4, ImageToPngComputes
<1>5. CASE EndPool
  BY <1>5, EndPoolLeaves
<1>6. CASE WritePng
  BY <1>6, WritePngWrites
<1>7. CASE \/ CreateWorker \/ SetFinish
           \/ \E t \in Threads : TestFinish(t) \/ Lock(t) \/ LockBusy(t) \/ PopRead(t)
                                 \/ Unlock(t) \/ Call(t) \/ VectorPair(t) \/ ScalarRest(t)
           \/ UNCHANGED vars
  BY <1>7, Stutters
<1>8. QED
  BY <1>1, <1>2, <1>3, <1>4, <1>5, <1>6, <1>7 DEF Next, MainThread, WorkerLoop, Finished

\* hw2a implements the sharing of the pixels: a pop takes a task nobody else
\* has, a worker leaves on its reading of the array without the lock only when
\* nothing is left, and the picture is written when all have left.
THEOREM TaskPoolSharesWork == Spec => SharesWork
<1>1. Init => IInv
  BY InitInv
<1>2. IInv /\ [Next]_vars => IInv'
  BY TypeOKStep, MutexInvStep, PhaseInvStep, QueueInvStep, PointerInvStep,
     SlotInvStep, ChunkInvStep, UnsetInvStep, SetInvStep, NoPixelLostStep DEF IInv
<1>3. Init => Work!Init
  BY InitShares
<1>4. IInv /\ [Next]_vars => [Work!Next]_(Work!vars)
  BY StepShares DEF workVars, Work!vars
<1>5. QED
  BY <1>1, <1>2, <1>3, <1>4, PTL DEF Spec, SharesWork, Work!Spec
=============================================================================
