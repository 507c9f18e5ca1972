------------------------- MODULE MasterSlaveProofs -------------------------
(***************************************************************************)
(* Theorems about MasterSlave, for pictures of every shape and any number  *)
(* of CPUs and slaves: the pixels that were taken are shared out among the *)
(* threads, the messages, the slaves and the pictures; each step is a step *)
(* of SharedWork, or leaves alone all that SharedWork speaks of; and its   *)
(* account of the tasks that are under way is right: tkq is what the       *)
(* channels, the slaves and the answers hold together.                     *)
(***************************************************************************)
EXTENDS MasterSlave, Lemmas, SequenceTheorems, TLAPS

Pair == {"main", "comm"}
Chunky == [ps : Nat, size : Nat]
Messages == {Done} \cup [tag : {"working"}, task : Chunky]

MainPlaces == {"lock", "read", "write", "unlock", "compute", "join", "reduce", "done"}
CommPlaces == {"first", "deal", "lock", "read", "write", "unlock", "recv", "reply", "drain", "exited"}

TypeInv ==
  /\ width \in Nat \ {0} /\ height \in Nat \ {0}
  /\ ps_p \in 0..area
  /\ lock \in {"none", "main", "comm"}
  /\ pc \in [Pair -> MainPlaces \cup CommPlaces]
  /\ pc["main"] \in MainPlaces /\ pc["comm"] \in CommPlaces
  /\ ps_size \in [Pair -> Chunky]
  /\ i \in 1..CommSize
  /\ pc["comm"] = "reply" => to \in Slaves
  /\ chan \in [Slaves -> Seq(Messages)]
  /\ spc \in [Slaves -> {"recv", "compute", "reduce", "done"}]
  /\ job \in [Slaves -> Chunky]
  /\ raw_img \in [Procs -> SUBSET Int]

\* assign_task runs under the mutex, and the first tasks are dealt under it.
MutexInv ==
  /\ lock = "main" <=> pc["main"] \in {"read", "write", "unlock"}
  /\ lock = "comm" <=> pc["comm"] \in {"deal", "read", "write", "unlock"}

\* So what assign_task has read is still so when it writes.
AssignInv == \A t \in Pair : pc[t] = "write" => ps_size[t] = Assigned

\* The pixels of the k-th message to slave s
Sent(s, k) == IF chan[s][k] = Done THEN {} ELSE PixelsOf(chan[s][k].task)

\* The tasks of one slave share no pixel.
SlaveInv ==
  \A s \in Slaves :
    /\ \A k, l \in 1..Len(chan[s]) : k # l => Sent(s, k) \cap Sent(s, l) = {}
    /\ spc[s] = "compute" => \A k \in 1..Len(chan[s]) : PixelsOf(job[s]) \cap Sent(s, k) = {}

\* The places of OnePlacePerPixel: the two threads, what is on its way to each
\* slave, and each process's picture
Where ==
  [k \in 1..(2 * CommSize + 1) |->
     IF k = 1 THEN HeldBy("main")
     ELSE IF k = 2 THEN HeldBy("comm")
     ELSE IF k <= CommSize + 1 THEN InFlight(k - 2)
     ELSE raw_img[k - (CommSize + 2)]]
OfSlave(s) == s + 2
OfProc(r) == r + CommSize + 2

Disjoint(W) == \A j, k \in DOMAIN W : j # k => W[j] \cap W[k] = {}
All(W) == UNION {W[k] : k \in DOMAIN W}

PlaceInv == Disjoint(Where) /\ All(Where) = 0..(ps_p - 1)

IInv == TypeInv /\ MutexInv /\ AssignInv /\ SlaveInv /\ PlaceInv

-----------------------------------------------------------------------------
(* Constants and chunks.                                                   *)

LEMMA Constants ==
  /\ CommSize \in Nat /\ CommSize >= 2 /\ CpuNum \in Nat /\ CpuNum > 0
  /\ Slaves = 1..(CommSize - 1) /\ Procs = 0..(CommSize - 1) /\ Master = 0
BY CommAssumption, CpuAssumption DEF Slaves, Procs, Master

LEMMA ChunkType == TypeInv => Chunk \in Nat /\ Chunk > 0 /\ area \in Nat /\ area > 0
<1> SUFFICES ASSUME TypeInv PROVE Chunk \in Nat /\ Chunk > 0 /\ area \in Nat /\ area > 0
  OBVIOUS
<1>1. area \in Nat /\ area > 0
  <2>1. \A a, b \in Nat \ {0} : a * b \in Nat /\ a * b > 0
    OBVIOUS
  <2>2. QED
    BY <2>1 DEF TypeInv, area
<1>2. CpuNum * CommSize * CpuNum * CommSize \in Nat /\ CpuNum * CommSize * CpuNum * CommSize > 0
  <2>1. \A a, b \in Nat \ {0} : a * b \in Nat \ {0}
    OBVIOUS
  <2>2. CpuNum * CommSize \in Nat \ {0}
    BY <2>1, Constants
  <2>3. CpuNum * CommSize * CpuNum \in Nat \ {0}
    BY <2>1, <2>2, Constants
  <2>4. CpuNum * CommSize * CpuNum * CommSize \in Nat \ {0}
    BY <2>1, <2>3, Constants
  <2>5. QED
    BY <2>4
<1>3. \A a, b \in Nat : b > 0 => a \div b \in Nat
  OBVIOUS
<1>4. area \div (CpuNum * CommSize * CpuNum * CommSize) \in Nat
  BY <1>1, <1>2, <1>3
<1>5. QED
  BY <1>1, <1>4 DEF Chunk

\* What assign_task gives away begins where the last chunk ended, within the
\* picture.
LEMMA AssignedType ==
  TypeInv => /\ Assigned \in Chunky /\ Assigned.ps = ps_p
             /\ ps_p + Assigned.size \in 0..area
             /\ PixelsOf(Assigned) = ps_p..(ps_p + Assigned.size - 1)
<1> SUFFICES ASSUME TypeInv
             PROVE  /\ Assigned \in Chunky /\ Assigned.ps = ps_p
                    /\ ps_p + Assigned.size \in 0..area
                    /\ PixelsOf(Assigned) = ps_p..(ps_p + Assigned.size - 1)
  OBVIOUS
<1>1. Chunk \in Nat /\ area \in Nat /\ ps_p \in 0..area
  BY ChunkType DEF TypeInv
<1>2. Assigned.ps = ps_p
  BY DEF Assigned
<1>3. /\ ps_p >= area => Assigned.size = 0
      /\ ps_p < area /\ ps_p + Chunk >= area => Assigned.size = area - ps_p
      /\ ps_p < area /\ ps_p + Chunk < area => Assigned.size = Chunk
  BY <1>1 DEF Assigned
<1>4. Assigned.size \in Nat /\ ps_p + Assigned.size \in 0..area
  BY <1>1, <1>3
<1>5. Assigned \in Chunky
  BY <1>1, <1>2, <1>4 DEF Assigned, Chunky
<1>6. QED
  BY <1>2, <1>4, <1>5 DEF PixelsOf

\* The union of what is taken and the next chunk
LEMMA TakeMore ==
  ASSUME NEW a \in Nat, NEW b \in Nat
  PROVE  /\ (a..(a + b - 1)) \cap (0..(a - 1)) = {}
         /\ (0..(a - 1)) \cup (a..(a + b - 1)) = 0..(a + b - 1)
OBVIOUS

-----------------------------------------------------------------------------
(* Messages.                                                               *)

LEMMA MessageTypes ==
  /\ Done \in Messages
  /\ \A c \in Chunky : Working(c) \in Messages /\ Working(c) # Done /\ Working(c).task = c
  /\ \A m \in Messages : m.tag = "done" => m = Done
  /\ \A m \in Messages : m.tag = "working" => m # Done /\ m.task \in Chunky
BY DEF Done, Messages, Working

\* A task is sent to slave s.
LEMMA TaskSent ==
  ASSUME TypeInv, SlaveInv, NEW s \in Slaves, NEW c \in Chunky, Send(s, Working(c)),
         UNCHANGED <<spc, job>>, PixelsOf(c) \cap InFlight(s) = {}
  PROVE  /\ chan' \in [Slaves -> Seq(Messages)]
         /\ InFlight(s)' = InFlight(s) \cup PixelsOf(c)
         /\ \A u \in Slaves \ {s} : InFlight(u)' = InFlight(u)
         /\ SlaveInv'
<1> PICK n \in Nat : n = Len(chan[s])
  BY LenProperties DEF TypeInv
<1>1. chan \in [Slaves -> Seq(Messages)] /\ chan[s] \in Seq(Messages)
  BY DEF TypeInv
<1>2. /\ Append(chan[s], Working(c)) \in Seq(Messages)
      /\ Len(Append(chan[s], Working(c))) = n + 1
      /\ \A k \in 1..n : Append(chan[s], Working(c))[k] = chan[s][k]
      /\ Append(chan[s], Working(c))[n + 1] = Working(c)
  BY <1>1, MessageTypes, AppendProperties
<1>3. /\ chan'[s] = Append(chan[s], Working(c))
      /\ \A u \in Slaves \ {s} : chan'[u] = chan[u]
      /\ chan' \in [Slaves -> Seq(Messages)]
  BY <1>1, <1>2 DEF Send
<1>4. /\ \A k \in 1..n : Sent(s, k)' = Sent(s, k)
      /\ Sent(s, n + 1)' = PixelsOf(c)
      /\ Len(chan'[s]) = n + 1
  BY <1>1, <1>2, <1>3, MessageTypes DEF Sent
<1>5. \A u \in Slaves \ {s} : \A k : Sent(u, k)' = Sent(u, k)
  BY <1>3 DEF Sent
<1>6. InFlight(s) = (IF spc[s] = "compute" THEN PixelsOf(job[s]) ELSE {})
                    \cup UNION {Sent(s, k) : k \in 1..n}
  BY DEF InFlight, Sent
<1>7. InFlight(s)' = (IF spc[s] = "compute" THEN PixelsOf(job[s]) ELSE {})
                     \cup UNION {Sent(s, k)' : k \in 1..(n + 1)}
  BY <1>4 DEF InFlight, Sent
<1>8. InFlight(s)' = InFlight(s) \cup PixelsOf(c)
  <2>1. UNION {Sent(s, k)' : k \in 1..(n + 1)} = (UNION {Sent(s, k) : k \in 1..n}) \cup PixelsOf(c)
    <3>1. 1..(n + 1) = (1..n) \cup {n + 1}
      BY <1>1
    <3>2. QED
      BY <1>4, <3>1
  <2>2. QED
    BY <1>6, <1>7, <2>1
<1>9. \A u \in Slaves \ {s} : InFlight(u)' = InFlight(u)
  BY <1>3 DEF InFlight
<1>10. SlaveInv'
  <2>1. \A k \in 1..n : Sent(s, k) \cap PixelsOf(c) = {}
    BY <1>6
  <2>2. spc[s] = "compute" => PixelsOf(job[s]) \cap PixelsOf(c) = {}
    BY <1>6
  <2>3. \A k \in 1..(n + 1) : k \in 1..n \/ k = n + 1
    BY <1>1
  <2>4. \A k, l \in 1..(n + 1) : k # l => Sent(s, k)' \cap Sent(s, l)' = {}
    BY <1>4, <2>1, <2>3 DEF SlaveInv
  <2>5. spc[s] = "compute" => \A k \in 1..(n + 1) : PixelsOf(job[s]) \cap Sent(s, k)' = {}
    BY <1>4, <2>2, <2>3 DEF SlaveInv
  <2>6. QED
    BY <1>3, <1>4, <1>5, <2>4, <2>5 DEF SlaveInv
<1>11. QED
  BY <1>3, <1>8, <1>9, <1>10

\* DONE is sent to every slave.
LEMMA DoneSent ==
  ASSUME TypeInv, SlaveInv, chan' = [s \in Slaves |-> Append(chan[s], Done)],
         UNCHANGED <<spc, job>>
  PROVE  /\ chan' \in [Slaves -> Seq(Messages)]
         /\ \A s \in Slaves : InFlight(s)' = InFlight(s)
         /\ SlaveInv'
<1>1. ASSUME NEW s \in Slaves
      PROVE  /\ chan'[s] \in Seq(Messages)
             /\ InFlight(s)' = InFlight(s)
             /\ \A k, l \in 1..Len(chan'[s]) : k # l => Sent(s, k)' \cap Sent(s, l)' = {}
             /\ spc[s] = "compute" =>
                  \A k \in 1..Len(chan'[s]) : PixelsOf(job[s]) \cap Sent(s, k)' = {}
  <2> PICK n \in Nat : n = Len(chan[s])
    BY LenProperties DEF TypeInv
  <2>1. chan[s] \in Seq(Messages)
    BY DEF TypeInv
  <2>2. /\ Append(chan[s], Done) \in Seq(Messages)
        /\ Len(Append(chan[s], Done)) = n + 1
        /\ \A k \in 1..n : Append(chan[s], Done)[k] = chan[s][k]
        /\ Append(chan[s], Done)[n + 1] = Done
    BY <2>1, MessageTypes, AppendProperties
  <2>3. chan'[s] = Append(chan[s], Done)
    OBVIOUS
  <2>4. /\ \A k \in 1..n : Sent(s, k)' = Sent(s, k)
        /\ Sent(s, n + 1)' = {}
        /\ Len(chan'[s]) = n + 1
    BY <2>1, <2>2, <2>3 DEF Sent
  <2>5. 1..(n + 1) = (1..n) \cup {n + 1}
    BY <2>1
  <2>6. InFlight(s)' = InFlight(s)
    <3>1. InFlight(s) = (IF spc[s] = "compute" THEN PixelsOf(job[s]) ELSE {})
                        \cup UNION {Sent(s, k) : k \in 1..n}
      BY DEF InFlight, Sent
    <3>2. InFlight(s)' = (IF spc[s] = "compute" THEN PixelsOf(job[s]) ELSE {})
                         \cup UNION {Sent(s, k)' : k \in 1..(n + 1)}
      BY <2>4 DEF InFlight, Sent
    <3>3. UNION {Sent(s, k)' : k \in 1..(n + 1)} = UNION {Sent(s, k) : k \in 1..n}
      BY <2>4, <2>5
    <3>4. QED
      BY <3>1, <3>2, <3>3
  <2>7. \A k, l \in 1..(n + 1) : k # l => Sent(s, k)' \cap Sent(s, l)' = {}
    BY <2>4, <2>5 DEF SlaveInv
  <2>8. spc[s] = "compute" => \A k \in 1..(n + 1) : PixelsOf(job[s]) \cap Sent(s, k)' = {}
    BY <2>4, <2>5 DEF SlaveInv
  <2>9. QED
    BY <2>2, <2>3, <2>4, <2>6, <2>7, <2>8
<1>2. QED
  BY <1>1 DEF SlaveInv

\* A slave takes its first message.
LEMMA MessageTaken ==
  ASSUME TypeInv, SlaveInv, NEW s \in Slaves, SlaveRecv(s)
  PROVE  /\ chan' \in [Slaves -> Seq(Messages)]
         /\ spc' \in [Slaves -> {"recv", "compute", "reduce", "done"}]
         /\ job' \in [Slaves -> Chunky]
         /\ \A u \in Slaves : InFlight(u)' = InFlight(u)
         /\ SlaveInv'
<1> PICK n \in Nat : n = Len(chan[s])
  BY LenProperties DEF TypeInv
<1>1. /\ chan \in [Slaves -> Seq(Messages)] /\ chan[s] \in Seq(Messages) /\ chan[s] # <<>>
      /\ spc \in [Slaves -> {"recv", "compute", "reduce", "done"}] /\ job \in [Slaves -> Chunky]
      /\ spc[s] = "recv"
  BY DEF SlaveRecv, TypeInv
<1>2. /\ n > 0
      /\ Tail(chan[s]) \in Seq(Messages) /\ Len(Tail(chan[s])) = n - 1
      /\ \A k \in 1..(n - 1) : Tail(chan[s])[k] = chan[s][k + 1]
      /\ Head(chan[s]) = chan[s][1] /\ chan[s][1] \in Messages
  BY <1>1, HeadTailProperties, LenProperties, EmptySeq
<1>3. /\ chan'[s] = Tail(chan[s]) /\ chan' \in [Slaves -> Seq(Messages)]
      /\ \A u \in Slaves \ {s} : chan'[u] = chan[u] /\ spc'[u] = spc[u] /\ job'[u] = job[u]
  BY <1>1, <1>2 DEF SlaveRecv
<1>4. /\ \A k \in 1..(n - 1) : Sent(s, k)' = Sent(s, k + 1)
      /\ Len(chan'[s]) = n - 1
  BY <1>2, <1>3 DEF Sent
<1>5. 1..n = {1} \cup {k + 1 : k \in 1..(n - 1)}
  <2>1. \A k \in 1..n : k = 1 \/ (k - 1 \in 1..(n - 1) /\ k = (k - 1) + 1)
    OBVIOUS
  <2>2. \A k \in 1..(n - 1) : k + 1 \in 1..n
    OBVIOUS
  <2>3. QED
    BY <1>2, <2>1, <2>2
<1>6. \/ spc'[s] = "reduce" /\ job' = job /\ Sent(s, 1) = {}
      \/ spc'[s] = "compute" /\ job'[s] \in Chunky /\ PixelsOf(job'[s]) = Sent(s, 1)
  BY <1>1, <1>2, MessageTypes DEF SlaveRecv, Sent
<1>7. /\ spc' \in [Slaves -> {"recv", "compute", "reduce", "done"}]
      /\ job' \in [Slaves -> Chunky]
  BY <1>1, <1>2, MessageTypes DEF SlaveRecv
<1>8. InFlight(s)' = InFlight(s)
  <2>1. InFlight(s) = UNION {Sent(s, k) : k \in 1..n}
    BY <1>1 DEF InFlight, Sent
  <2>2. InFlight(s)' = Sent(s, 1) \cup UNION {Sent(s, k)' : k \in 1..(n - 1)}
    BY <1>4, <1>6 DEF InFlight, Sent
  <2>3. UNION {Sent(s, k) : k \in 1..n} = Sent(s, 1) \cup UNION {Sent(s, k)' : k \in 1..(n - 1)}
    BY <1>4, <1>5
  <2>4. QED
    BY <2>1, <2>2, <2>3
<1>9. \A u \in Slaves \ {s} : InFlight(u)' = InFlight(u)
  BY <1>3 DEF InFlight
<1>10. SlaveInv'
  <2>1. \A k, l \in 1..(n - 1) : k # l => Sent(s, k)' \cap Sent(s, l)' = {}
    BY <1>2, <1>4 DEF SlaveInv
  <2>2. \A k \in 1..(n - 1) : Sent(s, 1) \cap Sent(s, k)' = {}
    BY <1>2, <1>4 DEF SlaveInv
  <2>3. \A u \in Slaves \ {s} : \A k : Sent(u, k)' = Sent(u, k)
    BY <1>3 DEF Sent
  <2>4. spc'[s] = "compute" => \A k \in 1..(n - 1) : PixelsOf(job'[s]) \cap Sent(s, k)' = {}
    BY <1>6, <2>2
  <2>5. ASSUME NEW u \in Slaves
        PROVE  /\ \A k, l \in 1..Len(chan'[u]) : k # l => Sent(u, k)' \cap Sent(u, l)' = {}
               /\ spc'[u] = "compute" =>
                    \A k \in 1..Len(chan'[u]) : PixelsOf(job'[u]) \cap Sent(u, k)' = {}
    <3>1. CASE u = s
      BY <1>4, <2>1, <2>4, <3>1
    <3>2. CASE u # s
      BY <1>3, <2>3, <3>2 DEF SlaveInv
    <3>3. QED
      BY <3>1, <3>2
  <2>6. QED
    BY <2>5 DEF SlaveInv
<1>11. QED
  BY <1>3, <1>7, <1>8, <1>9, <1>10

\* A slave has computed its task, which shares no pixel with its messages.
LEMMA TaskComputed ==
  ASSUME TypeInv, SlaveInv, NEW s \in Slaves, SlaveCompute(s)
  PROVE  /\ InFlight(s)' = InFlight(s) \ PixelsOf(job[s]) /\ PixelsOf(job[s]) \subseteq InFlight(s)
         /\ \A u \in Slaves \ {s} : InFlight(u)' = InFlight(u)
<1> PICK D : D = PixelsOf(job[s])
  OBVIOUS
<1>1. /\ spc[s] = "compute" /\ spc'[s] = "recv" /\ chan' = chan /\ job' = job
      /\ \A u \in Slaves \ {s} : spc'[u] = spc[u]
  BY DEF TypeInv, SlaveCompute
<1>2. InFlight(s) = D \cup UNION {Sent(s, k) : k \in 1..Len(chan[s])}
  BY <1>1 DEF InFlight, Sent
<1>3. InFlight(s)' = UNION {Sent(s, k) : k \in 1..Len(chan[s])}
  BY <1>1 DEF InFlight, Sent
<1>4. \A k \in 1..Len(chan[s]) : D \cap Sent(s, k) = {}
  BY <1>1 DEF SlaveInv
<1>5. \A u \in Slaves \ {s} : InFlight(u)' = InFlight(u)
  BY <1>1 DEF InFlight
<1>6. QED
  BY <1>2, <1>3, <1>4, <1>5

-----------------------------------------------------------------------------
(* The places.                                                             *)

LEMMA Index ==
  /\ {1, 2} \subseteq 1..(2 * CommSize + 1)
  /\ \A s \in Slaves : OfSlave(s) \in 3..(CommSize + 1) /\ OfSlave(s) \in 1..(2 * CommSize + 1)
                         /\ OfSlave(s) - 2 = s
  /\ \A r \in Procs : OfProc(r) \in (CommSize + 2)..(2 * CommSize + 1) /\ OfProc(r) \in 1..(2 * CommSize + 1)
                        /\ OfProc(r) - (CommSize + 2) = r
  /\ \A k \in 1..(2 * CommSize + 1) :
       \/ k \in {1, 2}
       \/ \E s \in Slaves : k = OfSlave(s)
       \/ \E r \in Procs : k = OfProc(r)
  /\ \A s, u \in Slaves : s # u => OfSlave(s) # OfSlave(u)
  /\ \A r, q \in Procs : r # q => OfProc(r) # OfProc(q)
  /\ \A s \in Slaves, r \in Procs : OfSlave(s) # OfProc(r)
<1>1. ASSUME NEW k \in 3..(CommSize + 1) PROVE \E s \in Slaves : k = OfSlave(s)
  <2>1. k - 2 \in Slaves /\ k = OfSlave(k - 2)
    BY Constants DEF OfSlave
  <2>2. QED
    BY <2>1
<1>2. ASSUME NEW k \in (CommSize + 2)..(2 * CommSize + 1) PROVE \E r \in Procs : k = OfProc(r)
  <2>1. k - (CommSize + 2) \in Procs /\ k = OfProc(k - (CommSize + 2))
    BY Constants DEF OfProc
  <2>2. QED
    BY <2>1
<1>3. \A k \in 1..(2 * CommSize + 1) :
        k \in {1, 2} \/ k \in 3..(CommSize + 1) \/ k \in (CommSize + 2)..(2 * CommSize + 1)
  BY Constants
<1>4. QED
  BY <1>1, <1>2, <1>3, Constants DEF OfSlave, OfProc

LEMMA WhereIs ==
  /\ DOMAIN Where = 1..(2 * CommSize + 1)
  /\ Where[1] = HeldBy("main") /\ Where[2] = HeldBy("comm")
  /\ \A s \in Slaves : Where[OfSlave(s)] = InFlight(s)
  /\ \A r \in Procs : Where[OfProc(r)] = raw_img[r]
BY Index, Constants DEF Where

LEMMA WhereIsNext ==
  /\ DOMAIN Where' = 1..(2 * CommSize + 1)
  /\ Where'[1] = HeldBy("main")' /\ Where'[2] = HeldBy("comm")'
  /\ \A s \in Slaves : Where'[OfSlave(s)] = InFlight(s)'
  /\ \A r \in Procs : Where'[OfProc(r)] = raw_img'[r]
BY Index, Constants DEF Where

\* A step that moves no pixel
LEMMA PlacesKept ==
  ASSUME PlaceInv, ps_p' = ps_p, HeldBy("main")' = HeldBy("main"), HeldBy("comm")' = HeldBy("comm"),
         \A s \in Slaves : InFlight(s)' = InFlight(s), raw_img' = raw_img
  PROVE  PlaceInv'
<1>1. DOMAIN Where' = DOMAIN Where /\ \A k \in DOMAIN Where : Where'[k] = Where[k]
  BY Index, WhereIs, WhereIsNext
<1>2. QED
  BY <1>1 DEF PlaceInv, Disjoint, All

\* A step that moves some
LEMMA PlacesMoved ==
  ASSUME PlaceInv, ps_p' = ps_p, NEW x \in DOMAIN Where, NEW y \in DOMAIN Where, x # y,
         NEW D, D \subseteq Where[x],
         Where'[x] = Where[x] \ D, Where'[y] = Where[y] \cup D,
         \A z \in DOMAIN Where \ {x, y} : Where'[z] = Where[z]
  PROVE  PlaceInv'
<1> PICK W : W = Where
  OBVIOUS
<1> PICK V : V = Where'
  OBVIOUS
<1>1. DOMAIN V = DOMAIN W
  BY WhereIs, WhereIsNext
<1>2. Disjoint(W) /\ All(W) = 0..(ps_p - 1)
  BY DEF PlaceInv, Disjoint, All
<1>3. /\ D \subseteq W[x] /\ V[x] = W[x] \ D /\ V[y] = W[y] \cup D
      /\ x \in DOMAIN W /\ y \in DOMAIN W
      /\ \A z \in DOMAIN W \ {x, y} : V[z] = W[z]
  OBVIOUS
<1>4. Disjoint(V) /\ All(V) = All(W)
  <2>1. Disjoint(V)
    BY <1>1, <1>2, <1>3 DEF Disjoint
  <2>2. All(V) = All(W)
    BY <1>1, <1>3 DEF All
  <2>3. QED
    BY <2>1, <2>2
<1>5. QED
  BY <1>2, <1>4 DEF PlaceInv, Disjoint, All

\* A step that takes the next chunk
LEMMA PlacesGiven ==
  ASSUME TypeInv, PlaceInv, ps_p' = ps_p + Assigned.size, NEW y \in DOMAIN Where,
         Where'[y] = Where[y] \cup PixelsOf(Assigned),
         \A z \in DOMAIN Where \ {y} : Where'[z] = Where[z]
  PROVE  PlaceInv'
<1> PICK W : W = Where
  OBVIOUS
<1> PICK V : V = Where'
  OBVIOUS
<1> PICK D : D = PixelsOf(Assigned)
  OBVIOUS
<1>1. DOMAIN V = DOMAIN W
  BY WhereIs, WhereIsNext
<1>2. Disjoint(W) /\ All(W) = 0..(ps_p - 1)
  BY DEF PlaceInv, Disjoint, All
<1>3. /\ D \cap All(W) = {}
      /\ All(W) \cup D = 0..(ps_p' - 1)
  <2>1. ps_p \in Nat /\ Assigned.size \in Nat /\ D = ps_p..(ps_p + Assigned.size - 1)
    BY AssignedType, ChunkType DEF TypeInv, Chunky
  <2>2. QED
    BY <1>2, <2>1, TakeMore
<1>4. /\ V[y] = W[y] \cup D /\ y \in DOMAIN W
      /\ \A z \in DOMAIN W \ {y} : V[z] = W[z]
  OBVIOUS
<1>5. Disjoint(V) /\ All(V) = All(W) \cup D
  <2>1. \A z \in DOMAIN W : D \cap W[z] = {}
    BY <1>3 DEF All
  <2>2. Disjoint(V)
    BY <1>1, <1>2, <1>4, <2>1 DEF Disjoint
  <2>3. All(V) = All(W) \cup D
    BY <1>1, <1>4 DEF All
  <2>4. QED
    BY <2>2, <2>3
<1>6. QED
  BY <1>3, <1>5 DEF PlaceInv, Disjoint, All

-----------------------------------------------------------------------------
(* The steps.                                                              *)

\* A step that leaves the picture and ps_p alone would assign the same chunk.
LEMMA AssignedKept ==
  UNCHANGED <<width, height, ps_p>> => Assigned' = Assigned /\ area' = area
BY DEF Assigned, Chunk, area

\* A step of rank 0 that sends nothing
LEMMA SlavesKept ==
  SlaveInv /\ UNCHANGED <<chan, spc, job>> =>
    SlaveInv' /\ \A s \in Slaves : InFlight(s)' = InFlight(s)
BY DEF SlaveInv, InFlight, Sent

LEMMA LockStep ==
  ASSUME IInv, NEW t \in Pair, Lock(t)
  PROVE  IInv'
<1>1. TypeInv'
  BY AssignedKept DEF IInv, TypeInv, Lock, Goto, Pair, MainPlaces, CommPlaces, commVars, slaveVars
<1>2. MutexInv'
  BY DEF IInv, MutexInv, TypeInv, Lock, Goto, Pair
<1>3. AssignInv'
  BY AssignedKept DEF IInv, AssignInv, TypeInv, Lock, Goto, Pair
<1>4. SlaveInv' /\ \A s \in Slaves : InFlight(s)' = InFlight(s)
  BY SlavesKept DEF IInv, Lock, slaveVars
<1>5. HeldBy("main")' = HeldBy("main") /\ HeldBy("comm")' = HeldBy("comm")
  BY DEF IInv, TypeInv, Lock, Goto, Pair, HeldBy
<1>6. PlaceInv'
  BY <1>4, <1>5, PlacesKept DEF IInv, Lock
<1>7. QED
  BY <1>1, <1>2, <1>3, <1>4, <1>6 DEF IInv

LEMMA AssignReadStep ==
  ASSUME IInv, NEW t \in Pair, AssignRead(t)
  PROVE  IInv'
<1>1. TypeInv'
  BY AssignedKept, AssignedType
     DEF IInv, TypeInv, AssignRead, Goto, Pair, MainPlaces, CommPlaces, commVars, slaveVars
<1>2. MutexInv'
  BY DEF IInv, MutexInv, TypeInv, AssignRead, Goto, Pair
<1>3. AssignInv'
  BY AssignedKept DEF IInv, AssignInv, TypeInv, AssignRead, Goto, Pair
<1>4. SlaveInv' /\ \A s \in Slaves : InFlight(s)' = InFlight(s)
  BY SlavesKept DEF IInv, AssignRead, slaveVars
<1>5. HeldBy("main")' = HeldBy("main") /\ HeldBy("comm")' = HeldBy("comm")
  BY DEF IInv, TypeInv, AssignRead, Goto, Pair, HeldBy
<1>6. PlaceInv'
  BY <1>4, <1>5, PlacesKept DEF IInv, AssignRead
<1>7. QED
  BY <1>1, <1>2, <1>3, <1>4, <1>6 DEF IInv

\* The chunk is now the thread's, and nobody else was about to write: the
\* other is not under the mutex.
LEMMA AssignWriteStep ==
  ASSUME IInv, NEW t \in Pair, AssignWrite(t)
  PROVE  IInv'
<1>1. /\ ps_size[t] = Assigned /\ ps_p' = ps_p + Assigned.size
      /\ ps_p' \in 0..area /\ area' = area /\ UNCHANGED <<width, height>>
  BY AssignedType DEF IInv, AssignInv, AssignWrite, area
<1>2. TypeInv'
  BY <1>1 DEF IInv, TypeInv, AssignWrite, Goto, Pair, MainPlaces, CommPlaces, commVars, slaveVars
<1>3. MutexInv'
  BY DEF IInv, MutexInv, TypeInv, AssignWrite, Goto, Pair
<1>4. \A u \in Pair : pc'[u] # "write"
  BY DEF IInv, MutexInv, TypeInv, AssignWrite, Goto, Pair
<1>5. AssignInv'
  BY <1>4 DEF AssignInv
<1>6. SlaveInv' /\ \A s \in Slaves : InFlight(s)' = InFlight(s)
  BY SlavesKept DEF IInv, AssignWrite, slaveVars
<1>7. /\ HeldBy(t) = {} /\ HeldBy(t)' = PixelsOf(Assigned)
      /\ \A u \in Pair \ {t} : HeldBy(u)' = HeldBy(u)
  BY <1>1 DEF IInv, TypeInv, AssignWrite, Goto, Pair, HeldBy
<1>8. PlaceInv'
  <2>1. raw_img' = raw_img
    BY DEF AssignWrite
  <2>2. CASE t = "main"
    <3>1. Where'[1] = Where[1] \cup PixelsOf(Assigned)
      BY <1>7, <2>2, WhereIs, WhereIsNext
    <3>2. \A k \in DOMAIN Where \ {1} : Where'[k] = Where[k]
      BY <1>6, <1>7, <2>1, <2>2, Index, WhereIs, WhereIsNext DEF Pair
    <3>3. QED
      BY <1>1, <3>1, <3>2, Index, WhereIs, PlacesGiven DEF IInv
  <2>3. CASE t = "comm"
    <3>1. Where'[2] = Where[2] \cup PixelsOf(Assigned)
      BY <1>7, <2>3, WhereIs, WhereIsNext
    <3>2. \A k \in DOMAIN Where \ {2} : Where'[k] = Where[k]
      BY <1>6, <1>7, <2>1, <2>3, Index, WhereIs, WhereIsNext DEF Pair
    <3>3. QED
      BY <1>1, <3>1, <3>2, Index, WhereIs, PlacesGiven DEF IInv
  <2>4. QED
    BY <2>2, <2>3 DEF Pair
<1>9. QED
  BY <1>2, <1>3, <1>5, <1>6, <1>8 DEF IInv

\* A chunk of size 0 has no pixel.
LEMMA NoPixels == \A c \in Chunky : c.size = 0 => PixelsOf(c) = {}
BY DEF Chunky, PixelsOf

LEMMA UnlockStep ==
  ASSUME IInv, NEW t \in Pair, NEW hasTask, NEW noTask, Unlock(t, hasTask, noTask),
         t = "main" => hasTask = "compute" /\ noTask = "join",
         t = "comm" => hasTask = "recv" /\ noTask = "drain"
  PROVE  IInv'
<1>1. TypeInv'
  BY AssignedKept
     DEF IInv, TypeInv, Unlock, Goto, Pair, MainPlaces, CommPlaces, commVars, slaveVars
<1>2. MutexInv'
  BY DEF IInv, MutexInv, TypeInv, Unlock, Goto, Pair
<1>3. AssignInv'
  BY AssignedKept DEF IInv, AssignInv, TypeInv, Unlock, Goto, Pair
<1>4. SlaveInv' /\ \A s \in Slaves : InFlight(s)' = InFlight(s)
  BY SlavesKept DEF IInv, Unlock, slaveVars
<1>5. HeldBy("main")' = HeldBy("main") /\ HeldBy("comm")' = HeldBy("comm")
  BY NoPixels DEF IInv, TypeInv, Unlock, Goto, Pair, HeldBy
<1>6. PlaceInv'
  BY <1>4, <1>5, PlacesKept DEF IInv, Unlock
<1>7. QED
  BY <1>1, <1>2, <1>3, <1>4, <1>6 DEF IInv

\* From the main thread's hands to rank 0's picture
LEMMA MainComputeStep ==
  ASSUME IInv, MainCompute
  PROVE  IInv'
<1>1. ps_size["main"] \in Chunky /\ Master \in Procs
  BY DEF IInv, TypeInv, Pair, Procs
<1>2. PixelsOf(ps_size["main"]) \in SUBSET Int
  BY <1>1 DEF Chunky, PixelsOf
<1>3. raw_img' \in [Procs -> SUBSET Int]
  BY <1>1, <1>2 DEF IInv, TypeInv, MainCompute
<1>4. TypeInv'
  BY <1>3, AssignedKept
     DEF IInv, TypeInv, MainCompute, Goto, Pair, MainPlaces, CommPlaces, commVars, slaveVars
<1>5. MutexInv'
  BY DEF IInv, MutexInv, TypeInv, MainCompute, Goto, Pair
<1>6. AssignInv'
  BY AssignedKept DEF IInv, AssignInv, TypeInv, MainCompute, Goto, Pair
<1>7. SlaveInv' /\ \A s \in Slaves : InFlight(s)' = InFlight(s)
  BY SlavesKept DEF IInv, MainCompute, slaveVars
<1>8. /\ HeldBy("main") = PixelsOf(ps_size["main"]) /\ HeldBy("main")' = {}
      /\ HeldBy("comm")' = HeldBy("comm")
  BY DEF IInv, TypeInv, MainCompute, Goto, Pair, HeldBy
<1>9. /\ raw_img'[Master] = raw_img[Master] \cup PixelsOf(ps_size["main"])
      /\ \A r \in Procs \ {Master} : raw_img'[r] = raw_img[r]
  BY <1>1 DEF IInv, TypeInv, MainCompute
<1>10. PlaceInv'
  <2>1. Where'[1] = Where[1] \ PixelsOf(ps_size["main"]) /\ PixelsOf(ps_size["main"]) \subseteq Where[1]
    BY <1>8, WhereIs, WhereIsNext
  <2>2. Where'[OfProc(Master)] = Where[OfProc(Master)] \cup PixelsOf(ps_size["main"])
    BY <1>1, <1>9, WhereIs, WhereIsNext
  <2>3. \A k \in DOMAIN Where \ {1, OfProc(Master)} : Where'[k] = Where[k]
    BY <1>7, <1>8, <1>9, Index, WhereIs, WhereIsNext
  <2>4. 1 \in DOMAIN Where /\ OfProc(Master) \in DOMAIN Where /\ OfProc(Master) # 1
    BY <1>1, Index, WhereIs, Constants
  <2>5. ps_p' = ps_p
    BY DEF MainCompute
  <2>6. QED
    BY <2>1, <2>2, <2>3, <2>4, <2>5, PlacesMoved DEF IInv
<1>11. QED
  BY <1>4, <1>5, <1>6, <1>7, <1>10 DEF IInv

\* The rest of rank 0's steps that send nothing
LEMMA OtherSteps ==
  ASSUME IInv, MainJoin \/ FirstLock \/ FirstRound \/ FirstUnlock \/ CommRecv \/ Drain
  PROVE  IInv'
<1> DEFINE Act == MainJoin \/ FirstLock \/ FirstRound \/ FirstUnlock \/ CommRecv \/ Drain
<1>0. Act
  OBVIOUS
<1>1. UNCHANGED <<width, height, ps_p, ps_size, chan, spc, job, raw_img>>
  BY DEF MainJoin, FirstLock, FirstRound, FirstUnlock, CommRecv, Drain, slaveVars, threadVars
<1>2. TypeInv'
  <2>1. CASE MainJoin \/ FirstLock \/ FirstUnlock
    BY <1>1, <2>1, AssignedKept
       DEF IInv, TypeInv, MainJoin, FirstLock, FirstUnlock, Goto, Pair, MainPlaces, CommPlaces, commVars
  <2>2. CASE CommRecv
    BY <1>1, <2>2, AssignedKept DEF IInv, TypeInv, CommRecv, Goto, Pair, MainPlaces, CommPlaces
  <2>3. CASE FirstRound \/ Drain
    BY <1>1, <2>3, AssignedKept, Constants DEF IInv, TypeInv, FirstRound, Drain, threadVars
  <2>4. QED
    BY <2>1, <2>2, <2>3
<1>3. MutexInv'
  BY DEF IInv, MutexInv, TypeInv, MainJoin, FirstLock, FirstRound, FirstUnlock, CommRecv, Drain, Goto,
         Pair, threadVars
<1>4. AssignInv'
  BY <1>1, AssignedKept
     DEF IInv, AssignInv, TypeInv, MainJoin, FirstLock, FirstRound, FirstUnlock, CommRecv, Drain, Goto,
         Pair, threadVars
<1>5. SlaveInv' /\ \A s \in Slaves : InFlight(s)' = InFlight(s)
  BY <1>1, SlavesKept DEF IInv
<1>6. HeldBy("main")' = HeldBy("main") /\ HeldBy("comm")' = HeldBy("comm")
  BY <1>1 DEF IInv, TypeInv, MainJoin, FirstLock, FirstRound, FirstUnlock, CommRecv, Drain, Goto, Pair,
              threadVars, HeldBy
<1>7. PlaceInv'
  BY <1>1, <1>5, <1>6, PlacesKept DEF IInv
<1>8. QED
  BY <1>2, <1>3, <1>4, <1>5, <1>7 DEF IInv

\* The processes leave the reduction.
LEMMA ReduceStep ==
  ASSUME IInv, Reduce
  PROVE  IInv'
<1>1. UNCHANGED <<width, height, ps_p, ps_size, lock, chan, job, raw_img, i, to>>
  BY DEF Reduce, commVars
<1>2. TypeInv'
  BY <1>1, AssignedKept DEF IInv, TypeInv, Reduce, Goto, Pair, MainPlaces, CommPlaces
<1>3. MutexInv'
  BY DEF IInv, MutexInv, TypeInv, Reduce, Goto, Pair
<1>4. AssignInv'
  BY AssignedKept DEF IInv, AssignInv, TypeInv, Reduce, Goto, Pair
<1>5. \A s \in Slaves : spc[s] = "reduce" /\ spc'[s] = "done"
  BY DEF Reduce
<1>6. SlaveInv' /\ \A s \in Slaves : InFlight(s)' = InFlight(s)
  BY <1>1, <1>5 DEF IInv, SlaveInv, InFlight, Sent
<1>7. HeldBy("main")' = HeldBy("main") /\ HeldBy("comm")' = HeldBy("comm")
  BY DEF IInv, TypeInv, Reduce, Goto, Pair, HeldBy
<1>8. PlaceInv'
  BY <1>1, <1>6, <1>7, PlacesKept DEF IInv
<1>9. QED
  BY <1>2, <1>3, <1>4, <1>6, <1>8 DEF IInv

\* A first task: the next chunk goes straight to a slave.
LEMMA FirstSendStep ==
  ASSUME IInv, FirstSend
  PROVE  IInv'
<1> PICK s : s = i
  OBVIOUS
<1>1. s \in Slaves
  BY Constants DEF IInv, TypeInv, FirstSend
<1>2. Assigned \in Chunky /\ ps_p + Assigned.size \in 0..area
  BY AssignedType DEF IInv
<1>3. PixelsOf(Assigned) \cap InFlight(s) = {}
  <2>1. Where[OfSlave(s)] = InFlight(s) /\ OfSlave(s) \in DOMAIN Where
    BY <1>1, Index, WhereIs
  <2>2. InFlight(s) \subseteq 0..(ps_p - 1)
    BY <2>1 DEF IInv, PlaceInv, All
  <2>3. ps_p \in Nat /\ Assigned.size \in Nat /\ PixelsOf(Assigned) = ps_p..(ps_p + Assigned.size - 1)
    BY AssignedType, ChunkType DEF IInv, TypeInv, Chunky
  <2>4. QED
    BY <2>2, <2>3, TakeMore
<1>4. /\ chan' \in [Slaves -> Seq(Messages)]
      /\ InFlight(s)' = InFlight(s) \cup PixelsOf(Assigned)
      /\ \A u \in Slaves \ {s} : InFlight(u)' = InFlight(u)
      /\ SlaveInv'
  BY <1>1, <1>2, <1>3, TaskSent DEF IInv, FirstSend, slaveVars
<1>5. UNCHANGED <<width, height, ps_size, lock, pc, to, spc, job, raw_img>> /\ area' = area
  BY DEF FirstSend, slaveVars, area
<1>6. i' \in 1..CommSize
  BY <1>1, Constants DEF FirstSend
<1>7. TypeInv'
  BY <1>2, <1>4, <1>5, <1>6 DEF IInv, TypeInv, FirstSend
<1>8. MutexInv'
  BY <1>5 DEF IInv, MutexInv
<1>9. AssignInv'
  BY <1>5 DEF IInv, AssignInv, MutexInv, FirstSend, Pair
<1>10. HeldBy("main")' = HeldBy("main") /\ HeldBy("comm")' = HeldBy("comm")
  BY <1>5 DEF HeldBy
<1>11. PlaceInv'
  <2>1. Where'[OfSlave(s)] = Where[OfSlave(s)] \cup PixelsOf(Assigned)
    BY <1>1, <1>4, WhereIs, WhereIsNext
  <2>2. \A k \in DOMAIN Where \ {OfSlave(s)} : Where'[k] = Where[k]
    BY <1>1, <1>4, <1>5, <1>10, Index, WhereIs, WhereIsNext
  <2>3. OfSlave(s) \in DOMAIN Where /\ ps_p' = ps_p + Assigned.size
    BY <1>1, Index, WhereIs DEF FirstSend
  <2>4. QED
    BY <2>1, <2>2, <2>3, PlacesGiven DEF IInv
<1>12. QED
  BY <1>4, <1>7, <1>8, <1>9, <1>11 DEF IInv

\* From the communication thread's hands to the slave that answered
LEMMA CommReplyStep ==
  ASSUME IInv, CommReply
  PROVE  IInv'
<1> PICK s : s = to
  OBVIOUS
<1>1. s \in Slaves /\ ps_size["comm"] \in Chunky
  BY DEF IInv, TypeInv, CommReply, Pair
<1> PICK D : D = PixelsOf(ps_size["comm"])
  OBVIOUS
<1>2. /\ HeldBy("comm") = D /\ HeldBy("comm")' = {}
      /\ HeldBy("main")' = HeldBy("main")
  BY DEF IInv, TypeInv, CommReply, Goto, Pair, HeldBy
<1>3. D \cap InFlight(s) = {}
  <2>1. OfSlave(s) \in DOMAIN Where /\ 2 \in DOMAIN Where /\ OfSlave(s) # 2
    BY <1>1, Index, WhereIs, Constants
  <2>2. Where[2] = D /\ Where[OfSlave(s)] = InFlight(s)
    BY <1>1, <1>2, WhereIs
  <2>3. QED
    BY <2>1, <2>2 DEF IInv, PlaceInv, Disjoint
<1>4. /\ chan' \in [Slaves -> Seq(Messages)]
      /\ InFlight(s)' = InFlight(s) \cup D
      /\ \A u \in Slaves \ {s} : InFlight(u)' = InFlight(u)
      /\ SlaveInv'
  BY <1>1, <1>3, TaskSent DEF IInv, CommReply, slaveVars
<1>5. UNCHANGED <<width, height, ps_p, ps_size, lock, i, to, spc, job, raw_img>>
  BY DEF CommReply, slaveVars, commVars
<1>6. TypeInv'
  BY <1>4, <1>5, AssignedKept DEF IInv, TypeInv, CommReply, Goto, Pair, MainPlaces, CommPlaces
<1>7. MutexInv'
  BY DEF IInv, MutexInv, TypeInv, CommReply, Goto, Pair
<1>8. AssignInv'
  BY AssignedKept DEF IInv, AssignInv, TypeInv, CommReply, Goto, Pair
<1>9. PlaceInv'
  <2>1. Where'[2] = Where[2] \ D /\ D \subseteq Where[2]
    BY <1>2, WhereIs, WhereIsNext
  <2>2. Where'[OfSlave(s)] = Where[OfSlave(s)] \cup D
    BY <1>1, <1>4, WhereIs, WhereIsNext
  <2>3. \A k \in DOMAIN Where \ {2, OfSlave(s)} : Where'[k] = Where[k]
    BY <1>1, <1>2, <1>4, <1>5, Index, WhereIs, WhereIsNext
  <2>4. 2 \in DOMAIN Where /\ OfSlave(s) \in DOMAIN Where /\ OfSlave(s) # 2
    BY <1>1, Index, WhereIs, Constants
  <2>5. QED
    BY <1>5, <2>1, <2>2, <2>3, <2>4, PlacesMoved DEF IInv
<1>10. QED
  BY <1>4, <1>6, <1>7, <1>8, <1>9 DEF IInv

LEMMA TerminateStep ==
  ASSUME IInv, Terminate
  PROVE  IInv'
<1>1. UNCHANGED <<width, height, ps_p, ps_size, lock, i, to, spc, job, raw_img>>
  BY DEF Terminate, slaveVars, commVars
<1>2. /\ chan' \in [Slaves -> Seq(Messages)]
      /\ \A s \in Slaves : InFlight(s)' = InFlight(s)
      /\ SlaveInv'
  BY <1>1, DoneSent DEF IInv, Terminate
<1>3. TypeInv'
  BY <1>1, <1>2, AssignedKept DEF IInv, TypeInv, Terminate, Goto, Pair, MainPlaces, CommPlaces
<1>4. MutexInv'
  BY DEF IInv, MutexInv, TypeInv, Terminate, Goto, Pair
<1>5. AssignInv'
  BY AssignedKept DEF IInv, AssignInv, TypeInv, Terminate, Goto, Pair
<1>6. HeldBy("main")' = HeldBy("main") /\ HeldBy("comm")' = HeldBy("comm")
  BY DEF IInv, TypeInv, Terminate, Goto, Pair, HeldBy
<1>7. PlaceInv'
  BY <1>1, <1>2, <1>6, PlacesKept DEF IInv
<1>8. QED
  BY <1>2, <1>3, <1>4, <1>5, <1>7 DEF IInv

LEMMA SlaveRecvStep ==
  ASSUME IInv, NEW s \in Slaves, SlaveRecv(s)
  PROVE  IInv'
<1>1. UNCHANGED <<width, height, ps_p, ps_size, lock, pc, i, to, raw_img>>
  BY DEF SlaveRecv, threadVars, commVars
<1>2. /\ chan' \in [Slaves -> Seq(Messages)]
      /\ spc' \in [Slaves -> {"recv", "compute", "reduce", "done"}]
      /\ job' \in [Slaves -> Chunky]
      /\ \A u \in Slaves : InFlight(u)' = InFlight(u)
      /\ SlaveInv'
  BY MessageTaken DEF IInv
<1>3. TypeInv'
  BY <1>1, <1>2, AssignedKept DEF IInv, TypeInv
<1>4. MutexInv' /\ AssignInv'
  BY <1>1, AssignedKept DEF IInv, MutexInv, AssignInv
<1>5. HeldBy("main")' = HeldBy("main") /\ HeldBy("comm")' = HeldBy("comm")
  BY <1>1 DEF HeldBy
<1>6. PlaceInv'
  BY <1>1, <1>2, <1>5, PlacesKept DEF IInv
<1>7. QED
  BY <1>2, <1>3, <1>4, <1>6 DEF IInv

\* From a slave's hands to its picture
LEMMA SlaveComputeStep ==
  ASSUME IInv, NEW s \in Slaves, SlaveCompute(s)
  PROVE  IInv'
<1>1. UNCHANGED <<width, height, ps_p, ps_size, lock, pc, i, to, chan, job>>
  BY DEF SlaveCompute, threadVars, commVars
<1> PICK D : D = PixelsOf(job[s])
  OBVIOUS
<1>2. s \in Procs /\ job[s] \in Chunky /\ spc[s] = "compute"
  BY DEF IInv, TypeInv, Procs, SlaveCompute
<1>3. D \in SUBSET Int
  BY <1>2 DEF Chunky, PixelsOf
<1>4. /\ raw_img' \in [Procs -> SUBSET Int]
      /\ raw_img'[s] = raw_img[s] \cup D
      /\ \A r \in Procs \ {s} : raw_img'[r] = raw_img[r]
  BY <1>2, <1>3 DEF IInv, TypeInv, SlaveCompute
<1>5. /\ spc' \in [Slaves -> {"recv", "compute", "reduce", "done"}]
      /\ spc'[s] = "recv" /\ \A u \in Slaves \ {s} : spc'[u] = spc[u]
  BY DEF IInv, TypeInv, SlaveCompute
<1>6. /\ InFlight(s)' = InFlight(s) \ D /\ D \subseteq InFlight(s)
      /\ \A u \in Slaves \ {s} : InFlight(u)' = InFlight(u)
  BY TaskComputed DEF IInv
<1>7. SlaveInv'
  BY <1>1, <1>5 DEF IInv, SlaveInv, Sent
<1>8. TypeInv'
  BY <1>1, <1>4, <1>5, AssignedKept DEF IInv, TypeInv
<1>9. MutexInv' /\ AssignInv'
  BY <1>1, AssignedKept DEF IInv, MutexInv, AssignInv
<1>10. HeldBy("main")' = HeldBy("main") /\ HeldBy("comm")' = HeldBy("comm")
  BY <1>1 DEF HeldBy
<1>11. PlaceInv'
  <2>1. Where'[OfSlave(s)] = Where[OfSlave(s)] \ D /\ D \subseteq Where[OfSlave(s)]
    BY <1>6, WhereIs, WhereIsNext
  <2>2. Where'[OfProc(s)] = Where[OfProc(s)] \cup D
    BY <1>2, <1>4, WhereIs, WhereIsNext
  <2>3. \A k \in DOMAIN Where \ {OfSlave(s), OfProc(s)} : Where'[k] = Where[k]
    BY <1>2, <1>4, <1>6, <1>10, Index, WhereIs, WhereIsNext
  <2>4. OfSlave(s) \in DOMAIN Where /\ OfProc(s) \in DOMAIN Where /\ OfSlave(s) # OfProc(s)
    BY <1>2, Index, WhereIs
  <2>5. QED
    BY <1>1, <2>1, <2>2, <2>3, <2>4, PlacesMoved DEF IInv
<1>12. QED
  BY <1>7, <1>8, <1>9, <1>11 DEF IInv

-----------------------------------------------------------------------------
(* The theorem.                                                            *)

LEMMA InitPlaces == Init => IInv
<1> SUFFICES ASSUME Init PROVE IInv
  OBVIOUS
<1>1. width \in Nat \ {0} /\ height \in Nat \ {0}
  BY ShapesAssumption DEF Init
<1>2. area \in Nat
  <2>1. \A a, b \in Nat : a * b \in Nat
    OBVIOUS
  <2>2. QED
    BY <1>1, <2>1 DEF area
<1>3. <<>> \in Seq(Messages) /\ Len(<<>>) = 0
  BY EmptySeq
<1>4. None \in Chunky
  BY DEF None, Chunky
<1>5. TypeInv
  BY <1>1, <1>2, <1>3, <1>4, Constants DEF Init, TypeInv, Pair, MainPlaces, CommPlaces
<1>6. MutexInv /\ AssignInv
  BY DEF Init, MutexInv, AssignInv, Pair
<1>7. SlaveInv
  BY <1>3 DEF Init, SlaveInv
<1>8. HeldBy("main") = {} /\ HeldBy("comm") = {}
  BY DEF Init, HeldBy
<1>9. \A s \in Slaves : InFlight(s) = {}
  BY <1>3 DEF Init, InFlight
<1>10. \A k \in DOMAIN Where : Where[k] = {}
  <2>1. \A r \in Procs : raw_img[r] = {}
    BY DEF Init
  <2>2. QED
    BY <1>8, <1>9, <2>1, Index, WhereIs, Zenon
<1>11. PlaceInv
  BY <1>10 DEF Init, PlaceInv, Disjoint, All
<1>12. QED
  BY <1>5, <1>6, <1>7, <1>11 DEF IInv

LEMMA NextPlaces == IInv /\ [Next]_vars => IInv'
<1> SUFFICES ASSUME IInv, [Next]_vars PROVE IInv'
  OBVIOUS
<1>1. CASE MainThread
  BY <1>1, LockStep, AssignReadStep, AssignWriteStep, UnlockStep, MainComputeStep, OtherSteps, ReduceStep
     DEF MainThread, Pair
<1>2. CASE CommThread
  BY <1>2, LockStep, AssignReadStep, AssignWriteStep, UnlockStep, OtherSteps, FirstSendStep,
     CommReplyStep, TerminateStep
     DEF CommThread, Pair
<1>3. CASE \E s \in Slaves : Slave(s)
  BY <1>3, SlaveRecvStep, SlaveComputeStep DEF Slave
<1>4. CASE UNCHANGED vars
  <2>1. UNCHANGED <<width, height, ps_p, ps_size, lock, pc, i, to, chan, spc, job, raw_img>>
    BY <1>4 DEF vars, threadVars, commVars, slaveVars
  <2>2. TypeInv' /\ MutexInv' /\ AssignInv'
    BY <2>1, AssignedKept DEF IInv, TypeInv, MutexInv, AssignInv
  <2>3. SlaveInv' /\ \A s \in Slaves : InFlight(s)' = InFlight(s)
    BY <2>1, SlavesKept DEF IInv
  <2>4. HeldBy("main")' = HeldBy("main") /\ HeldBy("comm")' = HeldBy("comm")
    BY <2>1 DEF HeldBy
  <2>5. PlaceInv'
    BY <2>1, <2>3, <2>4, PlacesKept DEF IInv
  <2>6. QED
    BY <2>2, <2>3, <2>5 DEF IInv
<1>5. QED
  BY <1>1, <1>2, <1>3, <1>4 DEF Next, Finished

\* J is A, B and C, of lengths a, b and c, one behind the other.
IsJoined(J, A, B, C, a, b, c) ==
  /\ DOMAIN J = 1..(a + b + c)
  /\ J = [k \in DOMAIN J |-> J[k]]
  /\ \A k \in 1..(a + b + c) :
       J[k] = IF k <= a THEN A[k] ELSE IF k <= a + b THEN B[k - a] ELSE C[k - (a + b)]

LEMMA Joined ==
  ASSUME NEW S, NEW A \in Seq(S), NEW B \in Seq(S), NEW C \in Seq(S)
  PROVE  IsJoined(A \o B \o C, A, B, C, Len(A), Len(B), Len(C))
<1> PICK a \in Nat, b \in Nat, c \in Nat : a = Len(A) /\ b = Len(B) /\ c = Len(C)
  BY LenProperties
<1>1. /\ A \o B \in Seq(S) /\ Len(A \o B) = a + b
      /\ \A k \in 1..(a + b) : (A \o B)[k] = IF k <= a THEN A[k] ELSE B[k - a]
  BY ConcatProperties
<1> PICK AB : AB = A \o B
  OBVIOUS
<1>2. /\ AB \o C \in Seq(S) /\ Len(AB \o C) = a + b + c
      /\ \A k \in 1..(a + b + c) : (AB \o C)[k] = IF k <= a + b THEN AB[k] ELSE C[k - (a + b)]
  BY <1>1, ConcatProperties
<1>3. /\ DOMAIN (AB \o C) = 1..(a + b + c)
      /\ AB \o C = [k \in DOMAIN (AB \o C) |-> (AB \o C)[k]]
  BY <1>2, LenProperties
<1>4. ASSUME NEW k \in 1..(a + b + c)
      PROVE  (AB \o C)[k] = IF k <= a THEN A[k]
                            ELSE IF k <= a + b THEN B[k - a] ELSE C[k - (a + b)]
  <2>1. CASE k <= a + b
    BY <1>1, <1>2, <2>1
  <2>2. CASE k > a + b
    BY <1>2, <2>2
  <2>3. QED
    BY <2>1, <2>2
<1>5. QED
  BY <1>3, <1>4 DEF IsJoined

LEMMA SeqOfLength ==
  ASSUME NEW n \in Nat, NEW S, NEW f \in [1..n -> S]
  PROVE  f \in Seq(S) /\ Len(f) = n
OBVIOUS

\* The sequence of places OnePlacePerPixel speaks of is Where.
LEMMA PlacesAre ==
  <<HeldBy("main"), HeldBy("comm")>> \o [s \in Slaves |-> InFlight(s)]
    \o [r \in 1..CommSize |-> raw_img[r - 1]] = Where
<1> PICK A : A = <<HeldBy("main"), HeldBy("comm")>>
  OBVIOUS
<1> PICK B : B = [s \in Slaves |-> InFlight(s)]
  OBVIOUS
<1> PICK C : C = [r \in 1..CommSize |-> raw_img[r - 1]]
  OBVIOUS
<1> PICK Any : Any = {A[1], A[2]} \cup {B[s] : s \in DOMAIN B} \cup {C[r] : r \in DOMAIN C}
  OBVIOUS
<1> PICK n \in Nat : n = CommSize /\ n >= 2
  BY Constants
<1>1. A \in Seq(Any) /\ Len(A) = 2 /\ A[1] = HeldBy("main") /\ A[2] = HeldBy("comm")
  <2>1. A \in [1..2 -> Any]
    OBVIOUS
  <2>2. QED
    BY <2>1, SeqOfLength
<1>2. B \in Seq(Any) /\ Len(B) = n - 1
  <2>1. B \in [1..(n - 1) -> Any]
    BY Constants
  <2>2. QED
    BY <2>1, SeqOfLength
<1>3. C \in Seq(Any) /\ Len(C) = n
  <2>1. C \in [1..n -> Any]
    OBVIOUS
  <2>2. QED
    BY <2>1, SeqOfLength
<1>4. /\ \A k \in 1..(n - 1) : B[k] = InFlight(k)
      /\ \A k \in 1..n : C[k] = raw_img[k - 1]
  BY Constants
<1>5. /\ DOMAIN (A \o B \o C) = 1..(2 * n + 1)
      /\ A \o B \o C = [k \in DOMAIN (A \o B \o C) |-> (A \o B \o C)[k]]
      /\ \A k \in 1..(2 * n + 1) :
           (A \o B \o C)[k] = IF k <= 2 THEN A[k]
                              ELSE IF k <= n + 1 THEN B[k - 2] ELSE C[k - (n + 1)]
  <2>1. 2 + (n - 1) = n + 1 /\ 2 + (n - 1) + n = 2 * n + 1
    OBVIOUS
  <2>2. A \in Seq(Any) /\ B \in Seq(Any) /\ C \in Seq(Any)
    BY <1>1, <1>2, <1>3
  <2>3. IsJoined(A \o B \o C, A, B, C, Len(A), Len(B), Len(C))
    BY <2>2, Joined
  <2> PICK J : J = A \o B \o C
    OBVIOUS
  <2>4. IsJoined(J, A, B, C, 2, n - 1, n)
    BY <1>1, <1>2, <1>3, <2>3
  <2>5. QED
    BY <2>1, <2>4 DEF IsJoined
<1>6. ASSUME NEW k \in 1..(2 * n + 1)
      PROVE  (A \o B \o C)[k] = Where[k]
  <2>1. CASE k \in {1, 2}
    BY <1>1, <1>5, <2>1, WhereIs
  <2>2. CASE k \in 3..(n + 1)
    <3>1. (A \o B \o C)[k] = B[k - 2] /\ k - 2 \in 1..(n - 1)
      BY <1>5, <2>2
    <3>2. Where[k] = InFlight(k - 2)
      BY <2>2 DEF Where
    <3>3. QED
      BY <1>4, <3>1, <3>2
  <2>3. CASE k \in (n + 2)..(2 * n + 1)
    <3>1. (A \o B \o C)[k] = raw_img[k - (n + 1) - 1]
      BY <1>4, <1>5, <2>3
    <3>2. Where[k] = raw_img[k - (n + 2)]
      BY <2>3 DEF Where
    <3>3. k - (n + 1) - 1 = k - (n + 2)
      OBVIOUS
    <3>4. QED
      BY <3>1, <3>2, <3>3
  <2>4. k \in {1, 2} \/ k \in 3..(n + 1) \/ k \in (n + 2)..(2 * n + 1)
    OBVIOUS
  <2>5. QED
    BY <2>1, <2>2, <2>3, <2>4
<1>7. Where = [k \in 1..(2 * n + 1) |-> Where[k]]
  BY DEF Where
<1>8. QED
  BY <1>5, <1>6, <1>7

\* Every pixel that was taken is in exactly one place: what assign_task hands
\* out under its mutex, the first tasks, the messages, the slaves' jobs and the
\* processes' pictures never lose or double a pixel.
THEOREM PixelsSharedOut == Spec => []OnePlacePerPixel
<1>1. IInv => OnePlacePerPixel
  <2> SUFFICES ASSUME IInv PROVE OnePlacePerPixel
    OBVIOUS
  <2> PICK W : W = Where
    OBVIOUS
  <2>1. /\ \A j, k \in DOMAIN W : j # k => W[j] \cap W[k] = {}
        /\ UNION {W[k] : k \in DOMAIN W} = 0..(ps_p - 1)
    BY DEF IInv, PlaceInv, Disjoint, All
  <2>2. <<HeldBy("main"), HeldBy("comm")>> \o [s \in Slaves |-> InFlight(s)]
          \o [r \in 1..CommSize |-> raw_img[r - 1]] = W
    BY PlacesAre
  <2>3. QED
    BY <2>1, <2>2 DEF OnePlacePerPixel
<1>2. QED
  BY <1>1, InitPlaces, NextPlaces, PTL DEF Spec

-----------------------------------------------------------------------------
(* The abstract specification, and the account of tasks.                   *)

workVars == <<Free, Held, Computed, Leavers, Written>>

\* An assignment of no pixel means that there is none left, and so does a place
\* behind one.
EmptyInv ==
  /\ \A t \in Pair : pc[t] = "unlock" /\ ps_size[t].size = 0 => ps_p = area
  /\ pc["main"] \in {"join", "reduce", "done"} => ps_p = area /\ ps_size["main"].size = 0
  /\ pc["comm"] \in {"drain", "exited"} => ps_p = area

\* DONE is the last message to a slave, once the communication thread has left.
OnlyLast(q) == \A k \in 1..(Len(q) - 1) : q[k] # Done
EndsDone(q) == q # <<>> /\ q[Len(q)] = Done

DoneInv ==
  /\ pc["main"] \in {"reduce", "done"} => pc["comm"] = "exited"
  /\ \A s \in Slaves :
       /\ OnlyLast(chan[s])
       /\ EndsDone(chan[s]) => pc["comm"] = "exited"
       /\ spc[s] \in {"reduce", "done"} => chan[s] = <<>> /\ pc["comm"] = "exited"
       /\ spc[s] \in {"recv", "compute"} /\ pc["comm"] = "exited" => EndsDone(chan[s])

WInv == IInv /\ EmptyInv /\ DoneInv

-----------------------------------------------------------------------------
(* The invariants.                                                         *)

LEMMA NothingAssigned == TypeInv /\ Assigned.size = 0 => ps_p = area
BY ChunkType DEF TypeInv, Assigned

\* ps_p does not grow beyond area.
LEMMA EmptyStep == IInv /\ EmptyInv /\ [Next]_vars => EmptyInv'
<1> SUFFICES ASSUME IInv, EmptyInv, [Next]_vars PROVE EmptyInv'
  OBVIOUS
<1> USE DEF EmptyInv, Pair, Goto
<1>1. ASSUME NEW t \in Pair, Lock(t) PROVE EmptyInv'
  BY <1>1, AssignedKept DEF IInv, TypeInv, Lock
<1>2. ASSUME NEW t \in Pair, AssignRead(t) PROVE EmptyInv'
  BY <1>2, AssignedKept DEF IInv, TypeInv, AssignRead
<1>3. ASSUME NEW t \in Pair, AssignWrite(t) PROVE EmptyInv'
  <2>1. /\ ps_size' = ps_size /\ ps_size[t] = Assigned /\ ps_p' = ps_p + Assigned.size
        /\ area' = area /\ ps_p' \in 0..area /\ Assigned.size \in Nat /\ ps_p \in 0..area
    BY <1>3, AssignedType DEF IInv, TypeInv, AssignInv, AssignWrite, area, Chunky
  <2>2. ps_p = area => ps_p' = area
    BY <2>1, ChunkType DEF IInv
  <2>3. Assigned.size = 0 => ps_p' = area
    BY <2>1, NothingAssigned, ChunkType DEF IInv
  <2>4. pc'[t] = "unlock" /\ \A u \in Pair \ {t} : pc'[u] = pc[u]
    BY <1>3 DEF IInv, TypeInv, AssignWrite
  <2>5. QED
    BY <2>1, <2>2, <2>3, <2>4
<1>4. CASE Unlock("main", "compute", "join")
  BY <1>4, AssignedKept DEF IInv, TypeInv, Unlock
<1>5. CASE Unlock("comm", "recv", "drain")
  BY <1>5, AssignedKept DEF IInv, TypeInv, Unlock
<1>6. CASE MainCompute \/ MainJoin \/ Reduce
  BY <1>6, AssignedKept DEF IInv, TypeInv, MainCompute, MainJoin, Reduce
<1>7. CASE FirstLock \/ FirstUnlock \/ CommRecv \/ CommReply \/ Terminate
  BY <1>7, AssignedKept DEF IInv, TypeInv, FirstLock, FirstUnlock, CommRecv, CommReply, Terminate
<1>8. CASE FirstSend
  <2>1. pc' = pc /\ ps_size' = ps_size /\ area' = area /\ ps_p < area
    BY <1>8 DEF FirstSend, area
  <2>2. area \in Nat /\ ps_p \in Nat
    BY ChunkType DEF IInv, TypeInv
  <2>3. QED
    BY <2>1, <2>2
<1>9. CASE FirstRound \/ Drain \/ UNCHANGED vars
  BY <1>9, AssignedKept DEF FirstRound, Drain, vars, threadVars
<1>10. ASSUME NEW s \in Slaves, Slave(s) PROVE EmptyInv'
  BY <1>10, AssignedKept DEF Slave, SlaveRecv, SlaveCompute, threadVars
<1>11. QED
  BY <1>1, <1>2, <1>3, <1>4, <1>5, <1>6, <1>7, <1>8, <1>9, <1>10
     DEF Next, MainThread, CommThread, Finished

LEMMA Appended ==
  ASSUME NEW q \in Seq(Messages), NEW m \in Messages, OnlyLast(q), ~EndsDone(q)
  PROVE  OnlyLast(Append(q, m)) /\ (EndsDone(Append(q, m)) <=> m = Done)
<1> PICK n \in Nat : n = Len(q)
  BY LenProperties
<1>1. /\ Append(q, m) # <<>> /\ Len(Append(q, m)) = n + 1
      /\ \A k \in 1..n : Append(q, m)[k] = q[k]
      /\ Append(q, m)[n + 1] = m
  BY AppendProperties
<1>2. \A k \in 1..n : q[k] # Done
  <2>1. n > 0 => q # <<>>
    BY EmptySeq
  <2>2. \A k \in 1..n : k \in 1..(n - 1) \/ k = n
    OBVIOUS
  <2>3. QED
    BY <2>1, <2>2 DEF OnlyLast, EndsDone
<1>3. QED
  BY <1>1, <1>2 DEF OnlyLast, EndsDone

LEMMA Taken ==
  ASSUME NEW q \in Seq(Messages), q # <<>>, OnlyLast(q)
  PROVE  /\ OnlyLast(Tail(q))
         /\ Head(q) = Done => Tail(q) = <<>> /\ EndsDone(q)
         /\ Head(q) # Done => (EndsDone(Tail(q)) <=> EndsDone(q))
<1> PICK n \in Nat : n = Len(q)
  BY LenProperties
<1>1. /\ n > 0 /\ Tail(q) \in Seq(Messages) /\ Len(Tail(q)) = n - 1
      /\ \A k \in 1..(n - 1) : Tail(q)[k] = q[k + 1]
      /\ Head(q) = q[1]
  BY HeadTailProperties, LenProperties, EmptySeq
<1>2. OnlyLast(Tail(q))
  <2>1. \A k \in 1..(n - 2) : k \in 1..(n - 1) /\ k + 1 \in 1..(n - 1)
    OBVIOUS
  <2>2. QED
    BY <1>1, <2>1 DEF OnlyLast
<1>3. Head(q) = Done => n = 1
  <2>1. n > 1 => q[1] # Done
    BY DEF OnlyLast
  <2>2. QED
    BY <1>1, <2>1
<1>4. Tail(q) = <<>> <=> n = 1
  <2>1. PICK rest \in Seq(Messages) : rest = Tail(q) /\ Len(rest) = n - 1
    BY <1>1
  <2>2. rest = <<>> <=> Len(rest) = 0
    BY EmptySeq
  <2>3. QED
    BY <2>1, <2>2
<1>5. Head(q) # Done => (EndsDone(Tail(q)) <=> EndsDone(q))
  <2>1. CASE n = 1
    BY <1>1, <1>4, <2>1 DEF EndsDone
  <2>2. CASE n > 1
    <3>1. Tail(q)[n - 1] = q[n] /\ Tail(q) # <<>>
      BY <1>1, <1>4, <2>2
    <3>2. QED
      BY <1>1, <3>1 DEF EndsDone
  <2>3. QED
    BY <1>1, <2>1, <2>2
<1>6. QED
  BY <1>1, <1>2, <1>3, <1>4, <1>5 DEF EndsDone

\* A step that sends and receives nothing
LEMMA DoneKept ==
  ASSUME DoneInv, UNCHANGED <<chan, spc>>, pc'["comm"] = "exited" <=> pc["comm"] = "exited",
         pc'["main"] \in {"reduce", "done"} => pc["comm"] = "exited"
  PROVE  DoneInv'
BY DEF DoneInv

\* A step that sends a task
LEMMA DoneSending ==
  ASSUME TypeInv, DoneInv, NEW s \in Slaves, NEW c \in Chunky, Send(s, Working(c)),
         UNCHANGED spc, pc["comm"] # "exited", pc'["comm"] # "exited", pc'["main"] = pc["main"]
  PROVE  DoneInv'
<1>1. chan[s] \in Seq(Messages) /\ chan' = [chan EXCEPT ![s] = Append(@, Working(c))]
  BY DEF TypeInv, Send
<1>2. OnlyLast(Append(chan[s], Working(c))) /\ ~EndsDone(Append(chan[s], Working(c)))
  BY <1>1, MessageTypes, Appended DEF DoneInv
<1>3. /\ chan'[s] = Append(chan[s], Working(c))
      /\ \A u \in Slaves \ {s} : chan'[u] = chan[u]
  BY <1>1 DEF TypeInv
<1>4. QED
  BY <1>2, <1>3 DEF DoneInv

LEMMA DoneStep == IInv /\ DoneInv /\ [Next]_vars => DoneInv'
<1> SUFFICES ASSUME IInv, DoneInv, [Next]_vars PROVE DoneInv'
  OBVIOUS
<1> USE DEF Pair, Goto
<1>1. ASSUME NEW t \in Pair, Lock(t) \/ AssignRead(t) \/ AssignWrite(t) PROVE DoneInv'
  BY <1>1, DoneKept DEF IInv, TypeInv, Lock, AssignRead, AssignWrite, slaveVars, DoneInv
<1>2. CASE Unlock("main", "compute", "join")
  BY <1>2, DoneKept DEF IInv, TypeInv, Unlock, slaveVars
<1>3. CASE Unlock("comm", "recv", "drain")
  BY <1>3, DoneKept DEF IInv, TypeInv, Unlock, slaveVars, DoneInv
<1>4. CASE MainCompute \/ MainJoin
  BY <1>4, DoneKept DEF IInv, TypeInv, MainCompute, MainJoin, slaveVars
<1>5. CASE FirstLock \/ FirstUnlock \/ CommRecv
  BY <1>5, DoneKept DEF IInv, TypeInv, FirstLock, FirstUnlock, CommRecv, slaveVars, DoneInv
<1>6. CASE FirstRound \/ Drain \/ UNCHANGED vars
  BY <1>6, DoneKept DEF FirstRound, Drain, vars, threadVars, slaveVars, DoneInv
<1>7. CASE FirstSend
  BY <1>7, DoneSending, AssignedType, Constants DEF IInv, TypeInv, FirstSend, slaveVars
<1>8. CASE CommReply
  BY <1>8, DoneSending DEF IInv, TypeInv, CommReply, slaveVars
<1>9. CASE Terminate
  <2>1. /\ chan' = [s \in Slaves |-> Append(chan[s], Done)] /\ spc' = spc
        /\ pc["comm"] # "exited" /\ pc'["comm"] = "exited" /\ pc'["main"] = pc["main"]
    BY <1>9 DEF IInv, TypeInv, Terminate, slaveVars
  <2>2. ASSUME NEW s \in Slaves
        PROVE  /\ spc[s] \notin {"reduce", "done"}
               /\ OnlyLast(Append(chan[s], Done)) /\ EndsDone(Append(chan[s], Done))
    BY <2>1, MessageTypes, Appended DEF IInv, TypeInv, DoneInv
  <2>3. QED
    BY <2>1, <2>2 DEF DoneInv
<1>10. CASE Reduce
  BY <1>10 DEF IInv, TypeInv, DoneInv, Reduce
<1>11. ASSUME NEW s \in Slaves, SlaveRecv(s) PROVE DoneInv'
  <2>1. /\ chan[s] \in Seq(Messages) /\ chan[s] # <<>> /\ spc[s] = "recv" /\ pc' = pc
        /\ chan'[s] = Tail(chan[s])
        /\ \A u \in Slaves \ {s} : chan'[u] = chan[u] /\ spc'[u] = spc[u]
    BY <1>11 DEF IInv, TypeInv, SlaveRecv, threadVars
  <2>2. \/ Head(chan[s]) = Done /\ spc'[s] = "reduce"
        \/ Head(chan[s]) # Done /\ spc'[s] = "compute"
    BY <1>11, <2>1, MessageTypes, HeadTailProperties DEF IInv, TypeInv, SlaveRecv
  <2>3. OnlyLast(chan[s])
    BY DEF DoneInv
  <2>4. /\ OnlyLast(Tail(chan[s]))
        /\ Head(chan[s]) = Done => Tail(chan[s]) = <<>> /\ EndsDone(chan[s])
        /\ Head(chan[s]) # Done => (EndsDone(Tail(chan[s])) <=> EndsDone(chan[s]))
    BY <2>1, <2>3, Taken
  <2>5. ~EndsDone(<<>>)
    BY DEF EndsDone
  <2>6. QED
    BY <2>1, <2>2, <2>4, <2>5 DEF DoneInv
<1>12. ASSUME NEW s \in Slaves, SlaveCompute(s) PROVE DoneInv'
  BY <1>12 DEF IInv, TypeInv, DoneInv, SlaveCompute, threadVars
<1>13. QED
  BY <1>1, <1>2, <1>3, <1>4, <1>5, <1>6, <1>7, <1>8, <1>9, <1>10, <1>11, <1>12
     DEF Next, MainThread, CommThread, Slave, Finished

LEMMA InitWork == Init => WInv
<1> SUFFICES ASSUME Init PROVE WInv
  OBVIOUS
<1>1. IInv
  BY InitPlaces
<1>2. EmptyInv
  BY DEF Init, EmptyInv, Pair
<1>3. OnlyLast(<<>>) /\ ~EndsDone(<<>>)
  BY EmptySeq DEF OnlyLast, EndsDone
<1>4. DoneInv
  BY <1>3 DEF Init, DoneInv
<1>5. QED
  BY <1>1, <1>2, <1>4 DEF WInv

LEMMA NextWork == WInv /\ [Next]_vars => WInv'
BY NextPlaces, EmptyStep, DoneStep DEF WInv

-----------------------------------------------------------------------------
(* What the members hold, and who has left.                                *)

LEMMA Team ==
  /\ Members = {Master, CommMember} \cup Slaves
  /\ Master # CommMember /\ Master \notin Slaves /\ CommMember \notin Slaves
  /\ Procs = {Master} \cup Slaves
BY Constants DEF Members, CommMember

LEMMA HeldIs ==
  /\ Held = [m \in Members |-> Held[m]]
  /\ Held[Master] = HeldBy("main") /\ Held[CommMember] = HeldBy("comm")
  /\ \A s \in Slaves : Held[s] = InFlight(s)
<1>1. Held = [m \in Members |-> Held[m]]
  BY DEF Held
<1>2. Held[Master] = HeldBy("main")
  BY Team DEF Held
<1>3. Held[CommMember] = HeldBy("comm")
  BY Team DEF Held
<1>4. \A s \in Slaves : Held[s] = InFlight(s)
  BY Team DEF Held
<1>5. QED
  BY <1>1, <1>2, <1>3, <1>4

LEMMA HeldIsNext ==
  /\ Held' = [m \in Members |-> Held'[m]]
  /\ Held'[Master] = HeldBy("main")' /\ Held'[CommMember] = HeldBy("comm")'
  /\ \A s \in Slaves : Held'[s] = InFlight(s)'
<1>1. Held' = [m \in Members |-> Held'[m]]
  BY DEF Held
<1>2. Held'[Master] = HeldBy("main")'
  BY Team DEF Held
<1>3. Held'[CommMember] = HeldBy("comm")'
  BY Team DEF Held
<1>4. \A s \in Slaves : Held'[s] = InFlight(s)'
  BY Team DEF Held
<1>5. QED
  BY <1>1, <1>2, <1>3, <1>4

LEMMA HeldKept ==
  ASSUME HeldBy("main")' = HeldBy("main"), HeldBy("comm")' = HeldBy("comm"),
         \A s \in Slaves : InFlight(s)' = InFlight(s)
  PROVE  Held' = Held
<1>1. \A m \in Members : Held'[m] = Held[m]
  BY HeldIs, HeldIsNext, Team
<1>2. QED
  BY <1>1, HeldIs, HeldIsNext

LEMMA LeaversAre ==
  /\ Master \in Leavers <=> pc["main"] \in {"join", "reduce", "done"}
  /\ CommMember \in Leavers <=> pc["comm"] = "exited"
  /\ \A s \in Slaves : s \in Leavers <=> spc[s] \in {"reduce", "done"}
BY Team DEF Leavers

LEMMA LeaversKept ==
  ASSUME pc'["main"] \in {"join", "reduce", "done"} <=> pc["main"] \in {"join", "reduce", "done"},
         pc'["comm"] = "exited" <=> pc["comm"] = "exited",
         \A s \in Slaves : spc'[s] \in {"reduce", "done"} <=> spc[s] \in {"reduce", "done"}
  PROVE  Leavers' = Leavers
BY Team DEF Leavers

LEMMA FreeKept == UNCHANGED <<width, height, ps_p>> => Free' = Free
BY DEF Free, area

-----------------------------------------------------------------------------
(* The steps.                                                              *)

\* Steps that leave alone all that SharedWork speaks of
LEMMA Stutters ==
  ASSUME WInv,
         \/ \E t \in Pair : Lock(t) \/ AssignRead(t)
         \/ MainJoin \/ FirstLock \/ FirstRound \/ FirstUnlock \/ CommRecv \/ Drain
         \/ Unlock("comm", "recv", "drain")
         \/ UNCHANGED vars
  PROVE  UNCHANGED workVars
<1> USE DEF Pair, Goto
<1>1. UNCHANGED <<width, height, ps_p, chan, spc, job, raw_img>>
  BY DEF Lock, AssignRead, MainJoin, FirstLock, FirstRound, FirstUnlock, CommRecv, Drain, Unlock,
         slaveVars, threadVars, vars
<1>2. /\ HeldBy("main")' = HeldBy("main") /\ HeldBy("comm")' = HeldBy("comm")
      /\ pc'["main"] \in {"join", "reduce", "done"} <=> pc["main"] \in {"join", "reduce", "done"}
      /\ pc'["main"] = "done" <=> pc["main"] = "done"
      /\ pc'["comm"] = "exited" <=> pc["comm"] = "exited"
  <2>1. CASE \E t \in Pair : Lock(t) \/ AssignRead(t)
    BY <2>1 DEF WInv, IInv, TypeInv, Lock, AssignRead, HeldBy
  <2>2. CASE MainJoin \/ FirstLock \/ FirstUnlock \/ CommRecv
    BY <2>2 DEF WInv, IInv, TypeInv, MainJoin, FirstLock, FirstUnlock, CommRecv, HeldBy
  <2>3. CASE FirstRound \/ Drain \/ UNCHANGED vars
    BY <2>3 DEF FirstRound, Drain, vars, threadVars, HeldBy
  <2>4. CASE Unlock("comm", "recv", "drain")
    BY <2>4, NoPixels DEF WInv, IInv, TypeInv, Unlock, HeldBy
  <2>5. QED
    BY <2>1, <2>2, <2>3, <2>4
<1>3. Held' = Held
  BY <1>1, <1>2, SlavesKept, HeldKept DEF WInv, IInv
<1>4. Leavers' = Leavers
  BY <1>1, <1>2, LeaversKept
<1>5. Free' = Free /\ Computed' = Computed /\ Written' = Written
  BY <1>1, <1>2, FreeKept DEF Computed, Written
<1>6. QED
  BY <1>3, <1>4, <1>5 DEF workVars

\* The chunk assign_task gives away is taken from the free pixels.
LEMMA FreeTaken ==
  ASSUME TypeInv, ps_p' = ps_p + Assigned.size, area' = area
  PROVE  Free' \subseteq Free /\ Free \ Free' = PixelsOf(Assigned)
<1> PICK p \in Nat, n \in Nat, a \in Nat :
         /\ p = ps_p /\ n = Assigned.size /\ a = area /\ p + n <= a
         /\ PixelsOf(Assigned) = p..(p + n - 1)
  BY AssignedType, ChunkType DEF TypeInv, Chunky
<1>1. /\ (p + n)..(a - 1) \subseteq p..(a - 1)
      /\ (p..(a - 1)) \ ((p + n)..(a - 1)) = p..(p + n - 1)
  OBVIOUS
<1>2. QED
  BY <1>1 DEF Free

LEMMA AssignWriteTakes ==
  ASSUME WInv, NEW t \in Pair, AssignWrite(t)
  PROVE  Work!Take(IF t = "main" THEN Master ELSE CommMember)
<1> USE DEF Pair, Goto
<1> PICK m : m = IF t = "main" THEN Master ELSE CommMember
  OBVIOUS
<1>1. /\ ps_size[t] = Assigned /\ ps_p' = ps_p + Assigned.size /\ area' = area
      /\ UNCHANGED <<chan, spc, job, raw_img>>
  BY AssignedType DEF WInv, IInv, AssignInv, AssignWrite, area, slaveVars
<1>2. /\ pc[t] = "write" /\ pc'[t] = "unlock" /\ \A u \in Pair \ {t} : pc'[u] = pc[u]
      /\ HeldBy(t) = {} /\ HeldBy(t)' = PixelsOf(Assigned)
      /\ \A u \in Pair \ {t} : HeldBy(u)' = HeldBy(u)
  BY <1>1 DEF WInv, IInv, TypeInv, AssignWrite, HeldBy
<1>3. m \in Members /\ m \notin Leavers
  BY <1>2, LeaversAre, Team
<1>4. Free' \subseteq Free /\ Free \ Free' = PixelsOf(Assigned)
  BY <1>1, FreeTaken DEF WInv, IInv
<1>5. Held' = [Held EXCEPT ![m] = @ \cup (Free \ Free')]
  <2>1. \A s \in Slaves : InFlight(s)' = InFlight(s)
    BY <1>1, SlavesKept DEF WInv, IInv
  <2>2. Held'[m] = Held[m] \cup (Free \ Free')
    BY <1>2, <1>4, HeldIs, HeldIsNext
  <2>3. \A k \in Members \ {m} : Held'[k] = Held[k]
    BY <1>2, <2>1, HeldIs, HeldIsNext, Team
  <2>4. QED
    BY <1>3, <2>2, <2>3, HeldIs, HeldIsNext
<1>6. Leavers' = Leavers
  BY <1>1, <1>2, LeaversKept
<1>7. Computed' = Computed /\ Written' = Written
  BY <1>1, <1>2 DEF Computed, Written
<1>8. QED
  BY <1>3, <1>4, <1>5, <1>6, <1>7 DEF Work!Take

\* No task is left for the main thread.
LEMMA UnlockLeaves ==
  ASSUME WInv, Unlock("main", "compute", "join")
  PROVE  Work!Leave(Master) \/ UNCHANGED workVars
<1> USE DEF Pair, Goto
<1>1. /\ UNCHANGED <<width, height, ps_p, ps_size, chan, spc, job, raw_img>>
      /\ pc["main"] = "unlock" /\ pc'["comm"] = pc["comm"]
      /\ ps_size["main"].size # 0 => pc'["main"] = "compute"
      /\ ps_size["main"].size = 0 => pc'["main"] = "join"
      /\ ps_size["main"] \in Chunky
  BY DEF WInv, IInv, TypeInv, Unlock, slaveVars
<1>2. /\ HeldBy("main")' = HeldBy("main") /\ HeldBy("comm")' = HeldBy("comm")
      /\ ps_size["main"].size = 0 => HeldBy("main") = {}
  BY <1>1, NoPixels DEF HeldBy
<1>3. Held' = Held
  BY <1>1, <1>2, SlavesKept, HeldKept DEF WInv, IInv
<1>4. Free' = Free /\ Computed' = Computed /\ Written' = Written
  BY <1>1, FreeKept DEF Computed, Written
<1>5. CASE ps_size["main"].size # 0
  <2>1. Leavers' = Leavers
    BY <1>1, <1>5, LeaversKept
  <2>2. QED
    BY <1>3, <1>4, <2>1 DEF workVars
<1>6. CASE ps_size["main"].size = 0
  <2>1. Leavers' = Leavers \cup {Master}
    BY <1>1, <1>6, Team DEF Leavers
  <2>2. ps_p = area /\ area \in Nat
    BY <1>1, <1>6, ChunkType DEF WInv, EmptyInv, IInv
  <2>3. Free = {}
    BY <2>2 DEF Free
  <2>4. Held[Master] = {}
    BY <1>2, <1>6, HeldIs
  <2>5. QED
    BY <1>3, <1>4, <2>1, <2>3, <2>4 DEF Work!Leave
<1>7. QED
  BY <1>5, <1>6

LEMMA MainComputes ==
  ASSUME WInv, MainCompute
  PROVE  Work!Compute(Master)
<1> USE DEF Pair, Goto
<1> PICK D : D = PixelsOf(ps_size["main"])
  OBVIOUS
<1>1. /\ UNCHANGED <<width, height, ps_p, ps_size, chan, spc, job>>
      /\ pc["main"] = "compute" /\ pc'["main"] = "lock" /\ pc'["comm"] = pc["comm"]
      /\ Master \in Procs /\ raw_img'[Master] = raw_img[Master] \cup D
      /\ \A r \in Procs \ {Master} : raw_img'[r] = raw_img[r]
  BY Team DEF WInv, IInv, TypeInv, MainCompute, slaveVars
<1>2. HeldBy("main") = D /\ HeldBy("main")' = {} /\ HeldBy("comm")' = HeldBy("comm")
  BY <1>1 DEF HeldBy
<1>3. Held'[Master] = {} /\ Held[Master] = D
  BY <1>2, HeldIs, HeldIsNext
<1>4. Held' = [Held EXCEPT ![Master] = Held'[Master]]
  <2>1. \A m \in Members \ {Master} : Held'[m] = Held[m]
    BY <1>1, <1>2, SlavesKept, HeldIs, HeldIsNext, Team DEF WInv, IInv
  <2>2. QED
    BY <2>1, HeldIs, HeldIsNext
<1>5. Computed' = Computed \cup (Held[Master] \ Held'[Master])
  BY <1>1, <1>3 DEF Computed
<1>6. Leavers' = Leavers /\ Free' = Free /\ Written' = Written
  BY <1>1, LeaversKept, FreeKept DEF Written
<1>7. QED
  BY <1>3, <1>4, <1>5, <1>6 DEF Work!Compute

\* The first tasks go straight from the free pixels to a slave, which has not
\* left: DONE has not been sent.
LEMMA FirstSendTakes ==
  ASSUME WInv, FirstSend
  PROVE  \E s \in Slaves : Work!Take(s)
<1> PICK s : s = i
  OBVIOUS
<1>1. /\ UNCHANGED <<pc, ps_size, spc, job, raw_img>> /\ pc["comm"] = "deal"
      /\ ps_p' = ps_p + Assigned.size /\ area' = area
      /\ s \in Slaves /\ Send(s, Working(Assigned))
  BY Constants DEF WInv, IInv, TypeInv, FirstSend, slaveVars, area
<1>2. Free' \subseteq Free /\ Free \ Free' = PixelsOf(Assigned)
  BY <1>1, FreeTaken DEF WInv, IInv
<1>3. PixelsOf(Assigned) \cap InFlight(s) = {}
  <2>1. Where[OfSlave(s)] = InFlight(s) /\ OfSlave(s) \in DOMAIN Where
    BY <1>1, Index, WhereIs
  <2>2. InFlight(s) \subseteq 0..(ps_p - 1)
    BY <2>1 DEF WInv, IInv, PlaceInv, All
  <2>3. ps_p \in Nat /\ Assigned.size \in Nat /\ PixelsOf(Assigned) = ps_p..(ps_p + Assigned.size - 1)
    BY AssignedType, ChunkType DEF WInv, IInv, TypeInv, Chunky
  <2>4. QED
    BY <2>2, <2>3, TakeMore
<1>4. /\ InFlight(s)' = InFlight(s) \cup PixelsOf(Assigned)
      /\ \A u \in Slaves \ {s} : InFlight(u)' = InFlight(u)
  BY <1>1, <1>3, AssignedType, TaskSent DEF WInv, IInv
<1>5. s \in Members /\ s \notin Leavers
  BY <1>1, LeaversAre, Team DEF WInv, DoneInv
<1>6. Held' = [Held EXCEPT ![s] = @ \cup (Free \ Free')]
  <2>1. HeldBy("main")' = HeldBy("main") /\ HeldBy("comm")' = HeldBy("comm")
    BY <1>1 DEF HeldBy
  <2>2. Held'[s] = Held[s] \cup (Free \ Free')
    BY <1>1, <1>2, <1>4, HeldIs, HeldIsNext
  <2>3. \A m \in Members \ {s} : Held'[m] = Held[m]
    BY <1>1, <1>4, <2>1, HeldIs, HeldIsNext, Team
  <2>4. QED
    BY <1>5, <2>2, <2>3, HeldIs, HeldIsNext
<1>7. Leavers' = Leavers /\ Computed' = Computed /\ Written' = Written
  BY <1>1, LeaversKept DEF Computed, Written
<1>8. QED
  BY <1>1, <1>2, <1>5, <1>6, <1>7 DEF Work!Take

LEMMA CommReplyHands ==
  ASSUME WInv, CommReply
  PROVE  \E s \in Slaves : Work!Hand(CommMember, s)
<1> USE DEF Pair, Goto
<1> PICK s : s = to
  OBVIOUS
<1> PICK D : D = PixelsOf(ps_size["comm"])
  OBVIOUS
<1>1. /\ UNCHANGED <<width, height, ps_p, ps_size, spc, job, raw_img>>
      /\ pc["comm"] = "reply" /\ pc'["comm"] = "lock" /\ pc'["main"] = pc["main"]
      /\ s \in Slaves /\ ps_size["comm"] \in Chunky /\ Send(s, Working(ps_size["comm"]))
  BY DEF WInv, IInv, TypeInv, CommReply, slaveVars
<1>2. HeldBy("comm") = D /\ HeldBy("comm")' = {} /\ HeldBy("main")' = HeldBy("main")
  BY <1>1 DEF HeldBy
<1>3. D \cap InFlight(s) = {}
  <2>1. OfSlave(s) \in DOMAIN Where /\ 2 \in DOMAIN Where /\ OfSlave(s) # 2
    BY <1>1, Index, WhereIs, Constants
  <2>2. Where[2] = D /\ Where[OfSlave(s)] = InFlight(s)
    BY <1>1, <1>2, WhereIs
  <2>3. QED
    BY <2>1, <2>2 DEF WInv, IInv, PlaceInv, Disjoint
<1>4. InFlight(s)' = InFlight(s) \cup D /\ \A u \in Slaves \ {s} : InFlight(u)' = InFlight(u)
  BY <1>1, <1>3, TaskSent DEF WInv, IInv
<1>5. s \in Members /\ s \notin Leavers
  BY <1>1, LeaversAre, Team DEF WInv, DoneInv
<1>6. Held' = [Held EXCEPT ![CommMember] = {}, ![s] = @ \cup Held[CommMember]]
  <2>1. Held'[CommMember] = {} /\ Held'[s] = Held[s] \cup Held[CommMember] /\ s # CommMember
    BY <1>1, <1>2, <1>4, HeldIs, HeldIsNext, Team
  <2>2. \A m \in Members \ {CommMember, s} : Held'[m] = Held[m]
    BY <1>1, <1>2, <1>4, HeldIs, HeldIsNext, Team
  <2>3. QED
    BY <1>5, <2>1, <2>2, HeldIs, HeldIsNext
<1>7. Free' = Free /\ Leavers' = Leavers /\ Computed' = Computed /\ Written' = Written
  BY <1>1, FreeKept, LeaversKept DEF Computed, Written
<1>8. QED
  BY <1>1, <1>5, <1>6, <1>7 DEF Work!Hand

LEMMA TerminateLeaves ==
  ASSUME WInv, Terminate
  PROVE  Work!Leave(CommMember)
<1> USE DEF Pair, Goto
<1>1. /\ UNCHANGED <<width, height, ps_p, ps_size, spc, job, raw_img>>
      /\ pc["comm"] = "drain" /\ pc'["comm"] = "exited" /\ pc'["main"] = pc["main"]
      /\ chan' = [s \in Slaves |-> Append(chan[s], Done)]
  BY DEF WInv, IInv, TypeInv, Terminate, slaveVars
<1>2. HeldBy("main")' = HeldBy("main") /\ HeldBy("comm") = {} /\ HeldBy("comm")' = {}
  BY <1>1 DEF HeldBy
<1>3. Held' = Held /\ Held[CommMember] = {}
  BY <1>1, <1>2, DoneSent, HeldKept, HeldIs DEF WInv, IInv
<1>4. ps_p = area /\ area \in Nat
  BY <1>1, ChunkType DEF WInv, EmptyInv, IInv
<1>5. Free = {}
  BY <1>4 DEF Free
<1>6. Leavers' = Leavers \cup {CommMember}
  BY <1>1, Team DEF Leavers
<1>7. Free' = Free /\ Computed' = Computed /\ Written' = Written
  BY <1>1, FreeKept DEF Computed, Written
<1>8. QED
  BY <1>3, <1>5, <1>6, <1>7 DEF Work!Leave

\* DONE reaches a slave when nothing is left for it, not even work sent ahead.
LEMMA SlaveRecvLeaves ==
  ASSUME WInv, NEW s \in Slaves, SlaveRecv(s)
  PROVE  Work!Leave(s) \/ UNCHANGED workVars
<1>1. /\ UNCHANGED <<width, height, ps_p, ps_size, pc, raw_img>>
      /\ chan[s] \in Seq(Messages) /\ chan[s] # <<>> /\ spc[s] = "recv"
      /\ chan'[s] = Tail(chan[s])
      /\ \A u \in Slaves \ {s} : spc'[u] = spc[u]
  BY DEF WInv, IInv, TypeInv, SlaveRecv, threadVars
<1>2. \/ Head(chan[s]) = Done /\ spc'[s] = "reduce"
      \/ spc'[s] = "compute"
  BY <1>1, MessageTypes, HeadTailProperties DEF WInv, IInv, TypeInv, SlaveRecv
<1>3. HeldBy("main")' = HeldBy("main") /\ HeldBy("comm")' = HeldBy("comm")
  BY <1>1 DEF HeldBy
<1>4. /\ \A u \in Slaves : InFlight(u)' = InFlight(u)
      /\ Held' = Held
  BY <1>3, MessageTaken, HeldKept DEF WInv, IInv
<1>5. Free' = Free /\ Computed' = Computed /\ Written' = Written
  BY <1>1, FreeKept DEF Computed, Written
<1>6. CASE spc'[s] = "compute"
  <2>1. Leavers' = Leavers
    BY <1>1, <1>6, LeaversKept
  <2>2. QED
    BY <1>4, <1>5, <2>1 DEF workVars
<1>7. CASE Head(chan[s]) = Done /\ spc'[s] = "reduce"
  <2>1. Tail(chan[s]) = <<>> /\ EndsDone(chan[s]) /\ pc["comm"] = "exited"
    BY <1>1, <1>7, Taken DEF WInv, DoneInv
  <2>2. InFlight(s) = {}
    <3>1. chan'[s] = <<>> /\ spc'[s] # "compute" /\ Len(<<>>) = 0
      BY <1>1, <1>7, <2>1, EmptySeq
    <3>2. InFlight(s)' = {}
      BY <3>1 DEF InFlight
    <3>3. QED
      BY <1>4, <3>2
  <2>3. ps_p = area /\ area \in Nat
    BY <2>1, ChunkType DEF WInv, EmptyInv, IInv
  <2>4. Free = {}
    BY <2>3 DEF Free
  <2>5. Leavers' = Leavers \cup {s}
    BY <1>1, <1>7, Team DEF Leavers
  <2>6. QED
    BY <1>4, <1>5, <2>2, <2>4, <2>5, HeldIs DEF Work!Leave
<1>8. QED
  BY <1>2, <1>6, <1>7

LEMMA SlaveComputes ==
  ASSUME WInv, NEW s \in Slaves, SlaveCompute(s)
  PROVE  Work!Compute(s)
<1> PICK D : D = PixelsOf(job[s])
  OBVIOUS
<1>1. /\ UNCHANGED <<width, height, ps_p, ps_size, pc, chan, job>>
      /\ spc[s] = "compute" /\ spc'[s] = "recv" /\ \A u \in Slaves \ {s} : spc'[u] = spc[u]
      /\ s \in Procs /\ raw_img'[s] = raw_img[s] \cup D
      /\ \A r \in Procs \ {s} : raw_img'[r] = raw_img[r]
  BY Team DEF WInv, IInv, TypeInv, SlaveCompute, threadVars
<1>2. HeldBy("main")' = HeldBy("main") /\ HeldBy("comm")' = HeldBy("comm")
  BY <1>1 DEF HeldBy
<1>3. /\ InFlight(s)' = InFlight(s) \ D /\ D \subseteq InFlight(s)
      /\ \A u \in Slaves \ {s} : InFlight(u)' = InFlight(u)
  BY TaskComputed DEF WInv, IInv
<1>4. Held'[s] = Held[s] \ D /\ D \subseteq Held[s]
  BY <1>3, HeldIs, HeldIsNext
<1>5. Held' = [Held EXCEPT ![s] = Held'[s]]
  <2>1. \A m \in Members \ {s} : Held'[m] = Held[m]
    BY <1>2, <1>3, HeldIs, HeldIsNext, Team
  <2>2. QED
    BY <2>1, HeldIs, HeldIsNext
<1>6. Computed' = Computed \cup (Held[s] \ Held'[s])
  <2>1. Held[s] \ Held'[s] = D
    BY <1>4
  <2>2. QED
    BY <1>1, <2>1 DEF Computed
<1>7. Leavers' = Leavers /\ Free' = Free /\ Written' = Written
  BY <1>1, LeaversKept, FreeKept DEF Written
<1>8. QED
  BY <1>4, <1>5, <1>6, <1>7 DEF Work!Compute

LEMMA ReduceWrites ==
  ASSUME WInv, Reduce
  PROVE  Work!Write
<1> USE DEF Pair, Goto
<1>1. /\ UNCHANGED <<width, height, ps_p, ps_size, chan, job, raw_img>>
      /\ pc["main"] = "reduce" /\ pc'["main"] = "done" /\ pc'["comm"] = pc["comm"]
      /\ pc["comm"] = "exited"
      /\ \A s \in Slaves : spc[s] = "reduce" /\ spc'[s] = "done"
  BY DEF WInv, IInv, TypeInv, DoneInv, Reduce
<1>2. Leavers = Members /\ Leavers' = Leavers
  <2>1. \A m \in Members : m \in Leavers
    BY <1>1, LeaversAre, Team
  <2>2. QED
    BY <1>1, <2>1, LeaversKept DEF Leavers
<1>3. Held' = Held
  <2>1. HeldBy("main")' = HeldBy("main") /\ HeldBy("comm")' = HeldBy("comm")
    BY <1>1 DEF HeldBy
  <2>2. \A s \in Slaves : InFlight(s)' = InFlight(s)
    BY <1>1 DEF InFlight
  <2>3. QED
    BY <2>1, <2>2, HeldKept
<1>4. Free' = Free /\ Computed' = Computed /\ Written' = TRUE
  BY <1>1, FreeKept DEF Computed, Written
<1>5. QED
  BY <1>2, <1>3, <1>4 DEF Work!Write

-----------------------------------------------------------------------------
(* The theorem.                                                            *)

LEMMA InitShares == Init => Work!Init
<1> SUFFICES ASSUME Init PROVE Work!Init
  OBVIOUS
<1>1. HeldBy("main") = {} /\ HeldBy("comm") = {}
  BY DEF Init, HeldBy
<1>2. \A s \in Slaves : InFlight(s) = {}
  BY EmptySeq DEF Init, InFlight
<1>3. \A m \in Members : Held[m] = {}
  BY <1>1, <1>2, HeldIs, Team
<1>4. Held = [m \in Members |-> {}]
  BY <1>3, HeldIs
<1>5. Leavers = {} /\ Written = FALSE
  BY Team DEF Init, Leavers, Written
<1>6. Computed = {}
  BY DEF Init, Computed
<1>7. QED
  BY <1>4, <1>5, <1>6 DEF Work!Init

LEMMA StepShares == WInv /\ [Next]_vars => [Work!Next]_workVars
<1> SUFFICES ASSUME WInv, [Next]_vars PROVE Work!Next \/ UNCHANGED workVars
  OBVIOUS
<1> USE Team DEF Work!Next
<1>1. CASE \E t \in Pair : AssignWrite(t)
  BY <1>1, AssignWriteTakes DEF Pair
<1>2. CASE Unlock("main", "compute", "join")
  BY <1>2, UnlockLeaves
<1>3. CASE MainCompute
  BY <1>3, MainComputes
<1>4. CASE FirstSend
  BY <1>4, FirstSendTakes
<1>5. CASE CommReply
  BY <1>5, CommReplyHands
<1>6. CASE Terminate
  BY <1>6, TerminateLeaves
<1>7. CASE \E s \in Slaves : Slave(s)
  BY <1>7, SlaveRecvLeaves, SlaveComputes DEF Slave
<1>8. CASE Reduce
  BY <1>8, ReduceWrites
<1>9. CASE \/ \E t \in Pair : Lock(t) \/ AssignRead(t)
           \/ MainJoin \/ FirstLock \/ FirstRound \/ FirstUnlock \/ CommRecv \/ Drain
           \/ Unlock("comm", "recv", "drain")
           \/ UNCHANGED vars
  BY <1>9, Stutters
<1>10. QED
  BY <1>1, <1>2, <1>3, <1>4, <1>5, <1>6, <1>7, <1>8, <1>9
     DEF Next, MainThread, CommThread, Finished, Pair

\* hw2b implements the sharing of the pixels: the threads of the master take
\* them, the messages hand them to the slaves, nobody leaves while pixels are
\* free or on their way to him, and the picture is written when all have left.
THEOREM MasterSlaveSharesWork == Spec => SharesWork
<1>1. Init => WInv
  BY InitWork
<1>2. WInv /\ [Next]_vars => WInv'
  BY NextWork
<1>3. Init => Work!Init
  BY InitShares
<1>4. WInv /\ [Next]_vars => [Work!Next]_(Work!vars)
  BY StepShares DEF workVars, Work!vars
<1>5. QED
  BY <1>1, <1>2, <1>3, <1>4, PTL DEF Spec, SharesWork, Work!Spec

-----------------------------------------------------------------------------
(* The account of the answers that are due.                                *)

\* The tasks among the messages on their way to a slave
Tasks(q) == Cardinality({k \in 1..Len(q) : q[k] # Done})

LEMMA TasksType ==
  ASSUME NEW q \in Seq(Messages)
  PROVE  IsFiniteSet({k \in 1..Len(q) : q[k] # Done}) /\ Tasks(q) \in Nat
<1> PICK n \in Nat : n = Len(q)
  BY LenProperties
<1>1. IsFiniteSet(1..n) /\ {k \in 1..n : q[k] # Done} \in SUBSET (1..n)
  BY FS_Interval
<1>2. IsFiniteSet({k \in 1..n : q[k] # Done})
  BY <1>1, FS_Subset
<1>3. QED
  BY <1>2, FS_CardinalityType DEF Tasks

LEMMA TasksAppended ==
  ASSUME NEW q \in Seq(Messages), NEW m \in Messages
  PROVE  Tasks(Append(q, m)) = IF m = Done THEN Tasks(q) ELSE Tasks(q) + 1
<1> PICK n \in Nat : n = Len(q)
  BY LenProperties
<1> PICK D, E : D = {k \in 1..n : q[k] # Done} /\ E = {k \in 1..(n + 1) : Append(q, m)[k] # Done}
  OBVIOUS
<1>1. /\ Len(Append(q, m)) = n + 1 /\ Append(q, m)[n + 1] = m
      /\ \A k \in 1..n : Append(q, m)[k] = q[k]
  BY AppendProperties
<1>2. Tasks(q) = Cardinality(D) /\ Tasks(Append(q, m)) = Cardinality(E)
  BY <1>1 DEF Tasks
<1>3. IsFiniteSet(D) /\ n + 1 \notin D
  BY TasksType
<1>4. CASE m = Done
  <2>1. E = D
    BY <1>1, <1>4
  <2>2. QED
    BY <1>2, <1>4, <2>1
<1>5. CASE m # Done
  <2>1. E = D \cup {n + 1}
    BY <1>1, <1>5
  <2>2. Cardinality(D \cup {n + 1}) = Cardinality(D) + 1
    BY <1>3, FS_AddElement
  <2>3. QED
    BY <1>2, <1>5, <2>1, <2>2
<1>6. QED
  BY <1>4, <1>5

LEMMA TasksTaken ==
  ASSUME NEW q \in Seq(Messages), q # <<>>
  PROVE  Tasks(q) = IF Head(q) = Done THEN Tasks(Tail(q)) ELSE Tasks(Tail(q)) + 1
<1> PICK n \in Nat : n = Len(q)
  BY LenProperties
<1> PICK D, E : D = {k \in 1..n : q[k] # Done} /\ E = {k \in 1..(n - 1) : Tail(q)[k] # Done}
  OBVIOUS
<1>1. /\ n > 0 /\ Len(Tail(q)) = n - 1 /\ Head(q) = q[1] /\ Tail(q) \in Seq(Messages)
      /\ \A k \in 1..(n - 1) : Tail(q)[k] = q[k + 1]
  BY HeadTailProperties, LenProperties, EmptySeq
<1>2. Tasks(q) = Cardinality(D) /\ Tasks(Tail(q)) = Cardinality(E)
  BY <1>1 DEF Tasks
<1>3. IsFiniteSet(D) /\ IsFiniteSet(E) /\ Cardinality(D) \in Nat
  BY <1>1, <1>2, TasksType
<1>4. Cardinality(D \ {1}) = Cardinality(E)
  <2> DEFINE f == [k \in E |-> k + 1]
  <2>1. f \in [E -> D \ {1}]
    BY <1>1
  <2>2. \A j, k \in E : f[j] = f[k] => j = k
    OBVIOUS
  <2>3. \A l \in D \ {1} : l - 1 \in E /\ f[l - 1] = l
    BY <1>1
  <2>4. \A l \in D \ {1} : \E k \in E : f[k] = l
    BY <2>3
  <2> HIDE DEF f
  <2>5. f \in Bijection(E, D \ {1})
    BY <2>1, <2>2, <2>4 DEF Bijection, Injection, Surjection, IsInjective
  <2>5a. ExistsBijection(E, D \ {1})
    BY <2>5 DEF ExistsBijection
  <2>6. QED
    BY <1>3, <2>5a, FS_Bijection
<1>5. 1 \in D <=> Head(q) # Done
  BY <1>1
<1>6. CASE Head(q) = Done
  <2>1. D \ {1} = D
    BY <1>5, <1>6
  <2>2. QED
    BY <1>2, <1>4, <1>6, <2>1
<1>7. CASE Head(q) # Done
  <2>1. IsFiniteSet(D \ {1})
    BY <1>3, FS_RemoveElement
  <2>2. D = (D \ {1}) \cup {1} /\ 1 \notin D \ {1}
    BY <1>5, <1>7, Zenon
  <2>3. Cardinality((D \ {1}) \cup {1}) = Cardinality(D \ {1}) + 1
    BY <2>1, <2>2, FS_AddElement
  <2>4. QED
    BY <1>2, <1>4, <1>7, <2>2, <2>3
<1>8. QED
  BY <1>6, <1>7
-----------------------------------------------------------------------------
(* The answers that are still to come.                                     *)

\* Outstanding, as a function
Out == [s \in Slaves |-> Outstanding(s)]

\* How many tasks slave s may have been sent that it has not answered, counted
\* by the communication thread's loops
Ahead(s) ==
  IF pc["comm"] \in {"first", "deal"} THEN tkq + (IF s < i THEN 1 ELSE 0)
  ELSE IF pc["comm"] = "reply" /\ s = to THEN 2 ELSE 3

\* A task was sent for every answer that is waited for, and each took a pixel.
CountInv ==
  /\ tkq \in 0..3 /\ to \in 0..(CommSize - 1)
  /\ tkq = 3 => i = 1
  /\ ack \in [Slaves -> Nat]
  /\ not_recv_task \in Nat /\ not_recv_task <= ps_p
  /\ not_recv_task = Cardinality(Units(Out, Slaves)) + (IF pc["comm"] = "reply" THEN 1 ELSE 0)
  /\ \A s \in Slaves : Outstanding(s) <= Ahead(s)

LEMMA OutIs ==
  ASSUME TypeInv, ack \in [Slaves -> Nat]
  PROVE  /\ \A s \in Slaves : Outstanding(s) \in Nat
         /\ \A s \in Slaves : Outstanding(s) = Tasks(chan[s])
                                + (IF spc[s] = "compute" THEN 1 ELSE 0) + ack[s]
         /\ Out \in [Slaves -> Nat] /\ \A s \in Slaves : Out[s] = Outstanding(s)
<1>1. ASSUME NEW s \in Slaves PROVE Tasks(chan[s]) \in Nat /\ ack[s] \in Nat
  BY TasksType DEF TypeInv
<1>2. \A s \in Slaves : Outstanding(s) = Tasks(chan[s])
                          + (IF spc[s] = "compute" THEN 1 ELSE 0) + ack[s]
  BY DEF Outstanding, Tasks
<1>3. \A s \in Slaves : Outstanding(s) \in Nat
  BY <1>1, <1>2
<1>4. QED
  BY <1>2, <1>3 DEF Out

\* The same in the next state
LEMMA OutIsNext ==
  ASSUME TypeInv', (ack \in [Slaves -> Nat])'
  PROVE  /\ \A s \in Slaves : Outstanding(s)' \in Nat
         /\ \A s \in Slaves : Outstanding(s)' = Tasks(chan'[s])
                                + (IF spc'[s] = "compute" THEN 1 ELSE 0) + ack'[s]
         /\ Out' \in [Slaves -> Nat] /\ \A s \in Slaves : Out'[s] = Outstanding(s)'
<1>1. ASSUME NEW s \in Slaves PROVE Tasks(chan'[s]) \in Nat /\ ack'[s] \in Nat
  BY TasksType DEF TypeInv
<1>2. \A s \in Slaves : Outstanding(s)' = Tasks(chan'[s])
                          + (IF spc'[s] = "compute" THEN 1 ELSE 0) + ack'[s]
  BY DEF Outstanding, Tasks
<1>3. \A s \in Slaves : Outstanding(s)' \in Nat
  BY <1>1, <1>2
<1>4. QED
  BY <1>2, <1>3 DEF Out

LEMMA SlavesFinite == IsFiniteSet(Slaves)
BY Constants, FS_Interval

\* Nobody's number of answers changes ...
LEMMA OutKept ==
  ASSUME TypeInv, TypeInv', ack \in [Slaves -> Nat], (ack \in [Slaves -> Nat])',
         \A s \in Slaves : Outstanding(s)' = Outstanding(s)
  PROVE  Out' = Out
BY DEF Out

\* ... one slave's grows ...
LEMMA OutMore ==
  ASSUME TypeInv, TypeInv', ack \in [Slaves -> Nat], (ack \in [Slaves -> Nat])',
         NEW s \in Slaves, Outstanding(s)' = Outstanding(s) + 1,
         \A u \in Slaves \ {s} : Outstanding(u)' = Outstanding(u)
  PROVE  /\ Cardinality(Units(Out, Slaves)) \in Nat
         /\ Cardinality(Units(Out', Slaves)) = Cardinality(Units(Out, Slaves)) + 1
<1>1. /\ Out \in [Slaves -> Nat] /\ Out' \in [Slaves -> Nat]
      /\ Out'[s] = Out[s] + 1 /\ \A u \in Slaves \ {s} : Out'[u] = Out[u]
  BY OutIs, OutIsNext
<1>2. QED
  BY <1>1, SlavesFinite, UnitsMore, UnitsFinite

\* ... or falls.
LEMMA OutLess ==
  ASSUME TypeInv, TypeInv', ack \in [Slaves -> Nat], (ack \in [Slaves -> Nat])',
         NEW s \in Slaves, Outstanding(s)' = Outstanding(s) - 1,
         \A u \in Slaves \ {s} : Outstanding(u)' = Outstanding(u)
  PROVE  /\ Cardinality(Units(Out', Slaves)) \in Nat
         /\ Cardinality(Units(Out, Slaves)) = Cardinality(Units(Out', Slaves)) + 1
<1>1. /\ Out \in [Slaves -> Nat] /\ Out' \in [Slaves -> Nat]
      /\ Out[s] = Out'[s] + 1 /\ \A u \in Slaves \ {s} : Out[u] = Out'[u]
  BY OutIs, OutIsNext
<1>2. QED
  BY <1>1, SlavesFinite, UnitsMore, UnitsFinite

-----------------------------------------------------------------------------
(* The steps.                                                              *)

\* The steps that touch no message, no answer and no slave at work
LEMMA QuietStep ==
  ASSUME IInv, IInv', CountInv, UNCHANGED <<chan, ack, not_recv_task, tkq, i, to>>,
         \A s \in Slaves : spc'[s] = "compute" <=> spc[s] = "compute",
         ps_p <= ps_p',
         pc'["comm"] = "reply" <=> pc["comm"] = "reply",
         pc'["comm"] \in {"first", "deal"} => pc["comm"] \in {"first", "deal"},
         pc["comm"] \in {"first", "deal"} /\ pc'["comm"] \notin {"first", "deal"} => tkq = 3
  PROVE  CountInv'
<1>1. TypeInv /\ TypeInv' /\ ack \in [Slaves -> Nat] /\ (ack \in [Slaves -> Nat])'
  BY DEF IInv, CountInv
<1>2. \A s \in Slaves : Outstanding(s)' = Outstanding(s) /\ Outstanding(s) \in Nat
  BY <1>1, OutIs, OutIsNext
<1>3. Out' = Out
  BY <1>2 DEF Out
<1>4. ps_p \in Nat /\ ps_p' \in Nat
  BY <1>1, ChunkType DEF TypeInv
<1>5. \A s \in Slaves : Outstanding(s)' <= Ahead(s)'
  <2> SUFFICES ASSUME NEW s \in Slaves PROVE Outstanding(s)' <= Ahead(s)'
    OBVIOUS
  <2>1. Outstanding(s)' = Outstanding(s) /\ Outstanding(s) <= Ahead(s) /\ Outstanding(s) \in Nat
    BY <1>2 DEF CountInv
  <2>2. Ahead(s) = Ahead(s)' \/ (Ahead(s) = 3 + (IF s < 1 THEN 1 ELSE 0) /\ Ahead(s)' = 3)
    BY DEF Ahead, CountInv
  <2>3. ~(s < 1)
    BY Constants
  <2>4. QED
    BY <2>1, <2>2, <2>3
<1>6. QED
  BY <1>1, <1>3, <1>4, <1>5 DEF CountInv

\* assign_task never gives a chunk back.
LEMMA TakenGrows ==
  ASSUME IInv, NEW t \in Pair, AssignWrite(t)
  PROVE  ps_p <= ps_p'
<1>1. ps_size[t] = Assigned /\ ps_p' = ps_size[t].ps + ps_size[t].size
  BY DEF AssignWrite, IInv, AssignInv
<1>2. Assigned.ps = ps_p /\ Assigned.size \in Nat /\ ps_p \in Nat
  BY AssignedType, ChunkType DEF IInv, Chunky, TypeInv
<1>3. QED
  BY <1>1, <1>2

LEMMA CountFirstSend ==
  ASSUME IInv, IInv', CountInv, FirstSend
  PROVE  CountInv'
<1> PICK s : s = i
  OBVIOUS
<1>1. TypeInv /\ TypeInv' /\ ack \in [Slaves -> Nat] /\ (ack \in [Slaves -> Nat])'
  BY DEF IInv, CountInv, FirstSend
<1>2. s \in Slaves /\ s \in Int /\ tkq \in Int /\ s < CommSize /\ CommSize \in Nat
  BY <1>1, Constants DEF FirstSend, TypeInv, CountInv
<1>3. Assigned \in Chunky /\ Assigned.size \in Nat /\ ps_p \in Nat
  BY <1>1, AssignedType, ChunkType DEF Chunky, TypeInv
<1>4. Assigned.size > 0
  <2>1. ps_p < area /\ Chunk \in Nat /\ Chunk > 0 /\ area \in Nat
    BY <1>1, ChunkType DEF FirstSend
  <2>2. ps_p + Chunk >= area => Assigned.size = area - ps_p
    BY <1>3, <2>1 DEF Assigned
  <2>3. ps_p + Chunk < area => Assigned.size = Chunk
    BY <1>3, <2>1 DEF Assigned
  <2>4. QED
    BY <1>3, <2>1, <2>2, <2>3
<1>5. /\ chan'[s] = Append(chan[s], Working(Assigned)) /\ \A u \in Slaves \ {s} : chan'[u] = chan[u]
      /\ ack' = ack /\ spc' = spc
  BY <1>1, <1>2 DEF FirstSend, Send, slaveVars, TypeInv
<1>6. Tasks(chan'[s]) = Tasks(chan[s]) + 1 /\ Tasks(chan[s]) \in Nat
  <2>1. chan[s] \in Seq(Messages) /\ Working(Assigned) \in Messages /\ Working(Assigned) # Done
    BY <1>1, <1>2, <1>3, MessageTypes DEF TypeInv
  <2>2. Tasks(Append(chan[s], Working(Assigned))) = Tasks(chan[s]) + 1
    BY <2>1, TasksAppended
  <2>3. QED
    BY <1>5, <2>1, <2>2, TasksType
<1>7. /\ Outstanding(s)' = Outstanding(s) + 1
      /\ \A u \in Slaves \ {s} : Outstanding(u)' = Outstanding(u)
      /\ \A u \in Slaves : Outstanding(u) \in Nat
  <2>1. \A u \in Slaves : Outstanding(u) = Tasks(chan[u]) + (IF spc[u] = "compute" THEN 1 ELSE 0) + ack[u]
    BY <1>1, OutIs
  <2>2. \A u \in Slaves : Outstanding(u)' = Tasks(chan'[u]) + (IF spc'[u] = "compute" THEN 1 ELSE 0) + ack'[u]
    BY <1>1, OutIsNext
  <2>3. ack[s] \in Nat
    BY <1>1, <1>2
  <2>4. Outstanding(s)' = Outstanding(s) + 1
    <3>1. Outstanding(s) = Tasks(chan[s]) + (IF spc[s] = "compute" THEN 1 ELSE 0) + ack[s]
      BY <1>2, <2>1
    <3>2. Outstanding(s)' = Tasks(chan[s]) + 1 + (IF spc[s] = "compute" THEN 1 ELSE 0) + ack[s]
      BY <1>2, <1>5, <1>6, <2>2
    <3>3. QED
      BY <1>6, <2>3, <3>1, <3>2
  <2>5. \A u \in Slaves \ {s} : Outstanding(u)' = Outstanding(u)
    BY <1>5, <2>1, <2>2
  <2>6. QED
    BY <1>1, <2>4, <2>5, OutIs
<1>8. not_recv_task' = Cardinality(Units(Out', Slaves)) /\ not_recv_task' = not_recv_task + 1
  BY <1>1, <1>2, <1>7, OutMore DEF FirstSend, CountInv
<1>9. not_recv_task' <= ps_p' /\ not_recv_task' \in Nat
  BY <1>3, <1>4, <1>8 DEF FirstSend, CountInv
<1>10. \A u \in Slaves : Outstanding(u)' <= Ahead(u)'
  <2> SUFFICES ASSUME NEW u \in Slaves PROVE Outstanding(u)' <= Ahead(u)'
    OBVIOUS
  <2>1. Outstanding(u) <= Ahead(u) /\ u \in Int /\ Outstanding(u) \in Nat
    BY <1>7, Constants DEF CountInv
  <2>2. /\ Ahead(u) = tkq + (IF u < s THEN 1 ELSE 0)
        /\ Ahead(u)' = tkq + (IF u < s + 1 THEN 1 ELSE 0)
    BY DEF FirstSend, Ahead
  <2>3. CASE u = s
    BY <1>2, <1>7, <2>1, <2>2, <2>3
  <2>4. CASE u # s
    BY <1>2, <1>7, <2>1, <2>2, <2>4
  <2>5. QED
    BY <2>3, <2>4
<1>11. QED
  BY <1>1, <1>8, <1>9, <1>10 DEF CountInv, FirstSend

LEMMA CountFirstRound ==
  ASSUME IInv, IInv', CountInv, FirstRound
  PROVE  CountInv'
<1>1. TypeInv /\ TypeInv' /\ ack \in [Slaves -> Nat] /\ (ack \in [Slaves -> Nat])'
  BY DEF IInv, CountInv, FirstRound
<1>2. UNCHANGED <<chan, ack, not_recv_task, spc, pc, to, ps_p>> /\ tkq' = tkq + 1 /\ i' = 1 /\ tkq < 3
  BY DEF FirstRound, threadVars, slaveVars
<1>3. \A s \in Slaves : Outstanding(s)' = Outstanding(s) /\ Outstanding(s) \in Nat
  BY <1>1, <1>2, OutIs, OutIsNext
<1>4. Out' = Out
  BY <1>3 DEF Out
<1>5. \A s \in Slaves : Outstanding(s)' <= Ahead(s)'
  <2> SUFFICES ASSUME NEW s \in Slaves PROVE Outstanding(s)' <= Ahead(s)'
    OBVIOUS
  <2>1. Outstanding(s) <= Ahead(s) /\ Outstanding(s) \in Nat /\ s >= 1 /\ s \in Int
    BY <1>3, Constants DEF CountInv
  <2>2. Ahead(s) = tkq + (IF s < i THEN 1 ELSE 0) /\ Ahead(s)' = tkq + 1 + (IF s < 1 THEN 1 ELSE 0)
    BY <1>2 DEF FirstRound, Ahead
  <2>3. QED
    BY <1>3, <2>1, <2>2 DEF CountInv
<1>6. QED
  BY <1>1, <1>2, <1>4, <1>5 DEF CountInv

\* An answer is received, for the next task ...
LEMMA CountCommRecv ==
  ASSUME IInv, IInv', CountInv, CommRecv
  PROVE  CountInv'
<1> PICK s \in Slaves : ack[s] > 0 /\ ack' = [ack EXCEPT ![s] = @ - 1] /\ to' = s
  BY DEF CommRecv
<1>1. TypeInv /\ TypeInv' /\ ack \in [Slaves -> Nat] /\ (ack \in [Slaves -> Nat])'
  BY DEF IInv, CountInv
<1>2. /\ UNCHANGED <<chan, not_recv_task, spc, tkq, i, ps_p>>
      /\ pc["comm"] = "recv" /\ pc'["comm"] = "reply"
  BY <1>1 DEF CommRecv, slaveVars, Goto, TypeInv, Pair
<1>3. /\ Outstanding(s)' = Outstanding(s) - 1
      /\ \A u \in Slaves \ {s} : Outstanding(u)' = Outstanding(u)
      /\ \A u \in Slaves : Outstanding(u) \in Nat
  <2>1. \A u \in Slaves : Outstanding(u) = Tasks(chan[u]) + (IF spc[u] = "compute" THEN 1 ELSE 0) + ack[u]
    BY <1>1, OutIs
  <2>2. \A u \in Slaves : Outstanding(u)' = Tasks(chan[u]) + (IF spc[u] = "compute" THEN 1 ELSE 0) + ack'[u]
    BY <1>1, <1>2, OutIsNext
  <2>3. ack[s] \in Nat /\ ack'[s] = ack[s] - 1 /\ \A u \in Slaves \ {s} : ack'[u] = ack[u]
    BY <1>1
  <2>4. Tasks(chan[s]) \in Nat
    BY <1>1, TasksType DEF TypeInv
  <2>5. Outstanding(s)' = Outstanding(s) - 1
    BY <2>1, <2>2, <2>3, <2>4
  <2>6. \A u \in Slaves \ {s} : Outstanding(u)' = Outstanding(u)
    BY <2>1, <2>2, <2>3
  <2>7. QED
    BY <1>1, <2>5, <2>6, OutIs
<1>4. not_recv_task' = Cardinality(Units(Out', Slaves)) + 1
  BY <1>1, <1>2, <1>3, OutLess DEF CountInv
<1>5. \A u \in Slaves : Outstanding(u)' <= Ahead(u)'
  <2> SUFFICES ASSUME NEW u \in Slaves PROVE Outstanding(u)' <= Ahead(u)'
    OBVIOUS
  <2>1. Outstanding(u) <= 3 /\ Outstanding(u) \in Nat
    BY <1>2, <1>3 DEF CountInv, Ahead
  <2>2. Ahead(u)' = IF u = s THEN 2 ELSE 3
    BY <1>2 DEF Ahead
  <2>3. QED
    BY <1>3, <2>1, <2>2
<1>6. to' \in 0..(CommSize - 1)
  BY Constants
<1>7. QED
  BY <1>1, <1>2, <1>4, <1>5, <1>6 DEF CountInv

\* ... which is sent to the slave that answered.
LEMMA CountCommReply ==
  ASSUME IInv, IInv', CountInv, CommReply
  PROVE  CountInv'
<1> PICK s : s = to
  OBVIOUS
<1>1. /\ TypeInv /\ TypeInv' /\ ack \in [Slaves -> Nat] /\ (ack \in [Slaves -> Nat])'
      /\ s \in Slaves /\ ps_size["comm"] \in Chunky
  BY DEF IInv, CountInv, CommReply, TypeInv, Pair
<1>2. /\ UNCHANGED <<ack, not_recv_task, spc, tkq, i, to, ps_p>>
      /\ pc["comm"] = "reply" /\ pc'["comm"] = "lock"
  BY <1>1 DEF CommReply, slaveVars, commVars, Goto, TypeInv, Pair
<1>3. /\ chan'[s] = Append(chan[s], Working(ps_size["comm"]))
      /\ \A u \in Slaves \ {s} : chan'[u] = chan[u]
  BY <1>1 DEF CommReply, Send, TypeInv
<1>4. Tasks(chan'[s]) = Tasks(chan[s]) + 1 /\ Tasks(chan[s]) \in Nat
  <2> PICK m : m = Working(ps_size["comm"])
    OBVIOUS
  <2>1. chan[s] \in Seq(Messages) /\ m \in Messages /\ m # Done
    BY <1>1, MessageTypes DEF TypeInv
  <2>2. Tasks(Append(chan[s], m)) = Tasks(chan[s]) + 1
    BY <2>1, TasksAppended
  <2>3. QED
    BY <1>3, <2>1, <2>2, TasksType
<1>5. /\ Outstanding(s)' = Outstanding(s) + 1
      /\ \A u \in Slaves \ {s} : Outstanding(u)' = Outstanding(u)
      /\ \A u \in Slaves : Outstanding(u) \in Nat
  <2>1. \A u \in Slaves : Outstanding(u) = Tasks(chan[u]) + (IF spc[u] = "compute" THEN 1 ELSE 0) + ack[u]
    BY <1>1, OutIs
  <2>2. \A u \in Slaves : Outstanding(u)' = Tasks(chan'[u]) + (IF spc[u] = "compute" THEN 1 ELSE 0) + ack[u]
    BY <1>1, <1>2, OutIsNext
  <2>3. ack[s] \in Nat
    BY <1>1
  <2>4. Outstanding(s)' = Outstanding(s) + 1
    BY <1>1, <1>4, <2>1, <2>2, <2>3
  <2>5. \A u \in Slaves \ {s} : Outstanding(u)' = Outstanding(u)
    BY <1>3, <2>1, <2>2
  <2>6. QED
    BY <1>1, <2>4, <2>5, OutIs
<1>6. not_recv_task' = Cardinality(Units(Out', Slaves))
  BY <1>1, <1>2, <1>5, OutMore DEF CountInv
<1>7. \A u \in Slaves : Outstanding(u)' <= Ahead(u)'
  <2> SUFFICES ASSUME NEW u \in Slaves PROVE Outstanding(u)' <= Ahead(u)'
    OBVIOUS
  <2>1. Outstanding(u) <= (IF u = s THEN 2 ELSE 3) /\ Outstanding(u) \in Nat
    BY <1>2, <1>5 DEF CountInv, Ahead
  <2>2. Ahead(u)' = 3
    BY <1>2 DEF Ahead
  <2>3. QED
    BY <1>5, <2>1, <2>2
<1>8. QED
  BY <1>1, <1>2, <1>6, <1>7 DEF CountInv

LEMMA CountDrain ==
  ASSUME IInv, IInv', CountInv, Drain
  PROVE  CountInv'
<1> PICK s \in Slaves : ack[s] > 0 /\ ack' = [ack EXCEPT ![s] = @ - 1]
  BY DEF Drain
<1>1. TypeInv /\ TypeInv' /\ ack \in [Slaves -> Nat] /\ (ack \in [Slaves -> Nat])'
  BY DEF IInv, CountInv
<1>2. /\ UNCHANGED <<chan, pc, spc, tkq, i, to, ps_p>>
      /\ pc["comm"] = "drain" /\ not_recv_task' = not_recv_task - 1
  BY DEF Drain, slaveVars, threadVars
<1>3. /\ Outstanding(s)' = Outstanding(s) - 1
      /\ \A u \in Slaves \ {s} : Outstanding(u)' = Outstanding(u)
      /\ \A u \in Slaves : Outstanding(u) \in Nat
  <2>1. \A u \in Slaves : Outstanding(u) = Tasks(chan[u]) + (IF spc[u] = "compute" THEN 1 ELSE 0) + ack[u]
    BY <1>1, OutIs
  <2>2. \A u \in Slaves : Outstanding(u)' = Tasks(chan[u]) + (IF spc[u] = "compute" THEN 1 ELSE 0) + ack'[u]
    BY <1>1, <1>2, OutIsNext
  <2>3. ack[s] \in Nat /\ ack'[s] = ack[s] - 1 /\ \A u \in Slaves \ {s} : ack'[u] = ack[u]
    BY <1>1
  <2>4. Tasks(chan[s]) \in Nat
    BY <1>1, TasksType DEF TypeInv
  <2>5. Outstanding(s)' = Outstanding(s) - 1
    BY <2>1, <2>2, <2>3, <2>4
  <2>6. \A u \in Slaves \ {s} : Outstanding(u)' = Outstanding(u)
    BY <2>1, <2>2, <2>3
  <2>7. QED
    BY <1>1, <2>5, <2>6, OutIs
<1>4. not_recv_task' = Cardinality(Units(Out', Slaves)) /\ not_recv_task' \in Nat
  BY <1>1, <1>2, <1>3, OutLess DEF CountInv
<1>5. \A u \in Slaves : Outstanding(u)' <= Ahead(u)'
  <2> SUFFICES ASSUME NEW u \in Slaves PROVE Outstanding(u)' <= Ahead(u)'
    OBVIOUS
  <2>1. Outstanding(u) <= 3 /\ Outstanding(u) \in Nat
    BY <1>2, <1>3 DEF CountInv, Ahead
  <2>2. Ahead(u)' = 3
    BY <1>2 DEF Ahead
  <2>3. QED
    BY <1>3, <2>1, <2>2
<1>6. not_recv_task' <= ps_p'
  <2>1. ps_p \in Nat
    BY <1>1, ChunkType DEF TypeInv
  <2>2. QED
    BY <1>2, <2>1 DEF CountInv
<1>7. QED
  BY <1>1, <1>2, <1>4, <1>5, <1>6 DEF CountInv

LEMMA CountTerminate ==
  ASSUME IInv, IInv', CountInv, Terminate
  PROVE  CountInv'
<1>1. TypeInv /\ TypeInv' /\ ack \in [Slaves -> Nat] /\ (ack \in [Slaves -> Nat])'
  BY DEF IInv, CountInv, Terminate
<1>2. /\ UNCHANGED <<ack, not_recv_task, spc, tkq, i, to, ps_p>>
      /\ pc["comm"] = "drain" /\ pc'["comm"] = "exited"
  BY <1>1 DEF Terminate, slaveVars, commVars, Goto, TypeInv, Pair
<1>3. ASSUME NEW s \in Slaves
      PROVE  Outstanding(s)' = Outstanding(s) /\ Outstanding(s) \in Nat
  <2>1. Tasks(chan'[s]) = Tasks(chan[s])
    BY <1>1, MessageTypes, TasksAppended DEF Terminate, TypeInv
  <2>2. QED
    BY <1>1, <1>2, <2>1, OutIs, OutIsNext
<1>4. Out' = Out
  BY <1>3 DEF Out
<1>5. \A s \in Slaves : Outstanding(s)' <= Ahead(s)'
  BY <1>2, <1>3 DEF CountInv, Ahead
<1>6. QED
  BY <1>1, <1>2, <1>4, <1>5 DEF CountInv

\* A task is taken out of the messages, or an answer sent: the master's count
\* does not know the difference.
LEMMA CountSlave ==
  ASSUME IInv, IInv', CountInv, NEW s \in Slaves, Slave(s)
  PROVE  CountInv'
<1>1. TypeInv /\ TypeInv' /\ ack \in [Slaves -> Nat]
  BY DEF IInv, CountInv
<1>2. UNCHANGED <<not_recv_task, pc, tkq, i, to, ps_p>>
  BY DEF Slave, SlaveRecv, SlaveCompute, threadVars, commVars
<1>3. ack' \in [Slaves -> Nat]
  BY <1>1 DEF Slave, SlaveRecv, SlaveCompute
<1>4. \A u \in Slaves : Outstanding(u) = Tasks(chan[u]) + (IF spc[u] = "compute" THEN 1 ELSE 0) + ack[u]
  BY <1>1, OutIs
<1>5. \A u \in Slaves : Outstanding(u)' = Tasks(chan'[u]) + (IF spc'[u] = "compute" THEN 1 ELSE 0) + ack'[u]
  BY <1>1, <1>3, OutIsNext
<1>6. \A u \in Slaves \ {s} : chan'[u] = chan[u] /\ spc'[u] = spc[u] /\ ack'[u] = ack[u]
  BY <1>1 DEF Slave, SlaveRecv, SlaveCompute, TypeInv
<1>7. chan[s] \in Seq(Messages) /\ ack[s] \in Nat /\ Tasks(chan[s]) \in Nat /\ Tasks(chan'[s]) \in Nat
  BY <1>1, TasksType DEF TypeInv
<1>8. Outstanding(s)' = Outstanding(s)
  <2>1. CASE SlaveRecv(s)
    <3>1. /\ chan[s] # <<>> /\ chan'[s] = Tail(chan[s]) /\ ack'[s] = ack[s] /\ spc[s] = "recv"
          /\ Head(chan[s]) \in Messages
      BY <1>1, <1>7, <2>1, HeadTailProperties, LenProperties, EmptySeq DEF SlaveRecv, TypeInv
    <3>2. spc'[s] = "compute" <=> Head(chan[s]) # Done
      BY <1>1, <2>1, <3>1, MessageTypes DEF SlaveRecv, TypeInv, Done
    <3>3. Tasks(chan[s]) = Tasks(chan'[s]) + (IF spc'[s] = "compute" THEN 1 ELSE 0)
      <4>1. Tasks(chan[s]) = IF Head(chan[s]) = Done THEN Tasks(chan'[s]) ELSE Tasks(chan'[s]) + 1
        BY <1>7, <3>1, TasksTaken
      <4>2. QED
        BY <1>7, <3>2, <4>1
    <3>4. QED
      BY <1>4, <1>5, <1>7, <3>1, <3>3
  <2>2. CASE SlaveCompute(s)
    <3>1. chan' = chan /\ ack'[s] = ack[s] + 1 /\ spc[s] = "compute" /\ spc'[s] = "recv"
      BY <1>1, <2>2 DEF SlaveCompute, TypeInv
    <3>2. QED
      BY <1>4, <1>5, <1>7, <3>1
  <2>3. QED
    BY <2>1, <2>2 DEF Slave
<1>9. \A u \in Slaves : Outstanding(u)' = Outstanding(u)
  BY <1>4, <1>5, <1>6, <1>8
<1>10. Out' = Out
  BY <1>9 DEF Out
<1>11. \A u \in Slaves : Ahead(u)' = Ahead(u)
  BY <1>2 DEF Ahead
<1>12. QED
  BY <1>2, <1>3, <1>9, <1>10, <1>11 DEF CountInv

LEMMA CountInit == Init => CountInv
<1> SUFFICES ASSUME Init PROVE CountInv
  OBVIOUS
<1>1. TypeInv /\ ack \in [Slaves -> Nat] /\ \A s \in Slaves : ack[s] = 0
  BY InitPlaces DEF IInv, Init
<1>2. \A s \in Slaves : Outstanding(s) = 0
  <2>1. Tasks(<<>>) = 0
    <3>1. {k \in 1..Len(<<>>) : <<>>[k] # Done} = {}
      BY EmptySeq
    <3>2. QED
      BY <3>1, FS_EmptySet DEF Tasks
  <2>2. QED
    BY <1>1, <2>1, OutIs DEF Init
<1>3. Units(Out, Slaves) = {}
  <2>1. \A s \in Slaves : Out[s] = 0
    BY <1>1, <1>2, OutIs
  <2>2. QED
    BY <2>1 DEF Units
<1>4. \A s \in Slaves : ~(s < 1)
  BY Constants
<1>5. QED
  BY <1>1, <1>2, <1>3, <1>4, FS_EmptySet, Constants DEF Init, CountInv, Ahead

LEMMA CountNext == IInv /\ IInv' /\ CountInv /\ [Next]_vars => CountInv'
<1> SUFFICES ASSUME IInv, IInv', CountInv, [Next]_vars PROVE CountInv'
  OBVIOUS
<1>1. ps_p \in Nat /\ pc \in [Pair -> MainPlaces \cup CommPlaces]
  BY ChunkType DEF IInv, TypeInv
<1> USE DEF Goto, Pair
<1>2. ASSUME NEW t \in Pair, Lock(t) \/ AssignRead(t) PROVE CountInv'
  BY <1>1, <1>2, QuietStep DEF Lock, AssignRead, commVars, slaveVars
<1>3. ASSUME NEW t \in Pair, AssignWrite(t) PROVE CountInv'
  BY <1>1, <1>3, QuietStep, TakenGrows DEF AssignWrite, commVars, slaveVars
<1>4. Unlock("main", "compute", "join") => CountInv'
  BY <1>1, QuietStep DEF Unlock, commVars, slaveVars
<1>5. Unlock("comm", "recv", "drain") => CountInv'
  BY <1>1, QuietStep DEF Unlock, commVars, slaveVars
<1>6. MainCompute \/ MainJoin => CountInv'
  BY <1>1, QuietStep DEF MainCompute, MainJoin, commVars, slaveVars
<1>7. Reduce => CountInv'
  BY <1>1, QuietStep DEF Reduce, commVars
<1>8. FirstLock => CountInv'
  BY <1>1, QuietStep DEF FirstLock, commVars, slaveVars
<1>9. FirstUnlock => CountInv'
  BY <1>1, QuietStep DEF FirstUnlock, commVars, slaveVars
<1>10. UNCHANGED vars => CountInv'
  BY <1>1, QuietStep DEF vars, threadVars, commVars, slaveVars
<1>11. QED
  BY <1>2, <1>3, <1>4, <1>5, <1>6, <1>7, <1>8, <1>9, <1>10, CountFirstSend, CountFirstRound,
     CountCommRecv, CountCommReply, CountDrain, CountTerminate, CountSlave
     DEF Next, MainThread, CommThread, Finished

\* The sum of AnswersBalance counts the units of Out.
LEMMA SumOfAnswers ==
  ASSUME TypeInv, ack \in [Slaves -> Nat]
  PROVE  MapThenSumSet(Outstanding, Slaves) = Cardinality(Units(Out, Slaves))
<1> DEFINE pick == [A \in SUBSET Slaves |-> CHOOSE x \in A : TRUE]
           Total(g) == g = [A \in SUBSET Slaves |->
                              IF A = {} THEN 0 ELSE Outstanding(pick[A]) + g[A \ {pick[A]}]]
           count == [A \in SUBSET Slaves |-> Cardinality(Units(Out, A))]
<1>1. \A A \in SUBSET Slaves : A # {} => pick[A] \in A
  OBVIOUS
<1>2. Out \in [Slaves -> Nat] /\ \A s \in Slaves : Out[s] = Outstanding(s)
  BY OutIs
<1>3. MapThenSumSet(Outstanding, Slaves) = (CHOOSE g : Total(g))[Slaves]
  BY DEF MapThenSumSet, MapThenFoldSet
<1>4. Total(count)
  <2>1. count[{}] = 0
    <3>1. Units(Out, {}) = {}
      BY DEF Units
    <3>2. QED
      BY <3>1, FS_EmptySet
  <2> HIDE DEF pick
  <2>2. ASSUME NEW A \in SUBSET Slaves, A # {}
        PROVE  count[A] = Outstanding(pick[A]) + count[A \ {pick[A]}]
    <3> PICK x : x = pick[A]
      OBVIOUS
    <3>1. x \in A /\ A = (A \ {x}) \cup {x} /\ A \ {x} \in SUBSET Slaves /\ x \in Slaves \ (A \ {x})
      BY <1>1, <2>2
    <3>2. IsFiniteSet(Units(Out, A \ {x}))
      BY <1>2, <3>1, SlavesFinite, UnitsFinite
    <3>3. Cardinality(Units(Out, (A \ {x}) \cup {x})) = Out[x] + Cardinality(Units(Out, A \ {x}))
      BY <1>2, <3>1, <3>2, UnitsAdd
    <3>4. count[A] = Outstanding(x) + count[A \ {x}]
      BY <1>2, <3>1, <3>3
    <3>5. QED
      BY <3>4
  <2>3. \A A \in SUBSET Slaves :
          count[A] = IF A = {} THEN 0 ELSE Outstanding(pick[A]) + count[A \ {pick[A]}]
    BY <2>1, <2>2
  <2>4. QED
    BY <2>3
<1> HIDE DEF pick
<1>5. ASSUME NEW g, Total(g) PROVE g[Slaves] = Cardinality(Units(Out, Slaves))
  <2>1. \A A \in SUBSET Slaves :
          g[A] = IF A = {} THEN 0 ELSE Out[pick[A]] + g[A \ {pick[A]}]
    <3>1. ASSUME NEW A \in SUBSET Slaves
          PROVE  g[A] = IF A = {} THEN 0 ELSE Outstanding(pick[A]) + g[A \ {pick[A]}]
      BY <1>5
    <3>2. QED
      BY <1>1, <1>2, <3>1
  <2>2. QED
    BY <1>1, <1>2, <2>1, SlavesFinite, SumIsUnits
<1> HIDE DEF Total, count
<1>6. Total(CHOOSE g : Total(g))
  BY <1>4
<1>7. QED
  BY <1>3, <1>5, <1>6

\* The communication thread's count is the number of answers that will come, and
\* a slave is never more than three tasks ahead of it.
THEOREM AnswersAreCounted == Spec => []AnswersBalance
<1>1. ASSUME IInv, CountInv PROVE AnswersBalance
  <2>1. MapThenSumSet(Outstanding, Slaves) = Cardinality(Units(Out, Slaves))
    BY <1>1, SumOfAnswers DEF IInv, CountInv
  <2>2. Cardinality(Units(Out, Slaves)) \in Nat
    BY <1>1, SlavesFinite, UnitsFinite, OutIs DEF IInv, CountInv
  <2>3. Cardinality(Units(Out, Slaves)) = not_recv_task - (IF pc["comm"] = "reply" THEN 1 ELSE 0)
    BY <1>1, <2>2 DEF CountInv
  <2>4. \A s \in Slaves : Outstanding(s) <= 3
    <3> SUFFICES ASSUME NEW s \in Slaves PROVE Outstanding(s) <= 3
      OBVIOUS
    <3>1. Outstanding(s) \in Nat /\ Outstanding(s) <= Ahead(s) /\ s >= 1 /\ s \in Int
      BY <1>1, OutIs, Constants DEF IInv, CountInv
    <3>2. Ahead(s) <= 3 /\ Ahead(s) \in Int
      BY <1>1, <3>1 DEF CountInv, Ahead, IInv, TypeInv
    <3>3. QED
      BY <3>1, <3>2
  <2>5. QED
    BY <2>1, <2>3, <2>4 DEF AnswersBalance
<1>2. Init => IInv /\ CountInv
  BY InitPlaces, CountInit
<1>3. IInv /\ CountInv /\ [Next]_vars => (IInv /\ CountInv)'
  BY NextPlaces, CountNext
<1>4. QED
  BY <1>1, <1>2, <1>3, PTL DEF Spec
-----------------------------------------------------------------------------
(* What is handed around stays within the picture.                         *)

InPicture(q) == \A k \in 1..Len(q) : q[k] # Done => q[k].task \in Chunks

RangeInv ==
  /\ ps_size \in [Pair -> Chunks]
  /\ job \in [Slaves -> Chunks]
  /\ \A s \in Slaves : InPicture(chan[s])

LEMMA AssignedInPicture == TypeInv => Assigned \in Chunks
<1> SUFFICES ASSUME TypeInv PROVE Assigned \in Chunks
  OBVIOUS
<1> PICK a \in Nat, b \in Nat : a = ps_p /\ b = Assigned.size
  BY AssignedType, ChunkType DEF TypeInv, Chunky
<1>1. Assigned.ps = a /\ a + b \in 0..area /\ area \in Nat
  BY AssignedType, ChunkType
<1>2. a \in 0..area /\ b \in 0..area
  BY <1>1
<1>3. Assigned = [ps |-> a, size |-> b]
  BY <1>1, AssignedType DEF Chunky
<1>4. QED
  BY <1>2, <1>3 DEF Chunks

LEMMA InPictureAppended ==
  ASSUME NEW q \in Seq(Messages), InPicture(q), NEW m \in Messages, m # Done => m.task \in Chunks
  PROVE  InPicture(Append(q, m))
<1> PICK n \in Nat : n = Len(q)
  BY LenProperties
<1>1. /\ Len(Append(q, m)) = n + 1 /\ Append(q, m)[n + 1] = m
      /\ \A k \in 1..n : Append(q, m)[k] = q[k]
  BY AppendProperties
<1>2. \A k \in 1..(n + 1) : k \in 1..n \/ k = n + 1
  OBVIOUS
<1>3. QED
  BY <1>1, <1>2 DEF InPicture

LEMMA InPictureTaken ==
  ASSUME NEW q \in Seq(Messages), InPicture(q), q # <<>>
  PROVE  InPicture(Tail(q)) /\ (Head(q) # Done => Head(q).task \in Chunks)
<1> PICK n \in Nat : n = Len(q)
  BY LenProperties
<1>1. /\ n > 0 /\ Len(Tail(q)) = n - 1 /\ Head(q) = q[1]
      /\ \A k \in 1..(n - 1) : Tail(q)[k] = q[k + 1]
  BY HeadTailProperties, LenProperties, EmptySeq
<1>2. \A k \in 1..(n - 1) : k + 1 \in 1..n
  OBVIOUS
<1>3. QED
  BY <1>1, <1>2 DEF InPicture

LEMMA RangeNext == IInv /\ RangeInv /\ [Next]_vars => RangeInv'
<1> SUFFICES ASSUME IInv, RangeInv, [Next]_vars PROVE RangeInv'
  OBVIOUS
<1> USE DEF Send, slaveVars, threadVars
<1>1. TypeInv /\ Assigned \in Chunks /\ ps_size["comm"] \in Chunks
  BY AssignedInPicture DEF IInv, RangeInv, Pair
<1>2. Chunks' = Chunks
  <2>1. UNCHANGED <<width, height>>
    BY DEF Next, vars, MainThread, CommThread, Slave, Finished, Lock, AssignRead, AssignWrite,
       Unlock, MainCompute, MainJoin, Reduce, FirstLock, FirstSend, FirstRound, FirstUnlock,
       CommRecv, CommReply, Drain, Terminate, SlaveRecv, SlaveCompute
  <2>2. QED
    BY <2>1 DEF Chunks, area
<1>3. \A c \in Chunks : c \in Chunky
  BY <1>1, ChunkType DEF Chunks, Chunky
<1>4. ASSUME NEW t \in Pair, AssignRead(t) PROVE RangeInv'
  BY <1>1, <1>2, <1>4 DEF AssignRead, RangeInv, InPicture
<1>5. ASSUME NEW s \in Slaves, NEW c \in Chunks, Send(s, Working(c)), UNCHANGED <<ps_size, job>>
      PROVE  RangeInv'
  <2>1. Working(c) \in Messages /\ Working(c).task = c /\ chan[s] \in Seq(Messages) /\ InPicture(chan[s])
    BY <1>1, <1>3, MessageTypes DEF TypeInv, RangeInv
  <2> PICK m : m = Working(c)
    OBVIOUS
  <2>2. InPicture(Append(chan[s], m))
    BY <2>1, InPictureAppended
  <2>3. chan'[s] = Append(chan[s], m) /\ \A u \in Slaves \ {s} : chan'[u] = chan[u]
    BY <1>1, <1>5 DEF TypeInv
  <2>4. \A u \in Slaves : InPicture(chan'[u])
    BY <2>2, <2>3 DEF RangeInv
  <2>5. QED
    BY <1>2, <1>5, <2>4 DEF RangeInv, InPicture
<1>6. CASE FirstSend
  <2>1. i \in Slaves
    BY <1>1, <1>6, Constants DEF TypeInv, FirstSend
  <2>2. QED
    BY <1>1, <1>5, <1>6, <2>1 DEF FirstSend
<1>7. CASE CommReply
  <2>1. to \in Slaves
    BY <1>1, <1>7 DEF TypeInv, CommReply
  <2>2. QED
    BY <1>1, <1>5, <1>7, <2>1 DEF CommReply
<1>8. CASE Terminate
  <2>1. \A s \in Slaves : InPicture(Append(chan[s], Done))
    BY <1>1, MessageTypes, InPictureAppended DEF TypeInv, RangeInv
  <2>2. \A s \in Slaves : InPicture(chan'[s])
    BY <1>8, <2>1 DEF Terminate
  <2>3. QED
    BY <1>2, <1>8, <2>2 DEF Terminate, RangeInv, InPicture
<1>9. ASSUME NEW s \in Slaves, SlaveRecv(s) PROVE RangeInv'
  <2>1. /\ chan[s] \in Seq(Messages) /\ chan[s] # <<>> /\ InPicture(chan[s])
        /\ chan'[s] = Tail(chan[s]) /\ \A u \in Slaves \ {s} : chan'[u] = chan[u]
        /\ ps_size' = ps_size
    BY <1>1, <1>9 DEF SlaveRecv, TypeInv, RangeInv
  <2>2. InPicture(Tail(chan[s])) /\ (Head(chan[s]) # Done => Head(chan[s]).task \in Chunks)
    BY <2>1, InPictureTaken
  <2>3. Head(chan[s]) \in Messages
    BY <2>1, HeadTailProperties, LenProperties, EmptySeq
  <2>4. job' \in [Slaves -> Chunks]
    BY <1>9, <2>2, <2>3, MessageTypes DEF SlaveRecv, RangeInv
  <2>5. \A u \in Slaves : InPicture(chan'[u])
    BY <2>1, <2>2 DEF RangeInv
  <2>6. QED
    BY <1>2, <2>1, <2>4, <2>5 DEF RangeInv, InPicture
<1>10. CASE UNCHANGED <<chan, ps_size, job>>
  BY <1>2, <1>10 DEF RangeInv, InPicture
<1>11. QED
  BY <1>4, <1>6, <1>7, <1>8, <1>9, <1>10 DEF Next, vars, MainThread, CommThread, Slave, Finished,
     Pair, Lock, AssignWrite, Unlock, MainCompute, MainJoin, Reduce, FirstLock, FirstRound,
     FirstUnlock, CommRecv, Drain, SlaveCompute

LEMMA RangeInit == Init => RangeInv
<1> SUFFICES ASSUME Init PROVE RangeInv
  OBVIOUS
<1>1. area \in Nat
  BY InitPlaces, ChunkType DEF IInv
<1>2. None \in Chunks
  BY <1>1 DEF None, Chunks
<1>3. Len(<<>>) = 0
  BY EmptySeq
<1>4. QED
  BY <1>2, <1>3 DEF Init, RangeInv, InPicture, Pair

\* Chunks, messages and counters stay in range, and no process has computed a
\* pixel that is not in the picture.
THEOREM TypesAreCorrect == Spec => []TypeOK
<1>1. ASSUME IInv, CountInv, RangeInv PROVE TypeOK
  <2>1. TypeInv /\ CommSize \in Nat /\ area \in Nat /\ ps_p \in 0..area /\ ps_p \in Nat
    BY <1>1, Constants, ChunkType DEF IInv, TypeInv
  <2>2. not_recv_task \in 0..area
    BY <1>1, <2>1 DEF CountInv
  <2>3. ack \in [Slaves -> 0..area]
    <3>1. ASSUME NEW s \in Slaves PROVE ack[s] \in 0..area
      <4>1. Out[s] = Tasks(chan[s]) + (IF spc[s] = "compute" THEN 1 ELSE 0) + ack[s]
        BY <1>1, <2>1, OutIs DEF CountInv
      <4>2. Tasks(chan[s]) \in Nat /\ ack[s] \in Nat
        BY <1>1, <2>1, TasksType DEF TypeInv, CountInv
      <4>3. ack[s] <= Out[s] /\ Out[s] \in Nat
        BY <4>1, <4>2
      <4>4. Out[s] <= Cardinality(Units(Out, Slaves)) /\ Cardinality(Units(Out, Slaves)) \in Nat
        BY <1>1, <2>1, OutIs, SlavesFinite, UnitsAtLeast, UnitsFinite DEF CountInv
      <4>5. Cardinality(Units(Out, Slaves)) <= not_recv_task
        BY <1>1, <4>4 DEF CountInv
      <4>6. QED
        BY <2>1, <2>2, <4>2, <4>3, <4>4, <4>5
    <3>2. QED
      BY <1>1, <3>1 DEF CountInv
  <2>4. ASSUME NEW s \in Slaves, NEW k \in 1..Len(chan[s])
        PROVE  chan[s][k] = Done \/ chan[s][k] \in [tag : {"working"}, task : Chunks]
    <3>1. chan[s] \in Seq(Messages)
      BY <2>1 DEF TypeInv
    <3>2. chan[s][k] \in Messages
      BY <3>1
    <3>3. chan[s][k] # Done => chan[s][k].task \in Chunks
      BY <1>1 DEF RangeInv, InPicture
    <3>4. QED
      BY <3>2, <3>3 DEF Messages
  <2>5. raw_img \in [Procs -> SUBSET Pixels]
    <3>1. ASSUME NEW r \in Procs PROVE raw_img[r] \subseteq Pixels
      <4>1. raw_img[r] = Where[OfProc(r)] /\ OfProc(r) \in DOMAIN Where
        BY Index, WhereIs
      <4>2. raw_img[r] \subseteq 0..(ps_p - 1)
        BY <1>1, <4>1 DEF IInv, PlaceInv, All
      <4>3. QED
        BY <2>1, <4>2 DEF Pixels
    <3>2. QED
      BY <2>1, <3>1 DEF TypeInv
  <2>6. ps_size \in [{"main", "comm"} -> Chunks] /\ job \in [Slaves -> Chunks]
    BY <1>1 DEF RangeInv, Pair
  <2>7. tkq \in 0..3 /\ to \in 0..(CommSize - 1)
    BY <1>1 DEF CountInv
  <2>8. QED
    BY <2>1, <2>2, <2>3, <2>4, <2>5, <2>6, <2>7 DEF TypeOK, TypeInv, MainPlaces, CommPlaces
<1>2. Init => IInv /\ CountInv /\ RangeInv
  BY InitPlaces, CountInit, RangeInit
<1>3. IInv /\ CountInv /\ RangeInv /\ [Next]_vars => (IInv /\ CountInv /\ RangeInv)'
  BY NextPlaces, CountNext, RangeNext
<1>4. QED
  BY <1>1, <1>2, <1>3, PTL DEF Spec
=============================================================================
