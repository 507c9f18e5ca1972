------------------------- MODULE OddEvenSortProofs -------------------------
(***************************************************************************)
(* Theorems about OddEvenSort, for any number of processes, any file and   *)
(* any version: the processes leave the loop together, no more than two    *)
(* blocks wait between two neighbours, every block has its process's size, *)
(* the blocks are those of the lockstep algorithm, the output holds the    *)
(* numbers of the file, and in order where all blocks have the same size.  *)
(***************************************************************************)
EXTENDS OddEvenSort, Lemmas, SequenceTheorems

Left == {"write", "done"}                       \* out of the loop
Messages(q) == {q[j] : j \in DOMAIN q}
IsSeq(q) == q \in Seq(Messages(q))

TypeInv ==
  /\ version.reduces \in BOOLEAN
  /\ pc \in [Ranks -> {"read", "phase", "wait", "reduce"} \cup Left]
  /\ phase \in [Ranks -> 0..(LastPhase + 1)]
  /\ \A r \in Ranks : pc[r] \notin Left => phase[r] <= LastPhase
  /\ \A r \in Ranks : pc[r] = "reduce" => version.reduces

\* What is known of the reduction of phase p: who gave to it, and whether it
\* tells to go on.
Given(p) == DOMAIN is_change[p]
WentOn(p) == \E s \in Ranks : is_change[p][s]

\* A process has given to the reductions of the phases before its own, and is
\* in one when it waits for it.
GivenInv ==
  /\ is_change = [p \in 0..LastPhase |-> is_change[p]]
  /\ version.reduces => \A p \in 0..LastPhase, r \in Ranks :
       r \in Given(p) <=> phase[r] > p \/ (phase[r] = p /\ pc[r] = "reduce")

\* A process that is past a phase saw all processes in its reduction.  It went
\* on because one of them had a change, and left because none had one or the
\* phases were over.
ReductionInv ==
  \A r \in Ranks :
    /\ version.reduces => \A p \in 0..LastPhase : p < phase[r] =>
         /\ Given(p) = Ranks
         /\ pc[r] \notin Left \/ p + 1 # phase[r] => WentOn(p)
    /\ pc[r] \in Left =>
         \/ phase[r] = LastPhase + 1
         \/ version.reduces /\ phase[r] > 0 /\ ~WentOn(phase[r] - 1)

StopInv == TypeInv /\ GivenInv /\ ReductionInv

-----------------------------------------------------------------------------
(* How the loop ends.                                                      *)

LEMMA Sizes == CommSize \in Nat /\ CommSize > 0 /\ LastPhase = CommSize /\ Ranks = 0..(CommSize - 1)
BY CommAssumption DEF LastPhase, Ranks

\* A step of another process, or within a phase
LEMMA StopKept ==
  ASSUME StopInv, UNCHANGED <<version, phase, is_change>>,
         pc' \in [Ranks -> {"read", "phase", "wait", "reduce"} \cup Left],
         \A r \in Ranks : \/ pc'[r] = pc[r]
                          \/ pc[r] \in {"read", "phase"} /\ pc'[r] \in {"phase", "wait"}
                          \/ pc[r] \in Left /\ pc'[r] \in Left
  PROVE  StopInv'
<1>1. \A p : Given(p)' = Given(p) /\ WentOn(p)' = WentOn(p)
  BY DEF Given, WentOn
<1>2. TypeInv'
  BY DEF StopInv, TypeInv, Left
<1>3. GivenInv'
  BY <1>1 DEF StopInv, GivenInv, Left
<1>4. ReductionInv'
  BY <1>1 DEF StopInv, ReductionInv, Left
<1>5. QED
  BY <1>2, <1>3, <1>4 DEF StopInv

\* A process leaves the loop's body, or gives to the reduction of its phase.
LEMMA EndPhaseStep ==
  ASSUME StopInv, NEW r \in Ranks, pc[r] \in {"phase", "wait"}, NEW c, EndPhase(r, c),
         version' = version
  PROVE  StopInv'
<1> PICK p \in 0..LastPhase : p = phase[r]
  BY Sizes DEF StopInv, TypeInv, Left
<1>1. CASE version.reduces
  <2>1. /\ phase' = phase
        /\ pc' = [pc EXCEPT ![r] = "reduce"]
        /\ is_change' = [is_change EXCEPT ![p] =
             [s \in DOMAIN @ \cup {r} |-> IF s = r THEN c ELSE @[s]]]
    BY <1>1 DEF EndPhase
  <2>2. /\ is_change' = [q \in 0..LastPhase |-> is_change'[q]]
        /\ \A q \in 0..LastPhase \ {p} : is_change'[q] = is_change[q]
        /\ DOMAIN (is_change'[p]) = DOMAIN is_change[p] \cup {r}
    BY <2>1 DEF StopInv, GivenInv
  <2>3. /\ \A q \in 0..LastPhase \ {p} : Given(q)' = Given(q) /\ WentOn(q)' = WentOn(q)
        /\ Given(p)' = Given(p) \cup {r}
    BY <2>2 DEF Given, WentOn
  <2>4. r \notin Given(p)
    BY <1>1, Sizes DEF StopInv, GivenInv
  <2>5. \A s \in Ranks : phase[s] <= p
    BY <1>1, <2>4, Sizes DEF StopInv, ReductionInv, TypeInv
  <2>6. TypeInv'
    BY <1>1, <2>1 DEF StopInv, TypeInv, Left
  <2>7. GivenInv'
    BY <1>1, <2>1, <2>2, <2>3 DEF StopInv, GivenInv, TypeInv
  <2>8. ReductionInv'
    <3>1. ASSUME NEW s \in Ranks, NEW q \in 0..LastPhase, q < phase[s]
          PROVE  Given(q)' = Ranks /\ (pc'[s] \notin Left \/ q + 1 # phase[s] => WentOn(q)')
      <4>1. q # p
        BY <2>5, <3>1, Sizes DEF StopInv, TypeInv
      <4>2. pc'[s] \notin Left => pc[s] \notin Left
        BY <2>1 DEF StopInv, TypeInv, Left
      <4>3. QED
        BY <1>1, <2>3, <3>1, <4>1, <4>2 DEF StopInv, ReductionInv
    <3>2. ASSUME NEW s \in Ranks, pc'[s] \in Left, phase[s] # LastPhase + 1
          PROVE  phase[s] > 0 /\ \A q : q = phase[s] - 1 => ~WentOn(q)'
      <4>1. pc[s] \in Left
        BY <2>1, <3>2 DEF StopInv, TypeInv, Left
      <4>2. phase[s] > 0 /\ ~WentOn(phase[s] - 1)
        BY <3>2, <4>1 DEF StopInv, ReductionInv
      <4>3. phase[s] - 1 \in 0..LastPhase \ {p}
        BY <2>5, <4>2, Sizes DEF StopInv, TypeInv
      <4>4. QED
        BY <2>3, <4>2, <4>3
    <3>3. QED
      BY <1>1, <2>1, <3>1, <3>2 DEF ReductionInv
  <2>9. QED
    BY <2>6, <2>7, <2>8 DEF StopInv
<1>2. CASE ~version.reduces
  <2>1. /\ is_change' = is_change
        /\ phase' = [phase EXCEPT ![r] = p + 1]
        /\ pc' = [pc EXCEPT ![r] = IF p < LastPhase THEN "phase" ELSE "write"]
    BY <1>2 DEF EndPhase, NextPhase
  <2>2. TypeInv'
    BY <1>2, <2>1, Sizes DEF StopInv, TypeInv, Left
  <2>3. GivenInv'
    BY <1>2, <2>1 DEF StopInv, GivenInv
  <2>4. ReductionInv'
    BY <1>2, <2>1, Sizes DEF StopInv, ReductionInv, TypeInv, Left
  <2>5. QED
    BY <2>2, <2>3, <2>4 DEF StopInv
<1>3. QED
  BY <1>1, <1>2 DEF StopInv, TypeInv

\* MPI_Allreduce returns: all processes are in it or past it.
LEMMA AllreduceStep ==
  ASSUME StopInv, NEW r \in Ranks, Allreduce(r)
  PROVE  StopInv'
<1> PICK p \in 0..LastPhase : p = phase[r]
  BY Sizes DEF StopInv, TypeInv, Left, Allreduce
<1>1. /\ version' = version /\ is_change' = is_change /\ version.reduces
      /\ phase' = [phase EXCEPT ![r] = p + 1]
      /\ Given(p) = Ranks
      /\ \/ WentOn(p) /\ pc' = [pc EXCEPT ![r] = IF p < LastPhase THEN "phase" ELSE "write"]
         \/ ~WentOn(p) /\ pc' = [pc EXCEPT ![r] = "write"]
  BY DEF Allreduce, NextPhase, Given, WentOn, StopInv, TypeInv
<1>2. \A q : Given(q)' = Given(q) /\ WentOn(q)' = WentOn(q)
  BY <1>1 DEF Given, WentOn
<1>3. TypeInv'
  <2>1. pc' \in [Ranks -> {"read", "phase", "wait", "reduce"} \cup Left]
    BY <1>1 DEF StopInv, TypeInv, Left
  <2>2. phase' \in [Ranks -> 0..(LastPhase + 1)]
    BY <1>1, Sizes DEF StopInv, TypeInv
  <2>3. ASSUME NEW s \in Ranks
        PROVE  (pc'[s] \notin Left => phase'[s] <= LastPhase) /\ (pc'[s] = "reduce" => version.reduces)
    <3>1. CASE s = r
      <4>1. phase'[r] = p + 1 /\ pc'[r] \in {"phase", "write"} /\ (pc'[r] = "phase" => p < LastPhase)
        BY <1>1 DEF StopInv, TypeInv
      <4>2. QED
        BY <3>1, <4>1, Sizes DEF Left
    <3>2. CASE s # r
      BY <1>1, <3>2 DEF StopInv, TypeInv
    <3>3. QED
      BY <3>1, <3>2
  <2>4. QED
    BY <1>1, <2>1, <2>2, <2>3 DEF StopInv, TypeInv
<1>4. GivenInv'
  <2>1. pc[r] = "reduce"
    BY DEF Allreduce
  <2>2. QED
    BY <1>1, <1>2, <2>1, Sizes DEF StopInv, GivenInv, TypeInv
<1>5. ReductionInv'
  <2>1. ASSUME NEW s \in Ranks
        PROVE  /\ \A q \in 0..LastPhase : q < phase'[s] =>
                    /\ Given(q) = Ranks
                    /\ pc'[s] \notin Left \/ q + 1 # phase'[s] => WentOn(q)
               /\ pc'[s] \in Left =>
                    \/ phase'[s] = LastPhase + 1
                    \/ phase'[s] > 0 /\ ~WentOn(phase'[s] - 1)
    <3>1. CASE s = r
      <4>1. p = LastPhase \/ p < LastPhase
        BY Sizes
      <4>2. phase'[r] = p + 1
        BY <1>1 DEF StopInv, TypeInv
      <4>3. pc[r] \notin Left
        BY DEF Allreduce, Left
      <4>4. \/ WentOn(p) /\ (p < LastPhase \/ (pc'[r] \in Left /\ p = LastPhase))
            \/ ~WentOn(p) /\ pc'[r] \in Left
        BY <1>1, <4>1 DEF StopInv, TypeInv, Left
      <4>5. \A q \in 0..LastPhase : q < p + 1 => q = p \/ q < p
        BY Sizes
      <4>6. \A q \in 0..LastPhase : q < p => Given(q) = Ranks /\ WentOn(q)
        BY <1>1, <4>3 DEF StopInv, ReductionInv
      <4>7. p + 1 - 1 = p /\ p + 1 > 0
        BY Sizes
      <4>8. p < LastPhase /\ pc'[r] \in Left => ~WentOn(p)
        BY <1>1 DEF StopInv, TypeInv, Left
      <4>9. QED
        BY <1>1, <3>1, <4>1, <4>2, <4>4, <4>5, <4>6, <4>7, <4>8
    <3>2. CASE s # r
      BY <1>1, <3>2 DEF StopInv, ReductionInv, TypeInv
    <3>3. QED
      BY <3>1, <3>2
  <2>2. QED
    BY <1>1, <1>2, <2>1 DEF ReductionInv
<1>6. QED
  BY <1>3, <1>4, <1>5 DEF StopInv

LEMMA StopInit == Init => StopInv
<1> SUFFICES ASSUME Init PROVE StopInv
  OBVIOUS
<1>1. version.reduces \in BOOLEAN
  <2>1. version \in {hw1, no_stop, sota, stlmerge, timer, stlsort, spreadsort}
    BY InputAssumption DEF Init
  <2>2. /\ hw1.reduces = FALSE /\ no_stop.reduces = FALSE /\ sota.reduces = FALSE
        /\ stlmerge.reduces = FALSE /\ timer.reduces = FALSE /\ stlsort.reduces = TRUE
    BY DEF hw1, no_stop, sota, stlmerge, timer, stlsort
  <2>3. spreadsort.reduces \in BOOLEAN
    BY DEF spreadsort
  <2>4. QED
    BY <2>1, <2>2, <2>3
<1>2. TypeInv
  BY <1>1, Sizes DEF Init, TypeInv, Left
<1>3. GivenInv
  BY Sizes DEF Init, GivenInv, Given
<1>4. ReductionInv
  BY Sizes DEF Init, ReductionInv, Left
<1>5. QED
  BY <1>2, <1>3, <1>4 DEF StopInv

LEMMA StopNext == StopInv /\ [Next]_vars => StopInv'
<1> SUFFICES ASSUME StopInv, [Next]_vars PROVE StopInv'
  OBVIOUS
<1>1. ASSUME NEW r \in Ranks, Read(r) PROVE StopInv'
  BY <1>1, StopKept DEF Read, StopInv, TypeInv, Left
<1>2. ASSUME NEW r \in Ranks, Skip(r) PROVE StopInv'
  BY <1>2, EndPhaseStep DEF Skip
<1>3. ASSUME NEW r \in Ranks, Isend(r) PROVE StopInv'
  BY <1>3, StopKept DEF Isend, StopInv, TypeInv, Left
<1>4. ASSUME NEW r \in Ranks, Receive(r) PROVE StopInv'
  BY <1>4, EndPhaseStep DEF Receive
<1>5. ASSUME NEW r \in Ranks, Write(r) PROVE StopInv'
  BY <1>5, StopKept DEF Write, StopInv, TypeInv, Left
<1>6. CASE UNCHANGED vars
  BY <1>6, StopKept DEF vars, StopInv, TypeInv
<1>7. QED
  BY <1>1, <1>2, <1>3, <1>4, <1>5, <1>6, AllreduceStep DEF Next, Process, Finished

\* The reduction of the phase before told all of them the same.
LEMMA LeftTogether == StopInv => StopTogether
<1> SUFFICES ASSUME StopInv, NEW r \in Ranks, NEW s \in Ranks, pc[r] \in Left
             PROVE  phase[s] <= phase[r]
  BY DEF StopTogether, Left
<1>1. CASE phase[r] = LastPhase + 1
  BY <1>1, Sizes DEF StopInv, TypeInv
<1>2. CASE version.reduces /\ phase[r] > 0 /\ phase[r] <= LastPhase /\ ~WentOn(phase[r] - 1)
  <2> PICK p \in 0..LastPhase : p = phase[r] - 1
    BY <1>2, Sizes DEF StopInv, TypeInv
  <2>1. ~(p < phase[s] /\ p + 1 # phase[s])
    BY <1>2 DEF StopInv, ReductionInv
  <2>2. QED
    BY <2>1, Sizes DEF StopInv, TypeInv
<1>3. QED
  BY <1>1, <1>2, Sizes DEF StopInv, ReductionInv, TypeInv

\* Where one process left the loop no other goes on to exchange blocks with it:
\* what a reduction told one it told all.
THEOREM LoopLeftTogether == Spec => []StopTogether
  BY LeftTogether, StopInit, StopNext, PTL DEF Spec

-----------------------------------------------------------------------------
(* What is on its way.                                                     *)

Neighbours(s, t) == s = t + 1 \/ t = s + 1
Lo(s, t) == IF s < t THEN s ELSE t

\* In how many phases before phase q the pair with left rank l meets
Met(l, q) == (q + 1 - (l % 2)) \div 2

\* How many blocks s has sent to t, and how many it has received from t
Sent(s, t) == Met(Lo(s, t), phase[s] + (IF pc[s] \in {"wait", "reduce"} THEN 1 ELSE 0))
Received(s, t) == Met(Lo(s, t), phase[s] + (IF pc[s] = "reduce" THEN 1 ELSE 0))

WaitInv == \A r \in Ranks : pc[r] = "wait" => target_rank(r, phase[r]) # NoRank

FlightInv ==
  /\ DOMAIN chan = Ranks
  /\ \A s \in Ranks : DOMAIN chan[s] = Ranks
  /\ \A s, t \in Ranks : IsSeq(chan[s][t])
  /\ \A s, t \in Ranks : Neighbours(s, t) => Len(chan[s][t]) = Sent(s, t) - Received(t, s)
  /\ \A s, t \in Ranks : ~Neighbours(s, t) => Len(chan[s][t]) = 0

CountInv == StopInv /\ WaitInv /\ FlightInv

LEMMA Partner ==
  ASSUME NEW r \in Ranks, NEW p \in Nat
  PROVE  /\ target_rank(r, p) \in Ranks \cup {NoRank}
         /\ target_rank(r, p) # NoRank => Neighbours(r, target_rank(r, p))
         /\ \A t \in Ranks : Neighbours(r, t) => (target_rank(r, p) = t <=> p % 2 = Lo(r, t) % 2)
<1>1. r % 2 \in {0, 1} /\ p % 2 \in {0, 1} /\ (r + 1) % 2 = 1 - (r % 2) /\ (r - 1) % 2 = 1 - (r % 2)
  BY Sizes
<1>2. target_rank(r, p) \in Ranks \cup {NoRank}
  BY DEF target_rank
<1>3. NoRank \notin Ranks
  BY Sizes DEF NoRank
<1>4. CASE r % 2 = p % 2
  BY <1>1, <1>2, <1>3, <1>4, Sizes DEF target_rank, in_pair_id, Neighbours, Lo
<1>5. CASE r % 2 # p % 2
  BY <1>1, <1>2, <1>3, <1>5, Sizes DEF target_rank, in_pair_id, Neighbours, Lo
<1>6. QED
  BY <1>4, <1>5

LEMMA Meeting ==
  ASSUME NEW l \in Nat, NEW q \in Nat
  PROVE  Met(l, q + 1) = Met(l, q) + (IF q % 2 = l % 2 THEN 1 ELSE 0)
BY DEF Met

LEMMA MetType == \A l, q \in Nat : Met(l, q) \in Nat
BY DEF Met

LEMMA MetOnceMore ==
  ASSUME NEW l \in Nat, NEW q \in Nat
  PROVE  Met(l, q) <= Met(l, q + 1) /\ Met(l, q + 1) <= Met(l, q) + 1
BY DEF Met

LEMMA LoType == \A s, t \in Ranks : Lo(s, t) \in Nat /\ Lo(s, t) \in Ranks
BY Sizes DEF Lo

LEMMA CountTypes == TypeInv => \A s, t \in Ranks : Sent(s, t) \in Nat /\ Received(s, t) \in Nat
<1> SUFFICES ASSUME TypeInv, NEW s \in Ranks, NEW t \in Ranks
             PROVE  Sent(s, t) \in Nat /\ Received(s, t) \in Nat
  OBVIOUS
<1> PICK l \in Nat : l = Lo(s, t)
  BY LoType
<1> PICK p \in Nat : p = phase[s]
  BY Sizes DEF TypeInv
<1>1. Met(l, p) \in Nat
  BY MetType
<1>2. Met(l, p + 1) \in Nat
  <2>1. p + 1 \in Nat
    OBVIOUS
  <2>2. QED
    BY <2>1, MetType
<1>3. p + 0 = p
  OBVIOUS
<1>4. QED
  BY <1>1, <1>2, <1>3 DEF Sent, Received

\* A process meets its partner of the phase, and no other.
LEMMA MeetsPartner ==
  ASSUME NEW r \in Ranks, NEW p \in Nat, NEW t \in Ranks, Neighbours(r, t)
  PROVE  Met(Lo(r, t), p + 1) = Met(Lo(r, t), p) + (IF t = target_rank(r, p) THEN 1 ELSE 0)
<1> PICK l \in Nat : l = Lo(r, t)
  BY LoType
<1>1. Met(l, p + 1) = Met(l, p) + (IF p % 2 = l % 2 THEN 1 ELSE 0)
  BY Meeting
<1>2. t = target_rank(r, p) <=> p % 2 = l % 2
  BY Partner
<1>3. QED
  BY <1>1, <1>2

\* Sequences of anything
LEMMA Numbered ==
  ASSUME NEW m \in Nat, NEW f, f = [j \in 1..m |-> f[j]]
  PROVE  IsSeq(f) /\ Len(f) = m
<1>1. f \in [1..m -> Messages(f)]
  BY DEF Messages
<1>2. QED
  BY <1>1 DEF IsSeq

LEMMA SeqShape ==
  ASSUME NEW q, IsSeq(q)
  PROVE  Len(q) \in Nat /\ DOMAIN q = 1..Len(q)
BY DEF IsSeq

LEMMA Longer ==
  ASSUME NEW q, NEW m, IsSeq(q)
  PROVE  IsSeq(Append(q, m)) /\ Len(Append(q, m)) = Len(q) + 1
<1> PICK S : S = Messages(q) \cup {m}
  OBVIOUS
<1>1. q \in Seq(S)
  BY SeqMonotonic DEF IsSeq
<1>2. Append(q, m) \in Seq(S) /\ Len(Append(q, m)) = Len(q) + 1
  BY <1>1, AppendProperties
<1>3. Append(q, m) = [j \in 1..(Len(q) + 1) |-> Append(q, m)[j]]
  BY <1>2, LenProperties
<1>4. Len(q) + 1 \in Nat
  BY SeqShape
<1>5. QED
  BY <1>3, <1>4, Numbered

LEMMA Appended ==
  ASSUME NEW q, NEW m, IsSeq(q)
  PROVE  \A i \in DOMAIN Append(q, m) :
           \/ i \in DOMAIN q /\ Append(q, m)[i] = q[i]
           \/ i = Len(q) + 1 /\ Append(q, m)[i] = m
<1> PICK S : S = Messages(q) \cup {m}
  OBVIOUS
<1>1. q \in Seq(S)
  BY SeqMonotonic DEF IsSeq
<1>2. QED
  BY <1>1, AppendProperties

LEMMA Shorter ==
  ASSUME NEW q, IsSeq(q), NEW k \in DOMAIN q
  PROVE  IsSeq(RemoveAt(q, k)) /\ Len(RemoveAt(q, k)) = Len(q) - 1
<1> PICK S : S = Messages(q)
  OBVIOUS
<1> PICK m \in Nat : m = Len(q) /\ k \in 1..m /\ \A j \in 1..m : q[j] \in S
  BY SeqShape DEF Messages
<1>1. SubSeq(q, 1, k - 1) \in Seq(S) /\ Len(SubSeq(q, 1, k - 1)) = k - 1
  BY SubSeqProperties
<1>2. SubSeq(q, k + 1, m) \in Seq(S) /\ Len(SubSeq(q, k + 1, m)) = m - k
  BY SubSeqProperties
<1>3. RemoveAt(q, k) \in Seq(S) /\ Len(RemoveAt(q, k)) = m - 1
  BY <1>1, <1>2, ConcatProperties DEF RemoveAt
<1>4. RemoveAt(q, k) = [j \in 1..(m - 1) |-> RemoveAt(q, k)[j]]
  BY <1>3, LenProperties
<1>5. QED
  BY <1>3, <1>4, Numbered

\* What becomes of the buffers takes no message away.
LEMMA Freed ==
  ASSUME NEW r \in Ranks, NEW c, DOMAIN c = Ranks, \A s \in Ranks : DOMAIN c[s] = Ranks,
         \A s, t \in Ranks : IsSeq(c[s][t])
  PROVE  /\ DOMAIN FreeBuffer(r, c) = Ranks
         /\ \A s \in Ranks : DOMAIN FreeBuffer(r, c)[s] = Ranks
         /\ \A s, t \in Ranks : /\ IsSeq(FreeBuffer(r, c)[s][t])
                                /\ Len(FreeBuffer(r, c)[s][t]) = Len(c[s][t])
<1> PICK d : d = FreeBuffer(r, c)
  OBVIOUS
<1>1. /\ DOMAIN d = Ranks
      /\ \A s \in Ranks \ {r} : d[s] = c[s]
      /\ DOMAIN d[r] = Ranks
      /\ \A t \in Ranks : d[r][t] = [j \in DOMAIN c[r][t] |-> d[r][t][j]]
  BY DEF FreeBuffer
<1>2. \A t \in Ranks : IsSeq(d[r][t]) /\ Len(d[r][t]) = Len(c[r][t])
  BY <1>1, SeqShape, Numbered
<1>3. QED
  BY <1>1, <1>2

\* A step that leaves what is on its way, and every process's counts
LEMMA FlightKept ==
  ASSUME FlightInv,
         DOMAIN chan' = Ranks, \A s \in Ranks : DOMAIN chan'[s] = Ranks,
         \A s, t \in Ranks : IsSeq(chan'[s][t]) /\ Len(chan'[s][t]) = Len(chan[s][t]),
         \A s, t \in Ranks : Neighbours(s, t) => Sent(s, t)' = Sent(s, t) /\ Received(s, t)' = Received(s, t)
  PROVE  FlightInv'
BY DEF FlightInv, Neighbours

\* After the last step of a phase the counts go with the next one.
LEMMA EndPhaseCounts ==
  ASSUME TypeInv, NEW r \in Ranks, pc[r] \in {"phase", "wait"}, NEW c, EndPhase(r, c)
  PROVE  /\ \A s \in Ranks \ {r} : phase'[s] = phase[s] /\ pc'[s] = pc[s]
         /\ pc'[r] # "wait"
         /\ \A t \in Ranks : Neighbours(r, t) =>
              /\ Sent(r, t)' = Met(Lo(r, t), phase[r] + 1)
              /\ Received(r, t)' = Met(Lo(r, t), phase[r] + 1)
<1> PICK p \in Nat : p = phase[r]
  BY Sizes DEF TypeInv
<1>1. /\ \A s \in Ranks \ {r} : phase'[s] = phase[s] /\ pc'[s] = pc[s]
      /\ \/ phase'[r] = p /\ pc'[r] = "reduce"
         \/ phase'[r] = p + 1 /\ pc'[r] \in {"phase", "write"}
  BY DEF TypeInv, EndPhase, NextPhase
<1>2. QED
  BY <1>1 DEF Sent, Received, Lo

\* Receiving takes one message away.
LEMMA MessageRemoved ==
  ASSUME FlightInv, NEW r \in Ranks, NEW u \in Ranks, NEW k \in DOMAIN chan[u][r],
         \/ chan' = [chan EXCEPT ![u][r] = RemoveAt(@, k)]
         \/ chan' = FreeBuffer(r, [chan EXCEPT ![u][r] = RemoveAt(@, k)])
  PROVE  /\ DOMAIN chan' = Ranks
         /\ \A s \in Ranks : DOMAIN chan'[s] = Ranks
         /\ \A s, t \in Ranks : IsSeq(chan'[s][t])
         /\ Len(chan'[u][r]) = Len(chan[u][r]) - 1
         /\ \A s, t \in Ranks : s # u \/ t # r => Len(chan'[s][t]) = Len(chan[s][t])
<1>1. PICK rest : rest = [chan EXCEPT ![u][r] = RemoveAt(@, k)]
  OBVIOUS
<1>2. chan' = rest \/ chan' = FreeBuffer(r, rest)
  BY <1>1
<1>3. /\ DOMAIN rest = Ranks
      /\ \A s \in Ranks : DOMAIN rest[s] = Ranks
      /\ rest[u][r] = RemoveAt(chan[u][r], k)
      /\ \A s, t \in Ranks : s # u \/ t # r => rest[s][t] = chan[s][t]
  BY <1>1 DEF FlightInv
<1>4. /\ \A s, t \in Ranks : IsSeq(rest[s][t])
      /\ Len(rest[u][r]) = Len(chan[u][r]) - 1
  <2>1. IsSeq(chan[u][r])
    BY DEF FlightInv
  <2>2. IsSeq(rest[u][r]) /\ Len(rest[u][r]) = Len(chan[u][r]) - 1
    BY <1>3, <2>1, Shorter
  <2>3. QED
    BY <1>3, <2>2 DEF FlightInv
<1>5. /\ DOMAIN FreeBuffer(r, rest) = Ranks
      /\ \A s \in Ranks : DOMAIN FreeBuffer(r, rest)[s] = Ranks
      /\ \A s, t \in Ranks : /\ IsSeq(FreeBuffer(r, rest)[s][t])
                             /\ Len(FreeBuffer(r, rest)[s][t]) = Len(rest[s][t])
  BY <1>3, <1>4, Freed
<1>6. CASE chan' = rest
  BY <1>3, <1>4, <1>6
<1>7. CASE chan' = FreeBuffer(r, rest)
  BY <1>3, <1>4, <1>5, <1>7
<1>8. QED
  BY <1>2, <1>6, <1>7

\* A process without a partner meets none.
LEMMA SkipMeets ==
  ASSUME CountInv, NEW r \in Ranks, Skip(r)
  PROVE  /\ pc'[r] # "wait" /\ \A s \in Ranks \ {r} : pc'[s] = pc[s]
         /\ \A s, t \in Ranks : Neighbours(s, t) =>
              Sent(s, t)' = Sent(s, t) /\ Received(s, t)' = Received(s, t)
<1> PICK p \in Nat : p = phase[r] /\ pc[r] = "phase" /\ target_rank(r, p) = NoRank
  BY Sizes DEF CountInv, StopInv, TypeInv, Skip
<1>1. /\ \A s \in Ranks \ {r} : phase'[s] = phase[s] /\ pc'[s] = pc[s]
      /\ pc'[r] # "wait"
      /\ \A t \in Ranks : Neighbours(r, t) =>
           /\ Sent(r, t)' = Met(Lo(r, t), p + 1)
           /\ Received(r, t)' = Met(Lo(r, t), p + 1)
  BY EndPhaseCounts DEF CountInv, StopInv, Skip
<1>2. \A t \in Ranks : Neighbours(r, t) => Met(Lo(r, t), p + 1) = Met(Lo(r, t), p)
  <2>1. \A t \in Ranks : t # NoRank
    BY Sizes DEF NoRank
  <2>2. \A t \in Ranks : Met(Lo(r, t), p) \in Nat
    BY LoType, MetType
  <2>3. QED
    BY <2>1, <2>2, MeetsPartner
<1>3. \A t \in Ranks : Neighbours(r, t) =>
        Sent(r, t)' = Sent(r, t) /\ Received(r, t)' = Received(r, t)
  BY <1>1, <1>2 DEF Sent, Received
<1>4. \A s \in Ranks \ {r}, t \in Ranks : Sent(s, t)' = Sent(s, t) /\ Received(s, t)' = Received(s, t)
  BY <1>1 DEF Sent, Received, Lo
<1>5. QED
  BY <1>1, <1>3, <1>4

LEMMA SkipCounts ==
  ASSUME CountInv, NEW r \in Ranks, Skip(r)
  PROVE  WaitInv' /\ FlightInv'
<1>1. /\ pc'[r] # "wait" /\ \A s \in Ranks \ {r} : pc'[s] = pc[s]
      /\ \A s, t \in Ranks : Neighbours(s, t) =>
           Sent(s, t)' = Sent(s, t) /\ Received(s, t)' = Received(s, t)
  BY SkipMeets
<1>2. chan' = chan /\ \A s \in Ranks \ {r} : phase'[s] = phase[s]
  BY DEF Skip, EndPhase, NextPhase, CountInv, StopInv, TypeInv
<1>3. FlightInv'
  BY <1>1, <1>2, FlightKept DEF CountInv, FlightInv
<1>4. WaitInv'
  BY <1>1, <1>2 DEF CountInv, WaitInv
<1>5. QED
  BY <1>3, <1>4

LEMMA IsendCounts ==
  ASSUME CountInv, NEW r \in Ranks, Isend(r)
  PROVE  WaitInv' /\ FlightInv'
<1> PICK p \in Nat : p = phase[r] /\ pc[r] = "phase"
  BY Sizes DEF CountInv, StopInv, TypeInv, Isend
<1> PICK u \in Ranks : u = target_rank(r, p)
  BY Partner DEF Isend
<1>1. /\ phase' = phase /\ pc'[r] = "wait" /\ \A s \in Ranks \ {r} : pc'[s] = pc[s]
  BY DEF CountInv, StopInv, TypeInv, Isend
<1>2. /\ Neighbours(r, u)
      /\ \A t \in Ranks : Neighbours(r, t) => (t = u <=> p % 2 = Lo(r, t) % 2)
  BY Partner, Sizes DEF NoRank
<1> PICK m : chan' = [chan EXCEPT ![r][u] = Append(@, m)]
  BY DEF Isend
<1>3. /\ DOMAIN chan' = Ranks /\ \A s \in Ranks : DOMAIN chan'[s] = Ranks
      /\ chan'[r][u] = Append(chan[r][u], m)
      /\ \A s, t \in Ranks : (s # r \/ t # u) => chan'[s][t] = chan[s][t]
  BY DEF CountInv, FlightInv
<1>4. /\ \A s, t \in Ranks : IsSeq(chan'[s][t])
      /\ Len(chan'[r][u]) = Len(chan[r][u]) + 1
  BY <1>3, Longer DEF CountInv, FlightInv
<1>5. /\ \A t \in Ranks : Received(r, t)' = Received(r, t)
      /\ \A s \in Ranks \ {r}, t \in Ranks : Sent(s, t)' = Sent(s, t) /\ Received(s, t)' = Received(s, t)
  BY <1>1 DEF Sent, Received, Lo
<1>6. \A t \in Ranks : Neighbours(r, t) =>
        Sent(r, t)' = Sent(r, t) + (IF t = u THEN 1 ELSE 0)
  <2>1. \A t \in Ranks : Sent(r, t)' = Met(Lo(r, t), p + 1) /\ Sent(r, t) = Met(Lo(r, t), p)
    BY <1>1 DEF Sent, Lo
  <2>2. QED
    BY <2>1, MeetsPartner
<1>7. \A s, t \in Ranks : Neighbours(s, t) => Len(chan'[s][t]) = Sent(s, t)' - Received(t, s)'
  <2>1. ASSUME NEW s \in Ranks, NEW t \in Ranks, Neighbours(s, t)
        PROVE  Len(chan'[s][t]) = Sent(s, t)' - Received(t, s)'
    <3>1. Len(chan[s][t]) = Sent(s, t) - Received(t, s) /\ Received(t, s)' = Received(t, s)
      BY <1>5, <2>1 DEF CountInv, FlightInv
    <3>2. Sent(s, t) \in Int /\ Received(t, s) \in Int
      BY CountTypes DEF CountInv, StopInv
    <3>3. CASE s = r /\ t = u
      BY <1>4, <1>6, <2>1, <3>1, <3>2, <3>3
    <3>4. CASE s = r /\ t # u
      BY <1>3, <1>6, <2>1, <3>1, <3>2, <3>4
    <3>5. CASE s # r
      BY <1>3, <1>5, <3>1, <3>5
    <3>6. QED
      BY <3>3, <3>4, <3>5
  <2>2. QED
    BY <2>1
<1>8. \A s, t \in Ranks : ~Neighbours(s, t) => Len(chan'[s][t]) = 0
  BY <1>2, <1>3 DEF CountInv, FlightInv
<1>9. FlightInv'
  BY <1>3, <1>4, <1>7, <1>8 DEF FlightInv, Neighbours
<1>10. WaitInv'
  <2>1. target_rank(r, p) # NoRank
    BY Sizes DEF NoRank
  <2>2. QED
    BY <1>1, <2>1 DEF CountInv, WaitInv
<1>11. QED
  BY <1>9, <1>10

\* A process that received has met its partner once more, and no other.
LEMMA ReceiveMeets ==
  ASSUME CountInv, NEW r \in Ranks, Receive(r), NEW u \in Ranks, u = target_rank(r, phase[r])
  PROVE  /\ pc'[r] # "wait"
         /\ \A s \in Ranks \ {r} : phase'[s] = phase[s] /\ pc'[s] = pc[s]
         /\ \A s, t \in Ranks : Neighbours(s, t) =>
              /\ Sent(s, t)' = Sent(s, t)
              /\ Received(s, t)' = Received(s, t) + (IF s = r /\ t = u THEN 1 ELSE 0)
<1> PICK p \in Nat : p = phase[r] /\ pc[r] = "wait"
  BY Sizes DEF CountInv, StopInv, TypeInv, Receive
<1>1. /\ \A s \in Ranks \ {r} : phase'[s] = phase[s] /\ pc'[s] = pc[s]
      /\ pc'[r] # "wait"
      /\ \A t \in Ranks : Neighbours(r, t) =>
           /\ Sent(r, t)' = Met(Lo(r, t), p + 1)
           /\ Received(r, t)' = Met(Lo(r, t), p + 1)
  BY EndPhaseCounts DEF CountInv, StopInv, Receive
<1>2. \A s \in Ranks \ {r}, t \in Ranks : Sent(s, t)' = Sent(s, t) /\ Received(s, t)' = Received(s, t)
  BY <1>1 DEF Sent, Received, Lo
<1>3. \A t \in Ranks : Neighbours(r, t) =>
        /\ Sent(r, t)' = Sent(r, t)
        /\ Received(r, t)' = Received(r, t) + (IF t = u THEN 1 ELSE 0)
  <2>1. \A t \in Ranks : Sent(r, t) = Met(Lo(r, t), p + 1) /\ Received(r, t) = Met(Lo(r, t), p)
    BY DEF Sent, Received
  <2>2. \A t \in Ranks : Neighbours(r, t) =>
          Met(Lo(r, t), p + 1) = Met(Lo(r, t), p) + (IF t = u THEN 1 ELSE 0)
    BY MeetsPartner
  <2>3. QED
    BY <1>1, <2>1, <2>2
<1>4. \A s, t \in Ranks : Received(s, t) \in Nat
  BY CountTypes DEF CountInv, StopInv
<1>5. QED
  BY <1>1, <1>2, <1>3, <1>4

LEMMA ReceiveCounts ==
  ASSUME CountInv, NEW r \in Ranks, Receive(r)
  PROVE  WaitInv' /\ FlightInv'
<1> PICK p \in Nat : p = phase[r] /\ pc[r] = "wait"
  BY Sizes DEF CountInv, StopInv, TypeInv, Receive
<1> PICK u \in Ranks : u = target_rank(r, p)
  BY Partner DEF CountInv, WaitInv
<1>1. /\ Neighbours(r, u)
      /\ \A t \in Ranks : Neighbours(r, t) => (t = u <=> p % 2 = Lo(r, t) % 2)
  BY Partner, Sizes DEF NoRank
<1>2. PICK k \in DOMAIN chan[u][r] :
        \/ chan' = [chan EXCEPT ![u][r] = RemoveAt(@, k)]
        \/ chan' = FreeBuffer(r, [chan EXCEPT ![u][r] = RemoveAt(@, k)])
  BY DEF Receive
<1>3. /\ DOMAIN chan' = Ranks
      /\ \A s \in Ranks : DOMAIN chan'[s] = Ranks
      /\ \A s, t \in Ranks : IsSeq(chan'[s][t])
      /\ Len(chan'[u][r]) = Len(chan[u][r]) - 1
      /\ \A s, t \in Ranks : s # u \/ t # r => Len(chan'[s][t]) = Len(chan[s][t])
  BY <1>2, MessageRemoved DEF CountInv
<1>4. /\ pc'[r] # "wait" /\ \A s \in Ranks \ {r} : phase'[s] = phase[s] /\ pc'[s] = pc[s]
      /\ \A s, t \in Ranks : Neighbours(s, t) =>
           /\ Sent(s, t)' = Sent(s, t)
           /\ Received(s, t)' = Received(s, t) + (IF s = r /\ t = u THEN 1 ELSE 0)
  BY ReceiveMeets
<1>5. \A s, t \in Ranks : Neighbours(s, t) => Len(chan'[s][t]) = Sent(s, t)' - Received(t, s)'
  <2>1. ASSUME NEW s \in Ranks, NEW t \in Ranks, Neighbours(s, t)
        PROVE  Len(chan'[s][t]) = Sent(s, t)' - Received(t, s)'
    <3>1. Neighbours(t, s)
      BY <2>1 DEF Neighbours
    <3>2. Len(chan[s][t]) = Sent(s, t) - Received(t, s)
      BY <2>1 DEF CountInv, FlightInv
    <3>3. Sent(s, t) \in Int /\ Received(t, s) \in Int
      BY CountTypes DEF CountInv, StopInv
    <3>4. /\ Sent(s, t)' = Sent(s, t)
          /\ Received(t, s)' = Received(t, s) + (IF t = r /\ s = u THEN 1 ELSE 0)
      BY <1>4, <2>1, <3>1
    <3>5. QED
      BY <1>3, <3>2, <3>3, <3>4
  <2>2. QED
    BY <2>1
<1>6. \A s, t \in Ranks : ~Neighbours(s, t) => Len(chan'[s][t]) = 0
  <2>1. Neighbours(u, r)
    BY <1>1 DEF Neighbours
  <2>2. \A s, t \in Ranks : ~Neighbours(s, t) => s # u \/ t # r
    BY <2>1
  <2>3. QED
    BY <1>3, <2>2 DEF CountInv, FlightInv
<1>7. FlightInv'
  BY <1>3, <1>5, <1>6 DEF FlightInv
<1>8. WaitInv'
  BY <1>4 DEF CountInv, WaitInv
<1>9. QED
  BY <1>7, <1>8

LEMMA AllreduceCounts ==
  ASSUME CountInv, NEW r \in Ranks, Allreduce(r)
  PROVE  WaitInv' /\ FlightInv'
<1> PICK p \in Nat : p = phase[r] /\ pc[r] = "reduce"
  BY Sizes DEF CountInv, StopInv, TypeInv, Allreduce
<1>1. /\ phase'[r] = p + 1 /\ pc'[r] \in {"phase", "write"}
      /\ \A s \in Ranks \ {r} : phase'[s] = phase[s] /\ pc'[s] = pc[s]
  BY DEF CountInv, StopInv, TypeInv, Allreduce, NextPhase
<1>2. \A s, t \in Ranks : Sent(s, t)' = Sent(s, t) /\ Received(s, t)' = Received(s, t)
  BY <1>1 DEF Sent, Received, Lo
<1>3. chan' = FreeBuffer(r, chan)
  BY DEF Allreduce
<1>4. FlightInv'
  <2>1. /\ DOMAIN chan' = Ranks /\ \A s \in Ranks : DOMAIN chan'[s] = Ranks
        /\ \A s, t \in Ranks : IsSeq(chan'[s][t]) /\ Len(chan'[s][t]) = Len(chan[s][t])
    BY <1>3, Freed DEF CountInv, FlightInv
  <2>2. QED
    BY <1>2, <2>1, FlightKept DEF CountInv
<1>5. WaitInv'
  BY <1>1 DEF CountInv, WaitInv
<1>6. QED
  BY <1>4, <1>5

\* Steps that are not of a phase
LEMMA OtherCounts ==
  ASSUME CountInv, UNCHANGED <<phase, chan>>,
         \A s \in Ranks : \/ pc'[s] = pc[s]
                          \/ pc[s] \notin {"wait", "reduce"} /\ pc'[s] \notin {"wait", "reduce"}
  PROVE  WaitInv' /\ FlightInv'
<1>1. \A s, t \in Ranks : Sent(s, t)' = Sent(s, t) /\ Received(s, t)' = Received(s, t)
  BY DEF Sent, Received, Lo
<1>2. QED
  BY <1>1, FlightKept DEF CountInv, WaitInv, FlightInv

LEMMA CountInit == Init => CountInv
<1> SUFFICES ASSUME Init PROVE CountInv
  OBVIOUS
<1>1. \A s, t \in Ranks : chan[s][t] = <<>>
  BY DEF Init
<1>2. IsSeq(<<>>) /\ Len(<<>>) = 0
  BY EmptySeq DEF IsSeq
<1>3. \A s, t \in Ranks : Sent(s, t) = 0 /\ Received(s, t) = 0
  <2>1. \A l \in Nat : (0 + 1 - (l % 2)) \div 2 = 0
    OBVIOUS
  <2>2. \A s, t \in Ranks : Lo(s, t) \in Nat
    BY Sizes DEF Lo
  <2>3. QED
    BY <2>1, <2>2 DEF Init, Sent, Received, Met
<1>4. FlightInv
  BY <1>1, <1>2, <1>3 DEF Init, FlightInv
<1>5. WaitInv
  BY DEF Init, WaitInv
<1>6. QED
  BY <1>4, <1>5, StopInit DEF CountInv

LEMMA CountNext == CountInv /\ [Next]_vars => CountInv'
<1> SUFFICES ASSUME CountInv, [Next]_vars PROVE CountInv'
  OBVIOUS
<1>1. StopInv'
  BY StopNext DEF CountInv
<1>2. ASSUME NEW r \in Ranks, Read(r) PROVE WaitInv' /\ FlightInv'
  BY <1>2, OtherCounts DEF Read, CountInv, StopInv, TypeInv
<1>3. ASSUME NEW r \in Ranks, Write(r) PROVE WaitInv' /\ FlightInv'
  BY <1>3, OtherCounts DEF Write, CountInv, StopInv, TypeInv
<1>4. CASE UNCHANGED vars
  <2>1. UNCHANGED <<phase, chan>> /\ \A s \in Ranks : pc'[s] = pc[s]
    BY <1>4 DEF vars
  <2>2. WaitInv' /\ FlightInv'
    BY <2>1, OtherCounts
  <2>3. QED
    BY <1>1, <2>2 DEF CountInv
<1>5. ASSUME NEW r \in Ranks, Process(r) PROVE WaitInv' /\ FlightInv'
  BY <1>2, <1>3, <1>5, SkipCounts, IsendCounts, ReceiveCounts, AllreduceCounts DEF Process
<1>6. (\E r \in Ranks : Process(r)) \/ UNCHANGED vars
  BY DEF Next, Finished
<1>7. QED
  BY <1>1, <1>4, <1>5, <1>6 DEF CountInv

\* Neither neighbour gets further ahead of the other than one phase they meet
\* in: it has sent its second block before the other received the first, and
\* waits for an answer to it.
THEOREM NeighboursClose == Spec => []AtMostTwoInFlight
<1>1. CountInv => AtMostTwoInFlight
  <2> SUFFICES ASSUME CountInv, NEW s \in Ranks, NEW t \in Ranks PROVE Len(chan[s][t]) <= 2
    BY DEF AtMostTwoInFlight
  <2>1. CASE Neighbours(s, t)
    <3> PICK l \in Nat : l = Lo(s, t) /\ l = Lo(t, s)
      BY <2>1, Sizes DEF Neighbours, Lo
    <3> PICK p \in Nat, q \in Nat : p = phase[s] /\ q = phase[t]
      BY Sizes DEF CountInv, StopInv, TypeInv
    <3>1. /\ Met(l, p) <= Met(l, p + 1) /\ Met(l, p + 1) <= Met(l, p) + 1
          /\ Met(l, q) <= Met(l, q + 1) /\ Met(l, q + 1) <= Met(l, q) + 1
      BY MetOnceMore
    <3> p + 0 = p /\ q + 0 = q
      OBVIOUS
    <3>2. /\ Sent(s, t) \in Nat /\ Received(s, t) \in Nat /\ Sent(s, t) <= Received(s, t) + 1
          /\ Sent(t, s) \in Nat /\ Received(t, s) \in Nat /\ Sent(t, s) <= Received(t, s) + 1
      <4>1. Met(l, p) \in Nat
        BY MetType
      <4>2. Met(l, q) \in Nat
        BY MetType
      <4>3. Sent(s, t) \in Nat /\ Received(s, t) \in Nat /\ Sent(t, s) \in Nat /\ Received(t, s) \in Nat
        BY CountTypes DEF CountInv, StopInv
      <4>4. Sent(s, t) <= Received(s, t) + 1
        BY <3>1, <4>1, <4>3 DEF Sent, Received
      <4>5. Sent(t, s) <= Received(t, s) + 1
        BY <3>1, <4>2, <4>3 DEF Sent, Received
      <4>6. QED
        BY <4>3, <4>4, <4>5
    <3>3. /\ Len(chan[s][t]) = Sent(s, t) - Received(t, s)
          /\ Len(chan[t][s]) = Sent(t, s) - Received(s, t) /\ Len(chan[t][s]) \in Nat
      BY <2>1, SeqShape DEF CountInv, FlightInv, Neighbours
    <3>4. QED
      BY <3>2, <3>3
  <2>2. CASE ~Neighbours(s, t)
    BY <2>2 DEF CountInv, FlightInv
  <2>3. QED
    BY <2>1, <2>2
<1>2. QED
  BY <1>1, CountInit, CountNext, PTL DEF Spec
-----------------------------------------------------------------------------
(* merge_realc.                                                            *)

\* The body of the recursive function in Lower, and in Upper
LowerBody(f, mine, theirs, p) ==
  IF p[1] + p[2] >= Len(mine) THEN <<>>
  ELSE IF p[2] = Len(theirs) \/ Geq(theirs[p[2] + 1], mine[p[1] + 1])
       THEN <<mine[p[1] + 1]>> \o f[<<p[1] + 1, p[2]>>]
       ELSE <<theirs[p[2] + 1]>> \o f[<<p[1], p[2] + 1>>]

UpperBody(f, mine, theirs, p) ==
  IF (Len(mine) - p[1]) + (Len(theirs) - p[2]) >= Len(mine) THEN <<>>
  ELSE IF p[2] = 0 \/ Geq(mine[p[1]], theirs[p[2]])
       THEN Append(f[<<p[1] - 1, p[2]>>], mine[p[1]])
       ELSE Append(f[<<p[1], p[2] - 1>>], theirs[p[2]])

Places(mine, theirs) == (0..Len(mine)) \X (0..Len(theirs))

IsLower(f, mine, theirs) ==
  \A p \in Places(mine, theirs) : f[p] = LowerBody(f, mine, theirs, p)
IsUpper(f, mine, theirs) ==
  \A p \in Places(mine, theirs) : f[p] = UpperBody(f, mine, theirs, p)

LEMMA LowerIs ==
  ASSUME NEW S, NEW mine \in Seq(S), NEW theirs \in Seq(S)
  PROVE  \E f : IsLower(f, mine, theirs) /\ Lower(mine, theirs) = f[<<0, 0>>]
<1> PICK L \in Nat, M \in Nat : L = Len(mine) /\ M = Len(theirs)
  OBVIOUS
<1> DEFINE D == (0..L) \X (0..M)
           V == Seq(S)
           rank == [p \in D |-> L + M - p[1] - p[2]]
           F == [f \in [D -> V] |-> [p \in D |-> LowerBody(f, mine, theirs, p)]]
<1>1. \A p \in D : /\ p[1] \in 0..L /\ p[2] \in 0..M /\ rank[p] \in Nat
                   /\ rank[p] = L + M - p[1] - p[2] /\ p = <<p[1], p[2]>>
  OBVIOUS
<1>2. /\ \A b \in 0..(L - 1) : mine[b + 1] \in S
      /\ \A t \in 0..(M - 1) : theirs[t + 1] \in S
  OBVIOUS
<1>3. ASSUME NEW p \in D, p[1] + p[2] < L
      PROVE  /\ p[1] \in 0..(L - 1) /\ <<p[1] + 1, p[2]>> \in D
             /\ rank[<<p[1] + 1, p[2]>>] < rank[p]
             /\ p[2] # M => /\ p[2] \in 0..(M - 1) /\ <<p[1], p[2] + 1>> \in D
                            /\ rank[<<p[1], p[2] + 1>>] < rank[p]
  <2> PICK b, t : b = p[1] /\ t = p[2]
    OBVIOUS
  <2>1. b \in 0..L /\ t \in 0..M /\ b + t < L /\ rank[p] = L + M - b - t
    BY <1>1, <1>3
  <2>2. b \in 0..(L - 1) /\ b + 1 \in 0..L /\ (t # M => t \in 0..(M - 1) /\ t + 1 \in 0..M)
    BY ONLY <2>1, L \in Nat, M \in Nat
  <2>3. <<b + 1, t>> \in D /\ (t # M => <<b, t + 1>> \in D)
    BY <2>1, <2>2
  <2>4. rank[<<b + 1, t>>] = L + M - (b + 1) - t /\ (t # M => rank[<<b, t + 1>>] = L + M - b - (t + 1))
    BY <2>3
  <2>5. rank[<<b + 1, t>>] < rank[p] /\ (t # M => rank[<<b, t + 1>>] < rank[p])
    <3> HIDE DEF rank, D
    <3>1. L + M - (b + 1) - t < L + M - b - t
      BY ONLY <2>1, L \in Nat, M \in Nat
    <3>2. t # M => L + M - b - (t + 1) < L + M - b - t
      BY ONLY <2>1, L \in Nat, M \in Nat
    <3>3. QED
      BY ONLY <2>1, <2>4, <3>1, <3>2, Zenon
  <2> HIDE DEF rank, D
  <2>6. QED
    BY <2>2, <2>3, <2>5
<1>4. ASSUME NEW f \in [D -> V], NEW p \in D PROVE LowerBody(f, mine, theirs, p) \in V
  <2>1. CASE p[1] + p[2] >= L
    BY <2>1 DEF LowerBody
  <2>2. CASE p[1] + p[2] < L
    <3> HIDE DEF rank
    <3>1. /\ mine[p[1] + 1] \in S /\ f[<<p[1] + 1, p[2]>>] \in Seq(S)
          /\ p[2] # M => theirs[p[2] + 1] \in S /\ f[<<p[1], p[2] + 1>>] \in Seq(S)
      BY <1>2, <1>3, <2>2
    <3>2. <<mine[p[1] + 1]>> \o f[<<p[1] + 1, p[2]>>] \in Seq(S)
      BY <3>1
    <3>3. p[2] # M => <<theirs[p[2] + 1]>> \o f[<<p[1], p[2] + 1>>] \in Seq(S)
      BY <3>1
    <3>4. p[1] \in Nat /\ p[2] \in Nat /\ ~(p[1] + p[2] >= Len(mine))
      BY <1>1, <2>2
    <3>5. CASE p[2] = M
      BY <3>2, <3>4, <3>5, Zenon DEF LowerBody
    <3>6. CASE p[2] # M
      BY <3>2, <3>3, <3>4, <3>6, Zenon DEF LowerBody
    <3>7. QED
      BY <3>5, <3>6
  <2>3. QED
    BY <1>1, <2>1, <2>2
<1>5. ASSUME NEW f \in [D -> V], NEW h \in [D -> V], NEW p \in D,
             \A e \in D : rank[e] < rank[p] => f[e] = h[e]
      PROVE  LowerBody(f, mine, theirs, p) = LowerBody(h, mine, theirs, p)
  <2>1. CASE p[1] + p[2] >= L
    BY <2>1 DEF LowerBody
  <2>2. CASE p[1] + p[2] < L
    <3> HIDE DEF rank, D
    <3>1. f[<<p[1] + 1, p[2]>>] = h[<<p[1] + 1, p[2]>>]
      BY <1>3, <1>5, <2>2
    <3>2. p[2] # M => f[<<p[1], p[2] + 1>>] = h[<<p[1], p[2] + 1>>]
      BY <1>3, <1>5, <2>2
    <3>3. QED
      BY <3>1, <3>2, Zenon DEF LowerBody
  <2>3. QED
    BY <1>1, <2>1, <2>2
<1>6. IsRecursion(F, D, V, rank)
  <2>1. V # {} /\ rank \in [D -> Nat]
    <3>1. <<>> \in V
      OBVIOUS
    <3>2. QED
      BY <1>1, <3>1
  <2>2. F \in [[D -> V] -> [D -> V]]
    <3> HIDE DEF D, V
    <3>1. QED
      BY <1>4
  <2>3. \A f, h \in [D -> V] : \A p \in D :
          (\A e \in D : rank[e] < rank[p] => f[e] = h[e]) => F[f][p] = F[h][p]
    <3> HIDE DEF D, V, rank
    <3>1. QED
      BY <1>5
  <2> HIDE DEF D, V, rank, F
  <2>4. QED
    BY <2>1, <2>2, <2>3 DEF IsRecursion
<1>7. PICK g \in [D -> V] : g = [p \in D |-> LowerBody(g, mine, theirs, p)]
  <2>1. HasSolution(F, D, V)
    <3> HIDE DEF D, V, rank, F
    <3>1. QED
      BY <1>6, RecursionByRank
  <2>2. PICK g \in [D -> V] : g = F[g]
    BY <2>1, Zenon DEF HasSolution
  <2>3. QED
    <3> HIDE DEF D, V
    <3>1. QED
      BY <2>2
<1> DEFINE isFix(f) == f = [p \in (0..Len(mine)) \X (0..Len(theirs)) |->
             IF p[1] + p[2] >= Len(mine) THEN <<>>
             ELSE IF p[2] = Len(theirs) \/ Geq(theirs[p[2] + 1], mine[p[1] + 1])
                  THEN <<mine[p[1] + 1]>> \o f[<<p[1] + 1, p[2]>>]
                  ELSE <<theirs[p[2] + 1]>> \o f[<<p[1], p[2] + 1>>]]
           c == CHOOSE f : isFix(f)
<1>8. Lower(mine, theirs) = c[<<0, 0>>]
  BY Zenon DEF Lower
<1>9. isFix(g)
  BY <1>7, Zenon DEF LowerBody
<1>10. isFix(c)
  <2> HIDE DEF isFix
  <2>1. QED
    BY <1>9, Zenon
<1>11. IsLower(c, mine, theirs)
  <2> HIDE DEF c
  <2>1. QED
    BY <1>10, Zenon DEF IsLower, LowerBody, Places
<1>12. QED
  BY <1>8, <1>11, Zenon

\* As many numbers as mine, out of both blocks
LEMMA LowerTypes ==
  ASSUME NEW S, NEW mine \in Seq(S), NEW theirs \in Seq(S)
  PROVE  Lower(mine, theirs) \in Seq(S) /\ Len(Lower(mine, theirs)) = Len(mine)
<1> PICK L \in Nat, M \in Nat : L = Len(mine) /\ M = Len(theirs)
  OBVIOUS
<1>1. PICK f : IsLower(f, mine, theirs) /\ Lower(mine, theirs) = f[<<0, 0>>]
  BY LowerIs
<1>2. /\ \A b \in 0..(L - 1) : mine[b + 1] \in S
      /\ \A t \in 0..(M - 1) : theirs[t + 1] \in S
  OBVIOUS
<1> DEFINE Fine(b, t, m) == f[<<b, t>>] \in Seq(S) /\ Len(f[<<b, t>>]) = m
           T == {m \in Nat : \A b \in 0..L, t \in 0..M : b + t + m = L => Fine(b, t, m)}
<1>3. \A b \in 0..L, t \in 0..M :
        f[<<b, t>>] = IF b + t >= L THEN <<>>
                      ELSE IF t = M \/ Geq(theirs[t + 1], mine[b + 1])
                           THEN <<mine[b + 1]>> \o f[<<b + 1, t>>]
                           ELSE <<theirs[t + 1]>> \o f[<<b, t + 1>>]
  BY <1>1 DEF IsLower, LowerBody, Places
<1>4. 0 \in T
  <2>1. ASSUME NEW b \in 0..L, NEW t \in 0..M, b + t + 0 = L PROVE Fine(b, t, 0)
    <3>1. b + t >= L
      BY <2>1
    <3>2. f[<<b, t>>] = <<>>
      BY <1>3, <3>1, Zenon
    <3>3. QED
      BY <3>2
  <2> HIDE DEF Fine
  <2>2. QED
    BY <2>1
<1>5. ASSUME NEW m \in Nat, m \in T PROVE m + 1 \in T
  <2>1. ASSUME NEW b \in 0..L, NEW t \in 0..M, b + t + (m + 1) = L PROVE Fine(b, t, m + 1)
    <3>1. b \in 0..(L - 1) /\ b + 1 \in 0..L /\ (b + 1) + t + m = L /\ b + (t + 1) + m = L /\ ~(b + t >= L)
          /\ (t # M => t \in 0..(M - 1) /\ t + 1 \in 0..M)
      BY <2>1
    <3>2. mine[b + 1] \in S /\ Fine(b + 1, t, m)
      BY <1>2, <1>5, <3>1
    <3>3. CASE t = M \/ Geq(theirs[t + 1], mine[b + 1])
      <4>1. f[<<b, t>>] = <<mine[b + 1]>> \o f[<<b + 1, t>>]
        BY <1>3, <3>1, <3>3
      <4> PICK x, g : x = mine[b + 1] /\ g = f[<<b + 1, t>>]
        OBVIOUS
      <4>2. <<x>> \o g \in Seq(S) /\ Len(<<x>> \o g) = m + 1
        BY <3>2
      <4>3. QED
        BY <4>1, <4>2
    <3>4. CASE ~(t = M \/ Geq(theirs[t + 1], mine[b + 1]))
      <4>1. f[<<b, t>>] = <<theirs[t + 1]>> \o f[<<b, t + 1>>]
        BY <1>3, <3>1, <3>4
      <4>2. theirs[t + 1] \in S /\ Fine(b, t + 1, m)
        BY <1>2, <1>5, <3>1, <3>4
      <4> PICK x, g : x = theirs[t + 1] /\ g = f[<<b, t + 1>>]
        OBVIOUS
      <4>3. <<x>> \o g \in Seq(S) /\ Len(<<x>> \o g) = m + 1
        BY <4>2
      <4>4. QED
        BY <4>1, <4>3
    <3>5. QED
      BY <3>3, <3>4
  <2> HIDE DEF Fine
  <2>2. QED
    BY <2>1
<1> HIDE DEF T
<1>6. L \in T
  BY <1>4, <1>5, Upwards
<1>7. Fine(0, 0, L)
  <2> HIDE DEF Fine
  <2>1. QED
    BY <1>6 DEF T
<1>8. QED
  BY <1>1, <1>7

LEMMA UpperIs ==
  ASSUME NEW S, NEW mine \in Seq(S), NEW theirs \in Seq(S)
  PROVE  \E f : IsUpper(f, mine, theirs) /\ Upper(mine, theirs) = f[<<Len(mine), Len(theirs)>>]
<1> PICK L \in Nat, M \in Nat : L = Len(mine) /\ M = Len(theirs)
  OBVIOUS
<1> DEFINE D == (0..L) \X (0..M)
           V == Seq(S)
           rank == [p \in D |-> p[1] + p[2]]
           F == [f \in [D -> V] |-> [p \in D |-> UpperBody(f, mine, theirs, p)]]
<1>1. \A p \in D : /\ p[1] \in 0..L /\ p[2] \in 0..M /\ rank[p] \in Nat
                   /\ rank[p] = p[1] + p[2] /\ p = <<p[1], p[2]>>
  OBVIOUS
<1>2. (\A b \in 1..L : mine[b] \in S) /\ (\A t \in 1..M : theirs[t] \in S)
  OBVIOUS
<1>3. ASSUME NEW p \in D, p[1] + p[2] > M
      PROVE  /\ p[1] \in 1..L /\ <<p[1] - 1, p[2]>> \in D
             /\ rank[<<p[1] - 1, p[2]>>] < rank[p]
             /\ p[2] # 0 => /\ p[2] \in 1..M /\ <<p[1], p[2] - 1>> \in D
                            /\ rank[<<p[1], p[2] - 1>>] < rank[p]
  <2> PICK b, t : b = p[1] /\ t = p[2]
    OBVIOUS
  <2>1. b \in 0..L /\ t \in 0..M /\ b + t > M /\ rank[p] = b + t
    BY <1>1, <1>3
  <2>2. b \in 1..L /\ b - 1 \in 0..L /\ (t # 0 => t \in 1..M /\ t - 1 \in 0..M)
    BY ONLY <2>1, L \in Nat, M \in Nat
  <2>3. <<b - 1, t>> \in D /\ (t # 0 => <<b, t - 1>> \in D)
    BY <2>1, <2>2
  <2>4. rank[<<b - 1, t>>] = (b - 1) + t /\ (t # 0 => rank[<<b, t - 1>>] = b + (t - 1))
    BY <2>3
  <2>5. rank[<<b - 1, t>>] < rank[p] /\ (t # 0 => rank[<<b, t - 1>>] < rank[p])
    <3> HIDE DEF rank, D
    <3>1. (b - 1) + t < b + t
      BY ONLY <2>1, L \in Nat, M \in Nat
    <3>2. t # 0 => b + (t - 1) < b + t
      BY ONLY <2>1, L \in Nat, M \in Nat
    <3>3. QED
      BY ONLY <2>1, <2>4, <3>1, <3>2, Zenon
  <2> HIDE DEF rank, D
  <2>6. QED
    BY <2>2, <2>3, <2>5
<1>4. ASSUME NEW f \in [D -> V], NEW p \in D PROVE UpperBody(f, mine, theirs, p) \in V
  <2>1. CASE p[1] + p[2] <= M
    BY <2>1 DEF UpperBody
  <2>2. CASE p[1] + p[2] > M
    <3> HIDE DEF rank
    <3>1. /\ mine[p[1]] \in S /\ f[<<p[1] - 1, p[2]>>] \in Seq(S)
          /\ p[2] # 0 => theirs[p[2]] \in S /\ f[<<p[1], p[2] - 1>>] \in Seq(S)
      BY <1>2, <1>3, <2>2
    <3>2. Append(f[<<p[1] - 1, p[2]>>], mine[p[1]]) \in Seq(S)
      BY <3>1
    <3>3. p[2] # 0 => Append(f[<<p[1], p[2] - 1>>], theirs[p[2]]) \in Seq(S)
      BY <3>1
    <3>4. p[1] \in Nat /\ p[2] \in Nat /\ ~((Len(mine) - p[1]) + (Len(theirs) - p[2]) >= Len(mine))
      BY <1>1, <2>2
    <3>5. CASE p[2] = 0
      BY <3>2, <3>4, <3>5, Zenon DEF UpperBody
    <3>6. CASE p[2] # 0
      BY <3>2, <3>3, <3>4, <3>6, Zenon DEF UpperBody
    <3>7. QED
      BY <3>5, <3>6
  <2>3. QED
    BY <1>1, <2>1, <2>2
<1>5. ASSUME NEW f \in [D -> V], NEW h \in [D -> V], NEW p \in D,
             \A e \in D : rank[e] < rank[p] => f[e] = h[e]
      PROVE  UpperBody(f, mine, theirs, p) = UpperBody(h, mine, theirs, p)
  <2>1. CASE p[1] + p[2] <= M
    BY <2>1 DEF UpperBody
  <2>2. CASE p[1] + p[2] > M
    <3> HIDE DEF rank, D
    <3>1. f[<<p[1] - 1, p[2]>>] = h[<<p[1] - 1, p[2]>>]
      BY <1>3, <1>5, <2>2
    <3>2. p[2] # 0 => f[<<p[1], p[2] - 1>>] = h[<<p[1], p[2] - 1>>]
      BY <1>3, <1>5, <2>2
    <3>3. QED
      BY <3>1, <3>2, Zenon DEF UpperBody
  <2>3. QED
    BY <1>1, <2>1, <2>2
<1>6. IsRecursion(F, D, V, rank)
  <2>1. V # {} /\ rank \in [D -> Nat]
    <3>1. <<>> \in V
      OBVIOUS
    <3>2. QED
      BY <1>1, <3>1
  <2>2. F \in [[D -> V] -> [D -> V]]
    <3> HIDE DEF D, V
    <3>1. QED
      BY <1>4
  <2>3. \A f, h \in [D -> V] : \A p \in D :
          (\A e \in D : rank[e] < rank[p] => f[e] = h[e]) => F[f][p] = F[h][p]
    <3> HIDE DEF D, V, rank
    <3>1. QED
      BY <1>5
  <2> HIDE DEF D, V, rank, F
  <2>4. QED
    BY <2>1, <2>2, <2>3 DEF IsRecursion
<1>7. PICK g \in [D -> V] : g = [p \in D |-> UpperBody(g, mine, theirs, p)]
  <2>1. HasSolution(F, D, V)
    <3> HIDE DEF D, V, rank, F
    <3>1. QED
      BY <1>6, RecursionByRank
  <2>2. PICK g \in [D -> V] : g = F[g]
    BY <2>1, Zenon DEF HasSolution
  <2>3. QED
    <3> HIDE DEF D, V
    <3>1. QED
      BY <2>2
<1> DEFINE isFix(f) == f = [p \in (0..Len(mine)) \X (0..Len(theirs)) |->
             IF (Len(mine) - p[1]) + (Len(theirs) - p[2]) >= Len(mine) THEN <<>>
             ELSE IF p[2] = 0 \/ Geq(mine[p[1]], theirs[p[2]])
                  THEN Append(f[<<p[1] - 1, p[2]>>], mine[p[1]])
                  ELSE Append(f[<<p[1], p[2] - 1>>], theirs[p[2]])]
           c == CHOOSE f : isFix(f)
<1>8. Upper(mine, theirs) = c[<<Len(mine), Len(theirs)>>]
  BY Zenon DEF Upper
<1>9. isFix(g)
  BY <1>7, Zenon DEF UpperBody
<1>10. isFix(c)
  <2> HIDE DEF isFix
  <2>1. QED
    BY <1>9, Zenon
<1>11. IsUpper(c, mine, theirs)
  <2> HIDE DEF c
  <2>1. QED
    BY <1>10, Zenon DEF IsUpper, UpperBody, Places
<1>12. QED
  BY <1>8, <1>11, Zenon

\* As many numbers as mine, out of both blocks
LEMMA UpperTypes ==
  ASSUME NEW S, NEW mine \in Seq(S), NEW theirs \in Seq(S)
  PROVE  Upper(mine, theirs) \in Seq(S) /\ Len(Upper(mine, theirs)) = Len(mine)
<1> PICK L \in Nat, M \in Nat : L = Len(mine) /\ M = Len(theirs)
  OBVIOUS
<1>1. PICK f : IsUpper(f, mine, theirs) /\ Upper(mine, theirs) = f[<<Len(mine), Len(theirs)>>]
  BY UpperIs
<1>2. (\A b \in 1..L : mine[b] \in S) /\ (\A t \in 1..M : theirs[t] \in S)
  OBVIOUS
<1> DEFINE Fine(b, t, m) == f[<<b, t>>] \in Seq(S) /\ Len(f[<<b, t>>]) = m
           T == {m \in Nat : \A b \in 0..L, t \in 0..M : b + t = M + m => Fine(b, t, m)}
<1>3. \A b \in 0..L, t \in 0..M :
        f[<<b, t>>] = IF (L - b) + (M - t) >= L THEN <<>>
                      ELSE IF t = 0 \/ Geq(mine[b], theirs[t])
                           THEN Append(f[<<b - 1, t>>], mine[b])
                           ELSE Append(f[<<b, t - 1>>], theirs[t])
  BY <1>1 DEF IsUpper, UpperBody, Places
<1>4. 0 \in T
  <2>1. ASSUME NEW b \in 0..L, NEW t \in 0..M, b + t = M + 0 PROVE Fine(b, t, 0)
    <3>1. (L - b) + (M - t) >= L
      BY <2>1
    <3>2. f[<<b, t>>] = <<>>
      BY <1>3, <3>1, Zenon
    <3>3. QED
      BY <3>2
  <2> HIDE DEF Fine
  <2>2. QED
    BY <2>1
<1>5. ASSUME NEW m \in Nat, m \in T PROVE m + 1 \in T
  <2>1. ASSUME NEW b \in 0..L, NEW t \in 0..M, b + t = M + (m + 1) PROVE Fine(b, t, m + 1)
    <3>1. b \in 1..L /\ b - 1 \in 0..L /\ (b - 1) + t = M + m /\ b + (t - 1) = M + m
          /\ ~((L - b) + (M - t) >= L) /\ (t # 0 => t \in 1..M /\ t - 1 \in 0..M)
      BY <2>1
    <3>2. mine[b] \in S /\ Fine(b - 1, t, m)
      BY <1>2, <1>5, <3>1
    <3>3. CASE t = 0 \/ Geq(mine[b], theirs[t])
      <4>1. f[<<b, t>>] = Append(f[<<b - 1, t>>], mine[b])
        BY <1>3, <3>1, <3>3
      <4> PICK x, g : x = mine[b] /\ g = f[<<b - 1, t>>]
        OBVIOUS
      <4>2. Append(g, x) \in Seq(S) /\ Len(Append(g, x)) = m + 1
        BY <3>2
      <4>3. QED
        BY <4>1, <4>2
    <3>4. CASE ~(t = 0 \/ Geq(mine[b], theirs[t]))
      <4>1. f[<<b, t>>] = Append(f[<<b, t - 1>>], theirs[t])
        BY <1>3, <3>1, <3>4
      <4>2. theirs[t] \in S /\ Fine(b, t - 1, m)
        BY <1>2, <1>5, <3>1, <3>4
      <4> PICK x, g : x = theirs[t] /\ g = f[<<b, t - 1>>]
        OBVIOUS
      <4>3. Append(g, x) \in Seq(S) /\ Len(Append(g, x)) = m + 1
        BY <4>2
      <4>4. QED
        BY <4>1, <4>3
    <3>5. QED
      BY <3>3, <3>4
  <2> HIDE DEF Fine
  <2>2. QED
    BY <2>1
<1> HIDE DEF T
<1>6. L \in T
  BY <1>4, <1>5, Upwards
<1>7. Fine(L, M, L)
  <2>1. L \in 0..L /\ M \in 0..M /\ L + M = M + L
    OBVIOUS
  <2> HIDE DEF Fine
  <2>2. QED
    BY <1>6, <2>1, Zenon DEF T
<1>8. QED
  BY <1>1, <1>7

LEMMA MergeTypes ==
  ASSUME NEW S, NEW mine \in Seq(S), NEW theirs \in Seq(S), NEW id
  PROVE  merge_realc(mine, theirs, id) \in Seq(S) /\ Len(merge_realc(mine, theirs, id)) = Len(mine)
BY LowerTypes, UpperTypes DEF merge_realc

-----------------------------------------------------------------------------
(* What a merge keeps.  A block in ascending order is cut by every value:  *)
(* what is not above it comes first.                                       *)

InOrder(s) == \A i, j \in 1..Len(s) : i <= j => s[i][1] <= s[j][1]

Cut(s, x, c) == c \in 0..Len(s) /\ \A i \in 1..Len(s) : s[i][1] <= x <=> i <= c

Above(a, b) == IF a > b THEN a - b ELSE 0
AtMost(a, b) == IF a <= b THEN a ELSE b

LEMMA Pairs ==
  ASSUME NEW s \in Seq(Int \X Int)
  PROVE  \A i \in 1..Len(s) : s[i] \in Int \X Int /\ s[i][1] \in Int
OBVIOUS

LeftLaw(c, d, b, t, m) ==
  /\ b < c => AtMost(Above(c, b) + Above(d, t), m + 1) = AtMost(Above(c, b + 1) + Above(d, t), m) + 1
  /\ t < d => AtMost(Above(c, b) + Above(d, t), m + 1) = AtMost(Above(c, b) + Above(d, t + 1), m) + 1
  /\ AtMost(Above(c, 0) + Above(d, 0), m) = AtMost(c + d, m)

SmallLaw(c, d, b, t, M, m) ==
  /\ b > c => Above(AtMost(b, c) + AtMost(t, d), M) = Above(AtMost(b - 1, c) + AtMost(t, d), M)
  /\ t > d => Above(AtMost(b, c) + AtMost(t, d), M) = Above(AtMost(b, c) + AtMost(t - 1, d), M)
  /\ ~(b > c) /\ ~(t > d) /\ b + t = M + (m + 1) =>
       /\ Above(AtMost(b, c) + AtMost(t, d), M) = m + 1
       /\ Above(AtMost(b - 1, c) + AtMost(t, d), M) = m
       /\ Above(AtMost(b, c) + AtMost(t - 1, d), M) = m
  /\ c <= b /\ d <= t => Above(AtMost(b, c) + AtMost(t, d), M) = Above(c + d, M)

\* Of c and d numbers that a merge still has to take, it takes one.
LEMMA HowManyLeft ==
  ASSUME NEW c \in Nat, NEW d \in Nat, NEW b \in Nat, NEW t \in Nat, NEW m \in Nat
  PROVE  LeftLaw(c, d, b, t, m)
BY DEF AtMost, Above, LeftLaw

LEMMA HowManySmall ==
  ASSUME NEW c \in Nat, NEW d \in Nat, NEW b \in Nat, NEW t \in Nat, NEW M \in Nat, NEW m \in Nat
  PROVE  SmallLaw(c, d, b, t, M, m)
BY DEF AtMost, Above, SmallLaw

LEMMA CutExists ==
  ASSUME NEW s \in Seq(Int \X Int), InOrder(s), NEW x \in Int
  PROVE  \E c : Cut(s, x, c)
<1> PICK L \in Nat : L = Len(s)
  OBVIOUS
<1> DEFINE T == {i \in 1..L : s[i][1] > x}
<1>1. \A i \in 1..L : s[i][1] \in Int
  OBVIOUS
<1>2. CASE T = {}
  <2>1. ASSUME NEW i \in 1..L PROVE s[i][1] <= x /\ i <= L
    <3>1. s[i][1] \in Int /\ i <= L
      BY <1>1
    <3>2. ~(s[i][1] > x)
      BY <1>2
    <3>3. QED
      BY <3>1, <3>2
  <2> HIDE DEF T
  <2>2. Cut(s, x, L)
    BY <2>1 DEF Cut
  <2>3. QED
    BY <2>2
<1>3. CASE T # {}
  <2>1. T \subseteq Nat
    OBVIOUS
  <2>2. PICK k \in T : \A i \in T : k <= i
    <3> HIDE DEF T
    <3>1. QED
      BY <1>3, <2>1, LeastElement
  <2>3. \A i \in 1..L : i >= k => s[i][1] > x
    BY <1>1 DEF InOrder
  <2>4. \A i \in 1..L : i < k => s[i][1] <= x
    BY <1>1, <2>2
  <2>5. Cut(s, x, k - 1)
    <3>1. k \in 1..L /\ k - 1 \in 0..L /\ \A i \in 1..L : i <= k - 1 <=> i < k
      OBVIOUS
    <3> HIDE DEF T
    <3>2. \A i \in 1..L : s[i][1] <= x <=> i <= k - 1
      <4> TAKE i \in 1..L
      <4>1. s[i][1] \in Int /\ i \in Int /\ k - 1 \in Int /\ (i <= k - 1 <=> i < k)
        BY <1>1, <3>1
      <4>2. CASE i < k
        BY <2>4, <4>1, <4>2
      <4>3. CASE ~(i < k)
        <5>1. s[i][1] > x
          BY <2>3, <3>1, <4>3
        <5>2. QED
          BY <4>1, <4>3, <5>1
      <4>4. QED
        BY <4>2, <4>3
    <3>3. QED
      BY <3>1, <3>2 DEF Cut
  <2>6. QED
    BY <2>5
<1>4. QED
  BY <1>2, <1>3

LEMMA CutsOrder ==
  ASSUME NEW s \in Seq(Int \X Int), \A x \in Int : \E c : Cut(s, x, c)
  PROVE  InOrder(s)
<1> SUFFICES ASSUME NEW i \in 1..Len(s), NEW j \in 1..Len(s), i <= j PROVE s[i][1] <= s[j][1]
  BY DEF InOrder
<1> PICK x \in Int : x = s[j][1]
  BY Pairs
<1>1. PICK c : Cut(s, x, c)
  OBVIOUS
<1>2. c \in Nat /\ \A k \in 1..Len(s) : s[k][1] <= x <=> k <= c
  BY <1>1 DEF Cut
<1>3. j <= c
  BY <1>2
<1>4. i <= c
  BY <1>2, <1>3
<1>5. QED
  BY <1>2, <1>4

\* A number before or behind a block that is cut
LEMMA CutBefore ==
  ASSUME NEW S, NEW g \in Seq(S), NEW v \in S, NEW x \in Int, NEW e, Cut(g, x, e)
  PROVE  /\ v[1] <= x => Cut(<<v>> \o g, x, e + 1)
         /\ ~(v[1] <= x) /\ e = 0 => Cut(<<v>> \o g, x, 0)
<1> PICK m \in Nat : m = Len(g)
  OBVIOUS
<1> PICK h : h = <<v>> \o g
  OBVIOUS
<1>1. h \in Seq(S) /\ Len(h) = m + 1 /\ h[1] = v /\ \A i \in 2..(m + 1) : h[i] = g[i - 1]
  OBVIOUS
<1>2. e \in 0..m /\ \A i \in 1..m : g[i][1] <= x <=> i <= e
  BY DEF Cut
<1>3. \A i \in 2..(m + 1) : h[i][1] <= x <=> i <= e + 1
  <2>1. \A i \in 2..(m + 1) : i - 1 \in 1..m /\ (i - 1 <= e <=> i <= e + 1)
    BY <1>2
  <2>2. QED
    BY <1>1, <1>2, <2>1
<1>4. ASSUME v[1] <= x PROVE Cut(h, x, e + 1)
  BY <1>1, <1>2, <1>3, <1>4 DEF Cut
<1>5. ASSUME ~(v[1] <= x), e = 0 PROVE Cut(h, x, 0)
  BY <1>1, <1>2, <1>3, <1>5 DEF Cut
<1>6. QED
  BY <1>4, <1>5

LEMMA CutBehind ==
  ASSUME NEW S, NEW g \in Seq(S), NEW v \in S, NEW x \in Int, NEW e, Cut(g, x, e)
  PROVE  /\ ~(v[1] <= x) => Cut(Append(g, v), x, e)
         /\ v[1] <= x /\ e = Len(g) => Cut(Append(g, v), x, e + 1)
<1> PICK m \in Nat : m = Len(g)
  OBVIOUS
<1> PICK h : h = Append(g, v)
  OBVIOUS
<1>1. h \in Seq(S) /\ Len(h) = m + 1 /\ h[m + 1] = v /\ \A i \in 1..m : h[i] = g[i]
  OBVIOUS
<1>2. e \in 0..m /\ \A i \in 1..m : g[i][1] <= x <=> i <= e
  BY DEF Cut
<1>3. ASSUME ~(v[1] <= x) PROVE Cut(h, x, e)
  BY <1>1, <1>2, <1>3 DEF Cut
<1>4. ASSUME v[1] <= x, e = m PROVE Cut(h, x, e + 1)
  BY <1>1, <1>2, <1>4 DEF Cut
<1>5. QED
  BY <1>3, <1>4

\* The lower half of a pair has all that is not above a value, if it has room.
LEMMA LowerCut ==
  ASSUME NEW mine \in Seq(Int \X Int), NEW theirs \in Seq(Int \X Int), NEW x \in Int,
         NEW c, NEW d, Cut(mine, x, c), Cut(theirs, x, d)
  PROVE  Cut(Lower(mine, theirs), x, AtMost(c + d, Len(mine)))
<1> PICK S : S = Int \X Int
  OBVIOUS
<1> PICK L \in Nat, M \in Nat : L = Len(mine) /\ M = Len(theirs)
  OBVIOUS
<1>1. PICK f : IsLower(f, mine, theirs) /\ Lower(mine, theirs) = f[<<0, 0>>]
  BY LowerIs
<1>2. /\ \A b \in 0..(L - 1) : mine[b + 1] \in S /\ mine[b + 1][1] \in Int /\ (mine[b + 1][1] <= x <=> b < c)
      /\ \A t \in 0..(M - 1) : theirs[t + 1] \in S /\ theirs[t + 1][1] \in Int /\ (theirs[t + 1][1] <= x <=> t < d)
      /\ c \in 0..L /\ d \in 0..M
  BY DEF Cut
<1> DEFINE Fine(b, t, m) == /\ f[<<b, t>>] \in Seq(S) /\ Len(f[<<b, t>>]) = m
                            /\ Cut(f[<<b, t>>], x, AtMost(Above(c, b) + Above(d, t), m))
           T == {m \in Nat : \A b \in 0..L, t \in 0..M : b + t + m = L => Fine(b, t, m)}
<1>3. \A b \in 0..L, t \in 0..M :
        f[<<b, t>>] = IF b + t >= L THEN <<>>
                      ELSE IF t = M \/ Geq(theirs[t + 1], mine[b + 1])
                           THEN <<mine[b + 1]>> \o f[<<b + 1, t>>]
                           ELSE <<theirs[t + 1]>> \o f[<<b, t + 1>>]
  BY <1>1 DEF IsLower, LowerBody, Places
<1>4. 0 \in T
  <2>1. ASSUME NEW b \in 0..L, NEW t \in 0..M, b + t + 0 = L PROVE Fine(b, t, 0)
    <3>1. b + t >= L
      BY <2>1
    <3>2. f[<<b, t>>] = <<>>
      BY <1>3, <3>1, Zenon
    <3>3. AtMost(Above(c, b) + Above(d, t), 0) = 0
      BY <1>2 DEF AtMost, Above
    <3>4. Cut(<<>>, x, 0)
      BY DEF Cut
    <3>5. QED
      BY <3>2, <3>3, <3>4
  <2> HIDE DEF Fine
  <2>2. QED
    BY <2>1
<1>5. ASSUME NEW m \in Nat, m \in T PROVE m + 1 \in T
  <2>1. ASSUME NEW b \in 0..L, NEW t \in 0..M, b + t + (m + 1) = L PROVE Fine(b, t, m + 1)
    <3>1. b \in 0..(L - 1) /\ b + 1 \in 0..L /\ (b + 1) + t + m = L /\ b + (t + 1) + m = L /\ ~(b + t >= L)
          /\ (t # M => t \in 0..(M - 1) /\ t + 1 \in 0..M)
      BY <2>1
    <3>a. c \in Nat /\ d \in Nat /\ b \in Nat /\ t \in Nat /\ m + 1 \in Nat
      BY <1>2
    <3>d. LeftLaw(c, d, b, t, m)
      BY <3>a, HowManyLeft
    <3>b. /\ b < c => AtMost(Above(c, b) + Above(d, t), m + 1) = AtMost(Above(c, b + 1) + Above(d, t), m) + 1
          /\ t < d => AtMost(Above(c, b) + Above(d, t), m + 1) = AtMost(Above(c, b) + Above(d, t + 1), m) + 1
      BY <3>d, Zenon DEF LeftLaw
    <3>c. ~(b < c) /\ ~(t < d) =>
            /\ AtMost(Above(c, b) + Above(d, t), m + 1) = 0
            /\ AtMost(Above(c, b + 1) + Above(d, t), m) = 0
            /\ AtMost(Above(c, b) + Above(d, t + 1), m) = 0
      BY <3>a DEF AtMost, Above
    <3> DEFINE e == AtMost(Above(c, b) + Above(d, t), m + 1)
    <3>2. mine[b + 1] \in S /\ Fine(b + 1, t, m)
      BY <1>2, <1>5, <3>1
    <3>3. CASE t = M \/ Geq(theirs[t + 1], mine[b + 1])
      <4>1. f[<<b, t>>] = <<mine[b + 1]>> \o f[<<b + 1, t>>]
        BY <1>3, <3>1, <3>3
      <4> PICK v, g : v = mine[b + 1] /\ g = f[<<b + 1, t>>]
        OBVIOUS
      <4>2. <<v>> \o g \in Seq(S) /\ Len(<<v>> \o g) = m + 1
        BY <3>2
      <4> DEFINE e1 == AtMost(Above(c, b + 1) + Above(d, t), m)
      <4>3. g \in Seq(S) /\ v \in S /\ Cut(g, x, e1)
        BY <3>2
      <4>4. CASE b < c
        <5>1. v[1] <= x
          BY <1>2, <3>1, <4>4
        <5>2. e = e1 + 1
          BY <3>b, <4>4
        <5> HIDE DEF e, e1
        <5>3. Cut(<<v>> \o g, x, e)
          BY <4>3, <5>1, <5>2, CutBefore
        <5>4. QED
          BY <4>1, <4>2, <5>3 DEF e
      <4>5. CASE ~(b < c)
        <5>1. ~(v[1] <= x)
          BY <1>2, <3>1, <4>5
        <5>2. ~(t < d)
          <6>1. CASE t = M
            BY <1>2, <6>1
          <6>2. CASE t # M
            <7>1. Geq(theirs[t + 1], v) /\ v[1] \in Int /\ theirs[t + 1][1] \in Int
              BY <1>2, <3>1, <3>3, <6>2
            <7>2. ~(theirs[t + 1][1] <= x)
              BY ONLY <5>1, <7>1, x \in Int DEF Geq
            <7>3. QED
              BY <1>2, <3>1, <6>2, <7>2
          <6>3. QED
            BY <6>1, <6>2
        <5>3. e = 0 /\ e1 = 0
          BY <3>c, <4>5, <5>2
        <5> HIDE DEF e, e1
        <5>4. Cut(<<v>> \o g, x, e)
          BY <4>3, <5>1, <5>3, CutBefore
        <5>5. QED
          BY <4>1, <4>2, <5>4 DEF e
      <4>6. QED
        BY <4>4, <4>5
    <3>4. CASE ~(t = M \/ Geq(theirs[t + 1], mine[b + 1]))
      <4>1. f[<<b, t>>] = <<theirs[t + 1]>> \o f[<<b, t + 1>>]
        BY <1>3, <3>1, <3>4
      <4>2. theirs[t + 1] \in S /\ Fine(b, t + 1, m)
        BY <1>2, <1>5, <3>1, <3>4
      <4> PICK v, g : v = theirs[t + 1] /\ g = f[<<b, t + 1>>]
        OBVIOUS
      <4>3. <<v>> \o g \in Seq(S) /\ Len(<<v>> \o g) = m + 1
        BY <4>2
      <4> DEFINE e1 == AtMost(Above(c, b) + Above(d, t + 1), m)
      <4>4. g \in Seq(S) /\ v \in S /\ Cut(g, x, e1)
        BY <4>2
      <4>5. CASE t < d
        <5>1. v[1] <= x
          BY <1>2, <3>1, <3>4, <4>5
        <5>2. e = e1 + 1
          BY <3>b, <4>5
        <5> HIDE DEF e, e1
        <5>3. Cut(<<v>> \o g, x, e)
          BY <4>4, <5>1, <5>2, CutBefore
        <5>4. QED
          BY <4>1, <4>3, <5>3 DEF e
      <4>6. CASE ~(t < d)
        <5>1. ~(v[1] <= x)
          BY <1>2, <3>1, <3>4, <4>6
        <5>2. ~(b < c)
          <6>1. ~Geq(v, mine[b + 1]) /\ v[1] \in Int /\ mine[b + 1][1] \in Int
            BY <1>2, <3>1, <3>4
          <6>2. ~(mine[b + 1][1] <= x)
            BY ONLY <5>1, <6>1, x \in Int DEF Geq
          <6>3. QED
            BY <1>2, <3>1, <6>2
        <5>3. e = 0 /\ e1 = 0
          BY <3>c, <4>6, <5>2
        <5> HIDE DEF e, e1
        <5>4. Cut(<<v>> \o g, x, e)
          BY <4>4, <5>1, <5>3, CutBefore
        <5>5. QED
          BY <4>1, <4>3, <5>4 DEF e
      <4>7. QED
        BY <4>5, <4>6
    <3>5. QED
      BY <3>3, <3>4
  <2> HIDE DEF Fine
  <2>2. QED
    BY <2>1
<1> HIDE DEF T
<1>6. L \in T
  BY <1>4, <1>5, Upwards
<1>7. Fine(0, 0, L)
  <2> HIDE DEF Fine
  <2>1. QED
    BY <1>6 DEF T
<1>8. AtMost(Above(c, 0) + Above(d, 0), L) = AtMost(c + d, L)
  <2>1. c \in Nat /\ d \in Nat /\ L \in Nat /\ 0 \in Nat
    BY <1>2
  <2>2. LeftLaw(c, d, 0, 0, L)
    BY <2>1, HowManyLeft
  <2>3. QED
    BY <2>2, Zenon DEF LeftLaw
<1>9. QED
  BY <1>1, <1>7, <1>8

\* The upper half has what is not above a value only when the lower is full of
\* it.
LEMMA UpperCut ==
  ASSUME NEW mine \in Seq(Int \X Int), NEW theirs \in Seq(Int \X Int), NEW x \in Int,
         NEW c, NEW d, Cut(mine, x, c), Cut(theirs, x, d)
  PROVE  Cut(Upper(mine, theirs), x, Above(c + d, Len(theirs)))
<1> PICK S : S = Int \X Int
  OBVIOUS
<1> PICK L \in Nat, M \in Nat : L = Len(mine) /\ M = Len(theirs)
  OBVIOUS
<1>1. PICK f : IsUpper(f, mine, theirs) /\ Upper(mine, theirs) = f[<<Len(mine), Len(theirs)>>]
  BY UpperIs
<1>2. /\ \A b \in 1..L : mine[b] \in S /\ mine[b][1] \in Int /\ (mine[b][1] <= x <=> b <= c)
      /\ \A t \in 1..M : theirs[t] \in S /\ theirs[t][1] \in Int /\ (theirs[t][1] <= x <=> t <= d)
      /\ c \in 0..L /\ d \in 0..M
  BY DEF Cut
<1> DEFINE Small(b, t) == Above(AtMost(b, c) + AtMost(t, d), M)
           Fine(b, t, m) == /\ f[<<b, t>>] \in Seq(S) /\ Len(f[<<b, t>>]) = m
                            /\ Cut(f[<<b, t>>], x, Small(b, t))
           T == {m \in Nat : \A b \in 0..L, t \in 0..M : b + t = M + m => Fine(b, t, m)}
<1>3. \A b \in 0..L, t \in 0..M :
        f[<<b, t>>] = IF (L - b) + (M - t) >= L THEN <<>>
                      ELSE IF t = 0 \/ Geq(mine[b], theirs[t])
                           THEN Append(f[<<b - 1, t>>], mine[b])
                           ELSE Append(f[<<b, t - 1>>], theirs[t])
  BY <1>1 DEF IsUpper, UpperBody, Places
<1>4. 0 \in T
  <2>1. ASSUME NEW b \in 0..L, NEW t \in 0..M, b + t = M + 0 PROVE Fine(b, t, 0)
    <3>1. (L - b) + (M - t) >= L
      BY <2>1
    <3>2. f[<<b, t>>] = <<>>
      BY <1>3, <3>1, Zenon
    <3>3. Small(b, t) = 0
      <4>1. b \in Int /\ t \in Int /\ c \in Int /\ d \in Int /\ M \in Int /\ b + t = M
        BY <1>2, <2>1
      <4>2. AtMost(b, c) \in Int /\ AtMost(b, c) <= b /\ AtMost(t, d) \in Int /\ AtMost(t, d) <= t
        BY ONLY <4>1 DEF AtMost
      <4>3. QED
        BY ONLY <4>1, <4>2 DEF Above
    <3>4. Cut(<<>>, x, 0)
      BY DEF Cut
    <3> HIDE DEF Small
    <3>5. QED
      BY <3>2, <3>3, <3>4
  <2> HIDE DEF Fine
  <2>2. QED
    BY <2>1
<1>5. ASSUME NEW m \in Nat, m \in T PROVE m + 1 \in T
  <2>1. ASSUME NEW b \in 0..L, NEW t \in 0..M, b + t = M + (m + 1) PROVE Fine(b, t, m + 1)
    <3>1. b \in 1..L /\ b - 1 \in 0..L /\ (b - 1) + t = M + m /\ b + (t - 1) = M + m /\ ~((L - b) + (M - t) >= L)
          /\ (t # 0 => t \in 1..M /\ t - 1 \in 0..M)
      BY <2>1
    <3>a. c \in Nat /\ d \in Nat /\ b \in Nat /\ t \in Nat
      BY <1>2
    <3>b. SmallLaw(c, d, b, t, M, m)
      BY <3>a, HowManySmall
    <3>2. /\ b > c => Small(b, t) = Small(b - 1, t)
          /\ t > d => Small(b, t) = Small(b, t - 1)
      BY <3>b, Zenon DEF SmallLaw
    <3>3. ~(b > c) /\ ~(t > d) =>
            /\ Small(b, t) = m + 1 /\ Small(b - 1, t) = m
            /\ Small(b, t - 1) = m
      BY <2>1, <3>b, Zenon DEF SmallLaw
    <3> HIDE DEF Small
    <3>4. CASE t = 0 \/ Geq(mine[b], theirs[t])
      <4>1. f[<<b, t>>] = Append(f[<<b - 1, t>>], mine[b])
        BY <1>3, <3>1, <3>4
      <4> PICK v, g : v = mine[b] /\ g = f[<<b - 1, t>>]
        OBVIOUS
      <4>2. Fine(b - 1, t, m)
        BY <1>5, <3>1
      <4>3. g \in Seq(S) /\ Len(g) = m /\ v \in S /\ Cut(g, x, Small(b - 1, t))
        BY <1>2, <3>1, <4>2
      <4>4. Append(g, v) \in Seq(S) /\ Len(Append(g, v)) = m + 1
        BY <4>3
      <4>5. CASE b > c
        <5>1. ~(v[1] <= x)
          BY <1>2, <3>1, <4>5
        <5>2. Cut(Append(g, v), x, Small(b, t))
          BY <3>2, <4>3, <4>5, <5>1, CutBehind
        <5>3. QED
          BY <4>1, <4>4, <5>2
      <4>6. CASE ~(b > c)
        <5>1. v[1] <= x /\ v[1] \in Int
          BY <1>2, <3>1, <4>6
        <5>2. ~(t > d)
          <6>1. CASE t = 0
            BY <1>2, <6>1
          <6>2. CASE t # 0
            <7>1. Geq(v, theirs[t]) /\ theirs[t][1] \in Int
              BY <1>2, <3>1, <3>4, <6>2
            <7>2. theirs[t][1] <= x
              BY <5>1, <7>1 DEF Geq
            <7>3. QED
              BY <1>2, <3>1, <6>2, <7>2
          <6>3. QED
            BY <6>1, <6>2
        <5>3. Small(b, t) = m + 1 /\ Small(b - 1, t) = m
          BY <3>3, <4>6, <5>2
        <5>4. Cut(Append(g, v), x, m + 1)
          BY <4>3, <5>1, <5>3, CutBehind
        <5>5. QED
          BY <4>1, <4>4, <5>3, <5>4
      <4>7. QED
        BY <4>5, <4>6
    <3>5. CASE ~(t = 0 \/ Geq(mine[b], theirs[t]))
      <4>1. f[<<b, t>>] = Append(f[<<b, t - 1>>], theirs[t])
        BY <1>3, <3>1, <3>5
      <4> PICK v, g : v = theirs[t] /\ g = f[<<b, t - 1>>]
        OBVIOUS
      <4>2. Fine(b, t - 1, m)
        BY <1>5, <3>1, <3>5
      <4>3. g \in Seq(S) /\ Len(g) = m /\ v \in S /\ Cut(g, x, Small(b, t - 1))
        BY <1>2, <3>1, <3>5, <4>2
      <4>4. Append(g, v) \in Seq(S) /\ Len(Append(g, v)) = m + 1
        BY <4>3
      <4>5. CASE t > d
        <5>1. ~(v[1] <= x)
          BY <1>2, <3>1, <3>5, <4>5
        <5>2. Cut(Append(g, v), x, Small(b, t))
          BY <3>2, <4>3, <4>5, <5>1, CutBehind
        <5>3. QED
          BY <4>1, <4>4, <5>2
      <4>6. CASE ~(t > d)
        <5>1. v[1] <= x /\ v[1] \in Int
          BY <1>2, <3>1, <3>5, <4>6
        <5>2. ~(b > c)
          <6>1. ~Geq(mine[b], v) /\ mine[b][1] \in Int
            BY <1>2, <3>1, <3>5
          <6>2. mine[b][1] <= x
            BY <5>1, <6>1 DEF Geq
          <6>3. QED
            BY <1>2, <3>1, <6>2
        <5>3. Small(b, t) = m + 1 /\ Small(b, t - 1) = m
          BY <3>3, <3>5, <4>6, <5>2
        <5>4. Cut(Append(g, v), x, m + 1)
          BY <4>3, <5>1, <5>3, CutBehind
        <5>5. QED
          BY <4>1, <4>4, <5>3, <5>4
      <4>7. QED
        BY <4>5, <4>6
    <3>6. QED
      BY <3>4, <3>5
  <2> HIDE DEF Fine
  <2>2. QED
    BY <2>1
<1> HIDE DEF T
<1>6. L \in T
  BY <1>4, <1>5, Upwards
<1>7. L + M = M + L /\ L \in 0..L /\ M \in 0..M
  OBVIOUS
<1>8. Fine(L, M, L)
  <2> HIDE DEF Fine
  <2>1. QED
    BY <1>6, <1>7 DEF T
<1>9. Small(L, M) = Above(c + d, M)
  <2>1. c \in Nat /\ d \in Nat /\ L \in Nat /\ M \in Nat /\ 0 \in Nat /\ c <= L /\ d <= M
    BY <1>2
  <2>2. SmallLaw(c, d, L, M, M, 0)
    BY <2>1, HowManySmall
  <2>3. QED
    BY <2>1, <2>2, Zenon DEF SmallLaw
<1>10. QED
  BY <1>1, <1>8, <1>9

\* A merge of two blocks in ascending order is in ascending order.
LEMMA MergeInOrder ==
  ASSUME NEW mine \in Seq(Int \X Int), NEW theirs \in Seq(Int \X Int), InOrder(mine), InOrder(theirs),
         NEW id
  PROVE  InOrder(merge_realc(mine, theirs, id))
<1> PICK s : s = merge_realc(mine, theirs, id)
  OBVIOUS
<1>1. s \in Seq(Int \X Int)
  BY MergeTypes
<1>2. ASSUME NEW x \in Int PROVE \E c : Cut(s, x, c)
  <2>1. PICK c : Cut(mine, x, c)
    BY CutExists
  <2>2. PICK d : Cut(theirs, x, d)
    BY CutExists
  <2>3. Cut(Lower(mine, theirs), x, AtMost(c + d, Len(mine)))
    BY <2>1, <2>2, LowerCut
  <2>4. Cut(Upper(mine, theirs), x, Above(c + d, Len(theirs)))
    BY <2>1, <2>2, UpperCut
  <2>5. QED
    BY <2>3, <2>4, Zenon DEF merge_realc
<1>3. QED
  BY <1>1, <1>2, CutsOrder

-----------------------------------------------------------------------------
(* What the two halves of a pair are made of.  The left process takes b    *)
(* numbers of its own and e of its partner's, the right one all others.    *)

Elems(s) == {s[i] : i \in 1..Len(s)}
From(s, a, c) == {s[i] : i \in (a + 1)..c}

Parts(left, right, b, e) ==
  /\ b \in 0..Len(left) /\ e \in 0..Len(right)
  /\ \A i \in 1..Len(left), k \in 1..Len(right) :
       /\ i <= b /\ k > e => left[i][1] <= right[k][1]
       /\ i > b /\ k <= e => right[k][1] < left[i][1]

\* There is one way only to cut a pair so.
LEMMA PartsUnique ==
  ASSUME NEW left \in Seq(Int \X Int), NEW right \in Seq(Int \X Int), NEW b, NEW e, NEW c, NEW d,
         Parts(left, right, b, e), Parts(left, right, c, d), b + e = c + d
  PROVE  b = c /\ e = d
<1> PICK L \in Nat, M \in Nat : L = Len(left) /\ M = Len(right)
  OBVIOUS
<1>1. b \in 0..L /\ c \in 0..L /\ e \in 0..M /\ d \in 0..M
  BY DEF Parts
<1>2. \A i \in 1..L : left[i][1] \in Int
  BY Pairs
<1>3. \A k \in 1..M : right[k][1] \in Int
  BY Pairs
<1>4. CASE b < c
  <2>1. c \in 1..L /\ e \in 1..M /\ c > b /\ e > d
    BY <1>1, <1>4
  <2>2. left[c][1] <= right[e][1] /\ right[e][1] < left[c][1]
    BY <2>1 DEF Parts
  <2>3. QED
    BY <1>2, <1>3, <2>1, <2>2
<1>5. CASE c < b
  <2>1. b \in 1..L /\ d \in 1..M /\ b > c /\ d > e
    BY <1>1, <1>5
  <2>2. left[b][1] <= right[d][1] /\ right[d][1] < left[b][1]
    BY <2>1 DEF Parts
  <2>3. QED
    BY <1>2, <1>3, <2>1, <2>2
<1>6. CASE b = c
  BY <1>1, <1>6
<1>7. QED
  BY <1>1, <1>4, <1>5, <1>6

LEMMA ElemsBefore ==
  ASSUME NEW S, NEW g \in Seq(S), NEW v \in S
  PROVE  Elems(<<v>> \o g) = {v} \cup Elems(g)
<1> PICK m \in Nat : m = Len(g)
  OBVIOUS
<1> PICK h : h = <<v>> \o g
  OBVIOUS
<1>1. Len(h) = m + 1 /\ h[1] = v /\ \A i \in 1..m : h[i + 1] = g[i]
  OBVIOUS
<1>2. \A i \in 1..(m + 1) : i = 1 \/ (i - 1 \in 1..m /\ (i - 1) + 1 = i)
  OBVIOUS
<1>3. \A i \in 1..m : i + 1 \in 1..(m + 1)
  OBVIOUS
<1>4. 1 \in 1..(m + 1)
  OBVIOUS
<1>5. \A x : x \in Elems(h) => x \in {v} \cup Elems(g)
  BY <1>1, <1>2 DEF Elems
<1>6. \A x : x \in {v} \cup Elems(g) => x \in Elems(h)
  BY <1>1, <1>3, <1>4 DEF Elems
<1>7. QED
  BY <1>5, <1>6

LEMMA ElemsBehind ==
  ASSUME NEW S, NEW g \in Seq(S), NEW v \in S
  PROVE  Elems(Append(g, v)) = {v} \cup Elems(g)
<1> PICK m \in Nat : m = Len(g)
  OBVIOUS
<1> PICK h : h = Append(g, v)
  OBVIOUS
<1>1. Len(h) = m + 1 /\ h[m + 1] = v /\ \A i \in 1..m : h[i] = g[i]
  OBVIOUS
<1>2. \A i \in 1..(m + 1) : i = m + 1 \/ i \in 1..m
  OBVIOUS
<1>3. \A i \in 1..m : i \in 1..(m + 1)
  OBVIOUS
<1>4. m + 1 \in 1..(m + 1)
  OBVIOUS
<1>5. \A x : x \in Elems(h) => x \in {v} \cup Elems(g)
  BY <1>1, <1>2 DEF Elems
<1>6. \A x : x \in {v} \cup Elems(g) => x \in Elems(h)
  BY <1>1, <1>3, <1>4 DEF Elems
<1>7. QED
  BY <1>5, <1>6

LEMMA FromFirst ==
  ASSUME NEW s, NEW a \in Int, NEW c \in Int, a < c
  PROVE  From(s, a, c) = {s[a + 1]} \cup From(s, a + 1, c)
<1>1. \A i : i \in (a + 1)..c <=> i = a + 1 \/ i \in ((a + 1) + 1)..c
  OBVIOUS
<1>2. QED
  BY <1>1 DEF From

LEMMA FromLast ==
  ASSUME NEW s, NEW a \in Int, NEW c \in Int, a < c
  PROVE  From(s, a, c) = {s[c]} \cup From(s, a, c - 1)
<1>1. \A i : i \in (a + 1)..c <=> i = c \/ i \in (a + 1)..(c - 1)
  OBVIOUS
<1>2. QED
  BY <1>1 DEF From

LEMMA FromNone ==
  ASSUME NEW s, NEW a \in Int
  PROVE  From(s, a, a) = {}
<1>1. \A i : i \notin (a + 1)..a
  OBVIOUS
<1>2. QED
  BY <1>1 DEF From

LEMMA FromBoth ==
  ASSUME NEW S, NEW s \in Seq(S), NEW c \in 0..Len(s)
  PROVE  From(s, 0, c) \cup From(s, c, Len(s)) = Elems(s)
<1> PICK m \in Nat : m = Len(s)
  OBVIOUS
<1>1. \A i : i \in 1..m <=> i \in (0 + 1)..c \/ i \in (c + 1)..m
  OBVIOUS
<1>2. QED
  BY <1>1 DEF From, Elems

\* One more number of the left, or of the right, that a merge takes
LEMMA PartsNext ==
  ASSUME NEW left \in Seq(Int \X Int), NEW right \in Seq(Int \X Int), InOrder(left), InOrder(right),
         NEW b, NEW e, Parts(left, right, b, e)
  PROVE  /\ b < Len(left) /\ (e = Len(right) \/ Geq(right[e + 1], left[b + 1])) => Parts(left, right, b + 1, e)
         /\ b < Len(left) /\ e < Len(right) /\ ~Geq(right[e + 1], left[b + 1]) => Parts(left, right, b, e + 1)
<1> PICK L \in Nat, M \in Nat : L = Len(left) /\ M = Len(right)
  OBVIOUS
<1>1. b \in 0..L /\ e \in 0..M
  BY DEF Parts
<1>2. \A i \in 1..L : left[i][1] \in Int
  BY Pairs
<1>3. \A k \in 1..M : right[k][1] \in Int
  BY Pairs
<1>4. \A i \in 1..L, k \in 1..M : /\ i <= b /\ k > e => left[i][1] <= right[k][1]
                                  /\ i > b /\ k <= e => right[k][1] < left[i][1]
  BY DEF Parts
<1>5. ASSUME b < L, e = M \/ Geq(right[e + 1], left[b + 1]) PROVE Parts(left, right, b + 1, e)
  <2>1. ASSUME NEW i \in 1..L, NEW k \in 1..M, i <= b + 1, k > e PROVE left[i][1] <= right[k][1]
    <3>1. CASE i <= b
      BY <1>4, <2>1, <3>1
    <3>2. CASE i = b + 1
      <4>1. e + 1 \in 1..M /\ e + 1 <= k /\ e # M
        BY <1>1, <2>1
      <4>2. right[e + 1][1] <= right[k][1]
        BY <4>1 DEF InOrder
      <4>3. left[i][1] <= right[e + 1][1]
        BY <1>2, <1>3, <1>5, <3>2, <4>1 DEF Geq
      <4>4. left[i][1] \in Int /\ right[k][1] \in Int /\ right[e + 1][1] \in Int
        BY <1>2, <1>3, <4>1
      <4>5. QED
        BY <4>2, <4>3, <4>4
    <3>3. QED
      BY <1>1, <2>1, <3>1, <3>2
  <2>2. ASSUME NEW i \in 1..L, NEW k \in 1..M, i > b + 1, k <= e PROVE right[k][1] < left[i][1]
    BY <1>1, <1>4, <2>2
  <2>3. b + 1 \in 0..L
    BY <1>1, <1>5
  <2>4. QED
    BY <1>1, <2>1, <2>2, <2>3 DEF Parts
<1>6. ASSUME b < L, e < M, ~Geq(right[e + 1], left[b + 1]) PROVE Parts(left, right, b, e + 1)
  <2>1. ASSUME NEW i \in 1..L, NEW k \in 1..M, i > b, k <= e + 1 PROVE right[k][1] < left[i][1]
    <3>1. CASE k <= e
      BY <1>4, <2>1, <3>1
    <3>2. CASE k = e + 1
      <4>1. b + 1 \in 1..L /\ b + 1 <= i
        BY <1>1, <2>1
      <4>2. left[b + 1][1] <= left[i][1]
        BY <4>1 DEF InOrder
      <4>3. left[i][1] \in Int /\ right[k][1] \in Int /\ left[b + 1][1] \in Int
        BY <1>2, <1>3, <4>1
      <4>4. right[k][1] < left[b + 1][1]
        BY <1>6, <3>2, <4>3 DEF Geq
      <4>5. QED
        BY <4>2, <4>3, <4>4
    <3>3. QED
      BY <1>1, <2>1, <3>1, <3>2
  <2>2. ASSUME NEW i \in 1..L, NEW k \in 1..M, i <= b, k > e + 1 PROVE left[i][1] <= right[k][1]
    BY <1>1, <1>4, <2>2
  <2>3. e + 1 \in 0..M
    BY <1>1, <1>6
  <2>4. QED
    BY <1>1, <2>1, <2>2, <2>3 DEF Parts
<1>7. QED
  BY <1>5, <1>6

LEMMA PartsLess ==
  ASSUME NEW left \in Seq(Int \X Int), NEW right \in Seq(Int \X Int), InOrder(left), InOrder(right),
         NEW b, NEW e, Parts(left, right, b, e)
  PROVE  /\ e > 0 /\ (b = 0 \/ Geq(right[e], left[b])) => Parts(left, right, b, e - 1)
         /\ e > 0 /\ b > 0 /\ ~Geq(right[e], left[b]) => Parts(left, right, b - 1, e)
<1> PICK L \in Nat, M \in Nat : L = Len(left) /\ M = Len(right)
  OBVIOUS
<1>1. b \in 0..L /\ e \in 0..M
  BY DEF Parts
<1>2. \A i \in 1..L : left[i][1] \in Int
  BY Pairs
<1>3. \A k \in 1..M : right[k][1] \in Int
  BY Pairs
<1>4. \A i \in 1..L, k \in 1..M : /\ i <= b /\ k > e => left[i][1] <= right[k][1]
                                  /\ i > b /\ k <= e => right[k][1] < left[i][1]
  BY DEF Parts
<1>5. ASSUME e > 0, b = 0 \/ Geq(right[e], left[b]) PROVE Parts(left, right, b, e - 1)
  <2>1. ASSUME NEW i \in 1..L, NEW k \in 1..M, i <= b, k > e - 1 PROVE left[i][1] <= right[k][1]
    <3>1. CASE k > e
      BY <1>4, <2>1, <3>1
    <3>2. CASE k = e
      <4>1. b \in 1..L /\ i <= b /\ b # 0
        BY <1>1, <2>1
      <4>2. left[i][1] <= left[b][1]
        BY <4>1 DEF InOrder
      <4>3. left[i][1] \in Int /\ right[k][1] \in Int /\ left[b][1] \in Int
        BY <1>2, <1>3, <4>1
      <4>4. left[b][1] <= right[k][1]
        BY <1>5, <3>2, <4>1, <4>3 DEF Geq
      <4>5. QED
        BY <4>2, <4>3, <4>4
    <3>3. QED
      BY <1>1, <2>1, <3>1, <3>2
  <2>2. ASSUME NEW i \in 1..L, NEW k \in 1..M, i > b, k <= e - 1 PROVE right[k][1] < left[i][1]
    BY <1>1, <1>4, <2>2
  <2>3. e - 1 \in 0..M
    BY <1>1, <1>5
  <2>4. QED
    BY <1>1, <2>1, <2>2, <2>3 DEF Parts
<1>6. ASSUME e > 0, b > 0, ~Geq(right[e], left[b]) PROVE Parts(left, right, b - 1, e)
  <2>1. ASSUME NEW i \in 1..L, NEW k \in 1..M, i > b - 1, k <= e PROVE right[k][1] < left[i][1]
    <3>1. CASE i > b
      BY <1>4, <2>1, <3>1
    <3>2. CASE i = b
      <4>1. e \in 1..M /\ k <= e
        BY <1>1, <1>6, <2>1
      <4>2. right[k][1] <= right[e][1]
        BY <4>1 DEF InOrder
      <4>3. left[i][1] \in Int /\ right[k][1] \in Int /\ right[e][1] \in Int
        BY <1>2, <1>3, <4>1
      <4>4. right[e][1] < left[i][1]
        BY <1>6, <3>2, <4>3 DEF Geq
      <4>5. QED
        BY <4>2, <4>3, <4>4
    <3>3. QED
      BY <1>1, <2>1, <3>1, <3>2
  <2>2. ASSUME NEW i \in 1..L, NEW k \in 1..M, i <= b - 1, k > e PROVE left[i][1] <= right[k][1]
    BY <1>1, <1>4, <2>2
  <2>3. b - 1 \in 0..L
    BY <1>1, <1>6
  <2>4. QED
    BY <1>1, <2>1, <2>2, <2>3 DEF Parts
<1>7. QED
  BY <1>5, <1>6

LEMMA LowerTakes ==
  ASSUME NEW left \in Seq(Int \X Int), NEW right \in Seq(Int \X Int), InOrder(left), InOrder(right)
  PROVE  \E b, e : /\ Parts(left, right, b, e) /\ b + e = Len(left)
                   /\ Elems(Lower(left, right)) = From(left, 0, b) \cup From(right, 0, e)
<1> PICK S : S = Int \X Int
  OBVIOUS
<1> PICK L \in Nat, M \in Nat : L = Len(left) /\ M = Len(right)
  OBVIOUS
<1>1. PICK f : IsLower(f, left, right) /\ Lower(left, right) = f[<<0, 0>>]
  BY LowerIs
<1>2. /\ \A b \in 0..(L - 1) : left[b + 1] \in S
      /\ \A t \in 0..(M - 1) : right[t + 1] \in S
  OBVIOUS
<1> DEFINE Ends(b, t, c, d) == /\ b <= c /\ t <= d /\ c + d = L /\ Parts(left, right, c, d)
                               /\ Elems(f[<<b, t>>]) = From(left, b, c) \cup From(right, t, d)
           Fine(b, t) == f[<<b, t>>] \in Seq(S) /\ \E c \in 0..L, d \in 0..M : Ends(b, t, c, d)
           T == {m \in Nat : \A b \in 0..L, t \in 0..M :
                    b + t + m = L /\ Parts(left, right, b, t) => Fine(b, t)}
<1>3. \A b \in 0..L, t \in 0..M :
        f[<<b, t>>] = IF b + t >= L THEN <<>>
                      ELSE IF t = M \/ Geq(right[t + 1], left[b + 1])
                           THEN <<left[b + 1]>> \o f[<<b + 1, t>>]
                           ELSE <<right[t + 1]>> \o f[<<b, t + 1>>]
  BY <1>1 DEF IsLower, LowerBody, Places
<1>4. 0 \in T
  <2>1. ASSUME NEW b \in 0..L, NEW t \in 0..M, b + t + 0 = L, Parts(left, right, b, t) PROVE Fine(b, t)
    <3>1. b + t >= L /\ b + t = L /\ b <= b /\ t <= t /\ b \in Int /\ t \in Int
      BY <2>1
    <3>2. f[<<b, t>>] = <<>>
      BY <1>3, <3>1, Zenon
    <3>3. Elems(<<>>) = {}
      BY DEF Elems
    <3>4. Ends(b, t, b, t)
      BY <2>1, <3>1, <3>2, <3>3, FromNone
    <3>5. <<>> \in Seq(S)
      OBVIOUS
    <3> HIDE DEF Ends
    <3>6. QED
      BY <3>2, <3>4, <3>5
  <2> HIDE DEF Fine
  <2>2. QED
    BY <2>1
<1>5. ASSUME NEW m \in Nat, m \in T PROVE m + 1 \in T
  <2>1. ASSUME NEW b \in 0..L, NEW t \in 0..M, b + t + (m + 1) = L, Parts(left, right, b, t) PROVE Fine(b, t)
    <3>1. b \in 0..(L - 1) /\ b + 1 \in 0..L /\ (b + 1) + t + m = L /\ b + (t + 1) + m = L /\ ~(b + t >= L)
          /\ (t # M => t \in 0..(M - 1) /\ t + 1 \in 0..M) /\ b < L /\ b \in Int /\ t \in Int
      BY <2>1
    <3>2. CASE t = M \/ Geq(right[t + 1], left[b + 1])
      <4>1. f[<<b, t>>] = <<left[b + 1]>> \o f[<<b + 1, t>>]
        BY <1>3, <3>1, <3>2
      <4>2. Parts(left, right, b + 1, t)
        BY <2>1, <3>1, <3>2, PartsNext
      <4>3. Fine(b + 1, t)
        BY <1>5, <3>1, <4>2
      <4>4. PICK c \in 0..L, d \in 0..M : Ends(b + 1, t, c, d)
        BY <4>3
      <4> PICK v, g : v = left[b + 1] /\ g = f[<<b + 1, t>>]
        OBVIOUS
      <4>5. v \in S /\ g \in Seq(S) /\ <<v>> \o g \in Seq(S)
        BY <1>2, <3>1, <4>3
      <4>6. Elems(<<v>> \o g) = {v} \cup Elems(g)
        BY <4>5, ElemsBefore
      <4>7. b < c /\ b <= c /\ c \in Int
        <5>1. b + 1 <= c
          BY <4>4
        <5>2. QED
          BY ONLY <3>1, <5>1, c \in 0..L, L \in Nat
      <4>8. From(left, b, c) = {v} \cup From(left, b + 1, c)
        BY ONLY <3>1, <4>7, FromFirst, v = left[b + 1]
      <4>9. Elems(f[<<b, t>>]) = From(left, b, c) \cup From(right, t, d)
        BY <4>1, <4>4, <4>6, <4>8
      <4>10. Ends(b, t, c, d)
        BY <4>4, <4>7, <4>9
      <4> HIDE DEF Ends
      <4>11. QED
        BY <4>1, <4>5, <4>10
    <3>3. CASE ~(t = M \/ Geq(right[t + 1], left[b + 1]))
      <4>1. f[<<b, t>>] = <<right[t + 1]>> \o f[<<b, t + 1>>]
        BY <1>3, <3>1, <3>3
      <4>2. t \in 0..(M - 1) /\ t + 1 \in 0..M /\ t < M
        BY <3>1, <3>3
      <4>3. Parts(left, right, b, t + 1)
        BY <2>1, <3>1, <3>3, <4>2, PartsNext
      <4>4. Fine(b, t + 1)
        BY <1>5, <3>1, <4>2, <4>3
      <4>5. PICK c \in 0..L, d \in 0..M : Ends(b, t + 1, c, d)
        BY <4>4
      <4> PICK v, g : v = right[t + 1] /\ g = f[<<b, t + 1>>]
        OBVIOUS
      <4>6. v \in S /\ g \in Seq(S) /\ <<v>> \o g \in Seq(S)
        BY <1>2, <4>2, <4>4
      <4>7. Elems(<<v>> \o g) = {v} \cup Elems(g)
        BY <4>6, ElemsBefore
      <4>8. t < d /\ t <= d /\ d \in Int
        BY <3>1, <4>5
      <4>9. From(right, t, d) = {v} \cup From(right, t + 1, d)
        BY ONLY <3>1, <4>8, FromFirst, v = right[t + 1]
      <4>10. Elems(f[<<b, t>>]) = From(left, b, c) \cup From(right, t, d)
        BY <4>1, <4>5, <4>7, <4>9
      <4>11. Ends(b, t, c, d)
        BY <4>5, <4>8, <4>10
      <4> HIDE DEF Ends
      <4>12. QED
        BY <4>1, <4>6, <4>11
    <3>4. QED
      BY <3>2, <3>3
  <2> HIDE DEF Fine
  <2>2. QED
    BY <2>1
<1>6. L \in T
  <2> HIDE DEF T
  <2>1. QED
    BY <1>4, <1>5, Upwards
<1>7. Parts(left, right, 0, 0)
  BY DEF Parts
<1>8. Fine(0, 0)
  <2>1. 0 \in 0..L /\ 0 \in 0..M /\ 0 + 0 + L = L
    OBVIOUS
  <2> HIDE DEF Fine
  <2>2. QED
    BY <1>6, <1>7, <2>1
<1>9. QED
  BY <1>1, <1>8

LEMMA UpperTakes ==
  ASSUME NEW left \in Seq(Int \X Int), NEW right \in Seq(Int \X Int), InOrder(left), InOrder(right)
  PROVE  \E b, e : /\ Parts(left, right, b, e) /\ b + e = Len(left)
                   /\ Elems(Upper(right, left)) = From(left, b, Len(left)) \cup From(right, e, Len(right))
<1> PICK S : S = Int \X Int
  OBVIOUS
<1> PICK L \in Nat, M \in Nat : L = Len(right) /\ M = Len(left)
  OBVIOUS
<1>1. PICK f : IsUpper(f, right, left) /\ Upper(right, left) = f[<<Len(right), Len(left)>>]
  BY UpperIs
<1>2. /\ \A b \in 1..L : right[b] \in S
      /\ \A t \in 1..M : left[t] \in S
  OBVIOUS
<1> DEFINE Ends(b, t, c, d) == /\ c <= b /\ d <= t /\ c + d = M /\ Parts(left, right, d, c)
                               /\ Elems(f[<<b, t>>]) = From(left, d, t) \cup From(right, c, b)
           Fine(b, t) == f[<<b, t>>] \in Seq(S) /\ \E c \in 0..L, d \in 0..M : Ends(b, t, c, d)
           T == {m \in Nat : \A b \in 0..L, t \in 0..M :
                    b + t = M + m /\ Parts(left, right, t, b) => Fine(b, t)}
<1>3. \A b \in 0..L, t \in 0..M :
        f[<<b, t>>] = IF (L - b) + (M - t) >= L THEN <<>>
                      ELSE IF t = 0 \/ Geq(right[b], left[t])
                           THEN Append(f[<<b - 1, t>>], right[b])
                           ELSE Append(f[<<b, t - 1>>], left[t])
  BY <1>1 DEF IsUpper, UpperBody, Places
<1>4. 0 \in T
  <2>1. ASSUME NEW b \in 0..L, NEW t \in 0..M, b + t = M + 0, Parts(left, right, t, b) PROVE Fine(b, t)
    <3>1. (L - b) + (M - t) >= L /\ b + t = M /\ b <= b /\ t <= t /\ b \in Int /\ t \in Int
      BY <2>1
    <3>2. f[<<b, t>>] = <<>>
      BY <1>3, <3>1, Zenon
    <3>3. Elems(<<>>) = {}
      BY DEF Elems
    <3>4. Ends(b, t, b, t)
      BY <2>1, <3>1, <3>2, <3>3, FromNone
    <3>5. <<>> \in Seq(S)
      OBVIOUS
    <3> HIDE DEF Ends
    <3>6. QED
      BY <3>2, <3>4, <3>5
  <2> HIDE DEF Fine
  <2>2. QED
    BY <2>1
<1>5. ASSUME NEW m \in Nat, m \in T PROVE m + 1 \in T
  <2>1. ASSUME NEW b \in 0..L, NEW t \in 0..M, b + t = M + (m + 1), Parts(left, right, t, b) PROVE Fine(b, t)
    <3>1. b \in 1..L /\ b - 1 \in 0..L /\ (b - 1) + t = M + m /\ b + (t - 1) = M + m
          /\ ~((L - b) + (M - t) >= L) /\ (t # 0 => t \in 1..M /\ t - 1 \in 0..M /\ t > 0)
          /\ b > 0 /\ b \in Int /\ t \in Int
      BY <2>1
    <3>2. CASE t = 0 \/ Geq(right[b], left[t])
      <4>1. f[<<b, t>>] = Append(f[<<b - 1, t>>], right[b])
        BY <1>3, <3>1, <3>2
      <4>2. Parts(left, right, t, b - 1)
        BY <2>1, <3>1, <3>2, PartsLess
      <4>3. Fine(b - 1, t)
        BY <1>5, <3>1, <4>2
      <4>4. PICK c \in 0..L, d \in 0..M : Ends(b - 1, t, c, d)
        BY <4>3
      <4> PICK v, g : v = right[b] /\ g = f[<<b - 1, t>>]
        OBVIOUS
      <4>5. v \in S /\ g \in Seq(S) /\ Append(g, v) \in Seq(S)
        BY <1>2, <3>1, <4>3
      <4>6. Elems(Append(g, v)) = {v} \cup Elems(g)
        BY <4>5, ElemsBehind
      <4>7. c < b /\ c <= b /\ c \in Int
        <5>1. c <= b - 1
          BY <4>4
        <5>2. QED
          BY ONLY <3>1, <5>1, c \in 0..L, L \in Nat
      <4>8. From(right, c, b) = {v} \cup From(right, c, b - 1)
        BY <3>1, <4>7, FromLast
      <4>9. Elems(f[<<b, t>>]) = From(left, d, t) \cup From(right, c, b)
        BY <4>1, <4>4, <4>6, <4>8
      <4>10. Ends(b, t, c, d)
        BY <4>4, <4>7, <4>9
      <4> HIDE DEF Ends
      <4>11. QED
        BY <4>1, <4>5, <4>10
    <3>3. CASE ~(t = 0 \/ Geq(right[b], left[t]))
      <4>1. f[<<b, t>>] = Append(f[<<b, t - 1>>], left[t])
        BY <1>3, <3>1, <3>3
      <4>2. t \in 1..M /\ t - 1 \in 0..M /\ t > 0
        BY <3>1, <3>3
      <4>3. Parts(left, right, t - 1, b)
        BY <2>1, <3>1, <3>3, <4>2, PartsLess
      <4>4. Fine(b, t - 1)
        BY <1>5, <3>1, <4>2, <4>3
      <4>5. PICK c \in 0..L, d \in 0..M : Ends(b, t - 1, c, d)
        BY <4>4
      <4> PICK v, g : v = left[t] /\ g = f[<<b, t - 1>>]
        OBVIOUS
      <4>6. v \in S /\ g \in Seq(S) /\ Append(g, v) \in Seq(S)
        BY <1>2, <4>2, <4>4
      <4>7. Elems(Append(g, v)) = {v} \cup Elems(g)
        BY ONLY <4>6, ElemsBehind
      <4>8. d < t /\ d <= t /\ d \in Int
        BY <3>1, <4>5
      <4>9. From(left, d, t) = {v} \cup From(left, d, t - 1)
        BY <3>1, <4>8, FromLast
      <4>10. Elems(f[<<b, t>>]) = From(left, d, t) \cup From(right, c, b)
        BY <4>1, <4>5, <4>7, <4>9
      <4>11. Ends(b, t, c, d)
        BY <4>5, <4>8, <4>10
      <4> HIDE DEF Ends
      <4>12. QED
        BY <4>1, <4>6, <4>11
    <3>4. QED
      BY <3>2, <3>3
  <2> HIDE DEF Fine
  <2>2. QED
    BY <2>1
<1>6. L \in T
  <2> HIDE DEF T
  <2>1. QED
    BY <1>4, <1>5, Upwards
<1>7. Parts(left, right, M, L)
  BY DEF Parts
<1>8. Fine(L, M)
  <2>1. L \in 0..L /\ M \in 0..M /\ L + M = M + L
    OBVIOUS
  <2> HIDE DEF Fine
  <2>2. QED
    BY <1>6, <1>7, <2>1
<1>9. PICK c \in 0..L, d \in 0..M : Ends(L, M, c, d)
  BY <1>8
<1>10. Parts(left, right, d, c) /\ d + c = M /\ Elems(f[<<L, M>>]) = From(left, d, M) \cup From(right, c, L)
  BY <1>9
<1>11. QED
  BY <1>1, <1>10

\* Two processes that merge keep, between them, the numbers they had.
LEMMA MergeKeeps ==
  ASSUME NEW left \in Seq(Int \X Int), NEW right \in Seq(Int \X Int), InOrder(left), InOrder(right)
  PROVE  Elems(Lower(left, right)) \cup Elems(Upper(right, left)) = Elems(left) \cup Elems(right)
<1>1. PICK b, e : /\ Parts(left, right, b, e) /\ b + e = Len(left)
                  /\ Elems(Lower(left, right)) = From(left, 0, b) \cup From(right, 0, e)
  BY LowerTakes
<1>2. PICK c, d : /\ Parts(left, right, c, d) /\ c + d = Len(left)
                  /\ Elems(Upper(right, left)) = From(left, c, Len(left)) \cup From(right, d, Len(right))
  BY UpperTakes
<1>3. b = c /\ e = d
  BY <1>1, <1>2, PartsUnique
<1>4. b \in 0..Len(left) /\ e \in 0..Len(right)
  BY <1>1 DEF Parts
<1>5. From(left, 0, b) \cup From(left, b, Len(left)) = Elems(left)
  BY <1>4, FromBoth
<1>6. From(right, 0, e) \cup From(right, e, Len(right)) = Elems(right)
  BY <1>4, FromBoth
<1>7. QED
  BY <1>1, <1>2, <1>3, <1>5, <1>6

-----------------------------------------------------------------------------
(* How far numbers have moved.  For a value, A[j] is how many of the       *)
(* numbers above it are in blocks j and behind it: W of them in all, in N  *)
(* blocks of b, which fill Q blocks and no more.  A phase moves as many as *)
(* it can over every other border.                                         *)

Tally(A, N, b, W) ==
  /\ A \in [0..N -> Int] /\ A[0] = W /\ A[N] = 0
  /\ \A j \in 0..(N - 1) : A[j] - A[j + 1] \in 0..b

Moved(A, B, N, b, t) ==
  \A j \in 0..N : B[j] = IF 0 < j /\ j < N /\ (j % 2) # (t % 2)
                         THEN AtMost(A[j + 1] + b, A[j - 1]) ELSE A[j]

\* As many as g blocks hold, if there are so many
Full(W, b, g) == AtMost(W, g * b)

\* Before phase t, enough phases have passed for g blocks behind border j to be
\* filled.
Late(Q, g, j, t) == t >= 2 * g + j - Q - 1 + (IF j % 2 = t % 2 THEN 0 ELSE 1)

Arrived(A, N, b, W, Q, t) ==
  \A g, j \in 0..N : g + j <= N /\ Late(Q, g, j, t) => A[j] >= Full(W, b, g)

LEMMA FullIs ==
  ASSUME NEW W \in Nat, NEW b \in Nat \ {0}, NEW Q \in Nat, Q * b <= W, W < (Q + 1) * b
  PROVE  /\ \A g \in Nat : Full(W, b, g) \in Nat /\ Full(W, b, g) <= W
         /\ Full(W, b, 0) = 0
         /\ \A g \in Nat : Full(W, b, g + 1) <= Full(W, b, g) + b
         /\ \A g \in Nat : g > Q => Full(W, b, g) = W
         /\ \A g, j \in Nat : g + j <= Q => Full(W, b, g) <= W - j * b
<1>1. \A g \in Nat : g * b \in Nat /\ (g + 1) * b = g * b + b
  OBVIOUS
<1>2. \A g \in Nat : Full(W, b, g) \in Nat /\ Full(W, b, g) <= W
  BY <1>1 DEF Full, AtMost
<1>3. Full(W, b, 0) = 0
  BY DEF Full, AtMost
<1>4. \A g \in Nat : Full(W, b, g + 1) <= Full(W, b, g) + b
  BY <1>1 DEF Full, AtMost
<1>5. ASSUME NEW g \in Nat, g > Q PROVE Full(W, b, g) = W
  <2>1. (Q + 1) * b <= g * b
    BY <1>5, TimesMonotone
  <2>2. QED
    BY <1>1, <2>1 DEF Full, AtMost
<1>6. ASSUME NEW g \in Nat, NEW j \in Nat, g + j <= Q PROVE Full(W, b, g) <= W - j * b
  <2>1. (g + j) * b <= Q * b
    BY <1>6, TimesMonotone
  <2>2. (g + j) * b = g * b + j * b
    OBVIOUS
  <2>3. g * b \in Nat /\ j * b \in Nat /\ Q * b \in Nat
    BY <1>1
  <2>4. QED
    BY <2>1, <2>2, <2>3 DEF Full, AtMost
<1>7. QED
  BY <1>2, <1>3, <1>4, <1>5, <1>6

LEMMA TallyBounds ==
  ASSUME NEW N \in Nat, NEW b \in Nat, NEW W \in Nat, NEW A, Tally(A, N, b, W)
  PROVE  \A j \in 0..N : A[j] \in Int /\ W - j * b <= A[j] /\ A[j] <= W /\ A[j] <= (N - j) * b
<1>1. \A j \in Int : j * b \in Int /\ (j + 1) * b = j * b + b
  OBVIOUS
<1>2. A[0] = W /\ A[N] = 0 /\ (\A j \in 0..N : A[j] \in Int)
      /\ \A j \in 0..(N - 1) : A[j] - A[j + 1] >= 0 /\ A[j] - A[j + 1] <= b
  BY DEF Tally
<1> DEFINE T == {j \in 0..N : W - j * b <= A[j] /\ A[j] <= W}
           V == {j \in 0..N : A[N - j] <= j * b}
<1>3. \A j \in 0..N : j \in T
  <2>1. 0 \in T
    BY <1>2
  <2>2. ASSUME NEW j \in 0..(N - 1), j \in T PROVE j + 1 \in T
    <3>1. j + 1 \in 0..N /\ j \in 0..N /\ A[j] \in Int /\ A[j + 1] \in Int
      BY <1>2
    <3>2. A[j] - A[j + 1] >= 0 /\ A[j] - A[j + 1] <= b /\ W - j * b <= A[j] /\ A[j] <= W
      BY <1>2, <2>2
    <3>3. j * b \in Int /\ (j + 1) * b = j * b + b
      BY <1>1
    <3>4. W - (j + 1) * b <= A[j + 1] /\ A[j + 1] <= W
      BY <3>1, <3>2, <3>3
    <3>5. QED
      BY <3>1, <3>4
  <2> HIDE DEF T
  <2>3. QED
    BY <2>1, <2>2, UpTo
<1>4. \A j \in 0..N : j \in V
  <2>1. 0 \in V
    BY <1>2
  <2>2. ASSUME NEW j \in 0..(N - 1), j \in V PROVE j + 1 \in V
    <3>1. j + 1 \in 0..N /\ N - (j + 1) \in 0..(N - 1) /\ (N - (j + 1)) + 1 = N - j /\ N - j \in 0..N
          /\ N - (j + 1) \in 0..N
      OBVIOUS
    <3>2. A[N - (j + 1)] - A[N - j] <= b /\ A[N - (j + 1)] \in Int /\ A[N - j] \in Int /\ A[N - j] <= j * b
      BY <1>2, <2>2, <3>1
    <3>3. j * b \in Int /\ (j + 1) * b = j * b + b
      BY <1>1
    <3>4. A[N - (j + 1)] <= (j + 1) * b
      BY <3>2, <3>3
    <3>5. QED
      BY <3>1, <3>4
  <2> HIDE DEF V
  <2>3. QED
    BY <2>1, <2>2, UpTo
<1>5. ASSUME NEW j \in 0..N PROVE A[j] <= (N - j) * b
  <2>1. N - j \in 0..N /\ N - (N - j) = j
    OBVIOUS
  <2>2. QED
    BY <1>4, <2>1
<1>6. QED
  BY <1>2, <1>3, <1>5

LEMMA TallyNotNegative ==
  ASSUME NEW N \in Nat, NEW b \in Nat, NEW W \in Nat, NEW A, Tally(A, N, b, W)
  PROVE  \A j \in 0..N : A[j] \in Int /\ A[j] >= 0
<1> DEFINE T == {i \in 0..N : A[N - i] >= 0}
<1>1. 0 \in T
  BY DEF Tally
<1>2. ASSUME NEW i \in 0..(N - 1), i \in T PROVE i + 1 \in T
  <2>1. i + 1 \in 0..N /\ N - (i + 1) \in 0..(N - 1) /\ (N - (i + 1)) + 1 = N - i /\ N - i \in 0..N
        /\ N - (i + 1) \in 0..N
    OBVIOUS
  <2>2. A[N - (i + 1)] - A[N - i] >= 0 /\ A[N - (i + 1)] \in Int /\ A[N - i] \in Int /\ A[N - i] >= 0
    BY <1>2, <2>1 DEF Tally
  <2>3. QED
    BY <2>1, <2>2
<1> HIDE DEF T
<1>3. \A i \in 0..N : i \in T
  BY <1>1, <1>2, UpTo
<1>4. ASSUME NEW j \in 0..N PROVE A[j] \in Int /\ A[j] >= 0
  <2>1. N - j \in 0..N /\ N - (N - j) = j
    OBVIOUS
  <2>2. QED
    BY <1>3, <2>1 DEF T, Tally
<1>5. QED
  BY <1>4

LEMMA ArrivedFirst ==
  ASSUME NEW N \in Nat, NEW b \in Nat \ {0}, NEW W \in Nat, NEW Q \in Nat, Q * b <= W, W < (Q + 1) * b,
         NEW A, Tally(A, N, b, W)
  PROVE  Arrived(A, N, b, W, Q, 0)
<1> SUFFICES ASSUME NEW g \in 0..N, NEW j \in 0..N, Late(Q, g, j, 0) PROVE A[j] >= Full(W, b, g)
  BY DEF Arrived
<1>1. A[j] \in Int /\ A[j] >= W - j * b /\ A[j] >= 0
  <2>1. \A i \in 0..N : A[i] \in Int /\ W - i * b <= A[i]
    BY TallyBounds
  <2>2. A[j] >= 0
    BY TallyNotNegative
  <2>3. QED
    BY <2>1, <2>2
<1>2. CASE g = 0
  BY <1>1, <1>2, FullIs
<1>3. CASE g # 0
  <2>1. 0 >= 2 * g + j - Q - 1
    BY DEF Late
  <2>2. g \in Nat /\ j \in Nat /\ g + j <= Q
    BY <1>3, <2>1
  <2>3. Full(W, b, g) <= W - j * b /\ Full(W, b, g) \in Nat
    BY <2>2, FullIs
  <2>4. j * b \in Int
    OBVIOUS
  <2>5. QED
    BY <1>1, <2>3, <2>4
<1>4. QED
  BY <1>2, <1>3

LEMMA Between3 ==
  ASSUME NEW b \in Nat, NEW x \in Int, NEW y \in Int, NEW z \in Int, x - y \in 0..b, y - z \in 0..b
  PROVE  AtMost(z + b, x) - z \in 0..b /\ x - AtMost(z + b, x) \in 0..b
BY DEF AtMost

LEMMA TallyNext ==
  ASSUME NEW N \in Nat, NEW b \in Nat, NEW W \in Nat, NEW t \in Nat,
         NEW A, Tally(A, N, b, W), NEW B \in [0..N -> Int], Moved(A, B, N, b, t)
  PROVE  Tally(B, N, b, W)
<1>1. A[0] = W /\ A[N] = 0 /\ (\A j \in 0..N : A[j] \in Int)
      /\ \A j \in 0..(N - 1) : A[j] - A[j + 1] >= 0 /\ A[j] - A[j + 1] <= b
  BY DEF Tally
<1>2. B[0] = W /\ B[N] = 0
  <2>1. 0 \in 0..N /\ N \in 0..N
    OBVIOUS
  <2>2. B[0] = A[0] /\ B[N] = A[N]
    BY <2>1 DEF Moved
  <2>3. QED
    BY <1>1, <2>2
<1>3. ASSUME NEW j \in 0..(N - 1) PROVE B[j] - B[j + 1] \in 0..b
  <2>1. j \in 0..N /\ j + 1 \in 0..N /\ ((j + 1) % 2) # (j % 2) /\ (j + 1) - 1 = j
    OBVIOUS
  <2>2. B[j] = IF 0 < j /\ j < N /\ (j % 2) # (t % 2) THEN AtMost(A[j + 1] + b, A[j - 1]) ELSE A[j]
    BY <2>1 DEF Moved
  <2>3. B[j + 1] = IF 0 < j + 1 /\ j + 1 < N /\ ((j + 1) % 2) # (t % 2)
                   THEN AtMost(A[(j + 1) + 1] + b, A[(j + 1) - 1]) ELSE A[j + 1]
    BY <2>1 DEF Moved
  <2>4. A[j] \in Int /\ A[j + 1] \in Int /\ A[j] - A[j + 1] >= 0 /\ A[j] - A[j + 1] <= b
    BY <1>1, <2>1
  <2>5. CASE (j % 2) # (t % 2)
    <3>1. B[j + 1] = A[j + 1]
      BY <2>1, <2>3, <2>5
    <3>2. CASE 0 < j
      <4>1. j - 1 \in 0..(N - 1) /\ (j - 1) + 1 = j /\ j - 1 \in 0..N
        BY <3>2
      <4>2. A[j - 1] \in Int /\ A[j - 1] - A[j] >= 0 /\ A[j - 1] - A[j] <= b
        BY <1>1, <4>1
      <4>3. B[j] = AtMost(A[j + 1] + b, A[j - 1])
        BY <2>2, <2>5, <3>2
      <4>4. A[j - 1] - A[j] \in 0..b /\ A[j] - A[j + 1] \in 0..b
        BY ONLY <2>4, <4>2, b \in Nat
      <4>5. AtMost(A[j + 1] + b, A[j - 1]) - A[j + 1] \in 0..b
        BY <2>4, <4>2, <4>4, Between3
      <4>6. QED
        BY <3>1, <4>3, <4>5
    <3>3. CASE ~(0 < j)
      BY <2>2, <2>4, <3>1, <3>3
    <3>4. QED
      BY <3>2, <3>3
  <2>6. CASE (j % 2) = (t % 2)
    <3>1. B[j] = A[j]
      BY <2>2, <2>6
    <3>2. CASE j + 1 < N
      <4>1. j + 1 \in 0..(N - 1) /\ (j + 1) + 1 \in 0..N
        BY <3>2
      <4>2. A[(j + 1) + 1] \in Int /\ A[j + 1] - A[(j + 1) + 1] >= 0 /\ A[j + 1] - A[(j + 1) + 1] <= b
        BY <1>1, <4>1
      <4>3. B[j + 1] = AtMost(A[(j + 1) + 1] + b, A[j])
        BY <2>1, <2>3, <2>6, <3>2
      <4>4. A[j] - A[j + 1] \in 0..b /\ A[j + 1] - A[(j + 1) + 1] \in 0..b
        BY <2>4, <4>2
      <4> PICK x, y, z : x = A[j] /\ y = A[j + 1] /\ z = A[(j + 1) + 1]
        OBVIOUS
      <4>5. A[j] - AtMost(A[(j + 1) + 1] + b, A[j]) \in 0..b
        <5>1. x \in Int /\ y \in Int /\ z \in Int /\ x - y \in 0..b /\ y - z \in 0..b
          BY <2>4, <4>2, <4>4
        <5>2. x - AtMost(z + b, x) \in 0..b
          BY ONLY <5>1, b \in Nat, Between3
        <5>3. QED
          BY <5>2
      <4>6. QED
        BY <3>1, <4>3, <4>5
    <3>3. CASE ~(j + 1 < N)
      BY <2>3, <2>4, <3>1, <3>3
    <3>4. QED
      BY <3>2, <3>3
  <2>7. QED
    BY <2>5, <2>6
<1>4. QED
  BY <1>2, <1>3 DEF Tally

LEMMA ArrivedNext ==
  ASSUME NEW N \in Nat, NEW b \in Nat \ {0}, NEW W \in Nat, NEW Q \in Nat, Q * b <= W, W < (Q + 1) * b,
         NEW t \in Nat, NEW A, Tally(A, N, b, W), Arrived(A, N, b, W, Q, t),
         NEW B \in [0..N -> Int], Moved(A, B, N, b, t)
  PROVE  Arrived(B, N, b, W, Q, t + 1)
<1> SUFFICES ASSUME NEW g \in 0..N, NEW j \in 0..N, g + j <= N, Late(Q, g, j, t + 1)
             PROVE  B[j] >= Full(W, b, g)
  BY DEF Arrived
<1>1. \A i \in 0..N : A[i] \in Int
  BY DEF Tally
<1>2. B[j] = IF 0 < j /\ j < N /\ (j % 2) # (t % 2) THEN AtMost(A[j + 1] + b, A[j - 1]) ELSE A[j]
  BY DEF Moved
<1>3. Full(W, b, g) \in Nat /\ Full(W, b, g) <= W
  <2>1. g \in Nat
    OBVIOUS
  <2>2. QED
    BY <2>1, FullIs
<1>4. CASE j = 0
  BY <1>2, <1>3, <1>4 DEF Tally
<1>5. CASE j = N
  <2>1. g = 0 /\ A[N] = 0
    BY <1>5 DEF Tally
  <2>2. QED
    BY <1>2, <1>5, <2>1, FullIs
<1>6. CASE 0 < j /\ j < N /\ (j % 2) = (t % 2)
  <2>1. ((t + 1) % 2) # (t % 2)
    OBVIOUS
  <2>2. Late(Q, g, j, t)
    BY <1>6, <2>1 DEF Late
  <2>3. QED
    BY <1>2, <1>6, <2>2 DEF Arrived
<1>7. CASE 0 < j /\ j < N /\ (j % 2) # (t % 2)
  <2>1. /\ t + 1 >= 2 * g + j - Q - 1
        /\ ((j + 1) % 2) = (t % 2) /\ ((j - 1) % 2) = (t % 2)
        /\ j + 1 \in 0..N /\ j - 1 \in 0..N
    <3>1. ((j + 1) % 2) = (t % 2) /\ ((j - 1) % 2) = (t % 2)
      BY <1>7
    <3>2. QED
      BY <1>7, <3>1 DEF Late
  <2>2. A[j - 1] >= Full(W, b, g)
    <3>1. Late(Q, g, j - 1, t)
      BY <2>1 DEF Late
    <3>2. g + (j - 1) <= N
      OBVIOUS
    <3>3. QED
      BY <2>1, <3>1, <3>2 DEF Arrived
  <2>3. A[j + 1] + b >= Full(W, b, g)
    <3>1. CASE g = 0
      <4>1. A[j + 1] \in Int /\ A[j + 1] >= 0
        BY <2>1, TallyNotNegative
      <4>2. Full(W, b, g) = 0
        BY <3>1, FullIs
      <4>3. QED
        BY <4>1, <4>2
    <3>2. CASE g # 0
      <4>1. g - 1 \in 0..N /\ (g - 1) + 1 = g /\ g - 1 \in Nat /\ (g - 1) + (j + 1) <= N
        BY <3>2
      <4>2. Late(Q, g - 1, j + 1, t)
        BY <2>1, <4>1 DEF Late
      <4>3. A[j + 1] >= Full(W, b, g - 1)
        BY <2>1, <4>1, <4>2 DEF Arrived
      <4>4. Full(W, b, g) <= Full(W, b, g - 1) + b /\ Full(W, b, g - 1) \in Nat
        BY <4>1, FullIs
      <4>5. QED
        BY <1>1, <1>3, <2>1, <4>3, <4>4
    <3>3. QED
      BY <3>1, <3>2
  <2>4. QED
    BY <1>1, <1>2, <1>3, <1>7, <2>1, <2>2, <2>3 DEF AtMost
<1>8. QED
  BY <1>4, <1>5, <1>6, <1>7

LEMMA ArrivedLast ==
  ASSUME NEW N \in Nat, NEW b \in Nat \ {0}, NEW W \in Nat, NEW Q \in Nat, Q * b <= W, W < (Q + 1) * b,
         NEW A, Tally(A, N, b, W), Arrived(A, N, b, W, Q, N + 1)
  PROVE  \A j \in 0..N : A[j] = Full(W, b, N - j)
<1> SUFFICES ASSUME NEW j \in 0..N PROVE A[j] = Full(W, b, N - j)
  OBVIOUS
<1>1. A[j] \in Int /\ A[j] <= W /\ A[j] <= (N - j) * b
  BY TallyBounds
<1>2. N - j \in Nat /\ N - j \in 0..N /\ (N - j) * b \in Int /\ Full(W, b, N - j) \in Nat
  <2>1. N - j \in Nat /\ N - j \in 0..N
    OBVIOUS
  <2>2. QED
    <3>1. Full(W, b, N - j) \in Nat
      BY ONLY <2>1, W \in Nat, b \in Nat \ {0}, Q \in Nat, Q * b <= W, W < (Q + 1) * b, FullIs
    <3>2. (N - j) * b \in Int
      BY ONLY <2>1, b \in Nat \ {0}
    <3>3. QED
      BY <2>1, <3>1, <3>2
<1>3. A[j] <= Full(W, b, N - j)
  BY <1>1, <1>2 DEF Full, AtMost
<1>4. A[j] >= Full(W, b, N - j)
  <2>1. CASE N - j <= Q + 1
    <3>1. Late(Q, N - j, j, N + 1)
      BY <2>1 DEF Late
    <3>2. QED
      BY <1>2, <3>1 DEF Arrived
  <2>2. CASE N - j > Q + 1
    <3>1. Late(Q, Q + 1, j, N + 1)
      BY <2>2 DEF Late
    <3>2. Q + 1 \in 0..N /\ (Q + 1) + j <= N /\ Q + 1 \in Nat /\ Q + 1 > Q /\ N - j > Q
      BY <2>2
    <3>3. A[j] >= Full(W, b, Q + 1)
      BY <3>1, <3>2 DEF Arrived
    <3>4. Full(W, b, Q + 1) = W /\ Full(W, b, N - j) = W
      BY <1>2, <3>2, FullIs
    <3>5. QED
      BY <3>3, <3>4
  <2>3. QED
    BY <2>1, <2>2
<1>5. QED
  BY <1>1, <1>2, <1>3, <1>4

-----------------------------------------------------------------------------
(* Blocks.                                                                 *)

FileIn == in_f \in Seq(Int)

\* The blocks lie in the file, and the first is the largest.
LEMMA BlocksFit ==
  ASSUME FileIn, NEW r \in Ranks
  PROVE  /\ count_b_size(r) \in Nat /\ count_b_start(r) \in Nat
         /\ count_b_start(r) + count_b_size(r) <= n
         /\ count_b_size(r) <= count_b_size(0)
         /\ Block(r) \subseteq 1..n
<1> PICK N \in Nat, T \in Nat \ {0} : N = n /\ T = CommSize
  BY CommAssumption DEF FileIn, n
<1> PICK q, m : q = N \div T /\ m = N % T
  OBVIOUS
<1>1. q \in Nat /\ m \in 0..(T - 1) /\ N = T * q + m
  BY ONLY DivMod, N \in Nat, T \in Nat \ {0}, q = N \div T, m = N % T
<1>2. r \in 0..(T - 1)
  BY DEF Ranks
<1> PICK start, size : start = count_b_start(r) /\ size = count_b_size(r)
  OBVIOUS
<1>3. start = Piece(q, m, r)
  <2>1. start = IF r < m THEN q * r + r ELSE q * r + m
    BY DEF count_b_start
  <2>2. q * r \in Nat
    BY <1>1, <1>2
  <2>3. QED
    BY <1>1, <1>2, <2>1, <2>2 DEF Piece
<1>4. size = q + (IF r < m THEN 1 ELSE 0) /\ count_b_size(0) = q + (IF 0 < m THEN 1 ELSE 0)
  BY <1>1 DEF count_b_size
<1>5. /\ Piece(q, m, r) \in 0..(T * q + m) /\ Piece(q, m, r + 1) \in 0..(T * q + m)
      /\ Piece(q, m, r + 1) = Piece(q, m, r) + q + (IF r < m THEN 1 ELSE 0)
  <2>1. r \in 0..T /\ r + 1 \in 0..T
    BY <1>2
  <2>2. QED
    BY ONLY <1>1, <1>2, <2>1, PiecesAre, T \in Nat \ {0}
<1>6. /\ start \in Nat /\ size \in Nat /\ start + size <= N
      /\ size <= q + (IF 0 < m THEN 1 ELSE 0)
  BY <1>1, <1>2, <1>3, <1>4, <1>5
<1>7. Block(r) \subseteq 1..N
  <2>1. Block(r) = (start + 1)..(start + size)
    BY DEF Block
  <2>2. QED
    BY <1>6, <2>1
<1>8. QED
  BY <1>4, <1>6, <1>7

\* Before is a linear order.
LEMMA BeforeOrder ==
  /\ \A x, y, z \in Int \X Int : Before(x, y) /\ Before(y, z) => Before(x, z)
  /\ \A x, y \in Int \X Int : x = y \/ Before(x, y) \/ Before(y, x)
<1>1. ASSUME NEW x \in Int \X Int, NEW y \in Int \X Int, NEW z \in Int \X Int, Before(x, y), Before(y, z)
      PROVE  Before(x, z)
  BY <1>1 DEF Before
<1>2. ASSUME NEW x \in Int \X Int, NEW y \in Int \X Int
      PROVE  x = y \/ Before(x, y) \/ Before(y, x)
  BY DEF Before
<1>3. QED
  BY <1>1, <1>2

IsOrdered(s, m) == \A i, j \in 1..m : i < j => Before(s[i], s[j])

\* One more number finds its place in an ordered sequence.
LEMMA OneMoreOrdered ==
  ASSUME NEW S \in SUBSET (Int \X Int), NEW m \in Nat, NEW s \in [1..m -> S], IsOrdered(s, m),
         NEW x \in Int \X Int, x \notin S
  PROVE  \E t \in [1..(m + 1) -> S \cup {x}] : IsOrdered(t, m + 1)
<1> DEFINE E == {k \in 1..(m + 1) : k = m + 1 \/ Before(x, s[k])}
<1>1. E \subseteq Nat /\ m + 1 \in E
  OBVIOUS
<1>2. PICK k \in E : \A j \in E : k <= j
  BY <1>1, LeastElement
<1>3. k \in 1..(m + 1) /\ \A j \in 1..m : s[j] \in S /\ s[j] \in Int \X Int /\ s[j] # x
  OBVIOUS
<1>4. \A j \in 1..m : j < k => Before(s[j], x)
  <2>1. SUFFICES ASSUME NEW j \in 1..m, j < k PROVE Before(s[j], x)
    OBVIOUS
  <2>2. ~Before(x, s[j])
    BY <1>2, <1>3, <2>1
  <2>3. QED
    BY <1>3, <2>2, BeforeOrder
<1>5. \A j \in 1..m : j >= k => Before(x, s[j])
  <2>1. SUFFICES ASSUME NEW j \in 1..m, j >= k PROVE Before(x, s[j])
    OBVIOUS
  <2>2. k \in 1..m /\ Before(x, s[k])
    BY <1>2, <1>3, <2>1
  <2>3. CASE j = k
    BY <2>2, <2>3
  <2>4. CASE j > k
    <3>1. Before(s[k], s[j])
      BY <2>2, <2>4 DEF IsOrdered
    <3>2. QED
      BY <1>3, <2>2, <3>1, BeforeOrder
  <2>5. QED
    BY <1>3, <2>1, <2>3, <2>4
<1> HIDE DEF E
<1> DEFINE t == [j \in 1..(m + 1) |-> IF j < k THEN s[j] ELSE IF j = k THEN x ELSE s[j - 1]]
<1>6. t \in [1..(m + 1) -> S \cup {x}]
  <2>1. ASSUME NEW j \in 1..(m + 1) PROVE t[j] \in S \cup {x}
    <3>1. j < k => j \in 1..m
      BY <1>3
    <3>2. ~(j < k) /\ j # k => j - 1 \in 1..m
      BY <1>3
    <3>3. QED
      BY <1>3, <3>1, <3>2
  <2>2. QED
    BY <2>1
<1>7. ASSUME NEW i \in 1..(m + 1), NEW j \in 1..(m + 1), i < j PROVE Before(t[i], t[j])
  <2>1. t[i] = (IF i < k THEN s[i] ELSE IF i = k THEN x ELSE s[i - 1])
        /\ t[j] = (IF j < k THEN s[j] ELSE IF j = k THEN x ELSE s[j - 1])
    OBVIOUS
  <2> HIDE DEF t
  <2>2. CASE j < k
    <3>1. i \in 1..m /\ j \in 1..m /\ i < k
      BY <1>3, <1>7, <2>2
    <3>2. QED
      BY <1>7, <2>1, <2>2, <3>1 DEF IsOrdered
  <2>3. CASE j = k
    <3>1. i \in 1..m /\ i < k
      BY <1>3, <1>7, <2>3
    <3>2. QED
      BY <1>3, <1>4, <2>1, <2>3, <3>1
  <2>4. CASE j > k /\ i < k
    <3>1. i \in 1..m /\ j - 1 \in 1..m /\ i < j - 1 /\ ~(j < k) /\ j # k
      BY <1>3, <1>7, <2>4
    <3>2. t[i] = s[i] /\ t[j] = s[j - 1]
      BY <2>1, <2>4, <3>1
    <3>3. QED
      BY <3>1, <3>2 DEF IsOrdered
  <2>5. CASE j > k /\ i = k
    <3>1. j - 1 \in 1..m /\ j - 1 >= k /\ ~(j < k) /\ j # k /\ ~(i < k)
      BY <1>3, <1>7, <2>5
    <3>2. t[i] = x /\ t[j] = s[j - 1]
      BY <2>1, <2>5, <3>1
    <3>3. QED
      BY <1>5, <3>1, <3>2
  <2>6. CASE j > k /\ i > k
    <3>1. i - 1 \in 1..m /\ j - 1 \in 1..m /\ i - 1 < j - 1 /\ ~(j < k) /\ j # k /\ ~(i < k) /\ i # k
      BY <1>3, <1>7, <2>6
    <3>2. t[i] = s[i - 1] /\ t[j] = s[j - 1]
      BY <2>1, <3>1
    <3>3. QED
      BY <3>1, <3>2 DEF IsOrdered
  <2>7. QED
    BY <1>3, <2>2, <2>3, <2>4, <2>5, <2>6
<1> HIDE DEF t
<1>8. IsOrdered(t, m + 1)
  BY <1>7 DEF IsOrdered
<1>9. QED
  BY <1>6, <1>8

\* A process reads a block of its size, and sorts it.
LEMMA SortedBlockIs ==
  ASSUME FileIn, NEW r \in Ranks
  PROVE  /\ SortedBlock(r) \in Seq(Numbers) /\ Len(SortedBlock(r)) = count_b_size(r)
         /\ IsOrdered(SortedBlock(r), count_b_size(r))
         /\ \A j \in 1..count_b_size(r) : SortedBlock(r)[j][2] \in Block(r)
<1> PICK a, size : a = count_b_start(r) /\ size = count_b_size(r)
  OBVIOUS
<1>1. a \in Nat /\ size \in Nat /\ a + size <= n /\ n \in Nat /\ Block(r) = (a + 1)..(a + size)
      /\ \A i \in 1..n : in_f[i] \in Int
  BY BlocksFit DEF FileIn, n, Block
<1> DEFINE Among(m) == {<<in_f[i], i>> : i \in (a + 1)..(a + m)}
           T == {m \in 0..size : \E s \in [1..m -> Among(m)] : IsOrdered(s, m)}
<1>2. 0 \in T
  <2> HIDE DEF Among
  <2>1. <<>> \in [1..0 -> Among(0)]
    OBVIOUS
  <2>2. IsOrdered(<<>>, 0)
    BY DEF IsOrdered
  <2>3. 0 \in 0..size
    BY <1>1
  <2>4. QED
    BY <2>1, <2>2, <2>3
<1>3. ASSUME NEW m \in 0..(size - 1), m \in T PROVE m + 1 \in T
  <2>1. PICK s \in [1..m -> Among(m)] : IsOrdered(s, m)
    BY <1>3
  <2> PICK x : x = <<in_f[a + (m + 1)], a + (m + 1)>>
    OBVIOUS
  <2>2. x \in Int \X Int /\ x \notin Among(m)
    BY <1>1
  <2>3. Among(m) \in SUBSET (Int \X Int)
    <3>1. \A i \in (a + 1)..(a + m) : in_f[i] \in Int /\ i \in Int
      BY <1>1
    <3>2. QED
      BY <3>1
  <2>4. Among(m) \cup {x} = Among(m + 1)
    <3>1. a \in Nat /\ m \in Nat
      BY <1>1
    <3>2. \A i : i \in (a + 1)..(a + (m + 1)) <=> i \in (a + 1)..(a + m) \/ i = a + (m + 1)
      BY ONLY <3>1
    <3>3. QED
      BY <3>2
  <2> HIDE DEF Among
  <2>5. \E t \in [1..(m + 1) -> Among(m) \cup {x}] : IsOrdered(t, m + 1)
    BY <2>1, <2>2, <2>3, OneMoreOrdered
  <2>6. QED
    BY <1>1, <2>4, <2>5
<1> HIDE DEF T
<1>4. size \in T
  <2>1. size \in Nat /\ size \in 0..size
    BY <1>1
  <2>2. QED
    BY <1>2, <1>3, <2>1, UpTo
<1>5. \E s \in [1..size -> Among(size)] : IsOrdered(s, size)
  BY <1>4 DEF T
<1> PICK b : b = SortedBlock(r)
  OBVIOUS
<1>6. b = CHOOSE s \in [1..size -> Among(size)] : IsOrdered(s, size)
  BY <1>1 DEF SortedBlock, IsOrdered
<1>7. b \in [1..size -> Among(size)] /\ IsOrdered(b, size)
  <2> HIDE DEF Among
  <2>1. QED
    BY <1>5, <1>6
<1>8. \A j \in 1..size : b[j] \in Numbers /\ b[j][2] \in Block(r)
  <2>1. SUFFICES ASSUME NEW j \in 1..size PROVE b[j] \in Numbers /\ b[j][2] \in Block(r)
    OBVIOUS
  <2>2. PICK i \in (a + 1)..(a + size) : b[j] = <<in_f[i], i>>
    BY <1>7
  <2>3. i \in 1..n
    BY <1>1
  <2>4. QED
    BY <1>1, <2>2, <2>3 DEF Numbers
<1>9. b \in Seq(Numbers) /\ Len(b) = size
  BY <1>1, <1>7, <1>8
<1>10. QED
  BY <1>7, <1>8, <1>9

-----------------------------------------------------------------------------
(* What buffers and messages hold.                                         *)

MessageOf(s) ==
  [tag : {0, 1}, at : {"mpi", "buffer", version.buffer},
   data : {d \in Seq(Numbers) : Len(d) = count_b_size(s)}]

\* A message and what is left of it when its sender's buffer is freed
Same(a, b) == a = b \/ a = [b EXCEPT !.at = IF b.at = "mpi" THEN b.at ELSE version.buffer]

BufInv ==
  /\ buf = [r \in Ranks |-> buf[r]]
  /\ \A r \in Ranks : buf[r] \in Seq(Numbers)
                      /\ Len(buf[r]) = IF pc[r] = "read" THEN 0 ELSE count_b_size(r)

MessageInv == \A s, t \in Ranks : \A i \in DOMAIN chan[s][t] : chan[s][t][i] \in MessageOf(s)

HeldInv ==
  /\ FileIn /\ BufInv /\ MessageInv
  /\ out_f \in [1..n -> Numbers \cup {Hole}]
  /\ CountInv

LEMMA SameMessage ==
  ASSUME NEW s, NEW b \in MessageOf(s), NEW a, Same(a, b)
  PROVE  a \in MessageOf(s) /\ a.tag = b.tag /\ a.data = b.data /\ (b.at = "mpi" => a.at = "mpi")
<1> PICK D : D = {d \in Seq(Numbers) : Len(d) = count_b_size(s)}
  OBVIOUS
<1>1. b \in [tag : {0, 1}, at : {"mpi", "buffer", version.buffer}, data : D]
  BY DEF MessageOf
<1>2. /\ a \in [tag : {0, 1}, at : {"mpi", "buffer", version.buffer}, data : D]
      /\ a.tag = b.tag /\ a.data = b.data /\ (b.at = "mpi" => a.at = "mpi")
  BY <1>1 DEF Same
<1>3. QED
  BY <1>2 DEF MessageOf

\* Freeing buffers
LEMMA FreedMessages ==
  ASSUME NEW r \in Ranks, NEW c, DOMAIN c = Ranks, \A s \in Ranks : DOMAIN c[s] = Ranks,
         NEW s \in Ranks, NEW t \in Ranks, NEW i \in DOMAIN c[s][t]
  PROVE  Same(FreeBuffer(r, c)[s][t][i], c[s][t][i])
<1>1. CASE s = r
  <2>1. FreeBuffer(r, c)[s][t] = [j \in DOMAIN c[r][t] |->
          [c[r][t][j] EXCEPT !.at = IF @ = "mpi" THEN @ ELSE version.buffer]]
    BY <1>1 DEF FreeBuffer
  <2> PICK m : m = c[s][t][i]
    OBVIOUS
  <2>2. FreeBuffer(r, c)[s][t][i] = [m EXCEPT !.at = IF m.at = "mpi" THEN m.at ELSE version.buffer]
    BY <1>1, <2>1
  <2>3. QED
    BY <2>2 DEF Same
<1>2. CASE s # r
  BY <1>2 DEF FreeBuffer, Same
<1>3. QED
  BY <1>1, <1>2

\* The messages that are left when one has been taken, in their order
LEMMA MessagesLeft ==
  ASSUME FlightInv, NEW r \in Ranks, NEW u \in Ranks, NEW k \in DOMAIN chan[u][r],
         \/ chan' = [chan EXCEPT ![u][r] = RemoveAt(@, k)]
         \/ chan' = FreeBuffer(r, [chan EXCEPT ![u][r] = RemoveAt(@, k)])
  PROVE  /\ \A s, t \in Ranks : s # u \/ t # r =>
              \A i \in DOMAIN chan'[s][t] :
                i \in DOMAIN chan[s][t] /\ Same(chan'[s][t][i], chan[s][t][i])
         /\ \A i \in DOMAIN chan'[u][r] :
              LET j == IF i < k THEN i ELSE i + 1 IN
              j \in DOMAIN chan[u][r] /\ Same(chan'[u][r][i], chan[u][r][j])
<1>1. PICK rest : rest = [chan EXCEPT ![u][r] = RemoveAt(@, k)]
  OBVIOUS
<1>2. chan' = rest \/ chan' = FreeBuffer(r, rest)
  BY <1>1
<1>3. /\ DOMAIN rest = Ranks
      /\ \A s \in Ranks : DOMAIN rest[s] = Ranks
      /\ rest[u][r] = RemoveAt(chan[u][r], k)
      /\ \A s, t \in Ranks : s # u \/ t # r => rest[s][t] = chan[s][t]
  BY <1>1 DEF FlightInv
<1>4. ASSUME NEW s \in Ranks, NEW t \in Ranks
      PROVE  /\ DOMAIN chan'[s][t] = DOMAIN rest[s][t]
             /\ \A i \in DOMAIN rest[s][t] : Same(chan'[s][t][i], rest[s][t][i])
  <2>1. CASE chan' = rest
    BY <2>1 DEF Same
  <2>2. CASE chan' = FreeBuffer(r, rest)
    <3>1. DOMAIN FreeBuffer(r, rest)[s][t] = DOMAIN rest[s][t]
      BY <1>3 DEF FreeBuffer
    <3>2. \A i \in DOMAIN rest[s][t] : Same(FreeBuffer(r, rest)[s][t][i], rest[s][t][i])
      BY <1>3, FreedMessages
    <3>3. QED
      BY <2>2, <3>1, <3>2
  <2>3. QED
    BY <1>2, <2>1, <2>2
<1>5. ASSUME NEW i \in DOMAIN rest[u][r]
      PROVE  LET j == IF i < k THEN i ELSE i + 1 IN
             j \in DOMAIN chan[u][r] /\ rest[u][r][i] = chan[u][r][j]
  <2> PICK q, S : q = chan[u][r] /\ S = Messages(q)
    OBVIOUS
  <2> PICK L : L = Len(q)
    OBVIOUS
  <2>1. q \in Seq(S) /\ L \in Nat /\ k \in 1..L /\ DOMAIN q = 1..L
    BY SeqShape DEF FlightInv, IsSeq
  <2> PICK a, b : a = SubSeq(q, 1, k - 1) /\ b = SubSeq(q, k + 1, L)
    OBVIOUS
  <2>2. a \in Seq(S) /\ Len(a) = k - 1 /\ \A j \in 1..(k - 1) : a[j] = q[j]
    <3>1. k - 1 \in 0..L /\ k - 1 <= L
      BY <2>1
    <3>2. SubSeq(q, 1, k - 1) \in Seq(S) /\ Len(SubSeq(q, 1, k - 1)) = k - 1
          /\ \A j \in 1..(k - 1) : SubSeq(q, 1, k - 1)[j] = q[j]
      BY <2>1, <3>1
    <3>3. QED
      BY <3>2
  <2>3. b \in Seq(S) /\ Len(b) = L - k /\ \A j \in 1..(L - k) : b[j] = q[k + j]
    <3>1. k \in Nat /\ k <= L /\ L \in Nat
      BY <2>1
    <3>2. SubSeq(q, k + 1, L) \in Seq(S) /\ Len(SubSeq(q, k + 1, L)) = L - k
      BY <2>1, SubSeqProperties
    <3>3. ASSUME NEW j \in 1..(L - k) PROVE SubSeq(q, k + 1, L)[j] = q[k + j]
      <4>1. SubSeq(q, k + 1, L)[j] = q[(k + 1) + j - 1]
        BY <2>1, <3>2, SubSeqProperties
      <4>2. (k + 1) + j - 1 = k + j
        BY <3>1
      <4>3. QED
        BY <4>1, <4>2
    <3>4. QED
      BY <3>2, <3>3
  <2>4. rest[u][r] = a \o b
    BY <1>3 DEF RemoveAt
  <2>5. i \in 1..(L - 1)
    BY <2>1, <2>2, <2>3, <2>4
  <2>6. CASE i < k
    <3>1. (a \o b)[i] = a[i] /\ i \in 1..(k - 1)
      BY <2>1, <2>2, <2>3, <2>5, <2>6
    <3>2. QED
      BY <2>1, <2>2, <2>4, <2>5, <2>6, <3>1
  <2>7. CASE i >= k
    <3>1. i - (k - 1) \in 1..(L - k) /\ k + (i - (k - 1)) = i + 1 /\ i > k - 1 /\ ~(i < k) /\ i + 1 \in 1..L
      BY <2>1, <2>5, <2>7
    <3>2. (a \o b)[i] = b[i - Len(a)]
      <4>1. Len(a) = k - 1 /\ Len(b) = L - k /\ L \in Nat /\ k \in 1..L
        BY <2>1, <2>2, <2>3
      <4>2. i \in 1..(Len(a) + Len(b)) /\ ~(i <= Len(a))
        BY ONLY <2>5, <3>1, <4>1
      <4>3. QED
        BY ONLY <2>2, <2>3, <4>2, ConcatProperties
    <3>3. b[i - Len(a)] = q[i + 1]
      BY <2>2, <2>3, <3>1
    <3>4. QED
      BY <2>1, <2>4, <3>1, <3>2, <3>3
  <2>8. QED
    BY <2>1, <2>5, <2>6, <2>7
<1>6. QED
  BY <1>3, <1>4, <1>5

\* A step that neither reads nor writes a block
LEMMA HeldKept ==
  ASSUME HeldInv, CountInv', UNCHANGED <<version, in_f, out_f, buf, chan>>,
         \A s \in Ranks : pc'[s] = pc[s] \/ (pc[s] # "read" /\ pc'[s] # "read")
  PROVE  HeldInv'
<1>1. n' = n /\ Numbers' = Numbers /\ \A s : count_b_size(s)' = count_b_size(s) /\ MessageOf(s)' = MessageOf(s)
  BY DEF n, Numbers, count_b_size, MessageOf
<1>2. FileIn' /\ out_f' \in [1..n' -> Numbers' \cup {Hole}]
  BY <1>1 DEF HeldInv, FileIn
<1>3. BufInv'
  BY <1>1 DEF HeldInv, BufInv
<1>4. MessageInv'
  BY <1>1 DEF HeldInv, MessageInv
<1>5. QED
  BY <1>2, <1>3, <1>4 DEF HeldInv

LEMMA ReadHeld ==
  ASSUME HeldInv, CountInv', NEW r \in Ranks, Read(r)
  PROVE  HeldInv'
<1>1. n' = n /\ Numbers' = Numbers /\ \A s : count_b_size(s)' = count_b_size(s) /\ MessageOf(s)' = MessageOf(s)
  BY DEF Read, n, Numbers, count_b_size, MessageOf
<1>2. FileIn' /\ out_f' \in [1..n' -> Numbers' \cup {Hole}]
  BY <1>1 DEF HeldInv, FileIn, Read
<1>3. SortedBlock(r) \in Seq(Numbers) /\ Len(SortedBlock(r)) = count_b_size(r)
  BY SortedBlockIs DEF HeldInv
<1>4. /\ buf' = [s \in Ranks |-> buf'[s]] /\ buf'[r] = SortedBlock(r) /\ pc'[r] = "phase"
      /\ \A s \in Ranks \ {r} : buf'[s] = buf[s] /\ pc'[s] = pc[s]
  BY DEF Read, HeldInv, BufInv, CountInv, StopInv, TypeInv
<1>5. BufInv'
  BY <1>1, <1>3, <1>4 DEF HeldInv, BufInv
<1>6. MessageInv'
  BY <1>1 DEF HeldInv, MessageInv, Read
<1>7. QED
  BY <1>2, <1>5, <1>6 DEF HeldInv

LEMMA WriteHeld ==
  ASSUME HeldInv, CountInv', NEW r \in Ranks, Write(r)
  PROVE  HeldInv'
<1>1. n' = n /\ Numbers' = Numbers /\ \A s : count_b_size(s)' = count_b_size(s) /\ MessageOf(s)' = MessageOf(s)
  BY DEF Write, n, Numbers, count_b_size, MessageOf
<1>2. FileIn'
  BY <1>1 DEF HeldInv, FileIn, Write
<1> PICK a, size : a = count_b_start(r) /\ size = count_b_size(r)
  OBVIOUS
<1>3. a \in Nat /\ size \in Nat /\ buf[r] \in Seq(Numbers) /\ Len(buf[r]) = size
  BY BlocksFit DEF HeldInv, BufInv, Write
<1>4. \A i \in Block(r) : buf[r][i - a] \in Numbers
  <2>1. SUFFICES ASSUME NEW i \in (a + 1)..(a + size) PROVE buf[r][i - a] \in Numbers
    BY DEF Block
  <2>2. i - a \in 1..size
    BY <1>3
  <2>3. QED
    BY <1>3, <2>2
<1>5. out_f' = [i \in 1..n |-> IF i \in Block(r) THEN buf[r][i - a] ELSE out_f[i]]
  BY DEF Write
<1>6. out_f' \in [1..n' -> Numbers' \cup {Hole}]
  BY <1>1, <1>4, <1>5 DEF HeldInv
<1>7. /\ buf' = buf /\ pc[r] = "write" /\ pc'[r] = "done"
      /\ \A s \in Ranks \ {r} : pc'[s] = pc[s]
  BY DEF Write, HeldInv, CountInv, StopInv, TypeInv
<1>8. BufInv'
  BY <1>1, <1>7 DEF HeldInv, BufInv
<1>9. MessageInv'
  BY <1>1 DEF HeldInv, MessageInv, Write
<1>10. QED
  BY <1>2, <1>6, <1>8, <1>9 DEF HeldInv

LEMMA IsendHeld ==
  ASSUME HeldInv, CountInv', NEW r \in Ranks, Isend(r)
  PROVE  HeldInv'
<1>1. n' = n /\ Numbers' = Numbers /\ \A s : count_b_size(s)' = count_b_size(s) /\ MessageOf(s)' = MessageOf(s)
  BY DEF Isend, n, Numbers, count_b_size, MessageOf
<1>2. FileIn' /\ out_f' \in [1..n' -> Numbers' \cup {Hole}]
  BY <1>1 DEF HeldInv, FileIn, Isend
<1>3. buf' = buf /\ pc[r] = "phase" /\ pc'[r] = "wait" /\ \A s \in Ranks \ {r} : pc'[s] = pc[s]
  BY DEF Isend, HeldInv, CountInv, StopInv, TypeInv
<1>4. BufInv'
  BY <1>1, <1>3 DEF HeldInv, BufInv
<1> PICK u \in Ranks : u = target_rank(r, phase[r])
  <2>1. phase[r] \in Nat
    BY Sizes DEF HeldInv, CountInv, StopInv, TypeInv
  <2>2. QED
    BY <2>1, Partner DEF Isend
<1> PICK m : m = [tag  |-> in_pair_id(r, phase[r]),
                  at   |-> IF Len(buf[r]) <= EagerLimit THEN "mpi" ELSE "buffer",
                  data |-> buf[r]]
  OBVIOUS
<1>5. chan' = [chan EXCEPT ![r][u] = Append(@, m)]
  BY DEF Isend
<1>6. m \in MessageOf(r)
  <2>1. buf[r] \in Seq(Numbers) /\ Len(buf[r]) = count_b_size(r)
    BY <1>3 DEF HeldInv, BufInv
  <2>2. in_pair_id(r, phase[r]) \in {0, 1}
    BY DEF in_pair_id
  <2>3. (IF Len(buf[r]) <= EagerLimit THEN "mpi" ELSE "buffer") \in {"mpi", "buffer", version.buffer}
    OBVIOUS
  <2>4. QED
    BY <2>1, <2>2, <2>3, Zenon DEF MessageOf
<1>7. /\ chan'[r][u] = Append(chan[r][u], m)
      /\ \A s, t \in Ranks : s # r \/ t # u => chan'[s][t] = chan[s][t]
  BY <1>5 DEF HeldInv, CountInv, FlightInv
<1>8. \A i \in DOMAIN chan'[r][u] : chan'[r][u][i] \in MessageOf(r)
  <2> PICK q : q = chan[r][u]
    OBVIOUS
  <2>1. IsSeq(q)
    BY DEF HeldInv, CountInv, FlightInv
  <2>2. \A i \in DOMAIN q : q[i] \in MessageOf(r)
    BY DEF HeldInv, MessageInv
  <2>3. \A i \in DOMAIN Append(q, m) :
          \/ i \in DOMAIN q /\ Append(q, m)[i] = q[i]
          \/ i = Len(q) + 1 /\ Append(q, m)[i] = m
    BY <2>1, Appended, Zenon
  <2>4. \A i \in DOMAIN Append(q, m) : Append(q, m)[i] \in MessageOf(r)
    BY <1>6, <2>2, <2>3, Zenon
  <2>5. chan'[r][u] = Append(q, m)
    BY <1>7
  <2>6. QED
    BY <2>4, <2>5, Zenon
<1>9. MessageInv'
  BY <1>1, <1>7, <1>8 DEF HeldInv, MessageInv
<1>10. QED
  BY <1>2, <1>4, <1>9 DEF HeldInv
LEMMA ReceiveHeld ==
  ASSUME HeldInv, CountInv', NEW r \in Ranks, Receive(r)
  PROVE  HeldInv'
<1>1. n' = n /\ Numbers' = Numbers /\ \A s : count_b_size(s)' = count_b_size(s) /\ MessageOf(s)' = MessageOf(s)
  BY DEF Receive, n, Numbers, count_b_size, MessageOf
<1>2. FileIn' /\ out_f' \in [1..n' -> Numbers' \cup {Hole}]
  BY <1>1 DEF HeldInv, FileIn, Receive
<1> PICK p \in Nat : p = phase[r] /\ pc[r] = "wait"
  BY Sizes DEF HeldInv, CountInv, StopInv, TypeInv, Receive
<1> PICK u \in Ranks : u = target_rank(r, p)
  BY Partner DEF HeldInv, CountInv, WaitInv
<1>3. PICK k \in DOMAIN chan[u][r] : \E d \in Arriving(chan[u][r][k]) :
        /\ buf' = [buf EXCEPT ![r] = merge_realc(@, d, in_pair_id(r, p))]
        /\ \/ chan' = [chan EXCEPT ![u][r] = RemoveAt(@, k)]
           \/ chan' = FreeBuffer(r, [chan EXCEPT ![u][r] = RemoveAt(@, k)])
  BY DEF Receive
<1> PICK d \in Arriving(chan[u][r][k]) : buf' = [buf EXCEPT ![r] = merge_realc(@, d, in_pair_id(r, p))]
  BY <1>3
<1>4. d \in Seq(Numbers)
  <2> PICK m : m = chan[u][r][k]
    OBVIOUS
  <2>1. m \in MessageOf(u)
    BY DEF HeldInv, MessageInv
  <2>2. m.data \in Seq(Numbers)
    BY <2>1 DEF MessageOf
  <2>3. CASE d = m.data
    BY <2>2, <2>3
  <2>4. CASE d \in [DOMAIN m.data -> Numbers]
    BY <2>2, <2>4
  <2>5. QED
    BY <2>3, <2>4 DEF Arriving
<1>5. merge_realc(buf[r], d, in_pair_id(r, p)) \in Seq(Numbers)
      /\ Len(merge_realc(buf[r], d, in_pair_id(r, p))) = Len(buf[r])
  BY <1>4, MergeTypes DEF HeldInv, BufInv
<1>6. /\ buf' = [s \in Ranks |-> buf'[s]]
      /\ buf'[r] \in Seq(Numbers) /\ Len(buf'[r]) = Len(buf[r])
      /\ \A s \in Ranks \ {r} : buf'[s] = buf[s]
  BY <1>5 DEF HeldInv, BufInv
<1>7. pc'[r] # "read" /\ \A s \in Ranks \ {r} : pc'[s] = pc[s]
  BY DEF Receive, EndPhase, NextPhase, HeldInv, CountInv, StopInv, TypeInv
<1>8. BufInv'
  BY <1>1, <1>6, <1>7 DEF HeldInv, BufInv
<1>9. ASSUME NEW s \in Ranks, NEW t \in Ranks, NEW i \in DOMAIN chan'[s][t]
      PROVE  chan'[s][t][i] \in MessageOf(s)
  <2>1. PICK j \in DOMAIN chan[s][t] : Same(chan'[s][t][i], chan[s][t][j])
    <3>1. /\ \A x, y \in Ranks : x # u \/ y # r =>
               \A l \in DOMAIN chan'[x][y] :
                 l \in DOMAIN chan[x][y] /\ Same(chan'[x][y][l], chan[x][y][l])
          /\ \A l \in DOMAIN chan'[u][r] :
               LET j == IF l < k THEN l ELSE l + 1 IN
               j \in DOMAIN chan[u][r] /\ Same(chan'[u][r][l], chan[u][r][j])
      BY <1>3, MessagesLeft DEF HeldInv, CountInv
    <3>2. CASE s = u /\ t = r
      BY <3>1, <3>2
    <3>3. CASE s # u \/ t # r
      BY <3>1, <3>3
    <3>4. QED
      BY <3>2, <3>3
  <2>2. chan[s][t][j] \in MessageOf(s)
    BY DEF HeldInv, MessageInv
  <2>3. QED
    BY <2>1, <2>2, SameMessage
<1>10. MessageInv'
  BY <1>1, <1>9 DEF MessageInv
<1>11. QED
  BY <1>2, <1>8, <1>10 DEF HeldInv

LEMMA AllreduceHeld ==
  ASSUME HeldInv, CountInv', NEW r \in Ranks, Allreduce(r)
  PROVE  HeldInv'
<1>1. n' = n /\ Numbers' = Numbers /\ \A s : count_b_size(s)' = count_b_size(s) /\ MessageOf(s)' = MessageOf(s)
  BY DEF Allreduce, n, Numbers, count_b_size, MessageOf
<1>2. FileIn' /\ out_f' \in [1..n' -> Numbers' \cup {Hole}]
  BY <1>1 DEF HeldInv, FileIn, Allreduce
<1>3. buf' = buf /\ pc[r] = "reduce" /\ pc'[r] # "read" /\ \A s \in Ranks \ {r} : pc'[s] = pc[s]
  BY DEF Allreduce, NextPhase, HeldInv, CountInv, StopInv, TypeInv
<1>4. BufInv'
  BY <1>1, <1>3 DEF HeldInv, BufInv
<1>5. ASSUME NEW s \in Ranks, NEW t \in Ranks, NEW i \in DOMAIN chan'[s][t]
      PROVE  chan'[s][t][i] \in MessageOf(s)
  <2>1. chan' = FreeBuffer(r, chan) /\ DOMAIN chan = Ranks /\ \A x \in Ranks : DOMAIN chan[x] = Ranks
    BY DEF Allreduce, HeldInv, CountInv, FlightInv
  <2>2. DOMAIN chan'[s][t] = DOMAIN chan[s][t]
    BY <2>1 DEF FreeBuffer
  <2>3. Same(chan'[s][t][i], chan[s][t][i])
    BY <2>1, <2>2, FreedMessages
  <2>4. chan[s][t][i] \in MessageOf(s)
    BY <2>2 DEF HeldInv, MessageInv
  <2>5. QED
    BY <2>3, <2>4, SameMessage
<1>6. MessageInv'
  BY <1>1, <1>5 DEF MessageInv
<1>7. QED
  BY <1>2, <1>4, <1>6 DEF HeldInv

LEMMA HeldInit == Init => HeldInv
<1> SUFFICES ASSUME Init PROVE HeldInv
  OBVIOUS
<1>1. FileIn
  BY InputAssumption DEF Init, FileIn
<1>2. BufInv
  <2>1. <<>> \in Seq(Numbers) /\ Len(<<>>) = 0
    BY EmptySeq
  <2>2. QED
    BY <2>1 DEF Init, BufInv
<1>3. MessageInv
  <2>1. \A s, t \in Ranks : chan[s][t] = <<>>
    BY DEF Init
  <2>2. QED
    BY <2>1 DEF MessageInv
<1>4. out_f \in [1..n -> Numbers \cup {Hole}]
  BY DEF Init
<1>5. QED
  BY <1>1, <1>2, <1>3, <1>4, CountInit DEF HeldInv

LEMMA HeldNext == HeldInv /\ [Next]_vars => HeldInv'
<1> SUFFICES ASSUME HeldInv, [Next]_vars PROVE HeldInv'
  OBVIOUS
<1>1. CountInv'
  BY CountNext DEF HeldInv
<1>2. ASSUME NEW r \in Ranks, Skip(r) PROVE HeldInv'
  <2>1. \A s \in Ranks : pc'[s] = pc[s] \/ (pc[s] # "read" /\ pc'[s] # "read")
    BY <1>2 DEF Skip, EndPhase, NextPhase, HeldInv, CountInv, StopInv, TypeInv
  <2>2. UNCHANGED <<version, in_f, out_f, buf, chan>>
    BY <1>2 DEF Skip
  <2>3. QED
    BY <1>1, <2>1, <2>2, HeldKept
<1>3. CASE UNCHANGED vars
  BY <1>1, <1>3, HeldKept DEF vars
<1>4. ASSUME NEW r \in Ranks, Process(r) PROVE HeldInv'
  BY <1>1, <1>2, <1>4, ReadHeld, IsendHeld, ReceiveHeld, AllreduceHeld, WriteHeld DEF Process
<1>5. (\E r \in Ranks : Process(r)) \/ UNCHANGED vars
  BY DEF Next, Finished
<1>6. QED
  BY <1>3, <1>4, <1>5

\* What the processes hold: every block has the size of its process in every
\* phase, whatever arrived, and fits into the buffer of the one it goes to.
THEOREM TypesAreCorrect == Spec => []TypeOK
<1>1. HeldInv => TypeOK
  <2> SUFFICES ASSUME HeldInv PROVE TypeOK
    OBVIOUS
  <2>1. ASSUME NEW s \in Ranks, NEW t \in Ranks, NEW i \in DOMAIN chan[s][t]
        PROVE  /\ Len(chan[s][t][i].data) <= b_t_real_size(t, s)
               /\ chan[s][t][i].tag \in {0, 1} /\ chan[s][t][i].at \in {"mpi", "buffer", version.buffer}
               /\ chan[s][t][i].data \in Seq(Numbers)
    <3> PICK m : m = chan[s][t][i]
      OBVIOUS
    <3>1. m \in MessageOf(s)
      BY DEF HeldInv, MessageInv
    <3>2. /\ m.tag \in {0, 1} /\ m.at \in {"mpi", "buffer", version.buffer}
          /\ m.data \in Seq(Numbers) /\ Len(m.data) = count_b_size(s)
      BY <3>1 DEF MessageOf
    <3>3. count_b_size(s) \in Nat /\ count_b_size(s) <= count_b_size(0)
      BY BlocksFit DEF HeldInv
    <3>4. count_b_size(s) <= b_t_real_size(t, s)
      BY <3>3 DEF b_t_real_size
    <3>5. QED
      BY <3>2, <3>4
  <2>2. SegmentsFit
    BY <2>1 DEF SegmentsFit
  <2>3. \A r \in Ranks : /\ buf[r] \in Seq(Numbers)
                        /\ Len(buf[r]) = IF pc[r] = "read" THEN 0 ELSE count_b_size(r)
    BY DEF HeldInv, BufInv
  <2>4. pc \in [Ranks -> {"read", "phase", "wait", "reduce", "write", "done"}]
        /\ phase \in [Ranks -> 0..(LastPhase + 1)]
    BY DEF HeldInv, CountInv, StopInv, TypeInv, Left
  <2>5. QED
    BY <2>1, <2>2, <2>3, <2>4 DEF TypeOK, HeldInv
<1>2. QED
  BY <1>1, HeldInit, HeldNext, PTL DEF Spec
-----------------------------------------------------------------------------
(* The lockstep algorithm.                                                 *)

\* The blocks after a phase, of the blocks before it
PhaseOf(before, p) ==
  [r \in Ranks |->
     IF target_rank(r, p) = NoRank THEN before[r]
     ELSE merge_realc(before[r], before[target_rank(r, p)], in_pair_id(r, p))]

IsLockstep(L) ==
  /\ L[0] = [r \in Ranks |-> SortedBlock(r)]
  /\ \A p \in 0..LastPhase : L[p + 1] = PhaseOf(L[p], p)

LEMMA LockstepIs == FileIn => IsLockstep(Lockstep)
<1> SUFFICES ASSUME FileIn PROVE IsLockstep(Lockstep)
  OBVIOUS
<1> DEFINE N == LastPhase + 1
           S == [Ranks -> Seq(Numbers)]
           base == [r \in Ranks |-> SortedBlock(r)]
           step == [k \in 1..N |-> [b \in S |-> PhaseOf(b, k - 1)]]
<1>1. N \in Nat
  BY Sizes
<1>2. base \in S
  BY SortedBlockIs
<1>3. step \in [1..N -> [S -> S]]
  <2>1. ASSUME NEW k \in 1..N, NEW b \in S PROVE PhaseOf(b, k - 1) \in S
    <3>1. ASSUME NEW r \in Ranks
          PROVE  (IF target_rank(r, k - 1) = NoRank THEN b[r]
                  ELSE merge_realc(b[r], b[target_rank(r, k - 1)], in_pair_id(r, k - 1))) \in Seq(Numbers)
      <4> PICK p \in Nat : p = k - 1
        BY <1>1
      <4> PICK t : t = target_rank(r, p)
        OBVIOUS
      <4>1. t \in Ranks \cup {NoRank}
        BY Partner
      <4>2. t # NoRank => merge_realc(b[r], b[t], in_pair_id(r, p)) \in Seq(Numbers)
        BY <4>1, MergeTypes
      <4>3. QED
        BY <4>2
    <3>2. QED
      BY <3>1 DEF PhaseOf
  <2> HIDE DEF S
  <2>2. QED
    BY <2>1
<1>4. PICK g \in [0..N -> S] : g[0] = base /\ \A k \in 1..N : g[k] = step[k][g[k - 1]]
  <2> HIDE DEF N, S, base, step
  <2>1. \E g \in [0..N -> S] : Recurs(g, N, base, step)
    BY <1>1, <1>2, <1>3, RecursionExists
  <2>2. QED
    BY <2>1 DEF Recurs
<1>5. ASSUME NEW k \in 1..N PROVE g[k] = PhaseOf(g[k - 1], k - 1)
  <2> HIDE DEF S
  <2>1. k - 1 \in 0..N /\ g[k - 1] \in S
    BY <1>1
  <2>2. QED
    BY <1>4, <2>1
<1> DEFINE Body(f, k) ==
             [r \in Ranks |->
                IF k = 0 THEN SortedBlock(r)
                ELSE IF target_rank(r, k - 1) = NoRank THEN f[k - 1][r]
                     ELSE merge_realc(f[k - 1][r], f[k - 1][target_rank(r, k - 1)], in_pair_id(r, k - 1))]
<1>6. \A f : Body(f, 0) = base
  OBVIOUS
<1>7. \A f : \A k \in 1..N : Body(f, k) = PhaseOf(f[k - 1], k - 1)
  <2>1. \A k \in 1..N : k # 0
    BY <1>1
  <2>2. QED
    BY <2>1, Zenon DEF PhaseOf
<1> HIDE DEF base, step, S
<1>8. g = [k \in 0..N |-> Body(g, k)]
  <2> HIDE DEF Body
  <2>1. \A k \in 0..N : k = 0 \/ k \in 1..N
    BY <1>1
  <2>2. \A k \in 0..N : g[k] = Body(g, k)
    BY <1>4, <1>5, <1>6, <1>7, <2>1, Zenon
  <2>3. QED
    BY <2>2
<1> DEFINE L == Lockstep
<1>9. L = [k \in 0..N |-> Body(L, k)]
  BY <1>8, Zenon DEF Lockstep
<1> HIDE DEF L, Body
<1>10. L[0] = base
  BY <1>1, <1>6, <1>9
<1>11. \A k \in 1..N : L[k] = PhaseOf(L[k - 1], k - 1)
  BY <1>1, <1>7, <1>9
<1>12. ASSUME NEW p \in 0..LastPhase PROVE L[p + 1] = PhaseOf(L[p], p)
  <2>1. p + 1 \in 1..N /\ (p + 1) - 1 = p
    BY <1>1, Sizes
  <2>2. QED
    BY <1>11, <2>1
<1>13. QED
  BY <1>10, <1>12 DEF IsLockstep, base, L

LEMMA LockstepKept ==
  ASSUME UNCHANGED <<version, in_f>>
  PROVE  Lockstep' = Lockstep
<1>1. in_f' = in_f
  OBVIOUS
<1>2. ASSUME NEW r PROVE SortedBlock(r)' = SortedBlock(r)
  <2>1. count_b_size(r)' = count_b_size(r) /\ Block(r)' = Block(r)
    BY <1>1 DEF n, Block, count_b_size, count_b_start
  <2>2. {<<in_f'[i], i>> : i \in Block(r)'} = {<<in_f[i], i>> : i \in Block(r)}
    BY <1>1, <2>1
  <2>3. QED
    BY <2>1, <2>2, Zenon DEF SortedBlock
<1>3. QED
  BY <1>2, Zenon DEF Lockstep
-----------------------------------------------------------------------------
(* Every process goes through the blocks of the lockstep algorithm.        *)

\* The phase in which a pair meets when it has met j times
Meets(l, j) == 2 * j + (l % 2)

\* Between neighbours the messages are those of the meetings not yet received,
\* in their order, each with the block its sender had in that phase.
SentInv ==
  \A s, t \in Ranks : Neighbours(s, t) => \A i \in DOMAIN chan[s][t] :
    /\ chan[s][t][i].tag = IF s < t THEN 0 ELSE 1
    /\ chan[s][t][i].data = Lockstep[Meets(Lo(s, t), Received(t, s) + i - 1)][s]

LockInv ==
  /\ HeldInv /\ InLockstep /\ SentInv
  /\ \A r \in Ranks : pc[r] = "read" => phase[r] = 0

LEMMA MetThen ==
  ASSUME NEW l \in Nat, NEW p \in Nat, p % 2 = l % 2
  PROVE  Meets(l, Met(l, p)) = p
BY DEF Meets, Met

\* The tag tells the left of a pair from the right.
LEMMA PairTag ==
  ASSUME NEW r \in Ranks, NEW p \in Nat, NEW u \in Ranks, u = target_rank(r, p)
  PROVE  /\ Neighbours(r, u) /\ Neighbours(u, r) /\ p % 2 = Lo(r, u) % 2 /\ Lo(u, r) = Lo(r, u)
         /\ in_pair_id(r, p) = IF r < u THEN 0 ELSE 1
         /\ Tag(r, p) = IF u < r THEN 0 ELSE 1
<1>1. u # NoRank /\ r \in Nat /\ u \in Nat
  BY Sizes DEF NoRank
<1>2. Neighbours(r, u) /\ p % 2 = Lo(r, u) % 2
  BY <1>1, Partner
<1>3. Neighbours(u, r) /\ Lo(u, r) = Lo(r, u)
  BY <1>1, <1>2 DEF Neighbours, Lo
<1>4. in_pair_id(r, p) = IF r < u THEN 0 ELSE 1
  <2>1. CASE u = r + 1
    BY <1>1, <1>2, <2>1 DEF in_pair_id, Lo
  <2>2. CASE r = u + 1
    <3>1. r % 2 # u % 2 /\ Lo(r, u) = u /\ ~(r < u)
      BY <1>1, <2>2 DEF Lo
    <3>2. QED
      BY <1>2, <3>1 DEF in_pair_id
  <2>3. QED
    BY <1>2, <2>1, <2>2 DEF Neighbours
<1>5. Tag(r, p) = IF u < r THEN 0 ELSE 1
  BY <1>1, <1>2, <1>4 DEF Tag, Neighbours
<1>6. QED
  BY <1>2, <1>3, <1>4, <1>5

\* A step that takes no message and ends no phase with a partner
LEMMA SentKept ==
  ASSUME SentInv, Lockstep' = Lockstep,
         \A s, t \in Ranks : Neighbours(s, t) => Received(s, t)' = Received(s, t),
         \A s, t \in Ranks : \A i \in DOMAIN chan'[s][t] :
           /\ i \in DOMAIN chan[s][t]
           /\ chan'[s][t][i].tag = chan[s][t][i].tag /\ chan'[s][t][i].data = chan[s][t][i].data
  PROVE  SentInv'
<1> SUFFICES ASSUME NEW s \in Ranks, NEW t \in Ranks, Neighbours(s, t), NEW i \in DOMAIN chan'[s][t]
             PROVE  /\ chan'[s][t][i].tag = IF s < t THEN 0 ELSE 1
                    /\ chan'[s][t][i].data = Lockstep'[Meets(Lo(s, t), Received(t, s)' + i - 1)][s]
  BY DEF SentInv, Neighbours, Lo, Meets
<1>1. Received(t, s)' = Received(t, s)
  BY DEF Neighbours
<1>2. /\ chan[s][t][i].tag = IF s < t THEN 0 ELSE 1
      /\ chan[s][t][i].data = Lockstep[Meets(Lo(s, t), Received(t, s) + i - 1)][s]
  BY DEF SentInv
<1>3. QED
  BY <1>1, <1>2

\* The block of a process when its phase has ended, at an Allreduce or in the
\* next phase
LEMMA PhaseEnds ==
  ASSUME LockInv, UNCHANGED <<version, in_f>>, NEW r \in Ranks,
         pc[r] \in {"phase", "wait"}, NEW c, EndPhase(r, c),
         buf'[r] = PhaseOf(Lockstep[phase[r]], phase[r])[r],
         \A s \in Ranks \ {r} : buf'[s] = buf[s]
  PROVE  InLockstep' /\ \A s \in Ranks : pc'[s] = "read" => phase'[s] = 0
<1> PICK p \in 0..LastPhase : p = phase[r]
  <2>1. TypeInv
    BY DEF LockInv, HeldInv, CountInv, StopInv
  <2>2. phase[r] \in 0..(LastPhase + 1) /\ phase[r] <= LastPhase
    BY <2>1 DEF TypeInv, Left
  <2>3. QED
    BY <2>2, Sizes
<1>1. /\ \A s \in Ranks \ {r} : phase'[s] = phase[s] /\ pc'[s] = pc[s]
      /\ \/ phase'[r] = p /\ pc'[r] = "reduce"
         \/ phase'[r] = p + 1 /\ pc'[r] \in {"phase", "write"}
  BY DEF EndPhase, NextPhase, LockInv, HeldInv, CountInv, StopInv, TypeInv
<1>2. Lockstep' = Lockstep
  BY LockstepKept
<1>3. buf'[r] = Lockstep[p + 1][r]
  BY LockstepIs DEF IsLockstep, LockInv, HeldInv
<1>4. InLockstep'
  <2> SUFFICES ASSUME NEW s \in Ranks, pc'[s] # "read"
               PROVE  buf'[s] = Lockstep'[IF pc'[s] = "reduce" THEN phase'[s] + 1 ELSE phase'[s]][s]
    BY DEF InLockstep
  <2>1. CASE s = r
    BY <1>1, <1>2, <1>3, <2>1
  <2>2. CASE s # r
    BY <1>1, <1>2, <2>2 DEF LockInv, InLockstep
  <2>3. QED
    BY <2>1, <2>2
<1>5. QED
  BY <1>1, <1>4 DEF LockInv
LEMMA ReadLock ==
  ASSUME LockInv, NEW r \in Ranks, Read(r)
  PROVE  InLockstep' /\ SentInv' /\ \A s \in Ranks : pc'[s] = "read" => phase'[s] = 0
<1>1. /\ phase' = phase /\ phase[r] = 0 /\ chan' = chan /\ pc'[r] = "phase"
      /\ \A s \in Ranks \ {r} : pc'[s] = pc[s] /\ buf'[s] = buf[s]
      /\ buf'[r] = SortedBlock(r)
  BY DEF Read, LockInv, HeldInv, BufInv, CountInv, StopInv, TypeInv
<1>2. Lockstep' = Lockstep
  BY LockstepKept DEF Read
<1>3. SortedBlock(r) = Lockstep[0][r]
  BY LockstepIs DEF IsLockstep, LockInv, HeldInv
<1>4. InLockstep'
  <2> SUFFICES ASSUME NEW s \in Ranks, pc'[s] # "read"
               PROVE  buf'[s] = Lockstep'[IF pc'[s] = "reduce" THEN phase'[s] + 1 ELSE phase'[s]][s]
    BY DEF InLockstep
  <2>1. CASE s = r
    BY <1>1, <1>2, <1>3, <2>1
  <2>2. CASE s # r
    BY <1>1, <1>2, <2>2 DEF LockInv, InLockstep
  <2>3. QED
    BY <2>1, <2>2
<1>5. pc[r] = "read"
  BY DEF Read
<1>6. \A s, t \in Ranks : Received(s, t)' = Received(s, t)
  BY <1>1, <1>5 DEF Received, Lo
<1>7. SentInv'
  BY <1>1, <1>2, <1>6, SentKept DEF LockInv
<1>8. QED
  BY <1>1, <1>4, <1>7 DEF LockInv

LEMMA SkipLock ==
  ASSUME LockInv, NEW r \in Ranks, Skip(r)
  PROVE  InLockstep' /\ SentInv' /\ \A s \in Ranks : pc'[s] = "read" => phase'[s] = 0
<1>1. /\ pc[r] = "phase" /\ target_rank(r, phase[r]) = NoRank /\ EndPhase(r, FALSE)
      /\ UNCHANGED <<version, in_f>> /\ buf' = buf /\ chan' = chan
  BY DEF Skip
<1>2. buf[r] = PhaseOf(Lockstep[phase[r]], phase[r])[r]
  BY <1>1 DEF PhaseOf, LockInv, InLockstep
<1>3. InLockstep' /\ \A s \in Ranks : pc'[s] = "read" => phase'[s] = 0
  BY <1>1, <1>2, PhaseEnds
<1>4. SentInv'
  <2>1. \A s, t \in Ranks : Neighbours(s, t) => Received(s, t)' = Received(s, t)
    BY SkipMeets DEF LockInv, HeldInv
  <2>2. Lockstep' = Lockstep
    BY <1>1, LockstepKept
  <2>3. QED
    BY <1>1, <2>1, <2>2, SentKept DEF LockInv
<1>5. QED
  BY <1>3, <1>4

LEMMA IsendLock ==
  ASSUME LockInv, NEW r \in Ranks, Isend(r)
  PROVE  InLockstep' /\ SentInv' /\ \A s \in Ranks : pc'[s] = "read" => phase'[s] = 0
<1> PICK p \in Nat : p = phase[r] /\ pc[r] = "phase"
  BY Sizes DEF LockInv, HeldInv, CountInv, StopInv, TypeInv, Isend
<1> PICK u \in Ranks : u = target_rank(r, p)
  BY Partner DEF Isend
<1>1. /\ phase' = phase /\ buf' = buf /\ pc'[r] = "wait" /\ \A s \in Ranks \ {r} : pc'[s] = pc[s]
  BY DEF LockInv, HeldInv, CountInv, StopInv, TypeInv, Isend
<1>2. Lockstep' = Lockstep
  BY LockstepKept DEF Isend
<1>3. InLockstep'
  BY <1>1, <1>2 DEF LockInv, InLockstep
<1> PICK m : m = [tag  |-> in_pair_id(r, phase[r]),
                  at   |-> IF Len(buf[r]) <= EagerLimit THEN "mpi" ELSE "buffer",
                  data |-> buf[r]]
  OBVIOUS
<1>4. chan' = [chan EXCEPT ![r][u] = Append(@, m)] /\ m.tag = in_pair_id(r, p) /\ m.data = buf[r]
  BY DEF Isend
<1>5. /\ chan'[r][u] = Append(chan[r][u], m)
      /\ \A s, t \in Ranks : (s # r \/ t # u) => chan'[s][t] = chan[s][t]
  BY <1>4 DEF LockInv, HeldInv, CountInv, FlightInv
<1>6. \A s, t \in Ranks : Received(s, t)' = Received(s, t)
  BY <1>1 DEF Received, Lo
<1>7. /\ Neighbours(r, u) /\ Neighbours(u, r) /\ p % 2 = Lo(r, u) % 2 /\ Lo(u, r) = Lo(r, u)
      /\ in_pair_id(r, p) = IF r < u THEN 0 ELSE 1
  BY PairTag
<1>8. Meets(Lo(r, u), Received(u, r) + (Len(chan[r][u]) + 1) - 1) = p
  <2>1. Len(chan[r][u]) = Sent(r, u) - Received(u, r)
    BY <1>7 DEF LockInv, HeldInv, CountInv, FlightInv
  <2>2. Sent(r, u) \in Int /\ Received(u, r) \in Int
    BY CountTypes DEF LockInv, HeldInv, CountInv, StopInv
  <2>3. Sent(r, u) = Met(Lo(r, u), p)
    BY DEF Sent
  <2>4. Received(u, r) + (Len(chan[r][u]) + 1) - 1 = Met(Lo(r, u), p)
    BY <2>1, <2>2, <2>3
  <2>5. Lo(r, u) \in Nat
    BY LoType
  <2>6. QED
    BY <1>7, <2>4, <2>5, MetThen
<1>9. buf[r] = Lockstep[p][r]
  BY DEF LockInv, InLockstep
<1>10. SentInv'
  <2> SUFFICES ASSUME NEW s \in Ranks, NEW t \in Ranks, Neighbours(s, t), NEW i \in DOMAIN chan'[s][t]
               PROVE  /\ chan'[s][t][i].tag = IF s < t THEN 0 ELSE 1
                      /\ chan'[s][t][i].data = Lockstep[Meets(Lo(s, t), Received(t, s) + i - 1)][s]
    BY <1>2, <1>6 DEF SentInv, Neighbours, Lo, Meets
  <2>1. CASE i \in DOMAIN chan[s][t] /\ chan'[s][t][i] = chan[s][t][i]
    BY <2>1 DEF LockInv, SentInv
  <2>2. CASE s = r /\ t = u /\ i = Len(chan[r][u]) + 1 /\ chan'[r][u][i] = m
    BY <1>4, <1>7, <1>8, <1>9, <2>2
  <2>3. CASE s = r /\ t = u
    <3>1. IsSeq(chan[r][u])
      BY DEF LockInv, HeldInv, CountInv, FlightInv
    <3>2. \/ i \in DOMAIN chan[r][u] /\ chan'[r][u][i] = chan[r][u][i]
          \/ i = Len(chan[r][u]) + 1 /\ chan'[r][u][i] = m
      <4> PICK q : q = chan[r][u]
        OBVIOUS
      <4>1. i \in DOMAIN Append(q, m) /\ chan'[r][u] = Append(q, m) /\ IsSeq(q)
        BY <1>5, <2>3, <3>1
      <4>2. \/ i \in DOMAIN q /\ Append(q, m)[i] = q[i]
            \/ i = Len(q) + 1 /\ Append(q, m)[i] = m
        BY <4>1, Appended, Zenon
      <4>3. QED
        BY <4>1, <4>2
    <3>3. QED
      BY <2>1, <2>2, <2>3, <3>2
  <2>4. QED
    BY <1>5, <2>1, <2>3
<1>11. QED
  BY <1>1, <1>3, <1>10 DEF LockInv

LEMMA AllreduceLock ==
  ASSUME LockInv, NEW r \in Ranks, Allreduce(r)
  PROVE  InLockstep' /\ SentInv' /\ \A s \in Ranks : pc'[s] = "read" => phase'[s] = 0
<1>1. /\ pc[r] = "reduce" /\ phase'[r] = phase[r] + 1 /\ pc'[r] \in {"phase", "write"}
      /\ \A s \in Ranks \ {r} : phase'[s] = phase[s] /\ pc'[s] = pc[s]
      /\ buf' = buf
  BY DEF LockInv, HeldInv, CountInv, StopInv, TypeInv, Allreduce, NextPhase
<1>2. Lockstep' = Lockstep
  BY LockstepKept DEF Allreduce
<1>3. InLockstep'
  BY <1>1, <1>2 DEF LockInv, InLockstep
<1>4. \A s, t \in Ranks : Received(s, t)' = Received(s, t)
  <2>1. phase[r] \in Nat
    BY Sizes DEF LockInv, HeldInv, CountInv, StopInv, TypeInv
  <2>2. QED
    BY <1>1, <2>1 DEF Received, Lo
<1>5. ASSUME NEW s \in Ranks, NEW t \in Ranks, NEW i \in DOMAIN chan'[s][t]
      PROVE  /\ i \in DOMAIN chan[s][t]
             /\ chan'[s][t][i].tag = chan[s][t][i].tag /\ chan'[s][t][i].data = chan[s][t][i].data
  <2>1. chan' = FreeBuffer(r, chan) /\ DOMAIN chan = Ranks /\ \A x \in Ranks : DOMAIN chan[x] = Ranks
    BY DEF Allreduce, LockInv, HeldInv, CountInv, FlightInv
  <2>2. DOMAIN chan'[s][t] = DOMAIN chan[s][t]
    BY <2>1 DEF FreeBuffer
  <2>3. Same(chan'[s][t][i], chan[s][t][i])
    BY <2>1, <2>2, FreedMessages
  <2>4. chan[s][t][i] \in MessageOf(s)
    BY <2>2 DEF LockInv, HeldInv, MessageInv
  <2>5. QED
    BY <2>2, <2>3, <2>4, SameMessage
<1>6. SentInv'
  BY <1>2, <1>4, <1>5, SentKept DEF LockInv
<1>7. QED
  BY <1>1, <1>3, <1>6 DEF LockInv

LEMMA ReceiveLock ==
  ASSUME LockInv, SegmentsArrive, NEW r \in Ranks, Receive(r)
  PROVE  InLockstep' /\ SentInv' /\ \A s \in Ranks : pc'[s] = "read" => phase'[s] = 0
<1> PICK p \in Nat : p = phase[r] /\ pc[r] = "wait"
  BY Sizes DEF LockInv, HeldInv, CountInv, StopInv, TypeInv, Receive
<1> PICK u \in Ranks : u = target_rank(r, p)
  BY Partner DEF LockInv, HeldInv, CountInv, WaitInv
<1>1. /\ Neighbours(r, u) /\ Neighbours(u, r) /\ p % 2 = Lo(r, u) % 2 /\ Lo(u, r) = Lo(r, u)
      /\ Tag(r, p) = IF u < r THEN 0 ELSE 1
  BY PairTag
<1>2. PICK k \in DOMAIN chan[u][r] :
        /\ chan[u][r][k].tag = Tag(r, p)
        /\ \A j \in 1..(k - 1) : chan[u][r][j].tag # Tag(r, p)
        /\ \E d \in Arriving(chan[u][r][k]) : buf' = [buf EXCEPT ![r] = merge_realc(@, d, in_pair_id(r, p))]
        /\ \/ chan' = [chan EXCEPT ![u][r] = RemoveAt(@, k)]
           \/ chan' = FreeBuffer(r, [chan EXCEPT ![u][r] = RemoveAt(@, k)])
  BY DEF Receive
<1>3. DOMAIN chan[u][r] = 1..Len(chan[u][r]) /\ Len(chan[u][r]) \in Nat
  BY SeqShape DEF LockInv, HeldInv, CountInv, FlightInv
<1>4. k = 1
  <2>1. \A j \in DOMAIN chan[u][r] : chan[u][r][j].tag = Tag(r, p)
    BY <1>1 DEF LockInv, SentInv
  <2>2. k > 1 => 1 \in 1..(k - 1) /\ 1 \in DOMAIN chan[u][r]
    BY <1>3
  <2>3. QED
    BY <1>2, <1>3, <2>1, <2>2
<1>5. Received(r, u) = Met(Lo(r, u), p) /\ Received(r, u) \in Nat
  <2>1. Received(r, u) = Met(Lo(r, u), p)
    BY DEF Received
  <2>2. QED
    BY <2>1, LoType, MetType
<1>6. chan[u][r][k].data = Lockstep[p][u]
  <2>1. chan[u][r][k].data = Lockstep[Meets(Lo(u, r), Received(r, u) + 1 - 1)][u]
    BY <1>1, <1>4 DEF LockInv, SentInv
  <2>2. Meets(Lo(r, u), Met(Lo(r, u), p)) = p
    BY <1>1, LoType, MetThen
  <2>3. Received(r, u) + 1 - 1 = Met(Lo(r, u), p)
    BY <1>5
  <2>4. QED
    BY <1>1, <2>1, <2>2, <2>3
<1>7. Arriving(chan[u][r][k]) = {Lockstep[p][u]}
  <2> PICK m : m = chan[u][r][k]
    OBVIOUS
  <2>1. m \in MessageOf(u) /\ m.at # version.buffer
    BY DEF LockInv, HeldInv, MessageInv, SegmentsArrive
  <2>2. m.at \in {"mpi", "buffer"}
    BY <2>1 DEF MessageOf
  <2>3. QED
    BY <1>6, <2>2 DEF Arriving
<1>8. buf' = [buf EXCEPT ![r] = merge_realc(@, Lockstep[p][u], in_pair_id(r, p))]
  BY <1>2, <1>7
<1>9. /\ buf'[r] = merge_realc(Lockstep[p][r], Lockstep[p][u], in_pair_id(r, p))
      /\ \A s \in Ranks \ {r} : buf'[s] = buf[s]
  <2>1. buf[r] = Lockstep[p][r]
    BY DEF LockInv, InLockstep
  <2>2. DOMAIN buf = Ranks
    BY DEF LockInv, HeldInv, BufInv
  <2>3. QED
    BY <1>8, <2>1, <2>2
<1>10. InLockstep' /\ \A s \in Ranks : pc'[s] = "read" => phase'[s] = 0
  <2>1. u # NoRank
    BY Sizes DEF NoRank
  <2>2. buf'[r] = PhaseOf(Lockstep[p], p)[r]
    BY <1>9, <2>1 DEF PhaseOf
  <2>3. UNCHANGED <<version, in_f>> /\ EndPhase(r, Changed(buf[r], buf'[r]))
    BY DEF Receive
  <2>4. QED
    BY <1>9, <2>2, <2>3, PhaseEnds
<1>11. \A s, t \in Ranks : Neighbours(s, t) =>
         Received(s, t)' = Received(s, t) + (IF s = r /\ t = u THEN 1 ELSE 0)
  BY ReceiveMeets DEF LockInv, HeldInv
<1>12. /\ \A s, t \in Ranks : s # u \/ t # r =>
            \A i \in DOMAIN chan'[s][t] :
              i \in DOMAIN chan[s][t] /\ Same(chan'[s][t][i], chan[s][t][i])
       /\ \A i \in DOMAIN chan'[u][r] :
            LET j == IF i < k THEN i ELSE i + 1 IN
            j \in DOMAIN chan[u][r] /\ Same(chan'[u][r][i], chan[u][r][j])
  <2>1. FlightInv
    BY DEF LockInv, HeldInv, CountInv
  <2>2. \/ chan' = [chan EXCEPT ![u][r] = RemoveAt(@, k)]
        \/ chan' = FreeBuffer(r, [chan EXCEPT ![u][r] = RemoveAt(@, k)])
    BY <1>2
  <2>3. QED
    BY <2>1, <2>2, MessagesLeft
<1>13. Lockstep' = Lockstep
  BY LockstepKept DEF Receive
<1>14. SentInv'
  <2> SUFFICES ASSUME NEW s \in Ranks, NEW t \in Ranks, Neighbours(s, t), NEW i \in DOMAIN chan'[s][t]
               PROVE  /\ chan'[s][t][i].tag = IF s < t THEN 0 ELSE 1
                      /\ chan'[s][t][i].data = Lockstep'[Meets(Lo(s, t), Received(t, s)' + i - 1)][s]
    BY DEF SentInv, Neighbours, Lo, Meets
  <2>1. Received(t, s)' = Received(t, s) + (IF t = r /\ s = u THEN 1 ELSE 0) /\ Received(t, s) \in Nat
    BY <1>11, CountTypes DEF Neighbours, LockInv, HeldInv, CountInv, StopInv
  <2> PICK e : e = IF t = r /\ s = u THEN 1 ELSE 0
    OBVIOUS
  <2>2. i \in Nat \ {0}
    <3>1. IsSeq(chan'[s][t])
      BY <1>2, MessageRemoved DEF LockInv, HeldInv, CountInv
    <3>2. QED
      BY <3>1, SeqShape
  <2>3. i + e \in DOMAIN chan[s][t] /\ Same(chan'[s][t][i], chan[s][t][i + e])
    <3>1. CASE t = r /\ s = u
      BY <1>4, <1>12, <2>2, <3>1
    <3>2. CASE t # r \/ s # u
      <4>1. i \in DOMAIN chan[s][t] /\ Same(chan'[s][t][i], chan[s][t][i])
        BY <1>12, <3>2
      <4>2. DOMAIN chan[s][t] \subseteq Nat
        BY SeqShape DEF LockInv, HeldInv, CountInv, FlightInv
      <4>3. QED
        BY <3>2, <4>1, <4>2
    <3>3. QED
      BY <3>1, <3>2
  <2>4. chan'[s][t][i].tag = chan[s][t][i + e].tag /\ chan'[s][t][i].data = chan[s][t][i + e].data
    BY <2>3, SameMessage DEF LockInv, HeldInv, MessageInv
  <2>5. /\ chan[s][t][i + e].tag = IF s < t THEN 0 ELSE 1
        /\ chan[s][t][i + e].data = Lockstep[Meets(Lo(s, t), Received(t, s) + (i + e) - 1)][s]
    BY <2>3 DEF LockInv, SentInv
  <2>6. Received(t, s)' + i - 1 = Received(t, s) + (i + e) - 1
    <3>1. i + e \in Int /\ e \in Int
      BY <2>3, SeqShape DEF LockInv, HeldInv, CountInv, FlightInv
    <3>2. QED
      BY <2>1, <2>2, <3>1
  <2>7. QED
    BY <1>13, <2>4, <2>5, <2>6
<1>15. QED
  BY <1>10, <1>14
LEMMA LockInit == Init => LockInv
<1> SUFFICES ASSUME Init PROVE LockInv
  OBVIOUS
<1>1. \A s, t \in Ranks : chan[s][t] = <<>>
  BY DEF Init
<1>2. SentInv
  BY <1>1 DEF SentInv
<1>3. InLockstep /\ \A r \in Ranks : pc[r] = "read" => phase[r] = 0
  BY DEF Init, InLockstep
<1>4. QED
  BY <1>2, <1>3, HeldInit DEF LockInv

LEMMA LockNext == LockInv /\ SegmentsArrive /\ [Next]_vars => LockInv'
<1> SUFFICES ASSUME LockInv, SegmentsArrive, [Next]_vars PROVE LockInv'
  OBVIOUS
<1>1. HeldInv'
  BY HeldNext DEF LockInv
<1>2. ASSUME Lockstep' = Lockstep, UNCHANGED <<phase, buf, chan>>,
             \A s \in Ranks : pc'[s] = pc[s] \/ (pc[s] = "write" /\ pc'[s] = "done")
      PROVE  LockInv'
  <2>1. InLockstep' /\ \A s \in Ranks : pc'[s] = "read" => phase'[s] = 0
    BY <1>2 DEF LockInv, InLockstep
  <2>2. \A s, t \in Ranks : Received(s, t)' = Received(s, t)
    BY <1>2 DEF Received, Lo
  <2>3. SentInv'
    BY <1>2, <2>2, SentKept DEF LockInv
  <2>4. QED
    BY <1>1, <2>1, <2>3 DEF LockInv
<1>3. ASSUME NEW r \in Ranks, Write(r) PROVE LockInv'
  <2>1. Lockstep' = Lockstep
    BY <1>3, LockstepKept DEF Write
  <2>2. \A s \in Ranks : pc'[s] = pc[s] \/ (pc[s] = "write" /\ pc'[s] = "done")
    BY <1>3 DEF Write, LockInv, HeldInv, CountInv, StopInv, TypeInv
  <2>3. QED
    BY <1>2, <1>3, <2>1, <2>2 DEF Write
<1>4. CASE UNCHANGED vars
  <2>1. Lockstep' = Lockstep
    BY <1>4, LockstepKept DEF vars
  <2>2. QED
    BY <1>2, <1>4, <2>1 DEF vars
<1>5. ASSUME NEW r \in Ranks, Process(r) PROVE LockInv'
  <2>1. CASE Write(r)
    BY <1>3, <2>1
  <2>2. CASE ~Write(r)
    <3>1. InLockstep' /\ SentInv' /\ \A s \in Ranks : pc'[s] = "read" => phase'[s] = 0
      BY <1>5, <2>2, ReadLock, SkipLock, IsendLock, ReceiveLock, AllreduceLock DEF Process
    <3>2. QED
      BY <1>1, <3>1 DEF LockInv
  <2>3. QED
    BY <2>1, <2>2
<1>6. (\E r \in Ranks : Process(r)) \/ UNCHANGED vars
  BY DEF Next, Finished
<1>7. QED
  BY <1>4, <1>5, <1>6

\* Where no block is lost in its sender's buffer, the processes hold the blocks
\* of the lockstep algorithm whatever their order: phases apart, with two
\* messages of a sender on their way, none takes the message of another phase.
THEOREM BlocksInLockstep == Spec /\ []SegmentsArrive => []InLockstep
<1>1. LockInv => InLockstep
  BY DEF LockInv
<1>2. QED
  BY <1>1, LockInit, LockNext, PTL DEF Spec

CopyInv ==
  /\ HeldInv /\ version.buffer # "mpi" /\ count_b_size(0) <= EagerLimit
  /\ \A s, t \in Ranks : \A i \in DOMAIN chan[s][t] : chan[s][t][i].at = "mpi"

LEMMA CopyInit == Init /\ count_b_size(0) <= EagerLimit => CopyInv
<1> SUFFICES ASSUME Init, count_b_size(0) <= EagerLimit PROVE CopyInv
  OBVIOUS
<1>1. \A s, t \in Ranks : chan[s][t] = <<>>
  BY DEF Init
<1>2. version.buffer # "mpi"
  BY InputAssumption DEF Init, hw1, no_stop, sota, stlmerge, timer, stlsort, spreadsort
<1>3. QED
  BY <1>1, <1>2, HeldInit DEF CopyInv

LEMMA CopyNext == CopyInv /\ [Next]_vars => CopyInv'
<1> SUFFICES ASSUME CopyInv, [Next]_vars PROVE CopyInv'
  OBVIOUS
<1>1. HeldInv'
  BY HeldNext DEF CopyInv
<1>2. version' = version /\ in_f' = in_f
  BY DEF Next, Process, Read, Skip, Isend, Receive, Allreduce, Write, Finished, vars
<1>3. version'.buffer # "mpi" /\ count_b_size(0)' <= EagerLimit
  BY <1>2 DEF CopyInv, count_b_size, n
<1>4. \A s, t \in Ranks : \A i \in DOMAIN chan[s][t] :
        chan[s][t][i].at = "mpi" /\ chan[s][t][i] \in MessageOf(s)
  BY DEF CopyInv, HeldInv, MessageInv
<1>5. ASSUME NEW r \in Ranks, Process(r), NEW s \in Ranks, NEW t \in Ranks, NEW i \in DOMAIN chan'[s][t]
      PROVE  chan'[s][t][i].at = "mpi"
  <2>1. CASE chan' = chan
    BY <1>4, <2>1
  <2>2. CASE Isend(r)
    <3> PICK u, m : /\ u = target_rank(r, phase[r])
                    /\ m = [tag  |-> in_pair_id(r, phase[r]),
                             at   |-> IF Len(buf[r]) <= EagerLimit THEN "mpi" ELSE "buffer",
                             data |-> buf[r]]
      OBVIOUS
    <3> PICK q : q = chan[r][u]
      OBVIOUS
    <3>1. chan' = [chan EXCEPT ![r][u] = Append(@, m)] /\ u \in Ranks
      <4>1. phase[r] \in Nat
        BY Sizes DEF CopyInv, HeldInv, CountInv, StopInv, TypeInv
      <4>2. QED
        BY <2>2, <4>1, Partner DEF Isend
    <3>2. m.at = "mpi"
      <4>1. Len(buf[r]) = count_b_size(r)
        BY <2>2 DEF Isend, CopyInv, HeldInv, BufInv
      <4>2. count_b_size(r) \in Nat /\ count_b_size(r) <= count_b_size(0) /\ count_b_size(0) \in Nat
        <5>1. 0 \in Ranks
          BY Sizes
        <5>2. QED
          BY <5>1, BlocksFit DEF CopyInv, HeldInv
      <4>3. Len(buf[r]) <= EagerLimit
        BY <4>1, <4>2, EagerAssumption DEF CopyInv
      <4>4. QED
        BY <4>3
    <3>3. CASE s = r /\ t = u
      <4>1. chan'[r][u] = Append(q, m) /\ IsSeq(q) /\ i \in DOMAIN Append(q, m)
        BY <3>1, <3>3 DEF CopyInv, HeldInv, CountInv, FlightInv
      <4>2. \/ i \in DOMAIN q /\ Append(q, m)[i] = q[i]
            \/ i = Len(q) + 1 /\ Append(q, m)[i] = m
        BY <4>1, Appended, Zenon
      <4>3. QED
        BY <1>4, <3>1, <3>2, <3>3, <4>1, <4>2
    <3>4. CASE s # r \/ t # u
      BY <1>4, <3>1, <3>4 DEF CopyInv, HeldInv, CountInv, FlightInv
    <3>5. QED
      BY <3>3, <3>4
  <2>3. CASE Receive(r)
    <3> PICK p \in Nat : p = phase[r] /\ pc[r] = "wait"
      BY <2>3, Sizes DEF CopyInv, HeldInv, CountInv, StopInv, TypeInv, Receive
    <3> PICK u \in Ranks : u = target_rank(r, p)
      BY Partner DEF CopyInv, HeldInv, CountInv, WaitInv
    <3>1. PICK k \in DOMAIN chan[u][r] :
            \/ chan' = [chan EXCEPT ![u][r] = RemoveAt(@, k)]
            \/ chan' = FreeBuffer(r, [chan EXCEPT ![u][r] = RemoveAt(@, k)])
      BY <2>3 DEF Receive
    <3>2. PICK j \in DOMAIN chan[s][t] : Same(chan'[s][t][i], chan[s][t][j])
      <4>1. FlightInv
        BY DEF CopyInv, HeldInv, CountInv
      <4>2. /\ \A x, y \in Ranks : x # u \/ y # r =>
                 \A l \in DOMAIN chan'[x][y] :
                   l \in DOMAIN chan[x][y] /\ Same(chan'[x][y][l], chan[x][y][l])
            /\ \A l \in DOMAIN chan'[u][r] :
                 LET j == IF l < k THEN l ELSE l + 1 IN
                 j \in DOMAIN chan[u][r] /\ Same(chan'[u][r][l], chan[u][r][j])
        BY <3>1, <4>1, MessagesLeft
      <4>3. CASE s = u /\ t = r
        BY <4>2, <4>3
      <4>4. CASE s # u \/ t # r
        BY <4>2, <4>4
      <4>5. QED
        BY <4>3, <4>4
    <3>3. QED
      BY <1>4, <3>2, SameMessage
  <2>4. CASE Allreduce(r)
    <3>1. chan' = FreeBuffer(r, chan) /\ DOMAIN chan = Ranks /\ \A x \in Ranks : DOMAIN chan[x] = Ranks
      BY <2>4 DEF Allreduce, CopyInv, HeldInv, CountInv, FlightInv
    <3>2. DOMAIN chan'[s][t] = DOMAIN chan[s][t]
      BY <3>1 DEF FreeBuffer
    <3>3. Same(chan'[s][t][i], chan[s][t][i])
      BY <3>1, <3>2, FreedMessages
    <3>4. QED
      BY <1>4, <3>2, <3>3, SameMessage
  <2>5. QED
    BY <1>5, <2>1, <2>2, <2>3, <2>4 DEF Process, Read, Skip, Write
<1>6. ASSUME UNCHANGED vars, NEW s \in Ranks, NEW t \in Ranks, NEW i \in DOMAIN chan'[s][t]
      PROVE  chan'[s][t][i].at = "mpi"
  BY <1>4, <1>6 DEF vars
<1>7. (\E r \in Ranks : Process(r)) \/ UNCHANGED vars
  BY DEF Next, Finished
<1>8. \A s, t \in Ranks : \A i \in DOMAIN chan'[s][t] : chan'[s][t][i].at = "mpi"
  BY <1>5, <1>6, <1>7
<1>9. QED
  BY <1>1, <1>3, <1>8 DEF CopyInv

\* No block is lost when MPI copies all of them: when the largest block of the
\* file is within its limit, the processes are in lockstep.
THEOREM CopiedBlocksInLockstep == Spec /\ count_b_size(0) <= EagerLimit => []InLockstep
<1>1. CopyInv => SegmentsArrive
  BY DEF CopyInv, SegmentsArrive
<1>2. QED
  BY <1>1, CopyInit, CopyNext, BlocksInLockstep, PTL DEF Spec

-----------------------------------------------------------------------------
(* What the lockstep algorithm computes.                                   *)

\* Consecutive blocks make up the file.
LEMMA BlocksTile ==
  ASSUME FileIn
  PROVE  /\ \A i \in 1..n : \E r \in Ranks : i \in Block(r)
         /\ \A r, s \in Ranks : \A i : i \in Block(r) /\ i \in Block(s) => r = s
<1> PICK N \in Nat, T \in Nat \ {0} : N = n /\ T = CommSize
  BY CommAssumption DEF FileIn, n
<1> PICK q, m : q = N \div T /\ m = N % T
  OBVIOUS
<1>1. q \in Nat /\ m \in 0..(T - 1) /\ N = T * q + m
  BY ONLY DivMod, N \in Nat, T \in Nat \ {0}, q = N \div T, m = N % T
<1>2. Ranks = 0..(T - 1)
  BY DEF Ranks
<1>3. /\ \A t \in 0..T : Piece(q, m, t) \in Nat
      /\ \A t \in 0..(T - 1) : Piece(q, m, t + 1) = Piece(q, m, t) + q + (IF t < m THEN 1 ELSE 0)
      /\ \A t, u \in 0..T : t <= u => Piece(q, m, t) <= Piece(q, m, u)
      /\ \A i \in 1..N : \E t \in 0..(T - 1) : Piece(q, m, t) < i /\ i <= Piece(q, m, t + 1)
  <2>1. /\ \A t \in 0..T : Piece(q, m, t) \in 0..(T * q + m)
        /\ \A t \in 0..(T - 1) : Piece(q, m, t + 1) = Piece(q, m, t) + q + (IF t < m THEN 1 ELSE 0)
        /\ \A t, u \in 0..T : t <= u => Piece(q, m, t) <= Piece(q, m, u)
        /\ \A i \in 1..(T * q + m) : \E t \in 0..(T - 1) : Piece(q, m, t) < i /\ i <= Piece(q, m, t + 1)
    BY ONLY <1>1, PiecesAre, T \in Nat \ {0}, Zenon
  <2>2. \A t \in 0..T : Piece(q, m, t) \in Nat
    BY <2>1
  <2>3. QED
    BY <1>1, <2>1, <2>2, Zenon
<1>4. ASSUME NEW r \in Ranks, NEW i
      PROVE  i \in Block(r) <=> i \in Int /\ Piece(q, m, r) < i /\ i <= Piece(q, m, r + 1)
  <2>1. r \in Nat /\ r \in 0..(T - 1)
    BY <1>2
  <2>2. count_b_start(r) = Piece(q, m, r)
    <3>1. count_b_start(r) = IF r < m THEN q * r + r ELSE q * r + m
      BY DEF count_b_start
    <3>2. q * r \in Nat
      BY <1>1, <2>1
    <3>3. QED
      BY <1>1, <2>1, <3>1, <3>2 DEF Piece
  <2>3. count_b_size(r) = q + (IF r < m THEN 1 ELSE 0)
    BY <1>1 DEF count_b_size
  <2>4. Piece(q, m, r + 1) = Piece(q, m, r) + q + (IF r < m THEN 1 ELSE 0) /\ Piece(q, m, r) \in Nat
    BY <1>3, <2>1
  <2>5. QED
    BY <1>1, <2>2, <2>3, <2>4 DEF Block
<1>5. \A i \in 1..N : \E r \in Ranks : i \in Block(r)
  BY <1>2, <1>3, <1>4
<1>6. ASSUME NEW r \in Ranks, NEW s \in Ranks, NEW i, i \in Block(r), i \in Block(s), r < s PROVE FALSE
  <2>1. r + 1 \in 0..T /\ s \in 0..T /\ r + 1 <= s
    BY <1>2, <1>6
  <2>2. Piece(q, m, r + 1) <= Piece(q, m, s) /\ Piece(q, m, r + 1) \in Nat /\ Piece(q, m, s) \in Nat
    BY <1>3, <2>1
  <2>3. i \in Int /\ i <= Piece(q, m, r + 1) /\ Piece(q, m, s) < i
    BY <1>4, <1>6
  <2>4. QED
    BY ONLY <2>2, <2>3
<1>7. ASSUME NEW r \in Ranks, NEW s \in Ranks, NEW i, i \in Block(r), i \in Block(s) PROVE r = s
  <2>1. r < s \/ s < r \/ r = s
    BY <1>2
  <2>2. QED
    BY <1>6, <1>7, <2>1
<1>8. QED
  BY <1>5, <1>7

LEMMA NumbersArePairs ==
  ASSUME FileIn
  PROVE  /\ n \in Nat /\ Numbers \subseteq Int \X Int
         /\ \A x \in Numbers : x[2] \in 1..n /\ x = <<in_f[x[2]], x[2]>>
<1>1. n \in Nat /\ \A i \in 1..n : in_f[i] \in Int
  BY DEF FileIn, n
<1>2. ASSUME NEW x \in Numbers
      PROVE  x \in Int \X Int /\ x[2] \in 1..n /\ x = <<in_f[x[2]], x[2]>>
  <2>1. PICK i \in 1..n : x = <<in_f[i], i>>
    BY DEF Numbers
  <2>2. QED
    BY <1>1, <2>1
<1>3. QED
  BY <1>1, <1>2

\* As many different places as there are in a block are all places of it.
LEMMA AllPlaces ==
  ASSUME NEW a \in Nat, NEW m \in Nat, NEW f \in [1..m -> (a + 1)..(a + m)],
         \A i, j \in 1..m : f[i] = f[j] => i = j
  PROVE  \A k \in (a + 1)..(a + m) : \E j \in 1..m : f[j] = k
<1>1. f \in Injection(1..m, (a + 1)..(a + m))
  BY DEF Injection, IsInjective
<1>2. IsFiniteSet((a + 1)..(a + m)) /\ Cardinality((a + 1)..(a + m)) = m
  <2>1. a + 1 \in Int /\ a + m \in Int
    OBVIOUS
  <2>2. Cardinality((a + 1)..(a + m)) = IF a + 1 > a + m THEN 0 ELSE (a + m) - (a + 1) + 1
    BY <2>1, FS_Interval
  <2>3. QED
    BY <2>1, <2>2, FS_Interval
<1>3. Cardinality(1..m) = m
  BY FS_Interval
<1>4. f \in Surjection(1..m, (a + 1)..(a + m))
  BY <1>1, <1>2, <1>3, FS_Injection
<1>5. QED
  BY <1>4 DEF Surjection

\* A process reads every number of its block.
LEMMA ReadsBlock ==
  ASSUME FileIn, NEW r \in Ranks
  PROVE  /\ InOrder(SortedBlock(r))
         /\ \A i \in Block(r) : <<in_f[i], i>> \in Elems(SortedBlock(r))
<1> PICK s, m : s = SortedBlock(r) /\ m = count_b_size(r)
  OBVIOUS
<1>1. s \in Seq(Numbers) /\ Len(s) = m /\ IsOrdered(s, m) /\ m \in Nat /\ \A j \in 1..m : s[j][2] \in Block(r)
  BY SortedBlockIs, BlocksFit
<1>2. \A j \in 1..m : /\ s[j] \in Int \X Int /\ s[j][1] \in Int /\ s[j][2] \in Int
                      /\ s[j] = <<in_f[s[j][2]], s[j][2]>>
  <2>1. \A j \in 1..m : s[j] \in Numbers
    BY <1>1
  <2>2. QED
    BY <2>1, NumbersArePairs
<1>3. InOrder(s)
  <2>1. ASSUME NEW i \in 1..m, NEW j \in 1..m, i <= j PROVE s[i][1] <= s[j][1]
    <3>1. CASE i = j
      BY <1>2, <3>1
    <3>2. CASE i < j
      <4>1. Before(s[i], s[j])
        BY <1>1, <3>2 DEF IsOrdered
      <4>2. QED
        BY <1>2, <4>1 DEF Before
    <3>3. QED
      BY <1>1, <2>1, <3>1, <3>2
  <2>2. QED
    BY <1>1, <2>1 DEF InOrder
<1> PICK a : a = count_b_start(r)
  OBVIOUS
<1>4. a \in Nat /\ Block(r) = (a + 1)..(a + m)
  BY BlocksFit DEF Block
<1> PICK f : f = [j \in 1..m |-> s[j][2]]
  OBVIOUS
<1>5. f \in [1..m -> (a + 1)..(a + m)] /\ \A j \in 1..m : f[j] = s[j][2]
  BY <1>1, <1>4
<1>6. ASSUME NEW i \in 1..m, NEW j \in 1..m, i < j PROVE f[i] # f[j]
  <2>1. SUFFICES ASSUME f[i] = f[j] PROVE FALSE
    OBVIOUS
  <2>2. s[i] = s[j]
    BY <1>2, <1>5, <2>1
  <2>3. Before(s[i], s[j])
    BY <1>1, <1>6 DEF IsOrdered
  <2>4. QED
    BY <1>2, <2>2, <2>3 DEF Before
<1>7. ASSUME NEW i \in 1..m, NEW j \in 1..m, f[i] = f[j] PROVE i = j
  <2>1. i < j \/ j < i \/ i = j
    BY <1>1
  <2>2. QED
    BY <1>6, <1>7, <2>1
<1>8. \A k \in (a + 1)..(a + m) : \E j \in 1..m : f[j] = k
  BY <1>1, <1>4, <1>5, <1>7, AllPlaces
<1>9. ASSUME NEW i \in Block(r) PROVE <<in_f[i], i>> \in Elems(s)
  <2>1. PICK j \in 1..m : s[j][2] = i
    BY <1>4, <1>5, <1>8
  <2>2. s[j] = <<in_f[i], i>>
    BY <1>2, <2>1
  <2>3. QED
    BY <1>1, <2>2 DEF Elems
<1>10. QED
  BY <1>3, <1>9

\* What every block of the lockstep algorithm is like
BlockIs(L, p) ==
  \A r \in Ranks : L[p][r] \in Seq(Numbers) /\ Len(L[p][r]) = count_b_size(r) /\ InOrder(L[p][r])

\* The numbers in all blocks
Kept(L, p) == UNION {Elems(L[p][r]) : r \in Ranks}

LEMMA PairOf ==
  ASSUME NEW r \in Ranks, NEW p \in Nat, target_rank(r, p) # NoRank
  PROVE  LET t == target_rank(r, p) IN
         /\ t \in Ranks /\ target_rank(t, p) = r /\ t # NoRank /\ r # NoRank
         /\ \/ t = r + 1 /\ in_pair_id(r, p) = 0 /\ in_pair_id(t, p) = 1
            \/ r = t + 1 /\ in_pair_id(r, p) = 1 /\ in_pair_id(t, p) = 0
<1> PICK t : t = target_rank(r, p)
  OBVIOUS
<1>1. t \in Ranks /\ Neighbours(r, t) /\ r \in Nat /\ t \in Nat
  BY Partner, Sizes
<1>2. t # NoRank /\ r # NoRank
  BY <1>1 DEF NoRank
<1>3. /\ Neighbours(t, r) /\ p % 2 = Lo(r, t) % 2 /\ Lo(t, r) = Lo(r, t)
      /\ in_pair_id(r, p) = IF r < t THEN 0 ELSE 1
  BY <1>1, PairTag
<1>4. target_rank(t, p) = r
  BY <1>1, <1>3, Partner
<1>5. in_pair_id(t, p) = IF t < r THEN 0 ELSE 1
  BY <1>1, <1>4, PairTag
<1>6. QED
  BY <1>1, <1>2, <1>3, <1>4, <1>5 DEF Neighbours

LEMMA BlocksAre ==
  ASSUME FileIn
  PROVE  \A p \in 0..(LastPhase + 1) : BlockIs(Lockstep, p)
<1> DEFINE L == Lockstep
           N == LastPhase + 1
           T == {p \in 0..N : BlockIs(L, p)}
<1>1. IsLockstep(L) /\ N \in Nat
  BY LockstepIs, Sizes
<1>2. 0 \in T
  <2>1. \A r \in Ranks : L[0][r] = SortedBlock(r)
    BY <1>1 DEF IsLockstep
  <2> HIDE DEF L
  <2>2. BlockIs(L, 0)
    BY <2>1, SortedBlockIs, ReadsBlock DEF BlockIs
  <2>3. QED
    BY <1>1, <2>2
<1>3. ASSUME NEW p \in 0..(N - 1), p \in T PROVE p + 1 \in T
  <2>1. p \in Nat /\ p \in 0..LastPhase /\ p + 1 \in 0..N
    BY <1>1, Sizes
  <2>2. L[p + 1] = PhaseOf(L[p], p) /\ BlockIs(L, p)
    BY <1>1, <1>3, <2>1 DEF IsLockstep
  <2> HIDE DEF L
  <2>3. ASSUME NEW r \in Ranks
        PROVE  L[p + 1][r] \in Seq(Numbers) /\ Len(L[p + 1][r]) = count_b_size(r) /\ InOrder(L[p + 1][r])
    <3>1. CASE target_rank(r, p) = NoRank
      <4>1. L[p + 1][r] = L[p][r]
        BY <2>2, <3>1 DEF PhaseOf
      <4>2. QED
        BY <2>2, <4>1 DEF BlockIs
    <3>2. CASE target_rank(r, p) # NoRank
      <4> PICK t, id : t = target_rank(r, p) /\ id = in_pair_id(r, p)
        OBVIOUS
      <4>1. t \in Ranks
        BY <2>1, <3>2, PairOf
      <4> PICK x, y : x = L[p][r] /\ y = L[p][t]
        OBVIOUS
      <4>2. L[p + 1][r] = merge_realc(x, y, id)
        BY <2>2, <3>2 DEF PhaseOf
      <4>3. x \in Seq(Numbers) /\ y \in Seq(Numbers) /\ Len(x) = count_b_size(r) /\ InOrder(x) /\ InOrder(y)
        BY <2>2, <4>1 DEF BlockIs
      <4>4. x \in Seq(Int \X Int) /\ y \in Seq(Int \X Int)
        BY <4>3, NumbersArePairs
      <4>5. merge_realc(x, y, id) \in Seq(Numbers) /\ Len(merge_realc(x, y, id)) = Len(x)
        BY <4>3, MergeTypes
      <4>6. InOrder(merge_realc(x, y, id))
        BY <4>3, <4>4, MergeInOrder
      <4>7. QED
        BY <4>2, <4>3, <4>5, <4>6
    <3>3. QED
      BY <3>1, <3>2
  <2>4. BlockIs(L, p + 1)
    BY <2>3 DEF BlockIs
  <2>5. QED
    BY <2>1, <2>4
<1> HIDE DEF T, N
<1>4. \A p \in 0..N : p \in T
  BY <1>1, <1>2, <1>3, UpTo
<1>5. QED
  BY <1>4 DEF T, N, L

\* In every phase the blocks hold the numbers of the file.
LEMMA NumbersKept ==
  ASSUME FileIn
  PROVE  \A p \in 0..(LastPhase + 1) : Kept(Lockstep, p) = Numbers
<1> DEFINE L == Lockstep
           N == LastPhase + 1
           T == {p \in 0..N : Numbers \subseteq Kept(L, p)}
<1>1. IsLockstep(L) /\ N \in Nat
  BY LockstepIs, Sizes
<1>2. \A p \in 0..N : BlockIs(L, p)
  BY BlocksAre
<1>3. 0 \in T
  <2>1. \A r \in Ranks : L[0][r] = SortedBlock(r)
    BY <1>1 DEF IsLockstep
  <2> HIDE DEF L
  <2>2. ASSUME NEW x \in Numbers PROVE x \in Kept(L, 0)
    <3>1. x[2] \in 1..n /\ x = <<in_f[x[2]], x[2]>>
      BY NumbersArePairs
    <3>2. PICK r \in Ranks : x[2] \in Block(r)
      BY <3>1, BlocksTile
    <3>3. x \in Elems(L[0][r])
      BY <2>1, <3>1, <3>2, ReadsBlock
    <3>4. QED
      BY <3>3 DEF Kept
  <2>3. QED
    BY <1>1, <2>2
<1>4. ASSUME NEW p \in 0..(N - 1), p \in T PROVE p + 1 \in T
  <2>1. p \in Nat /\ p \in 0..LastPhase /\ p + 1 \in 0..N /\ p \in 0..N
    BY <1>1, Sizes
  <2>2. L[p + 1] = PhaseOf(L[p], p) /\ BlockIs(L, p)
    BY <1>1, <1>2, <2>1 DEF IsLockstep
  <2> HIDE DEF L
  <2>3. \A r \in Ranks : L[p][r] \in Seq(Int \X Int) /\ InOrder(L[p][r])
    BY <2>2, NumbersArePairs DEF BlockIs
  <2>4. ASSUME NEW r \in Ranks, NEW x \in Elems(L[p][r]) PROVE x \in Kept(L, p + 1)
    <3>1. CASE target_rank(r, p) = NoRank
      <4>1. L[p + 1][r] = L[p][r]
        BY <2>2, <3>1 DEF PhaseOf
      <4>2. QED
        BY <2>4, <4>1 DEF Kept
    <3>2. CASE target_rank(r, p) # NoRank
      <4> PICK t : t = target_rank(r, p)
        OBVIOUS
      <4>1. /\ t \in Ranks /\ target_rank(t, p) = r /\ t # NoRank /\ r # NoRank
            /\ \/ t = r + 1 /\ in_pair_id(r, p) = 0 /\ in_pair_id(t, p) = 1
               \/ r = t + 1 /\ in_pair_id(r, p) = 1 /\ in_pair_id(t, p) = 0
        BY <2>1, <3>2, PairOf, Zenon
      <4>2. /\ L[p + 1][r] = merge_realc(L[p][r], L[p][t], in_pair_id(r, p))
            /\ L[p + 1][t] = merge_realc(L[p][t], L[p][r], in_pair_id(t, p))
        BY <2>2, <3>2, <4>1, Zenon DEF PhaseOf
      <4>3. x \in Elems(L[p + 1][r]) \cup Elems(L[p + 1][t])
        <5>1. CASE in_pair_id(r, p) = 0 /\ in_pair_id(t, p) = 1
          <6>1. L[p + 1][r] = Lower(L[p][r], L[p][t]) /\ L[p + 1][t] = Upper(L[p][t], L[p][r])
            BY <4>2, <5>1 DEF merge_realc
          <6>2. Elems(L[p + 1][r]) \cup Elems(L[p + 1][t]) = Elems(L[p][r]) \cup Elems(L[p][t])
            BY <2>3, <4>1, <6>1, MergeKeeps
          <6>3. QED
            BY <2>4, <6>2
        <5>2. CASE in_pair_id(r, p) = 1 /\ in_pair_id(t, p) = 0
          <6>1. L[p + 1][r] = Upper(L[p][r], L[p][t]) /\ L[p + 1][t] = Lower(L[p][t], L[p][r])
            BY <4>2, <5>2 DEF merge_realc
          <6>2. Elems(L[p + 1][t]) \cup Elems(L[p + 1][r]) = Elems(L[p][t]) \cup Elems(L[p][r])
            BY <2>3, <4>1, <6>1, MergeKeeps
          <6>3. QED
            BY <2>4, <6>2
        <5>3. QED
          BY <4>1, <5>1, <5>2, Zenon
      <4>4. QED
        BY <4>1, <4>3 DEF Kept
    <3>3. QED
      BY <3>1, <3>2
  <2>5. Kept(L, p) \subseteq Kept(L, p + 1)
    BY <2>4 DEF Kept
  <2>6. QED
    BY <1>4, <2>1, <2>5
<1> HIDE DEF T, N, L
<1>5. \A p \in 0..N : p \in T
  BY <1>1, <1>3, <1>4, UpTo
<1>6. ASSUME NEW p \in 0..N PROVE Kept(L, p) \subseteq Numbers
  <2>1. \A r \in Ranks : L[p][r] \in Seq(Numbers)
    BY <1>2 DEF BlockIs
  <2>2. \A r \in Ranks : Elems(L[p][r]) \subseteq Numbers
    BY <2>1 DEF Elems
  <2>3. QED
    BY <2>2 DEF Kept
<1>7. QED
  BY <1>5, <1>6 DEF T, N, L

-----------------------------------------------------------------------------
(* Blocks of the same length are sorted.                                   *)

\* What a pair has that is not above a value, told by the borders of the pair
PairLaw(b, u, v, w) ==
  /\ AtMost((b - (u - v)) + (b - (v - w)), b) = b - (u - AtMost(w + b, u))
  /\ Above((b - (v - w)) + (b - (u - v)), b) = b - (AtMost(w + b, u) - w)

LEMMA PairCounts ==
  ASSUME NEW b \in Nat, NEW u \in Int, NEW v \in Int, NEW w \in Int
  PROVE  PairLaw(b, u, v, w)
BY DEF PairLaw, AtMost, Above

\* For a value, blocks as they are cut by it
CutAt(L, t, A, b, x) == \A r \in Ranks : Cut(L[t][r], x, b - (A[r] - A[r + 1]))

\* A phase moves numbers over every other border.
LEMMA PhaseMoves ==
  ASSUME FileIn, NEW b \in Nat, \A r \in Ranks : count_b_size(r) = b, NEW x \in Int, NEW t \in 0..LastPhase,
         NEW A \in [0..CommSize -> Int], CutAt(Lockstep, t, A, b, x),
         NEW B \in [0..CommSize -> Int], Moved(A, B, CommSize, b, t)
  PROVE  CutAt(Lockstep, t + 1, B, b, x)
<1> PICK L : L = Lockstep
  OBVIOUS
<1> PICK N : N = CommSize
  OBVIOUS
<1>1. N \in Nat /\ N > 0 /\ Ranks = 0..(N - 1) /\ t \in Nat /\ t \in 0..(LastPhase + 1)
  BY Sizes
<1>2. L[t + 1] = PhaseOf(L[t], t)
  BY LockstepIs DEF IsLockstep
<1>3. \A r \in Ranks : L[t][r] \in Seq(Int \X Int) /\ Len(L[t][r]) = b
  <2>1. BlockIs(L, t)
    BY <1>1, BlocksAre
  <2>2. QED
    BY <2>1, NumbersArePairs DEF BlockIs
<1>4. \A r \in Ranks : Cut(L[t][r], x, b - (A[r] - A[r + 1]))
  BY DEF CutAt
<1>5. \A j \in 0..N : A[j] \in Int /\ B[j] = IF 0 < j /\ j < N /\ (j % 2) # (t % 2)
                                             THEN AtMost(A[j + 1] + b, A[j - 1]) ELSE A[j]
  BY DEF Moved
<1>6. ASSUME NEW r \in Ranks PROVE Cut(L[t + 1][r], x, b - (B[r] - B[r + 1]))
  <2>1. r \in 0..N /\ r + 1 \in 0..N /\ r \in Nat /\ (r + 1) - 1 = r /\ r < N
    BY <1>1
  <2>2. (r % 2) \in {0, 1} /\ (t % 2) \in {0, 1} /\ ((r + 1) % 2) = 1 - (r % 2)
    BY ONLY <2>1, t \in Nat
  <2>3. CASE target_rank(r, t) = NoRank
    <3>1. (r % 2 = t % 2 /\ r + 1 = N) \/ (r % 2 # t % 2 /\ r = 0)
      <4>1. CASE r % 2 = t % 2
        BY <1>1, <2>1, <2>3, <4>1 DEF target_rank, in_pair_id, NoRank
      <4>2. CASE r % 2 # t % 2
        BY <1>1, <2>1, <2>3, <4>2 DEF target_rank, in_pair_id, NoRank
      <4>3. QED
        BY <4>1, <4>2
    <3>2. B[r] = A[r] /\ B[r + 1] = A[r + 1]
      <4>1. CASE r % 2 = t % 2 /\ r + 1 = N
        BY <1>1, <1>5, <2>1, <4>1
      <4>2. CASE r % 2 # t % 2 /\ r = 0
        <5>1. ((r + 1) % 2) = (t % 2) /\ ~(0 < r)
          BY <2>2, <4>2
        <5>2. QED
          BY <1>5, <2>1, <5>1
      <4>3. QED
        BY <3>1, <4>1, <4>2
    <3>3. L[t + 1][r] = L[t][r]
      BY <1>2, <2>3 DEF PhaseOf
    <3>4. QED
      BY <1>4, <3>2, <3>3
  <2>4. CASE target_rank(r, t) # NoRank
    <3> PICK u : u = target_rank(r, t)
      OBVIOUS
    <3>1. /\ u \in Ranks /\ target_rank(u, t) = r
          /\ \/ u = r + 1 /\ in_pair_id(r, t) = 0
             \/ r = u + 1 /\ in_pair_id(r, t) = 1
      BY <1>1, <2>4, PairOf, Zenon
    <3>2. L[t + 1][r] = merge_realc(L[t][r], L[t][u], in_pair_id(r, t))
      BY <1>2, <2>4 DEF PhaseOf
    <3>3. L[t][r] \in Seq(Int \X Int) /\ L[t][u] \in Seq(Int \X Int) /\ Len(L[t][r]) = b /\ Len(L[t][u]) = b
      BY <1>3, <3>1
    <3>4. Cut(L[t][r], x, b - (A[r] - A[r + 1])) /\ Cut(L[t][u], x, b - (A[u] - A[u + 1]))
      BY <1>4, <3>1
    <3>5. CASE u = r + 1 /\ in_pair_id(r, t) = 0
      <4>1. (r % 2) = (t % 2)
        BY <3>5 DEF in_pair_id
      <4>2. u \in 0..N /\ u + 1 \in 0..N /\ 0 < u /\ u < N /\ (u % 2) # (t % 2) /\ u - 1 = r /\ r + 1 = u
        BY <1>1, <2>1, <2>2, <3>1, <3>5, <4>1
      <4>3. B[r] = A[r]
        BY <1>5, <2>1, <4>1
      <4>4. B[u] = AtMost(A[u + 1] + b, A[r])
        BY <1>5, <4>2
      <4>5. A[r] \in Int /\ A[u] \in Int /\ A[u + 1] \in Int
        BY <2>1, <4>2
      <4>6. Cut(Lower(L[t][r], L[t][u]), x, AtMost((b - (A[r] - A[u])) + (b - (A[u] - A[u + 1])), b))
        BY <3>3, <3>4, <4>2, LowerCut
      <4>7. AtMost((b - (A[r] - A[u])) + (b - (A[u] - A[u + 1])), b) = b - (A[r] - AtMost(A[u + 1] + b, A[r]))
        <5>1. PairLaw(b, A[r], A[u], A[u + 1])
          BY <4>5, PairCounts
        <5>2. QED
          BY <5>1, Zenon DEF PairLaw
      <4>8. L[t + 1][r] = Lower(L[t][r], L[t][u])
        BY <3>2, <3>5 DEF merge_realc
      <4>9. QED
        BY <4>2, <4>3, <4>4, <4>6, <4>7, <4>8
    <3>6. CASE r = u + 1 /\ in_pair_id(r, t) = 1
      <4>1. (r % 2) # (t % 2)
        BY <3>6 DEF in_pair_id
      <4>2. /\ u \in 0..N /\ 0 < r /\ r < N /\ ((r + 1) % 2) = (t % 2) /\ r - 1 = u /\ u + 1 = r
        <5>1. ((r + 1) % 2) = (t % 2)
          BY ONLY <2>2, <4>1
        <5>2. u \in 0..N /\ 0 < r /\ r < N /\ r - 1 = u /\ u + 1 = r
          BY ONLY <1>1, <2>1, <3>1, <3>6
        <5>3. QED
          BY <5>1, <5>2
      <4>3. B[r] = AtMost(A[r + 1] + b, A[u])
        BY <1>5, <2>1, <4>1, <4>2
      <4>4. B[r + 1] = A[r + 1]
        BY <1>5, <2>1, <4>2
      <4>5. A[r] \in Int /\ A[u] \in Int /\ A[r + 1] \in Int
        BY <2>1, <4>2
      <4>6. Cut(Upper(L[t][r], L[t][u]), x, Above((b - (A[r] - A[r + 1])) + (b - (A[u] - A[r])), b))
        BY <3>3, <3>4, <4>2, UpperCut
      <4>7. Above((b - (A[r] - A[r + 1])) + (b - (A[u] - A[r])), b) = b - (AtMost(A[r + 1] + b, A[u]) - A[r + 1])
        <5>1. PairLaw(b, A[u], A[r], A[r + 1])
          BY <4>5, PairCounts
        <5>2. QED
          BY <5>1, Zenon DEF PairLaw
      <4>8. L[t + 1][r] = Upper(L[t][r], L[t][u])
        BY <3>2, <3>6 DEF merge_realc
      <4>9. QED
        BY <4>3, <4>4, <4>6, <4>7, <4>8
    <3>7. QED
      BY <3>1, <3>5, <3>6
  <2>5. QED
    BY <2>3, <2>4
<1>7. QED
  BY <1>6 DEF CutAt

\* Before the first phase
LEMMA CutFirst ==
  ASSUME FileIn, NEW b \in Nat, \A r \in Ranks : count_b_size(r) = b, NEW x \in Int
  PROVE  \E W \in Nat : \E A : Tally(A, CommSize, b, W) /\ CutAt(Lockstep, 0, A, b, x)
<1> PICK L : L = Lockstep
  OBVIOUS
<1> PICK N : N = CommSize
  OBVIOUS
<1>1. N \in Nat /\ N > 0 /\ Ranks = 0..(N - 1) /\ 0 \in 0..(LastPhase + 1)
  BY Sizes
<1> DEFINE c == [r \in Ranks |-> CHOOSE k : Cut(L[0][r], x, k)]
<1>2. ASSUME NEW r \in Ranks PROVE Cut(L[0][r], x, c[r]) /\ c[r] \in 0..b
  <2>1. BlockIs(L, 0)
    BY <1>1, BlocksAre
  <2>2. L[0][r] \in Seq(Int \X Int) /\ Len(L[0][r]) = b /\ InOrder(L[0][r])
    BY <2>1, NumbersArePairs DEF BlockIs
  <2>3. \E k : Cut(L[0][r], x, k)
    BY <2>2, CutExists
  <2>4. Cut(L[0][r], x, c[r])
    BY <2>3
  <2> HIDE DEF c
  <2>5. QED
    BY <2>2, <2>4 DEF Cut
<1> HIDE DEF c
<1> DEFINE step == [k \in 1..N |-> [v \in Nat |-> v + (b - c[k - 1])]]
<1>3. \A k \in 1..N : k - 1 \in Ranks /\ b - c[k - 1] \in Nat
  <2>1. \A k \in 1..N : k - 1 \in Ranks
    BY <1>1
  <2>2. QED
    BY <1>2, <2>1
<1>4. step \in [1..N -> [Nat -> Nat]]
  BY <1>3
<1>5. PICK S \in [0..N -> Nat] : S[0] = 0 /\ \A k \in 1..N : S[k] = step[k][S[k - 1]]
  <2> HIDE DEF step
  <2>1. \E g \in [0..N -> Nat] : Recurs(g, N, 0, step)
    BY <1>1, <1>4, RecursionExists
  <2>2. QED
    BY <2>1 DEF Recurs
<1>6. ASSUME NEW j \in 0..(N - 1) PROVE S[j + 1] = S[j] + (b - c[j])
  <2>1. j + 1 \in 1..N /\ (j + 1) - 1 = j /\ S[j] \in Nat
    BY <1>1
  <2>2. QED
    BY <1>5, <2>1
<1> HIDE DEF step
<1> DEFINE A == [j \in 0..N |-> S[N] - S[j]]
<1>7. S[N] \in Nat /\ A \in [0..N -> Int] /\ A[0] = S[N] /\ A[N] = 0
  BY <1>1, <1>5
<1>8. ASSUME NEW j \in 0..(N - 1) PROVE A[j] - A[j + 1] = b - c[j] /\ c[j] \in 0..b
  <2>1. j \in 0..N /\ j + 1 \in 0..N /\ j \in Ranks
    BY <1>1
  <2>2. S[N] \in Nat /\ S[j] \in Nat /\ S[j + 1] \in Nat /\ c[j] \in 0..b
    BY <1>2, <1>7, <2>1
  <2>3. A[j] = S[N] - S[j] /\ A[j + 1] = S[N] - S[j + 1]
    BY <2>1
  <2> HIDE DEF A
  <2>4. QED
    BY <1>6, <2>2, <2>3
<1> HIDE DEF A
<1>9. Tally(A, N, b, S[N])
  BY <1>7, <1>8 DEF Tally
<1>10. ASSUME NEW r \in Ranks PROVE Cut(L[0][r], x, b - (A[r] - A[r + 1]))
  <2>1. A[r] - A[r + 1] = b - c[r] /\ c[r] \in 0..b
    BY <1>1, <1>8
  <2>2. b - (A[r] - A[r + 1]) = c[r]
    BY <2>1
  <2>3. QED
    BY <1>2, <2>2
<1>11. CutAt(L, 0, A, b, x)
  BY <1>10 DEF CutAt
<1>12. QED
  BY <1>7, <1>9, <1>11

\* Behind the last phase what is above a value fills the last blocks.
LEMMA CutLast ==
  ASSUME FileIn, NEW b \in Nat \ {0}, \A r \in Ranks : count_b_size(r) = b, NEW x \in Int
  PROVE  \E W \in Nat : \E A : /\ CutAt(Lockstep, LastPhase + 1, A, b, x)
                                 /\ \A j \in 0..CommSize : A[j] = Full(W, b, CommSize - j)
<1> PICK N : N = CommSize
  OBVIOUS
<1>1. N \in Nat /\ LastPhase = N
  BY Sizes
<1> PICK W \in Nat : \E A : Tally(A, N, b, W) /\ CutAt(Lockstep, 0, A, b, x)
  BY CutFirst
<1>2. PICK A0 : Tally(A0, N, b, W) /\ CutAt(Lockstep, 0, A0, b, x)
  OBVIOUS
<1> PICK Q : Q = W \div b
  OBVIOUS
<1>3. Q \in Nat /\ Q * b <= W /\ W < (Q + 1) * b
  <2>1. Q \in Nat /\ W % b \in 0..(b - 1) /\ W = b * Q + (W % b)
    BY DivMod
  <2>2. Q * b = b * Q /\ (Q + 1) * b = b * Q + b /\ b * Q \in Nat
    BY <2>1
  <2>3. QED
    BY <2>1, <2>2
<1> DEFINE Good(t, A) == Tally(A, N, b, W) /\ Arrived(A, N, b, W, Q, t) /\ CutAt(Lockstep, t, A, b, x)
           T == {t \in 0..(N + 1) : \E A : Good(t, A)}
<1>4. 0 \in T
  <2>1. Arrived(A0, N, b, W, Q, 0)
    BY <1>1, <1>2, <1>3, ArrivedFirst
  <2>2. Good(0, A0)
    BY <1>2, <2>1
  <2> HIDE DEF Good
  <2>3. QED
    BY <1>1, <2>2
<1>5. ASSUME NEW t \in 0..((N + 1) - 1), t \in T PROVE t + 1 \in T
  <2>1. PICK A : Good(t, A)
    BY <1>5
  <2>2. t \in 0..LastPhase /\ t \in Nat /\ t + 1 \in 0..(N + 1)
    BY <1>1
  <2>3. A \in [0..N -> Int] /\ Tally(A, N, b, W) /\ Arrived(A, N, b, W, Q, t) /\ CutAt(Lockstep, t, A, b, x)
    BY <2>1 DEF Tally
  <2> DEFINE B == [j \in 0..N |-> IF 0 < j /\ j < N /\ (j % 2) # (t % 2)
                                  THEN AtMost(A[j + 1] + b, A[j - 1]) ELSE A[j]]
  <2>4. B \in [0..N -> Int]
    <3>1. \A j \in 0..N : A[j] \in Int
      BY <2>3
    <3>2. ASSUME NEW j \in 0..N, 0 < j, j < N PROVE AtMost(A[j + 1] + b, A[j - 1]) \in Int
      <4>1. j + 1 \in 0..N /\ j - 1 \in 0..N
        BY <1>1, <3>2
      <4>2. A[j + 1] \in Int /\ A[j - 1] \in Int
        BY <3>1, <4>1
      <4>3. QED
        BY <4>2 DEF AtMost
    <3>3. QED
      BY <3>1, <3>2
  <2>5. Moved(A, B, N, b, t)
    BY DEF Moved
  <2> HIDE DEF B
  <2>6. Tally(B, N, b, W)
    BY <1>1, <2>2, <2>3, <2>4, <2>5, TallyNext
  <2>7. Arrived(B, N, b, W, Q, t + 1)
    BY <1>1, <1>3, <2>2, <2>3, <2>4, <2>5, ArrivedNext
  <2>8. CutAt(Lockstep, t + 1, B, b, x)
    BY <2>2, <2>3, <2>4, <2>5, PhaseMoves
  <2>9. Good(t + 1, B)
    BY <2>6, <2>7, <2>8
  <2> HIDE DEF Good
  <2>10. QED
    BY <2>2, <2>9
<1>6. N + 1 \in T
  <2>1. N + 1 \in Nat /\ N + 1 \in 0..(N + 1)
    BY <1>1
  <2> HIDE DEF T
  <2>2. QED
    BY <1>4, <1>5, <2>1, UpTo
<1>7. PICK A : Good(N + 1, A)
  BY <1>6
<1>8. \A j \in 0..N : A[j] = Full(W, b, N - j)
  <2>1. Tally(A, N, b, W) /\ Arrived(A, N, b, W, Q, N + 1)
    BY <1>7
  <2>2. N \in Nat /\ b \in Nat \ {0} /\ Q \in Nat /\ Q * b <= W /\ W < (Q + 1) * b
    BY <1>1, <1>3
  <2>3. QED
    BY ONLY <2>1, <2>2, W \in Nat, ArrivedLast
<1>9. QED
  BY <1>1, <1>7, <1>8

\* The blocks are in order, and each is below those behind it.
LEMMA BlocksSorted ==
  ASSUME FileIn, NEW b \in Nat, \A r \in Ranks : count_b_size(r) = b,
         NEW r \in Ranks, NEW s \in Ranks, r < s, NEW i \in 1..b, NEW k \in 1..b
  PROVE  Lockstep[LastPhase + 1][r][i][1] <= Lockstep[LastPhase + 1][s][k][1]
<1> PICK L : L = Lockstep[LastPhase + 1]
  OBVIOUS
<1> PICK N : N = CommSize
  OBVIOUS
<1>1. N \in Nat /\ Ranks = 0..(N - 1) /\ LastPhase + 1 \in 0..(LastPhase + 1)
  BY Sizes
<1>2. \A q \in Ranks : L[q] \in Seq(Int \X Int) /\ Len(L[q]) = b
  <2>1. BlockIs(Lockstep, LastPhase + 1)
    BY <1>1, BlocksAre
  <2>2. QED
    BY <2>1, NumbersArePairs DEF BlockIs
<1>3. L[s][k][1] \in Int /\ L[r][i][1] \in Int
  BY <1>2, Pairs
<1> PICK x \in Int : x = L[s][k][1]
  BY <1>3
<1>4. b \in Nat \ {0}
  OBVIOUS
<1> PICK W \in Nat : \E A : /\ CutAt(Lockstep, LastPhase + 1, A, b, x)
                           /\ \A j \in 0..CommSize : A[j] = Full(W, b, CommSize - j)
  BY <1>4, CutLast
<1>5. PICK A : /\ CutAt(Lockstep, LastPhase + 1, A, b, x)
               /\ \A j \in 0..N : A[j] = Full(W, b, N - j)
  OBVIOUS
<1>6. Cut(L[s], x, b - (A[s] - A[s + 1])) /\ Cut(L[r], x, b - (A[r] - A[r + 1]))
  BY <1>5 DEF CutAt
<1>7. k <= b - (A[s] - A[s + 1])
  <2>1. Len(L[s]) = b /\ L[s][k][1] <= x
    BY <1>2
  <2>2. \A j \in 1..Len(L[s]) : L[s][j][1] <= x <=> j <= b - (A[s] - A[s + 1])
    BY <1>6 DEF Cut
  <2>3. QED
    BY <2>1, <2>2
<1>8. /\ r \in 0..N /\ r + 1 \in 0..N /\ s \in 0..N /\ s + 1 \in 0..N
      /\ N - (s + 1) \in Nat /\ N - s = (N - (s + 1)) + 1 /\ N - s \in Nat /\ N - r \in Nat /\ N - (r + 1) \in Nat
      /\ N - s <= N - r /\ N - s <= N - (r + 1)
  BY ONLY <1>1, r \in Ranks, s \in Ranks, r < s
<1>9. /\ (N - s) * b <= (N - r) * b /\ (N - s) * b <= (N - (r + 1)) * b /\ (N - s) * b \in Nat
      /\ (N - r) * b \in Nat /\ (N - (r + 1)) * b \in Nat /\ (N - (s + 1)) * b \in Nat
      /\ (N - s) * b = (N - (s + 1)) * b + b
  <2>1. (N - s) * b <= (N - r) * b /\ (N - s) * b <= (N - (r + 1)) * b
    BY <1>8, TimesMonotone
  <2>2. \A g \in Nat : g * b \in Nat /\ (g + 1) * b = g * b + b
    OBVIOUS
  <2>3. QED
    BY <1>8, <2>1, <2>2
<1>10. A[s] = AtMost(W, (N - s) * b) /\ A[s + 1] = AtMost(W, (N - (s + 1)) * b)
       /\ A[r] = AtMost(W, (N - r) * b) /\ A[r + 1] = AtMost(W, (N - (r + 1)) * b)
  BY <1>5, <1>8 DEF Full
<1>11. W < (N - s) * b
  BY <1>7, <1>9, <1>10 DEF AtMost
<1>12. A[r] = W /\ A[r + 1] = W
  BY <1>9, <1>10, <1>11 DEF AtMost
<1>13. i <= b - (A[r] - A[r + 1])
  BY <1>12
<1>14. QED
  BY <1>2, <1>3, <1>6, <1>13 DEF Cut

-----------------------------------------------------------------------------
(* The output.                                                             *)

\* What a process has written stays in its place.
WrittenInv ==
  \A r \in Ranks : pc[r] = "done" =>
    \A i \in Block(r) : out_f[i] = buf[r][i - count_b_start(r)]

OutputInv == LockInv /\ WrittenInv

LEMMA OutputInit == Init => OutputInv
BY LockInit DEF OutputInv, WrittenInv, Init

\* A process that writes leaves the blocks of the others alone.
LEMMA WriteOut ==
  ASSUME OutputInv, NEW r \in Ranks, Write(r)
  PROVE  WrittenInv'
<1>1. \A s : Block(s)' = Block(s) /\ count_b_start(s)' = count_b_start(s)
  BY DEF Write, Block, count_b_start, count_b_size, n
<1>2. FileIn /\ pc \in [Ranks -> {"read", "phase", "wait", "reduce"} \cup Left]
  BY DEF OutputInv, LockInv, HeldInv, CountInv, StopInv, TypeInv
<1>3. buf' = buf /\ \A s \in Ranks \ {r} : pc'[s] = pc[s]
  BY <1>2 DEF Write
<1>4. \A i \in 1..n : out_f'[i] = IF i \in Block(r) THEN buf[r][i - count_b_start(r)] ELSE out_f[i]
  BY DEF Write
<1>5. \A s \in Ranks : Block(s) \subseteq 1..n
  BY <1>2, BlocksFit
<1>6. ASSUME NEW s \in Ranks, pc'[s] = "done", NEW i \in Block(s)
      PROVE  out_f'[i] = buf[s][i - count_b_start(s)]
  <2>1. CASE s = r
    BY <1>4, <1>5, <1>6, <2>1
  <2>2. CASE s # r
    <3>1. i \notin Block(r)
      BY <1>2, <1>6, <2>2, BlocksTile
    <3>2. pc[s] = "done"
      BY <1>3, <1>6, <2>2
    <3>3. QED
      BY <1>4, <1>5, <1>6, <3>1, <3>2 DEF OutputInv, WrittenInv
  <2>3. QED
    BY <2>1, <2>2
<1>7. QED
  BY <1>1, <1>3, <1>6 DEF WrittenInv

LEMMA OutputNext == OutputInv /\ SegmentsArrive /\ [Next]_vars => OutputInv'
<1> SUFFICES ASSUME OutputInv, SegmentsArrive, [Next]_vars PROVE OutputInv'
  OBVIOUS
<1>1. LockInv'
  BY LockNext DEF OutputInv
<1>2. /\ pc \in [Ranks -> {"read", "phase", "wait", "reduce"} \cup Left]
      /\ buf = [r \in Ranks |-> buf[r]]
  BY DEF OutputInv, LockInv, HeldInv, CountInv, StopInv, TypeInv, BufInv
<1>3. ASSUME UNCHANGED <<in_f, out_f>>,
             \A s \in Ranks : pc'[s] = "done" => pc[s] = "done" /\ buf'[s] = buf[s]
      PROVE  WrittenInv'
  <2>1. \A s : Block(s)' = Block(s) /\ count_b_start(s)' = count_b_start(s)
    BY <1>3 DEF Block, count_b_start, count_b_size, n
  <2>2. QED
    BY <1>3, <2>1 DEF OutputInv, WrittenInv
<1>4. ASSUME NEW r \in Ranks, Process(r) PROVE WrittenInv'
  <2>1. CASE Write(r)
    BY <2>1, WriteOut
  <2>2. CASE ~Write(r)
    <3>1. UNCHANGED <<in_f, out_f>>
      BY <1>4, <2>2 DEF Process, Read, Skip, Isend, Receive, Allreduce
    <3>2. pc'[r] # "done" /\ \A s \in Ranks \ {r} : pc'[s] = pc[s] /\ buf'[s] = buf[s]
      <4>1. CASE Read(r)
        BY <1>2, <4>1 DEF Read
      <4>2. CASE Skip(r)
        BY <1>2, <4>2 DEF Skip, EndPhase, NextPhase
      <4>3. CASE Isend(r)
        BY <1>2, <4>3 DEF Isend
      <4>4. CASE Receive(r)
        <5>1. EndPhase(r, Changed(buf[r], buf'[r])) /\ pc' = pc'
              /\ \E d : buf' = [buf EXCEPT ![r] = d]
          BY <4>4, Zenon DEF Receive
        <5>2. pc'[r] # "done" /\ \A s \in Ranks \ {r} : pc'[s] = pc[s]
          BY <1>2, <5>1 DEF EndPhase, NextPhase
        <5>3. \A s \in Ranks \ {r} : buf'[s] = buf[s]
          BY <1>2, <5>1
        <5>4. QED
          BY <5>2, <5>3
      <4>5. CASE Allreduce(r)
        BY <1>2, <4>5 DEF Allreduce, NextPhase
      <4>6. QED
        BY <1>4, <2>2, <4>1, <4>2, <4>3, <4>4, <4>5 DEF Process
    <3>3. QED
      BY <1>3, <3>1, <3>2
  <2>3. QED
    BY <2>1, <2>2
<1>5. CASE UNCHANGED vars
  <2>1. UNCHANGED <<in_f, out_f>> /\ pc' = pc /\ buf' = buf
    BY <1>5 DEF vars
  <2>2. \A s \in Ranks : pc'[s] = "done" => pc[s] = "done" /\ buf'[s] = buf[s]
    BY <2>1
  <2>3. WrittenInv'
    BY <1>3, <2>1, <2>2
  <2>4. QED
    BY <1>1, <2>3 DEF OutputInv
<1>6. (\E r \in Ranks : Process(r)) \/ UNCHANGED vars
  BY DEF Next, Finished
<1>7. QED
  BY <1>1, <1>4, <1>5, <1>6 DEF OutputInv

\* When all are done they are through the same number of phases.
LEMMA DoneTogether ==
  ASSUME OutputInv, \A r \in Ranks : pc[r] = "done"
  PROVE  \E p \in 0..(LastPhase + 1) :
           /\ \A r \in Ranks : phase[r] = p /\ buf[r] = Lockstep[p][r]
           /\ p = LastPhase + 1 \/ version.reduces
<1>1. StopInv /\ InLockstep
  BY DEF OutputInv, LockInv, HeldInv, CountInv
<1>2. \A r \in Ranks : phase[r] \in 0..(LastPhase + 1)
  BY <1>1 DEF StopInv, TypeInv
<1>3. \A r, s \in Ranks : phase[s] <= phase[r]
  BY <1>1, LeftTogether DEF StopTogether, Left
<1>4. 0 \in Ranks
  BY Sizes
<1>5. \A r \in Ranks : phase[r] = phase[0]
  BY <1>2, <1>3, <1>4
<1>6. \A r \in Ranks : buf[r] = Lockstep[phase[0]][r]
  BY <1>1, <1>5 DEF InLockstep
<1>7. phase[0] = LastPhase + 1 \/ version.reduces
  BY <1>1, <1>4 DEF StopInv, ReductionInv, Left
<1>8. QED
  BY <1>2, <1>4, <1>5, <1>6, <1>7

\* A place of the output and the place in a block that it was written from
LEMMA WrittenFrom ==
  ASSUME OutputInv, \A r \in Ranks : pc[r] = "done"
  PROVE  /\ \A r \in Ranks : buf[r] \in Seq(Numbers) /\ Len(buf[r]) = count_b_size(r)
         /\ \A r \in Ranks : \A i \in Block(r) :
              i - count_b_start(r) \in 1..Len(buf[r]) /\ out_f[i] = buf[r][i - count_b_start(r)]
         /\ \A r \in Ranks : \A j \in 1..Len(buf[r]) :
              count_b_start(r) + j \in Block(r) /\ out_f[count_b_start(r) + j] = buf[r][j]
<1>1. FileIn /\ WrittenInv
  BY DEF OutputInv, LockInv, HeldInv
<1>2. \A r \in Ranks : buf[r] \in Seq(Numbers) /\ Len(buf[r]) = count_b_size(r)
  BY DEF OutputInv, LockInv, HeldInv, BufInv
<1>3. ASSUME NEW r \in Ranks, NEW i \in Block(r)
      PROVE  i - count_b_start(r) \in 1..Len(buf[r]) /\ out_f[i] = buf[r][i - count_b_start(r)]
  <2>1. out_f[i] = buf[r][i - count_b_start(r)]
    BY <1>1 DEF WrittenInv
  <2>2. i - count_b_start(r) \in 1..count_b_size(r)
    BY <1>1, BlocksFit DEF Block
  <2>3. QED
    BY <1>2, <2>1, <2>2
<1>4. ASSUME NEW r \in Ranks, NEW j \in 1..Len(buf[r])
      PROVE  count_b_start(r) + j \in Block(r) /\ out_f[count_b_start(r) + j] = buf[r][j]
  <2>1. count_b_start(r) \in Nat /\ count_b_size(r) \in Nat /\ j \in 1..count_b_size(r)
    BY <1>1, <1>2, BlocksFit
  <2>2. count_b_start(r) + j \in Block(r) /\ (count_b_start(r) + j) - count_b_start(r) = j
    BY <2>1 DEF Block
  <2>3. QED
    BY <1>3, <2>2
<1>5. QED
  BY <1>2, <1>3, <1>4

LEMMA WholeOutput == OutputInv => OutputIsWhole
<1> SUFFICES ASSUME OutputInv, \A r \in Ranks : pc[r] = "done"
             PROVE  {out_f[i] : i \in 1..n} = Numbers
  BY DEF OutputIsWhole
<1>1. FileIn
  BY DEF OutputInv, LockInv, HeldInv
<1>2. PICK p \in 0..(LastPhase + 1) : \A r \in Ranks : buf[r] = Lockstep[p][r]
  BY DoneTogether
<1>3. Kept(Lockstep, p) = Numbers
  BY <1>1, NumbersKept
<1>4. ASSUME NEW x \in Numbers PROVE \E i \in 1..n : out_f[i] = x
  <2>1. PICK r \in Ranks : x \in Elems(buf[r])
    BY <1>2, <1>3 DEF Kept
  <2>2. PICK j \in 1..Len(buf[r]) : x = buf[r][j]
    BY <2>1 DEF Elems
  <2>3. count_b_start(r) + j \in Block(r) /\ out_f[count_b_start(r) + j] = x
    BY <2>2, WrittenFrom
  <2>4. QED
    BY <1>1, <2>3, BlocksFit
<1>5. ASSUME NEW i \in 1..n PROVE out_f[i] \in Numbers
  <2>1. PICK r \in Ranks : i \in Block(r)
    BY <1>1, BlocksTile
  <2>2. buf[r] \in Seq(Numbers) /\ i - count_b_start(r) \in 1..Len(buf[r])
        /\ out_f[i] = buf[r][i - count_b_start(r)]
    BY <2>1, WrittenFrom
  <2>3. QED
    BY <2>2
<1>6. QED
  BY <1>4, <1>5

\* If the numbers can be dealt evenly, all blocks have the same length, and
\* follow each other.
LEMMA EvenBlocks ==
  ASSUME FileIn, n % CommSize = 0
  PROVE  \E b \in Nat : \A r \in Ranks : count_b_size(r) = b
<1> PICK N \in Nat, T \in Nat \ {0} : N = n /\ T = CommSize
  BY CommAssumption DEF FileIn, n
<1>1. N \div T \in Nat
  BY DivMod
<1>2. \A r \in Ranks : count_b_size(r) = N \div T
  BY Sizes DEF count_b_size
<1>3. QED
  BY <1>1, <1>2

\* A place in front of another is in the same block, or in one in front.
LEMMA BlocksFollow ==
  ASSUME FileIn, NEW r \in Ranks, NEW s \in Ranks, NEW i \in Block(r), NEW j \in Block(s), i < j
  PROVE  r <= s
<1> PICK N \in Nat, T \in Nat \ {0} : N = n /\ T = CommSize
  BY CommAssumption DEF FileIn, n
<1> PICK q, m : q = N \div T /\ m = N % T
  OBVIOUS
<1>1. q \in Nat /\ m \in 0..(T - 1)
  BY ONLY DivMod, N \in Nat, T \in Nat \ {0}, q = N \div T, m = N % T
<1>2. Ranks = 0..(T - 1)
  BY DEF Ranks
<1>3. SUFFICES ASSUME s < r PROVE FALSE
  BY <1>2
<1>4. \A u \in Ranks : /\ count_b_start(u) = IF u < m THEN q * u + u ELSE q * u + m
                       /\ count_b_size(u) = IF u < m THEN q + 1 ELSE q
                       /\ q * u \in Nat /\ u \in Nat
  BY <1>1, <1>2 DEF count_b_start, count_b_size
<1>5. q * (s + 1) <= q * r /\ q * (s + 1) = q * s + q
  <2>1. s + 1 \in Nat /\ r \in Nat /\ s + 1 <= r /\ s \in Nat
    BY <1>2, <1>3
  <2>2. q * (s + 1) = q * s + q
    <3>1. \A x \in Nat : q * (x + 1) = q * x + q
      BY <1>1
    <3>2. QED
      BY <2>1, <3>1
  <2>3. QED
    BY <1>1, <2>1, <2>2, TimesMonotone
<1>6. count_b_start(s) + count_b_size(s) <= count_b_start(r)
  <2>1. r \in Nat /\ s \in Nat /\ s < r
    BY <1>2, <1>3
  <2>2. QED
    BY <1>1, <1>4, <1>5, <2>1
<1>7. /\ i \in (count_b_start(r) + 1)..(count_b_start(r) + count_b_size(r))
      /\ j \in (count_b_start(s) + 1)..(count_b_start(s) + count_b_size(s))
  BY DEF Block
<1>8. QED
  BY <1>4, <1>6, <1>7, BlocksFit

LEMMA SortedThen == OutputInv /\ n % CommSize = 0 => SortedOutput
<1> SUFFICES ASSUME OutputInv, n % CommSize = 0, \A r \in Ranks : pc[r] = "done"
             PROVE  Sorted \/ (version.reduces /\ \A r \in Ranks : phase[r] <= LastPhase)
  BY WholeOutput DEF SortedOutput
<1>1. FileIn
  BY DEF OutputInv, LockInv, HeldInv
<1>2. PICK p \in 0..(LastPhase + 1) :
        /\ \A r \in Ranks : phase[r] = p /\ buf[r] = Lockstep[p][r]
        /\ p = LastPhase + 1 \/ version.reduces
  BY DoneTogether
<1>3. CASE p # LastPhase + 1
  <2>1. p <= LastPhase
    BY <1>3, Sizes
  <2>2. QED
    BY <1>2, <1>3, <2>1
<1>4. CASE p = LastPhase + 1
  <2>1. PICK b \in Nat : \A r \in Ranks : count_b_size(r) = b
    BY <1>1, EvenBlocks
  <2>2. ASSUME NEW i \in 1..n, NEW j \in 1..n, i < j PROVE out_f[i][1] <= out_f[j][1]
    <3>1. PICK r \in Ranks : i \in Block(r)
      BY <1>1, BlocksTile
    <3>2. PICK s \in Ranks : j \in Block(s)
      BY <1>1, BlocksTile
    <3>3. r <= s
      BY <1>1, <2>2, <3>1, <3>2, BlocksFollow
    <3> PICK k, l : k = i - count_b_start(r) /\ l = j - count_b_start(s)
      OBVIOUS
    <3>4. k \in 1..b /\ out_f[i] = buf[r][k] /\ l \in 1..b /\ out_f[j] = buf[s][l]
      BY <2>1, <3>1, <3>2, WrittenFrom
    <3>5. CASE r < s
      BY <1>1, <1>2, <1>4, <2>1, <3>4, <3>5, BlocksSorted
    <3>6. CASE r = s
      <4>1. InOrder(buf[r]) /\ Len(buf[r]) = b
        BY <1>1, <1>2, <2>1, BlocksAre DEF BlockIs
      <4>2. k <= l
        <5>1. count_b_start(r) \in Nat
          BY <1>1, BlocksFit
        <5>2. QED
          BY <2>2, <3>6, <5>1
      <4>3. QED
        BY <3>4, <3>6, <4>1, <4>2 DEF InOrder
    <3>7. QED
      BY <3>3, <3>5, <3>6, Sizes
  <2>3. Sorted
    <3>1. \A i \in 1..n : out_f[i] \in Int \X Int
      <4>1. \A i \in 1..n : out_f[i] \in Numbers
        <5>1. {out_f[i] : i \in 1..n} = Numbers
          BY WholeOutput DEF OutputIsWhole
        <5>2. QED
          BY <5>1
      <4>2. QED
        BY <1>1, <4>1, NumbersArePairs
    <3>2. \A i \in 1..n : out_f[i][1] \in Int
      BY <3>1
    <3>3. QED
      BY <2>2, <3>2 DEF Sorted, Geq
  <2>4. QED
    BY <2>3
<1>5. QED
  BY <1>3, <1>4

\* Where no block is lost in its sender's buffer, the output of any file holds
\* its numbers, each once, in all versions.
THEOREM NothingIsLost == Spec /\ []SegmentsArrive => []OutputIsWhole
BY OutputInit, OutputNext, WholeOutput, PTL DEF Spec

\* So it does when MPI copies the blocks.
THEOREM CopiedNothingIsLost == Spec /\ count_b_size(0) <= EagerLimit => []OutputIsWhole
<1>1. CopyInv => SegmentsArrive
  BY DEF CopyInv, SegmentsArrive
<1>2. QED
  BY <1>1, CopyInit, CopyNext, NothingIsLost, PTL DEF Spec

LEMMA LengthKept == [Next]_vars => n' = n
<1> SUFFICES ASSUME [Next]_vars PROVE n' = n
  OBVIOUS
<1>1. in_f' = in_f
  BY DEF Next, Finished, Process, Read, Skip, Isend, Receive, Allreduce, Write, vars
<1>2. QED
  BY <1>1 DEF n

\* c_size + 1 phases sort any file that the processes share evenly.
THEOREM EvenBlocksAreSorted == Spec /\ []SegmentsArrive /\ n % CommSize = 0 => []SortedOutput
<1>1. n % CommSize = 0 /\ [Next]_vars => (n % CommSize = 0)'
  BY LengthKept
<1>2. QED
  BY <1>1, OutputInit, OutputNext, SortedThen, PTL DEF Spec

\* And with blocks that MPI copies nothing else is assumed.
THEOREM CopiedEvenBlocksAreSorted ==
  Spec /\ count_b_size(0) <= EagerLimit /\ n % CommSize = 0 => []SortedOutput
<1>1. CopyInv => SegmentsArrive
  BY DEF CopyInv, SegmentsArrive
<1>2. QED
  BY <1>1, CopyInit, CopyNext, EvenBlocksAreSorted, PTL DEF Spec

=============================================================================
