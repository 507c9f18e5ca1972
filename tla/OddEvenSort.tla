---------------------------- MODULE OddEvenSort ----------------------------
(***************************************************************************)
(* hw1/hw1.cc: Baudet-Stevenson odd-even sort.  Each MPI process reads a   *)
(* block of the input file, sorts it, and for c_size + 1 phases exchanges  *)
(* its block with a neighbour and keeps the lower or the upper half of the *)
(* two.  Nothing but the messages synchronises the processes, except in    *)
(* two of the versions in hw1/other_versions, which end each phase with a  *)
(* reduction and stop after a phase that changed nothing.                  *)
(*                                                                         *)
(* A number is a pair of its value and its place in the input file, so     *)
(* that equal numbers can be told apart; the code compares the values.     *)
(***************************************************************************)
EXTENDS Integers, Sequences, SequencesExt

CONSTANTS CommSize,    \* c_size
          Inputs,      \* <<version, input file>>; a file is a sequence of values
          EagerLimit   \* MPI_Isend copies a block of up to this many numbers

ASSUME CommAssumption == CommSize \in Nat \ {0}
ASSUME EagerAssumption == EagerLimit \in Nat

\* What the versions of OESort differ in: whether they reduce is_change after
\* each phase, what becomes of the buffer given to MPI_Isend, and how large
\* buf_t is, as the largest block or as the partner's.
hw1 == [reduces |-> FALSE, buffer |-> "freed", room |-> "largest"]
no_stop == [reduces |-> FALSE, buffer |-> "overwritten", room |-> "largest"]
\* sota and stlmerge compute is_change and use it for nothing, their reductions
\* being commented out.
sota == hw1
stlmerge == no_stop
timer == [reduces |-> FALSE, buffer |-> "freed", room |-> "partner"]
stlsort == [reduces |-> TRUE, buffer |-> "freed", room |-> "partner"]

\* EARLY_STOP_RATE leaves no phase without its reduction: phase is never less
\* than a fifth of itself.
spreadsort == [reduces |-> \A p \in 0..CommSize : p >= p \div 5, buffer |-> "freed", room |-> "partner"]

ASSUME InputAssumption ==
  Inputs \subseteq {hw1, no_stop, sota, stlmerge, timer, stlsort, spreadsort} \X Seq(Int)

Ranks == 0..(CommSize - 1)
NoRank == -1

VARIABLES
  version,
  in_f, out_f,   \* the files
  pc,
  phase,
  buf,           \* each process's block
  chan,          \* chan[s][t]: what s sent to t and t did not receive
  is_change      \* for each phase, what the processes gave to its reduction

vars == <<version, in_f, out_f, pc, phase, buf, chan, is_change>>

n == Len(in_f)
Numbers == {<<in_f[i], i>> : i \in 1..n}
Hole == <<0, 0>>           \* a place of the output file that is not written

-----------------------------------------------------------------------------
(* Blocks.                                                                 *)

count_b_size(rank) ==
  LET q == n \div CommSize  r == n % CommSize IN
  IF rank < r THEN q + 1 ELSE q

\* A plausible slip: the numbers that are left over are not counted.
Mutant_b_start(rank) ==
  LET q == n \div CommSize  r == n % CommSize IN
  IF rank < r THEN q * rank + rank ELSE q * rank

count_b_start(rank) ==
  LET q == n \div CommSize  r == n % CommSize IN
  IF rank < r THEN q * rank + rank ELSE q * rank + r

\* A plausible slip: the receive buffer is as large as the process's own block.
Mutant_buf_t(rank, partner) == count_b_size(rank)

\* How many numbers buf_t has room for, allocated once or for each phase
b_t_real_size(rank, partner) ==
  count_b_size(IF version.room = "largest" THEN 0 ELSE partner)

Block(rank) == (count_b_start(rank) + 1)..(count_b_start(rank) + count_b_size(rank))

Geq(a, b) == a[1] >= b[1]

Before(a, b) == a[1] < b[1] \/ (a[1] = b[1] /\ a[2] < b[2])

\* What the process reads of the file, after spreadsort; the order of equal
\* numbers is of no account.
SortedBlock(rank) ==
  LET read == {<<in_f[i], i>> : i \in Block(rank)}
  IN CHOOSE s \in [1..count_b_size(rank) -> read] :
       \A i, j \in 1..count_b_size(rank) : i < j => Before(s[i], s[j])

\* merge_realc on the left of a pair: as many numbers as mine, the smallest of
\* both, mine before an equal one of theirs.  Left[<<b, t>>] is what is left to
\* write when b of mine and t of theirs have been taken.
Lower(mine, theirs) ==
  LET Left[p \in (0..Len(mine)) \X (0..Len(theirs))] ==
        LET b == p[1]  t == p[2] IN
        IF b + t >= Len(mine) THEN <<>>
        ELSE IF t = Len(theirs) \/ Geq(theirs[t + 1], mine[b + 1])
             THEN <<mine[b + 1]>> \o Left[<<b + 1, t>>]
             ELSE <<theirs[t + 1]>> \o Left[<<b, t + 1>>]
  IN Left[<<0, 0>>]

\* A plausible slip: the write index starts at the end of their block.
MutantUpper(mine, theirs) ==
  LET Left[p \in (0..Len(mine)) \X (0..Len(theirs))] ==
        LET b == p[1]  t == p[2] IN
        IF b = 0 \/ (Len(mine) - b) + (Len(theirs) - t) >= Len(theirs) THEN <<>>
        ELSE IF t = 0 \/ Geq(mine[b], theirs[t])
             THEN Append(Left[<<b - 1, t>>], mine[b])
             ELSE Append(Left[<<b, t - 1>>], theirs[t])
  IN Left[<<Len(mine), Len(theirs)>>]

\* merge_realc on the right: the largest of both, from the end.  Left[<<b, t>>]
\* is what is left to write when b of mine and t of theirs remain.
Upper(mine, theirs) ==
  LET Left[p \in (0..Len(mine)) \X (0..Len(theirs))] ==
        LET b == p[1]  t == p[2] IN
        IF (Len(mine) - b) + (Len(theirs) - t) >= Len(mine) THEN <<>>
        ELSE IF t = 0 \/ Geq(mine[b], theirs[t])
             THEN Append(Left[<<b - 1, t>>], mine[b])
             ELSE Append(Left[<<b, t - 1>>], theirs[t])
  IN Left[<<Len(mine), Len(theirs)>>]

merge_realc(mine, theirs, id) ==
  IF id = 0 THEN Lower(mine, theirs) ELSE Upper(mine, theirs)

\* What merge_realc tells of the merge: something of theirs was taken, or the
\* block has a single number, of which nothing is concluded.
Changed(mine, merged) == merged # mine \/ Len(mine) = 1

-----------------------------------------------------------------------------
(* Pairs.                                                                  *)

\* A plausible reading of the readme: c_size phases.
MutantLastPhase == CommSize - 1

LastPhase == CommSize

\* 0 for the left of a pair, 1 for the right
in_pair_id(r, p) == IF r % 2 = p % 2 THEN 0 ELSE 1

target_rank(r, p) ==
  LET t == IF in_pair_id(r, p) = 0 THEN r + 1 ELSE r - 1
  IN IF t \in Ranks THEN t ELSE NoRank

\* A plausible slip: the tag asked for is the process's own.
MutantTag(r, p) == in_pair_id(r, p)

\* The tag of the message that r waits for
Tag(r, p) == 1 - in_pair_id(r, p)

-----------------------------------------------------------------------------
Init ==
  /\ \E i \in Inputs : version = i[1] /\ in_f = i[2]
  /\ out_f = [i \in 1..n |-> Hole]
  /\ pc = [r \in Ranks |-> "read"]
  /\ phase = [r \in Ranks |-> 0]
  /\ buf = [r \in Ranks |-> <<>>]
  /\ chan = [s \in Ranks |-> [t \in Ranks |-> <<>>]]
  /\ is_change = [p \in 0..LastPhase |-> [r \in {} |-> FALSE]]

\* The next phase, or the end of the loop
NextPhase(r) ==
  /\ phase' = [phase EXCEPT ![r] = @ + 1]
  /\ pc' = [pc EXCEPT ![r] = IF phase[r] < LastPhase THEN "phase" ELSE "write"]

\* The end of the loop's body: the next phase, or MPI_Allreduce is called.
EndPhase(r, changed) ==
  IF version.reduces
  THEN /\ is_change' = [is_change EXCEPT ![phase[r]] =
                          [s \in DOMAIN @ \cup {r} |-> IF s = r THEN changed ELSE @[s]]]
       /\ pc' = [pc EXCEPT ![r] = "reduce"]
       /\ phase' = phase
  ELSE NextPhase(r) /\ UNCHANGED is_change

\* A plausible slip: the reduction is started and not waited for.
MutantAllreduce(r) ==
  /\ pc[r] = "reduce"
  /\ LET given == is_change[phase[r]] IN
     IF \E s \in DOMAIN given : given[s]
     THEN NextPhase(r)
     ELSE /\ phase' = [phase EXCEPT ![r] = @ + 1]
          /\ pc' = [pc EXCEPT ![r] = "write"]
  /\ UNCHANGED <<version, in_f, out_f, buf, chan, is_change>>

\* free(buf_d), or memcpy of the merged block: what r sent and MPI did not
\* copy is gone.
FreeBuffer(r, c) ==
  [c EXCEPT ![r] = [t \in Ranks |->
     [i \in DOMAIN c[r][t] |->
        [c[r][t][i] EXCEPT !.at = IF @ = "mpi" THEN @ ELSE version.buffer]]]]

\* MPI_Allreduce returns the disjunction of what all processes gave to it; the
\* block that was merged is freed after it.
Allreduce(r) ==
  /\ pc[r] = "reduce"
  /\ LET given == is_change[phase[r]] IN
     /\ DOMAIN given = Ranks
     /\ IF \E s \in Ranks : given[s]
        THEN NextPhase(r)
        ELSE /\ phase' = [phase EXCEPT ![r] = @ + 1]
             /\ pc' = [pc EXCEPT ![r] = "write"]
  /\ chan' = FreeBuffer(r, chan)
  /\ UNCHANGED <<version, in_f, out_f, buf, is_change>>

\* MPI_File_read_at and spreadsort
Read(r) ==
  /\ pc[r] = "read"
  /\ buf' = [buf EXCEPT ![r] = SortedBlock(r)]
  /\ pc' = [pc EXCEPT ![r] = "phase"]
  /\ UNCHANGED <<version, in_f, out_f, phase, chan, is_change>>

\* No partner in this phase
Skip(r) ==
  /\ pc[r] = "phase"
  /\ target_rank(r, phase[r]) = NoRank
  /\ EndPhase(r, FALSE)
  /\ UNCHANGED <<version, in_f, out_f, buf, chan>>

\* MPI_Isend of buf: MPI copies the block, or leaves it in the buffer until it
\* is received.
Isend(r) ==
  LET t == target_rank(r, phase[r]) IN
  /\ pc[r] = "phase"
  /\ t # NoRank
  /\ chan' = [chan EXCEPT ![r][t] =
                Append(@, [tag  |-> in_pair_id(r, phase[r]),
                           at   |-> IF Len(buf[r]) <= EagerLimit THEN "mpi" ELSE "buffer",
                           data |-> buf[r]])]
  /\ pc' = [pc EXCEPT ![r] = "wait"]
  /\ UNCHANGED <<version, in_f, out_f, phase, buf, is_change>>

\* What the receiver finds: any numbers, in memory that has been used again
Arriving(m) == IF m.at \in {"freed", "overwritten"} THEN [DOMAIN m.data -> Numbers] ELSE {m.data}

\* A plausible slip: MPI_Wait is left out, and an empty buf_t is merged.
MutantReceive(r) ==
  LET p == phase[r]  s == target_rank(r, p)
      here == IF s = NoRank THEN <<>> ELSE chan[s][r]
      m == IF here = <<>> THEN <<>> ELSE Head(here).data IN
  /\ pc[r] = "wait"
  /\ buf' = [buf EXCEPT ![r] = merge_realc(@, m, in_pair_id(r, p))]
  /\ chan' = FreeBuffer(r, IF here = <<>> THEN chan ELSE [chan EXCEPT ![s][r] = Tail(@)])
  /\ EndPhase(r, Changed(buf[r], buf'[r]))
  /\ UNCHANGED <<version, in_f, out_f>>

\* MPI_Irecv takes the first message of the partner that has the tag, MPI_Wait
\* waits for it; the block is merged into a new one and the old one freed, in
\* the versions with a reduction after that.
Receive(r) ==
  LET p == phase[r]  s == target_rank(r, p) IN
  /\ pc[r] = "wait"
  /\ \E i \in DOMAIN chan[s][r] :
       /\ chan[s][r][i].tag = Tag(r, p)
       /\ \A j \in 1..(i - 1) : chan[s][r][j].tag # Tag(r, p)
       /\ \E d \in Arriving(chan[s][r][i]) :
            buf' = [buf EXCEPT ![r] = merge_realc(@, d, in_pair_id(r, p))]
       /\ LET rest == [chan EXCEPT ![s][r] = RemoveAt(@, i)] IN
          chan' = IF version.reduces THEN rest ELSE FreeBuffer(r, rest)
  /\ EndPhase(r, Changed(buf[r], buf'[r]))
  /\ UNCHANGED <<version, in_f, out_f>>

\* MPI_File_write_at
Write(r) ==
  /\ pc[r] = "write"
  /\ out_f' = [i \in 1..n |->
                 IF i \in Block(r) THEN buf[r][i - count_b_start(r)] ELSE out_f[i]]
  /\ pc' = [pc EXCEPT ![r] = "done"]
  /\ UNCHANGED <<version, in_f, phase, buf, chan, is_change>>

Process(r) == Read(r) \/ Skip(r) \/ Isend(r) \/ Receive(r) \/ Allreduce(r) \/ Write(r)

\* MPI_Finalize
Finished == (\A r \in Ranks : pc[r] = "done") /\ UNCHANGED vars

Next == (\E r \in Ranks : Process(r)) \/ Finished

Spec == Init /\ [][Next]_vars

\* Every process runs.
FairSpec == Spec /\ \A r \in Ranks : WF_vars(Process(r))

-----------------------------------------------------------------------------
(* Properties.                                                             *)

\* buf_t is not allocated anew for a partner with a longer block: it has room
\* for every block that arrives.
SegmentsFit ==
  \A s, t \in Ranks : \A i \in DOMAIN chan[s][t] :
    Len(chan[s][t][i].data) <= b_t_real_size(t, s)

\* What the buffers hold, and how much: a block has the same length in every
\* phase, and none is longer than the buffer that receives it.
TypeOK ==
  /\ SegmentsFit
  /\ out_f \in [1..n -> Numbers \cup {Hole}]
  /\ pc \in [Ranks -> {"read", "phase", "wait", "reduce", "write", "done"}]
  /\ phase \in [Ranks -> 0..(LastPhase + 1)]
  /\ \A r \in Ranks :
       /\ buf[r] \in Seq(Numbers)
       /\ Len(buf[r]) = IF pc[r] = "read" THEN 0 ELSE count_b_size(r)
  /\ \A s, t \in Ranks : \A i \in DOMAIN chan[s][t] :
       /\ chan[s][t][i].tag \in {0, 1} /\ chan[s][t][i].at \in {"mpi", "buffer", version.buffer}
       /\ chan[s][t][i].data \in Seq(Numbers)

\* The blocks of the algorithm run in lockstep: Lockstep[p][r] is the block
\* that r holds before phase p.
Lockstep[p \in 0..(LastPhase + 1)] ==
  [r \in Ranks |->
     IF p = 0 THEN SortedBlock(r)
     ELSE LET before == Lockstep[p - 1]  t == target_rank(r, p - 1)
          IN IF t = NoRank THEN before[r]
             ELSE merge_realc(before[r], before[t], in_pair_id(r, p - 1))]

\* Without a barrier, with processes phases apart and two messages of one
\* sender on their way, every process goes through the blocks of the lockstep
\* algorithm: the messages are never matched with the wrong phase.
InLockstep ==
  \A r \in Ranks : pc[r] # "read" =>
    buf[r] = Lockstep[IF pc[r] = "reduce" THEN phase[r] + 1 ELSE phase[r]][r]

\* Processes drift apart, and at most two blocks of a sender wait at a receiver.
AtMostTwoInFlight == \A s, t \in Ranks : Len(chan[s][t]) <= 2

\* The processes decide for themselves to leave the loop, on what the reduction
\* told them: where one left no other goes on to exchange blocks with it.
StopTogether ==
  \A r, s \in Ranks : pc[r] \in {"write", "done"} => phase[s] <= phase[r]

\* No number is lost, and none written twice: when all processes are done the
\* output holds the numbers of the input.  The two of a pair choose their halves
\* for themselves, and must agree on equal numbers.
OutputIsWhole ==
  (\A r \in Ranks : pc[r] = "done") => {out_f[i] : i \in 1..n} = Numbers

\* The output is whole and in ascending order, unless a version with a reduction
\* stopped early.  It does so after one phase that changed nothing, in which only
\* every other pair of neighbours was looked at.
Sorted == \A i, j \in 1..n : i < j => Geq(out_f[j], out_f[i])
SortedOutput ==
  /\ OutputIsWhole
  /\ (\A r \in Ranks : pc[r] = "done") =>
       Sorted \/ (version.reduces /\ \A r \in Ranks : phase[r] <= LastPhase)

\* hw1/readme.md: the block a process has is what its partner gets, though it
\* does not wait for the send.  Refuted for a block that MPI does not copy.
SegmentsArrive ==
  \A s, t \in Ranks : \A i \in DOMAIN chan[s][t] : chan[s][t][i].at # version.buffer

\* hw1/readme.md: all processes finish their phases.
Termination == <>(\A r \in Ranks : pc[r] = "done")
=============================================================================
