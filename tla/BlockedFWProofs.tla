-------------------------- MODULE BlockedFWProofs --------------------------
(***************************************************************************)
(* What is proved of BlockedFW, for every block size, every team of        *)
(* threads and every graph: the threads of a team never conflict, and a    *)
(* round of the blocks does what block_size steps of the algorithm without *)
(* blocks do.                                                              *)
(*                                                                         *)
(* The entries of the matrix go through other values than in the algorithm *)
(* without blocks, but they stay between its matrices at the start and at  *)
(* the end of the round, and a block that is done is at the end's.         *)
(***************************************************************************)
EXTENDS BlockedFW, Lemmas, SequenceTheorems

-----------------------------------------------------------------------------
(* Blocks.                                                                 *)

\* Where block b of a dimension starts, and the one before it ends
Start(b) == Lesser(b * block_size, vertex_num)

LEMMA BlocksAre ==
  ASSUME file \in Inputs
  PROVE  /\ vertex_num \in Nat \ {0, 1} /\ block_size \in 1..vertex_num
         /\ num_blocks \in Nat \ {0}
         /\ Start(0) = 0 /\ Start(num_blocks) = vertex_num
<1>1. vertex_num \in Nat \ {0, 1}
  BY InputAssumption DEF vertex_num
<1> PICK n : n = vertex_num
  OBVIOUS
<1>2. block_size \in 1..n
  BY <1>1, SizesAssumption DEF block_size, Lesser
<1> PICK bs : bs = block_size
  OBVIOUS
<1> PICK q, r : q = n \div bs /\ r = n % bs
  OBVIOUS
<1>3. q \in Nat /\ r \in 0..(bs - 1) /\ n = bs * q + r
  <2>1. n \in Nat /\ bs \in Nat \ {0}
    BY <1>1, <1>2
  <2>2. n \div bs \in Nat /\ n % bs \in 0..(bs - 1) /\ n = bs * (n \div bs) + (n % bs)
    BY ONLY <2>1, DivMod
  <2>3. QED
    BY <2>2
<1>4. num_blocks = q + (IF r > 0 THEN 1 ELSE 0)
  BY DEF num_blocks
<1>5. q # 0
  BY <1>1, <1>2, <1>3
<1>6. num_blocks * bs >= n
  <2>1. CASE r = 0
    BY <1>1, <1>2, <1>3, <1>4, <2>1
  <2>2. CASE r > 0
    <3>1. num_blocks * bs = q * bs + bs
      BY <1>2, <1>3, <1>4, <2>2
    <3>2. QED
      BY <1>1, <1>2, <1>3, <3>1
  <2>3. QED
    BY <1>3, <2>1, <2>2
<1>7. Start(0) = 0 /\ Start(num_blocks) = n
  BY <1>1, <1>2, <1>3, <1>4, <1>6 DEF Start, Lesser
<1>8. QED
  BY <1>1, <1>2, <1>3, <1>4, <1>5, <1>7

LEMMA BlockIs ==
  ASSUME file \in Inputs, NEW b \in 0..(num_blocks - 1)
  PROVE  /\ Start(b) \in 0..(vertex_num - 1) /\ Start(b + 1) \in 1..vertex_num
         /\ BlockPos(b) = Start(b)
         /\ BlockDim(b) \in 1..block_size /\ Start(b) + BlockDim(b) = Start(b + 1)
         /\ Span(b) = Start(b)..(Start(b + 1) - 1)
         /\ Span(b) \subseteq 0..(vertex_num - 1)
<1> PICK n, bs : n = vertex_num /\ bs = block_size
  OBVIOUS
<1> PICK q, r : q = n \div bs /\ r = n % bs
  OBVIOUS
<1>1. n \in Nat \ {0, 1} /\ bs \in 1..n
  BY BlocksAre
<1>2. q \in Nat /\ r \in 0..(bs - 1) /\ n = bs * q + r
  <2>1. n \in Nat /\ bs \in Nat \ {0}
    BY <1>1
  <2>2. n \div bs \in Nat /\ n % bs \in 0..(bs - 1) /\ n = bs * (n \div bs) + (n % bs)
    BY ONLY <2>1, DivMod
  <2>3. QED
    BY <2>2
<1>3. num_blocks = q + (IF r > 0 THEN 1 ELSE 0) /\ num_blocks \in Nat
  BY <1>2 DEF num_blocks
<1>4. BlockDim(b) = IF b < q THEN bs ELSE IF b = num_blocks - 1 THEN r ELSE 0
  BY DEF BlockDim
<1>5. BlockPos(b) = bs * b /\ bs * b \in Nat /\ (b + 1) * bs = bs * b + bs /\ b * bs = bs * b
  BY <1>1, <1>3 DEF BlockPos
<1>6. CASE b < q
  <2>1. bs * b + bs <= bs * q
    <3>1. b + 1 <= q /\ b + 1 \in Nat
      BY <1>2, <1>3, <1>6
    <3>2. bs * (b + 1) <= bs * q
      BY <1>1, <1>2, <3>1
    <3>3. QED
      BY <1>1, <1>3, <1>5, <3>1, <3>2
  <2>2. Start(b) = bs * b /\ Start(b + 1) = bs * b + bs
    BY <1>1, <1>2, <1>3, <1>5, <2>1 DEF Start, Lesser
  <2>3. QED
    BY <1>1, <1>2, <1>4, <1>5, <1>6, <2>1, <2>2 DEF Span
<1>7. CASE b >= q
  <2>1. b = q /\ r > 0 /\ b = num_blocks - 1
    BY <1>1, <1>2, <1>3, <1>7
  <2>2. Start(b) = bs * b /\ Start(b + 1) = n
    BY <1>1, <1>2, <1>3, <1>5, <2>1 DEF Start, Lesser
  <2>3. QED
    BY <1>1, <1>2, <1>4, <1>5, <1>7, <2>1, <2>2 DEF Span
<1>8. QED
  BY <1>2, <1>3, <1>6, <1>7

\* Every vertex is in a block.
LEMMA BlocksCover ==
  ASSUME file \in Inputs, NEW i \in 0..(vertex_num - 1)
  PROVE  \E b \in 0..(num_blocks - 1) : i \in Span(b)
<1> DEFINE T == {b \in 0..num_blocks : Start(b) > i}
<1>1. T \subseteq Nat /\ num_blocks \in T
  BY BlocksAre
<1>2. PICK b \in T : \A c \in T : b <= c
  BY <1>1, LeastElement
<1>3. b # 0
  BY BlocksAre
<1>4. b - 1 \in 0..(num_blocks - 1) /\ b - 1 \notin T
  BY <1>1, <1>2, <1>3, BlocksAre
<1>5. Start(b - 1) <= i /\ Start(b) > i
  <2>1. Start(b - 1) \in Nat /\ b - 1 \in 0..num_blocks
    BY <1>4, BlockIs, BlocksAre
  <2>2. QED
    BY <1>2, <1>4, <2>1
<1>6. Span(b - 1) = Start(b - 1)..(Start(b) - 1) /\ Start(b - 1) \in Nat /\ Start(b) \in Nat
  <2>1. (b - 1) + 1 = b
    BY <1>1, <1>2
  <2>2. QED
    BY <1>4, <2>1, BlockIs
<1>7. QED
  BY <1>4, <1>5, <1>6

-----------------------------------------------------------------------------
(* The loops of a round, and the threads' shares of them.                  *)

\* When in round r block b is relaxed, and what is relaxed in a phase
Turn(r, b) == IF b[1] = r THEN (IF b[2] = r THEN 0 ELSE 1) ELSE (IF b[2] = r THEN 2 ELSE 3)
TurnOf(p) == IF p = "pivot" THEN 0 ELSE IF p = "row" THEN 1 ELSE IF p = "col" THEN 2 ELSE 3

LEMMA BlockPair ==
  ASSUME NEW b \in Blocks
  PROVE  /\ b[1] \in 0..(num_blocks - 1) /\ b[2] \in 0..(num_blocks - 1)
         /\ b = <<b[1], b[2]>>
BY DEF Blocks

LEMMA RemainderUnique ==
  ASSUME NEW d \in Nat \ {0}, NEW a \in Nat, NEW b \in Nat, NEW r \in 0..(d - 1), NEW s \in 0..(d - 1),
         a * d + r = b * d + s
  PROVE  a = b /\ r = s
<1>1. CASE a < b
  <2>1. (a + 1) * d <= b * d
    BY <1>1
  <2>2. QED
    BY <2>1
<1>2. CASE b < a
  <2>1. (b + 1) * d <= a * d
    BY <1>2
  <2>2. QED
    BY <2>1
<1>3. QED
  BY <1>1, <1>2

\* A loop runs over blocks, once over each that has its turn.
IsLoop(s, p, r) ==
  /\ s \in Seq(Blocks)
  /\ \A i \in 1..Len(s) : Relaxes(p, r, s[i]) <=> Turn(r, s[i]) = TurnOf(p)
  /\ \A b \in Blocks : Turn(r, b) = TurnOf(p) => \E i \in 1..Len(s) : s[i] = b
  /\ \A i, j \in 1..Len(s) : i # j => s[i] # s[j]

LEMMA LoopIs ==
  ASSUME file \in Inputs, NEW p \in {"row", "col", "rest"}, NEW r \in 0..(num_blocks - 1)
  PROVE  IsLoop(Loop(p, r), p, r)
<1> PICK nb : nb = num_blocks
  OBVIOUS
<1>1. nb \in Nat \ {0} /\ r \in 0..(nb - 1)
  BY BlocksAre
<1>2. Blocks = (0..(nb - 1)) \X (0..(nb - 1))
  BY DEF Blocks
<1>3. CASE p = "row"
  <2> PICK s : s = [i \in 1..nb |-> <<r, i - 1>>]
    OBVIOUS
  <2>1. Loop(p, r) = s
    BY <1>3 DEF Loop
  <2>2. s \in Seq(Blocks) /\ Len(s) = nb /\ \A i \in 1..nb : s[i] = <<r, i - 1>>
    BY <1>1, <1>2
  <2>3. \A i \in 1..nb : Relaxes(p, r, s[i]) <=> Turn(r, s[i]) = TurnOf(p)
    BY <1>1, <1>3, <2>2 DEF Relaxes, Turn, TurnOf
  <2>4. ASSUME NEW b \in Blocks, Turn(r, b) = TurnOf(p) PROVE \E i \in 1..nb : s[i] = b
    <3>1. b[1] = r /\ b = <<b[1], b[2]>> /\ b[2] \in 0..(nb - 1)
      BY <1>2, <1>3, <2>4 DEF Turn, TurnOf
    <3>2. b[2] + 1 \in 1..nb /\ s[b[2] + 1] = b
      BY <1>1, <2>2, <3>1
    <3>3. QED
      BY <3>2
  <2>5. \A i, j \in 1..nb : i # j => s[i] # s[j]
    BY <2>2
  <2>6. IsLoop(s, p, r)
    BY ONLY <2>2, <2>3, <2>4, <2>5 DEF IsLoop
  <2>7. QED
    BY <2>1, <2>6
<1>4. CASE p = "col"
  <2> PICK s : s = [i \in 1..nb |-> <<i - 1, r>>]
    OBVIOUS
  <2>1. Loop(p, r) = s
    BY <1>4 DEF Loop
  <2>2. s \in Seq(Blocks) /\ Len(s) = nb /\ \A i \in 1..nb : s[i] = <<i - 1, r>>
    BY <1>1, <1>2
  <2>3. \A i \in 1..nb : Relaxes(p, r, s[i]) <=> Turn(r, s[i]) = TurnOf(p)
    BY <1>1, <1>4, <2>2 DEF Relaxes, Turn, TurnOf
  <2>4. ASSUME NEW b \in Blocks, Turn(r, b) = TurnOf(p) PROVE \E i \in 1..nb : s[i] = b
    <3>1. b[2] = r /\ b = <<b[1], b[2]>> /\ b[1] \in 0..(nb - 1)
      BY <1>2, <1>4, <2>4 DEF Turn, TurnOf
    <3>2. b[1] + 1 \in 1..nb /\ s[b[1] + 1] = b
      BY <1>1, <2>2, <3>1
    <3>3. QED
      BY <3>2
  <2>5. \A i, j \in 1..nb : i # j => s[i] # s[j]
    BY <2>2
  <2>6. IsLoop(s, p, r)
    BY ONLY <2>2, <2>3, <2>4, <2>5 DEF IsLoop
  <2>7. QED
    BY <2>1, <2>6
<1>5. CASE p = "rest"
  <2> PICK s, L : L = nb * nb /\ s = [i \in 1..L |-> <<(i - 1) \div nb, (i - 1) % nb>>]
    OBVIOUS
  <2>1. Loop(p, r) = s /\ L \in Nat
    BY <1>1, <1>5 DEF Loop
  <2>2. ASSUME NEW i \in 1..L
        PROVE  /\ s[i] = <<(i - 1) \div nb, (i - 1) % nb>>
               /\ (i - 1) \div nb \in 0..(nb - 1) /\ (i - 1) % nb \in 0..(nb - 1)
               /\ i - 1 = ((i - 1) \div nb) * nb + ((i - 1) % nb)
    <3> PICK q, m : q = (i - 1) \div nb /\ m = (i - 1) % nb
      OBVIOUS
    <3>1. q \in Nat /\ m \in 0..(nb - 1) /\ i - 1 = nb * q + m
      <4>1. i - 1 \in Nat
        OBVIOUS
      <4>2. QED
        BY <1>1, <4>1, DivMod
    <3>2. q < nb
      <4>1. SUFFICES ASSUME q >= nb PROVE FALSE
        BY <1>1, <3>1
      <4>2. nb * q >= nb * nb
        BY <1>1, <3>1, <4>1, TimesMonotone
      <4>3. QED
        BY <1>1, <2>1, <3>1, <4>2
    <3>3. QED
      BY <1>1, <3>1, <3>2
  <2>3. s \in Seq(Blocks) /\ Len(s) = L
    <3>1. \A i \in 1..L : s[i] \in Blocks
      BY <1>2, <2>2
    <3>2. s \in [1..L -> Blocks]
      BY <3>1
    <3>3. QED
      BY ONLY <2>1, <3>2
  <2>4. \A i \in 1..L : Relaxes(p, r, s[i]) <=> Turn(r, s[i]) = TurnOf(p)
    BY <1>5 DEF Relaxes, Turn, TurnOf
  <2>5. ASSUME NEW b \in Blocks PROVE \E i \in 1..L : s[i] = b
    <3> PICK x, y \in 0..(nb - 1) : b = <<x, y>>
      BY <1>2
    <3> PICK i : i = x * nb + y + 1
      OBVIOUS
    <3>1. (x + 1) * nb <= nb * nb /\ (x + 1) * nb = x * nb + nb /\ x * nb \in Nat
      BY <1>1
    <3>2. i \in 1..L
      <4> PICK z : z = x * nb
        OBVIOUS
      <4>1. z + nb <= L /\ z \in Nat /\ i = z + y + 1 /\ y \in 0..(nb - 1)
        BY <1>1, <3>1
      <4>2. QED
        BY ONLY <1>1, <2>1, <4>1
    <3> PICK q, m : q = (i - 1) \div nb /\ m = (i - 1) % nb
      OBVIOUS
    <3>3. s[i] = <<q, m>> /\ q \in 0..(nb - 1) /\ m \in 0..(nb - 1) /\ i - 1 = q * nb + m
      BY <2>2, <3>2
    <3>4. q * nb + m = x * nb + y /\ q \in Nat /\ x \in Nat
      BY <3>1, <3>3
    <3>5. q = x /\ m = y
      <4>1. nb \in Nat \ {0} /\ m \in 0..(nb - 1) /\ y \in 0..(nb - 1)
        BY <1>1, <3>3
      <4>2. QED
        BY ONLY <3>4, <4>1, RemainderUnique
    <3>6. QED
      BY <3>2, <3>3, <3>5
  <2>6. \A i, j \in 1..L : i # j => s[i] # s[j]
    <3>1. SUFFICES ASSUME NEW i \in 1..L, NEW j \in 1..L, s[i] = s[j] PROVE i = j
      OBVIOUS
    <3>2. (i - 1) \div nb = (j - 1) \div nb /\ (i - 1) % nb = (j - 1) % nb
      BY <2>2, <3>1
    <3>3. i - 1 = j - 1
      BY <2>2, <3>2
    <3>4. QED
      BY <3>3
  <2>7. IsLoop(s, p, r)
    BY ONLY <2>3, <2>4, <2>5, <2>6 DEF IsLoop
  <2>8. QED
    BY <2>1, <2>7
<1>6. QED
  BY <1>3, <1>4, <1>5

\* The piece of thread t
LEMMA StaticChunkIs ==
  ASSUME NEW S, NEW s \in Seq(S), NEW t \in Threads
  PROVE  LET q == Len(s) \div ThreadNum  m == Len(s) % ThreadNum IN
         /\ StaticChunk(s, t) \in Seq(S)
         /\ Len(StaticChunk(s, t)) = q + (IF t < m THEN 1 ELSE 0)
         /\ \A i \in 1..Len(StaticChunk(s, t)) :
              /\ Piece(q, m, t) + i \in 1..Len(s)
              /\ Piece(q, m, t) + i <= Piece(q, m, t + 1)
              /\ StaticChunk(s, t)[i] = s[Piece(q, m, t) + i]
<1> PICK q, m : q = Len(s) \div ThreadNum /\ m = Len(s) % ThreadNum
  OBVIOUS
<1> PICK from, more : from = Piece(q, m, t) /\ more = q + (IF t < m THEN 1 ELSE 0)
  OBVIOUS
<1>1. ThreadNum \in Nat \ {0} /\ Len(s) \in Nat /\ t \in 0..(ThreadNum - 1)
  BY SizesAssumption DEF Threads
<1>2. q \in Nat /\ m \in 0..(ThreadNum - 1) /\ Len(s) = ThreadNum * q + m
  <2>1. /\ Len(s) \div ThreadNum \in Nat /\ Len(s) % ThreadNum \in 0..(ThreadNum - 1)
        /\ Len(s) = ThreadNum * (Len(s) \div ThreadNum) + (Len(s) % ThreadNum)
    BY ONLY <1>1, DivMod
  <2>2. QED
    BY <2>1
<1> PICK L, to : L = Len(s) /\ to = Piece(q, m, t + 1)
  OBVIOUS
<1>3. /\ from \in 0..L /\ to \in 0..L /\ L \in Nat
      /\ to = from + more /\ more \in Nat
  <2>1. t \in 0..ThreadNum /\ t + 1 \in 0..ThreadNum
    BY <1>1
  <2>2. /\ Piece(q, m, t) \in 0..(ThreadNum * q + m) /\ Piece(q, m, t + 1) \in 0..(ThreadNum * q + m)
        /\ Piece(q, m, t + 1) = Piece(q, m, t) + q + (IF t < m THEN 1 ELSE 0)
    BY ONLY <1>1, <1>2, <2>1, PiecesAre
  <2>3. from \in 0..L /\ to \in 0..L /\ to = from + q + (IF t < m THEN 1 ELSE 0)
    BY <1>2, <2>2
  <2>4. more \in Nat /\ from + more = from + q + (IF t < m THEN 1 ELSE 0)
    <3>1. from \in Nat /\ more = q + (IF t < m THEN 1 ELSE 0)
      BY <2>3
    <3>2. QED
      BY ONLY <1>2, <3>1
  <2>5. QED
    BY <1>1, <2>3, <2>4
<1>5. StaticChunk(s, t) = SubSeq(s, from + 1, from + more)
  <2>1. from = q * t + Lesser(t, m) /\ more = q + (IF t < m THEN 1 ELSE 0)
    BY DEF Piece, Lesser
  <2>2. StaticChunk(s, t) = SubSeq(s, from + 1, from + q + (IF t < m THEN 1 ELSE 0))
    BY <2>1 DEF StaticChunk
  <2>3. from + q + (IF t < m THEN 1 ELSE 0) = from + more
    BY ONLY <1>2, <1>3, <2>1
  <2>4. QED
    BY ONLY <2>2, <2>3
<1>6. /\ SubSeq(s, from + 1, from + more) \in Seq(S)
      /\ Len(SubSeq(s, from + 1, from + more)) = more
      /\ \A i \in 1..more : SubSeq(s, from + 1, from + more)[i] = s[from + i]
  <2>1. L = Len(s) /\ s \in Seq(S)
    OBVIOUS
  <2>2. QED
    BY ONLY <1>3, <2>1
<1>7. \A i \in 1..more : from + i \in 1..L /\ from + i <= to
  BY ONLY <1>3
<1>8. QED
  BY <1>5, <1>6, <1>7

\* What a thread keeps of its piece
KeptOf(piece, p, r) ==
  LET Kept[i \in 0..Len(piece)] ==
        IF i = 0 THEN <<>>
        ELSE IF Relaxes(p, r, piece[i]) THEN Append(Kept[i - 1], piece[i]) ELSE Kept[i - 1]
  IN Kept[Len(piece)]

LEMMA KeptIs ==
  ASSUME NEW S, NEW s \in Seq(S), NEW p, NEW r
  PROVE  /\ KeptOf(s, p, r) \in Seq(S)
         /\ \A j \in 1..Len(KeptOf(s, p, r)) :
              \E i \in 1..Len(s) : KeptOf(s, p, r)[j] = s[i] /\ Relaxes(p, r, s[i])
         /\ \A i \in 1..Len(s) : Relaxes(p, r, s[i]) =>
              \E j \in 1..Len(KeptOf(s, p, r)) : KeptOf(s, p, r)[j] = s[i]
<1> DEFINE N == Len(s)
           step == [i \in 1..N |-> [x \in Seq(S) |->
                     IF Relaxes(p, r, s[i]) THEN Append(x, s[i]) ELSE x]]
           Kept[i \in 0..N] ==
             IF i = 0 THEN <<>>
             ELSE IF Relaxes(p, r, s[i]) THEN Append(Kept[i - 1], s[i]) ELSE Kept[i - 1]
<1>1. N \in Nat /\ \A i \in 1..N : s[i] \in S
  OBVIOUS
<1>2. PICK g \in [0..N -> Seq(S)] : g[0] = <<>> /\ \A i \in 1..N : g[i] = step[i][g[i - 1]]
  <2>1. step \in [1..N -> [Seq(S) -> Seq(S)]] /\ <<>> \in Seq(S)
    BY <1>1
  <2> HIDE DEF step, N
  <2>2. \E g \in [0..N -> Seq(S)] : Recurs(g, N, <<>>, step)
    BY <1>1, <2>1, RecursionExists
  <2>3. QED
    BY <2>2 DEF Recurs
<1>3. ASSUME NEW i \in 1..N
      PROVE  g[i - 1] \in Seq(S) /\
             g[i] = IF Relaxes(p, r, s[i]) THEN Append(g[i - 1], s[i]) ELSE g[i - 1]
  <2>1. i - 1 \in 0..N
    BY <1>1
  <2>2. QED
    BY <1>2, <2>1
<1>4. g = [i \in 0..N |-> IF i = 0 THEN <<>>
             ELSE IF Relaxes(p, r, s[i]) THEN Append(g[i - 1], s[i]) ELSE g[i - 1]]
  <2> HIDE DEF N, step
  <2>1. \A i \in 0..N : g[i] = IF i = 0 THEN <<>>
             ELSE IF Relaxes(p, r, s[i]) THEN Append(g[i - 1], s[i]) ELSE g[i - 1]
    <3>1. ASSUME NEW i \in 0..N PROVE i = 0 \/ i \in 1..N
      BY <1>1
    <3>2. QED
      BY <1>2, <1>3, <3>1
  <2>2. QED
    BY <2>1
<1>5. Kept = [i \in 0..N |-> IF i = 0 THEN <<>>
             ELSE IF Relaxes(p, r, s[i]) THEN Append(Kept[i - 1], s[i]) ELSE Kept[i - 1]]
  BY <1>4, Zenon
<1>a. KeptOf(s, p, r) = Kept[N]
  BY DEF KeptOf
<1> HIDE DEF step, N, Kept
<1>6. /\ Kept[0] = <<>>
      /\ \A i \in 1..N : Kept[i] = IF Relaxes(p, r, s[i]) THEN Append(Kept[i - 1], s[i]) ELSE Kept[i - 1]
  <2>1. 0 \in 0..N /\ \A i \in 1..N : i \in 0..N /\ i # 0
    BY <1>1
  <2>2. \A i \in 0..N : Kept[i] = IF i = 0 THEN <<>>
             ELSE IF Relaxes(p, r, s[i]) THEN Append(Kept[i - 1], s[i]) ELSE Kept[i - 1]
    BY <1>5, Zenon
  <2>3. QED
    BY <2>1, <2>2, Zenon
<1> DEFINE T == {m \in 0..N :
              /\ Kept[m] \in Seq(S)
              /\ \A j \in 1..Len(Kept[m]) : \E i \in 1..m : Kept[m][j] = s[i] /\ Relaxes(p, r, s[i])
              /\ \A i \in 1..m : Relaxes(p, r, s[i]) => \E j \in 1..Len(Kept[m]) : Kept[m][j] = s[i]}
<1>7. 0 \in T
  <2>1. 0 \in 0..N /\ Kept[0] \in Seq(S) /\ Len(Kept[0]) = 0 /\ 1..0 = {}
    BY <1>1, <1>6
  <2>2. QED
    BY <2>1
<1>8. ASSUME NEW m \in 0..(N - 1), m \in T PROVE m + 1 \in T
  <2>1. m + 1 \in 1..N /\ (m + 1) - 1 = m /\ s[m + 1] \in S
    BY <1>1
  <2> PICK x, y, b : x = Kept[m] /\ y = Kept[m + 1] /\ b = s[m + 1]
    OBVIOUS
  <2>2. x \in Seq(S) /\ b \in S /\ y = IF Relaxes(p, r, b) THEN Append(x, b) ELSE x
    BY <1>6, <1>8, <2>1
  <2>3. /\ \A j \in 1..Len(x) : \E i \in 1..m : x[j] = s[i] /\ Relaxes(p, r, s[i])
        /\ \A i \in 1..m : Relaxes(p, r, s[i]) => \E j \in 1..Len(x) : x[j] = s[i]
    BY <1>8
  <2>4. SUFFICES /\ y \in Seq(S)
                 /\ \A j \in 1..Len(y) : \E i \in 1..(m + 1) : y[j] = s[i] /\ Relaxes(p, r, s[i])
                 /\ \A i \in 1..(m + 1) : Relaxes(p, r, s[i]) => \E j \in 1..Len(y) : y[j] = s[i]
    BY <2>1
  <2> HIDE DEF T
  <2>5. CASE Relaxes(p, r, b)
    <3>1. /\ y \in Seq(S) /\ Len(y) = Len(x) + 1 /\ y[Len(x) + 1] = b
          /\ \A j \in 1..Len(x) : y[j] = x[j]
      BY <2>2, <2>5
    <3>2. ASSUME NEW j \in 1..Len(y)
          PROVE  \E i \in 1..(m + 1) : y[j] = s[i] /\ Relaxes(p, r, s[i])
      <4>1. CASE j = Len(x) + 1
        BY <2>1, <2>5, <3>1, <4>1
      <4>2. CASE j \in 1..Len(x)
        <5>1. PICK i \in 1..m : x[j] = s[i] /\ Relaxes(p, r, s[i])
          BY <2>3, <4>2
        <5>2. QED
          BY <3>1, <4>2, <5>1
      <4>3. QED
        BY <2>2, <3>1, <4>1, <4>2
    <3>3. ASSUME NEW i \in 1..(m + 1), Relaxes(p, r, s[i])
          PROVE  \E j \in 1..Len(y) : y[j] = s[i]
      <4>1. CASE i = m + 1
        BY <2>2, <3>1, <4>1
      <4>2. CASE i \in 1..m
        <5>1. PICK j \in 1..Len(x) : x[j] = s[i]
          BY <2>3, <3>3, <4>2
        <5>2. j \in 1..Len(y) /\ y[j] = s[i]
          BY <2>2, <3>1, <5>1
        <5>3. QED
          BY <5>2
      <4>3. QED
        BY <4>1, <4>2
    <3>4. QED
      BY <3>1, <3>2, <3>3
  <2>6. CASE ~Relaxes(p, r, b)
    <3>1. y = x
      BY <2>2, <2>6
    <3>2. \A i \in 1..(m + 1) : i \in 1..m \/ i = m + 1
      OBVIOUS
    <3>3. \A i \in 1..m : i \in 1..(m + 1)
      OBVIOUS
    <3>4. QED
      BY <2>2, <2>6, <2>3, <3>1, <3>2, <3>3
  <2>7. QED
    BY <2>5, <2>6
<1> HIDE DEF T
<1>9. N \in T
  <2>1. N \in 0..N /\ \A m \in 0..(N - 1) : m \in T => m + 1 \in T
    BY <1>1, <1>8
  <2>2. QED
    BY <1>1, <1>7, <2>1, UpTo
<1>10. QED
  BY <1>9, <1>a DEF T, N

LEMMA ShareKept ==
  ASSUME NEW p, NEW r, NEW t
  PROVE  Share(p, r, t) = KeptOf(StaticChunk(Loop(p, r), t), p, r)
BY DEF Share, KeptOf

\* The part of a loop that is thread t's
IsShare(h, s, p, r, q, m, t) ==
  /\ h \in Seq(Blocks)
  /\ \A j \in 1..Len(h) : \E x \in 1..Len(s) :
       /\ Piece(q, m, t) < x /\ x <= Piece(q, m, t + 1)
       /\ h[j] = s[x] /\ Relaxes(p, r, s[x])
  /\ \A x \in 1..Len(s) :
       Piece(q, m, t) < x /\ x <= Piece(q, m, t + 1) /\ Relaxes(p, r, s[x]) =>
         \E j \in 1..Len(h) : h[j] = s[x]

LEMMA ShareOf ==
  ASSUME file \in Inputs, NEW p \in {"row", "col", "rest"}, NEW r \in 0..(num_blocks - 1),
         NEW t \in Threads, NEW q, NEW m, q = Len(Loop(p, r)) \div ThreadNum, m = Len(Loop(p, r)) % ThreadNum
  PROVE  IsShare(Share(p, r, t), Loop(p, r), p, r, q, m, t)
<1> PICK s, L : s = Loop(p, r) /\ L = Len(s)
  OBVIOUS
<1> PICK c : c = StaticChunk(s, t)
  OBVIOUS
<1> PICK h : h = Share(p, r, t)
  OBVIOUS
<1> PICK from, to : from = Piece(q, m, t) /\ to = Piece(q, m, t + 1)
  OBVIOUS
<1>1. s \in Seq(Blocks) /\ L \in Nat
  BY LoopIs DEF IsLoop
<1>2. /\ c \in Seq(Blocks)
      /\ Len(c) = q + (IF t < m THEN 1 ELSE 0)
      /\ \A i \in 1..Len(c) : from + i \in 1..L /\ from + i <= to /\ c[i] = s[from + i]
  BY <1>1, StaticChunkIs
<1>3. /\ h \in Seq(Blocks)
      /\ \A j \in 1..Len(h) : \E i \in 1..Len(c) : h[j] = c[i] /\ Relaxes(p, r, c[i])
      /\ \A i \in 1..Len(c) : Relaxes(p, r, c[i]) => \E j \in 1..Len(h) : h[j] = c[i]
  <2>1. h = KeptOf(c, p, r)
    BY ShareKept
  <2>2. /\ KeptOf(c, p, r) \in Seq(Blocks)
        /\ \A j \in 1..Len(KeptOf(c, p, r)) :
             \E i \in 1..Len(c) : KeptOf(c, p, r)[j] = c[i] /\ Relaxes(p, r, c[i])
        /\ \A i \in 1..Len(c) : Relaxes(p, r, c[i]) =>
             \E j \in 1..Len(KeptOf(c, p, r)) : KeptOf(c, p, r)[j] = c[i]
    <3>1. c \in Seq(Blocks)
      BY <1>2
    <3>2. QED
      BY ONLY <3>1, KeptIs
  <2>3. QED
    BY <2>1, <2>2
<1>4. from \in Nat /\ to = from + Len(c) /\ Len(c) \in Nat
  <2>1. ThreadNum \in Nat \ {0} /\ q \in Nat /\ m \in 0..(ThreadNum - 1) /\ t \in 0..(ThreadNum - 1)
    <3>1. ThreadNum \in Nat \ {0}
      BY SizesAssumption
    <3>2. L \div ThreadNum \in Nat /\ L % ThreadNum \in 0..(ThreadNum - 1)
      BY ONLY <1>1, <3>1, DivMod
    <3>3. QED
      BY <3>1, <3>2 DEF Threads
  <2>2. /\ Piece(q, m, t) \in 0..(ThreadNum * q + m)
        /\ Piece(q, m, t + 1) = Piece(q, m, t) + q + (IF t < m THEN 1 ELSE 0)
    <3>1. t \in 0..ThreadNum
      BY <2>1
    <3>2. QED
      BY ONLY <2>1, <3>1, PiecesAre
  <2>3. from \in Nat /\ to = from + q + (IF t < m THEN 1 ELSE 0)
    BY <2>2
  <2>4. QED
    BY ONLY <1>2, <2>1, <2>3
<1>5. ASSUME NEW j \in 1..Len(h)
      PROVE  \E x \in 1..L : from < x /\ x <= to /\ h[j] = s[x] /\ Relaxes(p, r, s[x])
  <2>1. PICK i \in 1..Len(c) : h[j] = c[i] /\ Relaxes(p, r, c[i])
    BY <1>3
  <2>2. from + i \in 1..L /\ from < from + i /\ from + i <= to /\ c[i] = s[from + i]
    BY <1>2, <1>4
  <2>3. QED
    BY <2>1, <2>2
<1>6. ASSUME NEW x \in 1..L, from < x, x <= to, Relaxes(p, r, s[x])
      PROVE  \E j \in 1..Len(h) : h[j] = s[x]
  <2>1. x - from \in 1..Len(c) /\ from + (x - from) = x
    BY <1>4, <1>6
  <2>2. c[x - from] = s[x]
    BY <1>2, <2>1
  <2>3. Relaxes(p, r, c[x - from])
    BY <1>6, <2>2
  <2>4. PICK j \in 1..Len(h) : h[j] = c[x - from]
    BY <1>3, <2>1, <2>3
  <2>5. QED
    BY <2>2, <2>4
<1>7. IsShare(h, s, p, r, q, m, t)
  BY <1>3, <1>5, <1>6 DEF IsShare
<1>8. QED
  BY <1>7

\* The threads' shares together are what has its turn, and no block is in two.
LEMMA SharesAre ==
  ASSUME file \in Inputs, NEW p \in {"row", "col", "rest"}, NEW r \in 0..(num_blocks - 1)
  PROVE  /\ \A t \in Threads : Share(p, r, t) \in Seq(Blocks)
         /\ \A t \in Threads : \A j \in 1..Len(Share(p, r, t)) : Turn(r, Share(p, r, t)[j]) = TurnOf(p)
         /\ \A b \in Blocks : Turn(r, b) = TurnOf(p) =>
              \E t \in Threads : \E j \in 1..Len(Share(p, r, t)) : Share(p, r, t)[j] = b
         /\ \A t, u \in Threads : t # u =>
              \A i \in 1..Len(Share(p, r, t)), j \in 1..Len(Share(p, r, u)) :
                Share(p, r, t)[i] # Share(p, r, u)[j]
<1> PICK s, L : s = Loop(p, r) /\ L = Len(s)
  OBVIOUS
<1> PICK q, m : q = L \div ThreadNum /\ m = L % ThreadNum
  OBVIOUS
<1> PICK h : h = [t \in Threads |-> Share(p, r, t)]
  OBVIOUS
<1>1. IsLoop(s, p, r) /\ L \in Nat
  <2>1. IsLoop(Loop(p, r), p, r)
    BY LoopIs
  <2>2. Loop(p, r) \in Seq(Blocks)
    BY <2>1 DEF IsLoop
  <2>3. QED
    BY <2>1, <2>2
<1>2. ThreadNum \in Nat \ {0} /\ q \in Nat /\ m \in 0..(ThreadNum - 1) /\ L = ThreadNum * q + m
  <2>1. ThreadNum \in Nat \ {0}
    BY SizesAssumption
  <2>2. /\ L \div ThreadNum \in Nat /\ L % ThreadNum \in 0..(ThreadNum - 1)
        /\ L = ThreadNum * (L \div ThreadNum) + (L % ThreadNum)
    BY ONLY <1>1, <2>1, DivMod
  <2>3. QED
    BY <2>1, <2>2
<1>3. ASSUME NEW t \in Threads
      PROVE  /\ h[t] \in Seq(Blocks)
             /\ \A j \in 1..Len(h[t]) : \E x \in 1..L :
                  /\ Piece(q, m, t) < x /\ x <= Piece(q, m, t + 1)
                  /\ h[t][j] = s[x] /\ Relaxes(p, r, s[x])
             /\ \A x \in 1..L :
                  Piece(q, m, t) < x /\ x <= Piece(q, m, t + 1) /\ Relaxes(p, r, s[x]) =>
                    \E j \in 1..Len(h[t]) : h[t][j] = s[x]
  <2>1. h[t] = Share(p, r, t)
    OBVIOUS
  <2>2. q = Len(Loop(p, r)) \div ThreadNum /\ m = Len(Loop(p, r)) % ThreadNum
    OBVIOUS
  <2>3. IsShare(Share(p, r, t), Loop(p, r), p, r, q, m, t)
    BY <2>2, ShareOf
  <2>4. IsShare(h[t], s, p, r, q, m, t)
    BY <2>1, <2>3
  <2>5. QED
    BY <2>4 DEF IsShare
<1>4. ASSUME NEW t \in Threads, NEW j \in 1..Len(h[t]) PROVE Turn(r, h[t][j]) = TurnOf(p)
  BY <1>1, <1>3 DEF IsLoop
<1>5. ASSUME NEW b \in Blocks, Turn(r, b) = TurnOf(p)
      PROVE  \E t \in Threads : \E j \in 1..Len(h[t]) : h[t][j] = b
  <2>1. PICK x \in 1..L : s[x] = b
    BY <1>1, <1>5 DEF IsLoop
  <2>2. Relaxes(p, r, s[x])
    BY <1>1, <1>5, <2>1 DEF IsLoop
  <2>3. PICK t \in 0..(ThreadNum - 1) : Piece(q, m, t) < x /\ x <= Piece(q, m, t + 1)
    <3>1. \A i \in 1..(ThreadNum * q + m) : \E t \in 0..(ThreadNum - 1) :
             Piece(q, m, t) < i /\ i <= Piece(q, m, t + 1)
      <4>1. ThreadNum \in Nat \ {0} /\ q \in Nat /\ m \in 0..(ThreadNum - 1)
        BY <1>2
      <4>2. QED
        BY ONLY <4>1, PiecesAre
    <3>2. x \in 1..(ThreadNum * q + m)
      BY <1>2
    <3>3. QED
      BY <3>1, <3>2, Zenon
  <2>4. t \in Threads
    BY DEF Threads
  <2>5. \E j \in 1..Len(h[t]) : h[t][j] = s[x]
    BY <1>3, <2>2, <2>3, <2>4
  <2>6. QED
    BY <2>1, <2>4, <2>5
<1>6. ASSUME NEW t \in Threads, NEW u \in Threads, t < u,
             NEW i \in 1..Len(h[t]), NEW j \in 1..Len(h[u])
      PROVE  h[t][i] # h[u][j]
  <2>1. PICK x \in 1..L : x <= Piece(q, m, t + 1) /\ h[t][i] = s[x]
    BY <1>3
  <2>2. PICK y \in 1..L : Piece(q, m, u) < y /\ h[u][j] = s[y]
    BY <1>3
  <2>3. t + 1 \in 0..ThreadNum /\ u \in 0..ThreadNum /\ t + 1 <= u
    BY <1>2, <1>6 DEF Threads
  <2>4. Piece(q, m, t + 1) <= Piece(q, m, u) /\ Piece(q, m, u) \in 0..L /\ Piece(q, m, t + 1) \in 0..L
    <3>1. /\ Piece(q, m, t + 1) <= Piece(q, m, u)
          /\ Piece(q, m, u) \in 0..(ThreadNum * q + m) /\ Piece(q, m, t + 1) \in 0..(ThreadNum * q + m)
      BY ONLY <1>2, <2>3, PiecesAre
    <3>2. QED
      BY <1>2, <3>1
  <2>5. x # y
    BY <2>1, <2>2, <2>4
  <2>6. QED
    BY <1>1, <2>1, <2>2, <2>5 DEF IsLoop
<1>7. \A t, u \in Threads : t # u => t < u \/ u < t
  BY <1>2 DEF Threads
<1>8. \A t, u \in Threads : t # u =>
        \A i \in 1..Len(h[t]), j \in 1..Len(h[u]) : h[t][i] # h[u][j]
  BY <1>6, <1>7
<1>9. \A t \in Threads : h[t] = Share(p, r, t)
  OBVIOUS
<1>10. /\ \A t \in Threads : h[t] \in Seq(Blocks)
       /\ \A t \in Threads : \A j \in 1..Len(h[t]) : Turn(r, h[t][j]) = TurnOf(p)
       /\ \A b \in Blocks : Turn(r, b) = TurnOf(p) =>
            \E t \in Threads : \E j \in 1..Len(h[t]) : h[t][j] = b
  BY <1>3, <1>4, <1>5
<1>11. QED
  BY <1>8, <1>9, <1>10

-----------------------------------------------------------------------------
(* The invariant.                                                          *)

\* The matrices of the algorithm without blocks
Steps == FloydWarshallSteps(omp_buf2graph(file), vertex_num)

\* A block of a thread's list has its turn, and is in no other list.
ListsInv ==
  /\ todo \in [Threads -> Seq(Blocks)]
  /\ \A t \in Threads : \A i \in 1..Len(todo[t]) : Turn(k, todo[t][i]) = TurnOf(phase)
  /\ \A t, u \in Threads : t # u =>
       \A i \in 1..Len(todo[t]), j \in 1..Len(todo[u]) : todo[t][i] # todo[u][j]
  /\ phase = "pivot" => \A t \in Threads : Len(todo[t]) <= (IF t = Main THEN 1 ELSE 0)
  /\ phase = "done" => \A t \in Threads : todo[t] = <<>>

PassInv ==
  /\ file \in Inputs
  /\ k \in 0..num_blocks
  /\ phase \in {"pivot", "row", "col", "rest", "done"}
  /\ phase = "done" <=> k = num_blocks
  /\ pass \in [Threads -> 0..(block_size - 1)]
  /\ \A t \in Threads : todo[t] = <<>> => pass[t] = 0
  /\ \A t \in Threads : todo[t] # <<>> => pass[t] < BlockDim(k)

\* Block b has been relaxed in this round.
IsDone(b) ==
  /\ Turn(k, b) <= TurnOf(phase)
  /\ \A t \in Threads : \A i \in 1..Len(todo[t]) : todo[t][i] # b

\* The matrix is between those of the start and of the end of the round, a
\* block that is done is at the end's, and one that a thread relaxes is as far
\* as its passes.
MatrixInv ==
  /\ graph \in Matrices(vertex_num, DISINF)
  /\ phase # "done" =>
       /\ Between(Steps, Start(k), Start(k + 1), vertex_num, graph)
       /\ \A b \in Blocks : IsDone(b) =>
            Reached(Steps, Start(k + 1), Span(b[1]), Span(b[2]), graph)
       /\ \A t \in Threads : todo[t] # <<>> =>
            Reached(Steps, Start(k) + pass[t], Span(Head(todo[t])[1]), Span(Head(todo[t])[2]), graph)
  /\ RoundsMatch

RoundInv == ListsInv /\ PassInv /\ MatrixInv

-----------------------------------------------------------------------------
(* The input.                                                              *)

LEMMA InputMatrix ==
  ASSUME file \in Inputs
  PROVE  omp_buf2graph(file) \in Matrices(vertex_num, DISINF)
<1> PICK n : n = vertex_num
  OBVIOUS
<1> DEFINE edge(c) == CHOOSE e \in file.edges : e[1] = c[1] /\ e[2] = c[2]
           marked == [c \in Cells(n) |->
             IF \E e \in file.edges : e[1] = c[1] /\ e[2] = c[2]
             THEN IF edge(c)[3] = 0 THEN -1 ELSE edge(c)[3]
             ELSE 0]
           m == [c \in Cells(n) |->
             IF marked[c] = 0 /\ c[1] # c[2] THEN DISINF
             ELSE IF marked[c] = -1 THEN 0 ELSE marked[c]]
<1>1. omp_buf2graph(file) = m
  BY DEF omp_buf2graph, vertex_num
<1>2. n \in Nat \ {0, 1} /\ MaxWeight \in Nat /\ DISINF \in Nat /\ (n - 1) * MaxWeight < DISINF
  BY InputAssumption, SizesAssumption DEF vertex_num
<1>3. MaxWeight <= DISINF
  <2>1. 1 <= n - 1 /\ n - 1 \in Nat
    BY <1>2
  <2>2. 1 * MaxWeight <= (n - 1) * MaxWeight
    BY ONLY <1>2, <2>1, TimesMonotone
  <2>3. (n - 1) * MaxWeight \in Nat
    BY <1>2
  <2>4. QED
    BY <1>2, <2>2, <2>3
<1>4. ASSUME NEW c \in Cells(n), \E e \in file.edges : e[1] = c[1] /\ e[2] = c[2]
      PROVE  edge(c)[3] \in 0..DISINF
  <2>1. edge(c) \in file.edges
    BY <1>4
  <2> HIDE DEF edge
  <2>2. edge(c)[3] \in 0..MaxWeight
    BY <2>1, InputAssumption
  <2>3. QED
    BY <1>2, <1>3, <2>2
<1> HIDE DEF edge
<1>5. ASSUME NEW c \in Cells(n) PROVE m[c] \in 0..DISINF
  <2>1. marked[c] = -1 \/ marked[c] \in 0..DISINF
    BY <1>2, <1>4
  <2>2. m[c] = IF marked[c] = 0 /\ c[1] # c[2] THEN DISINF
               ELSE IF marked[c] = -1 THEN 0 ELSE marked[c]
    OBVIOUS
  <2> HIDE DEF marked, m
  <2>3. QED
    BY <1>2, <2>1, <2>2
<1>6. QED
  BY <1>1, <1>5 DEF Matrices

\* The matrix that is read has the weight of each edge, 0 on the diagonal, and
\* DISINF elsewhere: the mark of an edge of weight 0 is undone.
LEMMA InputIsEdges ==
  ASSUME file \in Inputs
  PROVE  omp_buf2graph(file) = Edges(Weights, vertex_num)
<1> PICK n : n = vertex_num
  OBVIOUS
<1> DEFINE edge(c) == CHOOSE e \in file.edges : e[1] = c[1] /\ e[2] = c[2]
           marked == [c \in Cells(n) |->
             IF \E e \in file.edges : e[1] = c[1] /\ e[2] = c[2]
             THEN IF edge(c)[3] = 0 THEN -1 ELSE edge(c)[3]
             ELSE 0]
           m == [c \in Cells(n) |->
             IF marked[c] = 0 /\ c[1] # c[2] THEN DISINF
             ELSE IF marked[c] = -1 THEN 0 ELSE marked[c]]
<1>1. omp_buf2graph(file) = m
  BY DEF omp_buf2graph, vertex_num
<1>2. ASSUME NEW e \in file.edges
      PROVE  e[1] # e[2] /\ e[3] \in Nat
             /\ \A g \in file.edges : e[1] = g[1] /\ e[2] = g[2] => e = g
  <2>1. e[1] # e[2] /\ e[3] \in 0..MaxWeight
    BY InputAssumption
  <2>2. \A g \in file.edges : e[1] = g[1] /\ e[2] = g[2] => e = g
    BY InputAssumption
  <2>3. QED
    BY <2>1, <2>2
<1>3. ASSUME NEW c \in Cells(n), NEW e \in file.edges, e[1] = c[1], e[2] = c[2]
      PROVE  edge(c) = e /\ Weights[c] = e[3]
  <2>1. edge(c) \in file.edges /\ edge(c)[1] = c[1] /\ edge(c)[2] = c[2]
    BY <1>3
  <2>2. edge(c) = e
    BY <1>2, <1>3, <2>1
  <2>3. c = <<c[1], c[2]>>
    BY DEF Cells
  <2>4. \A g \in file.edges : <<g[1], g[2]>> = c => g = e
    BY <1>2, <1>3
  <2>5. {g[3] : g \in {g \in file.edges : <<g[1], g[2]>> = c}} = {e[3]}
    BY <1>3, <2>3, <2>4
  <2>6. Min({e[3]}) = e[3]
    BY <1>2 DEF Min
  <2>7. Weights[c] = Min({g[3] : g \in {g \in file.edges : <<g[1], g[2]>> = c}})
    BY <1>3, <2>3 DEF Weights
  <2>8. QED
    BY <2>2, <2>5, <2>6, <2>7
<1> HIDE DEF edge
<1>4. ASSUME NEW c \in Cells(n) PROVE m[c] = IF c[1] = c[2] THEN 0 ELSE Weights[c]
  <2> PICK x : x = marked[c]
    OBVIOUS
  <2>1. m[c] = IF x = 0 /\ c[1] # c[2] THEN DISINF ELSE IF x = -1 THEN 0 ELSE x
    OBVIOUS
  <2>2. CASE \E e \in file.edges : e[1] = c[1] /\ e[2] = c[2]
    <3>1. PICK e \in file.edges : e[1] = c[1] /\ e[2] = c[2]
      BY <2>2
    <3>2. x = IF e[3] = 0 THEN -1 ELSE e[3]
      BY <1>3, <3>1
    <3> HIDE DEF m
    <3>3. e[3] \in Nat /\ c[1] # c[2] /\ Weights[c] = e[3]
      BY <1>2, <1>3, <3>1
    <3>4. QED
      BY <2>1, <3>2, <3>3
  <2>3. CASE ~ \E e \in file.edges : e[1] = c[1] /\ e[2] = c[2]
    <3>1. x = 0
      BY <2>3
    <3>2. Weights[c] = DISINF
      BY <2>3 DEF Weights
    <3> HIDE DEF m
    <3>3. QED
      BY <2>1, <3>1, <3>2
  <2>4. QED
    BY <2>2, <2>3
<1>5. QED
  <2>1. m = [c \in Cells(n) |-> IF c[1] = c[2] THEN 0 ELSE Weights[c]]
    BY <1>4
  <2>2. QED
    BY <1>1, <2>1 DEF Edges

LEMMA StepsOfInput ==
  ASSUME file \in Inputs
  PROVE  IsSteps(Steps, omp_buf2graph(file), vertex_num, DISINF)
<1> PICK n, w : n = vertex_num /\ w = omp_buf2graph(file)
  OBVIOUS
<1>1. n \in Nat /\ DISINF \in Nat /\ w \in Matrices(n, DISINF)
  BY InputMatrix, BlocksAre, SizesAssumption
<1>2. IsSteps(FloydWarshallSteps(w, n), w, n, DISINF)
  BY ONLY <1>1, StepsAreSteps
<1>3. QED
  BY <1>2 DEF Steps

LEMMA SameInput ==
  ASSUME file' = file
  PROVE  /\ vertex_num' = vertex_num /\ block_size' = block_size /\ num_blocks' = num_blocks
         /\ Blocks' = Blocks /\ Steps' = Steps
BY DEF vertex_num, block_size, num_blocks, Blocks, Steps

-----------------------------------------------------------------------------
(* Steps.                                                                  *)

LEMMA InitRound == Init => RoundInv
<1> SUFFICES ASSUME Init PROVE RoundInv
  OBVIOUS
<1> USE DEF Init
<1>1. file \in Inputs /\ vertex_num \in Nat \ {0, 1} /\ block_size \in 1..vertex_num
      /\ num_blocks \in Nat \ {0} /\ Start(0) = 0
  BY BlocksAre
<1>2. Main \in Threads
  BY SizesAssumption DEF Main, Threads
<1>3. <<0, 0>> \in Blocks /\ <<<<0, 0>>>> \in Seq(Blocks) /\ <<>> \in Seq(Blocks)
      /\ Turn(0, <<0, 0>>) = 0
  BY <1>1 DEF Blocks, Turn
<1>4. \A t \in Threads : todo[t] = IF t = Main THEN <<<<0, 0>>>> ELSE <<>>
  OBVIOUS
<1>5. ListsInv
  <2>1. todo \in [Threads -> Seq(Blocks)]
    BY <1>3
  <2>2. \A t \in Threads : \A i \in 1..Len(todo[t]) : t = Main /\ todo[t][i] = <<0, 0>>
    BY <1>4
  <2>3. \A t \in Threads : Len(todo[t]) <= (IF t = Main THEN 1 ELSE 0)
    BY <1>4
  <2>4. QED
    BY <1>3, <2>1, <2>2, <2>3 DEF ListsInv, TurnOf
<1>6. PassInv
  <2>1. BlockDim(0) \in 1..block_size
    BY <1>1, BlockIs
  <2>2. QED
    BY <1>1, <1>4, <2>1 DEF PassInv
<1>7. IsSteps(Steps, graph, vertex_num, DISINF) /\ graph \in Matrices(vertex_num, DISINF)
  BY <1>1, StepsOfInput, InputMatrix
<1> PICK n, D, e : n = vertex_num /\ D = Steps /\ e = Start(1)
  OBVIOUS
<1>8. D[0] = graph /\ n \in Nat /\ e \in 0..n /\ DISINF \in Nat
  BY <1>1, <1>7, BlockIs, SizesAssumption DEF IsSteps
<1>9. ASSUME NEW i \in 0..(n - 1), NEW j \in 0..(n - 1)
      PROVE  D[e][<<i, j>>] <= D[0][<<i, j>>] /\ D[0][<<i, j>>] <= D[0][<<i, j>>]
  <2>1. IsSteps(D, graph, n, DISINF) /\ 0 \in 0..n /\ e \in 0..n
    BY <1>7, <1>8
  <2>2. D[e][<<i, j>>] <= D[0][<<i, j>>] /\ D[0][<<i, j>>] \in 0..DISINF
    BY <1>8, <2>1, StepsDecrease, StepsTypes
  <2>3. QED
    BY <2>2
<1>10. /\ Between(D, 0, e, n, graph)
       /\ \A i, j \in 0..(n - 1) : graph[<<i, j>>] <= D[0][<<i, j>>]
  <2>1. \A i, j \in 0..(n - 1) : D[e][<<i, j>>] <= D[0][<<i, j>>] /\ D[0][<<i, j>>] <= D[0][<<i, j>>]
    BY <1>9, Zenon
  <2>2. \A i, j \in 0..(n - 1) : D[e][<<i, j>>] <= graph[<<i, j>>] /\ graph[<<i, j>>] <= D[0][<<i, j>>]
    BY <1>8, <2>1, Zenon
  <2>3. QED
    BY <2>2 DEF Between
<1>11. ASSUME NEW b \in Blocks PROVE ~IsDone(b)
  <2>1. SUFFICES ASSUME IsDone(b) PROVE FALSE
    OBVIOUS
  <2>2. Turn(0, b) <= 0
    BY <2>1 DEF IsDone, TurnOf
  <2>3. b = <<0, 0>>
    BY <2>2 DEF Turn, Blocks
  <2>4. Len(todo[Main]) = 1 /\ todo[Main][1] = <<0, 0>>
    BY <1>2, <1>4
  <2>5. QED
    BY <1>2, <2>1, <2>3, <2>4 DEF IsDone
<1>12. ASSUME NEW t \in Threads, todo[t] # <<>>
       PROVE  Reached(D, 0, Span(Head(todo[t])[1]), Span(Head(todo[t])[2]), graph)
  <2>1. Head(todo[t])[1] = 0 /\ Head(todo[t])[2] = 0
    BY <1>4, <1>12
  <2>2. Span(0) \subseteq 0..(n - 1)
    BY <1>1, BlockIs
  <2>3. \A i, j \in Span(0) : graph[<<i, j>>] <= D[0][<<i, j>>]
    BY <1>10, <2>2
  <2>4. QED
    BY <2>1, <2>3 DEF Reached
<1>13. RoundsMatch
  <2>1. Lesser(0 * block_size, vertex_num) = 0
    BY <1>1 DEF Lesser
  <2>2. QED
    BY <1>8, <2>1 DEF RoundsMatch, Steps
<1>14. MatrixInv
  <2>1. Start(k) = 0 /\ Start(k + 1) = e /\ \A t \in Threads : Start(k) + pass[t] = 0
    BY <1>1
  <2>2. QED
    BY <1>7, <1>10, <1>11, <1>12, <1>13, <2>1 DEF MatrixInv
<1>15. QED
  BY <1>5, <1>6, <1>14 DEF RoundInv

\* The list of a thread loses its first block after the last pass over it.
LEMMA PassLists ==
  ASSUME RoundInv, NEW t \in Threads, Pass(t)
  PROVE  /\ ListsInv' /\ PassInv'
         /\ todo[t] \in Seq(Blocks) /\ todo[t] # <<>> /\ Len(todo[t]) \in Nat \ {0}
         /\ Head(todo[t]) \in Blocks /\ Head(todo[t]) = todo[t][1]
         /\ Turn(k, Head(todo[t])) = TurnOf(phase)
         /\ phase # "done" /\ k \in 0..(num_blocks - 1) /\ pass[t] \in 0..(BlockDim(k) - 1)
         /\ \A u \in Threads \ {t} : todo'[u] = todo[u] /\ pass'[u] = pass[u]
         /\ IF pass[t] + 1 = BlockDim(k)
            THEN /\ pass'[t] = 0 /\ todo'[t] \in Seq(Blocks) /\ Len(todo'[t]) = Len(todo[t]) - 1
                 /\ \A i \in 1..Len(todo'[t]) : todo'[t][i] = todo[t][i + 1]
            ELSE pass'[t] = pass[t] + 1 /\ todo'[t] = todo[t]
<1> USE DEF RoundInv
<1>1. file \in Inputs /\ file' = file /\ k' = k /\ phase' = phase
  BY DEF Pass, PassInv
<1> PICK s : s = todo[t]
  OBVIOUS
<1> PICK last : last = (pass[t] + 1 = BlockDim(k))
  OBVIOUS
<1>2. todo \in [Threads -> Seq(Blocks)] /\ pass \in [Threads -> 0..(block_size - 1)]
  BY DEF ListsInv, PassInv
<1>3. s \in Seq(Blocks) /\ s # <<>>
  BY <1>2 DEF Pass
<1>4. Len(s) \in Nat \ {0} /\ Head(s) = s[1] /\ s[1] \in Blocks
  BY <1>3
<1>5. phase # "done" /\ k \in 0..(num_blocks - 1) /\ Turn(k, s[1]) = TurnOf(phase)
  <2>1. phase # "done"
    BY <1>3 DEF ListsInv
  <2>2. k \in 0..num_blocks /\ k # num_blocks /\ num_blocks \in Nat
    BY <1>1, <2>1, BlocksAre DEF PassInv
  <2>3. Turn(k, s[1]) = TurnOf(phase)
    BY <1>4 DEF ListsInv
  <2>4. QED
    BY <2>1, <2>2, <2>3
<1>6. BlockDim(k) \in 1..block_size /\ block_size \in Nat
  BY <1>1, <1>5, BlockIs, BlocksAre
<1>7. pass[t] \in 0..(BlockDim(k) - 1)
  <2>1. pass[t] < BlockDim(k) /\ pass[t] \in 0..(block_size - 1)
    BY <1>2, <1>3 DEF PassInv
  <2>2. QED
    BY <1>6, <2>1
<1>8. /\ \A u \in Threads \ {t} : todo'[u] = todo[u] /\ pass'[u] = pass[u]
      /\ pass'[t] = (IF last THEN 0 ELSE pass[t] + 1)
      /\ todo'[t] = (IF last THEN Tail(s) ELSE s)
  BY <1>2 DEF Pass
<1>9. DOMAIN pass' = Threads /\ DOMAIN todo' = Threads /\ pass' = [u \in Threads |-> pass'[u]]
      /\ todo' = [u \in Threads |-> todo'[u]]
  BY <1>2 DEF Pass
<1>10. /\ Tail(s) \in Seq(Blocks) /\ Len(Tail(s)) = Len(s) - 1
       /\ \A i \in 1..Len(Tail(s)) : Tail(s)[i] = s[i + 1]
  BY <1>3, <1>4
<1>11. ASSUME NEW u \in Threads
       PROVE  /\ todo'[u] \in Seq(Blocks) /\ Len(todo'[u]) <= Len(todo[u])
              /\ \A i \in 1..Len(todo'[u]) : \E x \in 1..Len(todo[u]) : todo'[u][i] = todo[u][x]
  <2>1. CASE u = t /\ last
    <3>1. todo'[u] = Tail(s) /\ todo[u] = s
      BY <1>8, <2>1
    <3>2. \A i \in 1..Len(Tail(s)) : i + 1 \in 1..Len(s) /\ Tail(s)[i] = s[i + 1]
      BY <1>4, <1>10
    <3>3. QED
      BY <1>4, <1>10, <3>1, <3>2
  <2>2. CASE ~(u = t /\ last)
    <3>1. todo'[u] = todo[u] /\ todo[u] \in Seq(Blocks)
      BY <1>2, <1>8, <2>2
    <3>2. Len(todo[u]) \in Nat
      BY <3>1
    <3>3. QED
      BY <3>1, <3>2
  <2>3. QED
    BY <2>1, <2>2
<1>12. Blocks' = Blocks /\ block_size' = block_size /\ num_blocks' = num_blocks
       /\ BlockDim(k)' = BlockDim(k)
  BY <1>1, SameInput DEF BlockDim
<1>13. ListsInv'
  <2>1. todo' \in [Threads -> Seq(Blocks)]
    BY <1>9, <1>11
  <2>2. \A u \in Threads : \A i \in 1..Len(todo'[u]) : Turn(k, todo'[u][i]) = TurnOf(phase)
    BY <1>11 DEF ListsInv
  <2>3. ASSUME NEW u \in Threads, NEW v \in Threads, u # v,
               NEW i \in 1..Len(todo'[u]), NEW j \in 1..Len(todo'[v])
        PROVE  todo'[u][i] # todo'[v][j]
    <3>1. PICK x \in 1..Len(todo[u]) : todo'[u][i] = todo[u][x]
      BY <1>11
    <3>2. PICK y \in 1..Len(todo[v]) : todo'[v][j] = todo[v][y]
      BY <1>11
    <3>3. QED
      BY <2>3, <3>1, <3>2 DEF ListsInv
  <2>4. phase = "pivot" => \A u \in Threads : Len(todo'[u]) <= (IF u = Main THEN 1 ELSE 0)
    <3>1. SUFFICES ASSUME phase = "pivot", NEW u \in Threads
                   PROVE  Len(todo'[u]) <= (IF u = Main THEN 1 ELSE 0)
      OBVIOUS
    <3>2. Len(todo[u]) <= (IF u = Main THEN 1 ELSE 0)
      BY <3>1 DEF ListsInv
    <3>3. Len(todo[u]) \in Nat /\ Len(todo'[u]) \in Nat /\ Len(todo'[u]) <= Len(todo[u])
      BY <1>2, <1>11
    <3>4. QED
      BY <3>2, <3>3
  <2>5. QED
    BY <1>1, <1>5, <1>12, <2>1, <2>2, <2>3, <2>4 DEF ListsInv
<1>14. PassInv'
  <2>1. ASSUME NEW u \in Threads
        PROVE  /\ pass'[u] \in 0..(block_size - 1)
               /\ todo'[u] = <<>> => pass'[u] = 0
               /\ todo'[u] # <<>> => pass'[u] < BlockDim(k)
    <3>1. CASE u = t
      <4>1. CASE last
        BY <1>6, <1>8, <3>1, <4>1
      <4>2. CASE ~last
        <5>1. pass[t] + 1 \in 0..(block_size - 1) /\ pass[t] + 1 < BlockDim(k)
          <6>1. pass[t] + 1 # BlockDim(k)
            BY <4>2, Zenon
          <6>2. QED
            BY <1>6, <1>7, <6>1
        <5>2. QED
          BY <1>3, <1>8, <3>1, <4>2, <5>1
      <4>3. QED
        BY <4>1, <4>2
    <3>2. CASE u # t
      BY <1>2, <1>8, <3>2 DEF PassInv
    <3>3. QED
      BY <3>1, <3>2
  <2>2. pass' \in [Threads -> 0..(block_size - 1)]
    BY <1>9, <2>1
  <2>3. QED
    BY <1>1, <1>12, <2>1, <2>2 DEF PassInv
<1>15. IF pass[t] + 1 = BlockDim(k)
       THEN /\ pass'[t] = 0 /\ todo'[t] \in Seq(Blocks) /\ Len(todo'[t]) = Len(s) - 1
            /\ \A i \in 1..Len(todo'[t]) : todo'[t][i] = s[i + 1]
       ELSE pass'[t] = pass[t] + 1 /\ todo'[t] = s
  BY <1>8, <1>10
<1>16. QED
  BY <1>3, <1>4, <1>5, <1>7, <1>8, <1>13, <1>14, <1>15

LEMMA PassMatrix ==
  ASSUME RoundInv, NEW t \in Threads, Pass(t)
  PROVE  MatrixInv'
<1> USE DEF RoundInv
<1>1. file \in Inputs /\ file' = file /\ k' = k /\ phase' = phase
  BY DEF Pass, PassInv
<1> PICK n, D, M, w : n = vertex_num /\ D = Steps /\ M = DISINF /\ w = omp_buf2graph(file)
  OBVIOUS
<1> PICK s, e, v, b : s = Start(k) /\ e = Start(k + 1) /\ v = Start(k) + pass[t] /\ b = Head(todo[t])
  OBVIOUS
<1> PICK g, h : g = graph /\ h = graph'
  OBVIOUS
<1>2. n \in Nat /\ M \in Nat /\ IsSteps(D, w, n, M)
  BY <1>1, BlocksAre, StepsOfInput, SizesAssumption
<1>3. /\ todo[t] # <<>> /\ Len(todo[t]) \in Nat \ {0} /\ b \in Blocks /\ b = todo[t][1]
      /\ Turn(k, b) = TurnOf(phase) /\ phase # "done" /\ k \in 0..(num_blocks - 1)
      /\ pass[t] \in 0..(BlockDim(k) - 1)
      /\ \A u \in Threads \ {t} : todo'[u] = todo[u] /\ pass'[u] = pass[u]
      /\ IF pass[t] + 1 = BlockDim(k)
         THEN /\ pass'[t] = 0 /\ todo'[t] \in Seq(Blocks) /\ Len(todo'[t]) = Len(todo[t]) - 1
              /\ \A i \in 1..Len(todo'[t]) : todo'[t][i] = todo[t][i + 1]
         ELSE pass'[t] = pass[t] + 1 /\ todo'[t] = todo[t]
  BY PassLists
<1>4. /\ s \in 0..n /\ e \in 0..n /\ BlockPos(k) = s /\ BlockDim(k) \in Nat \ {0} /\ s + BlockDim(k) = e
      /\ Span(k) = s..(e - 1)
  <2>1. k \in 0..(num_blocks - 1)
    BY <1>3
  <2>2. /\ Start(k) \in 0..(vertex_num - 1) /\ Start(k + 1) \in 1..vertex_num
        /\ BlockPos(k) = Start(k)
        /\ BlockDim(k) \in 1..block_size /\ Start(k) + BlockDim(k) = Start(k + 1)
        /\ Span(k) = Start(k)..(Start(k + 1) - 1)
    BY <1>1, <2>1, BlockIs
  <2>3. block_size \in Nat
    BY <1>1, BlocksAre
  <2>4. QED
    BY <1>2, <2>2, <2>3
<1> PICK d, p : d = BlockDim(k) /\ p = pass[t]
  OBVIOUS
<1>18. /\ d \in Nat \ {0} /\ p \in 0..(d - 1) /\ s + d = e /\ v = s + p
       /\ pass[t] = p /\ BlockDim(k) = d
  BY <1>3, <1>4
<1>5. v \in s..(e - 1) /\ v \in Span(k) /\ v \in 0..n /\ v + 1 <= e
  <2>1. v \in s..(e - 1) /\ v \in 0..n /\ v + 1 <= e
    BY ONLY <1>2, <1>4, <1>18
  <2>2. QED
    BY <1>4, <2>1
<1>6. ASSUME NEW c \in Blocks
      PROVE Span(c[1]) \in SUBSET (0..(n - 1)) /\ Span(c[2]) \in SUBSET (0..(n - 1))
  <2>1. c[1] \in 0..(num_blocks - 1) /\ c[2] \in 0..(num_blocks - 1)
    BY BlockPair
  <2>2. QED
    BY <1>1, <2>1, BlockIs
<1>7. /\ g \in Matrices(n, M) /\ Between(D, s, e, n, g)
      /\ \A c \in Blocks : IsDone(c) => Reached(D, e, Span(c[1]), Span(c[2]), g)
      /\ \A u \in Threads : todo[u] # <<>> =>
           Reached(D, s + pass[u], Span(Head(todo[u])[1]), Span(Head(todo[u])[2]), g)
  BY <1>3 DEF MatrixInv
<1>8. h = Relax(g, Span(b[1]) \X Span(b[2]), v)
  BY <1>4 DEF Pass
<1>9. Reached(D, v, Span(b[1]), Span(b[2]), g)
  BY <1>3, <1>7
<1>10. ASSUME NEW c \in Blocks, Turn(k, c) < Turn(k, b)
       PROVE  Reached(D, v, Span(c[1]), Span(c[2]), g)
  <2>1. Turn(k, c) # TurnOf(phase) /\ Turn(k, c) <= TurnOf(phase)
    BY <1>3, <1>10 DEF Turn
  <2>2. \A u \in Threads : \A i \in 1..Len(todo[u]) : todo[u][i] # c
    BY <2>1 DEF ListsInv
  <2>3. Reached(D, e, Span(c[1]), Span(c[2]), g)
    BY <1>7, <2>1, <2>2 DEF IsDone
  <2>4. v \in 0..e /\ e \in 0..n
    BY ONLY <1>4, <1>18
  <2>5. \A i, j \in 0..(n - 1) : g[<<i, j>>] <= g[<<i, j>>]
    <3>1. SUFFICES ASSUME NEW i \in 0..(n - 1), NEW j \in 0..(n - 1) PROVE g[<<i, j>>] <= g[<<i, j>>]
      OBVIOUS
    <3>2. g[<<i, j>>] \in 0..M
      BY <1>7 DEF Matrices, Cells
    <3>3. QED
      BY <1>2, <3>2
  <2>6. Span(c[1]) \in SUBSET (0..(n - 1)) /\ Span(c[2]) \in SUBSET (0..(n - 1))
    BY <1>6
  <2> PICK is, js : is = Span(c[1]) /\ js = Span(c[2])
    OBVIOUS
  <2>7. is \in SUBSET (0..(n - 1)) /\ js \in SUBSET (0..(n - 1)) /\ Reached(D, e, is, js, g)
        /\ g \in Matrices(n, M)
    BY <1>7, <2>3, <2>6
  <2>8. Reached(D, v, is, js, g)
    BY ONLY <1>2, <2>4, <2>5, <2>7, ReachedStays
  <2>9. QED
    BY <2>8
<1>11. Reached(D, v, Span(b[1]), {v}, g) /\ Reached(D, v, {v}, Span(b[2]), g)
  <2>1. b[1] \in 0..(num_blocks - 1) /\ b[2] \in 0..(num_blocks - 1)
    BY <1>3, BlockPair
  <2>2. Reached(D, v, Span(b[1]), Span(k), g)
    <3>1. CASE b[2] = k
      BY <1>9, <3>1
    <3>2. CASE b[2] # k
      <4>1. <<b[1], k>> \in Blocks
        BY <1>3, <2>1 DEF Blocks
      <4>2. Turn(k, <<b[1], k>>) < Turn(k, b)
        BY <3>2 DEF Turn
      <4>3. Reached(D, v, Span(<<b[1], k>>[1]), Span(<<b[1], k>>[2]), g)
        BY <1>10, <4>1, <4>2
      <4>4. QED
        BY <4>3
    <3>3. QED
      BY <3>1, <3>2
  <2>3. Reached(D, v, Span(k), Span(b[2]), g)
    <3>1. CASE b[1] = k
      BY <1>9, <3>1
    <3>2. CASE b[1] # k
      <4>1. <<k, b[2]>> \in Blocks
        BY <1>3, <2>1 DEF Blocks
      <4>2. Turn(k, <<k, b[2]>>) < Turn(k, b)
        BY <3>2 DEF Turn
      <4>3. Reached(D, v, Span(<<k, b[2]>>[1]), Span(<<k, b[2]>>[2]), g)
        BY <1>10, <4>1, <4>2
      <4>4. QED
        BY <4>3
    <3>3. QED
      BY <3>1, <3>2
  <2>4. QED
    BY <1>5, <2>2, <2>3 DEF Reached
<1>12. /\ h \in Matrices(n, M) /\ Between(D, s, e, n, h)
       /\ Reached(D, v + 1, Span(b[1]), Span(b[2]), h)
       /\ \A i, j \in 0..(n - 1) : h[<<i, j>>] <= g[<<i, j>>]
  <2>1. Span(b[1]) \in SUBSET (0..(n - 1)) /\ Span(b[2]) \in SUBSET (0..(n - 1))
    BY <1>3, <1>6
  <2> PICK is, js : is = Span(b[1]) /\ js = Span(b[2])
    OBVIOUS
  <2>2. /\ is \in SUBSET (0..(n - 1)) /\ js \in SUBSET (0..(n - 1)) /\ h = Relax(g, is \X js, v)
        /\ Reached(D, v, is, js, g) /\ Reached(D, v, is, {v}, g) /\ Reached(D, v, {v}, js, g)
    BY <1>8, <1>9, <1>11, <2>1
  <2>3. /\ h \in Matrices(n, M) /\ Between(D, s, e, n, h) /\ Reached(D, v + 1, is, js, h)
        /\ \A i, j \in 0..(n - 1) : h[<<i, j>>] <= g[<<i, j>>]
    BY ONLY <1>2, <1>4, <1>5, <1>7, <2>2, PassIs
  <2>4. QED
    BY <2>3
<1>13. ASSUME NEW x \in 0..n, NEW c \in Blocks, Reached(D, x, Span(c[1]), Span(c[2]), g)
       PROVE  Reached(D, x, Span(c[1]), Span(c[2]), h)
  <2> PICK is, js : is = Span(c[1]) /\ js = Span(c[2])
    OBVIOUS
  <2>1. /\ is \in SUBSET (0..(n - 1)) /\ js \in SUBSET (0..(n - 1)) /\ Reached(D, x, is, js, g)
        /\ x \in 0..n /\ x \in 0..x /\ g \in Matrices(n, M)
    BY <1>6, <1>7, <1>13
  <2>2. Reached(D, x, is, js, h)
    BY ONLY <1>2, <1>12, <2>1, ReachedStays
  <2>3. QED
    BY <2>2
<1>14. ASSUME NEW c \in Blocks, IsDone(c)'
       PROVE  Reached(D, e, Span(c[1]), Span(c[2]), h)
  <2>1. CASE IsDone(c)
    BY <1>4, <1>7, <1>13, <2>1
  <2>2. CASE ~IsDone(c)
    <3>1. Turn(k, c) <= TurnOf(phase)
      BY <1>1, <1>14 DEF IsDone
    <3>a. PICK u \in Threads : \E i \in 1..Len(todo[u]) : todo[u][i] = c
      BY <2>2, <3>1 DEF IsDone
    <3>2. PICK i \in 1..Len(todo[u]) : todo[u][i] = c
      BY <3>a
    <3>3. \A j \in 1..Len(todo'[u]) : todo'[u][j] # c
      BY <1>14 DEF IsDone
    <3>4. u = t /\ pass[t] + 1 = BlockDim(k)
      BY <1>3, <3>2, <3>3
    <3>5. i = 1
      <4>1. SUFFICES ASSUME i # 1 PROVE FALSE
        OBVIOUS
      <4>2. i - 1 \in 1..Len(todo'[t]) /\ (i - 1) + 1 = i
        BY <1>3, <3>2, <3>4, <4>1
      <4>3. QED
        BY <1>3, <3>2, <3>3, <3>4, <4>2
    <3>6. c = b /\ v + 1 = e
      <4>1. p + 1 = d
        BY <1>18, <3>4
      <4>2. v + 1 = e
        BY ONLY <1>4, <1>18, <4>1
      <4>3. QED
        BY <1>3, <3>2, <3>4, <3>5, <4>2
    <3>7. QED
      BY <1>12, <3>6
  <2>3. QED
    BY <2>1, <2>2
<1>15. ASSUME NEW u \in Threads, todo'[u] # <<>>
       PROVE  Reached(D, s + pass'[u], Span(Head(todo'[u])[1]), Span(Head(todo'[u])[2]), h)
  <2>1. Head(todo'[u]) \in Blocks
    <3>1. todo'[u] \in Seq(Blocks)
      <4>1. todo' \in [Threads -> Seq(Blocks)] /\ Blocks' = Blocks
        BY <1>1, PassLists, SameInput DEF ListsInv
      <4>2. QED
        BY <4>1
    <3>2. QED
      BY <1>15, <3>1
  <2>2. CASE u # t
    <3>1. todo'[u] = todo[u] /\ pass'[u] = pass[u]
      BY <1>3, <2>2
    <3>2. s + pass[u] \in 0..n
      <4>1. pass[u] \in Nat /\ pass[u] < d
        BY <1>15, <1>18, <3>1 DEF PassInv
      <4>2. QED
        BY ONLY <1>2, <1>4, <1>18, <4>1
    <3>3. QED
      BY <1>7, <1>13, <1>15, <2>1, <3>1, <3>2
  <2>3. CASE u = t /\ pass[t] + 1 # BlockDim(k)
    <3>1. todo'[u] = todo[t] /\ s + pass'[u] = v + 1
      <4>1. todo'[u] = todo[t] /\ pass'[u] = p + 1
        BY <1>3, <1>18, <2>3
      <4>2. s + (p + 1) = v + 1
        BY ONLY <1>4, <1>18
      <4>3. QED
        BY <4>1, <4>2
    <3>2. QED
      BY <1>12, <3>1
  <2>4. CASE u = t /\ pass[t] + 1 = BlockDim(k)
    <3>1. s + pass'[u] = s
      <4>1. pass'[u] = 0 /\ s \in Nat
        BY <1>3, <1>4, <2>4
      <4>2. QED
        BY <4>1
    <3>2. \A c \in Blocks : Reached(D, s, Span(c[1]), Span(c[2]), h)
      BY <1>6, <1>12 DEF Between, Reached
    <3>3. QED
      BY <2>1, <3>1, <3>2
  <2>5. QED
    BY <2>2, <2>3, <2>4
<1>16. RoundsMatch'
  <2>1. SUFFICES ASSUME phase = "pivot", pass'[Main] = 0, todo'[Main] # <<>> PROVE FALSE
    BY <1>1, <1>3 DEF RoundsMatch
  <2>2. Len(todo[t]) <= (IF t = Main THEN 1 ELSE 0)
    BY <2>1 DEF ListsInv
  <2>3. t = Main /\ Len(todo[t]) = 1
    <3> PICK l : l = Len(todo[t])
      OBVIOUS
    <3>1. l \in Nat \ {0} /\ l <= (IF t = Main THEN 1 ELSE 0)
      BY <1>3, <2>2
    <3>2. t = Main /\ l = 1
      BY ONLY <3>1
    <3>3. QED
      BY <3>2
  <2>4. pass[t] + 1 = BlockDim(k)
    BY <1>3, <2>1, <2>3
  <2>5. todo'[t] \in Seq(Blocks) /\ Len(todo'[t]) = 0
    BY <1>3, <2>3, <2>4
  <2>6. QED
    BY <2>1, <2>3, <2>5
<1>17. QED
  <2>1. /\ vertex_num' = n /\ Steps' = D /\ Start(k)' = s /\ Start(k + 1)' = e /\ Blocks' = Blocks
    BY <1>1, SameInput DEF Start
  <2>2. \A c \in 0..(num_blocks - 1) : Span(c)' = Span(c)
    BY <1>1, SameInput DEF Span, BlockPos, BlockDim
  <2>3. ASSUME NEW c \in Blocks
        PROVE  Span(c[1])' = Span(c[1]) /\ Span(c[2])' = Span(c[2])
    BY <2>2, BlockPair
  <2>4. \A c \in Blocks : IsDone(c)' => Reached(D, e, Span(c[1])', Span(c[2])', h)
    BY <1>14, <2>3
  <2>5. ASSUME NEW u \in Threads, todo'[u] # <<>>
        PROVE  Reached(D, s + pass'[u], Span(Head(todo[u])[1])', Span(Head(todo[u])[2])', h)
    <3>1. PICK c \in Blocks : c = Head(todo'[u])
      <4>1. todo' \in [Threads -> Seq(Blocks)] /\ Blocks' = Blocks
        BY <1>1, PassLists, SameInput DEF ListsInv
      <4>2. QED
        BY <2>5, <4>1
    <3>2. Reached(D, s + pass'[u], Span(c[1])', Span(c[2])', h)
      BY <1>15, <2>3, <2>5, <3>1
    <3>3. QED
      BY <3>1, <3>2
  <2>6. k' = k /\ phase' = phase /\ h = graph' /\ vertex_num' = n
    BY <1>1, <2>1
  <2>7. QED
    BY <1>12, <1>16, <2>1, <2>4, <2>5, <2>6 DEF MatrixInv

LEMMA BarrierRound ==
  ASSUME RoundInv, Barrier
  PROVE  RoundInv'
<1> USE DEF RoundInv
<1>1. /\ file' = file /\ graph' = graph /\ k' = k /\ pass' = pass
      /\ \A t \in Threads : todo[t] = <<>>
      /\ file \in Inputs
  BY DEF Barrier, PassInv
<1> PICK p : p = phase'
  OBVIOUS
<1>2. /\ phase \in {"pivot", "row", "col"} /\ p \in {"row", "col", "rest"}
      /\ TurnOf(p) = TurnOf(phase) + 1 /\ todo' = [t \in Threads |-> Share(p, k, t)]
      /\ phase # "done" /\ p # "done" /\ p # "pivot"
  <2>1. phase \in {"pivot", "row", "col"} /\ p = After[phase]
    BY DEF Barrier, After
  <2>2. \/ phase = "pivot" /\ p = "row"
        \/ phase = "row" /\ p = "col"
        \/ phase = "col" /\ p = "rest"
    BY <2>1 DEF After
  <2>3. todo' = [t \in Threads |-> Share(p, k, t)]
    BY <2>1 DEF Barrier
  <2>4. QED
    BY <2>2, <2>3 DEF TurnOf
<1>3. k \in 0..(num_blocks - 1)
  <2>1. num_blocks \in Nat /\ k \in 0..num_blocks /\ k # num_blocks
    BY <1>1, <1>2, BlocksAre DEF PassInv
  <2>2. QED
    BY <2>1
<1>4. /\ \A t \in Threads : Share(p, k, t) \in Seq(Blocks)
      /\ \A t \in Threads : \A j \in 1..Len(Share(p, k, t)) : Turn(k, Share(p, k, t)[j]) = TurnOf(p)
      /\ \A b \in Blocks : Turn(k, b) = TurnOf(p) =>
           \E t \in Threads : \E j \in 1..Len(Share(p, k, t)) : Share(p, k, t)[j] = b
      /\ \A t, u \in Threads : t # u =>
           \A i \in 1..Len(Share(p, k, t)), j \in 1..Len(Share(p, k, u)) :
             Share(p, k, t)[i] # Share(p, k, u)[j]
  <2> PICK r : r = k
    OBVIOUS
  <2>1. r \in 0..(num_blocks - 1)
    BY <1>3
  <2>2. QED
    BY <1>1, <1>2, <2>1, SharesAre
<1>5. \A t \in Threads : todo'[t] = Share(p, k, t)
  BY <1>2
<1>6. Blocks' = Blocks /\ block_size' = block_size /\ num_blocks' = num_blocks /\ Steps' = Steps
      /\ vertex_num' = vertex_num
  BY <1>1, SameInput
<1>7. ListsInv'
  <2>1. todo' \in [Threads -> Seq(Blocks)]
    BY <1>2, <1>4
  <2>2. \A t \in Threads : \A i \in 1..Len(todo'[t]) : Turn(k, todo'[t][i]) = TurnOf(p)
    BY <1>4, <1>5
  <2>3. \A t, u \in Threads : t # u =>
          \A i \in 1..Len(todo'[t]), j \in 1..Len(todo'[u]) : todo'[t][i] # todo'[u][j]
    BY <1>4, <1>5
  <2>4. QED
    BY <1>1, <1>2, <1>6, <2>1, <2>2, <2>3 DEF ListsInv
<1>8. PassInv'
  <2>1. BlockDim(k)' = BlockDim(k) /\ BlockDim(k) \in 1..block_size
    BY <1>1, <1>3, <1>6, BlockIs DEF BlockDim
  <2>2. \A t \in Threads : pass[t] = 0
    BY <1>1 DEF PassInv
  <2>3. num_blocks \in Nat
    BY <1>1, BlocksAre
  <2>4. QED
    BY <1>1, <1>2, <1>3, <1>6, <2>1, <2>2, <2>3 DEF PassInv
<1>9. MatrixInv'
  <2>1. /\ Start(k)' = Start(k) /\ Start(k + 1)' = Start(k + 1)
        /\ \A c \in Blocks : Span(c[1])' = Span(c[1]) /\ Span(c[2])' = Span(c[2])
    BY <1>1, <1>6 DEF Start, Span, BlockPos, BlockDim, vertex_num
  <2>2. /\ graph \in Matrices(vertex_num, DISINF)
        /\ Between(Steps, Start(k), Start(k + 1), vertex_num, graph)
        /\ \A b \in Blocks : IsDone(b) => Reached(Steps, Start(k + 1), Span(b[1]), Span(b[2]), graph)
    BY <1>2 DEF MatrixInv
  <2>3. ASSUME NEW b \in Blocks, IsDone(b)' PROVE IsDone(b)
    <3>1. Turn(k, b) <= TurnOf(p) /\ \A t \in Threads : \A i \in 1..Len(Share(p, k, t)) : Share(p, k, t)[i] # b
      BY <1>1, <1>5, <2>3 DEF IsDone
    <3>2. Turn(k, b) # TurnOf(p)
      BY <1>4, <3>1
    <3>3. Turn(k, b) \in Nat /\ TurnOf(phase) \in Nat
      BY DEF Turn, TurnOf
    <3>4. Turn(k, b) <= TurnOf(phase)
      BY <1>2, <3>1, <3>2, <3>3
    <3>5. \A t \in Threads : \A i \in 1..Len(todo[t]) : todo[t][i] # b
      BY <1>1
    <3>6. QED
      BY <3>4, <3>5 DEF IsDone
  <2>4. \A b \in Blocks : Reached(Steps, Start(k), Span(b[1]), Span(b[2]), graph)
    <3>1. ASSUME NEW b \in Blocks
          PROVE  Span(b[1]) \subseteq 0..(vertex_num - 1) /\ Span(b[2]) \subseteq 0..(vertex_num - 1)
      BY <1>1, BlockIs, BlockPair
    <3>2. QED
      BY <2>2, <3>1 DEF Between, Reached
  <2>5. ASSUME NEW t \in Threads, todo'[t] # <<>>
        PROVE  Reached(Steps, Start(k) + pass[t], Span(Head(todo[t])[1])', Span(Head(todo[t])[2])', graph)
    <3>1. PICK b \in Blocks : b = Head(todo'[t])
      BY <1>4, <1>5, <2>5
    <3>2. Start(k) + pass[t] = Start(k)
      <4>1. pass[t] = 0 /\ Start(k) \in Nat
        BY <1>1, <1>3, BlockIs DEF PassInv
      <4>2. QED
        BY <4>1
    <3>3. Reached(Steps, Start(k) + pass[t], Span(b[1])', Span(b[2])', graph)
      BY <2>1, <2>4, <3>2
    <3>4. QED
      BY <3>1, <3>3
  <2>6. RoundsMatch'
    BY <1>2 DEF RoundsMatch
  <2>7. \A b \in Blocks : IsDone(b)' => Reached(Steps, Start(k + 1), Span(b[1])', Span(b[2])', graph)
    BY <2>1, <2>2, <2>3
  <2>8. QED
    BY <1>1, <1>6, <2>1, <2>2, <2>5, <2>6, <2>7 DEF MatrixInv
<1>10. QED
  BY <1>7, <1>8, <1>9

\* All blocks are done: the matrix is that of the round's end.
LEMMA RoundEnds ==
  ASSUME RoundInv, phase = "rest", \A t \in Threads : todo[t] = <<>>
  PROVE  graph = Steps[Start(k + 1)] /\ k \in 0..(num_blocks - 1)
<1> USE DEF RoundInv
<1>1. file \in Inputs
  BY DEF PassInv
<1>2. k \in 0..(num_blocks - 1)
  <2>1. num_blocks \in Nat /\ k \in 0..num_blocks /\ k # num_blocks
    BY <1>1, BlocksAre DEF PassInv
  <2>2. QED
    BY <2>1
<1> PICK n, D, M, w, e, g : /\ n = vertex_num /\ D = Steps /\ M = DISINF /\ w = omp_buf2graph(file)
                            /\ e = Start(k + 1) /\ g = graph
  OBVIOUS
<1>3. n \in Nat /\ M \in Nat /\ IsSteps(D, w, n, M) /\ e \in 0..n
  BY <1>1, <1>2, BlocksAre, BlockIs, StepsOfInput, SizesAssumption
<1>4. /\ g \in Matrices(n, M) /\ Between(D, Start(k), e, n, g)
      /\ \A b \in Blocks : IsDone(b) => Reached(D, e, Span(b[1]), Span(b[2]), g)
  BY DEF MatrixInv
<1>5. ASSUME NEW b \in Blocks PROVE Reached(D, e, Span(b[1]), Span(b[2]), g)
  <2>1. IsDone(b)
    BY DEF IsDone, Turn, TurnOf
  <2>2. QED
    BY <1>4, <2>1
<1>6. D[e] \in Matrices(n, M)
  BY <1>3 DEF IsSteps
<1>7. ASSUME NEW i \in 0..(n - 1), NEW j \in 0..(n - 1) PROVE g[<<i, j>>] = D[e][<<i, j>>]
  <2>1. PICK x \in 0..(num_blocks - 1) : i \in Span(x)
    BY <1>1, BlocksCover
  <2>2. PICK y \in 0..(num_blocks - 1) : j \in Span(y)
    BY <1>1, BlocksCover
  <2>3. <<x, y>> \in Blocks /\ <<x, y>>[1] = x /\ <<x, y>>[2] = y
    BY DEF Blocks
  <2>4. Reached(D, e, Span(x), Span(y), g)
    BY <1>5, <2>3
  <2>5. g[<<i, j>>] <= D[e][<<i, j>>] /\ D[e][<<i, j>>] <= g[<<i, j>>]
    BY <1>4, <2>1, <2>2, <2>4 DEF Reached, Between
  <2>6. g[<<i, j>>] \in 0..M /\ D[e][<<i, j>>] \in 0..M
    BY <1>4, <1>6 DEF Matrices, Cells
  <2>7. QED
    BY <1>3, <2>5, <2>6
<1>8. g = D[e]
  <2>1. \A c \in Cells(n) : g[c] = D[e][c]
    BY <1>7 DEF Cells
  <2>2. QED
    BY <1>4, <1>6, <2>1 DEF Matrices
<1>9. QED
  BY <1>2, <1>8

LEMMA NextRoundRound ==
  ASSUME RoundInv, NextRound
  PROVE  RoundInv'
<1> USE DEF RoundInv
<1>1. /\ file' = file /\ graph' = graph /\ k' = k + 1 /\ pass' = pass
      /\ phase = "rest" /\ \A t \in Threads : todo[t] = <<>>
      /\ file \in Inputs
  BY DEF NextRound, PassInv
<1> PICK r, nb : r = k + 1 /\ nb = num_blocks
  OBVIOUS
<1> PICK D, s, n : D = Steps /\ s = Start(r) /\ n = vertex_num
  OBVIOUS
<1>2. graph = D[s] /\ k \in 0..(nb - 1)
  BY <1>1, RoundEnds
<1>3. nb \in Nat \ {0} /\ r \in 1..nb /\ k' = r /\ Start(nb) = n /\ n \in Nat
  BY <1>1, <1>2, BlocksAre
<1>4. /\ Blocks' = Blocks /\ block_size' = block_size /\ num_blocks' = nb /\ Steps' = D
      /\ vertex_num' = n
  BY <1>1, SameInput
<1>5. /\ todo \in [Threads -> Seq(Blocks)] /\ graph \in Matrices(n, DISINF)
      /\ pass \in [Threads -> 0..(block_size - 1)] /\ \A t \in Threads : pass[t] = 0
  BY <1>1 DEF ListsInv, PassInv, MatrixInv
<1>6. Main \in Threads
  BY SizesAssumption DEF Main, Threads
<1>7. Lesser(k * block_size, vertex_num)' = s
  <2>1. s = Lesser(r * block_size, vertex_num)
    BY DEF Start
  <2>2. QED
    BY <1>3, <1>4, <2>1
<1>8. CASE r < nb
  <2>1. /\ phase' = "pivot" /\ todo' = [todo EXCEPT ![Main] = <<<<r, r>>>>] /\ r \in 0..(nb - 1)
    BY <1>1, <1>3, <1>8 DEF NextRound
  <2>2. <<r, r>> \in Blocks /\ <<<<r, r>>>> \in Seq(Blocks) /\ Turn(r, <<r, r>>) = 0
    BY <2>1 DEF Blocks, Turn
  <2>3. \A t \in Threads : todo'[t] = IF t = Main THEN <<<<r, r>>>> ELSE <<>>
    BY <1>1, <1>5, <2>1
  <2>4. ListsInv'
    <3>1. todo' \in [Threads -> Seq(Blocks)]
      BY <1>5, <2>1, <2>2
    <3>2. \A t \in Threads : \A i \in 1..Len(todo'[t]) : t = Main /\ todo'[t][i] = <<r, r>>
      BY <2>3
    <3>3. \A t \in Threads : Len(todo'[t]) <= (IF t = Main THEN 1 ELSE 0)
      BY <2>3
    <3>4. QED
      BY <1>3, <1>4, <2>1, <2>2, <3>1, <3>2, <3>3 DEF ListsInv, TurnOf
  <2>5. /\ s \in 0..(n - 1) /\ Start(r + 1) \in 0..n /\ BlockDim(r) \in Nat \ {0}
        /\ Span(r) \subseteq 0..(n - 1)
    <3>1. block_size \in Nat
      BY <1>1, BlocksAre
    <3>2. r \in 0..(num_blocks - 1)
      BY <2>1
    <3>3. /\ Start(r) \in 0..(vertex_num - 1) /\ Start(r + 1) \in 1..vertex_num
          /\ BlockDim(r) \in 1..block_size /\ Span(r) \subseteq 0..(vertex_num - 1)
      BY <1>1, <3>2, BlockIs
    <3>4. QED
      BY <1>3, <3>1, <3>3
  <2>6. BlockDim(r)' = BlockDim(r) /\ Span(r)' = Span(r) /\ Start(r)' = s /\ Start(r + 1)' = Start(r + 1)
    BY <1>1, <1>4 DEF BlockDim, Span, BlockPos, Start, vertex_num
  <2>7. PassInv'
    <3>1. BlockDim(k)' = BlockDim(r)
      BY <1>3, <2>6
    <3>2. QED
      BY <1>1, <1>3, <1>4, <1>5, <1>8, <2>1, <2>5, <3>1 DEF PassInv
  <2> PICK e, g, M, w : e = Start(r + 1) /\ g = graph /\ M = DISINF /\ w = omp_buf2graph(file)
    OBVIOUS
  <2>8. IsSteps(D, w, n, M) /\ M \in Nat /\ g = D[s]
    BY <1>1, <1>2, StepsOfInput, SizesAssumption
  <2>9. ASSUME NEW i \in 0..(n - 1), NEW j \in 0..(n - 1)
        PROVE  D[e][<<i, j>>] <= g[<<i, j>>] /\ g[<<i, j>>] <= D[s][<<i, j>>]
    <3>1. s \in 0..n /\ e \in s..n
      <4> PICK d : d = BlockDim(r)
        OBVIOUS
      <4>1. Start(r) + BlockDim(r) = Start(r + 1)
        BY <1>1, <2>1, BlockIs
      <4>2. s + d = e /\ s \in 0..(n - 1) /\ e \in 0..n /\ d \in Nat \ {0}
        BY <2>5, <4>1
      <4>3. QED
        BY ONLY <1>3, <4>2
    <3>2. D[e][<<i, j>>] <= D[s][<<i, j>>] /\ D[s][<<i, j>>] \in 0..M
      BY <1>3, <2>8, <3>1, StepsDecrease, StepsTypes
    <3>3. QED
      BY <2>8, <3>2
  <2>10. Between(D, s, e, n, g)
    BY <2>9 DEF Between
  <2>11. ASSUME NEW b \in Blocks, IsDone(b)' PROVE FALSE
    <3>1. Turn(r, b) <= 0
      BY <1>3, <2>1, <2>11 DEF IsDone, TurnOf
    <3>2. b = <<r, r>>
      BY <3>1 DEF Turn, Blocks
    <3>3. Len(todo'[Main]) = 1 /\ todo'[Main][1] = <<r, r>>
      BY <1>6, <2>3
    <3>4. QED
      BY <1>6, <2>11, <3>2, <3>3 DEF IsDone
  <2>12. ASSUME NEW t \in Threads, todo'[t] # <<>>
         PROVE  Reached(D, s + pass[t], Span(Head(todo[t])[1])', Span(Head(todo[t])[2])', g)
    <3>1. Head(todo'[t])[1] = r /\ Head(todo'[t])[2] = r
      BY <2>3, <2>12
    <3>2. s + pass[t] = s
      BY <1>5, <2>5
    <3>3. \A i, j \in Span(r) : g[<<i, j>>] <= D[s][<<i, j>>]
      BY <2>5, <2>9
    <3>4. Reached(D, s, Span(r)', Span(r)', g)
      BY <2>6, <3>3 DEF Reached
    <3>5. QED
      BY <3>1, <3>2, <3>4
  <2>13. RoundsMatch'
    BY <1>1, <1>2, <1>4, <1>7 DEF RoundsMatch, Steps
  <2>14. MatrixInv'
    <3>1. Start(k)' = s /\ Start(k + 1)' = e
      BY <1>3, <2>6
    <3>2. QED
      BY <1>1, <1>4, <1>5, <2>10, <2>11, <2>12, <2>13, <3>1 DEF MatrixInv
  <2>15. QED
    BY <2>4, <2>7, <2>14
<1>9. CASE r = nb
  <2>1. phase' = "done" /\ todo' = todo
    BY <1>1, <1>3, <1>9 DEF NextRound
  <2>2. ListsInv'
    BY <1>1, <1>4, <1>5, <2>1 DEF ListsInv
  <2>3. PassInv'
    BY <1>1, <1>3, <1>4, <1>5, <1>9, <2>1 DEF PassInv
  <2>4. RoundsMatch'
    BY <1>1, <1>2, <1>4, <1>7 DEF RoundsMatch, Steps
  <2>5. MatrixInv'
    BY <1>1, <1>4, <1>5, <2>1, <2>4 DEF MatrixInv
  <2>6. QED
    BY <2>2, <2>3, <2>5
<1>10. QED
  BY <1>3, <1>8, <1>9

LEMMA RoundInvStep == RoundInv /\ [Next]_vars => RoundInv'
<1> SUFFICES ASSUME RoundInv, [Next]_vars PROVE RoundInv'
  OBVIOUS
<1>1. CASE \E t \in Threads : Pass(t)
  BY <1>1, PassLists, PassMatrix DEF RoundInv
<1>2. CASE Barrier
  BY <1>2, BarrierRound
<1>3. CASE NextRound
  BY <1>3, NextRoundRound
<1>4. CASE UNCHANGED vars
  <2>1. /\ file' = file /\ graph' = graph /\ k' = k /\ phase' = phase /\ todo' = todo /\ pass' = pass
    BY <1>4 DEF vars
  <2>2. QED
    BY <2>1 DEF RoundInv, ListsInv, PassInv, MatrixInv, RoundsMatch, IsDone, Steps, Start, Span,
                BlockPos, BlockDim, Blocks, num_blocks, block_size, vertex_num
<1>5. QED
  BY <1>1, <1>2, <1>3, <1>4 DEF Next, Finished

LEMMA SpecRound == Spec => []RoundInv
<1>1. Init => RoundInv
  BY InitRound
<1>2. RoundInv /\ [Next]_vars => RoundInv'
  BY RoundInvStep
<1>3. QED
  BY <1>1, <1>2, PTL DEF Spec

-----------------------------------------------------------------------------
(* The theorems.                                                           *)

\* Every entry is a distance or DISINF, whatever the threads do, and a thread
\* is never given a block that is not there: get_block_pos and get_block_size
\* fit for the residual blocks too.
THEOREM TypesAreCorrect == Spec => []TypeOK
<1>1. RoundInv => TypeOK
  <2>1. SUFFICES ASSUME RoundInv PROVE TypeOK
    OBVIOUS
  <2>2. QED
    BY <2>1 DEF RoundInv, ListsInv, PassInv, MatrixInv, TypeOK, Matrices
<1>2. QED
  BY <1>1, SpecRound, PTL

\* No thread of a team writes, in relax_block, a block that another reads or
\* writes before the barrier of their loop, for every number of threads.
THEOREM TeamsDoNotConflict == Spec => []NoConflict
<1>1. RoundInv => NoConflict
  <2>1. SUFFICES ASSUME RoundInv, NEW t \in Threads, NEW u \in Threads, t # u,
                        NEW i \in DOMAIN todo[t], NEW j \in DOMAIN todo[u]
                 PROVE  todo[t][i] \notin Reads(todo[u][j])
    BY DEF NoConflict
  <2> PICK a, b : a = todo[t][i] /\ b = todo[u][j]
    OBVIOUS
  <2>2. todo[t] \in Seq(Blocks) /\ todo[u] \in Seq(Blocks)
    BY <2>1 DEF RoundInv, ListsInv
  <2>3. i \in 1..Len(todo[t]) /\ j \in 1..Len(todo[u])
    BY <2>2
  <2>4. a # b /\ Turn(k, a) = TurnOf(phase) /\ Turn(k, b) = TurnOf(phase) /\ a \in Blocks /\ b \in Blocks
    BY <2>1, <2>2, <2>3 DEF RoundInv, ListsInv
  <2>5. a = <<a[1], a[2]>> /\ b = <<b[1], b[2]>>
    BY <2>4, BlockPair
  <2>6. a # <<b[1], k>>
    <3>1. SUFFICES ASSUME a[1] = b[1], a[2] = k PROVE FALSE
      BY <2>5
    <3>2. b[2] = k
      BY <2>4, <3>1 DEF Turn
    <3>3. QED
      BY <2>4, <2>5, <3>1, <3>2
  <2>7. a # <<k, b[2]>>
    <3>1. SUFFICES ASSUME a[1] = k, a[2] = b[2] PROVE FALSE
      BY <2>5
    <3>2. b[1] = k
      BY <2>4, <3>1 DEF Turn
    <3>3. QED
      BY <2>4, <2>5, <3>1, <3>2
  <2>8. QED
    BY <2>4, <2>6, <2>7 DEF Reads
<1>2. QED
  BY <1>1, SpecRound, PTL

\* However the threads interleave, a round of block_floyd_warshall does what
\* block_size steps of the algorithm without blocks do, the residual block's
\* round included; for every graph, block size and number of threads.
THEOREM RoundsAreSteps == Spec => []RoundsMatch
<1>1. RoundInv => RoundsMatch
  BY DEF RoundInv, MatrixInv
<1>2. QED
  BY <1>1, SpecRound, PTL
\* The output of hw3 is the distances: what verify.sh compares it with, for every
\* graph of the input format, block size, number of threads and interleaving.
THEOREM OutputIsTheDistances == Spec => []Distances
<1>1. RoundInv => Distances
  <2>1. SUFFICES ASSUME RoundInv, phase = "done"
                 PROVE  graph = ShortestPaths(Weights, vertex_num, DISINF)
    BY DEF Distances
  <2> PICK n, M, w : n = vertex_num /\ M = DISINF /\ w = Weights
    OBVIOUS
  <2>2. file \in Inputs /\ k = num_blocks
    BY <2>1 DEF RoundInv, PassInv
  <2>3. n \in Nat \ {0} /\ Start(num_blocks) = n /\ M \in Nat
    BY <2>2, BlocksAre, SizesAssumption
  <2>4. graph = FloydWarshallSteps(omp_buf2graph(file), n)[n]
    BY <2>1, <2>2, <2>3 DEF RoundInv, MatrixInv, RoundsMatch, Start
  <2>5. omp_buf2graph(file) = Edges(w, n) /\ omp_buf2graph(file) \in Matrices(n, M)
    BY <2>2, InputIsEdges, InputMatrix
  <2>6. FloydWarshallSteps(Edges(w, n), n)[n] = ShortestPaths(w, n, M)
    BY <2>3, <2>5, StepsAreDistances
  <2>7. QED
    BY <2>4, <2>5, <2>6
<1>2. QED
  BY <1>1, SpecRound, PTL
=============================================================================
