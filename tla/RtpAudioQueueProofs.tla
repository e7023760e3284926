------------------------ MODULE RtpAudioQueueProofs -------------------------
(***************************************************************************)
(* Proofs about RtpAudioQueue, for any shard counts, sequence space and    *)
(* first number, and a network as late and as lossy as one likes.          *)
(*                                                                         *)
(* The properties are claimed until a queue that is in use is taken for    *)
(* one that was never started (restarted): that is the only thing that can *)
(* go wrong.  The theorems assume nothing but the specification.           *)
(*                                                                         *)
(* AudioInv carries them.  It measures every number by its distance ahead  *)
(* of oldestRtpBaseSequenceNumber: what is accepted lies less than half of *)
(* the numbers ahead, where isBefore16() is an order, so the list can be   *)
(* sorted by it; and only the block right at that number, if there is one, *)
(* has been played from.  No bound on lateness or loss is needed.          *)
(***************************************************************************)
EXTENDS RtpAudioQueue, FiniteSetTheorems, SequenceTheorems, TLAPS

Half == SeqModulus \div 2

\* How far a sequence number lies ahead of another one.
Ahead(o, x) == (x - o) % SeqModulus

\* Blocks start at the multiples of DataShards.
OnGrid(x) == x % DataShards = 0

Block == [base : SeqNumber, received : SUBSET Shard, fullyReassembled : BOOLEAN,
          nextDataPacketIndex : 0..(DataShards - 1), allowDiscontinuity : BOOLEAN]
Queue == [blocks : Seq(Block), nextRtpSequenceNumber : SeqNumber,
          oldestRtpBaseSequenceNumber : SeqNumber, lastOosSequenceNumber : SeqNumber,
          receivedOosData : BOOLEAN, synchronizing : BOOLEAN]
Output == [seq : SeqNumber, kind : {"none", "sent", "recovered", "lost"}]

\* Blocks start on the grid, less than half of the numbers ahead.
Placed(q) ==
  /\ OnGrid(q.oldestRtpBaseSequenceNumber)
  /\ \A n \in 1..Len(q.blocks) :
       /\ OnGrid(q.blocks[n].base)
       /\ Ahead(q.oldestRtpBaseSequenceNumber, q.blocks[n].base) < Half

Sorted(q) ==
  \A m, n \in 1..Len(q.blocks) :
    m < n => Ahead(q.oldestRtpBaseSequenceNumber, q.blocks[m].base)
               < Ahead(q.oldestRtpBaseSequenceNumber, q.blocks[n].base)

\* Only the block that starts at the oldest number can have been played from.
CursorAt(q) ==
  /\ \A n \in 1..Len(q.blocks) :
       IF q.blocks[n].base = q.oldestRtpBaseSequenceNumber
       THEN q.nextRtpSequenceNumber = q.oldestRtpBaseSequenceNumber + q.blocks[n].nextDataPacketIndex
       ELSE q.blocks[n].nextDataPacketIndex = 0 /\ ~q.blocks[n].allowDiscontinuity
  /\ (\A n \in 1..Len(q.blocks) : q.blocks[n].base # q.oldestRtpBaseSequenceNumber) =>
       q.nextRtpSequenceNumber = q.oldestRtpBaseSequenceNumber

\* What the marks of a block say; and a block is given up for another one.
Marked(q) ==
  \A n \in 1..Len(q.blocks) :
    /\ q.blocks[n].received # {}
    /\ q.blocks[n].fullyReassembled => Cardinality(q.blocks[n].received) >= DataShards
    /\ q.blocks[n].allowDiscontinuity => Len(q.blocks) > 1

ListInv(q) == q \in Queue /\ Placed(q) /\ Sorted(q) /\ CursorAt(q) /\ Marked(q)

\* The arrivals that can still be played are the shards received.
Heard(q, A) ==
  /\ A \subseteq SeqNumber \X Shard
  /\ \A n \in 1..Len(q.blocks) : \A i \in q.blocks[n].received : <<q.blocks[n].base, i>> \in A
  /\ \A x \in A :
       \/ Before(x[1], q.oldestRtpBaseSequenceNumber)
       \/ \E n \in 1..Len(q.blocks) : q.blocks[n].base = x[1] /\ x[2] \in q.blocks[n].received

\* What was played last is right before what is due, or before what was skipped;
\* after that, the block skipped to must be played first.
Behind(q, o) ==
  o.kind # "none" =>
    /\ Ahead(o.seq, q.nextRtpSequenceNumber) \in 1..Half
    /\ \/ Ahead(o.seq, q.nextRtpSequenceNumber) = 1
       \/ \E n \in 1..Len(q.blocks) : q.blocks[n].base = q.oldestRtpBaseSequenceNumber

AudioInv ==
  /\ ListInv(queue) /\ Heard(queue, arrived) /\ Behind(queue, output)
  /\ pulling \in BOOLEAN /\ newest \in 1..MaxBlock /\ output \in Output
  /\ restarted \in BOOLEAN
  /\ Unstarted /\ queue.blocks = <<>> => output.kind = "none"

-----------------------------------------------------------------------------
\* Arithmetic: a remainder near the modulus, the uniqueness of quotient and
\* remainder, and their values.
LEMMA Modulo ==
  ASSUME NEW M \in Nat \ {0}, NEW x \in Int
  PROVE  /\ x % M \in 0..(M - 1)
         /\ 0 <= x /\ x < M => x % M = x
         /\ x < 0 /\ x + M >= 0 => x % M = x + M
         /\ x >= M /\ x < 2 * M => x % M = x - M
OBVIOUS

LEMMA Division ==
  ASSUME NEW M \in Nat \ {0}, NEW a \in Int, NEW b \in Int, NEW r \in 0..(M - 1), NEW s \in 0..(M - 1),
         M * a + r = M * b + s
  PROVE  a = b /\ r = s
<1>1. ASSUME NEW c \in Int, NEW d \in Int, c < d PROVE M * d >= M * c + M
  <2>1. M * (d - c - 1) >= 0
    BY <1>1
  <2> QED BY <2>1
<1> QED BY <1>1

LEMMA Remainder ==
  ASSUME NEW M \in Nat \ {0}, NEW a \in Int, NEW r \in 0..(M - 1)
  PROVE  (M * a + r) % M = r /\ (M * a + r) \div M = a
<1> DEFINE x == M * a + r
<1>1. x \in Int /\ x = M * (x \div M) + (x % M) /\ x % M \in 0..(M - 1) /\ x \div M \in Int
  OBVIOUS
<1> QED BY <1>1, Division

\* The multiples of a number: their quotients, sums, differences and distance.
LEMMA Multiple ==
  ASSUME NEW M \in Nat \ {0}, NEW x \in Int
  PROVE  x % M = 0 <=> \E a \in Int : x = M * a
<1>1. x \in Int /\ x = M * (x \div M) + (x % M) /\ x \div M \in Int /\ x % M \in Int
  OBVIOUS
<1>2. x % M = 0 => x = M * (x \div M)
  BY <1>1
<1>3. ASSUME NEW a \in Int, x = M * a PROVE x % M = 0
  BY <1>3, Remainder, 0 \in 0..(M - 1), x = M * a + 0
<1> QED BY <1>1, <1>2, <1>3

LEMMA Multiples ==
  ASSUME NEW M \in Nat \ {0}, NEW x \in Int, NEW y \in Int, x % M = 0, y % M = 0
  PROVE  (x + y) % M = 0 /\ (x - y) % M = 0 /\ (x > y => x >= y + M) /\ (x > 0 => x >= M)
<1>1. PICK a \in Int : x = M * a
  BY Multiple
<1>2. PICK b \in Int : y = M * b
  BY Multiple
<1>3. x + y = M * (a + b) /\ x - y = M * (a - b)
  BY <1>1, <1>2
<1>4. (x + y) % M = 0 /\ (x - y) % M = 0
  BY <1>3, Multiple, a + b \in Int, a - b \in Int, x + y \in Int, x - y \in Int
<1>5. ASSUME x > y PROVE x >= y + M
  <2>1. a > b
    <3>1. CASE a <= b
      <4>1. M * (b - a) >= 0
        BY <3>1
      <4> QED BY <1>1, <1>2, <1>5, <4>1
    <3> QED BY <3>1
  <2>2. M * (a - b - 1) >= 0
    BY <2>1
  <2> QED BY <1>1, <1>2, <2>2
<1>6. ASSUME x > 0 PROVE x >= M
  <2>1. a > 0
    <3>1. CASE a <= 0
      <4>1. M * (0 - a) >= 0
        BY <3>1
      <4> QED BY <1>1, <1>6, <4>1
    <3> QED BY <3>1
  <2>2. M * (a - 1) >= 0
    BY <2>1
  <2> QED BY <1>1, <2>2
<1> QED BY <1>4, <1>5, <1>6

\* What the assumption says of the constants, with and without the multiples.
LEMMA Constants ==
  /\ SeqModulus \in Nat \ {0} /\ DataShards \in Nat \ {0} /\ FecShards \in Nat
  /\ SeqNumber = 0..(SeqModulus - 1) /\ FirstSeq \in SeqNumber /\ FirstSeq % DataShards = 0
  /\ Half \in Nat /\ SeqModulus = 2 * Half /\ DataShards <= Half
  /\ Half % DataShards = 0 /\ SeqModulus % DataShards = 0
  /\ MaxBlock \in Nat \ {0}
<1>1. /\ SeqModulus \in Nat \ {0} /\ DataShards \in Nat \ {0} /\ FecShards \in Nat /\ MaxBlock \in Nat \ {0}
      /\ SeqNumber = 0..(SeqModulus - 1) /\ FirstSeq \in SeqNumber /\ FirstSeq % DataShards = 0
      /\ SeqModulus % (2 * DataShards) = 0
  BY RtpAudioQueueAssumption DEF SeqNumber
<1>2. PICK t \in Nat \ {0} : t = 2 * DataShards /\ SeqModulus % t = 0
  BY <1>1
<1>3. PICK k \in Int : DataShards * k \in Int /\ SeqModulus = 2 * (DataShards * k)
  <2>1. PICK k \in Int : SeqModulus = t * k
    <3>1. SeqModulus \in Int
      BY <1>1
    <3>2. SeqModulus % t = 0 <=> \E k \in Int : SeqModulus = t * k
      BY <3>1, Multiple, Zenon
    <3> QED BY <1>2, <3>2, Zenon
  <2>2. \A d \in Int : (2 * d) * k = 2 * (d * k) /\ d * k \in Int
    OBVIOUS
  <2> QED BY <1>1, <1>2, <2>1, <2>2
<1>4. Half = DataShards * k
  BY <1>3 DEF Half
<1>5. Half % DataShards = 0
  BY <1>1, <1>3, <1>4, Multiple
<1>6. Half > 0
  BY <1>1, <1>3, <1>4
<1>7. DataShards <= Half
  BY <1>1, <1>3, <1>4, <1>5, <1>6, Multiples
<1>8. SeqModulus % DataShards = 0
  <2>1. SeqModulus = Half + Half
    BY <1>3, <1>4
  <2> QED BY <1>1, <1>3, <1>4, <1>5, <2>1, Multiples
<1> QED BY <1>1, <1>3, <1>4, <1>5, <1>6, <1>7, <1>8

LEMMA Sizes ==
  /\ SeqModulus \in Nat \ {0} /\ DataShards \in Nat \ {0} /\ FecShards \in Nat
  /\ SeqNumber = 0..(SeqModulus - 1) /\ FirstSeq \in SeqNumber
  /\ Half \in Nat /\ SeqModulus = 2 * Half /\ DataShards <= Half
  /\ MaxBlock \in Nat \ {0}
BY Constants

LEMMA Wrap ==
  ASSUME NEW x \in Int
  PROVE  /\ x % SeqModulus \in SeqNumber
         /\ 0 <= x /\ x < SeqModulus => x % SeqModulus = x
         /\ x < 0 /\ x + SeqModulus >= 0 => x % SeqModulus = x + SeqModulus
         /\ x >= SeqModulus /\ x < 2 * SeqModulus => x % SeqModulus = x - SeqModulus
BY Sizes, Modulo

LEMMA Grids ==
  ASSUME NEW x \in Int, NEW y \in Int, OnGrid(x), OnGrid(y)
  PROVE  OnGrid(x + y) /\ OnGrid(x - y) /\ (x > y => x >= y + DataShards) /\ (x > 0 => x >= DataShards)
<1>1. DataShards \in Nat \ {0}
  BY Sizes
<1> QED BY <1>1, Multiples, Zenon DEF OnGrid

LEMMA GridSizes ==
  OnGrid(FirstSeq) /\ OnGrid(SeqModulus) /\ OnGrid(Half) /\ OnGrid(DataShards) /\ OnGrid(0)
<1>1. DataShards \in Nat \ {0}
  BY Sizes
<1>2. \A M \in Nat \ {0} : M % M = 0 /\ 0 % M = 0
  <2>1. ASSUME NEW M \in Nat \ {0} PROVE M % M = 0 /\ 0 % M = 0
    <3>1. M = M * 1 /\ 0 = M * 0
      OBVIOUS
    <3>2. M * 1 + 0 = M /\ M * 0 + 0 = 0 /\ 0 \in 0..(M - 1)
      OBVIOUS
    <3> QED BY <3>2, Remainder
  <2> QED BY <2>1
<1> QED BY <1>1, <1>2, Constants DEF OnGrid

-----------------------------------------------------------------------------
(***************************************************************************)
(* Sequence numbers as distances ahead of a number o.                      *)
(***************************************************************************)
LEMMA AheadValue ==
  ASSUME NEW o \in SeqNumber, NEW x \in SeqNumber
  PROVE  Ahead(o, x) = IF x >= o THEN x - o ELSE x - o + SeqModulus
<1>1. x - o \in Int /\ x - o < SeqModulus /\ x - o + SeqModulus >= 0 /\ (x - o >= 0 <=> x >= o)
  BY Sizes
<1> QED BY <1>1, Wrap DEF Ahead

LEMMA AheadType ==
  ASSUME NEW o \in SeqNumber, NEW x \in SeqNumber
  PROVE  Ahead(o, x) \in SeqNumber /\ Ahead(o, x) \in Nat /\ (Ahead(o, x) = 0 <=> x = o)
<1>1. Ahead(o, x) = IF x >= o THEN x - o ELSE x - o + SeqModulus
  BY AheadValue
<1> QED BY <1>1, Sizes

\* Seen from a number in between.
LEMMA AheadMoves ==
  ASSUME NEW o \in SeqNumber, NEW x \in SeqNumber, NEW y \in SeqNumber,
         Ahead(o, x) <= Ahead(o, y)
  PROVE  Ahead(x, y) = Ahead(o, y) - Ahead(o, x)
<1>1. /\ Ahead(o, x) = IF x >= o THEN x - o ELSE x - o + SeqModulus
      /\ Ahead(o, y) = IF y >= o THEN y - o ELSE y - o + SeqModulus
      /\ Ahead(x, y) = IF y >= x THEN y - x ELSE y - x + SeqModulus
  BY AheadValue
<1> QED BY <1>1, Sizes

LEMMA AheadApart ==
  ASSUME NEW o \in SeqNumber, NEW x \in SeqNumber, NEW y \in SeqNumber
  PROVE  /\ Ahead(o, x) = Ahead(o, y) => x = y
         /\ Ahead(o, x) < Ahead(o, y) => Ahead(y, x) = SeqModulus - (Ahead(o, y) - Ahead(o, x))
<1>1. /\ Ahead(o, x) = IF x >= o THEN x - o ELSE x - o + SeqModulus
      /\ Ahead(o, y) = IF y >= o THEN y - o ELSE y - o + SeqModulus
      /\ Ahead(y, x) = IF x >= y THEN x - y ELSE x - y + SeqModulus
  BY AheadValue
<1> QED BY <1>1, Sizes

LEMMA BeforeIs ==
  ASSUME NEW x \in SeqNumber, NEW y \in SeqNumber
  PROVE  Before(x, y) <=> Ahead(y, x) >= Half
BY DEF Before, Ahead, Half

\* isBefore16() orders what is less than half of the numbers ahead.
LEMMA Order ==
  ASSUME NEW o \in SeqNumber, NEW x \in SeqNumber, NEW y \in SeqNumber,
         Ahead(o, x) < Half, Ahead(o, y) < Half
  PROVE  Before(x, y) <=> Ahead(o, x) < Ahead(o, y)
<1>1. /\ Ahead(o, x) \in Nat /\ Ahead(o, y) \in Nat
      /\ Half \in Nat /\ SeqModulus = 2 * Half
  BY AheadType, Sizes
<1>2. CASE Ahead(o, x) < Ahead(o, y)
  BY <1>1, <1>2, AheadApart, BeforeIs
<1>3. CASE ~(Ahead(o, x) < Ahead(o, y))
  BY <1>1, <1>3, AheadMoves, BeforeIs
<1> QED BY <1>2, <1>3

\* The starts of blocks are multiples of DataShards apart.
LEMMA GridSteps ==
  ASSUME NEW o \in SeqNumber, NEW x \in SeqNumber, OnGrid(o), OnGrid(x)
  PROVE  /\ OnGrid(Ahead(o, x))
         /\ x # o => Ahead(o, x) >= DataShards
         /\ Ahead(o, x) < Half => Ahead(o, x) + DataShards <= Half
<1>1. x \in Int /\ o \in Int /\ SeqModulus \in Int /\ DataShards \in Nat \ {0} /\ Half \in Int
      /\ x - o \in Int
  BY Sizes
<1>2. OnGrid(x - o)
  BY <1>1, Grids
<1>3. OnGrid((x - o) + SeqModulus)
  BY <1>1, <1>2, Grids, GridSizes
<1>4. OnGrid(Ahead(o, x))
  BY <1>2, <1>3, AheadValue, Zenon
<1>5. Ahead(o, x) \in Nat /\ (Ahead(o, x) = 0 <=> x = o)
  BY AheadType
<1>6. PICK a \in Nat : a = Ahead(o, x) /\ OnGrid(a)
  BY <1>4, <1>5
<1>7. a > 0 => a >= DataShards
  BY <1>6, Grids
<1>8. a < Half => a + DataShards <= Half
  BY <1>1, <1>6, Grids, GridSizes
<1> QED BY <1>4, <1>5, <1>6, <1>7, <1>8

\* The numbers of one block do not wrap.
LEMMA InBlock ==
  ASSUME NEW b \in SeqNumber, OnGrid(b), NEW i \in 0..(DataShards - 1)
  PROVE  /\ b + i \in SeqNumber /\ Plus(b, i) = b + i
         /\ (b + i) % DataShards = i /\ BlockBase(b + i) = b
         /\ b + DataShards \in 0..SeqModulus
         /\ Ahead(b, b + i) = i
<1>1. b \in Int /\ SeqModulus \in Int /\ DataShards \in Nat \ {0} /\ SeqModulus > b /\ i \in Int
  BY Sizes
<1>2. SeqModulus >= b + DataShards
  BY <1>1, Grids, GridSizes
<1>3. b + i \in SeqNumber /\ b + DataShards \in 0..SeqModulus
  BY <1>1, <1>2, Sizes
<1>4. Plus(b, i) = b + i
  <2>1. b + i \in Int /\ b + i >= 0 /\ b + i < SeqModulus
    BY <1>3, Sizes
  <2> QED BY <2>1, Wrap DEF Plus
<1>5. (b + i) % DataShards = i
  <2>1. PICK k \in Int : b = DataShards * k
    BY <1>1, Multiple DEF OnGrid
  <2>2. b + i = DataShards * k + i
    BY <2>1
  <2> QED BY <1>1, <2>2, Remainder
<1>6. BlockBase(b + i) = b
  BY <1>1, <1>5 DEF BlockBase
<1>7. Ahead(b, b + i) = i
  BY <1>1, <1>3, AheadValue
<1> QED BY <1>3, <1>4, <1>5, <1>6, <1>7

\* The block after a block.
LEMMA NextBlock ==
  ASSUME NEW b \in SeqNumber, OnGrid(b)
  PROVE  LET n == Plus(b, DataShards)
         IN  n \in SeqNumber /\ OnGrid(n) /\ Ahead(b, n) = DataShards
<1>1. b \in Int /\ SeqModulus \in Nat \ {0} /\ DataShards \in Nat \ {0} /\ DataShards < SeqModulus
  BY Sizes
<1>2. b + DataShards \in 0..SeqModulus
  BY <1>1, InBlock, 0 \in 0..(DataShards - 1)
<1>3. Plus(b, DataShards) = IF b + DataShards = SeqModulus THEN 0 ELSE b + DataShards
  <2>1. PICK x \in Int : x = b + DataShards /\ x >= 0 /\ x <= SeqModulus
    BY <1>1, <1>2
  <2>2. x % SeqModulus = IF x = SeqModulus THEN 0 ELSE x
    BY <1>1, <2>1, Wrap
  <2> QED BY <2>1, <2>2 DEF Plus
<1>4. OnGrid(b + DataShards) /\ OnGrid(0)
  BY <1>1, Grids, GridSizes
<1>5. Plus(b, DataShards) \in SeqNumber /\ OnGrid(Plus(b, DataShards))
  <2>1. CASE b + DataShards = SeqModulus
    BY <1>1, <1>3, <1>4, <2>1, Sizes
  <2>2. CASE b + DataShards # SeqModulus
    BY <1>1, <1>2, <1>3, <1>4, <2>2, Sizes
  <2> QED BY <2>1, <2>2
<1>6. PICK n \in SeqNumber : n = Plus(b, DataShards)
  BY <1>5
<1>7. Ahead(b, n) = DataShards
  BY <1>1, <1>2, <1>3, <1>6, Sizes, AheadValue
<1> QED BY <1>5, <1>6, <1>7

\* The number after a number.
LEMMA NextNumber ==
  ASSUME NEW s \in SeqNumber
  PROVE  LET n == Plus(s, 1) IN n \in SeqNumber /\ Ahead(s, n) = 1
<1>1. s \in Int /\ SeqModulus \in Nat \ {0} /\ SeqModulus >= 2 /\ s + 1 <= SeqModulus /\ s >= 0
  BY Sizes
<1>2. Plus(s, 1) = IF s + 1 = SeqModulus THEN 0 ELSE s + 1
  <2>1. PICK x \in Int : x = s + 1 /\ x >= 0 /\ x <= SeqModulus
    BY <1>1
  <2>2. x % SeqModulus = IF x = SeqModulus THEN 0 ELSE x
    BY <1>1, <2>1, Wrap
  <2> QED BY <2>1, <2>2 DEF Plus
<1>3. PICK n \in SeqNumber : n = Plus(s, 1)
  BY <1>1, <1>2, Sizes
<1>4. Ahead(s, n) = 1
  BY <1>1, <1>2, <1>3, AheadValue
<1> QED BY <1>3, <1>4

\* What the host sends.
LEMMA Sent ==
  ASSUME NEW p \in Packet
  PROVE  /\ Base(p) \in SeqNumber /\ OnGrid(Base(p))
         /\ p.shard \in Shard
         /\ IsData(p.shard) => p.shard \in 0..(DataShards - 1) /\ SeqNum(p) = Base(p) + p.shard
         /\ SeqNum(p) \in SeqNumber
<1>1. p.block \in 1..MaxBlock /\ p.shard \in Shard
  BY DEF Packet
<1>2. \A k \in Int : DataShards * k \in Int /\ k * DataShards = DataShards * k /\ OnGrid(DataShards * k)
  <2>1. ASSUME NEW k \in Int PROVE DataShards * k \in Int /\ k * DataShards = DataShards * k
    BY <2>1, Sizes
  <2>2. ASSUME NEW k \in Int PROVE OnGrid(DataShards * k)
    <3>1. DataShards \in Nat \ {0} /\ 0 \in 0..(DataShards - 1) /\ DataShards * k + 0 = DataShards * k
      BY <2>1, Sizes
    <3> QED BY <3>1, Remainder DEF OnGrid
  <2> QED BY <2>1, <2>2
<1>3. PICK y \in Int : y = FirstSeq + (p.block - 1) * DataShards /\ OnGrid(y)
  <2>1. p.block - 1 \in Int /\ FirstSeq \in Int
    BY <1>1, Sizes
  <2>2. \A w \in Int : OnGrid(w) => OnGrid(FirstSeq + w) /\ FirstSeq + w \in Int
    BY <2>1, Grids, GridSizes
  <2>3. PICK z \in Int : z = (p.block - 1) * DataShards /\ OnGrid(z)
    BY <1>2, <2>1, Zenon
  <2>4. OnGrid(FirstSeq + z) /\ FirstSeq + z \in Int
    BY <2>3, <2>2
  <2> QED BY <2>3, <2>4
<1>4. Base(p) = y % SeqModulus
  BY <1>3 DEF Base, BaseOf, Plus
<1>5. Base(p) \in SeqNumber
  BY <1>3, <1>4, Wrap
<1>6. OnGrid(Base(p))
  <2>1. PICK k \in Int, r \in Int : y = SeqModulus * k + r /\ r = y % SeqModulus
    <3>1. \A M \in Nat \ {0} : y = M * (y \div M) + (y % M) /\ y \div M \in Int /\ y % M \in Int
      OBVIOUS
    <3> QED BY <3>1, Sizes
  <2>2. PICK m \in Int : SeqModulus = DataShards * m
    <3>1. SeqModulus \in Int /\ DataShards \in Nat \ {0} /\ SeqModulus % DataShards = 0
      BY Constants
    <3> QED BY <3>1, Multiple, Zenon
  <2>3. \A d \in Int, j \in Int, l \in Int : (d * j) * l = d * (j * l) /\ j * l \in Int
    OBVIOUS
  <2>4. SeqModulus * k = DataShards * (m * k) /\ m * k \in Int
    BY <2>2, <2>3, Sizes
  <2>5. PICK z \in Int : z = SeqModulus * k /\ OnGrid(z)
    BY <1>2, <2>4
  <2>6. r = y - z
    BY <2>1, <2>5
  <2>7. OnGrid(y - z)
    BY <1>3, <2>5, Grids
  <2> QED BY <1>4, <2>1, <2>6, <2>7
<1>7. IsData(p.shard) => p.shard \in 0..(DataShards - 1) /\ SeqNum(p) = Base(p) + p.shard
  <2>1. IsData(p.shard) => p.shard \in 0..(DataShards - 1)
    BY <1>1, Sizes DEF Shard, IsData
  <2> QED BY <1>5, <1>6, <2>1, InBlock DEF SeqNum
<1>8. SeqNum(p) \in SeqNumber
  <2>1. Base(p) + p.shard \in Int
    BY <1>1, <1>5, Sizes DEF Shard
  <2> QED BY <2>1, Wrap DEF SeqNum, Plus
<1> QED BY <1>1, <1>5, <1>6, <1>7, <1>8

-----------------------------------------------------------------------------
(***************************************************************************)
(* The list of blocks.                                                     *)
(***************************************************************************)
LEMMA QueueFields ==
  ASSUME NEW q \in Queue
  PROVE  /\ q.blocks \in Seq(Block) /\ Len(q.blocks) \in Nat /\ DOMAIN q.blocks = 1..Len(q.blocks)
         /\ q.nextRtpSequenceNumber \in SeqNumber /\ q.oldestRtpBaseSequenceNumber \in SeqNumber
         /\ q.lastOosSequenceNumber \in SeqNumber
         /\ q.receivedOosData \in BOOLEAN /\ q.synchronizing \in BOOLEAN
         /\ \A n \in 1..Len(q.blocks) : q.blocks[n] \in Block
<1>1. q.blocks \in Seq(Block)
  BY Zenon DEF Queue
<1>2. /\ q.nextRtpSequenceNumber \in SeqNumber /\ q.oldestRtpBaseSequenceNumber \in SeqNumber
      /\ q.lastOosSequenceNumber \in SeqNumber
      /\ q.receivedOosData \in BOOLEAN /\ q.synchronizing \in BOOLEAN
  BY Zenon DEF Queue
<1>3. \A S : \A s \in Seq(S) : Len(s) \in Nat /\ DOMAIN s = 1..Len(s) /\ \A n \in 1..Len(s) : s[n] \in S
  OBVIOUS
<1> QED BY <1>1, <1>2, <1>3

LEMMA BlockFields ==
  ASSUME NEW b \in Block
  PROVE  /\ b.base \in SeqNumber /\ b.received \in SUBSET Shard /\ b.fullyReassembled \in BOOLEAN
         /\ b.nextDataPacketIndex \in 0..(DataShards - 1) /\ b.allowDiscontinuity \in BOOLEAN
BY Zenon DEF Block

LEMMA NewBlockFields ==
  ASSUME NEW base \in SeqNumber
  PROVE  /\ NewBlock(base) \in Block /\ NewBlock(base).base = base /\ NewBlock(base).received = {}
         /\ NewBlock(base).fullyReassembled = FALSE /\ NewBlock(base).nextDataPacketIndex = 0
         /\ NewBlock(base).allowDiscontinuity = FALSE
<1>1. 0 \in 0..(DataShards - 1)
  BY Sizes
<1> QED BY <1>1 DEF NewBlock, Block

\* The fast recovery flag is all that Sequenced() changes.
SameNumbers(q, r) ==
  /\ r.nextRtpSequenceNumber = q.nextRtpSequenceNumber
  /\ r.oldestRtpBaseSequenceNumber = q.oldestRtpBaseSequenceNumber
  /\ r.synchronizing = q.synchronizing

LEMMA SequencedFacts ==
  ASSUME NEW q \in Queue, NEW p \in Packet
  PROVE  LET r == Sequenced(q, p)
         IN  r \in Queue /\ r.blocks = q.blocks /\ SameNumbers(q, r)
<1>1. SeqNum(p) \in SeqNumber
  BY Sent
<1>2. [q EXCEPT !.receivedOosData = TRUE, !.lastOosSequenceNumber = SeqNum(p)] \in Queue
  BY <1>1 DEF Queue
<1>3. ASSUME NEW b \in BOOLEAN PROVE [q EXCEPT !.receivedOosData = b] \in Queue
  BY <1>3 DEF Queue
<1>4. (q.receivedOosData /\ ~Before(q.oldestRtpBaseSequenceNumber, q.lastOosSequenceNumber)) \in BOOLEAN
  OBVIOUS
<1>5. \/ Sequenced(q, p) = q
      \/ Sequenced(q, p) = [q EXCEPT !.receivedOosData = TRUE, !.lastOosSequenceNumber = SeqNum(p)]
      \/ \E b \in BOOLEAN : Sequenced(q, p) = [q EXCEPT !.receivedOosData = b]
  <2> DEFINE c == q.receivedOosData /\ ~Before(q.oldestRtpBaseSequenceNumber, q.lastOosSequenceNumber)
  <2>1. Sequenced(q, p) =
          IF ~IsData(p.shard) THEN q
          ELSE IF ~q.synchronizing /\ Before(SeqNum(p), q.oldestRtpBaseSequenceNumber)
               THEN [q EXCEPT !.receivedOosData = TRUE, !.lastOosSequenceNumber = SeqNum(p)]
               ELSE [q EXCEPT !.receivedOosData = c]
    BY DEF Sequenced
  <2>2. c \in BOOLEAN
    OBVIOUS
  <2> HIDE DEF c
  <2> QED BY <2>1, <2>2, Zenon
<1>6. /\ [q EXCEPT !.receivedOosData = TRUE, !.lastOosSequenceNumber = SeqNum(p)].blocks = q.blocks
      /\ SameNumbers(q, [q EXCEPT !.receivedOosData = TRUE, !.lastOosSequenceNumber = SeqNum(p)])
      /\ \A b \in BOOLEAN : [q EXCEPT !.receivedOosData = b].blocks = q.blocks
                            /\ SameNumbers(q, [q EXCEPT !.receivedOosData = b])
      /\ SameNumbers(q, q)
  BY DEF Queue, SameNumbers
<1> QED BY <1>2, <1>3, <1>5, <1>6

\* Sequences: one more at the end or in between, one less, one edited.
LEMMA AppendFacts ==
  ASSUME NEW S, NEW s \in Seq(S), NEW e \in S
  PROVE  /\ Append(s, e) \in Seq(S) /\ Len(Append(s, e)) = Len(s) + 1
         /\ Append(s, e)[Len(s) + 1] = e /\ \A i \in 1..Len(s) : Append(s, e)[i] = s[i]
OBVIOUS

LEMMA ConcatFacts ==
  ASSUME NEW x \in Seq(Block), NEW y \in Seq(Block)
  PROVE  /\ x \o y \in Seq(Block) /\ Len(x \o y) = Len(x) + Len(y)
         /\ \A i \in 1..(Len(x) + Len(y)) : (x \o y)[i] = IF i <= Len(x) THEN x[i] ELSE y[i - Len(x)]
OBVIOUS

LEMMA InsertFacts ==
  ASSUME NEW s \in Seq(Block), NEW e \in Block, NEW k \in 1..Len(s)
  PROVE  LET r == InsertAt(s, k, e)
         IN  /\ r \in Seq(Block) /\ Len(r) = Len(s) + 1
             /\ \A i \in 1..(k - 1) : r[i] = s[i]
             /\ r[k] = e
             /\ \A i \in (k + 1)..(Len(s) + 1) : r[i] = s[i - 1]
<1> DEFINE a == SubSeq(s, 1, k - 1)
           b == SubSeq(s, k, Len(s))
           r == InsertAt(s, k, e)
<1>1. /\ a \in Seq(Block) /\ Len(a) = k - 1 /\ \A i \in 1..k - 1 : a[i] = s[i]
      /\ b \in Seq(Block) /\ Len(b) = Len(s) - k + 1 /\ \A i \in 1..(Len(s) - k + 1) : b[i] = s[k + i - 1]
  OBVIOUS
<1>2. r = (a \o <<e>>) \o b
  BY DEF InsertAt
<1> HIDE DEF a, b, r
<1>3. /\ a \o <<e>> \in Seq(Block) /\ Len(a \o <<e>>) = k
      /\ \A i \in 1..k : (a \o <<e>>)[i] = IF i < k THEN s[i] ELSE e
  BY <1>1
<1>4. PICK c \in Seq(Block) : c = a \o <<e>>
  BY <1>3
<1>5. /\ c \o b \in Seq(Block) /\ Len(c \o b) = Len(c) + Len(b)
      /\ \A i \in 1..(Len(c) + Len(b)) : (c \o b)[i] = IF i <= Len(c) THEN c[i] ELSE b[i - Len(c)]
  BY <1>1, <1>4, ConcatFacts, Zenon
<1>6. Len(c) = k /\ r = c \o b
  BY <1>2, <1>3, <1>4
<1>7. r \in Seq(Block) /\ Len(r) = Len(s) + 1
  <2>1. Len(s) \in Nat /\ Len(b) = Len(s) - k + 1 /\ k \in Int
    BY <1>1
  <2>2. Len(r) = k + Len(b)
    BY <1>5, <1>6, Zenon
  <2>3. Len(r) = Len(s) + 1
    BY <2>1, <2>2
  <2> QED BY <1>5, <1>6, <2>3, Zenon
<1>8. \A i \in 1..Len(r) : r[i] = IF i <= k THEN c[i] ELSE b[i - k]
  BY <1>5, <1>6, Zenon
<1>9. \A i \in 1..Len(r) : r[i] = IF i < k THEN s[i] ELSE IF i = k THEN e ELSE s[i - 1]
  <2>1. ASSUME NEW i \in 1..Len(r) PROVE r[i] = IF i < k THEN s[i] ELSE IF i = k THEN e ELSE s[i - 1]
    <3>1. CASE i <= k
      BY <1>3, <1>4, <1>8, <3>1
    <3>2. CASE i > k
      <4>1. i - k \in 1..(Len(s) - k + 1) /\ k + (i - k) - 1 = i - 1
        BY <1>7, <3>2
      <4> QED BY <1>1, <1>8, <3>2, <4>1
    <3> QED BY <3>1, <3>2
  <2> QED BY <2>1
<1>10. k \in 1..Len(r) /\ k \in Int /\ Len(s) \in Nat
  BY <1>7
<1> QED BY <1>7, <1>9, <1>10 DEF r

\* A set of places that are all at the front.
LEMMA AtTheFront ==
  ASSUME NEW L \in Nat, NEW E \in SUBSET (1..L), \A e \in E : 1..e \subseteq E
  PROVE  \E n \in 0..L : E = 1..n
<1>1. IsFiniteSet(1..L) /\ Cardinality(1..L) = L
  BY FS_Interval
<1>2. IsFiniteSet(E) /\ Cardinality(E) \in Nat /\ Cardinality(E) <= L
  BY <1>1, FS_Subset, FS_CardinalityType
<1>3. PICK n \in 0..L : n = Cardinality(E)
  BY <1>2
<1>4. ASSUME NEW e \in E PROVE e <= n
  <2>1. IsFiniteSet(1..e) /\ Cardinality(1..e) = e
    BY <1>4, FS_Interval
  <2>2. 1..e \in SUBSET E
    BY <1>4
  <2>3. Cardinality(1..e) <= Cardinality(E)
    BY <1>2, <2>2, FS_Subset
  <2> QED BY <1>3, <2>1, <2>3
<1>5. E \in SUBSET (1..n)
  BY <1>3, <1>4
<1>6. IsFiniteSet(1..n) /\ Cardinality(1..n) = n
  BY <1>3, FS_Interval
<1>7. 1..n = E
  BY <1>3, <1>5, <1>6, FS_Subset
<1> QED BY <1>3, <1>7

-----------------------------------------------------------------------------
(***************************************************************************)
(* A packet is stored: in its block, which is new or in the list already.  *)
(***************************************************************************)
LEMMA Distances ==
  ASSUME NEW q \in Queue
  PROVE  \A n \in 1..Len(q.blocks) :
           /\ q.blocks[n].base \in SeqNumber
           /\ Ahead(q.oldestRtpBaseSequenceNumber, q.blocks[n].base) \in Nat
           /\ q.blocks[n].nextDataPacketIndex \in 0..(DataShards - 1)
<1>1. \A n \in 1..Len(q.blocks) : q.blocks[n] \in Block
  BY QueueFields
<1>2. \A b \in Block : b.base \in SeqNumber /\ b.nextDataPacketIndex \in 0..(DataShards - 1)
  BY BlockFields
<1> QED BY <1>1, <1>2, QueueFields, AheadType

\* Blocks have different numbers.
LEMMA Apart ==
  ASSUME NEW q \in Queue, Sorted(q), NEW m \in 1..Len(q.blocks), NEW n \in 1..Len(q.blocks),
         q.blocks[m].base = q.blocks[n].base
  PROVE  m = n
<1>1. Ahead(q.oldestRtpBaseSequenceNumber, q.blocks[m].base) \in Nat
  BY Distances
<1>2. m < n \/ n < m \/ m = n
  OBVIOUS
<1> QED BY <1>1, <1>2 DEF Sorted

\* The block at the oldest number is the first.
LEMMA OldestFirst ==
  ASSUME NEW q \in Queue, Sorted(q), NEW n \in 1..Len(q.blocks),
         q.blocks[n].base = q.oldestRtpBaseSequenceNumber
  PROVE  n = 1
<1>1. Ahead(q.oldestRtpBaseSequenceNumber, q.blocks[n].base) = 0
  BY QueueFields, AheadType
<1>2. 1 \in 1..Len(q.blocks) /\ Ahead(q.oldestRtpBaseSequenceNumber, q.blocks[1].base) \in Nat
  BY QueueFields, Distances
<1> QED BY <1>1, <1>2 DEF Sorted

LEMMA PlaceFacts ==
  ASSUME NEW q \in Queue, Sorted(q), NEW n \in 1..Len(q.blocks)
  PROVE  PlaceOf(q, q.blocks[n].base) = n /\ Known(q, q.blocks[n].base)
<1>1. DOMAIN q.blocks = 1..Len(q.blocks)
  BY QueueFields
<1>2. \A m \in 1..Len(q.blocks) : q.blocks[m].base = q.blocks[n].base => m = n
  BY Apart
<1>3. PlaceOf(q, q.blocks[n].base) = n
  <2> DEFINE P(m) == m \in 1..Len(q.blocks) /\ q.blocks[m].base = q.blocks[n].base
  <2>1. PlaceOf(q, q.blocks[n].base) = CHOOSE m \in 1..Len(q.blocks) : q.blocks[m].base = q.blocks[n].base
    BY <1>1 DEF PlaceOf
  <2>2. \E m \in 1..Len(q.blocks) : q.blocks[m].base = q.blocks[n].base
    OBVIOUS
  <2>3. LET c == CHOOSE m \in 1..Len(q.blocks) : q.blocks[m].base = q.blocks[n].base
        IN c \in 1..Len(q.blocks) /\ q.blocks[c].base = q.blocks[n].base
    BY <2>2, Zenon
  <2> QED BY <1>2, <2>1, <2>3
<1> QED BY <1>1, <1>3 DEF Known

\* How the lists of q and r differ: r has one more block, or one was changed.
Changed(q, r, n) ==
  /\ n \in 1..Len(r.blocks) /\ Len(q.blocks) <= Len(r.blocks)
  /\ \A m \in 1..Len(r.blocks) : m # n =>
       \E l \in 1..Len(q.blocks) : q.blocks[l] = r.blocks[m] /\ q.blocks[l].base # r.blocks[n].base
  /\ \A l \in 1..Len(q.blocks) : q.blocks[l].base # r.blocks[n].base =>
       \E m \in 1..Len(r.blocks) : m # n /\ r.blocks[m] = q.blocks[l]

\* The place of a new block: what is earlier is in front of it.
LEMMA NewPlace ==
  ASSUME NEW q \in Queue, Placed(q), Sorted(q), NEW base \in SeqNumber,
         Ahead(q.oldestRtpBaseSequenceNumber, base) < Half, ~Known(q, base)
  PROVE  LET later == {n \in DOMAIN q.blocks : Before(base, q.blocks[n].base)}
             o == q.oldestRtpBaseSequenceNumber
         IN  \E k \in 1..(Len(q.blocks) + 1) :
               /\ k <= Len(q.blocks) => later # {} /\ Min(later) = k
               /\ k = Len(q.blocks) + 1 => later = {}
               /\ \A n \in 1..Len(q.blocks) :
                    /\ n < k => Ahead(o, q.blocks[n].base) < Ahead(o, base)
                    /\ n >= k => Ahead(o, base) < Ahead(o, q.blocks[n].base)
<1> DEFINE later == {n \in DOMAIN q.blocks : Before(base, q.blocks[n].base)}
           o == q.oldestRtpBaseSequenceNumber
           L == Len(q.blocks)
           at(n) == Ahead(o, q.blocks[n].base)
           here == Ahead(o, base)
           E == {n \in 1..L : at(n) < here}
<1>1. L \in Nat /\ DOMAIN q.blocks = 1..L /\ o \in SeqNumber /\ here \in Nat
      /\ \A n \in 1..L : q.blocks[n].base \in SeqNumber /\ at(n) \in Nat /\ at(n) < Half
  BY QueueFields, Distances, AheadType DEF Placed
<1>2. \A n \in 1..L : at(n) # here
  <2>1. \A n \in 1..L : q.blocks[n].base # base
    BY <1>1 DEF Known
  <2> QED BY <1>1, <2>1, AheadApart
<1>3. \A n \in 1..L : Before(base, q.blocks[n].base) <=> here < at(n)
  BY <1>1, Order
<1>4. \A m, n \in 1..L : m < n => at(m) < at(n)
  BY DEF Sorted
<1> HIDE DEF at, here, o, L
<1>5. later = (1..L) \ E
  <2>1. ASSUME NEW n \in 1..L PROVE Before(base, q.blocks[n].base) <=> ~(at(n) < here)
    BY <1>1, <1>2, <1>3
  <2> QED BY <1>1, <2>1
<1>6. \A e \in E : 1..e \subseteq E
  BY <1>1, <1>4
<1>7. E \in SUBSET (1..L)
  OBVIOUS
<1> HIDE DEF E, later
<1>8. PICK c \in 0..L : E = 1..c
  BY <1>1, <1>6, <1>7, AtTheFront
<1>9. \A n \in 1..L : (n < c + 1 => at(n) < here) /\ (n >= c + 1 => here < at(n))
  BY <1>1, <1>2, <1>8 DEF E
<1>10. c + 1 <= L => later # {} /\ Min(later) = c + 1
  <2>1. ASSUME c + 1 <= L PROVE c + 1 \in later /\ \A n \in later : c + 1 <= n
    BY <1>1, <1>5, <1>8, <2>1
  <2>2. ASSUME NEW n, NEW m, n \in later, m \in later, \A j \in later : n <= j, \A j \in later : m <= j
        PROVE  n = m
    BY <1>5, <2>2
  <2> QED BY <2>1, <2>2 DEF Min
<1>11. c + 1 = L + 1 => later = {}
  BY <1>1, <1>5, <1>8
<1>12. c + 1 \in 1..(L + 1)
  BY <1>1
<1> QED BY <1>9, <1>10, <1>11, <1>12 DEF at, here, o, L, later

LEMMA WithBlockFacts ==
  ASSUME NEW q \in Queue, Placed(q), Sorted(q), NEW base \in SeqNumber,
         Ahead(q.oldestRtpBaseSequenceNumber, base) < Half, ~Known(q, base)
  PROVE  LET r == WithBlock(q, base)
         IN  /\ r \in Queue /\ SameNumbers(q, r) /\ Sorted(r)
             /\ \E n \in 1..Len(r.blocks) : Changed(q, r, n) /\ r.blocks[n] = NewBlock(base)
             /\ \A l \in 1..Len(q.blocks) : q.blocks[l].base # base
<1> DEFINE later == {n \in DOMAIN q.blocks : Before(base, q.blocks[n].base)}
           s == IF later = {} THEN Append(q.blocks, NewBlock(base))
                ELSE InsertAt(q.blocks, Min(later), NewBlock(base))
           r == WithBlock(q, base)
           o == q.oldestRtpBaseSequenceNumber
           L == Len(q.blocks)
<1>1. q.blocks \in Seq(Block) /\ L \in Nat /\ NewBlock(base) \in Block /\ NewBlock(base).base = base
      /\ DOMAIN q.blocks = 1..L /\ o \in SeqNumber
  BY QueueFields, NewBlockFields
<1>2. \A l \in 1..L : q.blocks[l].base # base
  BY <1>1 DEF Known
<1>3. PICK k \in 1..(L + 1) :
         /\ k <= L => later # {} /\ Min(later) = k
         /\ k = L + 1 => later = {}
         /\ \A n \in 1..L : /\ n < k => Ahead(o, q.blocks[n].base) < Ahead(o, base)
                            /\ n >= k => Ahead(o, base) < Ahead(o, q.blocks[n].base)
  BY NewPlace
<1>4. /\ s \in Seq(Block) /\ Len(s) = L + 1
      /\ \A i \in 1..(L + 1) :
           s[i] = IF i < k THEN q.blocks[i] ELSE IF i = k THEN NewBlock(base) ELSE q.blocks[i - 1]
  <2> HIDE DEF later
  <2>1. CASE k <= L
    <3>1. s = InsertAt(q.blocks, k, NewBlock(base)) /\ k \in 1..L
      BY <1>1, <1>3, <2>1
    <3> HIDE DEF s
    <3>2. /\ s \in Seq(Block) /\ Len(s) = L + 1
          /\ \A i \in 1..(k - 1) : s[i] = q.blocks[i]
          /\ s[k] = NewBlock(base)
          /\ \A i \in (k + 1)..(L + 1) : s[i] = q.blocks[i - 1]
      <4>1. PICK e \in Block : e = NewBlock(base)
        BY <1>1
      <4>2. PICK b \in Seq(Block) : b = q.blocks
        BY <1>1
      <4>3. PICK j \in 1..Len(b) : j = k
        BY <3>1, <4>2
      <4>4. LET t == InsertAt(b, j, e)
            IN  /\ t \in Seq(Block) /\ Len(t) = Len(b) + 1
                /\ \A i \in 1..(j - 1) : t[i] = b[i]
                /\ t[j] = e
                /\ \A i \in (j + 1)..(Len(b) + 1) : t[i] = b[i - 1]
        BY ONLY InsertFacts, b \in Seq(Block), j \in 1..Len(b), e \in Block, Zenon
      <4>5. s = InsertAt(b, j, e)
        BY <3>1, <4>1, <4>2, <4>3
      <4> QED BY <4>1, <4>2, <4>3, <4>4, <4>5, Zenon
    <3> QED BY <1>1, <3>1, <3>2
  <2>2. CASE k = L + 1
    <3>1. s = Append(q.blocks, NewBlock(base))
      BY <1>3, <2>2
    <3> HIDE DEF s
    <3>2. \A i \in 1..(L + 1) : i < k => i \in 1..L
      BY <1>1, <2>2
    <3> QED BY <1>1, <2>2, <3>1, <3>2, AppendFacts
  <2> QED BY <1>1, <1>3, <2>1, <2>2
<1>5. r = [q EXCEPT !.blocks = s]
  BY DEF WithBlock
<1> HIDE DEF s, later
<1>6. r \in Queue /\ r.blocks = s /\ SameNumbers(q, r)
  BY <1>4, <1>5 DEF Queue, SameNumbers
<1> HIDE DEF r
<1>7. Sorted(r)
  <2>1. r.oldestRtpBaseSequenceNumber = o
    BY <1>6 DEF SameNumbers
  <2>2. \A i, j \in 1..L : i < j => Ahead(o, q.blocks[i].base) < Ahead(o, q.blocks[j].base)
    BY DEF Sorted
  <2> SUFFICES ASSUME NEW m \in 1..(L + 1), NEW n \in 1..(L + 1), m < n
               PROVE  Ahead(o, s[m].base) < Ahead(o, s[n].base)
    BY <1>4, <1>6, <2>1 DEF Sorted
  <2> HIDE DEF o, L
  <2>3. CASE n < k
    BY <1>1, <1>4, <2>2, <2>3
  <2>4. CASE n = k
    BY <1>1, <1>3, <1>4, <2>4
  <2>5. CASE m < k /\ k < n
    <3>1. m \in 1..L /\ n - 1 \in 1..L /\ n - 1 >= k /\ m < n - 1
      BY <1>1, <2>5
    <3> QED BY <1>4, <2>2, <2>5, <3>1
  <2>6. CASE m = k
    <3>1. n - 1 \in 1..L /\ n - 1 >= k
      BY <1>1, <2>6
    <3>2. s[m].base = base /\ s[n] = q.blocks[n - 1]
      BY <1>1, <1>4, <2>6
    <3> QED BY <1>3, <3>1, <3>2 DEF L, o
  <2>7. CASE m > k
    <3>1. m - 1 \in 1..L /\ n - 1 \in 1..L /\ m - 1 < n - 1
      BY <1>1, <2>7
    <3> QED BY <1>4, <2>2, <2>7, <3>1
  <2> QED BY <1>1, <2>3, <2>4, <2>5, <2>6, <2>7
<1>8. Changed(q, r, k) /\ r.blocks[k] = NewBlock(base) /\ k \in 1..Len(r.blocks)
  <2> HIDE DEF o, L
  <2>1. k \in 1..Len(s) /\ s[k] = NewBlock(base) /\ L <= Len(s)
    BY <1>1, <1>4
  <2>2. ASSUME NEW m \in 1..Len(s), m # k
        PROVE  \E l \in 1..L : q.blocks[l] = s[m] /\ q.blocks[l].base # base
    <3>1. CASE m < k
      BY <1>1, <1>2, <1>4, <3>1
    <3>2. CASE m > k
      <4>1. m - 1 \in 1..L /\ s[m] = q.blocks[m - 1]
        BY <1>1, <1>4, <3>2
      <4> QED BY <1>2, <4>1
    <3> QED BY <1>1, <1>4, <2>2, <3>1, <3>2
  <2>3. ASSUME NEW l \in 1..L PROVE \E m \in 1..Len(s) : m # k /\ s[m] = q.blocks[l]
    <3>1. CASE l < k
      BY <1>1, <1>4, <3>1
    <3>2. CASE l >= k
      <4>1. l + 1 \in 1..Len(s) /\ l + 1 # k /\ s[l + 1] = q.blocks[l]
        BY <1>1, <1>4, <3>2
      <4> QED BY <4>1
    <3> QED BY <1>1, <3>1, <3>2
  <2>4. r.blocks[k].base = base /\ r.blocks = s
    BY <1>1, <1>6, <2>1
  <2> QED BY <2>1, <2>2, <2>3, <2>4 DEF Changed, L
<1> QED BY <1>2, <1>6, <1>7, <1>8 DEF r

\* A step that moves no number keeps the list in order: the block that changed
\* has the cursor it had, or is new and not played from.
LEMMA ChangedKeeps ==
  ASSUME NEW q \in Queue, NEW r \in Queue, NEW n, SameNumbers(q, r), Changed(q, r, n),
         Placed(q), CursorAt(q), Marked(q),
         OnGrid(r.blocks[n].base),
         Ahead(q.oldestRtpBaseSequenceNumber, r.blocks[n].base) < Half,
         \/ \E l \in 1..Len(q.blocks) :
              /\ q.blocks[l].base = r.blocks[n].base
              /\ q.blocks[l].nextDataPacketIndex = r.blocks[n].nextDataPacketIndex
              /\ q.blocks[l].allowDiscontinuity = r.blocks[n].allowDiscontinuity
         \/ /\ \A l \in 1..Len(q.blocks) : q.blocks[l].base # r.blocks[n].base
            /\ r.blocks[n].nextDataPacketIndex = 0 /\ ~r.blocks[n].allowDiscontinuity,
         r.blocks[n].received # {},
         r.blocks[n].fullyReassembled => Cardinality(r.blocks[n].received) >= DataShards
  PROVE  Placed(r) /\ CursorAt(r) /\ Marked(r)
<1> DEFINE b == r.blocks[n]
           o == q.oldestRtpBaseSequenceNumber
<1>1. /\ o \in SeqNumber /\ Len(q.blocks) \in Nat /\ Len(r.blocks) \in Nat
      /\ r.oldestRtpBaseSequenceNumber = o /\ r.nextRtpSequenceNumber = q.nextRtpSequenceNumber
      /\ n \in 1..Len(r.blocks) /\ Len(q.blocks) <= Len(r.blocks)
  BY QueueFields DEF SameNumbers, Changed
<1>2. ASSUME NEW m \in 1..Len(r.blocks), m # n
      PROVE  \E l \in 1..Len(q.blocks) : q.blocks[l] = r.blocks[m] /\ q.blocks[l].base # b.base
  BY <1>2 DEF Changed
<1>3. Placed(r)
  <2>1. OnGrid(o)
    BY DEF Placed
  <2>2. ASSUME NEW m \in 1..Len(r.blocks)
        PROVE  OnGrid(r.blocks[m].base) /\ Ahead(o, r.blocks[m].base) < Half
    <3>1. CASE m = n
      BY <3>1
    <3>2. CASE m # n
      <4>1. PICK l \in 1..Len(q.blocks) : q.blocks[l] = r.blocks[m]
        BY <1>2, <3>2
      <4>2. OnGrid(q.blocks[l].base) /\ Ahead(o, q.blocks[l].base) < Half
        BY DEF Placed
      <4> QED BY <4>1, <4>2
    <3> QED BY <3>1, <3>2
  <2> QED BY <1>1, <2>1, <2>2 DEF Placed
<1>4. CursorAt(r)
  <2>1. ASSUME NEW m \in 1..Len(r.blocks), m # n
        PROVE  IF r.blocks[m].base = o
               THEN q.nextRtpSequenceNumber = o + r.blocks[m].nextDataPacketIndex
               ELSE r.blocks[m].nextDataPacketIndex = 0 /\ ~r.blocks[m].allowDiscontinuity
    <3>1. PICK l \in 1..Len(q.blocks) : q.blocks[l] = r.blocks[m]
      BY <1>2, <2>1
    <3> QED BY <3>1 DEF CursorAt
  <2>2. IF b.base = o THEN q.nextRtpSequenceNumber = o + b.nextDataPacketIndex
        ELSE b.nextDataPacketIndex = 0 /\ ~b.allowDiscontinuity
    <3>1. CASE \E l \in 1..Len(q.blocks) :
                 /\ q.blocks[l].base = b.base
                 /\ q.blocks[l].nextDataPacketIndex = b.nextDataPacketIndex
                 /\ q.blocks[l].allowDiscontinuity = b.allowDiscontinuity
      BY <3>1 DEF CursorAt
    <3>2. CASE /\ \A l \in 1..Len(q.blocks) : q.blocks[l].base # b.base
               /\ b.nextDataPacketIndex = 0 /\ ~b.allowDiscontinuity
      <4>1. ASSUME b.base = o PROVE q.nextRtpSequenceNumber = o
        <5>1. \A l \in 1..Len(q.blocks) : q.blocks[l].base # o
          BY <3>2, <4>1
        <5> QED BY <5>1 DEF CursorAt
      <4>2. o + 0 = o
        BY <1>1, Sizes
      <4> QED BY <3>2, <4>1, <4>2
    <3> QED BY <3>1, <3>2
  <2>3. ASSUME \A m \in 1..Len(r.blocks) : r.blocks[m].base # o
        PROVE  q.nextRtpSequenceNumber = o
    <3>1. \A l \in 1..Len(q.blocks) : q.blocks[l].base # b.base =>
             \E m \in 1..Len(r.blocks) : r.blocks[m] = q.blocks[l]
      BY DEF Changed
    <3>2. \A l \in 1..Len(q.blocks) : q.blocks[l].base # o
      BY <1>1, <2>3, <3>1
    <3> QED BY <3>2 DEF CursorAt
  <2> QED BY <1>1, <2>1, <2>2, <2>3 DEF CursorAt
<1>5. Marked(r)
  <2>1. ASSUME NEW m \in 1..Len(r.blocks), m # n
        PROVE  /\ r.blocks[m].received # {}
               /\ r.blocks[m].fullyReassembled => Cardinality(r.blocks[m].received) >= DataShards
               /\ r.blocks[m].allowDiscontinuity => Len(r.blocks) > 1
    <3>1. PICK l \in 1..Len(q.blocks) : q.blocks[l] = r.blocks[m]
      BY <1>2, <2>1
    <3> QED BY <1>1, <3>1 DEF Marked
  <2>2. b.allowDiscontinuity => Len(r.blocks) > 1
    <3>1. b.allowDiscontinuity =>
            \E l \in 1..Len(q.blocks) : q.blocks[l].allowDiscontinuity
      OBVIOUS
    <3> QED BY <1>1, <3>1 DEF Marked
  <2> QED BY <1>1, <2>1, <2>2 DEF Marked
<1> QED BY <1>3, <1>4, <1>5

\* The block a packet is stored in, and what it was before.
Gains(q, r, n, p) ==
  LET b == r.blocks[n]
  IN  /\ b.base = Base(p)
      /\ \/ \E l \in 1..Len(q.blocks) :
              /\ b = [q.blocks[l] EXCEPT !.received = @ \union {p.shard}]
              /\ p.shard \notin q.blocks[l].received /\ ~q.blocks[l].fullyReassembled
         \/ /\ \A l \in 1..Len(q.blocks) : q.blocks[l].base # b.base
            /\ b = [NewBlock(Base(p)) EXCEPT !.received = {p.shard}]

\* Storing a shard in a block of the list.
LEMMA ShardStored ==
  ASSUME NEW q \in Queue, NEW n \in 1..Len(q.blocks), NEW i \in Shard
  PROVE  LET r == [q EXCEPT !.blocks[n].received = @ \union {i}]
         IN  /\ r \in Queue /\ SameNumbers(q, r) /\ Len(r.blocks) = Len(q.blocks)
             /\ r.blocks[n] = [q.blocks[n] EXCEPT !.received = @ \union {i}]
             /\ \A m \in 1..Len(q.blocks) : m # n => r.blocks[m] = q.blocks[m]
<1> DEFINE b == [q.blocks[n] EXCEPT !.received = @ \union {i}]
           s == [q.blocks EXCEPT ![n] = b]
           r == [q EXCEPT !.blocks[n].received = @ \union {i}]
<1>1. q.blocks \in Seq(Block) /\ q.blocks[n] \in Block
  BY QueueFields
<1>2. b \in Block
  BY <1>1 DEF Block
<1>3. r = [q EXCEPT !.blocks = s]
  BY DEF Queue
<1> HIDE DEF b
<1>4. s \in Seq(Block) /\ Len(s) = Len(q.blocks) /\ s[n] = b
      /\ \A m \in 1..Len(q.blocks) : m # n => s[m] = q.blocks[m]
  BY <1>1, <1>2
<1> HIDE DEF s, r
<1>5. r \in Queue /\ r.blocks = s /\ SameNumbers(q, r)
  BY <1>3, <1>4 DEF Queue, SameNumbers
<1> QED BY <1>4, <1>5 DEF b, r

LEMMA SortedAlike ==
  ASSUME NEW q \in Queue, NEW r \in Queue, Sorted(q), Len(r.blocks) = Len(q.blocks),
         r.oldestRtpBaseSequenceNumber = q.oldestRtpBaseSequenceNumber,
         \A m \in 1..Len(q.blocks) : r.blocks[m].base = q.blocks[m].base
  PROVE  Sorted(r)
BY DEF Sorted

LEMMA StoredFacts ==
  ASSUME NEW q \in Queue, Placed(q), Sorted(q), NEW p \in Packet,
         ~Before(Base(p), q.oldestRtpBaseSequenceNumber),
         ~(Known(q, Base(p)) /\ Present(q.blocks[PlaceOf(q, Base(p))], p.shard))
  PROVE  LET r == Stored(q, p)
         IN  /\ r \in Queue /\ SameNumbers(q, r) /\ Sorted(r)
             /\ \E n \in 1..Len(r.blocks) : Changed(q, r, n) /\ Gains(q, r, n, p)
             /\ Ahead(q.oldestRtpBaseSequenceNumber, Base(p)) < Half
<1> DEFINE base == Base(p)
           u == Sequenced(q, p)
           v == WithBlock(u, base)
           r == Stored(q, p)
           o == q.oldestRtpBaseSequenceNumber
<1>1. base \in SeqNumber /\ p.shard \in Shard /\ o \in SeqNumber
  BY Sent, QueueFields
<1>2. Ahead(o, base) < Half
  <2>1. Ahead(o, base) \in Nat /\ Half \in Nat
    BY <1>1, AheadType, Sizes
  <2> QED BY <1>1, <2>1, BeforeIs
<1>3. u \in Queue /\ u.blocks = q.blocks /\ SameNumbers(q, u)
  BY SequencedFacts
<1>4. r = [v EXCEPT !.blocks[PlaceOf(v, base)].received = @ \union {p.shard}]
  BY DEF Stored
<1> HIDE DEF u
<1>5. Placed(u) /\ Sorted(u) /\ u.oldestRtpBaseSequenceNumber = o
  BY <1>3 DEF Placed, Sorted, SameNumbers
<1>6. Known(u, base) <=> Known(q, base)
  BY <1>3 DEF Known
<1>7. CASE Known(q, base)
  <2>1. PICK n \in 1..Len(q.blocks) : q.blocks[n].base = base
    BY <1>7, QueueFields DEF Known
  <2>2. v = u
    BY <1>6, <1>7 DEF WithBlock
  <2>3. PlaceOf(v, base) = n
    <3>1. n \in 1..Len(u.blocks) /\ u.blocks[n].base = base
      BY <1>3, <2>1
    <3>2. PlaceOf(u, u.blocks[n].base) = n
      BY <1>3, <1>5, <3>1, PlaceFacts
    <3> QED BY <2>2, <3>1, <3>2
  <2>4. r = [u EXCEPT !.blocks[n].received = @ \union {p.shard}]
    BY <1>4, <2>2, <2>3
  <2> HIDE DEF r, v, o
  <2>5. /\ r \in Queue /\ SameNumbers(u, r) /\ Len(r.blocks) = Len(q.blocks)
        /\ r.blocks[n] = [q.blocks[n] EXCEPT !.received = @ \union {p.shard}]
        /\ \A m \in 1..Len(q.blocks) : m # n => r.blocks[m] = q.blocks[m]
    <3>1. n \in 1..Len(u.blocks)
      BY <1>3, <2>1
    <3> DEFINE t == [u EXCEPT !.blocks[n].received = @ \union {p.shard}]
    <3>2. /\ t \in Queue /\ SameNumbers(u, t) /\ Len(t.blocks) = Len(u.blocks)
          /\ t.blocks[n] = [u.blocks[n] EXCEPT !.received = @ \union {p.shard}]
          /\ \A m \in 1..Len(u.blocks) : m # n => t.blocks[m] = u.blocks[m]
      BY ONLY <1>1, <1>3, <3>1, ShardStored, Zenon
    <3> QED BY <1>3, <2>4, <3>2
  <2>6. SameNumbers(q, r)
    BY <1>3, <2>5 DEF SameNumbers
  <2>7. q.blocks[n] \in Block
    BY <2>1, QueueFields
  <2>8. r.blocks[n].base = base
    BY <2>1, <2>5, <2>7 DEF Block
  <2>9. Sorted(r)
    <3>1. \A m \in 1..Len(q.blocks) : r.blocks[m].base = q.blocks[m].base
      BY <2>1, <2>5, <2>8
    <3> QED BY <2>5, <2>6, <3>1, SortedAlike DEF SameNumbers
  <2>10. Changed(q, r, n)
    <3>1. \A m \in 1..Len(q.blocks) : q.blocks[m].base = base => m = n
      BY <2>1, Apart
    <3>2. Len(q.blocks) <= Len(r.blocks) /\ n \in 1..Len(r.blocks)
      BY <2>1, <2>5, QueueFields
    <3> HIDE DEF base
    <3> QED BY <2>1, <2>5, <2>8, <3>1, <3>2 DEF Changed
  <2>11. Gains(q, r, n, p)
    <3>1. PlaceOf(q, base) = n
      <4>1. PlaceOf(q, q.blocks[n].base) = n
        BY <2>1, PlaceFacts
      <4> QED BY <2>1, <4>1
    <3>2. p.shard \notin q.blocks[n].received /\ ~q.blocks[n].fullyReassembled
      BY <1>7, <3>1 DEF Present
    <3> QED BY <2>1, <2>5, <2>8, <3>2 DEF Gains
  <2> QED BY <1>2, <2>1, <2>5, <2>6, <2>9, <2>10, <2>11 DEF r, o
<1>8. CASE ~Known(q, base)
  <2>1. ~Known(u, base) /\ Ahead(u.oldestRtpBaseSequenceNumber, base) < Half
    BY <1>2, <1>5, <1>6, <1>8
  <2>2. /\ v \in Queue /\ SameNumbers(u, v) /\ Sorted(v)
        /\ \E n \in 1..Len(v.blocks) : Changed(u, v, n) /\ v.blocks[n] = NewBlock(base)
        /\ \A l \in 1..Len(u.blocks) : u.blocks[l].base # base
    BY <1>1, <1>3, <1>5, <2>1, WithBlockFacts
  <2> HIDE DEF v, base, o
  <2>3. PICK n \in 1..Len(v.blocks) : Changed(u, v, n) /\ v.blocks[n] = NewBlock(base)
    BY <2>2
  <2>4. v.blocks[n].base = base /\ NewBlock(base) \in Block /\ NewBlock(base).received = {}
    BY <1>1, <2>3, NewBlockFields
  <2>5. PlaceOf(v, base) = n
    <3>1. PlaceOf(v, v.blocks[n].base) = n
      BY <2>2, <2>3, PlaceFacts
    <3> QED BY <2>4, <3>1
  <2>6. r = [v EXCEPT !.blocks[n].received = @ \union {p.shard}]
    BY <1>4, <2>5
  <2> HIDE DEF r
  <2>7. /\ r \in Queue /\ SameNumbers(v, r) /\ Len(r.blocks) = Len(v.blocks)
        /\ r.blocks[n] = [v.blocks[n] EXCEPT !.received = @ \union {p.shard}]
        /\ \A m \in 1..Len(v.blocks) : m # n => r.blocks[m] = v.blocks[m]
    <3> DEFINE t == [v EXCEPT !.blocks[n].received = @ \union {p.shard}]
    <3>1. /\ t \in Queue /\ SameNumbers(v, t) /\ Len(t.blocks) = Len(v.blocks)
          /\ t.blocks[n] = [v.blocks[n] EXCEPT !.received = @ \union {p.shard}]
          /\ \A m \in 1..Len(v.blocks) : m # n => t.blocks[m] = v.blocks[m]
      BY ONLY <1>1, <2>2, <2>3, ShardStored, Zenon
    <3> QED BY <2>6, <3>1
  <2>8. SameNumbers(q, r)
    BY <1>3, <2>2, <2>7 DEF SameNumbers
  <2>9. r.blocks[n].base = base /\ r.blocks[n] = [NewBlock(base) EXCEPT !.received = {p.shard}]
    BY <2>3, <2>4, <2>7 DEF Block
  <2>10. Sorted(r)
    <3>1. \A m \in 1..Len(v.blocks) : r.blocks[m].base = v.blocks[m].base
      BY <2>4, <2>7, <2>9
    <3>2. r.oldestRtpBaseSequenceNumber = v.oldestRtpBaseSequenceNumber
      BY <2>7 DEF SameNumbers
    <3> QED BY <2>2, <2>7, <3>1, <3>2, SortedAlike
  <2>11. Changed(q, r, n)
    <3>1. /\ n \in 1..Len(v.blocks) /\ Len(q.blocks) <= Len(v.blocks)
          /\ \A m \in 1..Len(v.blocks) : m # n =>
               \E l \in 1..Len(q.blocks) : q.blocks[l] = v.blocks[m] /\ q.blocks[l].base # base
          /\ \A l \in 1..Len(q.blocks) : q.blocks[l].base # base =>
               \E m \in 1..Len(v.blocks) : m # n /\ v.blocks[m] = q.blocks[l]
      BY <1>3, <2>3, <2>4 DEF Changed
    <3>2. ASSUME NEW l \in 1..Len(q.blocks), q.blocks[l].base # base
          PROVE  \E m \in 1..Len(r.blocks) : m # n /\ r.blocks[m] = q.blocks[l]
      BY <2>7, <3>1, <3>2
    <3>3. ASSUME NEW m \in 1..Len(r.blocks), m # n
          PROVE  \E l \in 1..Len(q.blocks) : q.blocks[l] = r.blocks[m] /\ q.blocks[l].base # base
      BY <2>7, <3>1, <3>3
    <3>4. n \in 1..Len(r.blocks) /\ Len(q.blocks) <= Len(r.blocks) /\ r.blocks[n].base = base
      BY <2>7, <2>9, <3>1
    <3> QED BY <3>2, <3>3, <3>4, Zenon DEF Changed
  <2>12. Gains(q, r, n, p)
    <3>1. r.blocks[n].base = Base(p) /\ r.blocks[n] = [NewBlock(Base(p)) EXCEPT !.received = {p.shard}]
      BY <2>9 DEF base
    <3>2. \A l \in 1..Len(q.blocks) : q.blocks[l].base # r.blocks[n].base
      BY <1>3, <2>2, <2>9
    <3> QED BY <3>1, <3>2 DEF Gains
  <2>13. n \in 1..Len(r.blocks)
    BY <2>3, <2>7
  <2> QED BY <1>2, <2>7, <2>8, <2>10, <2>11, <2>12, <2>13 DEF r, o, base
<1> QED BY <1>7, <1>8

\* The arrivals once those of the blocks that are played are dropped.
Exact(q, A) ==
  /\ A \subseteq SeqNumber \X Shard
  /\ \A n \in 1..Len(q.blocks) : \A i \in q.blocks[n].received : <<q.blocks[n].base, i>> \in A
  /\ \A x \in A : \E n \in 1..Len(q.blocks) : q.blocks[n].base = x[1] /\ x[2] \in q.blocks[n].received

LEMMA PrunedIsExact ==
  ASSUME NEW q \in Queue, Placed(q), NEW A, Heard(q, A)
  PROVE  Exact(q, {x \in A : ~Before(x[1], q.oldestRtpBaseSequenceNumber)})
<1> DEFINE o == q.oldestRtpBaseSequenceNumber
           B == {x \in A : ~Before(x[1], o)}
<1>1. ASSUME NEW n \in 1..Len(q.blocks), NEW i \in q.blocks[n].received
      PROVE  <<q.blocks[n].base, i>> \in B
  <2>1. <<q.blocks[n].base, i>> \in A
    BY DEF Heard
  <2>2. q.blocks[n].base \in SeqNumber /\ o \in SeqNumber /\ Half \in Nat
        /\ Ahead(o, q.blocks[n].base) \in Nat /\ Ahead(o, q.blocks[n].base) < Half
    BY Distances, QueueFields, Sizes DEF Placed
  <2>3. ~Before(q.blocks[n].base, o)
    BY <2>2, BeforeIs
  <2> QED BY <2>1, <2>3
<1>2. B \subseteq SeqNumber \X Shard
  BY DEF Heard
<1>3. \A x \in B : \E n \in 1..Len(q.blocks) : q.blocks[n].base = x[1] /\ x[2] \in q.blocks[n].received
  BY DEF Heard
<1> HIDE DEF B
<1> QED BY <1>1, <1>2, <1>3 DEF Exact, B

LEMMA ExactIsHeard ==
  ASSUME NEW q, NEW A, Exact(q, A)
  PROVE  Heard(q, A)
BY DEF Exact, Heard

\* What is due lies in the block at the oldest number.
LEMMA DueBlock ==
  ASSUME NEW q \in Queue, Placed(q), CursorAt(q)
  PROVE  BlockBase(q.nextRtpSequenceNumber) = q.oldestRtpBaseSequenceNumber
<1> DEFINE o == q.oldestRtpBaseSequenceNumber
<1>1. o \in SeqNumber /\ OnGrid(o) /\ o \in Int
  BY QueueFields, Sizes DEF Placed
<1>2. \E i \in 0..(DataShards - 1) : q.nextRtpSequenceNumber = o + i
  <2>1. CASE \A n \in 1..Len(q.blocks) : q.blocks[n].base # o
    <3>1. q.nextRtpSequenceNumber = o
      BY <2>1 DEF CursorAt
    <3> QED BY <1>1, <3>1, Sizes
  <2>2. ASSUME NEW n \in 1..Len(q.blocks), q.blocks[n].base = o
        PROVE  \E i \in 0..(DataShards - 1) : q.nextRtpSequenceNumber = o + i
    <3>1. q.nextRtpSequenceNumber = o + q.blocks[n].nextDataPacketIndex
      BY <2>2 DEF CursorAt
    <3> QED BY <3>1, Distances
  <2> QED BY <2>1, <2>2
<1>3. PICK i \in 0..(DataShards - 1) : q.nextRtpSequenceNumber = o + i
  BY <1>2
<1>4. BlockBase(o + i) = o
  BY <1>1, InBlock
<1> HIDE DEF o
<1>5. BlockBase(q.nextRtpSequenceNumber) = o
  BY <1>3, <1>4
<1> QED BY <1>5 DEF o

\* A block that is stored into keeps the list in order and is heard of.
LEMMA StoredKeeps ==
  ASSUME NEW q, ListInv(q), NEW p \in Packet, NEW A, Heard(q, A),
         ~Before(Base(p), q.oldestRtpBaseSequenceNumber),
         ~(Known(q, Base(p)) /\ Present(q.blocks[PlaceOf(q, Base(p))], p.shard))
  PROVE  LET r == Stored(q, p)
         IN  /\ ListInv(r) /\ SameNumbers(q, r)
             /\ Heard(r, A \union {<<Base(p), p.shard>>})
             /\ \E n \in 1..Len(r.blocks) :
                  /\ r.blocks[n].base = Base(p) /\ p.shard \in r.blocks[n].received
                  /\ ~r.blocks[n].fullyReassembled /\ PlaceOf(r, Base(p)) = n
             /\ \A l \in 1..Len(q.blocks) :
                  \E n \in 1..Len(r.blocks) : r.blocks[n].base = q.blocks[l].base
<1> DEFINE r == Stored(q, p)
           B == A \union {<<Base(p), p.shard>>}
           o == q.oldestRtpBaseSequenceNumber
<1>1. q \in Queue /\ Placed(q) /\ Sorted(q) /\ CursorAt(q) /\ Marked(q)
  BY DEF ListInv
<1>2. /\ r \in Queue /\ SameNumbers(q, r) /\ Sorted(r)
      /\ \E n \in 1..Len(r.blocks) : Changed(q, r, n) /\ Gains(q, r, n, p)
      /\ Ahead(o, Base(p)) < Half
  BY <1>1, StoredFacts
<1>3. Base(p) \in SeqNumber /\ OnGrid(Base(p)) /\ p.shard \in Shard
  BY Sent
<1> HIDE DEF r
<1>4. PICK n \in 1..Len(r.blocks) : Changed(q, r, n) /\ Gains(q, r, n, p)
  BY <1>2
<1> DEFINE b == r.blocks[n]
<1>5. b.base = Base(p)
  BY <1>4 DEF Gains
<1>6. \/ \E l \in 1..Len(q.blocks) :
           /\ q.blocks[l].base = b.base
           /\ q.blocks[l].nextDataPacketIndex = b.nextDataPacketIndex
           /\ q.blocks[l].allowDiscontinuity = b.allowDiscontinuity
           /\ b.received = q.blocks[l].received \union {p.shard} /\ ~b.fullyReassembled
      \/ /\ \A l \in 1..Len(q.blocks) : q.blocks[l].base # b.base
         /\ b.nextDataPacketIndex = 0 /\ ~b.allowDiscontinuity
         /\ b.received = {p.shard} /\ ~b.fullyReassembled
  <2>1. CASE \E l \in 1..Len(q.blocks) :
               b = [q.blocks[l] EXCEPT !.received = @ \union {p.shard}] /\ ~q.blocks[l].fullyReassembled
    <3>1. PICK l \in 1..Len(q.blocks) :
            b = [q.blocks[l] EXCEPT !.received = @ \union {p.shard}] /\ ~q.blocks[l].fullyReassembled
      BY <2>1
    <3>2. PICK c \in Block : c = q.blocks[l]
      BY <1>1, <3>1, QueueFields
    <3>3. /\ [c EXCEPT !.received = @ \union {p.shard}].base = c.base
          /\ [c EXCEPT !.received = @ \union {p.shard}].nextDataPacketIndex = c.nextDataPacketIndex
          /\ [c EXCEPT !.received = @ \union {p.shard}].allowDiscontinuity = c.allowDiscontinuity
          /\ [c EXCEPT !.received = @ \union {p.shard}].fullyReassembled = c.fullyReassembled
          /\ [c EXCEPT !.received = @ \union {p.shard}].received = c.received \union {p.shard}
      BY DEF Block
    <3> HIDE DEF b
    <3> QED BY <3>1, <3>2, <3>3
  <2>2. CASE /\ \A l \in 1..Len(q.blocks) : q.blocks[l].base # b.base
             /\ b = [NewBlock(Base(p)) EXCEPT !.received = {p.shard}]
    <3>1. b.nextDataPacketIndex = 0 /\ ~b.allowDiscontinuity /\ b.received = {p.shard} /\ ~b.fullyReassembled
      BY <2>2 DEF NewBlock
    <3> QED BY <2>2, <3>1
  <2> QED BY <1>4, <2>1, <2>2 DEF Gains
<1>7. b.received # {} /\ p.shard \in b.received /\ ~b.fullyReassembled
  BY <1>6
<1>8. ListInv(r)
  <2>1. \/ \E l \in 1..Len(q.blocks) :
             /\ q.blocks[l].base = b.base
             /\ q.blocks[l].nextDataPacketIndex = b.nextDataPacketIndex
             /\ q.blocks[l].allowDiscontinuity = b.allowDiscontinuity
        \/ /\ \A l \in 1..Len(q.blocks) : q.blocks[l].base # b.base
           /\ b.nextDataPacketIndex = 0 /\ ~b.allowDiscontinuity
    BY <1>6
  <2>2. OnGrid(b.base) /\ Ahead(o, b.base) < Half
    BY <1>2, <1>3, <1>5
  <2>3. Placed(r) /\ CursorAt(r) /\ Marked(r)
    BY <1>1, <1>2, <1>4, <1>7, <2>1, <2>2, ChangedKeeps
  <2> QED BY <1>2, <2>3 DEF ListInv
<1>9. \A m \in 1..Len(r.blocks) : m # n =>
         \E l \in 1..Len(q.blocks) : q.blocks[l] = r.blocks[m] /\ q.blocks[l].base # b.base
  BY <1>4 DEF Changed
<1>10. \A l \in 1..Len(q.blocks) : q.blocks[l].base # b.base =>
         \E m \in 1..Len(r.blocks) : m # n /\ r.blocks[m] = q.blocks[l]
  BY <1>4 DEF Changed
<1>11. r.oldestRtpBaseSequenceNumber = o
  BY <1>2 DEF SameNumbers
<1>12. Heard(r, B)
  <2>1. B \subseteq SeqNumber \X Shard
    BY <1>3 DEF Heard
  <2>2. ASSUME NEW m \in 1..Len(r.blocks), NEW i \in r.blocks[m].received
        PROVE  <<r.blocks[m].base, i>> \in B
    <3>1. CASE m # n
      <4>1. PICK l \in 1..Len(q.blocks) : q.blocks[l] = r.blocks[m]
        BY <1>9, <3>1
      <4> QED BY <2>2, <4>1 DEF Heard
    <3>2. CASE m = n /\ i = p.shard
      BY <1>5, <3>2
    <3>3. CASE m = n /\ i # p.shard
      <4>1. PICK l \in 1..Len(q.blocks) : q.blocks[l].base = b.base /\ i \in q.blocks[l].received
        BY <1>6, <2>2, <3>3
      <4> QED BY <3>3, <4>1 DEF Heard
    <3> QED BY <3>1, <3>2, <3>3
  <2>3. ASSUME NEW x \in B
        PROVE  \/ Before(x[1], o)
               \/ \E m \in 1..Len(r.blocks) : r.blocks[m].base = x[1] /\ x[2] \in r.blocks[m].received
    <3>1. CASE x = <<Base(p), p.shard>>
      BY <1>5, <1>7, <3>1
    <3>2. CASE x \in A
      <4>1. CASE Before(x[1], o)
        BY <4>1
      <4>2. ASSUME NEW l \in 1..Len(q.blocks), q.blocks[l].base = x[1] /\ x[2] \in q.blocks[l].received
            PROVE  \E m \in 1..Len(r.blocks) : r.blocks[m].base = x[1] /\ x[2] \in r.blocks[m].received
        <5>1. CASE q.blocks[l].base # b.base
          BY <1>10, <4>2, <5>1
        <5>2. CASE q.blocks[l].base = b.base
          <6>1. PICK k \in 1..Len(q.blocks) :
                  q.blocks[k].base = b.base /\ b.received = q.blocks[k].received \union {p.shard}
            BY <1>6, <5>2
          <6>2. k = l
            BY <1>1, <5>2, <6>1, Apart
          <6> QED BY <4>2, <5>2, <6>1, <6>2
        <5> QED BY <5>1, <5>2
      <4> QED BY <3>2, <4>1, <4>2 DEF Heard
    <3> QED BY <3>1, <3>2
  <2> QED BY <1>11, <2>1, <2>2, <2>3 DEF Heard
<1>13. PlaceOf(r, Base(p)) = n
  <2>1. PlaceOf(r, b.base) = n
    BY <1>2, PlaceFacts
  <2> QED BY <1>5, <2>1
<1>14. ASSUME NEW l \in 1..Len(q.blocks)
       PROVE  \E m \in 1..Len(r.blocks) : r.blocks[m].base = q.blocks[l].base
  BY <1>10
<1> QED BY <1>2, <1>5, <1>7, <1>8, <1>12, <1>13, <1>14 DEF r

-----------------------------------------------------------------------------
(***************************************************************************)
(* One block is edited: its recovery is completed, or it is given up.      *)
(***************************************************************************)
LEMMA BlockEdited ==
  ASSUME NEW q \in Queue, NEW n \in 1..Len(q.blocks), NEW b \in Block
  PROVE  LET r == [q EXCEPT !.blocks[n] = b]
         IN  /\ r \in Queue /\ SameNumbers(q, r) /\ Len(r.blocks) = Len(q.blocks)
             /\ r.blocks[n] = b
             /\ \A m \in 1..Len(q.blocks) : m # n => r.blocks[m] = q.blocks[m]
<1> DEFINE s == [q.blocks EXCEPT ![n] = b]
           r == [q EXCEPT !.blocks[n] = b]
<1>1. q.blocks \in Seq(Block)
  BY QueueFields
<1>2. r = [q EXCEPT !.blocks = s]
  BY DEF Queue
<1>3. s \in Seq(Block) /\ Len(s) = Len(q.blocks) /\ s[n] = b
      /\ \A m \in 1..Len(q.blocks) : m # n => s[m] = q.blocks[m]
  BY <1>1
<1> HIDE DEF s, r
<1>4. r \in Queue /\ r.blocks = s /\ SameNumbers(q, r)
  BY <1>2, <1>3 DEF Queue, SameNumbers
<1> QED BY <1>3, <1>4 DEF r

\* The same blocks with the same shards.
SameShards(q, r) ==
  /\ Len(r.blocks) = Len(q.blocks)
  /\ \A m \in 1..Len(q.blocks) :
       /\ r.blocks[m].base = q.blocks[m].base /\ r.blocks[m].received = q.blocks[m].received
       /\ r.blocks[m].nextDataPacketIndex = q.blocks[m].nextDataPacketIndex

LEMMA SameShardsHeard ==
  ASSUME NEW q, NEW r, SameShards(q, r), r.oldestRtpBaseSequenceNumber = q.oldestRtpBaseSequenceNumber,
         NEW A, Heard(q, A)
  PROVE  Heard(r, A)
BY DEF Heard, SameShards

LEMMA SameShardsExact ==
  ASSUME NEW q, NEW r, SameShards(q, r), NEW A, Exact(q, A)
  PROVE  Exact(r, A)
BY DEF Exact, SameShards

LEMMA CompletedKeeps ==
  ASSUME NEW q, ListInv(q), NEW n \in 1..Len(q.blocks)
  PROVE  LET r == Completed(q, q.blocks[n].base)
         IN  ListInv(r) /\ SameNumbers(q, r) /\ SameShards(q, r)
<1> DEFINE c == Cardinality(q.blocks[n].received) >= DataShards
           b == [q.blocks[n] EXCEPT !.fullyReassembled = c]
           r == Completed(q, q.blocks[n].base)
<1>1. q \in Queue /\ Placed(q) /\ Sorted(q) /\ CursorAt(q) /\ Marked(q)
  BY DEF ListInv
<1>2. PlaceOf(q, q.blocks[n].base) = n
  BY <1>1, PlaceFacts
<1>3. c \in BOOLEAN
  OBVIOUS
<1>4. r = [q EXCEPT !.blocks[n].fullyReassembled = c]
  BY <1>2 DEF Completed
<1> HIDE DEF c
<1>5. r = [q EXCEPT !.blocks[n] = b]
  BY <1>4
<1>6. q.blocks[n] \in Block
  BY <1>1, QueueFields
<1>7. /\ b \in Block /\ b.base = q.blocks[n].base /\ b.received = q.blocks[n].received
      /\ b.nextDataPacketIndex = q.blocks[n].nextDataPacketIndex
      /\ b.allowDiscontinuity = q.blocks[n].allowDiscontinuity /\ b.fullyReassembled = c
  BY <1>3, <1>6 DEF Block
<1> HIDE DEF b, r
<1>8. /\ r \in Queue /\ SameNumbers(q, r) /\ Len(r.blocks) = Len(q.blocks) /\ r.blocks[n] = b
      /\ \A m \in 1..Len(q.blocks) : m # n => r.blocks[m] = q.blocks[m]
  <2>1. LET t == [q EXCEPT !.blocks[n] = b]
        IN  /\ t \in Queue /\ SameNumbers(q, t) /\ Len(t.blocks) = Len(q.blocks) /\ t.blocks[n] = b
            /\ \A m \in 1..Len(q.blocks) : m # n => t.blocks[m] = q.blocks[m]
    BY <1>1, <1>7, BlockEdited
  <2> QED BY <1>5, <2>1
<1>9. SameShards(q, r)
  BY <1>7, <1>8 DEF SameShards
<1>10. Sorted(r)
  <2>1. r.oldestRtpBaseSequenceNumber = q.oldestRtpBaseSequenceNumber
    BY <1>8 DEF SameNumbers
  <2>2. \A m \in 1..Len(q.blocks) : r.blocks[m].base = q.blocks[m].base
    BY <1>9 DEF SameShards
  <2> QED BY <1>1, <1>8, <2>1, <2>2, SortedAlike
<1>11. Changed(q, r, n)
  <2>1. \A m \in 1..Len(q.blocks) : m # n => q.blocks[m].base # q.blocks[n].base
    BY <1>1, Apart
  <2>2. Len(q.blocks) <= Len(r.blocks) /\ r.blocks[n].base = q.blocks[n].base
    BY <1>1, <1>7, <1>8, QueueFields
  <2> QED BY <1>8, <2>1, <2>2 DEF Changed
<1>12. Placed(r) /\ CursorAt(r) /\ Marked(r)
  <2>1. /\ OnGrid(r.blocks[n].base)
        /\ Ahead(q.oldestRtpBaseSequenceNumber, r.blocks[n].base) < Half
    BY <1>1, <1>7, <1>8 DEF Placed
  <2>2. r.blocks[n].received # {}
    BY <1>1, <1>7, <1>8 DEF Marked
  <2>3. r.blocks[n].fullyReassembled => Cardinality(r.blocks[n].received) >= DataShards
    BY <1>7, <1>8 DEF c
  <2>4. \E l \in 1..Len(q.blocks) :
              /\ q.blocks[l].base = r.blocks[n].base
              /\ q.blocks[l].nextDataPacketIndex = r.blocks[n].nextDataPacketIndex
              /\ q.blocks[l].allowDiscontinuity = r.blocks[n].allowDiscontinuity
    BY <1>7, <1>8
  <2> QED BY <1>1, <1>8, <1>11, <2>1, <2>2, <2>3, <2>4, ChangedKeeps
<1> QED BY <1>8, <1>9, <1>10, <1>12 DEF ListInv, r

\* The first block is the one at the oldest number unless what is due lies before it.
LEMMA HeadDue ==
  ASSUME NEW q, ListInv(q), q.blocks # <<>>
  PROVE  LET head == q.blocks[1]
         IN  /\ 1 \in 1..Len(q.blocks) /\ BlockHead(q) = head
             /\ Before(q.nextRtpSequenceNumber, head.base) <=> head.base # q.oldestRtpBaseSequenceNumber
             /\ head.base # q.oldestRtpBaseSequenceNumber =>
                  /\ q.nextRtpSequenceNumber = q.oldestRtpBaseSequenceNumber
                  /\ \A n \in 1..Len(q.blocks) :
                       /\ q.blocks[n].base # q.oldestRtpBaseSequenceNumber
                       /\ q.blocks[n].nextDataPacketIndex = 0 /\ ~q.blocks[n].allowDiscontinuity
<1> DEFINE o == q.oldestRtpBaseSequenceNumber
           head == q.blocks[1]
<1>1. q \in Queue /\ Placed(q) /\ Sorted(q) /\ CursorAt(q)
  BY DEF ListInv
<1>2. 1 \in 1..Len(q.blocks) /\ BlockHead(q) = head
  <2>1. q.blocks \in Seq(Block)
    BY <1>1, QueueFields
  <2> QED BY <2>1 DEF BlockHead
<1>3. /\ o \in SeqNumber /\ head.base \in SeqNumber /\ Half \in Nat /\ DataShards \in Nat \ {0}
      /\ DataShards <= Half /\ OnGrid(o) /\ head.nextDataPacketIndex \in 0..(DataShards - 1)
      /\ Ahead(o, head.base) \in Nat /\ Ahead(o, head.base) < Half
  BY <1>1, <1>2, QueueFields, Distances, Sizes DEF Placed
<1>4. ASSUME head.base # o
      PROVE  /\ q.nextRtpSequenceNumber = o
             /\ \A n \in 1..Len(q.blocks) :
                  /\ q.blocks[n].base # o
                  /\ q.blocks[n].nextDataPacketIndex = 0 /\ ~q.blocks[n].allowDiscontinuity
             /\ Before(o, head.base)
  <2>1. \A n \in 1..Len(q.blocks) : q.blocks[n].base # o
    BY <1>1, <1>4, OldestFirst
  <2>2. Ahead(o, o) = 0 /\ Ahead(o, head.base) # 0
    BY <1>3, <1>4, AheadType
  <2>3. Before(o, head.base)
    BY <1>3, <2>2, Order
  <2> QED BY <1>1, <2>1, <2>3 DEF CursorAt
<1>5. ASSUME head.base = o PROVE ~Before(q.nextRtpSequenceNumber, head.base)
  <2>1. q.nextRtpSequenceNumber = o + head.nextDataPacketIndex
    BY <1>1, <1>2, <1>5 DEF CursorAt
  <2>2. q.nextRtpSequenceNumber \in SeqNumber /\ Ahead(o, q.nextRtpSequenceNumber) = head.nextDataPacketIndex
    BY <1>3, <2>1, InBlock
  <2> QED BY <1>3, <1>5, <2>2, BeforeIs
<1> QED BY <1>2, <1>4, <1>5

\* The first block is given up: it is the one at the oldest number.
LEMMA GivenUpKeeps ==
  ASSUME NEW q, ListInv(q), Len(q.blocks) > 1,
         ~Before(q.nextRtpSequenceNumber, BlockHead(q).base)
  PROVE  LET r == [q EXCEPT !.blocks[1].allowDiscontinuity = TRUE]
         IN  ListInv(r) /\ SameNumbers(q, r) /\ SameShards(q, r)
<1> DEFINE b == [q.blocks[1] EXCEPT !.allowDiscontinuity = TRUE]
           r == [q EXCEPT !.blocks[1].allowDiscontinuity = TRUE]
<1>1. q \in Queue /\ Placed(q) /\ Sorted(q) /\ CursorAt(q) /\ Marked(q)
  BY DEF ListInv
<1>2. q.blocks \in Seq(Block) /\ q.blocks # <<>> /\ Len(q.blocks) \in Nat
  BY <1>1, QueueFields
<1>3. 1 \in 1..Len(q.blocks) /\ q.blocks[1].base = q.oldestRtpBaseSequenceNumber
  BY <1>2, HeadDue
<1>4. r = [q EXCEPT !.blocks[1] = b]
  OBVIOUS
<1>5. q.blocks[1] \in Block
  BY <1>1, <1>3, QueueFields
<1>6. /\ b \in Block /\ b.base = q.blocks[1].base /\ b.received = q.blocks[1].received
      /\ b.nextDataPacketIndex = q.blocks[1].nextDataPacketIndex
      /\ b.fullyReassembled = q.blocks[1].fullyReassembled
  BY <1>5 DEF Block
<1> HIDE DEF b, r
<1>7. /\ r \in Queue /\ SameNumbers(q, r) /\ Len(r.blocks) = Len(q.blocks) /\ r.blocks[1] = b
      /\ \A m \in 1..Len(q.blocks) : m # 1 => r.blocks[m] = q.blocks[m]
  <2>1. LET t == [q EXCEPT !.blocks[1] = b]
        IN  /\ t \in Queue /\ SameNumbers(q, t) /\ Len(t.blocks) = Len(q.blocks) /\ t.blocks[1] = b
            /\ \A m \in 1..Len(q.blocks) : m # 1 => t.blocks[m] = q.blocks[m]
    BY <1>1, <1>3, <1>6, BlockEdited
  <2> QED BY <1>4, <2>1
<1>8. SameShards(q, r)
  BY <1>6, <1>7 DEF SameShards
<1>9. /\ r.oldestRtpBaseSequenceNumber = q.oldestRtpBaseSequenceNumber
      /\ r.nextRtpSequenceNumber = q.nextRtpSequenceNumber
  BY <1>7 DEF SameNumbers
<1>10. \A m \in 1..Len(q.blocks) : r.blocks[m].base = q.blocks[m].base
  BY <1>8 DEF SameShards
<1>11. Sorted(r)
  BY <1>1, <1>7, <1>9, <1>10, SortedAlike
<1>12. Placed(r)
  BY <1>1, <1>7, <1>9, <1>10 DEF Placed
<1>13. CursorAt(r)
  <2>1. ASSUME NEW m \in 1..Len(q.blocks)
        PROVE  IF r.blocks[m].base = q.oldestRtpBaseSequenceNumber
               THEN q.nextRtpSequenceNumber = q.oldestRtpBaseSequenceNumber + r.blocks[m].nextDataPacketIndex
               ELSE r.blocks[m].nextDataPacketIndex = 0 /\ ~r.blocks[m].allowDiscontinuity
    <3>1. CASE m = 1
      BY <1>1, <1>3, <1>6, <1>7, <3>1 DEF CursorAt
    <3>2. CASE m # 1
      BY <1>1, <1>7, <3>2 DEF CursorAt
    <3> QED BY <3>1, <3>2
  <2>2. ~(\A m \in 1..Len(r.blocks) : r.blocks[m].base # q.oldestRtpBaseSequenceNumber)
    BY <1>3, <1>7, <1>10
  <2> QED BY <1>7, <1>9, <2>1, <2>2 DEF CursorAt
<1>14. Marked(r)
  <2>1. ASSUME NEW m \in 1..Len(q.blocks)
        PROVE  /\ r.blocks[m].received # {}
               /\ r.blocks[m].fullyReassembled => Cardinality(r.blocks[m].received) >= DataShards
    <3>1. CASE m = 1
      BY <1>1, <1>3, <1>6, <1>7, <3>1 DEF Marked
    <3>2. CASE m # 1
      BY <1>1, <1>7, <3>2 DEF Marked
    <3> QED BY <3>1, <3>2
  <2> QED BY <1>7, <2>1 DEF Marked
<1> QED BY <1>7, <1>8, <1>11, <1>12, <1>13, <1>14 DEF ListInv, r

\* What lies before the first block was lost completely: the first block is
\* now the one at the oldest number.
LEMMA SkippedKeeps ==
  ASSUME NEW q, ListInv(q), q.blocks # <<>>,
         Before(q.nextRtpSequenceNumber, BlockHead(q).base)
  PROVE  LET r == [q EXCEPT !.nextRtpSequenceNumber = BlockHead(q).base,
                            !.oldestRtpBaseSequenceNumber = BlockHead(q).base]
             next == q.nextRtpSequenceNumber
         IN  /\ ListInv(r) /\ SameShards(q, r)
             /\ r.nextRtpSequenceNumber = q.blocks[1].base
             /\ r.oldestRtpBaseSequenceNumber = q.blocks[1].base /\ 1 \in 1..Len(r.blocks)
             /\ next = q.oldestRtpBaseSequenceNumber
             /\ Ahead(next, q.blocks[1].base) \in 1..(Half - 1)
             /\ \A n \in 1..Len(q.blocks) : q.blocks[n].base # q.oldestRtpBaseSequenceNumber
<1> DEFINE h == q.blocks[1].base
           o == q.oldestRtpBaseSequenceNumber
           r == [q EXCEPT !.nextRtpSequenceNumber = BlockHead(q).base,
                          !.oldestRtpBaseSequenceNumber = BlockHead(q).base]
<1>1. q \in Queue /\ Placed(q) /\ Sorted(q) /\ CursorAt(q) /\ Marked(q)
  BY DEF ListInv
<1>2. /\ 1 \in 1..Len(q.blocks) /\ BlockHead(q) = q.blocks[1]
      /\ q.nextRtpSequenceNumber = o
      /\ \A n \in 1..Len(q.blocks) :
           /\ q.blocks[n].base # o
           /\ q.blocks[n].nextDataPacketIndex = 0 /\ ~q.blocks[n].allowDiscontinuity
  BY HeadDue
<1>3. /\ o \in SeqNumber /\ Half \in Nat /\ DataShards \in Nat \ {0} /\ Len(q.blocks) \in Nat
      /\ \A n \in 1..Len(q.blocks) :
           /\ q.blocks[n].base \in SeqNumber
           /\ Ahead(o, q.blocks[n].base) \in Nat /\ Ahead(o, q.blocks[n].base) < Half
           /\ OnGrid(q.blocks[n].base)
  BY <1>1, QueueFields, Distances, Sizes DEF Placed
<1>4. h \in SeqNumber /\ OnGrid(h)
  BY <1>2, <1>3
<1>5. /\ r \in Queue /\ r.blocks = q.blocks
      /\ r.nextRtpSequenceNumber = h /\ r.oldestRtpBaseSequenceNumber = h
  BY <1>1, <1>2, <1>4 DEF Queue
<1> HIDE DEF r, h, o
<1>6. SameShards(q, r)
  BY <1>5 DEF SameShards
<1>7. ASSUME NEW n \in 1..Len(q.blocks)
      PROVE  Ahead(o, h) <= Ahead(o, q.blocks[n].base)
             /\ Ahead(h, q.blocks[n].base) = Ahead(o, q.blocks[n].base) - Ahead(o, h)
  <2>1. Ahead(o, h) <= Ahead(o, q.blocks[n].base)
    <3>1. CASE n = 1
      BY <1>3, <3>1 DEF h
    <3>2. CASE n # 1
      <4>1. 1 < n /\ n \in Int
        BY <1>3, <3>2
      <4>2. Ahead(o, h) < Ahead(o, q.blocks[n].base)
        BY <1>1, <1>2, <4>1 DEF Sorted, h, o
      <4>3. Ahead(o, h) \in Nat /\ Ahead(o, q.blocks[n].base) \in Nat
        BY <1>2, <1>3 DEF h
      <4> QED BY <4>2, <4>3
    <3> QED BY <3>1, <3>2
  <2>2. q.blocks[n].base \in SeqNumber
    BY <1>3
  <2> QED BY <1>3, <1>4, <2>1, <2>2, AheadMoves
<1>8. Ahead(o, h) \in Nat /\ Ahead(o, h) < Half /\ Ahead(o, h) # 0
  <2>1. Ahead(o, h) \in Nat /\ Ahead(o, h) < Half /\ h # o
    BY <1>2, <1>3 DEF h
  <2> QED BY <1>3, <1>4, <2>1, AheadType
<1>9. Placed(r)
  <2>1. ASSUME NEW n \in 1..Len(q.blocks) PROVE Ahead(h, q.blocks[n].base) < Half
    <3>1. Ahead(o, q.blocks[n].base) \in Nat /\ Ahead(o, q.blocks[n].base) < Half
      BY <1>3
    <3> QED BY <1>3, <1>7, <1>8, <3>1
  <2> QED BY <1>3, <1>4, <1>5, <2>1 DEF Placed
<1>10. Sorted(r)
  <2>1. ASSUME NEW m \in 1..Len(q.blocks), NEW n \in 1..Len(q.blocks), m < n
        PROVE  Ahead(h, q.blocks[m].base) < Ahead(h, q.blocks[n].base)
    <3>1. Ahead(o, q.blocks[m].base) < Ahead(o, q.blocks[n].base)
      BY <1>1, <2>1 DEF Sorted, o
    <3>2. Ahead(o, q.blocks[m].base) \in Nat /\ Ahead(o, q.blocks[n].base) \in Nat
      BY <1>3
    <3> QED BY <1>7, <1>8, <3>1, <3>2
  <2> QED BY <1>5, <2>1 DEF Sorted
<1>11. CursorAt(r)
  <2>1. h + 0 = h
    BY <1>4, Sizes
  <2>2. \A n \in 1..Len(q.blocks) : q.blocks[n].nextDataPacketIndex = 0 /\ ~q.blocks[n].allowDiscontinuity
    BY <1>2
  <2> QED BY <1>5, <2>1, <2>2 DEF CursorAt
<1>12. Marked(r)
  BY <1>1, <1>5 DEF Marked
<1>13. Ahead(o, h) \in 1..(Half - 1)
  BY <1>3, <1>8
<1> QED BY <1>2, <1>5, <1>6, <1>9, <1>10, <1>11, <1>12, <1>13 DEF ListInv, h, o, r

-----------------------------------------------------------------------------
(***************************************************************************)
(* The packet that is due is handed over; the block is freed after its     *)
(* last one.                                                               *)
(***************************************************************************)
LEMMA TailFacts ==
  ASSUME NEW S, NEW s \in Seq(S), s # <<>>
  PROVE  /\ Tail(s) \in Seq(S) /\ Len(Tail(s)) = Len(s) - 1
         /\ \A i \in 1..(Len(s) - 1) : Tail(s)[i] = s[i + 1]
OBVIOUS

\* The first block is played from: a later cursor in it, or the blocks behind it.
LEMMA PlayedFields ==
  ASSUME NEW q \in Queue, q.blocks # <<>>
  PROVE  LET c == q.blocks[1].nextDataPacketIndex
             t == [q EXCEPT !.nextRtpSequenceNumber = Plus(@, 1),
                            !.blocks[1].nextDataPacketIndex = @ + 1]
             r == FreeHeadIfDone(t)
         IN  /\ r \in Queue /\ r.nextRtpSequenceNumber = Plus(q.nextRtpSequenceNumber, 1)
             /\ c + 1 # DataShards =>
                  /\ r.oldestRtpBaseSequenceNumber = q.oldestRtpBaseSequenceNumber
                  /\ r.synchronizing = q.synchronizing /\ Len(r.blocks) = Len(q.blocks)
                  /\ r.blocks[1] = [q.blocks[1] EXCEPT !.nextDataPacketIndex = c + 1]
                  /\ \A n \in 1..Len(q.blocks) : n # 1 => r.blocks[n] = q.blocks[n]
             /\ c + 1 = DataShards =>
                  /\ r.oldestRtpBaseSequenceNumber = Plus(q.blocks[1].base, DataShards)
                  /\ r.synchronizing = FALSE /\ Len(r.blocks) = Len(q.blocks) - 1
                  /\ \A n \in 1..(Len(q.blocks) - 1) : r.blocks[n] = q.blocks[n + 1]
<1> DEFINE c == q.blocks[1].nextDataPacketIndex
           b == [q.blocks[1] EXCEPT !.nextDataPacketIndex = c + 1]
           s == [q.blocks EXCEPT ![1] = b]
           u == Plus(q.nextRtpSequenceNumber, 1)
           t == [q EXCEPT !.nextRtpSequenceNumber = Plus(@, 1),
                          !.blocks[1].nextDataPacketIndex = @ + 1]
           r == FreeHeadIfDone(t)
           Big == [base : SeqNumber, received : SUBSET Shard, fullyReassembled : BOOLEAN,
                   nextDataPacketIndex : Nat, allowDiscontinuity : BOOLEAN]
<1>1. q.blocks \in Seq(Block) /\ Len(q.blocks) \in Nat
  BY QueueFields
<1>2. 1 \in 1..Len(q.blocks) /\ q.blocks[1] \in Block /\ c \in 0..(DataShards - 1)
      /\ DataShards \in Nat \ {0}
  <2>1. 1 \in 1..Len(q.blocks)
    BY <1>1
  <2> QED BY <1>1, <2>1, Distances, Sizes
<1>3. u \in SeqNumber
  BY QueueFields, NextNumber
<1>4. t = [q EXCEPT !.nextRtpSequenceNumber = u, !.blocks = s]
  BY DEF Queue
<1>5. /\ b \in Big /\ b.base = q.blocks[1].base /\ b.nextDataPacketIndex = c + 1
      /\ (c + 1 # DataShards => b \in Block)
  BY <1>2 DEF Block
<1>6. \A d \in Block : d \in Big
  BY <1>2 DEF Block
<1> HIDE DEF b, u, Big
<1>7. q.blocks \in Seq(Big)
  <2>1. \A n \in 1..Len(q.blocks) : q.blocks[n] \in Big
    BY <1>1, <1>6
  <2> QED BY <1>1, <2>1
<1>8. /\ s \in Seq(Big) /\ Len(s) = Len(q.blocks) /\ s[1] = b /\ s # <<>>
      /\ \A n \in 1..Len(q.blocks) : n # 1 => s[n] = q.blocks[n]
      /\ (c + 1 # DataShards => s \in Seq(Block))
  BY <1>1, <1>2, <1>5, <1>7
<1> HIDE DEF s, t, c
<1>9. /\ t.blocks = s /\ t.nextRtpSequenceNumber = u
      /\ t.oldestRtpBaseSequenceNumber = q.oldestRtpBaseSequenceNumber
      /\ t.synchronizing = q.synchronizing
      /\ (c + 1 # DataShards => t \in Queue)
  BY <1>3, <1>4, <1>8 DEF Queue
<1>10. BlockHead(t) = b
  BY <1>8, <1>9 DEF BlockHead
<1>11. CASE c + 1 # DataShards
  <2>1. r = t
    BY <1>5, <1>10, <1>11 DEF FreeHeadIfDone
  <2> HIDE DEF r
  <2> QED BY <1>8, <1>9, <1>11, <2>1 DEF b, c, r, t, u
<1>12. CASE c + 1 = DataShards
  <2> DEFINE w == Tail(s)
             v == Plus(q.blocks[1].base, DataShards)
  <2>1. r = [t EXCEPT !.blocks = w, !.oldestRtpBaseSequenceNumber = v, !.synchronizing = FALSE]
    BY <1>5, <1>9, <1>10, <1>12 DEF FreeHeadIfDone
  <2>2. /\ w \in Seq(Big) /\ Len(w) = Len(q.blocks) - 1
        /\ \A n \in 1..(Len(q.blocks) - 1) : w[n] = s[n + 1]
    BY <1>8, TailFacts
  <2>3. \A n \in 1..(Len(q.blocks) - 1) : w[n] = q.blocks[n + 1] /\ w[n] \in Block
    <3>1. ASSUME NEW n \in 1..(Len(q.blocks) - 1) PROVE w[n] = q.blocks[n + 1] /\ w[n] \in Block
      <4>1. n + 1 \in 1..Len(q.blocks) /\ n + 1 # 1
        BY <1>1
      <4> QED BY <1>1, <1>8, <2>2, <4>1
    <3> QED BY <3>1
  <2> HIDE DEF w
  <2>4. w \in Seq(Block)
    BY <2>2, <2>3
  <2>5. v \in SeqNumber
    <3>1. q.blocks[1].base \in SeqNumber
      BY <1>2, Distances
    <3>2. q.blocks[1].base + DataShards \in Int
      BY <1>2, <3>1, Sizes
    <3> QED BY <3>2, Wrap DEF Plus
  <2> HIDE DEF r, v
  <2>6. /\ r = [q EXCEPT !.nextRtpSequenceNumber = u, !.blocks = w,
                         !.oldestRtpBaseSequenceNumber = v, !.synchronizing = FALSE]
    BY <1>4, <2>1 DEF Queue
  <2>7. /\ r \in Queue /\ r.nextRtpSequenceNumber = u /\ r.blocks = w
        /\ r.oldestRtpBaseSequenceNumber = v /\ r.synchronizing = FALSE
    BY <1>3, <2>4, <2>5, <2>6 DEF Queue
  <2> QED BY <1>12, <2>2, <2>3, <2>7 DEF c, r, t, u, v
<1> QED BY <1>11, <1>12

LEMMA PlayedKeeps ==
  ASSUME NEW q, ListInv(q), q.blocks # <<>>, q.blocks[1].base = q.oldestRtpBaseSequenceNumber,
         NEW A, Exact(q, A)
  PROVE  LET r == FreeHeadIfDone([q EXCEPT !.nextRtpSequenceNumber = Plus(@, 1),
                                           !.blocks[1].nextDataPacketIndex = @ + 1])
         IN  /\ ListInv(r) /\ Heard(r, A)
             /\ r.nextRtpSequenceNumber = Plus(q.nextRtpSequenceNumber, 1)
             /\ r.synchronizing =>
                  q.synchronizing /\ r.oldestRtpBaseSequenceNumber = q.oldestRtpBaseSequenceNumber
<1> DEFINE c == q.blocks[1].nextDataPacketIndex
           o == q.oldestRtpBaseSequenceNumber
           L == Len(q.blocks)
           r == FreeHeadIfDone([q EXCEPT !.nextRtpSequenceNumber = Plus(@, 1),
                                         !.blocks[1].nextDataPacketIndex = @ + 1])
<1>1. q \in Queue /\ Placed(q) /\ Sorted(q) /\ CursorAt(q) /\ Marked(q)
  BY DEF ListInv
<1>2. /\ r \in Queue /\ r.nextRtpSequenceNumber = Plus(q.nextRtpSequenceNumber, 1)
      /\ c + 1 # DataShards =>
           /\ r.oldestRtpBaseSequenceNumber = o
           /\ r.synchronizing = q.synchronizing /\ Len(r.blocks) = L
           /\ r.blocks[1] = [q.blocks[1] EXCEPT !.nextDataPacketIndex = c + 1]
           /\ \A n \in 1..L : n # 1 => r.blocks[n] = q.blocks[n]
      /\ c + 1 = DataShards =>
           /\ r.oldestRtpBaseSequenceNumber = Plus(q.blocks[1].base, DataShards)
           /\ r.synchronizing = FALSE /\ Len(r.blocks) = L - 1
           /\ \A n \in 1..(L - 1) : r.blocks[n] = q.blocks[n + 1]
  BY <1>1, PlayedFields, Zenon
<1> HIDE DEF r
<1>3. /\ 1 \in 1..L /\ L \in Nat
  BY <1>1, QueueFields, HeadDue
<1>4. /\ o \in SeqNumber /\ o \in Int /\ OnGrid(o) /\ c \in 0..(DataShards - 1) /\ c \in Int
      /\ DataShards \in Nat \ {0} /\ Half \in Nat /\ DataShards <= Half /\ SeqModulus = 2 * Half
      /\ q.nextRtpSequenceNumber = o + c
      /\ \A n \in 1..L : /\ q.blocks[n].base \in SeqNumber /\ OnGrid(q.blocks[n].base)
                         /\ Ahead(o, q.blocks[n].base) \in Nat /\ Ahead(o, q.blocks[n].base) < Half
  BY <1>1, <1>3, QueueFields, Distances, Sizes DEF Placed, CursorAt
<1>5. \A n \in 1..L : n # 1 =>
        /\ q.blocks[n].base # o /\ q.blocks[n].nextDataPacketIndex = 0
        /\ ~q.blocks[n].allowDiscontinuity
  BY <1>1, OldestFirst DEF CursorAt
<1>6. Plus(o + c, 1) = Plus(o, c + 1)
  BY <1>4 DEF Plus
<1>7. q.blocks[1] \in Block
  BY <1>1, <1>3, QueueFields
<1> HIDE DEF c, o, L
<1>8. CASE c + 1 # DataShards
  <2>1. /\ r.blocks[1].base = o /\ r.blocks[1].received = q.blocks[1].received
        /\ r.blocks[1].nextDataPacketIndex = c + 1
        /\ r.blocks[1].fullyReassembled = q.blocks[1].fullyReassembled
        /\ r.blocks[1].allowDiscontinuity = q.blocks[1].allowDiscontinuity
    BY <1>2, <1>7, <1>8 DEF Block, o
  <2>2. /\ r.oldestRtpBaseSequenceNumber = o /\ r.synchronizing = q.synchronizing /\ Len(r.blocks) = L
        /\ \A n \in 1..L : n # 1 => r.blocks[n] = q.blocks[n]
    BY <1>2, <1>8
  <2>3. \A n \in 1..L : r.blocks[n].base = q.blocks[n].base /\ r.blocks[n].received = q.blocks[n].received
    BY <2>1, <2>2 DEF o
  <2>4. r.nextRtpSequenceNumber = o + (c + 1)
    <3>1. c + 1 \in 0..(DataShards - 1)
      BY <1>4, <1>8
    <3>2. Plus(o, c + 1) = o + (c + 1)
      BY <1>4, <3>1, InBlock
    <3> QED BY <1>2, <1>4, <1>6, <3>2
  <2>5. Placed(r)
    BY <1>4, <2>2, <2>3 DEF Placed
  <2>6. Sorted(r)
    BY <1>1, <1>2, <2>2, <2>3, SortedAlike DEF o, L
  <2>7. CursorAt(r)
    <3>1. ASSUME NEW n \in 1..L
          PROVE  IF r.blocks[n].base = o
                 THEN r.nextRtpSequenceNumber = o + r.blocks[n].nextDataPacketIndex
                 ELSE r.blocks[n].nextDataPacketIndex = 0 /\ ~r.blocks[n].allowDiscontinuity
      <4>1. CASE n = 1
        BY <2>1, <2>4, <4>1
      <4>2. CASE n # 1
        BY <1>5, <2>2, <4>2
      <4> QED BY <4>1, <4>2
    <3> QED BY <1>3, <2>1, <2>2, <3>1 DEF CursorAt
  <2>8. Marked(r)
    <3>1. ASSUME NEW n \in 1..L
          PROVE  /\ r.blocks[n].received # {}
                 /\ r.blocks[n].fullyReassembled => Cardinality(r.blocks[n].received) >= DataShards
                 /\ r.blocks[n].allowDiscontinuity => L > 1
      <4>1. CASE n = 1
        BY <1>1, <1>3, <2>1, <4>1 DEF Marked, L
      <4>2. CASE n # 1
        BY <1>1, <2>2, <4>2 DEF Marked, L
      <4> QED BY <4>1, <4>2
    <3> QED BY <2>2, <3>1 DEF Marked
  <2>9. Exact(r, A)
    BY <2>2, <2>3 DEF Exact, L
  <2> QED BY <1>2, <2>2, <2>5, <2>6, <2>7, <2>8, <2>9, ExactIsHeard DEF ListInv, r, o
<1>9. CASE c + 1 = DataShards
  <2> DEFINE v == Plus(o, DataShards)
  <2>1. v \in SeqNumber /\ OnGrid(v) /\ Ahead(o, v) = DataShards
    BY <1>4, NextBlock
  <2>2. /\ r.oldestRtpBaseSequenceNumber = v /\ r.synchronizing = FALSE /\ Len(r.blocks) = L - 1
        /\ r.nextRtpSequenceNumber = v
        /\ \A n \in 1..(L - 1) : r.blocks[n] = q.blocks[n + 1]
    BY <1>2, <1>4, <1>6, <1>9 DEF o
  <2> HIDE DEF v
  <2>3. ASSUME NEW n \in 1..(L - 1)
        PROVE  /\ n + 1 \in 1..L /\ r.blocks[n] = q.blocks[n + 1]
               /\ r.blocks[n].base # o /\ r.blocks[n].nextDataPacketIndex = 0
               /\ ~r.blocks[n].allowDiscontinuity
               /\ r.blocks[n].base \in SeqNumber /\ OnGrid(r.blocks[n].base)
               /\ Ahead(o, r.blocks[n].base) \in Nat /\ Ahead(o, r.blocks[n].base) < Half
               /\ Ahead(v, r.blocks[n].base) = Ahead(o, r.blocks[n].base) - DataShards
    <3>1. n + 1 \in 1..L /\ n + 1 # 1 /\ r.blocks[n] = q.blocks[n + 1]
      BY <1>3, <2>2
    <3>2. PICK x \in SeqNumber :
            /\ x = r.blocks[n].base /\ x # o /\ OnGrid(x)
            /\ Ahead(o, x) \in Nat /\ Ahead(o, x) < Half
      BY <1>4, <1>5, <3>1
    <3>3. Ahead(o, x) >= DataShards
      BY <1>4, <3>2, GridSteps
    <3>4. Ahead(v, x) = Ahead(o, x) - DataShards
      BY <1>4, <2>1, <3>3, AheadMoves
    <3> QED BY <1>5, <3>1, <3>2, <3>4
  <2>4. Placed(r)
    <3>1. ASSUME NEW n \in 1..(L - 1) PROVE Ahead(v, r.blocks[n].base) < Half
      BY <1>4, <2>3
    <3> QED BY <2>1, <2>2, <2>3, <3>1 DEF Placed
  <2>5. Sorted(r)
    <3>1. ASSUME NEW m \in 1..(L - 1), NEW n \in 1..(L - 1), m < n
          PROVE  Ahead(v, r.blocks[m].base) < Ahead(v, r.blocks[n].base)
      <4>1. m + 1 \in 1..L /\ n + 1 \in 1..L /\ m + 1 < n + 1
        BY <1>3, <3>1
      <4>2. Ahead(o, q.blocks[m + 1].base) < Ahead(o, q.blocks[n + 1].base)
        BY <1>1, <4>1 DEF Sorted, o, L
      <4>3. Ahead(o, r.blocks[m].base) < Ahead(o, r.blocks[n].base)
        BY <2>2, <4>2
      <4>4. /\ Ahead(o, r.blocks[m].base) \in Nat /\ Ahead(o, r.blocks[n].base) \in Nat
            /\ Ahead(v, r.blocks[m].base) = Ahead(o, r.blocks[m].base) - DataShards
            /\ Ahead(v, r.blocks[n].base) = Ahead(o, r.blocks[n].base) - DataShards
        BY <2>3
      <4> QED BY <1>4, <4>3, <4>4
    <3> QED BY <2>2, <3>1 DEF Sorted
  <2>6. CursorAt(r)
    <3>1. v + 0 = v
      BY <2>1, Sizes
    <3> QED BY <2>2, <2>3, <3>1 DEF CursorAt
  <2>7. Marked(r)
    <3>1. ASSUME NEW n \in 1..(L - 1)
          PROVE  /\ r.blocks[n].received # {} /\ ~r.blocks[n].allowDiscontinuity
                 /\ r.blocks[n].fullyReassembled => Cardinality(r.blocks[n].received) >= DataShards
      BY <1>1, <2>3 DEF Marked, L
    <3> QED BY <2>2, <3>1 DEF Marked
  <2>8. Heard(r, A)
    <3>1. A \subseteq SeqNumber \X Shard
      BY DEF Exact
    <3>2. \A n \in 1..(L - 1) : \A i \in r.blocks[n].received : <<r.blocks[n].base, i>> \in A
      BY <2>3 DEF Exact, L
    <3>3. Before(o, v)
      <4>1. Ahead(o, o) = 0
        BY <1>4, AheadType
      <4>2. Ahead(v, o) = SeqModulus - DataShards
        <5>1. Ahead(o, o) < Ahead(o, v)
          BY <1>4, <2>1, <4>1
        <5>2. Ahead(v, o) = SeqModulus - (Ahead(o, v) - Ahead(o, o))
          BY <1>4, <2>1, <5>1, AheadApart
        <5> QED BY <1>4, <2>1, <4>1, <5>2
      <4>3. Ahead(v, o) >= Half
        BY <1>4, <4>2
      <4> QED BY <1>4, <2>1, <4>3, BeforeIs
    <3>4. ASSUME NEW x \in A
          PROVE  \/ Before(x[1], v)
                 \/ \E n \in 1..(L - 1) : r.blocks[n].base = x[1] /\ x[2] \in r.blocks[n].received
      <4>1. PICK k \in 1..L : q.blocks[k].base = x[1] /\ x[2] \in q.blocks[k].received
        BY DEF Exact, L
      <4>2. CASE k = 1
        BY <3>3, <4>1, <4>2 DEF o
      <4>3. CASE k # 1
        <5>1. k - 1 \in 1..(L - 1) /\ (k - 1) + 1 = k
          BY <1>3, <4>3
        <5>2. r.blocks[k - 1] = q.blocks[k]
          BY <2>2, <5>1
        <5> QED BY <4>1, <5>1, <5>2
      <4> QED BY <4>2, <4>3
    <3> QED BY <2>2, <3>1, <3>2, <3>4 DEF Heard
  <2> QED BY <1>2, <2>2, <2>4, <2>5, <2>6, <2>7, <2>8 DEF ListInv, r
<1> QED BY <1>8, <1>9

-----------------------------------------------------------------------------
(***************************************************************************)
(* The steps of the receive thread.                                        *)
(***************************************************************************)
LEMMA OneFurther ==
  ASSUME NEW a \in SeqNumber, NEW b \in SeqNumber, NEW c \in SeqNumber,
         Ahead(a, b) = 1, Ahead(b, c) \in 1..(Half - 1)
  PROVE  Ahead(a, c) \in 1..Half
<1>1. /\ Ahead(a, b) = IF b >= a THEN b - a ELSE b - a + SeqModulus
      /\ Ahead(b, c) = IF c >= b THEN c - b ELSE c - b + SeqModulus
      /\ Ahead(a, c) = IF c >= a THEN c - a ELSE c - a + SeqModulus
  BY AheadValue
<1> QED BY <1>1, Sizes

\* Unplayed() keeps what is not before the oldest number.
LEMMA UnplayedIs ==
  ASSUME ListInv(queue), NEW A
  PROVE  Unplayed(A) = {x \in A : ~Before(x[1], queue.oldestRtpBaseSequenceNumber)}
<1>1. BlockBase(queue.nextRtpSequenceNumber) = queue.oldestRtpBaseSequenceNumber
  BY DueBlock DEF ListInv
<1> QED BY <1>1 DEF Unplayed

\* What was played last was due right before what is due now.
LEMMA PlayedBehind ==
  ASSUME NEW q, NEW r, NEW kind, q.nextRtpSequenceNumber \in SeqNumber,
         r.nextRtpSequenceNumber = Plus(q.nextRtpSequenceNumber, 1)
  PROVE  Behind(r, [seq |-> q.nextRtpSequenceNumber, kind |-> kind])
<1>1. Ahead(q.nextRtpSequenceNumber, r.nextRtpSequenceNumber) = 1
  BY NextNumber
<1> QED BY <1>1, Sizes DEF Behind

LEMMA InitHolds == Init => AudioInv
<1> SUFFICES ASSUME Init PROVE AudioInv
  OBVIOUS
<1>1. 0 \in SeqNumber /\ OnGrid(0) /\ 1 \in 1..MaxBlock
  BY Sizes, GridSizes
<1>2. queue \in Queue /\ queue.blocks = <<>> /\ Len(queue.blocks) = 0
      /\ queue.nextRtpSequenceNumber = 0 /\ queue.oldestRtpBaseSequenceNumber = 0
  <2>1. <<>> \in Seq(Block)
    OBVIOUS
  <2> QED BY <1>1, <2>1 DEF Init, Queue
<1>3. ListInv(queue)
  BY <1>1, <1>2 DEF ListInv, Placed, Sorted, CursorAt, Marked
<1>4. Heard(queue, arrived)
  BY <1>2 DEF Heard, Init
<1>5. output \in Output /\ output.kind = "none"
  BY <1>1 DEF Init, Output
<1>6. restarted \in BOOLEAN
  BY DEF Init
<1> QED BY <1>1, <1>3, <1>4, <1>5, <1>6 DEF AudioInv, Behind, Init

LEMMA SynchronizeKeeps ==
  ASSUME AudioInv, ~restarted', NEW p \in Packet, Synchronize(p), newest' \in 1..MaxBlock
  PROVE  AudioInv'
<1> DEFINE start == Plus(Base(p), DataShards)
           u == Sequenced(queue, p)
<1>1. queue \in Queue /\ queue.blocks = <<>> /\ output.kind = "none" /\ pulling \in BOOLEAN
      /\ output \in Output
  BY DEF AudioInv, ListInv, Synchronize
<1>2. start \in SeqNumber /\ OnGrid(start)
  BY Sent, NextBlock
<1>3. u \in Queue /\ u.blocks = <<>>
  BY <1>1, SequencedFacts
<1>4. queue' = [u EXCEPT !.nextRtpSequenceNumber = start, !.oldestRtpBaseSequenceNumber = start]
      /\ arrived' = {} /\ pulling' = pulling /\ output' = output
  BY DEF Synchronize
<1> HIDE DEF start, u
<1>5. /\ queue' \in Queue /\ queue'.blocks = <<>>
      /\ queue'.nextRtpSequenceNumber = start /\ queue'.oldestRtpBaseSequenceNumber = start
  BY <1>2, <1>3, <1>4 DEF Queue
<1>6. Len(queue'.blocks) = 0
  BY <1>5
<1>7. ListInv(queue')
  BY <1>2, <1>5, <1>6 DEF ListInv, Placed, Sorted, CursorAt, Marked
<1>8. Heard(queue', arrived')
  BY <1>4, <1>6 DEF Heard
<1>9. restarted' \in BOOLEAN
  BY DEF Synchronize
<1> QED BY <1>1, <1>4, <1>7, <1>8, <1>9 DEF AudioInv, Behind

LEMMA RejectKeeps ==
  ASSUME AudioInv, NEW p \in Packet, RejectPacket(p), newest' \in 1..MaxBlock
  PROVE  AudioInv'
<1>1. queue \in Queue /\ ListInv(queue) /\ Heard(queue, arrived) /\ Behind(queue, output)
  BY DEF AudioInv, ListInv
<1>2. /\ queue' \in Queue /\ queue'.blocks = queue.blocks /\ SameNumbers(queue, queue')
      /\ arrived' = arrived /\ pulling' = pulling /\ output' = output /\ restarted' = restarted
  BY <1>1, SequencedFacts DEF RejectPacket
<1>3. /\ queue'.nextRtpSequenceNumber = queue.nextRtpSequenceNumber
      /\ queue'.oldestRtpBaseSequenceNumber = queue.oldestRtpBaseSequenceNumber
      /\ queue'.synchronizing = queue.synchronizing
  BY <1>2 DEF SameNumbers
<1>4. ListInv(queue')
  BY <1>1, <1>2, <1>3 DEF ListInv, Placed, Sorted, CursorAt, Marked
<1>5. Heard(queue', arrived') /\ Behind(queue', output')
  BY <1>1, <1>2, <1>3 DEF Heard, Behind
<1>6. Unstarted' => Unstarted
  BY <1>3 DEF Unstarted
<1> QED BY <1>2, <1>4, <1>5, <1>6 DEF AudioInv

\* An accepted packet: its block, and the arrivals that are not played yet.
LEMMA AcceptedFacts ==
  ASSUME AudioInv, NEW p \in Packet, Accepts(p)
  PROVE  LET q == Stored(queue, p)
             A == Unplayed(arrived \union {<<Base(p), p.shard>>})
         IN  /\ ListInv(q) /\ SameNumbers(queue, q) /\ Exact(q, A)
             /\ \E n \in 1..Len(q.blocks) :
                  /\ q.blocks[n].base = Base(p) /\ p.shard \in q.blocks[n].received
                  /\ ~q.blocks[n].fullyReassembled /\ PlaceOf(q, Base(p)) = n
             /\ \A l \in 1..Len(queue.blocks) :
                  \E n \in 1..Len(q.blocks) : q.blocks[n].base = queue.blocks[l].base
<1> DEFINE q == Stored(queue, p)
           B == arrived \union {<<Base(p), p.shard>>}
<1>1. ListInv(queue) /\ Heard(queue, arrived)
  BY DEF AudioInv
<1>2. /\ ~Before(Base(p), queue.oldestRtpBaseSequenceNumber)
      /\ ~(Known(queue, Base(p)) /\ Present(queue.blocks[PlaceOf(queue, Base(p))], p.shard))
  BY DEF Accepts, Stale, Superfluous
<1>3. /\ ListInv(q) /\ SameNumbers(queue, q) /\ Heard(q, B)
      /\ \E n \in 1..Len(q.blocks) :
           /\ q.blocks[n].base = Base(p) /\ p.shard \in q.blocks[n].received
           /\ ~q.blocks[n].fullyReassembled /\ PlaceOf(q, Base(p)) = n
      /\ \A l \in 1..Len(queue.blocks) :
           \E n \in 1..Len(q.blocks) : q.blocks[n].base = queue.blocks[l].base
  BY <1>1, <1>2, StoredKeeps, Zenon
<1> HIDE DEF q
<1>4. Unplayed(B) = {x \in B : ~Before(x[1], q.oldestRtpBaseSequenceNumber)}
  BY <1>1, <1>3, UnplayedIs DEF SameNumbers
<1>5. Exact(q, Unplayed(B))
  BY <1>3, <1>4, PrunedIsExact DEF ListInv
<1> QED BY <1>3, <1>5 DEF q

LEMMA HandleNowKeeps ==
  ASSUME AudioInv, NEW p \in Packet, HandleNow(p), newest' \in 1..MaxBlock
  PROVE  /\ AudioInv'
         /\ output'.seq = queue.nextRtpSequenceNumber
         /\ queue'.nextRtpSequenceNumber = Plus(queue.nextRtpSequenceNumber, 1)
<1> DEFINE q == Stored(queue, p)
           A == Unplayed(arrived \union {<<Base(p), p.shard>>})
           r == FreeHeadIfDone([q EXCEPT !.nextRtpSequenceNumber = Plus(@, 1),
                                         !.blocks[1].nextDataPacketIndex = @ + 1])
<1>1. /\ ListInv(q) /\ SameNumbers(queue, q) /\ Exact(q, A)
      /\ \E n \in 1..Len(q.blocks) : q.blocks[n].base = Base(p) /\ PlaceOf(q, Base(p)) = n
  BY AcceptedFacts DEF HandleNow
<1>2. PICK n \in 1..Len(q.blocks) : q.blocks[n].base = Base(p) /\ PlaceOf(q, Base(p)) = n
  BY <1>1
<1>3. /\ Accepts(p) /\ Due(p) /\ arrived' = A /\ pulling' = pulling /\ restarted' = restarted
      /\ output' = [seq |-> SeqNum(p), kind |-> "sent"]
      /\ queue' = FreeHeadIfDone([q EXCEPT !.nextRtpSequenceNumber = Plus(@, 1),
                                           !.blocks[n].nextDataPacketIndex = @ + 1])
  BY <1>2 DEF HandleNow
<1> HIDE DEF q, A, r
<1>4. q \in Queue /\ Sorted(q)
  BY <1>1 DEF ListInv
<1>5. /\ q.nextRtpSequenceNumber = queue.nextRtpSequenceNumber
      /\ q.oldestRtpBaseSequenceNumber = queue.oldestRtpBaseSequenceNumber
      /\ q.synchronizing = queue.synchronizing
  BY <1>1 DEF SameNumbers
<1>6. SeqNum(p) = queue.nextRtpSequenceNumber /\ SeqNum(p) \in SeqNumber
  BY <1>3, Sent DEF Due
<1>7. Base(p) = q.oldestRtpBaseSequenceNumber
  <2>1. /\ Base(p) \in SeqNumber /\ OnGrid(Base(p)) /\ p.shard \in 0..(DataShards - 1)
        /\ SeqNum(p) = Base(p) + p.shard
    BY <1>3, Sent DEF Due
  <2>2. BlockBase(SeqNum(p)) = Base(p)
    BY <2>1, InBlock
  <2>3. BlockBase(q.nextRtpSequenceNumber) = q.oldestRtpBaseSequenceNumber
    BY <1>1, DueBlock DEF ListInv
  <2> QED BY <1>5, <1>6, <2>2, <2>3
<1>8. n = 1
  BY <1>2, <1>4, <1>7, OldestFirst
<1>9. queue' = r
  BY <1>3, <1>8 DEF r
<1>10. q.blocks # <<>> /\ q.blocks[1].base = q.oldestRtpBaseSequenceNumber
  BY <1>2, <1>7, <1>8
<1>11. /\ ListInv(r) /\ Heard(r, A)
       /\ r.nextRtpSequenceNumber = Plus(q.nextRtpSequenceNumber, 1)
       /\ r.synchronizing =>
            q.synchronizing /\ r.oldestRtpBaseSequenceNumber = q.oldestRtpBaseSequenceNumber
  BY <1>1, <1>10, PlayedKeeps, Zenon DEF r
<1>12. output' \in Output /\ output'.seq = queue.nextRtpSequenceNumber
  BY <1>3, <1>6 DEF Output
<1>13. Behind(queue', output')
  BY <1>3, <1>5, <1>6, <1>9, <1>11, PlayedBehind
<1>14. ~Unstarted'
  BY <1>3, <1>5, <1>9, <1>11 DEF Accepts, Unstarted
<1> QED BY <1>3, <1>5, <1>9, <1>11, <1>12, <1>13, <1>14 DEF AudioInv

\* Where a packet that is only queued leaves the queue.
LEMMA QueuePacketFacts ==
  ASSUME AudioInv, NEW p \in Packet, QueuePacket(p)
  PROVE  LET A == Unplayed(arrived \union {<<Base(p), p.shard>>})
         IN  \E q \in Queue :
               /\ ListInv(q) /\ SameNumbers(queue, q) /\ Exact(q, A)
               /\ \A l \in 1..Len(queue.blocks) :
                    \E n \in 1..Len(q.blocks) : q.blocks[n].base = queue.blocks[l].base
               /\ \/ queue' = q
                  \/ q.blocks # <<>> /\ \E timedOut : queue' = MissingHandled(q, timedOut)
<1> DEFINE t == Stored(queue, p)
           q == Completed(t, Base(p))
           A == Unplayed(arrived \union {<<Base(p), p.shard>>})
<1>1. /\ ListInv(t) /\ SameNumbers(queue, t) /\ Exact(t, A)
      /\ \E n \in 1..Len(t.blocks) : t.blocks[n].base = Base(p)
      /\ \A l \in 1..Len(queue.blocks) :
           \E n \in 1..Len(t.blocks) : t.blocks[n].base = queue.blocks[l].base
  BY AcceptedFacts DEF QueuePacket
<1>2. \/ queue' = q
      \/ \E timedOut : queue' = MissingHandled(q, timedOut)
  BY DEF QueuePacket
<1> HIDE DEF t, A
<1>3. PICK n \in 1..Len(t.blocks) : t.blocks[n].base = Base(p)
  BY <1>1
<1>4. ListInv(q) /\ SameNumbers(t, q) /\ SameShards(t, q)
  BY <1>1, <1>3, CompletedKeeps
<1> HIDE DEF q
<1>5. Exact(q, A)
  BY <1>1, <1>4, SameShardsExact
<1>6. SameNumbers(queue, q)
  BY <1>1, <1>4 DEF SameNumbers
<1>7. \A l \in 1..Len(queue.blocks) :
         \E m \in 1..Len(q.blocks) : q.blocks[m].base = queue.blocks[l].base
  BY <1>1, <1>4 DEF SameShards
<1>8. q \in Queue
  BY <1>4 DEF ListInv
<1>9. q.blocks # <<>>
  <2>1. 1..Len(q.blocks) # {}
    BY <1>3, <1>4 DEF SameShards
  <2> QED BY <2>1
<1> QED BY <1>2, <1>4, <1>5, <1>6, <1>7, <1>8, <1>9 DEF A

LEMMA QueuePacketKeeps ==
  ASSUME AudioInv, NEW p \in Packet, QueuePacket(p), newest' \in 1..MaxBlock
  PROVE  /\ AudioInv' /\ output' = output
         /\ \/ queue'.nextRtpSequenceNumber = queue.nextRtpSequenceNumber
            \/ /\ queue.nextRtpSequenceNumber = queue.oldestRtpBaseSequenceNumber
               /\ Before(queue.nextRtpSequenceNumber, queue'.nextRtpSequenceNumber)
               /\ OnGrid(queue'.nextRtpSequenceNumber)
               /\ \A l \in 1..Len(queue.blocks) :
                    ~Before(queue.blocks[l].base, queue'.nextRtpSequenceNumber)
<1> DEFINE A == Unplayed(arrived \union {<<Base(p), p.shard>>})
           same == queue'.nextRtpSequenceNumber = queue.nextRtpSequenceNumber
           jump == /\ queue.nextRtpSequenceNumber = queue.oldestRtpBaseSequenceNumber
                   /\ Before(queue.nextRtpSequenceNumber, queue'.nextRtpSequenceNumber)
                   /\ OnGrid(queue'.nextRtpSequenceNumber)
                   /\ \A l \in 1..Len(queue.blocks) :
                        ~Before(queue.blocks[l].base, queue'.nextRtpSequenceNumber)
<1>1. /\ queue \in Queue /\ Behind(queue, output) /\ output \in Output
      /\ restarted \in BOOLEAN /\ ~Unstarted
  BY DEF AudioInv, ListInv, QueuePacket, Accepts
<1>2. output' = output /\ arrived' = A /\ pulling' \in BOOLEAN /\ restarted' = restarted
  <2>1. /\ output' = output /\ arrived' = A /\ pulling' = PacketReady(queue')
        /\ restarted' = restarted
    BY DEF QueuePacket
  <2>2. PacketReady(queue') \in BOOLEAN
    BY DEF PacketReady
  <2> QED BY <2>1, <2>2
<1>3. PICK q \in Queue :
         /\ ListInv(q) /\ SameNumbers(queue, q) /\ Exact(q, A)
         /\ \A l \in 1..Len(queue.blocks) :
              \E n \in 1..Len(q.blocks) : q.blocks[n].base = queue.blocks[l].base
         /\ \/ queue' = q
            \/ q.blocks # <<>> /\ \E timedOut : queue' = MissingHandled(q, timedOut)
  BY QueuePacketFacts
<1> HIDE DEF A
<1>4. /\ q.nextRtpSequenceNumber = queue.nextRtpSequenceNumber
      /\ q.oldestRtpBaseSequenceNumber = queue.oldestRtpBaseSequenceNumber
      /\ q.synchronizing = queue.synchronizing
  BY <1>3 DEF SameNumbers
<1>5. ASSUME ListInv(queue'), SameNumbers(q, queue'), SameShards(q, queue')
      PROVE  AudioInv' /\ same
  <2>1. Exact(queue', A)
    BY <1>3, <1>5, SameShardsExact
  <2>2. Heard(queue', arrived')
    BY <1>2, <2>1, ExactIsHeard
  <2>3. /\ queue'.nextRtpSequenceNumber = queue.nextRtpSequenceNumber
        /\ queue'.oldestRtpBaseSequenceNumber = queue.oldestRtpBaseSequenceNumber
        /\ queue'.synchronizing = queue.synchronizing
    BY <1>4, <1>5 DEF SameNumbers
  <2>4. \A l \in 1..Len(queue.blocks) :
          \E n \in 1..Len(queue'.blocks) : queue'.blocks[n].base = queue.blocks[l].base
    BY <1>3, <1>5 DEF SameShards
  <2>5. Behind(queue', output')
    BY <1>1, <1>2, <2>3, <2>4 DEF Behind
  <2>6. ~Unstarted'
    BY <1>1, <2>3 DEF Unstarted
  <2> QED BY <1>1, <1>2, <1>5, <2>2, <2>3, <2>5, <2>6 DEF AudioInv
<1>6. ASSUME queue' = q PROVE AudioInv' /\ same
  <2>1. SameNumbers(q, q) /\ SameShards(q, q) /\ ListInv(q)
    BY <1>3 DEF SameNumbers, SameShards
  <2>2. ListInv(queue') /\ SameNumbers(q, queue') /\ SameShards(q, queue')
    BY <1>6, <2>1, Zenon
  <2> QED BY <1>5, <2>2, Zenon
<1>7. ASSUME q.blocks # <<>>, Before(q.nextRtpSequenceNumber, BlockHead(q).base),
             queue' = [q EXCEPT !.nextRtpSequenceNumber = BlockHead(q).base,
                                !.oldestRtpBaseSequenceNumber = BlockHead(q).base]
      PROVE  AudioInv' /\ jump
  <2> DEFINE h == q.blocks[1].base
  <2>1. /\ ListInv(queue') /\ SameShards(q, queue')
        /\ queue'.nextRtpSequenceNumber = h
        /\ queue'.oldestRtpBaseSequenceNumber = h /\ 1 \in 1..Len(queue'.blocks)
        /\ q.nextRtpSequenceNumber = q.oldestRtpBaseSequenceNumber
        /\ Ahead(q.nextRtpSequenceNumber, h) \in 1..(Half - 1)
        /\ \A n \in 1..Len(q.blocks) : q.blocks[n].base # q.oldestRtpBaseSequenceNumber
    BY <1>3, <1>7, SkippedKeeps, Zenon
  <2>2. Heard(queue', arrived')
    BY <1>2, <1>3, <2>1, SameShardsExact, ExactIsHeard
  <2>3. queue'.blocks[1].base = h
    BY <2>1 DEF SameShards
  <2>4. queue' \in Queue /\ Placed(queue') /\ h \in SeqNumber /\ OnGrid(h)
    BY <2>1, <2>3, QueueFields DEF ListInv, Placed
  <2>5. queue'.blocks # <<>>
    BY <2>1, <2>4, QueueFields
  <2>7. Behind(queue', output')
    <3> SUFFICES ASSUME output.kind # "none"
                 PROVE  Ahead(output.seq, h) \in 1..Half
      BY <1>2, <2>1, <2>3 DEF Behind
    <3>1. Ahead(output.seq, queue.nextRtpSequenceNumber) = 1
      <4>1. ~ \E n \in 1..Len(queue.blocks) : queue.blocks[n].base = queue.oldestRtpBaseSequenceNumber
        BY <1>3, <1>4, <2>1
      <4> QED BY <1>1, <4>1 DEF Behind
    <3>2. output.seq \in SeqNumber /\ queue.nextRtpSequenceNumber \in SeqNumber
      BY <1>1, QueueFields DEF Output
    <3> QED BY <1>4, <2>1, <2>4, <3>1, <3>2, OneFurther
  <2>8. jump
    <3>1. BlockHead(q).base = h
      BY <1>3, <1>7, HeadDue
    <3>2. queue.nextRtpSequenceNumber = queue.oldestRtpBaseSequenceNumber
          /\ Before(queue.nextRtpSequenceNumber, queue'.nextRtpSequenceNumber)
          /\ OnGrid(queue'.nextRtpSequenceNumber)
      BY <1>4, <1>7, <2>1, <2>4, <3>1
    <3>3. ASSUME NEW l \in 1..Len(queue.blocks)
          PROVE  ~Before(queue.blocks[l].base, queue'.nextRtpSequenceNumber)
      <4>1. PICK n \in 1..Len(queue'.blocks) : queue'.blocks[n].base = queue.blocks[l].base
        BY <1>3, <2>1 DEF SameShards
      <4>2. queue'.blocks[n].base \in SeqNumber /\ Ahead(h, queue'.blocks[n].base) < Half
            /\ Ahead(h, queue'.blocks[n].base) \in Nat
        BY <2>1, <2>4, Distances DEF Placed
      <4> HIDE DEF h
      <4>3. ~Before(queue'.blocks[n].base, h)
        <5>1. PICK x \in SeqNumber : x = queue'.blocks[n].base
          BY <4>2
        <5>2. Half \in Nat /\ ~(Ahead(h, x) >= Half)
          BY <4>2, <5>1, Sizes
        <5>3. ~Before(x, h)
          BY <2>4, <5>2, BeforeIs
        <5> QED BY <5>1, <5>3
      <4> QED BY <2>1, <4>1, <4>3
    <3> QED BY <3>2, <3>3
  <2> QED BY <1>1, <1>2, <2>1, <2>2, <2>5, <2>7, <2>8 DEF AudioInv
<1>8. ASSUME q.blocks # <<>>, ~Before(q.nextRtpSequenceNumber, BlockHead(q).base), Len(q.blocks) > 1,
             queue' = [q EXCEPT !.blocks[1].allowDiscontinuity = TRUE]
      PROVE  AudioInv' /\ same
  BY <1>3, <1>5, <1>8, GivenUpKeeps, Zenon
<1>9. \/ queue' = q
      \/ /\ q.blocks # <<>> /\ Before(q.nextRtpSequenceNumber, BlockHead(q).base)
         /\ queue' = [q EXCEPT !.nextRtpSequenceNumber = BlockHead(q).base,
                               !.oldestRtpBaseSequenceNumber = BlockHead(q).base]
      \/ /\ q.blocks # <<>> /\ ~Before(q.nextRtpSequenceNumber, BlockHead(q).base) /\ Len(q.blocks) > 1
         /\ queue' = [q EXCEPT !.blocks[1].allowDiscontinuity = TRUE]
  BY <1>3, Zenon DEF MissingHandled
<1> HIDE DEF same, jump
<1>10. AudioInv' /\ (same \/ jump)
  BY <1>6, <1>7, <1>8, <1>9, Zenon
<1> QED BY <1>2, <1>10 DEF same, jump

\* A packet is ready in the first block, which is the one at the oldest number.
LEMMA HeadReady ==
  ASSUME NEW q, ListInv(q), PacketReady(q)
  PROVE  /\ q.blocks # <<>> /\ 1 \in 1..Len(q.blocks) /\ BlockHead(q) = q.blocks[1]
         /\ q.blocks[1].base = q.oldestRtpBaseSequenceNumber
         /\ q.nextRtpSequenceNumber = q.blocks[1].base + q.blocks[1].nextDataPacketIndex
         /\ Plus(q.blocks[1].base, q.blocks[1].nextDataPacketIndex) = q.nextRtpSequenceNumber
<1> DEFINE head == q.blocks[1]
           o == q.oldestRtpBaseSequenceNumber
<1>1. q \in Queue /\ Placed(q) /\ Sorted(q) /\ CursorAt(q)
  BY DEF ListInv
<1>2. q.blocks # <<>>
  BY DEF PacketReady
<1>3. 1 \in 1..Len(q.blocks) /\ BlockHead(q) = head
  BY <1>2, HeadDue
<1>4. /\ o \in SeqNumber /\ OnGrid(o) /\ head.base \in SeqNumber
      /\ head.nextDataPacketIndex \in 0..(DataShards - 1)
  BY <1>1, <1>3, QueueFields, Distances DEF Placed
<1>5. head.base = o
  <2>1. CASE head.base # o
    <3>1. /\ q.nextRtpSequenceNumber = o /\ head.nextDataPacketIndex = 0
          /\ ~head.allowDiscontinuity
      BY <1>2, <1>3, <2>1, HeadDue
    <3>2. head.base + 0 = head.base
      BY <1>4, Sizes
    <3> QED BY <1>3, <2>1, <3>1, <3>2 DEF PacketReady
  <2> QED BY <2>1
<1>6. q.nextRtpSequenceNumber = head.base + head.nextDataPacketIndex
  BY <1>1, <1>3, <1>5 DEF CursorAt
<1>7. Plus(head.base, head.nextDataPacketIndex) = head.base + head.nextDataPacketIndex
  BY <1>4, <1>5, InBlock
<1> QED BY <1>2, <1>3, <1>5, <1>6, <1>7

LEMMA HandOverKeeps ==
  ASSUME AudioInv, PacketReady(queue),
         NEW kind \in {"sent", "recovered", "lost"}, HandOver(kind)
  PROVE  /\ AudioInv'
         /\ output' = [seq |-> queue.nextRtpSequenceNumber, kind |-> kind]
         /\ queue'.nextRtpSequenceNumber = Plus(queue.nextRtpSequenceNumber, 1)
         /\ Exact(queue, arrived')
<1> DEFINE r == FreeHeadIfDone([queue EXCEPT !.nextRtpSequenceNumber = Plus(@, 1),
                                             !.blocks[1].nextDataPacketIndex = @ + 1])
<1>1. /\ queue \in Queue /\ ListInv(queue) /\ Placed(queue) /\ Heard(queue, arrived)
      /\ pulling \in BOOLEAN /\ newest \in 1..MaxBlock /\ restarted \in BOOLEAN
  BY DEF AudioInv, ListInv
<1>2. /\ queue.blocks # <<>> /\ BlockHead(queue) = queue.blocks[1]
      /\ queue.blocks[1].base = queue.oldestRtpBaseSequenceNumber
      /\ Plus(queue.blocks[1].base, queue.blocks[1].nextDataPacketIndex) = queue.nextRtpSequenceNumber
  BY <1>1, HeadReady
<1>3. /\ queue' = r /\ arrived' = Unplayed(arrived) /\ pulling' = pulling /\ newest' = newest
      /\ restarted' = restarted
      /\ output' = [seq |-> queue.nextRtpSequenceNumber, kind |-> kind]
  BY <1>2 DEF HandOver
<1>4. Exact(queue, arrived')
  BY <1>1, <1>3, UnplayedIs, PrunedIsExact
<1>5. /\ ListInv(r) /\ Heard(r, arrived')
      /\ r.nextRtpSequenceNumber = Plus(queue.nextRtpSequenceNumber, 1)
      /\ r.synchronizing =>
           queue.synchronizing /\ r.oldestRtpBaseSequenceNumber = queue.oldestRtpBaseSequenceNumber
  BY <1>1, <1>2, <1>4, PlayedKeeps, Zenon
<1>9. ~(r.synchronizing /\ r.blocks = <<>>)
  <2>1. Len(queue.blocks) \in Nat \ {0} /\ queue.blocks[1].nextDataPacketIndex \in Int
    BY <1>1, <1>2, QueueFields, BlockFields, HeadDue
  <2>2. r.synchronizing => Len(r.blocks) = Len(queue.blocks)
    BY <1>1, <1>2, PlayedFields
  <2> HIDE DEF r
  <2> QED BY <2>1, <2>2
<1> HIDE DEF r
<1>6. queue.nextRtpSequenceNumber \in SeqNumber
  BY <1>1, QueueFields
<1>7. Behind(queue', output')
  BY <1>3, <1>5, <1>6, PlayedBehind
<1>8. output' \in Output
  BY <1>3, <1>6 DEF Output
<1> QED BY <1>1, <1>3, <1>4, <1>5, <1>7, <1>8, <1>9 DEF AudioInv, Unstarted

\* What a pull hands over.
PullKind ==
  IF ~Present(BlockHead(queue), BlockHead(queue).nextDataPacketIndex) THEN "lost"
  ELSE IF BlockHead(queue).nextDataPacketIndex \in BlockHead(queue).received THEN "sent"
  ELSE "recovered"

LEMMA PullIs ==
  ASSUME PullLost \/ PullPacket
  PROVE  PacketReady(queue) /\ HandOver(PullKind) /\ PullKind \in {"sent", "recovered", "lost"}
<1>1. CASE PullLost
  BY <1>1 DEF PullLost, PullKind
<1>2. CASE PullPacket
  BY <1>2 DEF PullPacket, PullKind
<1> QED BY <1>1, <1>2

\* Once restarted, a queue counts as restarted.
LEMMA StaysRestarted ==
  ASSUME [Next]_vars, ~restarted'
  PROVE  ~restarted
BY DEF Next, AddPacket, Synchronize, RejectPacket, HandleNow, QueuePacket, PullLost, PullPacket,
       HandOver, PullNothing, vars

LEMMA StepKeeps ==
  ASSUME AudioInv, ~restarted', [Next]_vars
  PROVE  AudioInv'
<1>1. ASSUME NEW p \in Packet, AddPacket(p) PROVE AudioInv'
  <2>1. newest' \in 1..MaxBlock
    <3>1. p.block \in 1..MaxBlock /\ newest \in 1..MaxBlock
      BY DEF Packet, AudioInv
    <3> QED BY <1>1, <3>1 DEF AddPacket
  <2>2. CASE Synchronize(p)
    BY <2>1, <2>2, SynchronizeKeeps
  <2>3. CASE RejectPacket(p)
    BY <2>1, <2>3, RejectKeeps
  <2>4. CASE HandleNow(p)
    BY <2>1, <2>4, HandleNowKeeps
  <2>5. CASE QueuePacket(p)
    BY <2>1, <2>5, QueuePacketKeeps
  <2> QED BY <1>1, <2>2, <2>3, <2>4, <2>5 DEF AddPacket
<1>2. CASE PullLost \/ PullPacket
  BY <1>2, PullIs, HandOverKeeps
<1>3. CASE PullNothing
  BY <1>3 DEF PullNothing, AudioInv, Unstarted
<1>4. CASE UNCHANGED vars
  BY <1>4 DEF vars, AudioInv, Unstarted
<1> QED BY <1>1, <1>2, <1>3, <1>4 DEF Next

\* The queue stays in order and says exactly what has arrived, until one in use
\* is taken for one that was never started.
THEOREM AudioInvariant == Spec => [](~restarted => AudioInv)
<1>1. Init => (~restarted => AudioInv)
  BY InitHolds
<1>2. (~restarted => AudioInv) /\ [Next]_vars => (~restarted => AudioInv)'
  BY StepKeeps, StaysRestarted
<1> QED BY <1>1, <1>2, PTL DEF Spec

-----------------------------------------------------------------------------
(***************************************************************************)
(* The properties.                                                         *)
(***************************************************************************)
LEMMA InvMatchesWindow == (~restarted => AudioInv) => ListMatchesWindow
<1> SUFFICES ASSUME ~restarted, AudioInv PROVE ListMatchesWindow
  BY DEF ListMatchesWindow
<1> DEFINE q == queue
           o == queue.oldestRtpBaseSequenceNumber
           next == queue.nextRtpSequenceNumber
<1>1. q \in Queue /\ ListInv(q) /\ Placed(q) /\ Sorted(q) /\ CursorAt(q)
  BY DEF AudioInv, ListInv
<1>2. TypeOK
  <2>1. arrived \in SUBSET (SeqNumber \X Shard)
    BY DEF AudioInv, Heard
  <2>2. q.blocks \in Seq(Block)
    BY <1>1, QueueFields
  <2>3. /\ next \in SeqNumber /\ o \in SeqNumber /\ q.lastOosSequenceNumber \in SeqNumber
        /\ q.receivedOosData \in BOOLEAN /\ q.synchronizing \in BOOLEAN
    BY <1>1, QueueFields
  <2> QED BY <2>1, <2>2, <2>3 DEF AudioInv, TypeOK, Block, Output
<1>3. /\ DOMAIN q.blocks = 1..Len(q.blocks) /\ Len(q.blocks) \in Nat
      /\ o \in SeqNumber /\ OnGrid(o) /\ next \in SeqNumber
      /\ Half \in Nat /\ DataShards \in Nat \ {0} /\ DataShards <= Half /\ SeqModulus = 2 * Half
      /\ \A n \in 1..Len(q.blocks) :
           /\ q.blocks[n].base \in SeqNumber /\ OnGrid(q.blocks[n].base)
           /\ Ahead(o, q.blocks[n].base) \in Nat /\ Ahead(o, q.blocks[n].base) < Half
           /\ q.blocks[n].nextDataPacketIndex \in 0..(DataShards - 1)
  BY <1>1, QueueFields, Distances, Sizes DEF Placed
<1>4. PICK c \in 0..(DataShards - 1) : next = o + c
  <2>1. CASE \A n \in 1..Len(q.blocks) : q.blocks[n].base # o
    <3>1. next = o
      BY <1>1, <2>1 DEF CursorAt
    <3>2. o + 0 = o /\ 0 \in 0..(DataShards - 1)
      BY <1>3, Sizes
    <3> QED BY <3>1, <3>2, Zenon
  <2>2. ASSUME NEW n \in 1..Len(q.blocks), q.blocks[n].base = o
        PROVE  \E c \in 0..(DataShards - 1) : next = o + c
    BY <1>1, <1>3, <2>2 DEF CursorAt
  <2> QED BY <2>1, <2>2
<1>5. Ahead(o, next) = c /\ Ahead(o, next) \in Nat
  BY <1>3, <1>4, InBlock
<1> HIDE DEF next, o, q
<1>6. ~Before(next, o)
  <2>1. ~(Ahead(o, next) >= Half)
    BY <1>3, <1>4, <1>5
  <2> QED BY <1>3, <2>1, BeforeIs
<1>7. ASSUME NEW m \in 1..Len(q.blocks), NEW n \in 1..Len(q.blocks), m < n
      PROVE  /\ Before(q.blocks[m].base, q.blocks[n].base)
             /\ q.blocks[n].nextDataPacketIndex = 0 /\ ~q.blocks[n].allowDiscontinuity
  <2>1. Ahead(o, q.blocks[m].base) < Ahead(o, q.blocks[n].base)
    BY <1>1, <1>7 DEF Sorted, o, q
  <2>2. Before(q.blocks[m].base, q.blocks[n].base)
    BY <1>3, <2>1, Order
  <2>3. n # 1
    BY <1>3, <1>7
  <2>4. q.blocks[n].base # o
    BY <1>1, <2>3, OldestFirst DEF o, q
  <2> QED BY <1>1, <2>2, <2>4 DEF CursorAt, o, q
<1>8. ASSUME q.blocks # <<>>
      PROVE  /\ BlockHead(q) = q.blocks[1]
             /\ ~Before(q.blocks[1].base, o)
             /\ Before(next, Plus(q.blocks[1].base, DataShards))
             /\ Before(next, q.blocks[1].base) => q.blocks[1].nextDataPacketIndex = 0
             /\ ~Before(next, q.blocks[1].base) => next = q.blocks[1].base + q.blocks[1].nextDataPacketIndex
  <2> DEFINE h == q.blocks[1].base
             v == Plus(h, DataShards)
  <2>1. /\ 1 \in 1..Len(q.blocks) /\ BlockHead(q) = q.blocks[1]
        /\ Before(next, h) <=> h # o
        /\ h # o => next = o /\ q.blocks[1].nextDataPacketIndex = 0
    <3>1. 1 \in 1..Len(q.blocks) /\ BlockHead(q) = q.blocks[1] /\ (Before(next, h) <=> h # o)
      BY <1>1, <1>8, HeadDue, Zenon DEF next, o, q
    <3>2. h # o => next = o /\ q.blocks[1].nextDataPacketIndex = 0
      BY <1>1, <1>8, HeadDue, Zenon DEF next, o, q
    <3> QED BY <3>1, <3>2
  <2>2. /\ h \in SeqNumber /\ OnGrid(h) /\ Ahead(o, h) \in Nat /\ Ahead(o, h) < Half
    BY <1>3, <2>1
  <2>3. v \in SeqNumber /\ Ahead(h, v) = DataShards
    BY <2>2, NextBlock
  <2>4. h = o => next = h + q.blocks[1].nextDataPacketIndex
    <3>1. IF h = o THEN next = o + q.blocks[1].nextDataPacketIndex ELSE TRUE
      BY <1>1, <2>1 DEF CursorAt, next, o, q
    <3> QED BY <3>1, Zenon
  <2> HIDE DEF h, v
  <2>5. ~Before(h, o)
    BY <1>3, <2>2, BeforeIs
  <2>6. Before(next, v)
    <3>1. CASE h = o
      <4>1. Ahead(o, v) = DataShards
        BY <2>3, <3>1
      <4>2. Ahead(v, next) = SeqModulus - (DataShards - c)
        <5>1. Ahead(o, next) < Ahead(o, v)
          BY <1>3, <1>4, <1>5, <4>1
        <5>2. Ahead(v, next) = SeqModulus - (Ahead(o, v) - Ahead(o, next))
          BY <1>3, <2>3, <5>1, AheadApart
        <5> QED BY <1>5, <4>1, <5>2
      <4>3. Ahead(v, next) >= Half
        BY <1>3, <1>4, <4>2
      <4> QED BY <1>3, <2>3, <4>3, BeforeIs
    <3>2. CASE h # o
      <4>1. next = o
        BY <2>1, <3>2
      <4>2. /\ Ahead(o, h) = IF h >= o THEN h - o ELSE h - o + SeqModulus
            /\ Ahead(h, v) = IF v >= h THEN v - h ELSE v - h + SeqModulus
            /\ Ahead(v, o) = IF o >= v THEN o - v ELSE o - v + SeqModulus
        BY <1>3, <2>2, <2>3, AheadValue
      <4>3. Ahead(o, h) + DataShards <= Half
        BY <1>3, <2>2, GridSteps
      <4>4. Ahead(v, o) >= Half
        BY <1>3, <2>2, <2>3, <4>2, <4>3, Sizes
      <4> QED BY <1>3, <2>3, <4>1, <4>4, BeforeIs
    <3> QED BY <3>1, <3>2
  <2> QED BY <2>1, <2>4, <2>5, <2>6 DEF h, v
<1>9. \A m, n \in 1..Len(q.blocks) :
         m < n => /\ Before(q.blocks[m].base, q.blocks[n].base)
                  /\ q.blocks[n].nextDataPacketIndex = 0
                  /\ ~q.blocks[n].allowDiscontinuity
  BY <1>7
<1> QED BY <1>2, <1>3, <1>6, <1>8, <1>9, Zenon DEF ListMatchesWindow, q, o, next

\* validateFecBlockState() and the assertions on the list hold for any shard
\* counts and however packets are lost, repeated and reordered, until a queue in
\* use is taken for one that was never started.
THEOREM ListAlwaysMatches == Spec => []ListMatchesWindow
BY InvMatchesWindow, AudioInvariant, PTL

\* A step that hands something over hands over what is due.
LEMMA HandsOverWhatIsDue ==
  ASSUME AudioInv, output'.seq = queue.nextRtpSequenceNumber, output'.kind # "none"
  PROVE  output' # output
<1>1. CASE output' = output
  <2>1. Ahead(queue.nextRtpSequenceNumber, queue.nextRtpSequenceNumber) \in 1..Half
    BY <1>1 DEF AudioInv, Behind
  <2>2. queue.nextRtpSequenceNumber \in SeqNumber
    BY QueueFields DEF AudioInv, ListInv
  <2>3. Ahead(queue.nextRtpSequenceNumber, queue.nextRtpSequenceNumber) = 0
    BY <2>2, AheadType
  <2> QED BY <2>1, <2>3
<1> QED BY <1>1

\* What a step does to the number that is due.
LEMMA DueMoves ==
  ASSUME AudioInv, ~restarted', [Next]_vars, ~(Unstarted /\ queue.blocks = <<>>)
  PROVE  \/ /\ output' # output /\ output'.seq = queue.nextRtpSequenceNumber
            /\ queue'.nextRtpSequenceNumber = Plus(queue.nextRtpSequenceNumber, 1)
         \/ output' = output /\ queue'.nextRtpSequenceNumber = queue.nextRtpSequenceNumber
         \/ /\ output' = output
            /\ queue.nextRtpSequenceNumber = queue.oldestRtpBaseSequenceNumber
            /\ Before(queue.nextRtpSequenceNumber, queue'.nextRtpSequenceNumber)
            /\ OnGrid(queue'.nextRtpSequenceNumber)
            /\ \A l \in 1..Len(queue.blocks) :
                 ~Before(queue.blocks[l].base, queue'.nextRtpSequenceNumber)
<1> DEFINE next == queue.nextRtpSequenceNumber
           plays == /\ output' # output /\ output'.seq = next
                    /\ queue'.nextRtpSequenceNumber = Plus(next, 1)
           rests == output' = output /\ queue'.nextRtpSequenceNumber = next
           jumps == /\ output' = output /\ next = queue.oldestRtpBaseSequenceNumber
                    /\ Before(next, queue'.nextRtpSequenceNumber)
                    /\ OnGrid(queue'.nextRtpSequenceNumber)
                    /\ \A l \in 1..Len(queue.blocks) :
                         ~Before(queue.blocks[l].base, queue'.nextRtpSequenceNumber)
<1>1. ASSUME NEW p \in Packet, AddPacket(p) PROVE plays \/ rests \/ jumps
  <2>1. newest' \in 1..MaxBlock
    <3>1. p.block \in 1..MaxBlock /\ newest \in 1..MaxBlock
      BY DEF Packet, AudioInv
    <3> QED BY <1>1, <3>1 DEF AddPacket
  <2>2. ASSUME RejectPacket(p) PROVE rests
    <3>1. SameNumbers(queue, Sequenced(queue, p))
      BY SequencedFacts DEF AudioInv, ListInv
    <3> QED BY <2>2, <3>1 DEF RejectPacket, SameNumbers
  <2>3. ASSUME HandleNow(p) PROVE plays
    <3>1. output'.seq = next /\ queue'.nextRtpSequenceNumber = Plus(next, 1)
      BY <2>1, <2>3, HandleNowKeeps
    <3>2. output'.kind # "none"
      BY <2>3 DEF HandleNow
    <3> QED BY <3>1, <3>2, HandsOverWhatIsDue
  <2>4. ASSUME QueuePacket(p) PROVE rests \/ jumps
    BY <2>1, <2>4, QueuePacketKeeps
  <2>5. ~Synchronize(p)
    BY DEF Synchronize
  <2> QED BY <1>1, <2>2, <2>3, <2>4, <2>5 DEF AddPacket
<1>2. ASSUME PullLost \/ PullPacket PROVE plays
  <2>1. /\ output' = [seq |-> next, kind |-> PullKind] /\ PullKind \in {"sent", "recovered", "lost"}
        /\ queue'.nextRtpSequenceNumber = Plus(next, 1)
    BY <1>2, PullIs, HandOverKeeps
  <2>2. output'.seq = next /\ output'.kind # "none"
    BY <2>1
  <2> QED BY <2>1, <2>2, HandsOverWhatIsDue
<1>3. ASSUME PullNothing \/ UNCHANGED vars PROVE rests
  BY <1>3 DEF PullNothing, vars
<1> QED BY <1>1, <1>2, <1>3 DEF Next

\* Whatever is lost, repeated or reordered, every packet is handed over once
\* and in order, and only blocks of which nothing arrived are jumped over, until
\* a queue in use is taken for one that was never started.
THEOREM PlaysOnInOrder == Spec => NothingSkippedOrRepeated
<1>1. (~restarted => AudioInv) /\ [Next]_vars =>
       [LET next == queue.nextRtpSequenceNumber
            then == queue'.nextRtpSequenceNumber
        IN  ~restarted' /\ ~(Unstarted /\ queue.blocks = <<>>) =>
              IF output' # output THEN output'.seq = next /\ then = Plus(next, 1)
              ELSE then # next =>
                     /\ Before(next, then)
                     /\ next % DataShards = 0 /\ then % DataShards = 0
                     /\ \A x \in arrived : Before(x[1], next) \/ ~Before(x[1], then)]_vars
  <2> SUFFICES ASSUME AudioInv, [Next]_vars, ~restarted', ~(Unstarted /\ queue.blocks = <<>>)
               PROVE  IF output' # output
                      THEN output'.seq = queue.nextRtpSequenceNumber
                           /\ queue'.nextRtpSequenceNumber = Plus(queue.nextRtpSequenceNumber, 1)
                      ELSE queue'.nextRtpSequenceNumber # queue.nextRtpSequenceNumber =>
                             /\ Before(queue.nextRtpSequenceNumber, queue'.nextRtpSequenceNumber)
                             /\ queue.nextRtpSequenceNumber % DataShards = 0
                             /\ queue'.nextRtpSequenceNumber % DataShards = 0
                             /\ \A x \in arrived :
                                  \/ Before(x[1], queue.nextRtpSequenceNumber)
                                  \/ ~Before(x[1], queue'.nextRtpSequenceNumber)
    BY StaysRestarted, Zenon
  <2>1. ASSUME queue.nextRtpSequenceNumber = queue.oldestRtpBaseSequenceNumber,
               OnGrid(queue'.nextRtpSequenceNumber),
               \A l \in 1..Len(queue.blocks) :
                 ~Before(queue.blocks[l].base, queue'.nextRtpSequenceNumber)
        PROVE  /\ queue.nextRtpSequenceNumber % DataShards = 0
               /\ queue'.nextRtpSequenceNumber % DataShards = 0
               /\ \A x \in arrived :
                    \/ Before(x[1], queue.nextRtpSequenceNumber)
                    \/ ~Before(x[1], queue'.nextRtpSequenceNumber)
    <3>1. OnGrid(queue.nextRtpSequenceNumber)
      BY <2>1 DEF AudioInv, ListInv, Placed
    <3>2. \A x \in arrived :
            \/ Before(x[1], queue.nextRtpSequenceNumber)
            \/ ~Before(x[1], queue'.nextRtpSequenceNumber)
      BY <2>1, Zenon DEF AudioInv, Heard
    <3> QED BY <2>1, <3>1, <3>2, Zenon DEF OnGrid
  <2> QED BY <2>1, DueMoves, Zenon
<1> QED BY <1>1, AudioInvariant, PTL DEF Spec, NothingSkippedOrRepeated

\* The shards of a block, among the arrivals.
LEMMA CameSize ==
  ASSUME NEW b, NEW R, IsFiniteSet(R), NEW came, came = {<<b, i>> : i \in R}
  PROVE  Cardinality(came) = Cardinality(R)
<1> DEFINE f == [i \in R |-> <<b, i>>]
<1>1. f \in Bijection(R, came)
  <2>1. f \in [R -> came]
    OBVIOUS
  <2>2. \A i, j \in R : f[i] = f[j] => i = j
    OBVIOUS
  <2>3. \A x \in came : \E i \in R : f[i] = x
    OBVIOUS
  <2> HIDE DEF f
  <2> QED BY <2>1, <2>2, <2>3 DEF Bijection, Injection, Surjection, IsInjective
<1> QED BY <1>1, FS_Bijection DEF ExistsBijection

\* What a pull hands over, and what arrived of its block.
LEMMA PulledAsArrived ==
  ASSUME AudioInv, PullLost \/ PullPacket
  PROVE  LET base == BlockBase(output'.seq)
             here == <<base, output'.seq % DataShards>>
             came == {x \in arrived' : x[1] = base}
         IN  /\ output'.kind \in {"sent", "recovered", "lost"}
             /\ output'.kind = "sent" => here \in came
             /\ output'.kind = "recovered" => here \notin came /\ Cardinality(came) >= DataShards
             /\ output'.kind = "lost" =>
                  here \notin came /\ \E x \in arrived : Before(output'.seq, x[1])
<1> DEFINE o == queue.oldestRtpBaseSequenceNumber
           head == queue.blocks[1]
           i == head.nextDataPacketIndex
           came == {x \in arrived' : x[1] = o}
<1>1. /\ PacketReady(queue) /\ HandOver(PullKind) /\ PullKind \in {"sent", "recovered", "lost"}
      /\ output' = [seq |-> queue.nextRtpSequenceNumber, kind |-> PullKind]
      /\ Exact(queue, arrived')
  BY PullIs, HandOverKeeps
<1>2. /\ queue \in Queue /\ Placed(queue) /\ Sorted(queue) /\ CursorAt(queue) /\ Marked(queue)
      /\ Heard(queue, arrived)
  BY DEF AudioInv, ListInv
<1>3. /\ 1 \in 1..Len(queue.blocks) /\ BlockHead(queue) = head /\ head.base = o
      /\ queue.nextRtpSequenceNumber = o + i
  BY <1>1, HeadReady DEF AudioInv
<1>4. /\ o \in SeqNumber /\ OnGrid(o) /\ i \in 0..(DataShards - 1) /\ head.received \in SUBSET Shard
      /\ Len(queue.blocks) \in Nat /\ DataShards \in Nat \ {0} /\ Half \in Nat /\ DataShards <= Half
  BY <1>2, <1>3, QueueFields, BlockFields, Sizes DEF Placed
<1>5. /\ o + i \in SeqNumber /\ (o + i) % DataShards = i /\ BlockBase(o + i) = o
      /\ Ahead(o, o + i) = i
  BY <1>4, InBlock
<1>6. output'.seq = o + i /\ output'.kind = PullKind
  BY <1>1, <1>3
<1>7. BlockBase(output'.seq) = o /\ output'.seq % DataShards = i
  BY <1>5, <1>6
<1> HIDE DEF i
<1>8. came = {<<o, j>> : j \in head.received}
  <2>1. ASSUME NEW j \in head.received PROVE <<o, j>> \in came
    BY <1>1, <1>3 DEF Exact
  <2>2. ASSUME NEW x \in came PROVE \E j \in head.received : x = <<o, j>>
    <3>1. x \in SeqNumber \X Shard /\ x[1] = o
      BY <1>1 DEF Exact
    <3>2. PICK n \in 1..Len(queue.blocks) : queue.blocks[n].base = x[1] /\ x[2] \in queue.blocks[n].received
      BY <1>1 DEF Exact
    <3>3. n = 1
      BY <1>2, <3>1, <3>2, OldestFirst
    <3>4. x = <<x[1], x[2]>>
      BY <3>1
    <3> QED BY <3>1, <3>2, <3>3, <3>4
  <2> HIDE DEF came
  <2> QED BY <2>1, <2>2
<1> HIDE DEF came
<1>9. <<o, i>> \in came <=> i \in head.received
  BY <1>8
<1>10. PullKind = "sent" => i \in head.received
  BY <1>3 DEF PullKind, i
<1>11. PullKind = "recovered" => i \notin head.received /\ Cardinality(came) >= DataShards
  <2> SUFFICES ASSUME PullKind = "recovered"
               PROVE  i \notin head.received /\ Cardinality(came) >= DataShards
    OBVIOUS
  <2>1. i \notin head.received /\ head.fullyReassembled
    BY <1>3 DEF PullKind, Present, i
  <2>2. Cardinality(head.received) >= DataShards
    BY <1>2, <1>3, <2>1 DEF Marked
  <2>3. IsFiniteSet(Shard)
    BY Sizes, FS_Interval DEF Shard
  <2>4. IsFiniteSet(head.received)
    BY <1>4, <2>3, FS_Subset
  <2>5. Cardinality(came) = Cardinality(head.received)
    <3>1. PICK b, R : b = o /\ R = head.received
      OBVIOUS
    <3>2. came = {<<b, j>> : j \in R} /\ IsFiniteSet(R)
      BY <1>8, <2>4, <3>1
    <3>3. Cardinality(came) = Cardinality(R)
      BY ONLY <3>2, CameSize
    <3> QED BY <3>1, <3>3
  <2> QED BY <2>1, <2>2, <2>5
<1>12. PullKind = "lost" => i \notin head.received /\ \E x \in arrived : Before(o + i, x[1])
  <2> SUFFICES ASSUME PullKind = "lost"
               PROVE  i \notin head.received /\ \E x \in arrived : Before(o + i, x[1])
    OBVIOUS
  <2>1. i \notin head.received /\ ~Present(head, i)
    BY <1>3 DEF PullKind, Present, i
  <2>2. head.allowDiscontinuity
    BY <1>1, <1>3, <2>1 DEF PacketReady, i
  <2>3. Len(queue.blocks) > 1
    BY <1>2, <1>3, <2>2 DEF Marked
  <2>4. 2 \in 1..Len(queue.blocks) /\ 2 # 1
    BY <1>4, <2>3
  <2>5. PICK j \in queue.blocks[2].received : TRUE
    BY <1>2, <2>4 DEF Marked
  <2>6. <<queue.blocks[2].base, j>> \in arrived
    BY <1>2, <2>4, <2>5 DEF Heard
  <2>7. PICK b \in SeqNumber : /\ b = queue.blocks[2].base /\ b # o /\ OnGrid(b)
                               /\ Ahead(o, b) \in Nat /\ Ahead(o, b) < Half
    BY <1>2, <2>4, OldestFirst, Distances DEF Placed
  <2>8. Ahead(o, b) >= DataShards
    BY <1>4, <2>7, GridSteps
  <2>9. Ahead(o, o + i) < Ahead(o, b) /\ Ahead(o, o + i) < Half
    BY <1>4, <1>5, <2>7, <2>8
  <2>10. Before(o + i, b)
    BY <1>4, <1>5, <2>7, <2>9, Order
  <2> QED BY <2>1, <2>6, <2>7, <2>10
<1>13. came = {x \in arrived' : x[1] = BlockBase(output'.seq)}
  BY <1>7 DEF came
<1> HIDE DEF o
<1> QED BY <1>1, <1>6, <1>7, <1>9, <1>10, <1>11, <1>12, <1>13, Zenon

\* What is handed over at once has arrived.
LEMMA SentAsArrived ==
  ASSUME AudioInv, NEW p \in Packet, HandleNow(p)
  PROVE  LET base == BlockBase(output'.seq)
         IN  /\ output'.kind = "sent"
             /\ <<base, output'.seq % DataShards>> \in {x \in arrived' : x[1] = base}
<1> DEFINE o == queue.oldestRtpBaseSequenceNumber
<1>1. /\ output'.kind = "sent" /\ output'.seq = SeqNum(p) /\ Due(p)
      /\ arrived' = Unplayed(arrived \union {<<Base(p), p.shard>>})
  BY DEF HandleNow
<1>2. /\ Base(p) \in SeqNumber /\ OnGrid(Base(p)) /\ p.shard \in 0..(DataShards - 1)
      /\ SeqNum(p) = Base(p) + p.shard
  BY <1>1, Sent DEF Due
<1>3. BlockBase(SeqNum(p)) = Base(p) /\ SeqNum(p) % DataShards = p.shard
  BY <1>2, InBlock
<1>4. ListInv(queue) /\ queue \in Queue /\ Placed(queue) /\ CursorAt(queue)
  BY DEF AudioInv, ListInv
<1>5. Base(p) = o
  BY <1>1, <1>3, <1>4, DueBlock DEF Due
<1>6. ~Before(o, o)
  <2>1. Ahead(o, o) = 0
    BY <1>2, <1>5, AheadType
  <2>2. Half > 0
    BY Sizes
  <2>3. ~(Ahead(o, o) >= Half)
    BY <2>1, <2>2, Sizes
  <2> QED BY <1>2, <1>5, <2>3, BeforeIs
<1>7. <<Base(p), p.shard>> \in arrived'
  <2>1. arrived' = {x \in arrived \union {<<Base(p), p.shard>>} : ~Before(x[1], o)}
    BY <1>1, <1>4, UnplayedIs
  <2> QED BY <1>5, <1>6, <2>1
<1> QED BY <1>1, <1>3, <1>7

\* A packet that arrived in time is played as sent; one that did not is
\* recovered from enough shards or, once something of a later block has come,
\* concealed; until a queue in use is taken for one that was never started.
THEOREM PlaysWhatArrived == Spec => PlayedAsArrived
<1>1. (~restarted => AudioInv) /\ [Next]_vars =>
       [~restarted /\ output' # output =>
          LET base == BlockBase(output'.seq)
              here == <<base, output'.seq % DataShards>>
              came == {x \in arrived' : x[1] = base}
          IN  CASE output'.kind = "sent"      -> here \in came
                [] output'.kind = "recovered" -> here \notin came /\ Cardinality(came) >= DataShards
                [] output'.kind = "lost"      ->
                       here \notin came /\ \E x \in arrived : Before(output'.seq, x[1])]_vars
  <2> SUFFICES ASSUME AudioInv, Next, output' # output
               PROVE  LET base == BlockBase(output'.seq)
                          here == <<base, output'.seq % DataShards>>
                          came == {x \in arrived' : x[1] = base}
                      IN  CASE output'.kind = "sent"      -> here \in came
                            [] output'.kind = "recovered" -> here \notin came /\ Cardinality(came) >= DataShards
                            [] output'.kind = "lost"      ->
                                   here \notin came /\ \E x \in arrived : Before(output'.seq, x[1])
    BY Zenon DEF vars
  <2>1. ASSUME NEW p \in Packet, AddPacket(p) PROVE HandleNow(p)
    BY <2>1 DEF AddPacket, Synchronize, RejectPacket, QueuePacket
  <2>2. CASE \E p \in Packet : AddPacket(p)
    <3>1. PICK p \in Packet : HandleNow(p)
      BY <2>1, <2>2
    <3>2. LET base == BlockBase(output'.seq)
          IN  /\ output'.kind = "sent"
              /\ <<base, output'.seq % DataShards>> \in {x \in arrived' : x[1] = base}
      BY <3>1, SentAsArrived
    <3> QED BY <3>2
  <2>3. CASE PullLost \/ PullPacket
    BY <2>3, PulledAsArrived
  <2>4. CASE PullNothing
    BY <2>4 DEF PullNothing
  <2> QED BY <2>2, <2>3, <2>4 DEF Next
<1> QED BY <1>1, AudioInvariant, PTL DEF Spec, PlayedAsArrived
=============================================================================
