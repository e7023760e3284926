------------------------ MODULE RtpVideoQueueProofs -------------------------
(***************************************************************************)
(* Proofs about RtpVideoQueue, for any number of frames and blocks, any    *)
(* block size below half of the sequence numbers and any first number:     *)
(* HolesExact, what reconstructFrame() asserts, FramesWhole, and that the  *)
(* queue implements FrameDelivery.                                         *)
(*                                                                         *)
(* BlockInv carries them.  It tells apart the places of the block that are *)
(* filled (Held) from those filled by a packet of the network (Sent): the  *)
(* counters are those of the second, the order and the fast path those of  *)
(* the first.  The code subtracts and compares 16-bit numbers; the lemmas  *)
(* of the second part turn that into places 0, 1, ... of the block, which  *)
(* is where a block shorter than half of the numbers is needed.  Most of   *)
(* the work is Filled: an accepted packet, above or below the highest so   *)
(* far, leaves missingPackets the number of holes below it.                *)
(***************************************************************************)
EXTENDS RtpVideoQueue, FiniteSetTheorems, SequenceTheorems, TLAPS

Pending == queue.pendingFecBlockList # <<>>

\* Places filled by a packet the host sent; the others were recovered.
Sent(q) == {IndexIn(q, e.seq) : e \in {f \in ToSet(q.pendingFecBlockList) : f.origin = "sent"}}
Top(q) == IndexIn(q, q.receivedHighestSequenceNumber)

\* The block that is collected is one the host sends.
BlockAt(q) ==
  /\ q.currentFrameNumber \in 1..MaxFrame
  /\ q.multiFecCurrentBlockNumber <= LastBlock[q.currentFrameNumber]
  /\ q.bufferLowestSequenceNumber = SeqAt(q.currentFrameNumber, q.multiFecCurrentBlockNumber, 0)

\* No place is filled twice.
Placed(q) ==
  /\ Held(q) \subseteq 0..(BlockPackets - 1)
  /\ Cardinality(Held(q)) = Len(q.pendingFecBlockList)

\* nextContiguousSequenceNumber is behind the unbroken run at the start, and on
\* the fast path behind everything.
RunFilled(q) ==
  LET next == IndexIn(q, q.nextContiguousSequenceNumber)
  IN  /\ next <= BlockPackets
      /\ 0..(next - 1) \subseteq Held(q)
      /\ q.useFastQueuePath => \A i \in Held(q) : i < next

\* The counters are those of the packets sent.
CountsMatch(q) ==
  /\ q.receivedDataPackets = Cardinality({i \in Sent(q) : i < DataPackets})
  /\ q.receivedParityPackets = Cardinality({i \in Sent(q) : i >= DataPackets})
  /\ q.pendingFecBlockList # <<>> =>
       /\ Top(q) \in Sent(q) /\ \A i \in Sent(q) : i <= Top(q)
       /\ q.missingPackets = Cardinality((0..Top(q)) \ Sent(q))

\* A loss was predicted: the frame can complete only by packets out of order.
Predicted(q) ==
  q.reportedLostFrame =>
    IF q.receivedOosData THEN q.lastOosFrame = q.currentFrameNumber
    ELSE q.missingPackets > ParityPackets /\ Held(q) = Sent(q)

Collecting(q) == BlockAt(q) /\ Placed(q) /\ RunFilled(q) /\ CountsMatch(q) /\ Predicted(q)

\* The list is the data packets of the first b blocks of frame f, in order.
WholeBlocks(list, f, b) ==
  /\ Len(list) = b * DataPackets
  /\ \A n \in 1..(b * DataPackets) :
       list[n].seq = SeqAt(f, (n - 1) \div DataPackets, (n - 1) % DataPackets)

\* The blocks of the frame that are complete.
Done(q) == WholeBlocks(q.completedFecBlockList, q.currentFrameNumber, q.multiFecCurrentBlockNumber)

\* The queue and the history between any two steps. Recovered packets are queued
\* only when enough were sent.
BlockInv ==
  /\ TypeOK
  /\ queue.currentFrameNumber <= MaxFrame =>
       queue.multiFecCurrentBlockNumber <= LastBlock[queue.currentFrameNumber]
  /\ queue.currentFrameNumber = MaxFrame + 1 => queue.multiFecCurrentBlockNumber = 0
  /\ Pending => /\ Collecting(queue)
                /\ Sent(queue) \subseteq arrived /\ arrived \subseteq Held(queue)
                /\ Held(queue) # Sent(queue) => Enough /\ Cardinality(Sent(queue)) >= DataPackets
  /\ phase # "waiting" => Pending
  /\ phase = "recovering" => Enough /\ (queue.reportedLostFrame => queue.receivedOosData)

\* What is staged of the frame, and the frame last submitted.
FrameInv == Done(queue) /\ submitted.frame < queue.currentFrameNumber

\* The queue in the middle of a call: the bounds of its counters aside.
Record ==
  [pendingFecBlockList : Seq(Entry), completedFecBlockList : Seq(Entry),
   bufferLowestSequenceNumber : SeqNumber, nextContiguousSequenceNumber : SeqNumber,
   receivedHighestSequenceNumber : SeqNumber,
   receivedDataPackets : Nat, receivedParityPackets : Nat, missingPackets : Int,
   useFastQueuePath : BOOLEAN, reportedLostFrame : BOOLEAN,
   currentFrameNumber : 1..(MaxFrame + 1), multiFecCurrentBlockNumber : 0..3,
   receivedOosData : BOOLEAN, lastOosFrame : 0..MaxFrame]

\* The place of a sequence number in a block that starts at l, and the number of
\* a place.
Place(l, s) == U16(s - l)
At(l, i) == U16(l + i)

-----------------------------------------------------------------------------
\* Arithmetic: a remainder near the modulus, the uniqueness of quotient and
\* remainder, their values, and the remainder of a sum.
LEMMA Modulo ==
  ASSUME NEW M \in Nat \ {0}, NEW x \in Int
  PROVE  /\ x % M \in 0..(M - 1)
         /\ 0 <= x /\ x < M => x % M = x
         /\ x < 0 /\ x + M >= 0 => x % M = x + M
         /\ x >= M /\ x < 2 * M => x % M = x - M
OBVIOUS

LEMMA Division ==
  ASSUME NEW M \in Nat \ {0}, NEW a \in Int, NEW b \in Int, NEW r \in 0..(M - 1), NEW s \in 0..(M - 1),
         M * a + r = M * b + s
  PROVE  a = b /\ r = s
<1>1. ASSUME NEW c \in Int, NEW d \in Int, c < d PROVE M * d >= M * c + M
  <2>1. M * (d - c - 1) >= 0
    BY <1>1
  <2> QED BY <2>1
<1> QED BY <1>1

LEMMA Remainder ==
  ASSUME NEW M \in Nat \ {0}, NEW a \in Int, NEW r \in 0..(M - 1)
  PROVE  (M * a + r) % M = r /\ (M * a + r) \div M = a
<1> DEFINE x == M * a + r
<1>1. x \in Int /\ x = M * (x \div M) + (x % M) /\ x % M \in 0..(M - 1) /\ x \div M \in Int
  OBVIOUS
<1> QED BY <1>1, Division

LEMMA ModuloSum ==
  ASSUME NEW M \in Nat \ {0}, NEW x \in Int, NEW y \in Int
  PROVE  (x + y) % M = ((x % M) + y) % M
<1>1. PICK q \in Int, r \in Int : x % M = r /\ q = x \div M /\ x = M * q + r
  OBVIOUS
<1>2. PICK a \in Int, s \in 0..(M - 1) : r + y = M * a + s /\ (r + y) % M = s
  <2>1. r + y \in Int
    OBVIOUS
  <2> QED BY <2>1
<1>3. PICK mq \in Int, ma \in Int : mq = M * q /\ ma = M * a /\ mq + ma = M * (q + a)
  OBVIOUS
<1>4. x + y = (mq + ma) + s
  <2>1. x = mq + r /\ r + y = ma + s
    BY <1>1, <1>2, <1>3
  <2> QED BY <2>1
<1>5. PICK k \in Int : k = q + a
  OBVIOUS
<1>6. x + y = M * k + s /\ (M * k + s) % M = s
  BY <1>3, <1>4, <1>5, Remainder
<1> QED BY <1>1, <1>2, <1>6

\* What the assumption says of the constants.
LEMMA Sizes ==
  /\ SeqModulus \in Nat \ {0} /\ DataPackets \in Nat \ {0} /\ ParityPackets \in Nat
  /\ MaxFrame \in Nat \ {0} /\ BlockPackets \in Nat /\ BlockPackets = DataPackets + ParityPackets
  /\ 2 * BlockPackets <= SeqModulus /\ FirstSeq \in SeqNumber
  /\ SeqNumber = 0..(SeqModulus - 1) /\ LastBlock \in [1..MaxFrame -> 0..3]
  /\ SeqModulus \div 2 \in Nat /\ BlockPackets < SeqModulus \div 2
  /\ 2 * (SeqModulus \div 2) <= SeqModulus /\ SeqModulus <= 2 * (SeqModulus \div 2) + 1
BY RtpVideoQueueAssumption DEF BlockPackets, SeqNumber

\* A place of a block is far from the modulus.
LEMMA InBlock ==
  ASSUME NEW n \in 0..BlockPackets
  PROVE  n \in 0..SeqModulus /\ n < SeqModulus /\ n \in Int
BY Sizes

\* U16() of a difference or a sum: it wraps at most once.
LEMMA Wrap ==
  ASSUME NEW x \in Int
  PROVE  /\ U16(x) \in SeqNumber
         /\ 0 <= x /\ x < SeqModulus => U16(x) = x
         /\ x < 0 /\ x + SeqModulus >= 0 => U16(x) = x + SeqModulus
         /\ x >= SeqModulus /\ x < 2 * SeqModulus => U16(x) = x - SeqModulus
BY Sizes, Modulo DEF U16

LEMMA WrapSum ==
  ASSUME NEW x \in Int, NEW y \in Int
  PROVE  U16(x + y) = U16(U16(x) + y)
BY Sizes, ModuloSum DEF U16

LEMMA PlaceValue ==
  ASSUME NEW l \in SeqNumber, NEW s \in SeqNumber
  PROVE  U16(s - l) = IF s >= l THEN s - l ELSE s - l + SeqModulus
<1>1. s - l \in Int /\ s - l < SeqModulus /\ s - l + SeqModulus >= 0 /\ (s - l >= 0 <=> s >= l)
  BY Sizes
<1> QED BY <1>1, Wrap

LEMMA SeqValue ==
  ASSUME NEW l \in SeqNumber, NEW i \in 0..SeqModulus
  PROVE  U16(l + i) = IF l + i < SeqModulus THEN l + i ELSE l + i - SeqModulus
<1>1. l + i \in Int /\ l + i >= 0 /\ l + i < 2 * SeqModulus
  BY Sizes
<1> QED BY Sizes, <1>1, Wrap

\* Places and sequence numbers are numbers below the modulus.
LEMMA PlaceType ==
  ASSUME NEW l \in SeqNumber, NEW s \in SeqNumber
  PROVE  Place(l, s) \in SeqNumber /\ U16(s - l) \in SeqNumber
<1>1. U16(s - l) = IF s >= l THEN s - l ELSE s - l + SeqModulus
  BY PlaceValue
<1> QED BY Sizes, <1>1 DEF Place

\* Places and sequence numbers.
LEMMA Places ==
  ASSUME NEW l \in SeqNumber, NEW s \in SeqNumber, NEW t \in SeqNumber, NEW i \in 0..BlockPackets
  PROVE  /\ Place(l, s) \in SeqNumber
         /\ Place(l, s) = Place(l, t) => s = t
         /\ At(l, i) \in SeqNumber
         /\ Place(l, At(l, i)) = i
         /\ Place(l, s) = i => s = At(l, i)
<1>1. At(l, i) \in SeqNumber
  BY Sizes, InBlock, SeqValue DEF At
<1>2. /\ At(l, i) = IF l + i < SeqModulus THEN l + i ELSE l + i - SeqModulus
      /\ Place(l, s) = IF s >= l THEN s - l ELSE s - l + SeqModulus
      /\ Place(l, t) = IF t >= l THEN t - l ELSE t - l + SeqModulus
  BY InBlock, SeqValue, PlaceValue DEF At, Place
<1>3. Place(l, At(l, i)) = i
  <2>1. PICK u \in SeqNumber : u = At(l, i)
    BY <1>1
  <2>2. Place(l, u) = IF u >= l THEN u - l ELSE u - l + SeqModulus
    BY PlaceValue DEF Place
  <2> QED BY Sizes, InBlock, <1>2, <2>1, <2>2
<1>4. Place(l, s) \in SeqNumber
  BY Sizes, <1>2
<1>5. Place(l, s) = Place(l, t) => s = t
  BY Sizes, <1>2
<1>6. Place(l, s) = i => s = At(l, i)
  BY Sizes, <1>2
<1> QED BY <1>1, <1>3, <1>4, <1>5, <1>6

\* The next number has the next place.
LEMMA NextPlace ==
  ASSUME NEW l \in SeqNumber, NEW s \in SeqNumber, Place(l, s) < BlockPackets
  PROVE  Place(l, U16(s + 1)) = Place(l, s) + 1
<1>1. Place(l, s) = IF s >= l THEN s - l ELSE s - l + SeqModulus
  BY PlaceValue DEF Place
<1>2. U16(s + 1) = IF s + 1 < SeqModulus THEN s + 1 ELSE s + 1 - SeqModulus
  BY Sizes, SeqValue
<1>3. PICK u \in SeqNumber : u = U16(s + 1)
  BY Sizes, <1>2
<1>4. Place(l, u) = IF u >= l THEN u - l ELSE u - l + SeqModulus
  BY PlaceValue DEF Place
<1> QED BY Sizes, <1>1, <1>2, <1>3, <1>4

\* isBefore16() compares places, as long as both are in the block.
LEMMA Order ==
  ASSUME NEW l \in SeqNumber, NEW s \in SeqNumber, NEW t \in SeqNumber,
         Place(l, s) <= BlockPackets, Place(l, t) <= BlockPackets
  PROVE  /\ Before(s, t) <=> Place(l, s) < Place(l, t)
         /\ Place(l, s) < Place(l, t) => U16(t - s - 1) = Place(l, t) - Place(l, s) - 1
<1>1. /\ U16(s - t) = IF s >= t THEN s - t ELSE s - t + SeqModulus
      /\ Place(l, s) = IF s >= l THEN s - l ELSE s - l + SeqModulus
      /\ Place(l, t) = IF t >= l THEN t - l ELSE t - l + SeqModulus
  BY PlaceValue DEF Place
<1>2. Before(s, t) <=> Place(l, s) < Place(l, t)
  <2>1. PICK h \in Nat : h = SeqModulus \div 2
    BY Sizes
  <2>2. h > BlockPackets /\ 2 * h <= SeqModulus /\ SeqModulus <= 2 * h + 1 /\ BlockPackets \in Nat
    BY Sizes, <2>1
  <2>3. Before(s, t) <=> U16(s - t) >= h
    BY <2>1 DEF Before
  <2>4. PICK a \in Int, b \in Int, d \in Int : a = Place(l, s) /\ b = Place(l, t) /\ d = U16(s - t)
    <3>1. Place(l, s) \in SeqNumber /\ Place(l, t) \in SeqNumber /\ U16(s - t) \in SeqNumber
      BY PlaceType
    <3> QED BY Sizes, <3>1
  <2>5. l \in 0..(SeqModulus - 1) /\ s \in 0..(SeqModulus - 1) /\ t \in 0..(SeqModulus - 1)
        /\ SeqModulus \in Nat
    BY Sizes
  <2>6. /\ d = IF s >= t THEN s - t ELSE s - t + SeqModulus
        /\ a = IF s >= l THEN s - l ELSE s - l + SeqModulus
        /\ b = IF t >= l THEN t - l ELSE t - l + SeqModulus
        /\ a <= BlockPackets /\ b <= BlockPackets
    BY <1>1, <2>4
  <2>7. d >= h <=> a < b
    BY <2>2, <2>5, <2>6
  <2> QED BY <2>3, <2>4, <2>7
<1>3. ASSUME Place(l, s) < Place(l, t)
      PROVE  U16(t - s - 1) = Place(l, t) - Place(l, s) - 1
  <2>1. t - s - 1 \in Int /\ t - s - 1 < SeqModulus /\ t - s - 1 + SeqModulus >= 0
    BY Sizes
  <2>2. U16(t - s - 1) = (IF t - s - 1 >= 0 THEN t - s - 1 ELSE t - s - 1 + SeqModulus)
    BY <2>1, Wrap
  <2> QED BY Sizes, <1>1, <1>3, <2>2
<1> QED BY <1>2, <1>3

-----------------------------------------------------------------------------
\* How the host numbers blocks and packets.
LEMMA Numbers ==
  ASSUME NEW f \in 1..MaxFrame, NEW b \in 0..LastBlock[f]
  PROVE  BlocksBefore(f, b) \in Nat
<1>1. IsFiniteSet((1..MaxFrame) \X (0..3))
  <2>1. MaxFrame \in Int /\ 0 \in Int /\ 1 \in Int /\ 3 \in Int
    BY Sizes
  <2>2. IsFiniteSet(1..MaxFrame) /\ IsFiniteSet(0..3)
    BY <2>1, FS_Interval, Zenon
  <2> QED BY <2>2, FS_Product
<1>2. {x \in Block : x[1] < f \/ (x[1] = f /\ x[2] < b)} \in SUBSET ((1..MaxFrame) \X (0..3))
  BY DEF Block
<1> QED BY <1>1, <1>2, FS_Subset, FS_CardinalityType DEF BlocksBefore

\* A packet's place is its index.
LEMMA Numbering ==
  ASSUME NEW f \in 1..MaxFrame, NEW b \in 0..LastBlock[f], NEW i \in 0..(BlockPackets - 1)
  PROVE  /\ SeqAt(f, b, i) \in SeqNumber
         /\ SeqAt(f, b, i) = At(SeqAt(f, b, 0), i)
         /\ Place(SeqAt(f, b, 0), SeqAt(f, b, i)) = i
         /\ U16(SeqAt(f, b, i) - i) = SeqAt(f, b, 0)
<1>1. PICK x \in Int : x = FirstSeq + BlocksBefore(f, b) * BlockPackets
  BY Sizes, Numbers
<1>2. PICK l \in SeqNumber : l = U16(x)
  BY Wrap
<1>3. SeqAt(f, b, 0) = l
  BY <1>1, <1>2 DEF SeqAt
<1>4. SeqAt(f, b, i) = At(l, i)
  BY <1>1, <1>2, WrapSum DEF SeqAt, At
<1>5. i \in 0..BlockPackets /\ i \in SeqNumber
  BY Sizes
<1>6. At(l, i) \in SeqNumber /\ Place(l, At(l, i)) = i
  BY <1>5, Places
<1>7. U16(At(l, i) - i) = l
  <2>1. PICK s \in SeqNumber : s = At(l, i)
    BY <1>6
  <2>2. /\ s = IF l + i < SeqModulus THEN l + i ELSE l + i - SeqModulus
        /\ U16(s - i) = IF s >= i THEN s - i ELSE s - i + SeqModulus
    BY <1>5, <2>1, InBlock, SeqValue, PlaceValue DEF At
  <2> QED BY Sizes, <1>5, <2>1, <2>2
<1> QED BY <1>3, <1>4, <1>6, <1>7

-----------------------------------------------------------------------------
\* Appending to a list.
LEMMA AppendFacts ==
  ASSUME NEW S, NEW s \in Seq(S), NEW e \in S
  PROVE  /\ Append(s, e) \in Seq(S) /\ Append(s, e) # <<>> /\ Len(Append(s, e)) = Len(s) + 1
         /\ ToSet(Append(s, e)) = ToSet(s) \cup {e} /\ ToSet(s) \subseteq S /\ Len(s) \in Nat
<1>1. Append(s, e) \in Seq(S) /\ Append(s, e) # <<>> /\ Len(Append(s, e)) = Len(s) + 1 /\ Len(s) \in Nat
  OBVIOUS
<1>2. \A x \in ToSet(Append(s, e)) : x \in ToSet(s) \cup {e}
  BY DEF ToSet
<1>3. e \in ToSet(Append(s, e))
  <2>1. Len(s) + 1 \in DOMAIN Append(s, e) /\ Append(s, e)[Len(s) + 1] = e
    OBVIOUS
  <2> QED BY <2>1 DEF ToSet
<1>4. ASSUME NEW x \in ToSet(s) PROVE x \in ToSet(Append(s, e))
  <2>1. PICK i \in DOMAIN s : x = s[i]
    BY DEF ToSet
  <2>2. i \in DOMAIN Append(s, e) /\ Append(s, e)[i] = x
    BY <2>1
  <2> QED BY <2>2 DEF ToSet
<1>5. ToSet(s) \subseteq S
  BY DEF ToSet
<1> QED BY <1>1, <1>2, <1>3, <1>4, <1>5

\* What queuePacket() changes.
LEMMA QueuedFields ==
  ASSUME NEW q \in Record, NEW e \in Entry
  PROVE  LET r == Queued(q, e)
         IN  /\ r \in Record
             /\ r.pendingFecBlockList = Append(q.pendingFecBlockList, e)
             /\ r.nextContiguousSequenceNumber =
                  (IF q.useFastQueuePath /\ e.seq = q.nextContiguousSequenceNumber
                   THEN U16(q.nextContiguousSequenceNumber + 1) ELSE q.nextContiguousSequenceNumber)
             /\ r.useFastQueuePath = (q.useFastQueuePath /\ e.seq = q.nextContiguousSequenceNumber)
             /\ r.completedFecBlockList = q.completedFecBlockList
             /\ r.bufferLowestSequenceNumber = q.bufferLowestSequenceNumber
             /\ r.receivedHighestSequenceNumber = q.receivedHighestSequenceNumber
             /\ r.receivedDataPackets = q.receivedDataPackets
             /\ r.receivedParityPackets = q.receivedParityPackets
             /\ r.missingPackets = q.missingPackets
             /\ r.reportedLostFrame = q.reportedLostFrame
             /\ r.currentFrameNumber = q.currentFrameNumber
             /\ r.multiFecCurrentBlockNumber = q.multiFecCurrentBlockNumber
             /\ r.receivedOosData = q.receivedOosData
             /\ r.lastOosFrame = q.lastOosFrame
<1> HIDE DEF Entry
<1>1. Append(q.pendingFecBlockList, e) \in Seq(Entry)
  BY DEF Record
<1>2. U16(q.nextContiguousSequenceNumber + 1) \in SeqNumber
  <2>1. q.nextContiguousSequenceNumber \in SeqNumber
    BY DEF Record
  <2>2. q.nextContiguousSequenceNumber + 1 \in Int
    BY <2>1, Sizes
  <2> QED BY <2>2, Wrap
<1>3. (q.useFastQueuePath /\ e.seq = q.nextContiguousSequenceNumber) \in BOOLEAN
  OBVIOUS
<1> DEFINE b == q.useFastQueuePath /\ e.seq = q.nextContiguousSequenceNumber
           l == Append(q.pendingFecBlockList, e)
           n == IF b THEN U16(q.nextContiguousSequenceNumber + 1) ELSE q.nextContiguousSequenceNumber
<1>4. n \in SeqNumber
  BY <1>2 DEF Record
<1>5. Queued(q, e) = [q EXCEPT !.pendingFecBlockList = l, !.nextContiguousSequenceNumber = n,
                               !.useFastQueuePath = b]
  BY DEF Queued, Record
<1>6. b \in BOOLEAN /\ l \in Seq(Entry)
  BY <1>1
<1> HIDE DEF b, l, n
<1>7. [q EXCEPT !.pendingFecBlockList = l, !.nextContiguousSequenceNumber = n,
                !.useFastQueuePath = b] \in Record
  BY <1>4, <1>6 DEF Record
<1> QED BY <1>5, <1>7, Zenon DEF Record, b, l, n

\* Sets of places are finite.
LEMMA FiniteInBlock ==
  ASSUME NEW n \in Int, NEW m \in Int, NEW S, S \subseteq n..m
  PROVE  IsFiniteSet(S) /\ Cardinality(S) \in Nat
<1>1. IsFiniteSet(n..m)
  BY FS_Interval
<1> QED BY <1>1, FS_Subset, FS_CardinalityType

\* One more place is filled.
LEMMA HeldGrows ==
  ASSUME NEW q \in Record, NEW r \in Record, NEW e \in Entry,
         r.pendingFecBlockList = Append(q.pendingFecBlockList, e),
         r.bufferLowestSequenceNumber = q.bufferLowestSequenceNumber
  PROVE  /\ Held(r) = Held(q) \cup {IndexIn(q, e.seq)}
         /\ Sent(r) = IF e.origin = "sent" THEN Sent(q) \cup {IndexIn(q, e.seq)} ELSE Sent(q)
         /\ Placed(q) /\ IndexIn(q, e.seq) \in 0..(BlockPackets - 1) /\ IndexIn(q, e.seq) \notin Held(q)
              => Placed(r)
<1> HIDE DEF Entry
<1>1. q.pendingFecBlockList \in Seq(Entry)
  BY DEF Record
<1>2. /\ ToSet(r.pendingFecBlockList) = ToSet(q.pendingFecBlockList) \cup {e}
      /\ Len(r.pendingFecBlockList) = Len(q.pendingFecBlockList) + 1
  BY <1>1, AppendFacts
<1>3. \A s : IndexIn(r, s) = IndexIn(q, s)
  BY DEF IndexIn
<1>4. Held(r) = Held(q) \cup {IndexIn(q, e.seq)}
  BY <1>2, <1>3 DEF Held
<1>5. Sent(r) = IF e.origin = "sent" THEN Sent(q) \cup {IndexIn(q, e.seq)} ELSE Sent(q)
  BY <1>2, <1>3 DEF Sent
<1>6. ASSUME Placed(q), IndexIn(q, e.seq) \in 0..(BlockPackets - 1), IndexIn(q, e.seq) \notin Held(q)
      PROVE  Placed(r)
  <2>1. IsFiniteSet(Held(q))
    BY Sizes, <1>6, FiniteInBlock DEF Placed
  <2>2. Cardinality(Held(r)) = Cardinality(Held(q)) + 1
    BY <1>4, <1>6, <2>1, FS_AddElement
  <2> QED BY <1>2, <1>4, <1>6, <2>2 DEF Placed
<1> QED BY <1>4, <1>5, <1>6

\* The place of a number in the block of a queue.
LEMMA IndexIsPlace ==
  ASSUME NEW q, NEW s
  PROVE  IndexIn(q, s) = Place(q.bufferLowestSequenceNumber, s)
BY DEF IndexIn, Place

\* What queueing an entry does to the run at the start of the block.
LEMMA RunGrows ==
  ASSUME NEW q \in Record, NEW e \in Entry, Placed(q), RunFilled(q),
         IndexIn(q, e.seq) < BlockPackets
  PROVE  RunFilled(Queued(q, e))
<1> DEFINE r == Queued(q, e)
<1>0. PICK l \in SeqNumber, next \in SeqNumber, s \in SeqNumber :
        l = q.bufferLowestSequenceNumber /\ next = q.nextContiguousSequenceNumber /\ s = e.seq
  BY DEF Record, Entry
<1>1. /\ r \in Record /\ r.bufferLowestSequenceNumber = l
      /\ r.nextContiguousSequenceNumber = (IF q.useFastQueuePath /\ s = next THEN U16(next + 1) ELSE next)
      /\ r.useFastQueuePath = (q.useFastQueuePath /\ s = next)
      /\ Held(r) = Held(q) \cup {Place(l, s)}
  BY <1>0, QueuedFields, HeldGrows, IndexIsPlace
<1>2. PICK n \in 0..BlockPackets : n = Place(l, next)
  <2>1. Place(l, next) \in SeqNumber
    BY PlaceType
  <2>2. Place(l, next) <= BlockPackets
    BY <1>0, IndexIsPlace, Zenon DEF RunFilled
  <2> QED BY <2>1, <2>2, Sizes
<1>3. 0..(n - 1) \subseteq Held(q) /\ (q.useFastQueuePath => \A i \in Held(q) : i < n)
  BY <1>0, <1>2, IndexIsPlace, Zenon DEF RunFilled
<1>4. IndexIn(r, r.nextContiguousSequenceNumber) = Place(l, r.nextContiguousSequenceNumber)
  BY <1>1, IndexIsPlace
<1>6. CASE q.useFastQueuePath /\ s = next
  <2>1. n < BlockPackets
    BY <1>0, <1>2, <1>6, IndexIsPlace
  <2>2. Place(l, U16(next + 1)) = n + 1
    BY <1>2, <2>1, NextPlace
  <2>3. Held(r) = Held(q) \cup {n} /\ \A i \in Held(q) : i < n /\ i \in Nat
    BY <1>1, <1>2, <1>3, <1>6, <2>1, Sizes DEF Placed
  <2>4. n + 1 <= BlockPackets /\ 0..(n + 1 - 1) \subseteq Held(r) /\ \A i \in Held(r) : i < n + 1
    BY <1>3, <2>1, <2>3, Sizes
  <2> QED BY <1>1, <1>4, <1>6, <2>2, <2>4 DEF RunFilled
<1>7. CASE ~(q.useFastQueuePath /\ s = next)
  <2>1. IndexIn(r, r.nextContiguousSequenceNumber) = n /\ ~r.useFastQueuePath
    BY <1>1, <1>2, <1>4, <1>7
  <2>2. n <= BlockPackets /\ 0..(n - 1) \subseteq Held(r)
    BY <1>1, <1>3, Sizes
  <2> QED BY <2>1, <2>2, Zenon DEF RunFilled
<1> QED BY <1>6, <1>7
-----------------------------------------------------------------------------
\* Counting places.
LEMMA HolesFirst ==
  ASSUME NEW i \in Nat
  PROVE  Cardinality((0..i) \ {i}) = i
<1>1. (0..i) \ {i} = 0..(i - 1)
  OBVIOUS
<1>2. Cardinality(0..(i - 1)) = i
  <2>1. 0 \in Int /\ i - 1 \in Int
    OBVIOUS
  <2> QED BY <2>1, FS_Interval
<1> QED BY <1>1, <1>2

LEMMA HolesAbove ==
  ASSUME NEW top \in Nat, NEW i \in Nat, top < i, NEW S, S \subseteq 0..top
  PROVE  Cardinality((0..i) \ (S \cup {i})) = Cardinality((0..top) \ S) + (i - top - 1)
<1> DEFINE A == (0..top) \ S
           B == (top + 1)..(i - 1)
<1>1. (0..i) \ (S \cup {i}) = A \cup B /\ A \cap B = {}
  OBVIOUS
<1>2. IsFiniteSet(A) /\ Cardinality(A) \in Nat
  BY FiniteInBlock
<1>3. IsFiniteSet(B) /\ Cardinality(B) = i - top - 1
  <2>1. top + 1 \in Int /\ i - 1 \in Int
    OBVIOUS
  <2>2. IsFiniteSet(B) /\ Cardinality(B) = IF top + 1 > i - 1 THEN 0 ELSE (i - 1) - (top + 1) + 1
    BY <2>1, FS_Interval
  <2> QED BY <2>2
<1>4. Cardinality(A \cup B) = Cardinality(A) + Cardinality(B) - Cardinality(A \cap B)
  BY <1>2, <1>3, FS_Union
<1>5. Cardinality(A \cap B) = 0
  BY <1>1, FS_EmptySet
<1> HIDE DEF A, B
<1>6. Cardinality(A \cup B) = Cardinality(A) + (i - top - 1)
  BY <1>2, <1>3, <1>4, <1>5
<1> QED BY <1>1, <1>6 DEF A, B

LEMMA HolesBelow ==
  ASSUME NEW top \in Nat, NEW S, NEW i \in 0..top, i \notin S
  PROVE  Cardinality((0..top) \ (S \cup {i})) = Cardinality((0..top) \ S) - 1
<1>1. (0..top) \ (S \cup {i}) = ((0..top) \ S) \ {i} /\ i \in (0..top) \ S
  OBVIOUS
<1>2. IsFiniteSet((0..top) \ S)
  BY FiniteInBlock
<1> QED BY <1>1, <1>2, FS_RemoveElement

\* What is filled and what is missing make up all places to the top.
LEMMA HolesAndHeld ==
  ASSUME NEW top \in Nat, NEW S, S \subseteq 0..top
  PROVE  Cardinality((0..top) \ S) + Cardinality(S) = top + 1
<1>1. IsFiniteSet(0..top) /\ Cardinality(0..top) = top + 1
  <2>1. 0 \in Int /\ top \in Int
    OBVIOUS
  <2> QED BY <2>1, FS_Interval
<1>2. Cardinality((0..top) \ S) = Cardinality(0..top) - Cardinality((0..top) \cap S)
  BY <1>1, FS_Difference
<1>3. (0..top) \cap S = S
  OBVIOUS
<1>4. Cardinality(S) \in Nat
  <2>1. 0 \in Int /\ top \in Int
    OBVIOUS
  <2> QED BY <2>1, FiniteInBlock
<1>5. Cardinality((0..top) \ S) = (top + 1) - Cardinality(S)
  BY <1>1, <1>2, <1>3, Zenon
<1> QED BY <1>4, <1>5

\* A place on one side of the border between data and parity is counted there.
LEMMA SidesGrow ==
  ASSUME NEW S, S \subseteq 0..(BlockPackets - 1), NEW i \in 0..(BlockPackets - 1), i \notin S
  PROVE  /\ Cardinality({j \in S \cup {i} : j < DataPackets}) =
              Cardinality({j \in S : j < DataPackets}) + (IF i < DataPackets THEN 1 ELSE 0)
         /\ Cardinality({j \in S \cup {i} : j >= DataPackets}) =
              Cardinality({j \in S : j >= DataPackets}) + (IF i < DataPackets THEN 0 ELSE 1)
<1> DEFINE A == {j \in S : j < DataPackets}
           B == {j \in S : j >= DataPackets}
           C == {j \in S \cup {i} : j < DataPackets}
           D == {j \in S \cup {i} : j >= DataPackets}
<1>1. A \subseteq S /\ B \subseteq S /\ i \notin A /\ i \notin B
  OBVIOUS
<1>2. /\ i < DataPackets => C = A \cup {i} /\ D = B
      /\ ~(i < DataPackets) => C = A /\ D = B \cup {i}
  BY Sizes
<1> HIDE DEF A, B, C, D
<1>3. IsFiniteSet(A) /\ IsFiniteSet(B) /\ Cardinality(A) \in Nat /\ Cardinality(B) \in Nat
  <2>1. A \subseteq 0..(BlockPackets - 1) /\ B \subseteq 0..(BlockPackets - 1)
    BY <1>1
  <2>2. 0 \in Int /\ BlockPackets - 1 \in Int
    BY Sizes
  <2> QED BY <2>1, <2>2, FiniteInBlock
<1>4. Cardinality(A \cup {i}) = Cardinality(A) + 1 /\ Cardinality(B \cup {i}) = Cardinality(B) + 1
  <2>1. Cardinality(A \cup {i}) = Cardinality(A) + 1
    BY <1>1, <1>3, FS_AddElement
  <2>2. Cardinality(B \cup {i}) = Cardinality(B) + 1
    BY <1>1, <1>3, FS_AddElement
  <2> QED BY <2>1, <2>2
<1>5. /\ Cardinality(C) = Cardinality(A) + (IF i < DataPackets THEN 1 ELSE 0)
      /\ Cardinality(D) = Cardinality(B) + (IF i < DataPackets THEN 0 ELSE 1)
  <2>1. CASE i < DataPackets
    <3>1. C = A \cup {i} /\ D = B
      BY <1>2, <2>1
    <3> QED BY <1>3, <1>4, <2>1, <3>1
  <2>2. CASE ~(i < DataPackets)
    <3>1. C = A /\ D = B \cup {i}
      BY <1>2, <2>2
    <3> QED BY <1>3, <1>4, <2>2, <3>1
  <2> QED BY <2>1, <2>2
<1> QED BY <1>5 DEF A, B, C, D
-----------------------------------------------------------------------------
\* RtpvAddPacket()'s work on an accepted packet, field by field.
LEMMA AcceptedFields ==
  ASSUME NEW q \in Record, NEW p \in Packet, SeqNum(p) \in SeqNumber, NEW c \in BOOLEAN
  PROVE  LET r      == Accepted(q, p, c)
             first  == q.pendingFecBlockList = <<>>
             higher == Before(q.receivedHighestSequenceNumber, SeqNum(p))
         IN  /\ r \in Record
             /\ r.pendingFecBlockList = Append(q.pendingFecBlockList, [seq |-> SeqNum(p), origin |-> "sent"])
             /\ r.bufferLowestSequenceNumber = q.bufferLowestSequenceNumber
             /\ r.completedFecBlockList = q.completedFecBlockList
             /\ r.reportedLostFrame = q.reportedLostFrame
             /\ r.currentFrameNumber = q.currentFrameNumber
             /\ r.multiFecCurrentBlockNumber = q.multiFecCurrentBlockNumber
             /\ r.receivedHighestSequenceNumber =
                  (IF first \/ higher THEN SeqNum(p) ELSE q.receivedHighestSequenceNumber)
             /\ r.missingPackets =
                  (IF first THEN IndexIn(q, SeqNum(p))
                   ELSE IF higher
                     THEN q.missingPackets + U16(SeqNum(p) - q.receivedHighestSequenceNumber - 1)
                   ELSE q.missingPackets - 1)
             /\ r.receivedDataPackets = q.receivedDataPackets + (IF p.index < DataPackets THEN 1 ELSE 0)
             /\ r.receivedParityPackets = q.receivedParityPackets + (IF p.index < DataPackets THEN 0 ELSE 1)
             /\ r.receivedOosData =
                  (OutOfSequence(q, p) \/ (q.receivedOosData /\ ~(c /\ FrameOf(p) > q.lastOosFrame)))
             /\ r.lastOosFrame = (IF OutOfSequence(q, p) THEN FrameOf(p) ELSE q.lastOosFrame)
             /\ RunFilled(q) /\ Placed(q) /\ IndexIn(q, SeqNum(p)) < BlockPackets => RunFilled(r)
<1> DEFINE e == [seq |-> SeqNum(p), origin |-> "sent"]
           first == q.pendingFecBlockList = <<>>
           higher == Before(q.receivedHighestSequenceNumber, SeqNum(p))
           oos == OutOfSequence(q, p) \/ (q.receivedOosData /\ ~(c /\ FrameOf(p) > q.lastOosFrame))
           last == IF OutOfSequence(q, p) THEN FrameOf(p) ELSE q.lastOosFrame
           top == IF first \/ higher THEN SeqNum(p) ELSE q.receivedHighestSequenceNumber
           missing == IF first THEN IndexIn(q, SeqNum(p))
                      ELSE IF higher
                        THEN q.missingPackets + U16(SeqNum(p) - q.receivedHighestSequenceNumber - 1)
                      ELSE q.missingPackets - 1
           data == q.receivedDataPackets + (IF p.index < DataPackets THEN 1 ELSE 0)
           parity == q.receivedParityPackets + (IF p.index < DataPackets THEN 0 ELSE 1)
           s == [q EXCEPT !.receivedOosData = oos, !.lastOosFrame = last]
           t == [s EXCEPT !.missingPackets = missing, !.receivedHighestSequenceNumber = top,
                          !.receivedDataPackets = data, !.receivedParityPackets = parity]
<1>1. e \in Entry /\ FrameOf(p) \in 0..MaxFrame
  BY Sizes DEF Entry, Packet, Block, FrameOf
<1>2. oos \in BOOLEAN /\ last \in 0..MaxFrame
  BY <1>1, Zenon DEF Record
<1>3. top \in SeqNumber
  BY DEF Record
<1>4. missing \in Int
  <2>1. /\ IndexIn(q, SeqNum(p)) \in SeqNumber
        /\ U16(SeqNum(p) - q.receivedHighestSequenceNumber - 1) \in SeqNumber
    <3>1. PICK l \in SeqNumber, h \in SeqNumber, n \in SeqNumber :
            l = q.bufferLowestSequenceNumber /\ h = q.receivedHighestSequenceNumber /\ n = SeqNum(p)
      BY DEF Record
    <3>2. n - h - 1 \in Int
      BY Sizes
    <3>3. IndexIn(q, n) \in SeqNumber /\ U16(n - h - 1) \in SeqNumber
      BY <3>1, <3>2, PlaceType, IndexIsPlace, Wrap
    <3> QED BY <3>1, <3>3
  <2>2. q.missingPackets \in Int /\ SeqNumber \subseteq Int
    BY Sizes DEF Record
  <2>3. missing \in {IndexIn(q, SeqNum(p)), q.missingPackets - 1,
                     q.missingPackets + U16(SeqNum(p) - q.receivedHighestSequenceNumber - 1)}
    OBVIOUS
  <2> HIDE DEF missing
  <2>4. IndexIn(q, SeqNum(p)) \in Int /\ q.missingPackets - 1 \in Int
        /\ q.missingPackets + U16(SeqNum(p) - q.receivedHighestSequenceNumber - 1) \in Int
    <3>1. PICK m \in Int, u \in Int :
            m = q.missingPackets /\ u = U16(SeqNum(p) - q.receivedHighestSequenceNumber - 1)
      BY <2>1, <2>2
    <3>2. m - 1 \in Int /\ m + u \in Int
      OBVIOUS
    <3>3. IndexIn(q, SeqNum(p)) \in Int
      BY <2>1, <2>2
    <3> QED BY <3>1, <3>2, <3>3, Zenon
  <2> QED BY <2>3, <2>4
<1>5. data \in Nat /\ parity \in Nat
  BY DEF Record
<1>6. Sequenced(q, p, c) = s
  BY DEF Sequenced, Record
<1> HIDE DEF oos, last
<1>7. s \in Record
  BY <1>2 DEF Record
<1>8. Counted(s, p) = t
  <2>1. /\ s.pendingFecBlockList = q.pendingFecBlockList
        /\ s.receivedHighestSequenceNumber = q.receivedHighestSequenceNumber
        /\ s.bufferLowestSequenceNumber = q.bufferLowestSequenceNumber
        /\ s.missingPackets = q.missingPackets
        /\ s.receivedDataPackets = q.receivedDataPackets
        /\ s.receivedParityPackets = q.receivedParityPackets
    BY DEF Record
  <2>2. IndexIn(s, SeqNum(p)) = IndexIn(q, SeqNum(p))
    BY <2>1 DEF IndexIn
  <2> DEFINE data1 == IF p.index < DataPackets THEN s.receivedDataPackets + 1 ELSE s.receivedDataPackets
             parity1 == IF p.index < DataPackets THEN s.receivedParityPackets ELSE s.receivedParityPackets + 1
             first1 == s.pendingFecBlockList = <<>>
             higher1 == Before(s.receivedHighestSequenceNumber, SeqNum(p))
             missing1 == IF first1 THEN IndexIn(s, SeqNum(p))
                         ELSE IF higher1
                           THEN s.missingPackets + U16(SeqNum(p) - s.receivedHighestSequenceNumber - 1)
                         ELSE s.missingPackets - 1
             top1 == IF first1 \/ higher1 THEN SeqNum(p) ELSE s.receivedHighestSequenceNumber
  <2>3. data1 = data /\ parity1 = parity
    <3>1. q.receivedDataPackets \in Nat /\ q.receivedParityPackets \in Nat
      BY DEF Record
    <3>2. CASE p.index < DataPackets
      BY <2>1, <3>1, <3>2
    <3>3. CASE ~(p.index < DataPackets)
      BY <2>1, <3>1, <3>3
    <3> HIDE DEF data, data1, parity, parity1
    <3> QED BY <3>2, <3>3
  <2>4. missing1 = missing /\ top1 = top
    <3> HIDE DEF s
    <3>1. first1 = first /\ higher1 = higher
      BY <2>1
    <3> HIDE DEF first, first1, higher, higher1
    <3> QED BY <2>1, <2>2, <3>1
  <2>5. Counted(s, p) = [s EXCEPT !.missingPackets = missing1, !.receivedHighestSequenceNumber = top1,
                                  !.receivedDataPackets = data1, !.receivedParityPackets = parity1]
    <3> HIDE DEF s
    <3> QED BY <1>7 DEF Counted, Record
  <2> HIDE DEF missing, missing1, top, top1, data, data1, parity, parity1, s
  <2> QED BY <2>3, <2>4, <2>5
<1>9. t \in Record
  <2> HIDE DEF s, missing, top, data, parity
  <2> QED BY <1>3, <1>4, <1>5, <1>7 DEF Record
<1>10. /\ t.pendingFecBlockList = q.pendingFecBlockList
       /\ t.completedFecBlockList = q.completedFecBlockList
       /\ t.bufferLowestSequenceNumber = q.bufferLowestSequenceNumber
       /\ t.nextContiguousSequenceNumber = q.nextContiguousSequenceNumber
       /\ t.useFastQueuePath = q.useFastQueuePath
       /\ t.reportedLostFrame = q.reportedLostFrame
       /\ t.currentFrameNumber = q.currentFrameNumber
       /\ t.multiFecCurrentBlockNumber = q.multiFecCurrentBlockNumber
       /\ t.receivedHighestSequenceNumber = top /\ t.missingPackets = missing
       /\ t.receivedDataPackets = data /\ t.receivedParityPackets = parity
       /\ t.receivedOosData = oos /\ t.lastOosFrame = last
  <2> HIDE DEF missing, top, data, parity
  <2> QED BY DEF Record
<1>11. Accepted(q, p, c) = Queued(t, e)
  <2> HIDE DEF s, t
  <2> QED BY <1>6, <1>8 DEF Accepted
<1> HIDE DEF t, s
<1>12. RunFilled(q) /\ Placed(q) /\ IndexIn(q, SeqNum(p)) < BlockPackets => RunFilled(Queued(t, e))
  <2> SUFFICES ASSUME RunFilled(q), Placed(q), IndexIn(q, SeqNum(p)) < BlockPackets
               PROVE  RunFilled(Queued(t, e))
    OBVIOUS
  <2>1. \A n : IndexIn(t, n) = IndexIn(q, n)
    BY <1>10 DEF IndexIn
  <2>2. Held(t) = Held(q)
    BY <1>10, <2>1 DEF Held
  <2>3. Placed(t)
    BY <1>10, <2>2 DEF Placed
  <2>4. RunFilled(t)
    BY <1>10, <2>1, <2>2 DEF RunFilled
  <2>5. IndexIn(t, e.seq) < BlockPackets
    BY <2>1
  <2> QED BY <1>1, <1>9, <2>3, <2>4, <2>5, RunGrows
<1> HIDE DEF e, oos, last, top, missing, data, parity
<1>13. LET r == Queued(t, e)
       IN  /\ r \in Record /\ r.pendingFecBlockList = Append(q.pendingFecBlockList, e)
           /\ r.bufferLowestSequenceNumber = q.bufferLowestSequenceNumber
           /\ r.completedFecBlockList = q.completedFecBlockList
           /\ r.reportedLostFrame = q.reportedLostFrame
           /\ r.currentFrameNumber = q.currentFrameNumber
           /\ r.multiFecCurrentBlockNumber = q.multiFecCurrentBlockNumber
           /\ r.receivedHighestSequenceNumber = top /\ r.missingPackets = missing
           /\ r.receivedDataPackets = data /\ r.receivedParityPackets = parity
           /\ r.receivedOosData = oos /\ r.lastOosFrame = last
  BY <1>1, <1>9, <1>10, QueuedFields
<1> QED BY <1>11, <1>12, <1>13, Zenon DEF e, oos, last, top, missing, data, parity

\* Sent places are held.
LEMMA SentHeld ==
  ASSUME NEW q, Placed(q)
  PROVE  Sent(q) \subseteq Held(q) /\ Sent(q) \subseteq 0..(BlockPackets - 1)
         /\ IsFiniteSet(Sent(q)) /\ Cardinality(Sent(q)) \in Nat
<1>1. Sent(q) \subseteq Held(q)
  BY DEF Sent, Held
<1>2. Sent(q) \subseteq 0..(BlockPackets - 1)
  BY <1>1 DEF Placed
<1>3. 0 \in Int /\ BlockPackets - 1 \in Int
  BY Sizes
<1> QED BY <1>1, <1>2, <1>3, FiniteInBlock

\* A packet of the block that is collected.
LEMMA PacketPlace ==
  ASSUME NEW q \in Record, NEW p \in Packet, BlockAt(q),
         p.block = <<q.currentFrameNumber, q.multiFecCurrentBlockNumber>>
  PROVE  /\ SeqNum(p) \in SeqNumber /\ p.index \in 0..(BlockPackets - 1)
         /\ IndexIn(q, SeqNum(p)) = p.index /\ FrameOf(p) = q.currentFrameNumber
         /\ Duplicate(q, p) <=> p.index \in Held(q)
<1>1. /\ FrameOf(p) = q.currentFrameNumber /\ BlockOf(p) = q.multiFecCurrentBlockNumber
      /\ p.index \in 0..(BlockPackets - 1)
  BY DEF FrameOf, BlockOf, Packet
<1>2. FrameOf(p) \in 1..MaxFrame /\ BlockOf(p) \in 0..LastBlock[FrameOf(p)]
  <2>1. q.currentFrameNumber \in 1..MaxFrame /\ q.multiFecCurrentBlockNumber \in 0..3
        /\ q.multiFecCurrentBlockNumber <= LastBlock[q.currentFrameNumber]
    BY DEF BlockAt, Record
  <2>2. LastBlock[q.currentFrameNumber] \in 0..3
    BY <2>1, Sizes
  <2> QED BY <1>1, <2>1, <2>2
<1>3. /\ SeqNum(p) \in SeqNumber /\ q.bufferLowestSequenceNumber \in SeqNumber
      /\ Place(q.bufferLowestSequenceNumber, SeqNum(p)) = p.index
  <2>0. PICK f \in 1..MaxFrame : f = FrameOf(p)
    BY <1>1, <1>2
  <2>1. PICK b \in 0..LastBlock[f], i \in 0..(BlockPackets - 1) : b = BlockOf(p) /\ i = p.index
    BY <1>1, <1>2, <2>0
  <2>2. SeqNum(p) = SeqAt(f, b, i) /\ q.bufferLowestSequenceNumber = SeqAt(f, b, 0)
    BY <1>1, <2>0, <2>1 DEF SeqNum, BlockAt
  <2>3. q.bufferLowestSequenceNumber \in SeqNumber
    BY DEF Record
  <2> QED BY <2>1, <2>2, <2>3, Numbering
<1>4. IndexIn(q, SeqNum(p)) = p.index
  BY <1>3, IndexIsPlace
<1>5. ASSUME p.index \in Held(q) PROVE Duplicate(q, p)
  <2>1. PICK e \in ToSet(q.pendingFecBlockList) : p.index = IndexIn(q, e.seq)
    BY <1>5 DEF Held
  <2>2. e.seq \in SeqNumber
    <3>1. e \in Entry
      <4> HIDE DEF Entry
      <4> QED BY DEF Record, ToSet
    <3> QED BY <3>1 DEF Entry
  <2>3. Place(q.bufferLowestSequenceNumber, SeqNum(p)) = Place(q.bufferLowestSequenceNumber, e.seq)
    BY <1>3, <2>1, IndexIsPlace
  <2>4. e.seq = SeqNum(p)
    <3>1. p.index \in 0..BlockPackets
      BY <1>1, Sizes
    <3> QED BY <1>3, <2>2, <2>3, <3>1, Places
  <2> QED BY <2>1, <2>4 DEF Duplicate
<1>6. Duplicate(q, p) => p.index \in Held(q)
  BY <1>4 DEF Duplicate, Held
<1> QED BY <1>1, <1>3, <1>4, <1>5, <1>6

\* No place of an empty block is held.
LEMMA EmptyBlock ==
  ASSUME NEW q \in Record, q.pendingFecBlockList = <<>>
  PROVE  Held(q) = {} /\ Sent(q) = {}
<1>1. ToSet(q.pendingFecBlockList) = {}
  BY DEF ToSet
<1> QED BY <1>1 DEF Held, Sent

\* Before an entry sent at the top of the block, every new place below is out of
\* sequence.
LEMMA BelowTop ==
  ASSUME NEW q \in Record, NEW p \in Packet, BlockAt(q), Placed(q), RunFilled(q),
         p.block = <<q.currentFrameNumber, q.multiFecCurrentBlockNumber>>,
         Top(q) \in Sent(q), p.index < Top(q)
  PROVE  OutOfSequence(q, p)
<1>1. /\ SeqNum(p) \in SeqNumber /\ p.index \in 0..(BlockPackets - 1)
      /\ IndexIn(q, SeqNum(p)) = p.index
  BY PacketPlace
<1>2. PICK e \in ToSet(q.pendingFecBlockList) : Top(q) = IndexIn(q, e.seq)
  BY DEF Sent
<1>3. e.seq \in SeqNumber
  <2>1. e \in Entry
    <3> HIDE DEF Entry
    <3> QED BY DEF Record, ToSet
  <2> QED BY <2>1 DEF Entry
<1>4. Top(q) \in Held(q) /\ Top(q) \in 0..(BlockPackets - 1)
  BY SentHeld
<1>5. PICK l \in SeqNumber, s \in SeqNumber, t \in SeqNumber :
        /\ l = q.bufferLowestSequenceNumber /\ s = SeqNum(p) /\ t = e.seq
        /\ Place(l, s) = p.index /\ Place(l, t) = Top(q)
  BY <1>1, <1>2, <1>3, IndexIsPlace DEF Record
<1>6. Before(SeqNum(p), e.seq)
  <2>1. Place(l, s) <= BlockPackets /\ Place(l, t) <= BlockPackets
    BY <1>1, <1>4, <1>5, Sizes
  <2> QED BY <1>5, <2>1, Order
<1>7. ~(q.useFastQueuePath /\ SeqNum(p) = q.nextContiguousSequenceNumber)
  <2> SUFFICES ASSUME q.useFastQueuePath, SeqNum(p) = q.nextContiguousSequenceNumber
               PROVE  FALSE
    OBVIOUS
  <2>1. Top(q) < p.index
    BY <1>1, <1>4 DEF RunFilled
  <2> QED BY <1>1, <1>4, <2>1, Sizes
<1> QED BY <1>2, <1>6, <1>7 DEF OutOfSequence

\* The invariant of the block survives an accepted packet.
LEMMA Filled ==
  ASSUME NEW q \in Record, NEW p \in Packet, NEW c \in BOOLEAN,
         Collecting(q), q.pendingFecBlockList = <<>> => ~q.reportedLostFrame,
         p.block = <<q.currentFrameNumber, q.multiFecCurrentBlockNumber>>, ~Duplicate(q, p)
  PROVE  LET r == Accepted(q, p, c)
         IN  /\ Collecting(r) /\ r.pendingFecBlockList # <<>>
             /\ Held(r) = Held(q) \cup {p.index} /\ Sent(r) = Sent(q) \cup {p.index}
             /\ p.index \in 0..(BlockPackets - 1)
<1> DEFINE r == Accepted(q, p, c)
           e == [seq |-> SeqNum(p), origin |-> "sent"]
<1>0. PICK i \in 0..(BlockPackets - 1) : i = p.index
  BY DEF Packet
<1>1. /\ SeqNum(p) \in SeqNumber /\ IndexIn(q, SeqNum(p)) = i /\ FrameOf(p) = q.currentFrameNumber
      /\ i \notin Held(q)
  BY <1>0, PacketPlace DEF Collecting
<1>2. r \in Record /\ e \in Entry
  BY <1>1, AcceptedFields DEF Entry
<1>3. /\ r.pendingFecBlockList = Append(q.pendingFecBlockList, e)
      /\ r.bufferLowestSequenceNumber = q.bufferLowestSequenceNumber
      /\ r.reportedLostFrame = q.reportedLostFrame
      /\ r.currentFrameNumber = q.currentFrameNumber
      /\ r.multiFecCurrentBlockNumber = q.multiFecCurrentBlockNumber
  BY <1>1, AcceptedFields
<1>4. /\ r.receivedHighestSequenceNumber =
           (IF q.pendingFecBlockList = <<>> \/ Before(q.receivedHighestSequenceNumber, SeqNum(p))
            THEN SeqNum(p) ELSE q.receivedHighestSequenceNumber)
      /\ r.missingPackets =
           (IF q.pendingFecBlockList = <<>> THEN i
            ELSE IF Before(q.receivedHighestSequenceNumber, SeqNum(p))
              THEN q.missingPackets + U16(SeqNum(p) - q.receivedHighestSequenceNumber - 1)
            ELSE q.missingPackets - 1)
  BY <1>1, AcceptedFields
<1>5. /\ r.receivedDataPackets = q.receivedDataPackets + (IF i < DataPackets THEN 1 ELSE 0)
      /\ r.receivedParityPackets = q.receivedParityPackets + (IF i < DataPackets THEN 0 ELSE 1)
  <2>1. /\ r.receivedDataPackets = q.receivedDataPackets + (IF p.index < DataPackets THEN 1 ELSE 0)
        /\ r.receivedParityPackets = q.receivedParityPackets + (IF p.index < DataPackets THEN 0 ELSE 1)
    BY <1>1, AcceptedFields
  <2> HIDE DEF r
  <2> QED BY <1>0, <2>1, Zenon
<1>6. /\ r.receivedOosData =
           (OutOfSequence(q, p) \/ (q.receivedOosData /\ ~(c /\ FrameOf(p) > q.lastOosFrame)))
      /\ r.lastOosFrame = (IF OutOfSequence(q, p) THEN FrameOf(p) ELSE q.lastOosFrame)
  BY <1>1, AcceptedFields
<1>7. BlockAt(r)
  BY <1>3 DEF Collecting, BlockAt
<1>8. i < BlockPackets
  BY Sizes
<1>9. RunFilled(r)
  BY <1>1, <1>8, AcceptedFields DEF Collecting
<1> HIDE DEF r
<1>10. /\ Held(r) = Held(q) \cup {i} /\ Sent(r) = Sent(q) \cup {i} /\ Placed(r)
       /\ r.pendingFecBlockList # <<>>
  <2>1. e.seq = SeqNum(p) /\ e.origin = "sent"
    OBVIOUS
  <2>2. r.pendingFecBlockList # <<>>
    <3>1. q.pendingFecBlockList \in Seq(Entry)
      BY DEF Record
    <3> HIDE DEF e, Entry
    <3> QED BY <1>2, <1>3, <3>1, AppendFacts
  <2> HIDE DEF e
  <2>3. IndexIn(q, e.seq) = i
    BY <1>1, <2>1
  <2> QED BY <1>1, <1>2, <1>3, <2>1, <2>2, <2>3, HeldGrows DEF Collecting
<1>11. Sent(q) \subseteq 0..(BlockPackets - 1) /\ i \notin Sent(q)
  BY <1>1, SentHeld DEF Collecting
<1>12. /\ r.receivedDataPackets = Cardinality({j \in Sent(r) : j < DataPackets})
       /\ r.receivedParityPackets = Cardinality({j \in Sent(r) : j >= DataPackets})
  <2>1. /\ q.receivedDataPackets = Cardinality({j \in Sent(q) : j < DataPackets})
        /\ q.receivedParityPackets = Cardinality({j \in Sent(q) : j >= DataPackets})
    BY DEF Collecting, CountsMatch
  <2>2. /\ Cardinality({j \in Sent(q) \cup {i} : j < DataPackets}) =
              Cardinality({j \in Sent(q) : j < DataPackets}) + (IF i < DataPackets THEN 1 ELSE 0)
        /\ Cardinality({j \in Sent(q) \cup {i} : j >= DataPackets}) =
              Cardinality({j \in Sent(q) : j >= DataPackets}) + (IF i < DataPackets THEN 0 ELSE 1)
    BY <1>11, SidesGrow, Zenon
  <2>3. Sent(r) = Sent(q) \cup {i}
    BY <1>10
  <2> QED BY <1>5, <2>1, <2>2, <2>3, Zenon
<1>13. PICK l \in SeqNumber, s \in SeqNumber : l = q.bufferLowestSequenceNumber /\ s = SeqNum(p) /\ Place(l, s) = i
  BY <1>1, IndexIsPlace DEF Record
<1>14. Top(r) = Place(l, r.receivedHighestSequenceNumber)
  BY <1>3, <1>13, IndexIsPlace DEF Top
<1>15. ASSUME q.pendingFecBlockList = <<>> PROVE Collecting(r)
  <2>1. Sent(r) = {i} /\ Top(r) = i /\ r.missingPackets = i
    BY <1>4, <1>10, <1>13, <1>14, <1>15, EmptyBlock
  <2>2. Cardinality((0..i) \ {i}) = i
    BY HolesFirst
  <2>3. i <= i
    OBVIOUS
  <2>4. CountsMatch(r)
    BY <1>12, <2>1, <2>2, <2>3 DEF CountsMatch
  <2>5. Predicted(r)
    BY <1>3, <1>15 DEF Predicted
  <2> QED BY <1>7, <1>9, <1>10, <2>4, <2>5 DEF Collecting
<1>16. ASSUME q.pendingFecBlockList # <<>> PROVE Collecting(r)
  <2>1. PICK top \in 0..(BlockPackets - 1) : top = Top(q) /\ top \in Sent(q)
    BY <1>11, <1>16 DEF Collecting, CountsMatch
  <2>2. PICK h \in SeqNumber : h = q.receivedHighestSequenceNumber /\ Place(l, h) = top
    BY <1>13, <2>1, IndexIsPlace DEF Record, Top
  <2>3. /\ Before(h, s) <=> top < i
        /\ top < i => U16(s - h - 1) = i - top - 1
    <3>1. Place(l, h) <= BlockPackets /\ Place(l, s) <= BlockPackets
      BY <1>13, <2>2, Sizes
    <3> QED BY <1>13, <2>2, <3>1, Order
  <2>4. \A j \in Sent(q) : j <= top
    BY <1>16, <2>1 DEF Collecting, CountsMatch
  <2>5. q.missingPackets = Cardinality((0..top) \ Sent(q)) /\ q.missingPackets \in Int
    BY <1>16, <2>1 DEF Collecting, CountsMatch, Record
  <2>6. Sent(q) \subseteq 0..top
    BY <1>11, <2>4
  <2>7. i # top
    BY <1>11, <2>1
  <2>8. CASE top < i
    <3>1. Top(r) = i /\ r.missingPackets = q.missingPackets + (i - top - 1)
      BY <1>4, <1>13, <1>14, <1>16, <2>2, <2>3, <2>8
    <3>2. r.missingPackets = Cardinality((0..i) \ Sent(r))
      <4>1. Cardinality((0..i) \ (Sent(q) \cup {i})) = Cardinality((0..top) \ Sent(q)) + (i - top - 1)
        <5>1. top \in Nat /\ i \in Nat
          BY Sizes
        <5> QED BY <2>6, <2>8, <5>1, HolesAbove
      <4> QED BY <1>10, <2>5, <3>1, <4>1
    <3>3. \A j \in Sent(r) : j <= i
      BY <1>10, <2>6, <2>8
    <3>4. CountsMatch(r)
      BY <1>10, <1>12, <3>1, <3>2, <3>3 DEF CountsMatch
    <3>5. Predicted(r)
      <4>1. r.missingPackets >= q.missingPackets
        BY <2>5, <2>8, <3>1
      <4>2. q.missingPackets \in Int /\ r.missingPackets \in Int /\ ParityPackets \in Int
            /\ q.lastOosFrame \in Int
        BY <1>2, Sizes DEF Record
      <4>3. CASE OutOfSequence(q, p)
        BY <1>1, <1>3, <1>6, <4>3 DEF Predicted
      <4>4. CASE ~OutOfSequence(q, p) /\ q.reportedLostFrame /\ q.receivedOosData
        <5>1. q.lastOosFrame = FrameOf(p)
          BY <1>1, <4>4 DEF Collecting, Predicted
        <5>2. r.receivedOosData /\ r.lastOosFrame = q.currentFrameNumber
          <6>1. ~(FrameOf(p) > q.lastOosFrame)
            BY <4>2, <5>1
          <6>2. r.receivedOosData
            BY <1>6, <4>4, <6>1, Zenon
          <6> QED BY <1>1, <1>6, <4>4, <5>1, <6>2, Zenon
        <5> QED BY <1>3, <5>2 DEF Predicted
      <4>5. CASE ~OutOfSequence(q, p) /\ q.reportedLostFrame /\ ~q.receivedOosData
        <5>1. q.missingPackets > ParityPackets /\ Held(q) = Sent(q)
          BY <4>5 DEF Collecting, Predicted
        <5>2. ~r.receivedOosData
          BY <1>6, <4>5
        <5>3. r.missingPackets > ParityPackets /\ Held(r) = Sent(r)
          BY <1>10, <4>1, <4>2, <5>1
        <5> QED BY <5>2, <5>3 DEF Predicted
      <4>6. CASE ~q.reportedLostFrame
        BY <1>3, <4>6 DEF Predicted
      <4> QED BY <4>3, <4>4, <4>5, <4>6
    <3> QED BY <1>7, <1>9, <1>10, <3>4, <3>5 DEF Collecting
  <2>9. CASE i < top
    <3>1. Top(r) = top /\ r.missingPackets = q.missingPackets - 1
      BY <1>4, <1>13, <1>14, <1>16, <2>2, <2>3, <2>9
    <3>2. r.missingPackets = Cardinality((0..top) \ Sent(r))
      BY <1>10, <1>11, <2>5, <2>9, <3>1, HolesBelow
    <3>3. \A j \in Sent(r) : j <= top
      BY <1>10, <2>6, <2>9
    <3>4. CountsMatch(r)
      BY <1>10, <1>12, <2>1, <3>1, <3>2, <3>3 DEF CountsMatch
    <3>5. Predicted(r)
      <4>1. OutOfSequence(q, p)
        BY <1>0, <2>1, <2>9, BelowTop DEF Collecting
      <4> QED BY <1>1, <1>3, <1>6, <4>1 DEF Predicted
    <3> QED BY <1>7, <1>9, <1>10, <3>4, <3>5 DEF Collecting
  <2> QED BY <2>7, <2>8, <2>9
<1> QED BY <1>0, <1>10, <1>15, <1>16 DEF r
-----------------------------------------------------------------------------
\* The bounds of the counters follow from what they count.
LEMMA Bounded ==
  ASSUME NEW q \in Record, Collecting(q), q.pendingFecBlockList # <<>>
  PROVE  /\ q.receivedDataPackets \in 0..DataPackets
         /\ q.receivedParityPackets \in 0..ParityPackets
         /\ q.missingPackets \in 0..(BlockPackets - 1)
         /\ Cardinality(Sent(q)) + q.missingPackets = Top(q) + 1 /\ Top(q) + 1 <= BlockPackets
         /\ Cardinality(Sent(q)) \in 1..BlockPackets
<1>1. /\ Sent(q) \subseteq 0..(BlockPackets - 1) /\ IsFiniteSet(Sent(q))
      /\ Cardinality(Sent(q)) \in Nat
  BY SentHeld DEF Collecting
<1>2. PICK top \in 0..(BlockPackets - 1) : top = Top(q) /\ top \in Sent(q) /\ \A i \in Sent(q) : i <= top
  BY <1>1 DEF Collecting, CountsMatch
<1>3. Sent(q) \subseteq 0..top
  BY <1>1, <1>2
<1>4. top \in Nat /\ BlockPackets \in Nat /\ top + 1 <= BlockPackets
  BY Sizes
<1>5. q.missingPackets = Cardinality((0..top) \ Sent(q))
  BY <1>2 DEF Collecting, CountsMatch
<1>6. Cardinality((0..top) \ Sent(q)) \in Nat
  <2>1. 0 \in Int /\ top \in Int /\ (0..top) \ Sent(q) \subseteq 0..top
    BY <1>4
  <2> QED BY <2>1, FiniteInBlock
<1>7. Cardinality((0..top) \ Sent(q)) + Cardinality(Sent(q)) = top + 1
  BY <1>3, <1>4, HolesAndHeld
<1>8. Cardinality(Sent(q)) # 0
  BY <1>1, <1>2, FS_EmptySet
<1>9. /\ q.missingPackets \in 0..(BlockPackets - 1)
      /\ Cardinality(Sent(q)) + q.missingPackets = Top(q) + 1 /\ Top(q) + 1 <= BlockPackets
      /\ Cardinality(Sent(q)) \in 1..BlockPackets
  BY <1>1, <1>2, <1>4, <1>5, <1>6, <1>7, <1>8
<1>10. q.receivedDataPackets \in 0..DataPackets
  <2>1. ASSUME NEW i \in Sent(q), i < DataPackets PROVE i \in 0..(DataPackets - 1)
    <3>1. i \in 0..(BlockPackets - 1) /\ DataPackets \in Nat
      BY <1>1, Sizes
    <3> QED BY <2>1, <3>1
  <2>2. IsFiniteSet(0..(DataPackets - 1)) /\ Cardinality(0..(DataPackets - 1)) = DataPackets
    <3>1. PICK m \in Int : m = DataPackets - 1
      BY Sizes
    <3>2. IsFiniteSet(0..m) /\ Cardinality(0..m) = IF 0 > m THEN 0 ELSE m - 0 + 1
      BY FS_Interval
    <3>3. ~(0 > m) /\ m - 0 + 1 = DataPackets
      BY <3>1, Sizes
    <3> QED BY <3>1, <3>2, <3>3
  <2>3. /\ Cardinality({i \in Sent(q) : i < DataPackets}) <= DataPackets
        /\ IsFiniteSet({i \in Sent(q) : i < DataPackets})
    <3>1. {i \in Sent(q) : i < DataPackets} \subseteq 0..(DataPackets - 1)
      BY <2>1, Zenon
    <3> QED BY <2>2, <3>1, FS_Subset
  <2>4. q.receivedDataPackets = Cardinality({i \in Sent(q) : i < DataPackets}) /\ q.receivedDataPackets \in Nat
    BY DEF Collecting, CountsMatch, Record
  <2> QED BY <2>3, <2>4, Sizes
<1>11. q.receivedParityPackets \in 0..ParityPackets
  <2>1. {i \in Sent(q) : i >= DataPackets} \in SUBSET (DataPackets..(BlockPackets - 1))
    BY <1>1, Sizes
  <2>2. /\ IsFiniteSet(DataPackets..(BlockPackets - 1))
        /\ Cardinality(DataPackets..(BlockPackets - 1)) = ParityPackets
    <3>1. /\ DataPackets \in Int /\ BlockPackets - 1 \in Int /\ BlockPackets - 1 - DataPackets + 1 = ParityPackets
          /\ DataPackets > BlockPackets - 1 => ParityPackets = 0
      BY Sizes
    <3> QED BY <3>1, FS_Interval
  <2>3. Cardinality({i \in Sent(q) : i >= DataPackets}) <= ParityPackets
    BY <2>1, <2>2, FS_Subset
  <2>4. q.receivedParityPackets = Cardinality({i \in Sent(q) : i >= DataPackets}) /\ q.receivedParityPackets \in Nat
    BY DEF Collecting, CountsMatch, Record
  <2> QED BY <2>3, <2>4, Sizes
<1> QED BY <1>9, <1>10, <1>11

\* TypeOK in two parts.
LEMMA TypeParts ==
  /\ TypeOK => queue \in Record
  /\ queue \in Record /\ queue.receivedDataPackets \in 0..DataPackets
       /\ queue.receivedParityPackets \in 0..ParityPackets
       /\ queue.missingPackets \in 0..(BlockPackets - 1)
       /\ phase \in {"waiting", "received", "recovering"} /\ arrived \subseteq 0..(BlockPackets - 1)
       /\ submitted \in [frame : 0..MaxFrame, packets : Seq(Entry)] /\ lost \in 0..MaxFrame
     => TypeOK
<1> HIDE DEF Entry, SeqNumber
<1>1. TypeOK => queue \in Record
  <2>1. 0..DataPackets \subseteq Nat /\ 0..ParityPackets \subseteq Nat /\ 0..(BlockPackets - 1) \subseteq Int
    BY Sizes
  <2> QED BY <2>1 DEF TypeOK, Record
<1>2. ASSUME queue \in Record, queue.receivedDataPackets \in 0..DataPackets,
             queue.receivedParityPackets \in 0..ParityPackets,
             queue.missingPackets \in 0..(BlockPackets - 1)
      PROVE  queue \in
       [pendingFecBlockList : Seq(Entry), completedFecBlockList : Seq(Entry),
        bufferLowestSequenceNumber : SeqNumber, nextContiguousSequenceNumber : SeqNumber,
        receivedHighestSequenceNumber : SeqNumber,
        receivedDataPackets : 0..DataPackets, receivedParityPackets : 0..ParityPackets,
        missingPackets : 0..(BlockPackets - 1),
        useFastQueuePath : BOOLEAN, reportedLostFrame : BOOLEAN,
        currentFrameNumber : 1..(MaxFrame + 1), multiFecCurrentBlockNumber : 0..3,
        receivedOosData : BOOLEAN, lastOosFrame : 0..MaxFrame]
  BY <1>2 DEF Record
<1> QED BY <1>1, <1>2 DEF TypeOK
-----------------------------------------------------------------------------
\* The invariant, while a block is collected and while none is.
Collected ==
  /\ queue \in Record /\ phase \in {"waiting", "received", "recovering"}
  /\ submitted \in [frame : 0..MaxFrame, packets : Seq(Entry)] /\ lost \in 0..MaxFrame
  /\ queue.pendingFecBlockList # <<>> /\ Collecting(queue)
  /\ Sent(queue) \subseteq arrived /\ arrived \subseteq Held(queue)
  /\ Held(queue) # Sent(queue) => Enough /\ Cardinality(Sent(queue)) >= DataPackets
  /\ phase = "recovering" => Enough /\ (queue.reportedLostFrame => queue.receivedOosData)

Discarded ==
  /\ TypeOK /\ ~Pending /\ phase = "waiting"
  /\ queue.currentFrameNumber <= MaxFrame =>
       queue.multiFecCurrentBlockNumber <= LastBlock[queue.currentFrameNumber]
  /\ queue.currentFrameNumber = MaxFrame + 1 => queue.multiFecCurrentBlockNumber = 0

\* BlockInv from its parts.
LEMMA BlockParts == Collected => BlockInv
<1> SUFFICES ASSUME Collected PROVE BlockInv
  OBVIOUS
<1>1. arrived \subseteq 0..(BlockPackets - 1)
  BY DEF Collected, Collecting, Placed
<1>2. TypeOK
  <2> HIDE DEF Record, Entry
  <2> QED BY <1>1, Bounded, TypeParts DEF Collected
<1>3. queue.currentFrameNumber \in 1..MaxFrame
      /\ queue.multiFecCurrentBlockNumber <= LastBlock[queue.currentFrameNumber]
  BY DEF Collected, Collecting, BlockAt
<1>4. queue.currentFrameNumber # MaxFrame + 1
  BY <1>3, Sizes
<1> QED BY <1>2, <1>3, <1>4 DEF BlockInv, Collected, Pending

LEMMA BlockPartsEmpty == Discarded => BlockInv
BY DEF BlockInv, Discarded

\* The same of the next state.
LEMMA BlockPartsNext == (Collected' => BlockInv') /\ (Discarded' => BlockInv')
BY BlockParts, BlockPartsEmpty, PTL

\* The initial state.
LEMMA BlockBegins == Init => BlockInv
<1> SUFFICES ASSUME Init PROVE BlockInv
  OBVIOUS
<1>1. TypeOK
  <2>1. <<>> \in Seq(Entry) /\ 0 \in SeqNumber /\ 0 \in 0..DataPackets /\ 0 \in 0..ParityPackets
        /\ 0 \in 0..(BlockPackets - 1) /\ 1 \in 1..(MaxFrame + 1) /\ 0 \in 0..MaxFrame /\ 0 \in 0..3
    BY Sizes
  <2> HIDE DEF Entry, SeqNumber
  <2> QED BY <2>1 DEF Init, TypeOK
<1>2. ~Pending /\ phase = "waiting" /\ queue.currentFrameNumber = 1 /\ queue.multiFecCurrentBlockNumber = 0
  BY DEF Init, Pending
<1>3. LastBlock[1] \in Nat
  BY Sizes
<1> QED BY <1>1, <1>2, <1>3, BlockPartsEmpty DEF Discarded

\* A packet that is refused: it is behind, and what is behind is held, or it is a
\* duplicate.
LEMMA RejectKeeps ==
  ASSUME BlockInv, NEW p \in Packet, RejectPacket(p)
  PROVE  BlockInv'
<1>1. UNCHANGED <<queue, phase, submitted, lost>> /\ phase = "waiting"
      /\ arrived' = (IF OfThisBlock(p) THEN arrived \union {p.index} ELSE arrived)
      /\ (Behind(p) \/ (OfThisBlock(p) /\ Duplicate(queue, p)))
  BY DEF RejectPacket
<1>2. queue \in Record
  BY TypeParts DEF BlockInv
<1>3. CASE ~OfThisBlock(p)
  BY <1>1, <1>3 DEF BlockInv, TypeOK, Pending, Enough, Collecting, Record
<1>4. CASE OfThisBlock(p)
  <2>1. /\ Pending /\ Collecting(queue)
        /\ p.block = <<queue.currentFrameNumber, queue.multiFecCurrentBlockNumber>>
    BY <1>4 DEF OfThisBlock, BlockInv, Pending
  <2>2. /\ SeqNum(p) \in SeqNumber /\ p.index \in 0..(BlockPackets - 1)
        /\ IndexIn(queue, SeqNum(p)) = p.index /\ FrameOf(p) = queue.currentFrameNumber
        /\ Duplicate(queue, p) <=> p.index \in Held(queue)
    BY <1>2, <2>1, PacketPlace DEF Collecting
  <2>3. p.index \in Held(queue)
    <3> SUFFICES ASSUME Behind(p) PROVE p.index \in Held(queue)
      BY <1>1, <2>2
    <3>1. BlockOf(p) = queue.multiFecCurrentBlockNumber
      BY <2>1 DEF BlockOf
    <3>2. FrameOf(p) \in Int /\ BlockOf(p) \in Int
      BY <1>2, <2>2, <3>1 DEF Record
    <3>3. Before(SeqNum(p), queue.nextContiguousSequenceNumber)
      BY <2>2, <3>1, <3>2 DEF Behind
    <3>4. PICK l \in SeqNumber, s \in SeqNumber, n \in SeqNumber :
            l = queue.bufferLowestSequenceNumber /\ s = SeqNum(p) /\ n = queue.nextContiguousSequenceNumber
      BY <1>2, <2>2 DEF Record
    <3>5. Place(l, s) = p.index /\ Place(l, n) = IndexIn(queue, queue.nextContiguousSequenceNumber)
      BY <2>2, <3>4, IndexIsPlace
    <3>6. Place(l, n) <= BlockPackets /\ 0..(Place(l, n) - 1) \subseteq Held(queue)
      BY <2>1, <3>5, Zenon DEF Collecting, RunFilled
    <3>7. Place(l, s) <= BlockPackets
      BY <2>2, <3>5, Sizes
    <3>8. Place(l, s) < Place(l, n)
      BY <3>3, <3>4, <3>6, <3>7, Order
    <3>9. Place(l, n) \in SeqNumber
      BY PlaceType
    <3>10. p.index \in 0..(Place(l, n) - 1)
      BY <2>2, <3>5, <3>8, <3>9, Sizes
    <3> QED BY <3>6, <3>10
  <2>4. arrived' = arrived \cup {p.index} /\ arrived' \subseteq Held(queue)
        /\ Sent(queue) \subseteq arrived' /\ arrived' \subseteq 0..(BlockPackets - 1)
    BY <1>1, <1>4, <2>1, <2>2, <2>3 DEF BlockInv, TypeOK
  <2> QED BY <1>1, <2>1, <2>4 DEF BlockInv, TypeOK, Pending, Enough
<1> QED BY <1>3, <1>4
\* A packet that joins the block.
LEMMA AddKeeps ==
  ASSUME BlockInv, NEW p \in Packet, AddToBlock(p)
  PROVE  BlockInv'
<1>1. PICK c \in BOOLEAN : queue' = Accepted(queue, p, c)
  BY DEF AddToBlock
<1>2. /\ OfThisBlock(p) /\ ~Duplicate(queue, p) /\ phase' = "received"
      /\ arrived' = arrived \cup {p.index} /\ UNCHANGED <<submitted, lost>>
  BY DEF AddToBlock
<1>3. /\ queue \in Record /\ Collecting(queue) /\ queue.pendingFecBlockList # <<>>
      /\ p.block = <<queue.currentFrameNumber, queue.multiFecCurrentBlockNumber>>
  BY <1>2, TypeParts DEF OfThisBlock, BlockInv, Pending
<1>4. SeqNum(p) \in SeqNumber
  BY <1>3, PacketPlace DEF Collecting
<1>5. /\ queue' \in Record
      /\ queue'.pendingFecBlockList =
           Append(queue.pendingFecBlockList, [seq |-> SeqNum(p), origin |-> "sent"])
  BY <1>1, <1>3, <1>4, AcceptedFields
<1>6. /\ Collecting(queue') /\ queue'.pendingFecBlockList # <<>>
      /\ Held(queue') = Held(queue) \cup {p.index} /\ Sent(queue') = Sent(queue) \cup {p.index}
  BY <1>1, <1>2, <1>3, Filled
<1>7. /\ Sent(queue) \subseteq arrived /\ arrived \subseteq Held(queue)
      /\ Held(queue) # Sent(queue) => Enough /\ Cardinality(Sent(queue)) >= DataPackets
      /\ submitted \in [frame : 0..MaxFrame, packets : Seq(Entry)] /\ lost \in 0..MaxFrame
  BY <1>3 DEF BlockInv, Pending, TypeOK
<1>8. Held(queue') # Sent(queue') =>
        /\ Len(queue'.pendingFecBlockList) >= DataPackets
        /\ Cardinality(Sent(queue')) >= DataPackets
  <2>1. [seq |-> SeqNum(p), origin |-> "sent"] \in Entry /\ queue.pendingFecBlockList \in Seq(Entry)
    BY <1>3, <1>4 DEF Entry, Record
  <2>2. Len(queue'.pendingFecBlockList) = Len(queue.pendingFecBlockList) + 1
        /\ Len(queue.pendingFecBlockList) \in Nat
    <3> HIDE DEF Entry
    <3> QED BY <1>5, <2>1, AppendFacts
  <2>3. Len(queue.pendingFecBlockList) >= DataPackets => Len(queue'.pendingFecBlockList) >= DataPackets
    BY <2>2, Sizes
  <2>4. Cardinality(Sent(queue)) >= DataPackets => Cardinality(Sent(queue')) >= DataPackets
    <3>1. IsFiniteSet(Sent(queue)) /\ Cardinality(Sent(queue)) \in Nat
      BY <1>3, SentHeld DEF Collecting
    <3>2. Cardinality(Sent(queue')) = IF p.index \in Sent(queue) THEN Cardinality(Sent(queue))
                                      ELSE Cardinality(Sent(queue)) + 1
      BY <1>6, <3>1, FS_AddElement
    <3> QED BY <3>1, <3>2, Sizes
  <2> QED BY <1>6, <1>7, <2>3, <2>4 DEF Enough
<1>9. Sent(queue') \subseteq arrived' /\ arrived' \subseteq Held(queue')
  BY <1>2, <1>6, <1>7
<1>10. /\ queue' \in Record /\ phase' \in {"waiting", "received", "recovering"}
       /\ submitted' \in [frame : 0..MaxFrame, packets : Seq(Entry)] /\ lost' \in 0..MaxFrame
       /\ queue'.pendingFecBlockList # <<>> /\ Collecting(queue')
       /\ phase' # "recovering"
  BY <1>2, <1>5, <1>6, <1>7
<1>11. Collected'
  <2> HIDE DEF Record, Entry
  <2> QED BY <1>8, <1>9, <1>10 DEF Collected, Enough
<1> QED BY <1>11, BlockPartsNext
\* The queue that starts a block over.
LEMMA StartedOverFields ==
  ASSUME queue \in Record, NEW p \in Packet
  PROVE  LET q == StartedOver(p)
         IN  /\ q \in Record /\ q.pendingFecBlockList = <<>>
             /\ q.completedFecBlockList =
                  (IF FrameOf(p) = queue.currentFrameNumber THEN queue.completedFecBlockList ELSE <<>>)
             /\ q.currentFrameNumber = FrameOf(p) /\ q.multiFecCurrentBlockNumber = BlockOf(p)
             /\ q.bufferLowestSequenceNumber = SeqAt(FrameOf(p), BlockOf(p), 0)
             /\ q.nextContiguousSequenceNumber = SeqAt(FrameOf(p), BlockOf(p), 0)
             /\ q.receivedDataPackets = 0 /\ q.receivedParityPackets = 0 /\ ~q.reportedLostFrame
             /\ p.block = <<q.currentFrameNumber, q.multiFecCurrentBlockNumber>>
             /\ FrameOf(p) \in 1..MaxFrame /\ BlockOf(p) \in 0..LastBlock[FrameOf(p)]
<1> DEFINE q == StartedOver(p)
           l == U16(SeqNum(p) - p.index)
           list == IF FrameOf(p) = queue.currentFrameNumber THEN queue.completedFecBlockList ELSE <<>>
<1>1. PICK f \in 1..MaxFrame, b \in 0..3, i \in 0..(BlockPackets - 1) :
        f = FrameOf(p) /\ b = BlockOf(p) /\ i = p.index /\ p.block = <<f, b>> /\ b <= LastBlock[f]
  BY DEF Packet, Block, FrameOf, BlockOf
<1>2. b \in 0..LastBlock[f] /\ f \in 1..(MaxFrame + 1)
  <2>1. LastBlock[f] \in 0..3 /\ MaxFrame \in Nat
    BY Sizes
  <2> QED BY <1>1, <2>1
<1>3. l = SeqAt(f, b, 0)
  <2>1. SeqNum(p) = SeqAt(f, b, i)
    BY <1>1 DEF SeqNum
  <2> QED BY <1>1, <1>2, <2>1, Numbering
<1>4. SeqAt(f, b, 0) \in SeqNumber
  <2>1. 0 \in 0..(BlockPackets - 1)
    BY Sizes
  <2> QED BY <1>2, <2>1, Numbering
<1>5. list \in Seq(Entry) /\ 0 \in SeqNumber
  <2> HIDE DEF Entry
  <2> QED BY Sizes DEF Record
<1>6. q = [queue EXCEPT
            !.pendingFecBlockList = <<>>, !.completedFecBlockList = list, !.currentFrameNumber = f,
            !.bufferLowestSequenceNumber = l, !.nextContiguousSequenceNumber = l,
            !.receivedDataPackets = 0, !.receivedParityPackets = 0,
            !.receivedHighestSequenceNumber = 0, !.missingPackets = 0,
            !.useFastQueuePath = TRUE, !.reportedLostFrame = FALSE,
            !.multiFecCurrentBlockNumber = b]
  BY <1>1, <1>2, <1>5 DEF StartedOver, Record
<1>7. l \in SeqNumber
  BY <1>3, <1>4
<1> HIDE DEF q, l, list
<1>8. /\ q \in Record /\ q.pendingFecBlockList = <<>> /\ q.completedFecBlockList = list
      /\ q.currentFrameNumber = f /\ q.multiFecCurrentBlockNumber = b
      /\ q.bufferLowestSequenceNumber = l /\ q.nextContiguousSequenceNumber = l
      /\ q.receivedDataPackets = 0 /\ q.receivedParityPackets = 0 /\ ~q.reportedLostFrame
  <2> HIDE DEF Entry, SeqNumber
  <2>1. <<>> \in Seq(Entry)
    OBVIOUS
  <2>2. q \in Record
    <3>1. PICK a : a = [queue EXCEPT
            !.pendingFecBlockList = <<>>, !.completedFecBlockList = list, !.currentFrameNumber = f,
            !.bufferLowestSequenceNumber = l, !.nextContiguousSequenceNumber = l,
            !.multiFecCurrentBlockNumber = b]
      OBVIOUS
    <3>2. a \in Record
      BY <1>1, <1>2, <1>5, <1>7, <2>1, <3>1 DEF Record
    <3>3. PICK z : z = 0 /\ z \in Nat /\ z \in Int /\ z \in SeqNumber
      BY <1>5
    <3>4. q = [a EXCEPT !.receivedDataPackets = z, !.receivedParityPackets = z,
                        !.receivedHighestSequenceNumber = z, !.missingPackets = z,
                        !.useFastQueuePath = TRUE, !.reportedLostFrame = FALSE]
      BY <1>6, <3>1, <3>3 DEF Record
    <3> QED BY <3>2, <3>3, <3>4 DEF Record
  <2>3. /\ q.pendingFecBlockList = <<>> /\ q.completedFecBlockList = list
        /\ q.currentFrameNumber = f /\ q.multiFecCurrentBlockNumber = b
    BY <1>6 DEF Record
  <2>4. /\ q.bufferLowestSequenceNumber = l /\ q.nextContiguousSequenceNumber = l
        /\ q.receivedDataPackets = 0 /\ q.receivedParityPackets = 0 /\ ~q.reportedLostFrame
    BY <1>6 DEF Record
  <2> QED BY <2>2, <2>3, <2>4
<1> QED BY <1>1, <1>2, <1>3, <1>8 DEF q, list

\* An empty block that starts over satisfies what a collected one does.
LEMMA StartedOverCollecting ==
  ASSUME NEW q \in Record, q.pendingFecBlockList = <<>>, BlockAt(q),
         q.nextContiguousSequenceNumber = q.bufferLowestSequenceNumber,
         q.receivedDataPackets = 0, q.receivedParityPackets = 0, ~q.reportedLostFrame
  PROVE  Collecting(q)
<1>1. Held(q) = {} /\ Sent(q) = {}
  BY EmptyBlock
<1>2. Placed(q)
  <2>1. Cardinality(Held(q)) = 0 /\ Len(q.pendingFecBlockList) = 0
    BY <1>1, FS_EmptySet
  <2> QED BY <1>1, <2>1 DEF Placed
<1>3. IndexIn(q, q.nextContiguousSequenceNumber) = 0
  <2>1. PICK l \in SeqNumber : l = q.bufferLowestSequenceNumber
    BY DEF Record
  <2>2. U16(l - l) = IF l >= l THEN l - l ELSE l - l + SeqModulus
    BY PlaceValue
  <2>3. U16(l - l) = 0
    BY <2>1, <2>2, Sizes
  <2> QED BY <2>1, <2>3 DEF IndexIn
<1>4. RunFilled(q)
  <2>1. 0..(0 - 1) = {} /\ 0 <= BlockPackets
    BY Sizes
  <2> QED BY <1>1, <1>3, <2>1 DEF RunFilled
<1>5. CountsMatch(q)
  <2>1. {i \in Sent(q) : i < DataPackets} = {} /\ {i \in Sent(q) : i >= DataPackets} = {}
    BY <1>1
  <2>2. Cardinality({}) = 0
    BY FS_EmptySet
  <2> QED BY <2>1, <2>2 DEF CountsMatch
<1> QED BY <1>2, <1>4, <1>5 DEF Collecting, Predicted

\* The first packet of a block.
LEMMA StartKeeps ==
  ASSUME BlockInv, NEW p \in Packet, StartBlock(p)
  PROVE  BlockInv'
<1>1. PICK c \in BOOLEAN : queue' = Accepted(StartedOver(p), p, c)
  BY DEF StartBlock
<1>2. PICK q : q = StartedOver(p)
  OBVIOUS
<1>3. queue \in Record /\ submitted \in [frame : 0..MaxFrame, packets : Seq(Entry)] /\ lost \in 0..MaxFrame
  BY TypeParts DEF BlockInv, TypeOK
<1>4. /\ q \in Record /\ q.pendingFecBlockList = <<>>
      /\ q.currentFrameNumber = FrameOf(p) /\ q.multiFecCurrentBlockNumber = BlockOf(p)
      /\ q.bufferLowestSequenceNumber = SeqAt(FrameOf(p), BlockOf(p), 0)
      /\ q.nextContiguousSequenceNumber = SeqAt(FrameOf(p), BlockOf(p), 0)
      /\ q.receivedDataPackets = 0 /\ q.receivedParityPackets = 0 /\ ~q.reportedLostFrame
      /\ p.block = <<q.currentFrameNumber, q.multiFecCurrentBlockNumber>>
      /\ FrameOf(p) \in 1..MaxFrame /\ BlockOf(p) \in 0..LastBlock[FrameOf(p)]
  BY <1>2, <1>3, StartedOverFields
<1>5. BlockAt(q) /\ Collecting(q)
  <2>1. BlockOf(p) <= LastBlock[FrameOf(p)]
    BY <1>4
  <2>2. BlockAt(q)
    BY <1>4, <2>1 DEF BlockAt
  <2> QED BY <1>4, <2>2, StartedOverCollecting
<1>6. Held(q) = {} /\ Sent(q) = {} /\ ~Duplicate(q, p)
  BY <1>4, <1>5, EmptyBlock, PacketPlace
<1>7. SeqNum(p) \in SeqNumber
  BY <1>4, <1>5, PacketPlace
<1>8. queue' \in Record
  BY <1>1, <1>2, <1>4, <1>7, AcceptedFields
<1>9. /\ Collecting(queue') /\ queue'.pendingFecBlockList # <<>>
      /\ Held(queue') = {p.index} /\ Sent(queue') = {p.index}
  BY <1>1, <1>2, <1>4, <1>5, <1>6, Filled
<1>10. arrived' = {p.index} /\ phase' = "received" /\ UNCHANGED submitted
  BY DEF StartBlock
<1>11. lost' \in 0..MaxFrame
  <2>1. FrameOf(p) - 1 \in 0..MaxFrame
    BY <1>4, Sizes
  <2> QED BY <1>3, <2>1 DEF StartBlock
<1>12. Collected'
  <2> HIDE DEF Record, Entry
  <2> QED BY <1>3, <1>8, <1>9, <1>10, <1>11 DEF Collected, Enough
<1> QED BY <1>12, BlockPartsNext
\* Blocks were lost.
LEMMA LoseKeeps ==
  ASSUME BlockInv, NEW p \in Packet, LoseBlocks(p)
  PROVE  BlockInv'
<1>1. PICK f \in 1..MaxFrame : f = FrameOf(p)
  BY DEF Packet, Block, FrameOf
<1>2. PICK z \in 0..3, g \in 1..(MaxFrame + 1) : z = 0 /\ g = f + 1
  BY Sizes
<1>3. queue' = [queue EXCEPT
                 !.pendingFecBlockList = <<>>, !.completedFecBlockList = <<>>,
                 !.reportedLostFrame = TRUE,
                 !.currentFrameNumber = g, !.multiFecCurrentBlockNumber = z]
  BY <1>1, <1>2 DEF LoseBlocks
<1>4. TypeOK
  BY DEF BlockInv
<1>5. /\ phase' = phase /\ phase = "waiting" /\ arrived' = {} /\ submitted' = submitted
      /\ lost' = (IF queue.reportedLostFrame THEN lost ELSE queue.currentFrameNumber)
  BY DEF LoseBlocks
<1>6. queue' \in
       [pendingFecBlockList : Seq(Entry), completedFecBlockList : Seq(Entry),
        bufferLowestSequenceNumber : SeqNumber, nextContiguousSequenceNumber : SeqNumber,
        receivedHighestSequenceNumber : SeqNumber,
        receivedDataPackets : 0..DataPackets, receivedParityPackets : 0..ParityPackets,
        missingPackets : 0..(BlockPackets - 1),
        useFastQueuePath : BOOLEAN, reportedLostFrame : BOOLEAN,
        currentFrameNumber : 1..(MaxFrame + 1), multiFecCurrentBlockNumber : 0..3,
        receivedOosData : BOOLEAN, lastOosFrame : 0..MaxFrame]
  <2> HIDE DEF Entry, SeqNumber, BlockPackets
  <2>1. <<>> \in Seq(Entry)
    OBVIOUS
  <2> QED BY <1>2, <1>3, <1>4, <2>1 DEF TypeOK
<1>7. lost' \in 0..MaxFrame
  <2>1. queue.currentFrameNumber <= f /\ queue.currentFrameNumber \in 1..(MaxFrame + 1)
        /\ lost \in 0..MaxFrame
    BY <1>1, <1>4 DEF LoseBlocks, Behind, TypeOK
  <2>2. queue.currentFrameNumber \in 0..MaxFrame
    BY <1>1, <2>1, Sizes
  <2> QED BY <1>5, <2>1, <2>2
<1>8. TypeOK'
  <2>1. /\ phase' \in {"waiting", "received", "recovering"} /\ arrived' \subseteq 0..(BlockPackets - 1)
        /\ submitted' \in [frame : 0..MaxFrame, packets : Seq(Entry)]
    BY <1>4, <1>5 DEF TypeOK
  <2> QED BY <1>6, <1>7, <2>1 DEF TypeOK
<1>9. /\ queue'.pendingFecBlockList = <<>> /\ queue'.currentFrameNumber = g
      /\ queue'.multiFecCurrentBlockNumber = 0
  BY <1>2, <1>3, <1>4 DEF TypeOK
<1>10. g <= MaxFrame => 0 <= LastBlock[g]
  BY <1>1, <1>2, Sizes
<1>11. Discarded'
  BY <1>5, <1>8, <1>9, <1>10 DEF Discarded, Pending
<1> QED BY <1>11, BlockPartsNext

\* A change of the queue that leaves the block as it is.
LEMMA SameBlock ==
  ASSUME NEW q \in Record, NEW r \in Record,
         r.pendingFecBlockList = q.pendingFecBlockList,
         r.bufferLowestSequenceNumber = q.bufferLowestSequenceNumber,
         r.nextContiguousSequenceNumber = q.nextContiguousSequenceNumber,
         r.useFastQueuePath = q.useFastQueuePath,
         r.receivedHighestSequenceNumber = q.receivedHighestSequenceNumber,
         r.receivedDataPackets = q.receivedDataPackets,
         r.receivedParityPackets = q.receivedParityPackets,
         r.missingPackets = q.missingPackets,
         r.currentFrameNumber = q.currentFrameNumber,
         r.multiFecCurrentBlockNumber = q.multiFecCurrentBlockNumber,
         Collecting(q), Predicted(r)
  PROVE  Collecting(r) /\ Held(r) = Held(q) /\ Sent(r) = Sent(q)
<1>1. \A s : IndexIn(r, s) = IndexIn(q, s)
  BY DEF IndexIn
<1>2. Held(r) = Held(q) /\ Sent(r) = Sent(q) /\ Top(r) = Top(q)
  BY <1>1 DEF Held, Sent, Top
<1>3. BlockAt(r) /\ Placed(r)
  BY <1>2 DEF Collecting, BlockAt, Placed
<1>4. RunFilled(r)
  BY <1>1, <1>2 DEF Collecting, RunFilled
<1>5. CountsMatch(r)
  BY <1>2 DEF Collecting, CountsMatch
<1> QED BY <1>2, <1>3, <1>4, <1>5 DEF Collecting

\* The loss of the frame is predicted: no packet of it was recovered yet.
LEMMA PredictKeeps == BlockInv /\ PredictLoss => BlockInv'
<1> SUFFICES ASSUME BlockInv, PredictLoss PROVE BlockInv'
  OBVIOUS
<1>1. queue' = [queue EXCEPT !.reportedLostFrame = TRUE] /\ ~Enough /\ Hopeless
      /\ lost' = queue.currentFrameNumber /\ phase' = "waiting" /\ UNCHANGED <<arrived, submitted>>
  BY DEF PredictLoss
<1>2. /\ queue \in Record /\ Collecting(queue) /\ queue.pendingFecBlockList # <<>>
      /\ Sent(queue) \subseteq arrived /\ arrived \subseteq Held(queue) /\ Held(queue) = Sent(queue)
      /\ submitted \in [frame : 0..MaxFrame, packets : Seq(Entry)]
  BY <1>1, TypeParts DEF PredictLoss, BlockInv, Pending, TypeOK
<1>3. /\ queue' \in Record
      /\ queue'.pendingFecBlockList = queue.pendingFecBlockList
      /\ queue'.bufferLowestSequenceNumber = queue.bufferLowestSequenceNumber
      /\ queue'.nextContiguousSequenceNumber = queue.nextContiguousSequenceNumber
      /\ queue'.useFastQueuePath = queue.useFastQueuePath
      /\ queue'.receivedHighestSequenceNumber = queue.receivedHighestSequenceNumber
      /\ queue'.receivedDataPackets = queue.receivedDataPackets
      /\ queue'.receivedParityPackets = queue.receivedParityPackets
      /\ queue'.missingPackets = queue.missingPackets
      /\ queue'.currentFrameNumber = queue.currentFrameNumber
      /\ queue'.multiFecCurrentBlockNumber = queue.multiFecCurrentBlockNumber
      /\ queue'.receivedOosData = queue.receivedOosData
  <2> HIDE DEF Entry, SeqNumber
  <2> QED BY <1>1, <1>2 DEF Record
<1>4. Predicted(queue')
  <2>1. ~queue'.receivedOosData /\ queue'.missingPackets > ParityPackets
    BY <1>1, <1>3 DEF Hopeless
  <2>2. Held(queue') = Held(queue) /\ Sent(queue') = Sent(queue)
    BY <1>3 DEF Held, Sent, IndexIn
  <2> QED BY <1>2, <2>1, <2>2 DEF Predicted
<1>5. Collecting(queue') /\ Held(queue') = Held(queue) /\ Sent(queue') = Sent(queue)
  <2> HIDE DEF Record
  <2> QED BY <1>2, <1>3, <1>4, SameBlock
<1>6. lost' \in 0..MaxFrame
  BY <1>1, <1>2, Sizes DEF Collecting, BlockAt
<1>7. Collected'
  <2> HIDE DEF Record, Entry
  <2> QED BY <1>1, <1>2, <1>3, <1>5, <1>6 DEF Collected
<1> QED BY <1>7, BlockPartsNext

\* More packets are awaited.
LEMMA AwaitKeeps == BlockInv /\ AwaitMore => BlockInv'
<1> SUFFICES ASSUME BlockInv, AwaitMore PROVE BlockInv'
  OBVIOUS
<1>1. phase' = "waiting" /\ UNCHANGED <<queue, arrived, submitted, lost>>
  BY DEF AwaitMore
<1> QED BY <1>1 DEF BlockInv, TypeOK, Pending, Enough

\* Recovery starts, and withdraws a wrong prediction.
LEMMA StartRecoveryKeeps == BlockInv /\ StartRecovery => BlockInv'
<1> SUFFICES ASSUME BlockInv, StartRecovery PROVE BlockInv'
  OBVIOUS
<1>1. /\ queue' = (IF queue.reportedLostFrame /\ ~queue.receivedOosData
                   THEN [queue EXCEPT !.receivedOosData = TRUE,
                                      !.lastOosFrame = queue.currentFrameNumber]
                   ELSE queue)
      /\ Enough /\ phase = "received" /\ phase' = "recovering" /\ UNCHANGED <<arrived, submitted, lost>>
  BY DEF StartRecovery
<1>2. /\ queue \in Record /\ Collecting(queue) /\ queue.pendingFecBlockList # <<>>
      /\ Sent(queue) \subseteq arrived /\ arrived \subseteq Held(queue)
      /\ Held(queue) # Sent(queue) => Cardinality(Sent(queue)) >= DataPackets
      /\ submitted \in [frame : 0..MaxFrame, packets : Seq(Entry)] /\ lost \in 0..MaxFrame
  BY <1>1, TypeParts DEF BlockInv, Pending, TypeOK
<1>3. CASE ~(queue.reportedLostFrame /\ ~queue.receivedOosData)
  <2>1. queue' = queue
    BY <1>1, <1>3
  <2>2. Collected'
    BY <1>1, <1>2, <1>3, <2>1 DEF Collected, Enough
  <2> QED BY <2>2, BlockPartsNext
<1>4. CASE queue.reportedLostFrame /\ ~queue.receivedOosData
  <2>0. queue.currentFrameNumber \in 0..MaxFrame
    BY <1>2, Sizes DEF Collecting, BlockAt
  <2>1. /\ queue' \in Record
        /\ queue'.pendingFecBlockList = queue.pendingFecBlockList
        /\ queue'.bufferLowestSequenceNumber = queue.bufferLowestSequenceNumber
        /\ queue'.nextContiguousSequenceNumber = queue.nextContiguousSequenceNumber
        /\ queue'.useFastQueuePath = queue.useFastQueuePath
        /\ queue'.receivedHighestSequenceNumber = queue.receivedHighestSequenceNumber
        /\ queue'.receivedDataPackets = queue.receivedDataPackets
        /\ queue'.receivedParityPackets = queue.receivedParityPackets
        /\ queue'.missingPackets = queue.missingPackets
        /\ queue'.currentFrameNumber = queue.currentFrameNumber
        /\ queue'.multiFecCurrentBlockNumber = queue.multiFecCurrentBlockNumber
        /\ queue'.receivedOosData /\ queue'.lastOosFrame = queue.currentFrameNumber
    <3> HIDE DEF Entry, SeqNumber
    <3> QED BY <1>1, <1>2, <1>4, <2>0 DEF Record
  <2>2. Predicted(queue')
    BY <2>1 DEF Predicted
  <2>3. Collecting(queue') /\ Held(queue') = Held(queue) /\ Sent(queue') = Sent(queue)
    <3> HIDE DEF Record
    <3> QED BY <1>2, <2>1, <2>2, SameBlock
  <2>4. Collected'
    <3> HIDE DEF Record, Entry
    <3> QED BY <1>1, <1>2, <2>1, <2>3 DEF Collected, Enough
  <2> QED BY <2>4, BlockPartsNext
<1> QED BY <1>3, <1>4
\* The packet FEC recovers: its place, one of the data packets not queued.
LEMMA RecoveredPlace ==
  ASSUME NEW q \in Record, NEW i \in 0..(DataPackets - 1), NEW o \in {"recovered", "corrupt"}
  PROVE  LET e == [seq |-> U16(q.bufferLowestSequenceNumber + i), origin |-> o]
         IN  /\ e \in Entry /\ IndexIn(q, e.seq) = i /\ i \in 0..(BlockPackets - 1) /\ i < BlockPackets
<1>1. i \in 0..BlockPackets /\ i \in 0..(BlockPackets - 1) /\ i < BlockPackets
  BY Sizes
<1>2. PICK l \in SeqNumber : l = q.bufferLowestSequenceNumber
  BY DEF Record
<1>3. At(l, i) \in SeqNumber /\ Place(l, At(l, i)) = i
  BY <1>1, Places
<1>4. IndexIn(q, At(l, i)) = i
  BY <1>2, <1>3, IndexIsPlace
<1> QED BY <1>1, <1>2, <1>3, <1>4 DEF Entry, At

\* Queueing a recovered packet adds its place to those filled, not to those sent.
LEMMA RecoveredFields ==
  ASSUME NEW q \in Record, Collecting(q), NEW i \in (0..(DataPackets - 1)) \ Held(q),
         NEW o \in {"recovered", "corrupt"}, q.reportedLostFrame => q.receivedOosData,
         q.pendingFecBlockList # <<>>
  PROVE  LET r == Queued(q, [seq |-> U16(q.bufferLowestSequenceNumber + i), origin |-> o])
         IN  /\ r \in Record /\ Collecting(r) /\ r.pendingFecBlockList # <<>>
             /\ Held(r) = Held(q) \cup {i} /\ Sent(r) = Sent(q)
             /\ Len(r.pendingFecBlockList) = Len(q.pendingFecBlockList) + 1
             /\ r.reportedLostFrame = q.reportedLostFrame /\ r.receivedOosData = q.receivedOosData
<1> DEFINE e == [seq |-> U16(q.bufferLowestSequenceNumber + i), origin |-> o]
           r == Queued(q, e)
<1>1. e \in Entry /\ IndexIn(q, e.seq) = i /\ i \in 0..(BlockPackets - 1) /\ i < BlockPackets
      /\ e.origin # "sent"
  BY RecoveredPlace
<1> HIDE DEF e
<1>2. /\ r \in Record /\ r.pendingFecBlockList = Append(q.pendingFecBlockList, e)
      /\ r.bufferLowestSequenceNumber = q.bufferLowestSequenceNumber
      /\ r.receivedHighestSequenceNumber = q.receivedHighestSequenceNumber
      /\ r.receivedDataPackets = q.receivedDataPackets
      /\ r.receivedParityPackets = q.receivedParityPackets
      /\ r.missingPackets = q.missingPackets
      /\ r.reportedLostFrame = q.reportedLostFrame
      /\ r.currentFrameNumber = q.currentFrameNumber
      /\ r.multiFecCurrentBlockNumber = q.multiFecCurrentBlockNumber
      /\ r.receivedOosData = q.receivedOosData /\ r.lastOosFrame = q.lastOosFrame
  BY <1>1, QueuedFields
<1>3. RunFilled(r)
  BY <1>1, RunGrows DEF Collecting
<1> HIDE DEF r
<1>4. Held(r) = Held(q) \cup {i} /\ Sent(r) = Sent(q) /\ Placed(r)
  BY <1>1, <1>2, HeldGrows DEF Collecting
<1>5. r.pendingFecBlockList # <<>> /\ Len(r.pendingFecBlockList) = Len(q.pendingFecBlockList) + 1
  <2>1. q.pendingFecBlockList \in Seq(Entry)
    BY DEF Record
  <2> HIDE DEF Entry
  <2> QED BY <1>1, <1>2, <2>1, AppendFacts
<1>6. BlockAt(r)
  BY <1>2 DEF Collecting, BlockAt
<1>7. CountsMatch(r)
  <2>1. Top(r) = Top(q)
    BY <1>2 DEF Top, IndexIn
  <2> QED BY <1>2, <1>4, <2>1 DEF Collecting, CountsMatch
<1>8. Predicted(r)
  BY <1>2 DEF Collecting, Predicted
<1> QED BY <1>2, <1>3, <1>4, <1>5, <1>6, <1>7, <1>8 DEF Collecting, r, e

\* A packet is recovered.
LEMMA RecoverKeeps == BlockInv /\ RecoverPacket => BlockInv'
<1> SUFFICES ASSUME BlockInv, RecoverPacket PROVE BlockInv'
  OBVIOUS
<1>1. PICK i \in Lacking, o \in {"recovered", "corrupt"} :
        /\ queue' = Queued(queue, [seq |-> U16(queue.bufferLowestSequenceNumber + i), origin |-> o])
        /\ phase' = IF o = "corrupt" THEN "waiting" ELSE "recovering"
  BY DEF RecoverPacket
<1>2. /\ queue \in Record /\ Collecting(queue) /\ queue.pendingFecBlockList # <<>>
      /\ Sent(queue) \subseteq arrived /\ arrived \subseteq Held(queue)
      /\ queue.reportedLostFrame => queue.receivedOosData
      /\ Enough /\ (Held(queue) # Sent(queue) => Cardinality(Sent(queue)) >= DataPackets)
      /\ submitted \in [frame : 0..MaxFrame, packets : Seq(Entry)] /\ lost \in 0..MaxFrame
      /\ UNCHANGED <<arrived, submitted, lost>>
  BY TypeParts DEF RecoverPacket, BlockInv, Pending, TypeOK
<1>3. i \in (0..(DataPackets - 1)) \ Held(queue)
  BY <1>1 DEF Lacking
<1>4. /\ queue' \in Record /\ Collecting(queue') /\ queue'.pendingFecBlockList # <<>>
      /\ Held(queue') = Held(queue) \cup {i} /\ Sent(queue') = Sent(queue)
      /\ Len(queue'.pendingFecBlockList) = Len(queue.pendingFecBlockList) + 1
      /\ queue'.reportedLostFrame = queue.reportedLostFrame
      /\ queue'.receivedOosData = queue.receivedOosData
  BY <1>1, <1>2, <1>3, RecoveredFields
<1>5. Enough'
  <2>1. Len(queue.pendingFecBlockList) \in Nat
    <3> HIDE DEF Entry
    <3> QED BY <1>2 DEF Record
  <2> QED BY <1>2, <1>4, <2>1, Sizes DEF Enough
<1>6. Cardinality(Sent(queue')) >= DataPackets
  <2>1. Held(queue) = Sent(queue) => Cardinality(Sent(queue)) >= DataPackets
    BY <1>2 DEF Collecting, Placed, Enough
  <2> QED BY <1>2, <1>4, <2>1
<1>7. Collected'
  <2> HIDE DEF Record, Entry, Enough
  <2> QED BY <1>1, <1>2, <1>4, <1>5, <1>6 DEF Collected
<1> QED BY <1>7, BlockPartsNext-----------------------------------------------------------------------------
\* When nothing is lacking, every data packet of the block is there.
LEMMA NothingLacks ==
  ASSUME BlockInv, phase = "recovering", Lacking = {}
  PROVE  /\ queue \in Record /\ Collecting(queue) /\ queue.pendingFecBlockList # <<>>
         /\ 0..(DataPackets - 1) \subseteq Held(queue)
<1>1. queue \in Record /\ Collecting(queue) /\ queue.pendingFecBlockList # <<>>
  BY TypeParts DEF BlockInv, Pending
<1>2. CASE queue.receivedDataPackets # DataPackets
  BY <1>1, <1>2 DEF Lacking
<1>3. CASE queue.receivedDataPackets = DataPackets
  <2>1. PICK S : S = {i \in Sent(queue) : i < DataPackets}
    OBVIOUS
  <2>2. Cardinality(S) = DataPackets
    BY <1>1, <1>3, <2>1 DEF Collecting, CountsMatch
  <2>3. Sent(queue) \subseteq 0..(BlockPackets - 1) /\ Sent(queue) \subseteq Held(queue)
    BY <1>1, SentHeld DEF Collecting
  <2>4. S \subseteq 0..(DataPackets - 1)
    <3> SUFFICES ASSUME NEW i \in S PROVE i \in 0..(DataPackets - 1)
      OBVIOUS
    <3>1. i \in 0..(BlockPackets - 1) /\ i < DataPackets /\ DataPackets \in Nat
      BY <2>1, <2>3, Sizes
    <3> QED BY <3>1
  <2>5. IsFiniteSet(0..(DataPackets - 1)) /\ Cardinality(0..(DataPackets - 1)) = DataPackets
    <3>1. PICK m \in Int : m = DataPackets - 1
      BY Sizes
    <3>2. IsFiniteSet(0..m) /\ Cardinality(0..m) = IF 0 > m THEN 0 ELSE m - 0 + 1
      BY FS_Interval
    <3>3. ~(0 > m) /\ m - 0 + 1 = DataPackets
      BY <3>1, Sizes
    <3> QED BY <3>1, <3>2, <3>3
  <2>6. S = 0..(DataPackets - 1)
    BY <2>2, <2>4, <2>5, FS_Subset
  <2> QED BY <1>1, <2>1, <2>3, <2>6
<1> QED BY <1>2, <1>3

\* Of the places 0, 1, ..., i have a smaller one than i.
LEMMA CountBelow ==
  ASSUME NEW D \in Nat, NEW i \in 0..(D - 1)
  PROVE  Cardinality({j \in 0..(D - 1) : j < i}) = i
<1>1. {j \in 0..(D - 1) : j < i} = 0..(i - 1)
  OBVIOUS
<1>2. 0 \in Int /\ i - 1 \in Int /\ i \in Nat
  OBVIOUS
<1>3. PICK m \in Int : m = i - 1
  BY <1>2
<1>4. Cardinality(0..m) = IF 0 > m THEN 0 ELSE m - 0 + 1
  BY <1>2, FS_Interval
<1>5. (0 > m => i = 0) /\ m - 0 + 1 = i
  BY <1>2, <1>3
<1> QED BY <1>1, <1>3, <1>4, <1>5

\* stageCompleteFecBlock() appends the data packets of the block in order.
LEMMA StagedPackets ==
  ASSUME NEW q \in Record, Collecting(q), 0..(DataPackets - 1) \subseteq Held(q)
  PROVE  /\ Staged(q) \in Seq(Entry)
         /\ Len(Staged(q)) = Len(q.completedFecBlockList) + DataPackets
         /\ \A n \in 1..Len(q.completedFecBlockList) : Staged(q)[n] = q.completedFecBlockList[n]
         /\ \A n \in 1..DataPackets :
              Staged(q)[Len(q.completedFecBlockList) + n].seq = At(q.bufferLowestSequenceNumber, n - 1)
<1> DEFINE held == Held(q) \intersect 0..(DataPackets - 1)
           below(i) == Cardinality({j \in held : j < i})
           Nth(n, e) == IndexIn(q, e.seq) \in held /\ below(IndexIn(q, e.seq)) = n - 1
           block == [n \in 1..Cardinality(held) |->
                      CHOOSE e \in ToSet(q.pendingFecBlockList) : Nth(n, e)]
<1>10. Staged(q) = q.completedFecBlockList \o block
  BY Zenon DEF Staged
<1>1. held = 0..(DataPackets - 1)
  OBVIOUS
<1>2. Cardinality(held) = DataPackets
  <2>1. 0 \in Int /\ DataPackets - 1 \in Int
    BY Sizes
  <2>2. Cardinality(0..(DataPackets - 1)) = IF 0 > DataPackets - 1 THEN 0 ELSE (DataPackets - 1) - 0 + 1
    BY <2>1, FS_Interval
  <2>3. ~(0 > DataPackets - 1) /\ (DataPackets - 1) - 0 + 1 = DataPackets
    BY Sizes
  <2> QED BY <1>1, <2>2, <2>3
<1>3. \A i \in 0..(DataPackets - 1) : below(i) = i
  BY <1>1, CountBelow, Sizes
<1>4. q.pendingFecBlockList \in Seq(Entry) /\ q.completedFecBlockList \in Seq(Entry)
  BY DEF Record
<1>5. ToSet(q.pendingFecBlockList) \subseteq Entry
  <2> HIDE DEF Entry
  <2> QED BY <1>4 DEF ToSet
<1>6. PICK l \in SeqNumber : l = q.bufferLowestSequenceNumber
  BY DEF Record
<1>7. ASSUME NEW n \in 1..DataPackets
      PROVE  LET e == CHOOSE e \in ToSet(q.pendingFecBlockList) : Nth(n, e)
             IN  e \in Entry /\ e.seq = At(l, n - 1)
  <2> HIDE DEF held, below
  <2>1. PICK i \in 0..(DataPackets - 1) : i = n - 1
    BY Sizes
  <2>2. PICK e \in ToSet(q.pendingFecBlockList) : IndexIn(q, e.seq) = i
    BY DEF Held
  <2>3. Nth(n, e)
    BY <1>1, <1>3, <2>1, <2>2
  <2>4. PICK d \in ToSet(q.pendingFecBlockList) :
          d = (CHOOSE x \in ToSet(q.pendingFecBlockList) : Nth(n, x)) /\ Nth(n, d)
    BY <2>2, <2>3
  <2>5. IndexIn(q, d.seq) = i
    BY <1>1, <1>3, <2>1, <2>4
  <2>6. d \in Entry /\ d.seq \in SeqNumber
    BY <1>5, <2>4 DEF Entry
  <2>7. Place(l, d.seq) = i /\ i \in 0..BlockPackets
    BY <1>6, <2>1, <2>5, IndexIsPlace, Sizes
  <2>8. d.seq = At(l, i)
    BY <2>6, <2>7, Places
  <2> QED BY <2>1, <2>4, <2>6, <2>8
<1> HIDE DEF Nth, held
<1>8. block = [n \in 1..DataPackets |-> CHOOSE e \in ToSet(q.pendingFecBlockList) : Nth(n, e)]
  BY <1>2
<1> HIDE DEF block
<1>9. /\ block \in Seq(Entry) /\ Len(block) = DataPackets
      /\ \A n \in 1..DataPackets : block[n].seq = At(l, n - 1)
  <2>1. block \in [1..DataPackets -> Entry]
    BY <1>7, <1>8, Zenon
  <2>2. DataPackets \in Nat
    BY Sizes
  <2>3. block \in Seq(Entry) /\ Len(block) = DataPackets
    <3> HIDE DEF Entry
    <3> QED BY <2>1, <2>2
  <2>4. \A n \in 1..DataPackets : block[n].seq = At(l, n - 1)
    BY <1>7, <1>8
  <2> QED BY <2>3, <2>4
<1> QED
  <2> HIDE DEF Entry
  <2>1. PICK c \in Seq(Entry) : c = q.completedFecBlockList
    BY <1>4
  <2>2. /\ c \o block \in Seq(Entry) /\ Len(c \o block) = Len(c) + DataPackets
        /\ \A n \in 1..Len(c) : (c \o block)[n] = c[n]
        /\ \A n \in 1..DataPackets : (c \o block)[Len(c) + n] = block[n]
    <3>1. /\ c \o block \in Seq(Entry) /\ Len(c \o block) = Len(c) + DataPackets
          /\ \A i \in 1..Len(c) + DataPackets :
               (c \o block)[i] = IF i <= Len(c) THEN c[i] ELSE block[i - Len(c)]
      BY <1>9, ConcatProperties
    <3>2. PICK k \in Nat, d \in Nat : k = Len(c) /\ d = DataPackets
      BY Sizes
    <3>3. ASSUME NEW n \in 1..k PROVE (c \o block)[n] = c[n]
      <4>1. n \in 1..k + d /\ n <= k
        OBVIOUS
      <4> QED BY <3>1, <3>2, <4>1
    <3>4. ASSUME NEW n \in 1..d PROVE (c \o block)[k + n] = block[n]
      <4>1. k + n \in 1..k + d /\ ~(k + n <= k) /\ k + n - k = n
        OBVIOUS
      <4> QED BY <3>1, <3>2, <4>1
    <3> QED BY <3>1, <3>2, <3>3, <3>4
  <2>3. \A n \in 1..DataPackets : (c \o block)[Len(c) + n].seq = At(l, n - 1)
    BY <1>9, <2>2
  <2> QED BY <1>6, <1>10, <2>1, <2>2, <2>3
\* The queue after a block or a frame is complete.
LEMMA CompleteKeeps ==
  ASSUME BlockInv, phase = "recovering", Lacking = {}, CompleteBlock \/ CompleteFrame
  PROVE  BlockInv'
<1>1. /\ queue \in Record /\ Collecting(queue) /\ 0..(DataPackets - 1) \subseteq Held(queue)
  BY NothingLacks
<1>2. Staged(queue) \in Seq(Entry)
  BY <1>1, StagedPackets
<1>3. PICK f \in 1..MaxFrame, b \in 0..3 :
        f = queue.currentFrameNumber /\ b = queue.multiFecCurrentBlockNumber /\ b <= LastBlock[f]
  BY <1>1 DEF Collecting, BlockAt, Record
<1>4. LastBlock[f] \in 0..3 /\ f \in 0..MaxFrame
  BY <1>3, Sizes
<1>5. TypeOK
  BY DEF BlockInv
<1>6. PICK done \in Seq(Entry), g \in 1..(MaxFrame + 1), c \in 0..3 :
        /\ queue' = [queue EXCEPT !.pendingFecBlockList = <<>>, !.completedFecBlockList = done,
                                  !.currentFrameNumber = g, !.multiFecCurrentBlockNumber = c]
        /\ submitted' \in [frame : 0..MaxFrame, packets : Seq(Entry)]
        /\ g <= MaxFrame => c <= LastBlock[g]
        /\ g = MaxFrame + 1 => c = 0
  <2>1. CASE CompleteBlock
    <3>1. /\ queue' = [queue EXCEPT !.pendingFecBlockList = <<>>, !.completedFecBlockList = Staged(queue),
                                    !.multiFecCurrentBlockNumber = b + 1]
          /\ b # LastBlock[f] /\ submitted' = submitted
      BY <1>3, <2>1 DEF CompleteBlock, AtLastBlock
    <3>2. PICK c \in 0..3 : c = b + 1 /\ c <= LastBlock[f]
      BY <1>3, <1>4, <3>1
    <3>3. f \in 1..(MaxFrame + 1) /\ f # MaxFrame + 1
      BY <1>3, Sizes
    <3>4. queue' = [queue EXCEPT !.pendingFecBlockList = <<>>, !.completedFecBlockList = Staged(queue),
                                 !.currentFrameNumber = f, !.multiFecCurrentBlockNumber = c]
      <4> HIDE DEF Entry, SeqNumber
      <4> QED BY <1>1, <1>3, <3>1, <3>2 DEF Record
    <3>5. submitted' \in [frame : 0..MaxFrame, packets : Seq(Entry)]
      BY <1>5, <3>1 DEF TypeOK
    <3> QED BY <1>2, <3>2, <3>3, <3>4, <3>5
  <2>2. CASE CompleteFrame
    <3>1. PICK g \in 1..(MaxFrame + 1), z \in 0..3 : g = f + 1 /\ z = 0
      BY <1>3, Sizes
    <3>2. queue' = [queue EXCEPT !.pendingFecBlockList = <<>>, !.completedFecBlockList = <<>>,
                                 !.currentFrameNumber = g, !.multiFecCurrentBlockNumber = z]
      BY <1>3, <2>2, <3>1 DEF CompleteFrame
    <3>3. submitted' \in [frame : 0..MaxFrame, packets : Seq(Entry)]
      <4>1. submitted' = [frame |-> f, packets |-> Staged(queue)]
        BY <1>3, <2>2 DEF CompleteFrame
      <4> HIDE DEF Entry
      <4> QED BY <1>2, <1>4, <4>1
    <3>4. g <= MaxFrame => z <= LastBlock[g]
      BY <3>1, Sizes
    <3>5. <<>> \in Seq(Entry)
      OBVIOUS
    <3> HIDE DEF Entry
    <3> QED BY <3>1, <3>2, <3>3, <3>4, <3>5
  <2> QED BY <2>1, <2>2
<1>7. phase' = "waiting" /\ arrived' = {} /\ lost' = lost
  BY DEF CompleteBlock, CompleteFrame
<1>8. queue' \in
       [pendingFecBlockList : Seq(Entry), completedFecBlockList : Seq(Entry),
        bufferLowestSequenceNumber : SeqNumber, nextContiguousSequenceNumber : SeqNumber,
        receivedHighestSequenceNumber : SeqNumber,
        receivedDataPackets : 0..DataPackets, receivedParityPackets : 0..ParityPackets,
        missingPackets : 0..(BlockPackets - 1),
        useFastQueuePath : BOOLEAN, reportedLostFrame : BOOLEAN,
        currentFrameNumber : 1..(MaxFrame + 1), multiFecCurrentBlockNumber : 0..3,
        receivedOosData : BOOLEAN, lastOosFrame : 0..MaxFrame]
  <2> HIDE DEF Entry, SeqNumber, BlockPackets
  <2>1. <<>> \in Seq(Entry)
    OBVIOUS
  <2> QED BY <1>5, <1>6, <2>1 DEF TypeOK
<1>9. TypeOK'
  <2> HIDE DEF Entry, SeqNumber, BlockPackets
  <2>1. arrived' \subseteq 0..(BlockPackets - 1) /\ phase' \in {"waiting", "received", "recovering"}
        /\ lost' \in 0..MaxFrame /\ submitted' \in [frame : 0..MaxFrame, packets : Seq(Entry)]
    BY <1>5, <1>6, <1>7 DEF TypeOK
  <2> QED BY <1>8, <2>1 DEF TypeOK
<1>10. /\ queue'.pendingFecBlockList = <<>> /\ queue'.currentFrameNumber = g
       /\ queue'.multiFecCurrentBlockNumber = c
  <2> HIDE DEF Entry, SeqNumber
  <2> QED BY <1>1, <1>6 DEF Record
<1>11. Discarded'
  BY <1>6, <1>7, <1>9, <1>10 DEF Discarded, Pending
<1> QED BY <1>11, BlockPartsNext

\* Every step keeps BlockInv.
LEMMA BlockSteps == BlockInv /\ [Next]_vars => BlockInv'
<1> SUFFICES ASSUME BlockInv, [Next]_vars PROVE BlockInv'
  OBVIOUS
<1>1. ASSUME NEW p \in Packet, RejectPacket(p) \/ AddToBlock(p) \/ StartBlock(p) \/ LoseBlocks(p)
      PROVE  BlockInv'
  BY <1>1, RejectKeeps, AddKeeps, StartKeeps, LoseKeeps
<1>2. PredictLoss \/ AwaitMore \/ StartRecovery \/ RecoverPacket => BlockInv'
  BY PredictKeeps, AwaitKeeps, StartRecoveryKeeps, RecoverKeeps
<1>3. CompleteBlock \/ CompleteFrame => BlockInv'
  BY CompleteKeeps DEF CompleteBlock, CompleteFrame
<1>4. UNCHANGED vars => BlockInv'
  <2> SUFFICES ASSUME UNCHANGED vars PROVE BlockInv'
    OBVIOUS
  <2> QED BY DEF vars, BlockInv, TypeOK, Pending, Enough
<1> QED BY <1>1, <1>2, <1>3, <1>4 DEF Next, AddPacket, ReconstructFrame

\* The queue's bookkeeping is right in every reachable state: no place of the block
\* is filled twice (queuePacket(), lines 133-144), the run behind
\* nextContiguousSequenceNumber is filled, the counters are those of the packets that
\* came (lines 733-764).
THEOREM BlockInvariant == Spec => []BlockInv
BY BlockBegins, BlockSteps, PTL DEF Spec
\* TypeOK and the counters of HolesExact follow from BlockInv.
LEMMA HolesCounted == BlockInv => HolesExact
<1> SUFFICES ASSUME BlockInv PROVE HolesExact
  OBVIOUS
<1>1. TypeOK
  BY DEF BlockInv
<1> SUFFICES ASSUME queue.pendingFecBlockList # <<>>,
                    \A e \in ToSet(queue.pendingFecBlockList) : e.origin = "sent"
             PROVE  LET top == CHOOSE i \in arrived : \A j \in arrived : j <= i
                    IN  /\ arrived = Held(queue)
                        /\ queue.missingPackets = Cardinality((0..top) \ arrived)
                        /\ queue.receivedDataPackets = Cardinality({i \in arrived : i < DataPackets})
                        /\ queue.receivedParityPackets = Cardinality({i \in arrived : i >= DataPackets})
  BY <1>1 DEF HolesExact
<1>2. Collecting(queue) /\ Sent(queue) \subseteq arrived /\ arrived \subseteq Held(queue)
  BY DEF BlockInv, Pending
<1>3. Sent(queue) = Held(queue)
  BY DEF Sent, Held
<1>4. arrived = Held(queue) /\ arrived = Sent(queue)
  BY <1>2, <1>3
<1>5. /\ queue.receivedDataPackets = Cardinality({i \in arrived : i < DataPackets})
      /\ queue.receivedParityPackets = Cardinality({i \in arrived : i >= DataPackets})
      /\ Top(queue) \in arrived /\ \A i \in arrived : i <= Top(queue)
      /\ queue.missingPackets = Cardinality((0..Top(queue)) \ arrived)
  BY <1>2, <1>4 DEF Collecting, CountsMatch
<1>6. arrived \subseteq 0..(BlockPackets - 1)
  BY <1>1 DEF TypeOK
<1>7. (CHOOSE i \in arrived : \A j \in arrived : j <= i) = Top(queue)
  <2>1. PICK k \in arrived : k = Top(queue) /\ \A i \in arrived : i <= k
    BY <1>5
  <2>2. PICK m \in arrived :
          m = (CHOOSE i \in arrived : \A j \in arrived : j <= i) /\ \A j \in arrived : j <= m
    BY <2>1
  <2>3. k <= m /\ m <= k
    BY <2>1, <2>2
  <2>4. k \in Int /\ m \in Int
    BY <1>6, Sizes
  <2> QED BY <2>1, <2>2, <2>3, <2>4
<1> QED BY <1>4, <1>5, <1>7

\* ReconstructAsserts follows from BlockInv: places sent and places missing make up
\* the places to the highest, of which there are no more than the block has.
LEMMA AssertsKept == BlockInv => ReconstructAsserts
<1> SUFFICES ASSUME BlockInv, phase = "received" PROVE ReconstructAsserts
  BY DEF ReconstructAsserts
<1>1. queue \in Record /\ Collecting(queue) /\ queue.pendingFecBlockList # <<>>
  BY TypeParts DEF BlockInv, Pending
<1>2. PICK k \in Nat, m \in Nat, top \in 0..(BlockPackets - 1) :
        /\ k = Cardinality(Sent(queue)) /\ m = queue.missingPackets /\ top = Top(queue)
        /\ k + m = top + 1 /\ top + 1 <= BlockPackets
  <2>1. Top(queue) \in Sent(queue) /\ Sent(queue) \subseteq 0..(BlockPackets - 1)
        /\ Cardinality(Sent(queue)) \in Nat
    BY <1>1, SentHeld DEF Collecting, CountsMatch
  <2>2. Cardinality(Sent(queue)) + queue.missingPackets = Top(queue) + 1
        /\ Top(queue) + 1 <= BlockPackets /\ queue.missingPackets \in 0..(BlockPackets - 1)
    BY <1>1, Bounded
  <2>3. queue.missingPackets \in Nat
    BY <2>2, Sizes
  <2> QED BY <2>1, <2>2, <2>3
<1>3. Held(queue) = Sent(queue) => Len(queue.pendingFecBlockList) = k
  BY <1>1, <1>2 DEF Collecting, Placed
<1>4. CASE Enough
  <2>1. k >= DataPackets
    BY <1>1, <1>2, <1>3, <1>4 DEF BlockInv, Pending, Enough
  <2>2. m <= ParityPackets
    BY <1>2, <2>1, Sizes
  <2>3. ~queue.reportedLostFrame \/ queue.receivedOosData
    BY <1>1, <1>2, <2>2, Sizes DEF Collecting, Predicted
  <2> QED BY <1>2, <1>4, <2>2, <2>3 DEF ReconstructAsserts
<1>5. CASE ~Enough
  <2>1. Len(queue.pendingFecBlockList) = k
    BY <1>1, <1>3, <1>5 DEF BlockInv, Pending
  <2>2. U16(U16(queue.bufferLowestSequenceNumber + BlockPackets - 1)
              - queue.receivedHighestSequenceNumber) = BlockPackets - 1 - top
    <3>1. PICK l \in SeqNumber, h \in SeqNumber, j \in 0..BlockPackets :
            /\ l = queue.bufferLowestSequenceNumber /\ h = queue.receivedHighestSequenceNumber
            /\ j = BlockPackets - 1
      BY <1>1, Sizes DEF Record
    <3>2. l + BlockPackets - 1 = l + j
      BY <3>1, Sizes
    <3>3. PICK u \in SeqNumber : u = U16(l + j) /\ Place(l, u) = j
      BY Places DEF At
    <3>4. Place(l, h) = top
      BY <1>2, <3>1, IndexIsPlace DEF Top
    <3>5. /\ U16(u - h) = IF u >= h THEN u - h ELSE u - h + SeqModulus
          /\ j = IF u >= l THEN u - l ELSE u - l + SeqModulus
          /\ top = IF h >= l THEN h - l ELSE h - l + SeqModulus
      BY <3>3, <3>4, PlaceValue DEF Place
    <3>6. U16(u - h) = j - top
      <4>1. PICK d \in Int, M \in Nat : d = U16(u - h) /\ M = SeqModulus
        <5>1. U16(u - h) \in SeqNumber
          BY PlaceType
        <5> QED BY <5>1, Sizes
      <4>2. /\ l \in 0..(M - 1) /\ h \in 0..(M - 1) /\ u \in 0..(M - 1) /\ j \in Int /\ j < M
            /\ top <= j /\ top \in Int
        BY <1>2, <3>1, <3>3, <4>1, Sizes
      <4>3. /\ d = IF u >= h THEN u - h ELSE u - h + M
            /\ j = IF u >= l THEN u - l ELSE u - l + M
            /\ top = IF h >= l THEN h - l ELSE h - l + M
        BY <3>5, <4>1
      <4>4. d = j - top
        BY <4>2, <4>3
      <4> QED BY <4>1, <4>4
    <3> QED BY <3>1, <3>2, <3>3, <3>6
  <2>3. queue.missingPackets <= ParityPackets => DataPackets - k <= BlockPackets - 1 - top
    BY <1>2, Sizes
  <2>4. ~queue.reportedLostFrame /\ ~queue.receivedOosData /\ ~Hopeless
          => queue.missingPackets <= ParityPackets
    BY <1>2, Sizes DEF Hopeless
  <2> QED BY <1>5, <2>1, <2>2, <2>3, <2>4 DEF ReconstructAsserts
<1> QED BY <1>4, <1>5

\* Every packet that came is kept, and missingPackets is the number of holes below
\* the highest of them, over any loss, repetition and order of the packets
\* (RtpvAddPacket, lines 733-764).
THEOREM HolesAlwaysExact == Spec => []HolesExact
BY BlockInvariant, HolesCounted, PTL

\* The assertions of reconstructFrame() on the packets needed, missing and predicted
\* lost (lines 222, 232 and 233) never fail, also after a recovery failed.
THEOREM AssertsHold == Spec => []ReconstructAsserts
BY BlockInvariant, AssertsKept, PTL-----------------------------------------------------------------------------
\* One more block is staged.
LEMMA StagedWhole ==
  ASSUME BlockInv, phase = "recovering", Lacking = {}, Done(queue)
  PROVE  WholeBlocks(Staged(queue), queue.currentFrameNumber, queue.multiFecCurrentBlockNumber + 1)
<1>1. /\ queue \in Record /\ Collecting(queue) /\ 0..(DataPackets - 1) \subseteq Held(queue)
  BY NothingLacks
<1>2. PICK f \in 1..MaxFrame, b \in 0..3, D \in Nat \ {0} :
        /\ f = queue.currentFrameNumber /\ b = queue.multiFecCurrentBlockNumber /\ b <= LastBlock[f]
        /\ D = DataPackets
  BY <1>1, Sizes DEF Collecting, BlockAt, Record
<1>3. b \in 0..LastBlock[f]
  BY <1>2, Sizes
<1>4. PICK k \in Nat : k = D * b
  BY <1>2
<1>5. b * DataPackets = k /\ (b + 1) * DataPackets = k + D
  BY <1>2, <1>4
<1>6. /\ Len(queue.completedFecBlockList) = k
      /\ \A n \in 1..k : queue.completedFecBlockList[n].seq = SeqAt(f, (n - 1) \div D, (n - 1) % D)
  BY <1>2, <1>5 DEF Done, WholeBlocks
<1>7. /\ Len(Staged(queue)) = k + D
      /\ \A n \in 1..k : Staged(queue)[n] = queue.completedFecBlockList[n]
      /\ \A m \in 1..D : Staged(queue)[k + m].seq = At(queue.bufferLowestSequenceNumber, m - 1)
  BY <1>1, <1>2, <1>6, StagedPackets
<1>8. ASSUME NEW m \in 1..D
      PROVE  Staged(queue)[k + m].seq = SeqAt(f, (k + m - 1) \div D, (k + m - 1) % D)
  <2>1. PICK r \in 0..(D - 1) : r = m - 1
    BY <1>2
  <2>2. (D * b + r) % D = r /\ (D * b + r) \div D = b
    <3>1. D \in Nat \ {0} /\ b \in Int /\ r \in 0..(D - 1)
      BY <1>2, <2>1
    <3> QED BY <3>1, Remainder, Zenon
  <2>3. k + m - 1 = D * b + r
    <3>1. m \in Int /\ k + m - 1 = k + r
      BY <1>2, <2>1
    <3> QED BY <1>4, <3>1
  <2>4. r \in 0..(BlockPackets - 1)
    BY <1>2, <2>1, Sizes
  <2>5. SeqAt(f, b, r) = At(SeqAt(f, b, 0), r)
    BY <1>3, <2>4, Numbering
  <2>6. queue.bufferLowestSequenceNumber = SeqAt(f, b, 0)
    BY <1>1, <1>2 DEF Collecting, BlockAt
  <2> QED BY <1>7, <2>1, <2>2, <2>3, <2>5, <2>6
<1>9. ASSUME NEW n \in 1..(k + D)
      PROVE  Staged(queue)[n].seq = SeqAt(f, (n - 1) \div D, (n - 1) % D)
  <2>1. CASE n <= k
    <3>1. n \in 1..k
      BY <1>4, <2>1
    <3> QED BY <1>6, <1>7, <3>1
  <2>2. CASE n > k
    <3>1. PICK m \in 1..D : n = k + m
      <4>1. k \in Nat /\ D \in Nat /\ n \in 1..(k + D)
        BY <1>2
      <4>2. n - k \in 1..D /\ n = k + (n - k)
        BY <2>2, <4>1
      <4> QED BY <4>2
    <3> QED BY <1>8, <3>1
  <2>3. n \in Int /\ k \in Int
    BY <1>4
  <2> QED BY <2>1, <2>2, <2>3
<1> QED BY <1>2, <1>5, <1>7, <1>9 DEF WholeBlocks

\* No block is complete at the start of a frame.
LEMMA NothingDone ==
  ASSUME NEW f
  PROVE  WholeBlocks(<<>>, f, 0)
<1>1. 0 * DataPackets = 0 /\ 1..0 = {}
  BY Sizes
<1> QED BY <1>1 DEF WholeBlocks

\* Every step keeps FrameInv, and one that submits a frame submits a whole one.
LEMMA FrameSteps ==
  ASSUME BlockInv, FrameInv, [Next]_vars
  PROVE  /\ FrameInv'
         /\ submitted' # submitted =>
              /\ submitted'.frame > submitted.frame
              /\ [n \in DOMAIN submitted'.packets |-> submitted'.packets[n].seq]
                   = WholeFrame(submitted'.frame)
<1>1. /\ queue \in Record /\ TypeOK
      /\ submitted.frame \in Int /\ queue.currentFrameNumber \in Int
      /\ Done(queue) /\ submitted.frame < queue.currentFrameNumber
  <2>1. TypeOK /\ queue \in Record
    BY TypeParts DEF BlockInv
  <2>2. submitted.frame \in Int /\ queue.currentFrameNumber \in Int
    BY <2>1, Sizes DEF TypeOK, Record
  <2> QED BY <2>1, <2>2 DEF FrameInv
<1>2. ASSUME submitted' = submitted,
             queue'.completedFecBlockList = queue.completedFecBlockList,
             queue'.currentFrameNumber = queue.currentFrameNumber,
             queue'.multiFecCurrentBlockNumber = queue.multiFecCurrentBlockNumber
      PROVE  FrameInv'
  BY <1>1, <1>2 DEF FrameInv, Done
<1>3. ASSUME submitted' = submitted,
             queue'.completedFecBlockList = <<>>,
             queue'.currentFrameNumber \in Int, queue'.currentFrameNumber >= queue.currentFrameNumber,
             queue'.multiFecCurrentBlockNumber = 0
      PROVE  FrameInv'
  BY <1>1, <1>3, NothingDone DEF FrameInv, Done
<1>4. ASSUME NEW p \in Packet, AddToBlock(p) PROVE FrameInv' /\ submitted' = submitted
  <2>1. PICK c \in BOOLEAN : queue' = Accepted(queue, p, c)
    BY <1>4 DEF AddToBlock
  <2>2. SeqNum(p) \in SeqNumber
    BY <1>1, <1>4, PacketPlace DEF AddToBlock, OfThisBlock, BlockInv, Pending, Collecting
  <2>3. submitted' = submitted
    BY <1>4 DEF AddToBlock
  <2> QED BY <1>1, <1>2, <2>1, <2>2, <2>3, AcceptedFields
<1>5. ASSUME NEW p \in Packet, StartBlock(p) PROVE FrameInv' /\ submitted' = submitted
  <2>0. PICK q : q = StartedOver(p)
    OBVIOUS
  <2>1. PICK c \in BOOLEAN : queue' = Accepted(q, p, c) /\ q = StartedOver(p)
    BY <1>5, <2>0 DEF StartBlock
  <2>2. /\ q \in Record
        /\ q.completedFecBlockList =
             (IF FrameOf(p) = queue.currentFrameNumber THEN queue.completedFecBlockList ELSE <<>>)
        /\ q.currentFrameNumber = FrameOf(p) /\ q.multiFecCurrentBlockNumber = BlockOf(p)
        /\ q.bufferLowestSequenceNumber = SeqAt(FrameOf(p), BlockOf(p), 0)
        /\ p.block = <<q.currentFrameNumber, q.multiFecCurrentBlockNumber>>
        /\ FrameOf(p) \in 1..MaxFrame /\ BlockOf(p) \in 0..LastBlock[FrameOf(p)]
    BY <1>1, <2>1, StartedOverFields
  <2>3. SeqNum(p) \in SeqNumber
    <3>1. BlockOf(p) <= LastBlock[FrameOf(p)]
      BY <2>2
    <3> QED BY <2>2, <3>1, PacketPlace DEF BlockAt
  <2>4. /\ queue'.completedFecBlockList = q.completedFecBlockList
        /\ queue'.currentFrameNumber = FrameOf(p) /\ queue'.multiFecCurrentBlockNumber = BlockOf(p)
    BY <2>1, <2>2, <2>3, AcceptedFields
  <2>5. /\ submitted' = submitted /\ ~(FrameOf(p) < queue.currentFrameNumber)
        /\ BlockOf(p) = IF FrameOf(p) = queue.currentFrameNumber
                        THEN queue.multiFecCurrentBlockNumber ELSE 0
    BY <1>5 DEF StartBlock, Behind, Expected
  <2>6. CASE FrameOf(p) = queue.currentFrameNumber
    BY <1>2, <2>2, <2>4, <2>5, <2>6
  <2>7. CASE FrameOf(p) # queue.currentFrameNumber
    <3>1. FrameOf(p) \in Int /\ FrameOf(p) >= queue.currentFrameNumber
      BY <1>1, <2>2, <2>5
    <3> QED BY <1>3, <2>2, <2>4, <2>5, <2>7, <3>1
  <2> QED BY <2>5, <2>6, <2>7
<1>6. ASSUME NEW p \in Packet, LoseBlocks(p) PROVE FrameInv' /\ submitted' = submitted
  <2>1. PICK f \in Nat : f = FrameOf(p)
    BY DEF Packet, Block, FrameOf
  <2>2. /\ submitted' = submitted /\ ~(f < queue.currentFrameNumber)
        /\ queue' = [queue EXCEPT
                !.pendingFecBlockList = <<>>, !.completedFecBlockList = <<>>,
                !.reportedLostFrame = TRUE,
                !.currentFrameNumber = f + 1, !.multiFecCurrentBlockNumber = 0]
    BY <1>6, <2>1 DEF LoseBlocks, Behind
  <2>3. /\ queue'.completedFecBlockList = <<>> /\ queue'.currentFrameNumber = f + 1
        /\ queue'.multiFecCurrentBlockNumber = 0
    <3> HIDE DEF Entry, SeqNumber
    <3> QED BY <1>1, <2>2 DEF Record
  <2>4. f + 1 \in Int /\ f + 1 >= queue.currentFrameNumber
    BY <1>1, <2>1, <2>2
  <2> QED BY <1>3, <2>2, <2>3, <2>4
<1>7. ASSUME PredictLoss \/ StartRecovery PROVE FrameInv' /\ submitted' = submitted
  <2>1. /\ submitted' = submitted
        /\ queue'.completedFecBlockList = queue.completedFecBlockList
        /\ queue'.currentFrameNumber = queue.currentFrameNumber
        /\ queue'.multiFecCurrentBlockNumber = queue.multiFecCurrentBlockNumber
    <3> HIDE DEF Entry, SeqNumber
    <3> QED BY <1>1, <1>7 DEF PredictLoss, StartRecovery, Record
  <2> QED BY <1>2, <2>1
<1>8. ASSUME RecoverPacket PROVE FrameInv' /\ submitted' = submitted
  <2>1. PICK i \in Lacking, o \in {"recovered", "corrupt"} :
          queue' = Queued(queue, [seq |-> U16(queue.bufferLowestSequenceNumber + i), origin |-> o])
    BY <1>8 DEF RecoverPacket
  <2>2. PICK e \in Entry : queue' = Queued(queue, e)
    <3>1. i \in 0..(DataPackets - 1)
      BY DEF Lacking
    <3> QED BY <1>1, <2>1, <3>1, RecoveredPlace
  <2>3. submitted' = submitted
    BY <1>8 DEF RecoverPacket
  <2> QED BY <1>1, <1>2, <2>2, <2>3, QueuedFields
<1>9. ASSUME CompleteBlock PROVE FrameInv' /\ submitted' = submitted
  <2>1. WholeBlocks(Staged(queue), queue.currentFrameNumber, queue.multiFecCurrentBlockNumber + 1)
    BY <1>1, <1>9, StagedWhole DEF CompleteBlock
  <2>2. /\ submitted' = submitted
        /\ queue'.completedFecBlockList = Staged(queue)
        /\ queue'.currentFrameNumber = queue.currentFrameNumber
        /\ queue'.multiFecCurrentBlockNumber = queue.multiFecCurrentBlockNumber + 1
    <3> HIDE DEF Entry, SeqNumber
    <3> QED BY <1>1, <1>9 DEF CompleteBlock, Record
  <2> QED BY <1>1, <2>1, <2>2 DEF FrameInv, Done
<1>10. ASSUME CompleteFrame
       PROVE  /\ FrameInv' /\ submitted'.frame > submitted.frame
              /\ [n \in DOMAIN submitted'.packets |-> submitted'.packets[n].seq]
                   = WholeFrame(submitted'.frame)
  <2>1. PICK f \in 1..MaxFrame : f = queue.currentFrameNumber
    BY <1>10, NothingLacks DEF CompleteFrame, Collecting, BlockAt
  <2>2. /\ WholeBlocks(Staged(queue), f, LastBlock[f] + 1) /\ Staged(queue) \in Seq(Entry)
    <3>1. queue.multiFecCurrentBlockNumber = LastBlock[f]
      BY <1>10, <2>1 DEF CompleteFrame, AtLastBlock
    <3> QED BY <1>1, <1>10, <2>1, <3>1, StagedWhole, NothingLacks, StagedPackets DEF CompleteFrame
  <2>3. submitted' = [frame |-> f, packets |-> Staged(queue)]
    BY <1>10, <2>1 DEF CompleteFrame
  <2>4. /\ queue'.completedFecBlockList = <<>> /\ queue'.currentFrameNumber = f + 1
        /\ queue'.multiFecCurrentBlockNumber = 0
    <3> HIDE DEF Entry, SeqNumber
    <3> QED BY <1>1, <1>10, <2>1 DEF CompleteFrame, Record
  <2>5. FrameInv'
    <3>1. submitted'.frame < queue'.currentFrameNumber
      BY <2>1, <2>3, <2>4
    <3> QED BY <2>4, <3>1, NothingDone DEF FrameInv, Done
  <2>6. submitted'.frame > submitted.frame
    BY <1>1, <2>1, <2>3
  <2>7. DOMAIN Staged(queue) = 1..((LastBlock[f] + 1) * DataPackets)
    <3> HIDE DEF Entry
    <3>1. DOMAIN Staged(queue) = 1..Len(Staged(queue))
      BY <2>2
    <3> QED BY <2>2, <3>1 DEF WholeBlocks
  <2>8. [n \in DOMAIN Staged(queue) |-> Staged(queue)[n].seq] = WholeFrame(f)
    BY <2>2, <2>7, Zenon DEF WholeBlocks, WholeFrame
  <2> QED BY <2>3, <2>5, <2>6, <2>8
<1>11. ASSUME UNCHANGED vars \/ AwaitMore \/ \E p \in Packet : RejectPacket(p)
       PROVE  FrameInv' /\ submitted' = submitted
  BY <1>2, <1>11 DEF vars, AwaitMore, RejectPacket
<1> QED
  BY <1>4, <1>5, <1>6, <1>7, <1>8, <1>9, <1>10, <1>11 DEF Next, AddPacket, ReconstructFrame
\* submitCompletedFrame() passes on whole frames only, each data packet once and in
\* order, in ascending order of frames (stageCompleteFecBlock(), lines 464-523).
THEOREM FramesComeWhole == Spec => FramesWhole
<1>1. Init => FrameInv
  <2> SUFFICES ASSUME Init PROVE FrameInv
    OBVIOUS
  <2>1. /\ queue.completedFecBlockList = <<>> /\ queue.multiFecCurrentBlockNumber = 0
        /\ queue.currentFrameNumber = 1 /\ submitted.frame = 0
    BY DEF Init
  <2> QED BY <2>1, NothingDone DEF FrameInv, Done
<1>2. BlockInv /\ FrameInv /\ [Next]_vars => FrameInv'
  BY FrameSteps
<1>3. BlockInv /\ FrameInv /\ [Next]_vars =>
        [submitted' # submitted =>
          /\ submitted'.frame > submitted.frame
          /\ [n \in DOMAIN submitted'.packets |-> submitted'.packets[n].seq]
               = WholeFrame(submitted'.frame)]_vars
  BY FrameSteps
<1>4. Spec => []FrameInv
  BY <1>1, <1>2, BlockInvariant, PTL DEF Spec
<1> QED BY <1>3, <1>4, BlockInvariant, PTL DEF Spec, FramesWhole
-----------------------------------------------------------------------------
\* A packet of the frame was accepted.
Begun(q) == q.pendingFecBlockList # <<>> \/ q.multiFecCurrentBlockNumber > 0

\* A step that is none of the contract.
LEMMA DeliveryStutters ==
  ASSUME queue'.currentFrameNumber = queue.currentFrameNumber,
         Begun(queue') = Begun(queue),
         queue'.reportedLostFrame = queue.reportedLostFrame, lost' = lost
  PROVE  UNCHANGED Delivery!delivery
BY DEF Begun, Delivery!delivery

\* What StartBlock does to what the contract speaks of.
LEMMA StartsDelivery ==
  ASSUME BlockInv, NEW p \in Packet, StartBlock(p)
  PROVE  /\ queue'.currentFrameNumber = FrameOf(p) /\ queue'.pendingFecBlockList # <<>>
         /\ queue'.reportedLostFrame = FALSE
<1>1. queue \in Record
  BY TypeParts DEF BlockInv
<1>2. PICK q : q = StartedOver(p)
  OBVIOUS
<1>3. PICK c \in BOOLEAN : queue' = Accepted(q, p, c)
  BY <1>2 DEF StartBlock
<1>4. /\ q \in Record
      /\ q.currentFrameNumber = FrameOf(p) /\ q.multiFecCurrentBlockNumber = BlockOf(p)
      /\ q.bufferLowestSequenceNumber = SeqAt(FrameOf(p), BlockOf(p), 0)
      /\ ~q.reportedLostFrame
      /\ p.block = <<q.currentFrameNumber, q.multiFecCurrentBlockNumber>>
      /\ FrameOf(p) \in 1..MaxFrame /\ BlockOf(p) \in 0..LastBlock[FrameOf(p)]
  BY <1>1, <1>2, StartedOverFields
<1>5. SeqNum(p) \in SeqNumber
  <2>1. BlockOf(p) <= LastBlock[FrameOf(p)]
    BY <1>4
  <2> QED BY <1>4, <2>1, PacketPlace DEF BlockAt
<1>6. queue' \in Record /\ queue'.reportedLostFrame = q.reportedLostFrame
      /\ queue'.currentFrameNumber = FrameOf(p)
      /\ queue'.pendingFecBlockList = Append(q.pendingFecBlockList, [seq |-> SeqNum(p), origin |-> "sent"])
  BY <1>3, <1>4, <1>5, AcceptedFields
<1>7. queue'.pendingFecBlockList # <<>>
  <2>1. [seq |-> SeqNum(p), origin |-> "sent"] \in Entry /\ q.pendingFecBlockList \in Seq(Entry)
    BY <1>4, <1>5 DEF Entry, Record
  <2> HIDE DEF Entry
  <2> QED BY <1>6, <2>1, AppendFacts
<1>8. queue'.reportedLostFrame = FALSE
  <2>1. queue'.reportedLostFrame \in BOOLEAN
    BY <1>6 DEF Record
  <2> QED BY <1>4, <1>6, <2>1
<1> QED BY <1>6, <1>7, <1>8

\* Every step is one of the contract, or none.
LEMMA DeliverySteps ==
  ASSUME BlockInv, [Next]_vars
  PROVE  [Delivery!Next]_(Delivery!delivery)
<1>1. /\ queue \in Record
      /\ queue.currentFrameNumber \in 1..(MaxFrame + 1) /\ queue.multiFecCurrentBlockNumber \in 0..3
      /\ queue.reportedLostFrame \in BOOLEAN
  BY TypeParts DEF BlockInv, Record
<1>2. phase # "waiting" => Begun(queue) = TRUE
  BY DEF BlockInv, Pending, Begun
<1>3. ASSUME NEW p \in Packet, AddToBlock(p) PROVE UNCHANGED Delivery!delivery
  <2>1. PICK c \in BOOLEAN : queue' = Accepted(queue, p, c)
    BY <1>3 DEF AddToBlock
  <2>2. /\ p.block = <<queue.currentFrameNumber, queue.multiFecCurrentBlockNumber>>
        /\ queue.pendingFecBlockList # <<>> /\ ~Duplicate(queue, p) /\ lost' = lost
        /\ Collecting(queue)
    BY <1>3 DEF AddToBlock, OfThisBlock, BlockInv, Pending
  <2>3. SeqNum(p) \in SeqNumber
    BY <1>1, <2>2, PacketPlace DEF Collecting
  <2>4. queue'.currentFrameNumber = queue.currentFrameNumber
        /\ queue'.reportedLostFrame = queue.reportedLostFrame
    BY <1>1, <2>1, <2>3, AcceptedFields
  <2>5. queue'.pendingFecBlockList # <<>>
    BY <1>1, <2>1, <2>2, Filled
  <2> QED BY <2>2, <2>4, <2>5, DeliveryStutters DEF Begun
<1>4. ASSUME NEW p \in Packet, StartBlock(p) PROVE Delivery!Next \/ UNCHANGED Delivery!delivery
  <2>1. PICK f \in 1..MaxFrame, g \in 1..(MaxFrame + 1) : f = FrameOf(p) /\ g = queue.currentFrameNumber
    BY <1>1 DEF Packet, Block, FrameOf
  <2>2. /\ queue'.currentFrameNumber = f /\ Begun(queue') = TRUE
        /\ queue'.reportedLostFrame = FALSE
    BY <1>4, <2>1, StartsDelivery DEF Begun
  <2>3. lost' = (IF SkipReported(p) THEN f - 1 ELSE lost) /\ ~(f < g)
    BY <1>4, <2>1 DEF StartBlock, Behind
  <2>4. f = g => lost' = lost
    BY <2>1, <2>3 DEF SkipReported
  <2>5. CASE f = g /\ Begun(queue) = FALSE
    <3>1. Delivery!FrameStarts
      BY <2>1, <2>2, <2>4, <2>5 DEF Delivery!FrameStarts, Begun
    <3> QED BY <3>1 DEF Delivery!Next
  <2>6. CASE f = g /\ Begun(queue) = TRUE /\ queue.reportedLostFrame
    <3>1. Delivery!BlockStarts
      BY <2>1, <2>2, <2>4, <2>6 DEF Delivery!BlockStarts, Begun
    <3> QED BY <3>1 DEF Delivery!Next
  <2>7. CASE f = g /\ Begun(queue) = TRUE /\ ~queue.reportedLostFrame
    BY <1>1, <2>1, <2>2, <2>4, <2>7, DeliveryStutters
  <2>8. CASE f # g
    <3>1. PICK h \in 1..MaxFrame : h = f - 1 /\ h \in g..(MaxFrame - 1) /\ h \in g..MaxFrame
                                   /\ f = h + 1
      BY <2>1, <2>3, <2>8, Sizes
    <3>2. SkipReported(p) <=> ~(h = g /\ queue.reportedLostFrame)
      BY <2>1, <2>3, <2>8, <3>1 DEF SkipReported
    <3>3. lost' = IF ~(h = g /\ queue.reportedLostFrame) THEN h ELSE lost
      BY <2>3, <3>1, <3>2
    <3>4. Delivery!FramesLost(h)
      BY <2>1, <2>2, <3>1, <3>3 DEF Delivery!FramesLost, Delivery!LossReported, Begun
    <3> QED BY <2>1, <3>1, <3>4 DEF Delivery!Next
  <2>9. Begun(queue) \in BOOLEAN
    BY DEF Begun
  <2> QED BY <2>5, <2>6, <2>7, <2>8, <2>9
<1>5. ASSUME NEW p \in Packet, LoseBlocks(p) PROVE Delivery!Next
  <2>1. PICK f \in 1..MaxFrame, g \in 1..(MaxFrame + 1) : f = FrameOf(p) /\ g = queue.currentFrameNumber
    BY <1>1 DEF Packet, Block, FrameOf
  <2>2. /\ ~(f < g) /\ lost' = (IF queue.reportedLostFrame THEN lost ELSE g)
        /\ queue' = [queue EXCEPT
                !.pendingFecBlockList = <<>>, !.completedFecBlockList = <<>>,
                !.reportedLostFrame = TRUE,
                !.currentFrameNumber = f + 1, !.multiFecCurrentBlockNumber = 0]
    BY <1>5, <2>1 DEF LoseBlocks, Behind
  <2>3. /\ queue'.pendingFecBlockList = <<>> /\ queue'.currentFrameNumber = f + 1
        /\ queue'.multiFecCurrentBlockNumber = 0 /\ queue'.reportedLostFrame = TRUE
    <3> HIDE DEF Entry, SeqNumber
    <3> QED BY <1>1, <2>2 DEF Record
  <2>4. f \in g..MaxFrame /\ ~(0 > 0)
    BY <2>1, <2>2, Sizes
  <2>5. Delivery!BlocksLost(f)
    BY <2>1, <2>2, <2>3, <2>4 DEF Delivery!BlocksLost
  <2> QED BY <2>1, <2>4, <2>5 DEF Delivery!Next
<1>6. ASSUME PredictLoss PROVE Delivery!Next
  <2>1. /\ queue' = [queue EXCEPT !.reportedLostFrame = TRUE] /\ lost' = queue.currentFrameNumber
        /\ ~queue.reportedLostFrame /\ Begun(queue) = TRUE
    BY <1>2, <1>6 DEF PredictLoss, Hopeless
  <2>2. /\ queue'.reportedLostFrame = TRUE /\ queue'.currentFrameNumber = queue.currentFrameNumber
        /\ queue'.pendingFecBlockList = queue.pendingFecBlockList
        /\ queue'.multiFecCurrentBlockNumber = queue.multiFecCurrentBlockNumber
    <3> HIDE DEF Entry, SeqNumber
    <3> QED BY <1>1, <2>1 DEF Record
  <2>3. Delivery!LossPredicted
    BY <2>1, <2>2 DEF Delivery!LossPredicted, Begun
  <2> QED BY <2>3 DEF Delivery!Next
<1>7. ASSUME StartRecovery PROVE UNCHANGED Delivery!delivery
  <2>1. /\ queue'.reportedLostFrame = queue.reportedLostFrame
        /\ queue'.currentFrameNumber = queue.currentFrameNumber
        /\ queue'.pendingFecBlockList = queue.pendingFecBlockList
        /\ queue'.multiFecCurrentBlockNumber = queue.multiFecCurrentBlockNumber
        /\ lost' = lost
    <3> HIDE DEF Entry, SeqNumber
    <3> QED BY <1>1, <1>7 DEF StartRecovery, Record
  <2> QED BY <2>1, DeliveryStutters DEF Begun
<1>8. ASSUME RecoverPacket PROVE UNCHANGED Delivery!delivery
  <2>1. PICK i \in Lacking, o \in {"recovered", "corrupt"} :
          queue' = Queued(queue, [seq |-> U16(queue.bufferLowestSequenceNumber + i), origin |-> o])
    BY <1>8 DEF RecoverPacket
  <2>2. PICK e \in Entry : queue' = Queued(queue, e)
    <3>1. i \in 0..(DataPackets - 1)
      BY DEF Lacking
    <3> QED BY <1>1, <2>1, <3>1, RecoveredPlace
  <2>3. /\ queue'.reportedLostFrame = queue.reportedLostFrame
        /\ queue'.currentFrameNumber = queue.currentFrameNumber
        /\ queue'.pendingFecBlockList = Append(queue.pendingFecBlockList, e)
    BY <1>1, <2>2, QueuedFields
  <2>4. queue'.pendingFecBlockList # <<>>
    <3>1. queue.pendingFecBlockList \in Seq(Entry)
      BY <1>1 DEF Record
    <3> HIDE DEF Entry
    <3> QED BY <2>2, <2>3, <3>1, AppendFacts
  <2>5. Begun(queue) = TRUE /\ Begun(queue') = TRUE /\ lost' = lost
    BY <1>2, <1>8, <2>4 DEF RecoverPacket, Begun
  <2> QED BY <2>3, <2>5, DeliveryStutters
<1>9. ASSUME CompleteBlock PROVE UNCHANGED Delivery!delivery
  <2>1. /\ queue'.reportedLostFrame = queue.reportedLostFrame
        /\ queue'.currentFrameNumber = queue.currentFrameNumber
        /\ queue'.multiFecCurrentBlockNumber = queue.multiFecCurrentBlockNumber + 1
        /\ lost' = lost
    <3> HIDE DEF Entry, SeqNumber
    <3> QED BY <1>1, <1>9 DEF CompleteBlock, Record
  <2>2. queue'.multiFecCurrentBlockNumber > 0
    BY <1>1, <2>1
  <2>3. Begun(queue) = TRUE /\ Begun(queue') = TRUE
    BY <1>2, <1>9, <2>2 DEF CompleteBlock, Begun
  <2> QED BY <2>1, <2>3, DeliveryStutters
<1>10. ASSUME CompleteFrame PROVE Delivery!Next
  <2>1. /\ queue'.reportedLostFrame = queue.reportedLostFrame
        /\ queue'.currentFrameNumber = queue.currentFrameNumber + 1
        /\ queue'.pendingFecBlockList = <<>> /\ queue'.multiFecCurrentBlockNumber = 0
        /\ lost' = lost
    <3> HIDE DEF Entry, SeqNumber
    <3> QED BY <1>1, <1>10 DEF CompleteFrame, Record
  <2>2. Begun(queue) = TRUE /\ ~(0 > 0)
    BY <1>2, <1>10 DEF CompleteFrame
  <2>3. Delivery!FrameCompletes
    BY <2>1, <2>2 DEF Delivery!FrameCompletes, Begun
  <2> QED BY <2>3 DEF Delivery!Next
<1>11. ASSUME UNCHANGED vars \/ AwaitMore \/ \E p \in Packet : RejectPacket(p)
       PROVE  UNCHANGED Delivery!delivery
  BY <1>11, DeliveryStutters DEF vars, AwaitMore, RejectPacket
<1> QED
  BY <1>3, <1>4, <1>5, <1>6, <1>7, <1>8, <1>9, <1>10, <1>11 DEF Next, AddPacket, ReconstructFrame

\* The queue implements the contract FrameDelivery: the order in which frames start,
\* complete, are given up and are reported lost (RtpvAddPacket, lines 590-709).
THEOREM QueueDelivers == Spec => DeliverySpec
<1>1. Init => Delivery!Init
  <2> SUFFICES ASSUME Init PROVE Delivery!Init
    OBVIOUS
  <2>1. /\ queue.currentFrameNumber = 1 /\ queue.reportedLostFrame = FALSE /\ lost = 0
        /\ queue.pendingFecBlockList = <<>> /\ queue.multiFecCurrentBlockNumber = 0 /\ ~(0 > 0)
    BY DEF Init
  <2> QED BY <2>1 DEF Delivery!Init
<1>2. BlockInv /\ [Next]_vars => [Delivery!Next]_(Delivery!delivery)
  BY DeliverySteps
<1> QED BY <1>1, <1>2, BlockInvariant, PTL DEF Spec, DeliverySpec, Delivery!Spec
=============================================================================
