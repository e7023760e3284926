--------------------------- MODULE RtpVideoQueue ----------------------------
(***************************************************************************)
(* RtpVideoQueue.c: the FEC queue of the video stream.                     *)
(*                                                                         *)
(* The host sends each frame as one or more FEC blocks of data and parity  *)
(* packets.  The network loses, repeats and reorders them at will.  The    *)
(* queue collects one block at a time, recovers missing data packets from  *)
(* parity, and passes a frame on when its last block is complete; it gives *)
(* a frame up when a later one, or a later block, arrives first, and may   *)
(* predict the loss of the current one.                                    *)
(*                                                                         *)
(* One call of RtpvAddPacket takes several steps, nothing comes between    *)
(* them: the packet is put in its place, reconstructFrame() looks at the   *)
(* block and recovers the packets it lacks, one after the other.           *)
(***************************************************************************)
EXTENDS Integers, FiniteSets, SequencesExt

CONSTANTS
  MaxFrame,       \* bound: frames the host sends
  LastBlock,      \* multiFecLastBlockNumber of each frame
  DataPackets,    \* bufferDataPackets
  ParityPackets,  \* bufferParityPackets
  SeqModulus,     \* stands for 2^16
  FirstSeq        \* sequence number of the first packet

ASSUME RtpVideoQueueAssumption ==
  /\ MaxFrame \in Nat \ {0} /\ LastBlock \in [1..MaxFrame -> 0..3]
  /\ DataPackets \in Nat \ {0} /\ ParityPackets \in Nat
  /\ SeqModulus \in Nat \ {0} /\ FirstSeq \in 0..(SeqModulus - 1)
  /\ DataPackets + ParityPackets < SeqModulus \div 2

VARIABLES
  queue,      \* the RTP_VIDEO_QUEUE
  phase,      \* "waiting" for a packet; "received" one, reconstructFrame() is
              \* next; "recovering" the packets the block lacks
  arrived,    \* history: indices of the current block that came, queued or not
  submitted,  \* the frame last given to the depacketizer
  lost        \* the frame of the last call of notifyFrameLost()

vars == <<queue, phase, arrived, submitted, lost>>

-----------------------------------------------------------------------------
(***************************************************************************)
(* Packets and their sequence numbers.                                     *)
(***************************************************************************)
BlockPackets == DataPackets + ParityPackets
Block == {x \in (1..MaxFrame) \X (0..3) : x[2] <= LastBlock[x[1]]}
BlocksBefore(f, b) == Cardinality({x \in Block : x[1] < f \/ (x[1] = f /\ x[2] < b)})

\* What the host sends.
Packet == [block : Block, index : 0..(BlockPackets - 1)]
FrameOf(p) == p.block[1]
BlockOf(p) == p.block[2]

U16(x) == x % SeqModulus

SeqAt(f, b, i) == U16(FirstSeq + BlocksBefore(f, b) * BlockPackets + i)
SeqNum(p) == SeqAt(FrameOf(p), BlockOf(p), p.index)

\* isBefore16()
Before(x, y) == U16(x - y) >= SeqModulus \div 2

\* Place of a sequence number in the block that is collected.
IndexIn(q, seq) == U16(seq - q.bufferLowestSequenceNumber)

\* The places of the block that are filled.
Held(q) == {IndexIn(q, e.seq) : e \in ToSet(q.pendingFecBlockList)}

-----------------------------------------------------------------------------
(***************************************************************************)
(* queuePacket(). A queued entry is a packet sent by the host, one that    *)
(* was recovered, or one that was recovered but is corrupt.                *)
(***************************************************************************)
\* Mutated: a packet out of order does not end the fast path.
MutQueued(q, e) ==
  LET inOrder == q.useFastQueuePath /\ e.seq = q.nextContiguousSequenceNumber
  IN  [q EXCEPT !.pendingFecBlockList = Append(@, e),
                !.nextContiguousSequenceNumber = IF inOrder THEN U16(@ + 1) ELSE @]

\* The entry is appended; only an unbroken run from the start of the block
\* takes the fast path and moves nextContiguousSequenceNumber.
Queued(q, e) ==
  LET inOrder == q.useFastQueuePath /\ e.seq = q.nextContiguousSequenceNumber
  IN  [q EXCEPT !.pendingFecBlockList = Append(@, e),
                !.nextContiguousSequenceNumber = IF inOrder THEN U16(@ + 1) ELSE @,
                !.useFastQueuePath = inOrder]

Duplicate(q, p) == \E e \in ToSet(q.pendingFecBlockList) : e.seq = SeqNum(p)

OutOfSequence(q, p) ==
  /\ ~(q.useFastQueuePath /\ SeqNum(p) = q.nextContiguousSequenceNumber)
  /\ \E e \in ToSet(q.pendingFecBlockList) : Before(SeqNum(p), e.seq)

\* Out of order data ends loss prediction. Five minutes of ordered data, which
\* cannot pass within a frame, bring it back.
Sequenced(q, p, coolingOver) ==
  LET oos == OutOfSequence(q, p)
  IN  [q EXCEPT !.receivedOosData = oos \/ (@ /\ ~(coolingOver /\ FrameOf(p) > q.lastOosFrame)),
                !.lastOosFrame = IF oos THEN FrameOf(p) ELSE @]

\* Mutated: the packet itself is counted among those missing before it.
MutCounted(q, p) ==
  LET seq    == SeqNum(p)
      first  == q.pendingFecBlockList = <<>>
      higher == Before(q.receivedHighestSequenceNumber, seq)
  IN  [q EXCEPT
        !.missingPackets = IF first THEN IndexIn(q, seq)
                           ELSE IF higher
                             THEN @ + U16(seq - q.receivedHighestSequenceNumber)
                           ELSE @ - 1,
        !.receivedHighestSequenceNumber = IF first \/ higher THEN seq ELSE @,
        !.receivedDataPackets = IF p.index < DataPackets THEN @ + 1 ELSE @,
        !.receivedParityPackets = IF p.index < DataPackets THEN @ ELSE @ + 1]

\* RtpvAddPacket's counters, for a packet about to be queued.
Counted(q, p) ==
  LET seq    == SeqNum(p)
      first  == q.pendingFecBlockList = <<>>
      higher == Before(q.receivedHighestSequenceNumber, seq)
  IN  [q EXCEPT
        !.missingPackets = IF first THEN IndexIn(q, seq)
                           ELSE IF higher
                             THEN @ + U16(seq - q.receivedHighestSequenceNumber - 1)
                           ELSE @ - 1,
        !.receivedHighestSequenceNumber = IF first \/ higher THEN seq ELSE @,
        !.receivedDataPackets = IF p.index < DataPackets THEN @ + 1 ELSE @,
        !.receivedParityPackets = IF p.index < DataPackets THEN @ ELSE @ + 1]

Accepted(q, p, coolingOver) ==
  Queued(Counted(Sequenced(q, p, coolingOver), p), [seq |-> SeqNum(p), origin |-> "sent"])

-----------------------------------------------------------------------------
(***************************************************************************)
(* RtpvAddPacket: what becomes of packet p.                                *)
(***************************************************************************)
Behind(p) ==
  \/ Before(SeqNum(p), queue.nextContiguousSequenceNumber)
  \/ FrameOf(p) < queue.currentFrameNumber
  \/ FrameOf(p) = queue.currentFrameNumber /\ BlockOf(p) < queue.multiFecCurrentBlockNumber

\* No reinitialisation: p belongs to the block that is collected.
OfThisBlock(p) ==
  /\ queue.pendingFecBlockList # <<>>
  /\ p.block = <<queue.currentFrameNumber, queue.multiFecCurrentBlockNumber>>

\* p is of the block that is due, or of the first block of a later frame.
Expected(p) ==
  BlockOf(p) = IF FrameOf(p) = queue.currentFrameNumber
               THEN queue.multiFecCurrentBlockNumber ELSE 0

RejectPacket(p) ==
  /\ phase = "waiting"
  /\ Behind(p) \/ (OfThisBlock(p) /\ Duplicate(queue, p))
  /\ arrived' = IF OfThisBlock(p) THEN arrived \union {p.index} ELSE arrived
  /\ UNCHANGED <<queue, phase, submitted, lost>>

AddToBlock(p) ==
  /\ phase = "waiting"
  /\ ~Behind(p) /\ OfThisBlock(p) /\ ~Duplicate(queue, p)
  /\ \E coolingOver \in BOOLEAN : queue' = Accepted(queue, p, coolingOver)
  /\ phase' = "received"
  /\ arrived' = arrived \union {p.index}
  /\ UNCHANGED <<submitted, lost>>

StartedOver(p) ==
  [queue EXCEPT
    !.pendingFecBlockList = <<>>,
    !.completedFecBlockList = IF FrameOf(p) = queue.currentFrameNumber THEN @ ELSE <<>>,
    !.currentFrameNumber = FrameOf(p),
    !.bufferLowestSequenceNumber = U16(SeqNum(p) - p.index),
    !.nextContiguousSequenceNumber = U16(SeqNum(p) - p.index),
    !.receivedDataPackets = 0, !.receivedParityPackets = 0,
    !.receivedHighestSequenceNumber = 0, !.missingPackets = 0,
    !.useFastQueuePath = TRUE, !.reportedLostFrame = FALSE,
    !.multiFecCurrentBlockNumber = BlockOf(p)]

\* Mutated: a predicted loss is reported once more.
MutSkipReported(p) == FrameOf(p) > queue.currentFrameNumber

\* Whether starting frame FrameOf(p) reports the frames skipped.
SkipReported(p) ==
  /\ FrameOf(p) > queue.currentFrameNumber
  /\ FrameOf(p) # queue.currentFrameNumber + 1 \/ ~queue.reportedLostFrame

\* The first packet of a block; what was collected of another is discarded.
StartBlock(p) ==
  /\ phase = "waiting"
  /\ ~Behind(p) /\ ~OfThisBlock(p) /\ Expected(p)
  /\ \E coolingOver \in BOOLEAN : queue' = Accepted(StartedOver(p), p, coolingOver)
  /\ lost' = IF SkipReported(p) THEN FrameOf(p) - 1 ELSE lost
  /\ phase' = "received"
  /\ arrived' = {p.index}
  /\ UNCHANGED submitted

\* A block was lost: the frame cannot be completed and is skipped.
LoseBlocks(p) ==
  /\ phase = "waiting"
  /\ ~Behind(p) /\ ~OfThisBlock(p) /\ ~Expected(p)
  /\ queue' = [queue EXCEPT
                !.pendingFecBlockList = <<>>, !.completedFecBlockList = <<>>,
                !.reportedLostFrame = TRUE,
                !.currentFrameNumber = FrameOf(p) + 1, !.multiFecCurrentBlockNumber = 0]
  /\ lost' = IF queue.reportedLostFrame THEN lost ELSE queue.currentFrameNumber
  /\ arrived' = {}
  /\ UNCHANGED <<phase, submitted>>

-----------------------------------------------------------------------------
(***************************************************************************)
(* reconstructFrame() and what follows it.                                 *)
(***************************************************************************)
Enough == Len(queue.pendingFecBlockList) >= DataPackets

\* More packets are missing than parity can replace, and none is expected late.
Hopeless ==
  /\ ~queue.reportedLostFrame /\ ~queue.receivedOosData
  /\ queue.missingPackets > ParityPackets

PredictLoss ==
  /\ phase = "received" /\ ~Enough /\ Hopeless
  /\ queue' = [queue EXCEPT !.reportedLostFrame = TRUE]
  /\ lost' = queue.currentFrameNumber
  /\ phase' = "waiting"
  /\ UNCHANGED <<arrived, submitted>>

AwaitMore ==
  /\ phase = "received" /\ ~Enough /\ ~Hopeless
  /\ phase' = "waiting"
  /\ UNCHANGED <<queue, arrived, submitted, lost>>

\* A wrong prediction stops predictions for a while.
StartRecovery ==
  /\ phase = "received" /\ Enough
  /\ queue' = IF queue.reportedLostFrame /\ ~queue.receivedOosData
              THEN [queue EXCEPT !.receivedOosData = TRUE,
                                 !.lastOosFrame = queue.currentFrameNumber]
              ELSE queue
  /\ phase' = "recovering"
  /\ UNCHANGED <<arrived, submitted, lost>>

\* Data packets not queued, which FEC recovers when some data was not received.
Lacking ==
  IF queue.receivedDataPackets = DataPackets THEN {} ELSE (0..(DataPackets - 1)) \ Held(queue)

\* The next lacking packet is recovered. When it fails its checks,
\* PACKET_RECOVERY_FAILURE() sets the result but neither frees the packet nor
\* skips it (the rest of the macro is part of a comment): it is queued, and only
\* the packets after it are dropped.
RecoverPacket ==
  /\ phase = "recovering"
  /\ \E i \in Lacking, origin \in {"recovered", "corrupt"} :
       /\ \A j \in Lacking : i <= j
       /\ queue' = Queued(queue, [seq    |-> U16(queue.bufferLowestSequenceNumber + i),
                                  origin |-> origin])
       /\ phase' = IF origin = "corrupt" THEN "waiting" ELSE "recovering"
  /\ UNCHANGED <<arrived, submitted, lost>>

\* Mutated: packets leave the block in the order they came.
MutStaged(q) ==
  q.completedFecBlockList \o
    SelectSeq(q.pendingFecBlockList, LAMBDA e : IndexIn(q, e.seq) < DataPackets)

\* stageCompleteFecBlock(): the data packets in order, without parity. The n-th
\* is the one with n - 1 data packets below it.
Staged(q) ==
  LET held    == Held(q) \intersect 0..(DataPackets - 1)
      below(i) == Cardinality({j \in held : j < i})
  IN  q.completedFecBlockList \o
        [n \in 1..Cardinality(held) |->
          CHOOSE e \in ToSet(q.pendingFecBlockList) :
            IndexIn(q, e.seq) \in held /\ below(IndexIn(q, e.seq)) = n - 1]

AtLastBlock == queue.multiFecCurrentBlockNumber = LastBlock[queue.currentFrameNumber]

CompleteBlock ==
  /\ phase = "recovering" /\ Lacking = {} /\ ~AtLastBlock
  /\ queue' = [queue EXCEPT !.pendingFecBlockList = <<>>,
                            !.completedFecBlockList = Staged(queue),
                            !.multiFecCurrentBlockNumber = @ + 1]
  /\ phase' = "waiting" /\ arrived' = {}
  /\ UNCHANGED <<submitted, lost>>

CompleteFrame ==
  /\ phase = "recovering" /\ Lacking = {} /\ AtLastBlock
  /\ queue' = [queue EXCEPT !.pendingFecBlockList = <<>>,
                            !.completedFecBlockList = <<>>,
                            !.currentFrameNumber = @ + 1,
                            !.multiFecCurrentBlockNumber = 0]
  /\ submitted' = [frame |-> queue.currentFrameNumber, packets |-> Staged(queue)]
  /\ phase' = "waiting" /\ arrived' = {}
  /\ UNCHANGED lost

-----------------------------------------------------------------------------
Init ==
  /\ queue = [pendingFecBlockList |-> <<>>, completedFecBlockList |-> <<>>,
              bufferLowestSequenceNumber |-> 0, nextContiguousSequenceNumber |-> 0,
              receivedHighestSequenceNumber |-> 0,
              receivedDataPackets |-> 0, receivedParityPackets |-> 0, missingPackets |-> 0,
              useFastQueuePath |-> FALSE, reportedLostFrame |-> FALSE,
              currentFrameNumber |-> 1, multiFecCurrentBlockNumber |-> 0,
              receivedOosData |-> FALSE, lastOosFrame |-> 0]
  /\ phase = "waiting" /\ arrived = {}
  /\ submitted = [frame |-> 0, packets |-> <<>>]
  /\ lost = 0

\* The network delivers any packet, any number of times, in any order.
AddPacket == \E p \in Packet : RejectPacket(p) \/ AddToBlock(p) \/ StartBlock(p) \/ LoseBlocks(p)

ReconstructFrame ==
  PredictLoss \/ AwaitMore \/ StartRecovery \/ RecoverPacket \/ CompleteBlock \/ CompleteFrame

Next == AddPacket \/ ReconstructFrame

Spec == Init /\ [][Next]_vars
-----------------------------------------------------------------------------
SeqNumber == 0..(SeqModulus - 1)
Entry == [seq : SeqNumber, origin : {"sent", "recovered", "corrupt"}]

TypeOK ==
  /\ queue \in
       [pendingFecBlockList : Seq(Entry), completedFecBlockList : Seq(Entry),
        bufferLowestSequenceNumber : SeqNumber, nextContiguousSequenceNumber : SeqNumber,
        receivedHighestSequenceNumber : SeqNumber,
        receivedDataPackets : 0..DataPackets, receivedParityPackets : 0..ParityPackets,
        missingPackets : 0..(BlockPackets - 1),
        useFastQueuePath : BOOLEAN, reportedLostFrame : BOOLEAN,
        currentFrameNumber : 1..(MaxFrame + 1), multiFecCurrentBlockNumber : 0..3,
        receivedOosData : BOOLEAN, lastOosFrame : 0..MaxFrame]
  /\ phase \in {"waiting", "received", "recovering"} /\ arrived \subseteq 0..(BlockPackets - 1)
  /\ submitted \in [frame : 0..MaxFrame, packets : Seq(Entry)]
  /\ lost \in 0..MaxFrame

\* However packets of a block are repeated and reordered, over the wrap of the
\* sequence number and over both paths of queuePacket(): every one that arrived
\* was kept, the counters are those of the packets that arrived, and
\* missingPackets is the number of holes below the highest of them.
HolesExact ==
  /\ TypeOK
  /\ queue.pendingFecBlockList # <<>> /\ (\A e \in ToSet(queue.pendingFecBlockList) : e.origin = "sent") =>
      LET top == CHOOSE i \in arrived : \A j \in arrived : j <= i
      IN  /\ arrived = Held(queue)
          /\ queue.missingPackets = Cardinality((0..top) \ arrived)
          /\ queue.receivedDataPackets = Cardinality({i \in arrived : i < DataPackets})
          /\ queue.receivedParityPackets = Cardinality({i \in arrived : i >= DataPackets})

\* What the depacketizer is given is a whole frame: every data packet of each
\* of its blocks, once and in order, no parity and nothing left from a frame
\* that was given up; and frames come in ascending order.
WholeFrame(f) ==
  [n \in 1..((LastBlock[f] + 1) * DataPackets) |->
     SeqAt(f, (n - 1) \div DataPackets, (n - 1) % DataPackets)]

FramesWhole ==
  [][submitted' # submitted =>
       /\ submitted'.frame > submitted.frame
       /\ [n \in DOMAIN submitted'.packets |-> submitted'.packets[n].seq]
            = WholeFrame(submitted'.frame)]_vars

\* What reconstructFrame() asserts of a block it looks at, whatever was lost,
\* repeated or late and however often a recovery failed: while packets are
\* needed there are enough to come, and with enough of them no more are missing
\* than parity replaces; a frame whose loss was predicted completes only after
\* out of order data, so that the prediction is never wrong by itself.
ReconstructAsserts ==
  phase = "received" =>
    IF Enough
    THEN /\ queue.missingPackets <= ParityPackets
         /\ ~queue.reportedLostFrame \/ queue.receivedOosData
    ELSE ~queue.reportedLostFrame /\ ~queue.receivedOosData /\ ~Hopeless =>
           DataPackets - Len(queue.pendingFecBlockList)
             <= U16(U16(queue.bufferLowestSequenceNumber + BlockPackets - 1)
                      - queue.receivedHighestSequenceNumber)

\* The queue keeps what the depacketizer is promised: the order of starts,
\* completions, losses and reports of module FrameDelivery.
Delivery == INSTANCE FrameDelivery WITH
  current     <- queue.currentFrameNumber,
  begun       <- queue.pendingFecBlockList # <<>> \/ queue.multiFecCurrentBlockNumber > 0,
  reported    <- queue.reportedLostFrame

DeliverySpec == Delivery!Spec

\* "we don't want the corrupt packet to by ingested by our depacketizer (or
\* worse, the decoder)": no recovered packet that failed its checks is passed on.
NoCorruptPacket == \A n \in DOMAIN submitted.packets : submitted.packets[n].origin # "corrupt"

=============================================================================
