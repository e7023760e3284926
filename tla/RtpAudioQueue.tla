---------------------------- MODULE RtpAudioQueue ----------------------------
(***************************************************************************)
(* RtpAudioQueue.c: the FEC queue of the audio stream, and the loop of     *)
(* AudioStream.c that feeds and empties it.                                *)
(*                                                                         *)
(* Every DataShards audio packets make a FEC block with FecShards packets  *)
(* of parity.  The queue keeps several blocks, sorted, and plays packets   *)
(* in order: at once when the packet that is due arrives, else when its    *)
(* block was recovered, else as a placeholder when the block is given up.  *)
(*                                                                         *)
(* One pass of the receive thread is RtpaAddPacket followed, if it says    *)
(* that packets are ready, by RtpaGetQueuedPacket until it returns NULL:   *)
(* an arrival and some pulls.  Nothing comes between.                      *)
(***************************************************************************)
EXTENDS Integers, SequencesExt

CONSTANTS
  DataShards,   \* RTPA_DATA_SHARDS
  FecShards,    \* RTPA_FEC_SHARDS
  SeqModulus,   \* stands for 2^16
  FirstSeq,     \* sequence number of the first packet sent
  MaxBlock,     \* bound: blocks the host sends
  MaxLate,      \* bound: how many blocks behind the newest a packet arrives
  MaxSkip,      \* bound: how many blocks beyond the newest the next one is
  Patience      \* blocks sent in the time an incomplete block is waited for

ASSUME RtpAudioQueueAssumption ==
  /\ DataShards \in Nat \ {0} /\ FecShards \in Nat
  /\ SeqModulus \in Nat \ {0} /\ SeqModulus % (2 * DataShards) = 0
  /\ FirstSeq \in 0..(SeqModulus - 1) /\ FirstSeq % DataShards = 0
  /\ MaxBlock \in Nat \ {0} /\ MaxLate \in Nat /\ MaxSkip \in Nat \ {0} /\ Patience \in Nat \ {0}

VARIABLES
  queue,    \* the RTP_AUDIO_QUEUE
  pulling,  \* the receive thread is emptying the queue
  output,   \* what the decoder was given last
  newest,   \* the newest block of which a packet arrived
  \* history, read by no guard
  arrived,  \* packets that arrived for what is not played yet
  restarted \* a queue in use was taken for one that was never started

vars == <<queue, pulling, output, newest, arrived, restarted>>

-----------------------------------------------------------------------------
(***************************************************************************)
(* Packets, sequence numbers and blocks.                                   *)
(***************************************************************************)
Shard == 0..(DataShards + FecShards - 1)
IsData(i) == i < DataShards

\* What the host sends: the data and FEC shards of its blocks.
Packet == [block : 1..MaxBlock, shard : Shard]

Plus(seq, n) == (seq + n) % SeqModulus
\* isBefore16()
Before(x, y) == (x - y) % SeqModulus >= SeqModulus \div 2

BaseOf(b) == Plus(FirstSeq, (b - 1) * DataShards)
Base(p) == BaseOf(p.block)
SeqNum(p) == Plus(Base(p), p.shard)          \* of a data packet
BlockBase(seq) == seq - (seq % DataShards)

NewBlock(base) ==
  [base |-> base, received |-> {}, fullyReassembled |-> FALSE,
   nextDataPacketIndex |-> 0, allowDiscontinuity |-> FALSE]

BlockHead(q) == Head(q.blocks)
Known(q, base) == \E n \in DOMAIN q.blocks : q.blocks[n].base = base
PlaceOf(q, base) == CHOOSE n \in DOMAIN q.blocks : q.blocks[n].base = base

\* marks[i] is clear: the shard was received or recovered.
Present(block, i) == i \in block.received \/ block.fullyReassembled

PacketReady(q) ==
  /\ q.blocks # <<>>
  /\ \/ /\ Present(BlockHead(q), BlockHead(q).nextDataPacketIndex)
        /\ BlockHead(q).base + BlockHead(q).nextDataPacketIndex = q.nextRtpSequenceNumber
     \/ BlockHead(q).allowDiscontinuity

\* Mutated: packets of the block are still accepted.
MutFreeHeadReopened(q) ==
  IF BlockHead(q).nextDataPacketIndex # DataShards THEN q
  ELSE [q EXCEPT !.blocks = Tail(@), !.synchronizing = FALSE]

\* freeFecBlockHead(), once everything of the first block was handed over.
FreeHeadIfDone(q) ==
  IF BlockHead(q).nextDataPacketIndex # DataShards THEN q
  ELSE [q EXCEPT !.blocks = Tail(@),
                 !.oldestRtpBaseSequenceNumber = Plus(BlockHead(q).base, DataShards),
                 !.synchronizing = FALSE]

-----------------------------------------------------------------------------
(***************************************************************************)
(* getFecBlockForRtpPacket().                                              *)
(***************************************************************************)
\* Data of a block already left behind ends fast recovery; half the sequence
\* space without any brings it back.
Sequenced(q, p) ==
  IF ~IsData(p.shard) THEN q
  ELSE IF ~q.synchronizing /\ Before(SeqNum(p), q.oldestRtpBaseSequenceNumber)
         THEN [q EXCEPT !.receivedOosData = TRUE, !.lastOosSequenceNumber = SeqNum(p)]
  ELSE [q EXCEPT !.receivedOosData =
                   @ /\ ~Before(q.oldestRtpBaseSequenceNumber, q.lastOosSequenceNumber)]

\* The first packet (and each one until the block after it is not block 0)
\* only tells where to start.  A queue that skips to block 0 before it has
\* completed a block looks the same, and starts over with its list as it is.
Unstarted == queue.synchronizing /\ queue.oldestRtpBaseSequenceNumber = 0

Synchronize(p) ==
  LET start == Plus(Base(p), DataShards)
  IN  /\ Unstarted
      /\ queue' = [Sequenced(queue, p) EXCEPT !.nextRtpSequenceNumber = start,
                                              !.oldestRtpBaseSequenceNumber = start]
      /\ arrived' = {}
      /\ restarted' = (restarted \/ queue.blocks # <<>>)
      /\ UNCHANGED <<pulling, output>>

Stale(p) == Before(Base(p), queue.oldestRtpBaseSequenceNumber)

\* Of a block that is complete, or a duplicate.
Superfluous(p) ==
  /\ Known(queue, Base(p))
  /\ Present(queue.blocks[PlaceOf(queue, Base(p))], p.shard)

RejectPacket(p) ==
  /\ ~Unstarted
  /\ Stale(p) \/ Superfluous(p)
  /\ queue' = Sequenced(queue, p)
  /\ UNCHANGED <<pulling, output, arrived, restarted>>

\* Mutated: a new block goes to the end of the list.
MutWithBlock(q, base) ==
  IF Known(q, base) THEN q ELSE [q EXCEPT !.blocks = Append(@, NewBlock(base))]

\* A new block goes before the first one that is later, or at the end.
WithBlock(q, base) ==
  LET later == {n \in DOMAIN q.blocks : Before(base, q.blocks[n].base)}
  IN  IF Known(q, base) THEN q
      ELSE [q EXCEPT !.blocks = IF later = {} THEN Append(@, NewBlock(base))
                                ELSE InsertAt(@, Min(later), NewBlock(base))]

\* The shard is stored in its block.
Stored(q, p) ==
  LET r == WithBlock(Sequenced(q, p), Base(p))
  IN  [r EXCEPT !.blocks[PlaceOf(r, Base(p))].received = @ \union {p.shard}]

-----------------------------------------------------------------------------
(***************************************************************************)
(* RtpaAddPacket().                                                        *)
(***************************************************************************)
\* The arrivals of the blocks that are not played yet.
Unplayed(A) == {x \in A : ~Before(x[1], BlockBase(queue.nextRtpSequenceNumber))}

Accepts(p) == ~Unstarted /\ ~Stale(p) /\ ~Superfluous(p)
Due(p) == IsData(p.shard) /\ SeqNum(p) = queue.nextRtpSequenceNumber

\* The packet that is due goes straight to the decoder; the queue is not emptied.
HandleNow(p) ==
  /\ Accepts(p) /\ Due(p)
  /\ LET q == Stored(queue, p)
         n == PlaceOf(q, Base(p))
     IN  queue' = FreeHeadIfDone([q EXCEPT !.nextRtpSequenceNumber = Plus(@, 1),
                                           !.blocks[n].nextDataPacketIndex = @ + 1])
  /\ output' = [seq |-> SeqNum(p), kind |-> "sent"]
  /\ arrived' = Unplayed(arrived \union {<<Base(p), p.shard>>})
  /\ UNCHANGED <<pulling, restarted>>

\* completeFecBlock(): recovery succeeds whenever there are enough shards.
Completed(q, base) ==
  LET n == PlaceOf(q, base)
  IN  [q EXCEPT !.blocks[n].fullyReassembled = Cardinality(q.blocks[n].received) >= DataShards]

\* Whether the first block has waited longer than it takes to send a block and
\* ten milliseconds: some time after the next block and before many more.
TimedOut(q) ==
  LET age == ((BaseOf(newest') - BlockHead(q).base) % SeqModulus) \div DataShards
  IN  IF age = 0 THEN {FALSE} ELSE IF age >= Patience THEN {TRUE} ELSE BOOLEAN

\* Mutated: the first block is given up although no other one waits behind it.
MutMissingHandled(q, timedOut) ==
  IF Before(q.nextRtpSequenceNumber, BlockHead(q).base)
  THEN [q EXCEPT !.nextRtpSequenceNumber = BlockHead(q).base,
                 !.oldestRtpBaseSequenceNumber = BlockHead(q).base]
  ELSE IF ~q.receivedOosData \/ timedOut
         THEN [q EXCEPT !.blocks[1].allowDiscontinuity = TRUE]
  ELSE q

\* handleMissingPackets(): skip what was lost completely, or give up the first
\* block once another one waits behind it.
MissingHandled(q, timedOut) ==
  IF Before(q.nextRtpSequenceNumber, BlockHead(q).base)
  THEN [q EXCEPT !.nextRtpSequenceNumber = BlockHead(q).base,
                 !.oldestRtpBaseSequenceNumber = BlockHead(q).base]
  ELSE IF Len(q.blocks) > 1 /\ (~q.receivedOosData \/ timedOut)
         THEN [q EXCEPT !.blocks[1].allowDiscontinuity = TRUE]
  ELSE q

QueuePacket(p) ==
  /\ Accepts(p) /\ ~Due(p)
  /\ LET q == Completed(Stored(queue, p), Base(p))
     IN  IF PacketReady(q) THEN queue' = q
         ELSE \E timedOut \in TimedOut(q) : queue' = MissingHandled(q, timedOut)
  /\ pulling' = PacketReady(queue')
  /\ arrived' = Unplayed(arrived \union {<<Base(p), p.shard>>})
  /\ UNCHANGED <<output, restarted>>

AddPacket(p) ==
  /\ ~pulling
  /\ p.block \in (newest - MaxLate)..(newest + MaxSkip)
  /\ newest' = IF p.block > newest THEN p.block ELSE newest
  /\ Synchronize(p) \/ RejectPacket(p) \/ HandleNow(p) \/ QueuePacket(p)

-----------------------------------------------------------------------------
(***************************************************************************)
(* RtpaGetQueuedPacket().                                                  *)
(***************************************************************************)
HandOver(kind) ==
  /\ queue' = FreeHeadIfDone([queue EXCEPT !.nextRtpSequenceNumber = Plus(@, 1),
                                           !.blocks[1].nextDataPacketIndex = @ + 1])
  /\ output' = [seq  |-> Plus(BlockHead(queue).base, BlockHead(queue).nextDataPacketIndex),
                kind |-> kind]
  /\ arrived' = Unplayed(arrived)
  /\ UNCHANGED <<pulling, newest, restarted>>

\* A placeholder for a packet that was lost.
PullLost ==
  /\ pulling /\ PacketReady(queue)
  /\ ~Present(BlockHead(queue), BlockHead(queue).nextDataPacketIndex)
  /\ HandOver("lost")

PullPacket ==
  /\ pulling /\ PacketReady(queue)
  /\ Present(BlockHead(queue), BlockHead(queue).nextDataPacketIndex)
  /\ HandOver(IF BlockHead(queue).nextDataPacketIndex \in BlockHead(queue).received
              THEN "sent" ELSE "recovered")

PullNothing ==
  /\ pulling /\ ~PacketReady(queue)
  /\ pulling' = FALSE
  /\ UNCHANGED <<queue, output, newest, arrived, restarted>>

-----------------------------------------------------------------------------
Init ==
  /\ queue = [blocks |-> <<>>, nextRtpSequenceNumber |-> 0, oldestRtpBaseSequenceNumber |-> 0,
              lastOosSequenceNumber |-> 0, receivedOosData |-> FALSE, synchronizing |-> TRUE]
  /\ pulling = FALSE
  /\ output = [seq |-> 0, kind |-> "none"]
  /\ newest = 1 /\ arrived = {} /\ restarted = FALSE

\* The network delivers packets any number of times and out of order, or not.
Next == (\E p \in Packet : AddPacket(p)) \/ PullLost \/ PullPacket \/ PullNothing

Spec == Init /\ [][Next]_vars

\* Bound: what a queue that started over in use does next is not followed.
UntilRestarted == ~restarted
-----------------------------------------------------------------------------
SeqNumber == 0..(SeqModulus - 1)

TypeOK ==
  /\ queue.blocks \in Seq([base : SeqNumber, received : SUBSET Shard, fullyReassembled : BOOLEAN,
                           nextDataPacketIndex : 0..(DataShards - 1), allowDiscontinuity : BOOLEAN])
  /\ queue.nextRtpSequenceNumber \in SeqNumber
  /\ queue.oldestRtpBaseSequenceNumber \in SeqNumber
  /\ queue.lastOosSequenceNumber \in SeqNumber
  /\ queue.receivedOosData \in BOOLEAN /\ queue.synchronizing \in BOOLEAN
  /\ pulling \in BOOLEAN
  /\ output \in [seq : SeqNumber, kind : {"none", "sent", "recovered", "lost"}]
  /\ newest \in 1..MaxBlock
  /\ arrived \in SUBSET (SeqNumber \X Shard)
  /\ restarted \in BOOLEAN

\* validateFecBlockState() and the assertions of RtpaAddPacket() and
\* RtpaGetQueuedPacket() on the list: it is sorted and starts no earlier than
\* what is still accepted; the packet due lies before the end of the first
\* block and, when it lies inside, is the one the block's cursor names; no
\* other block was played from.  They hold until the queue starts over in use.
ListMatchesWindow ==
  ~restarted =>
    LET next   == queue.nextRtpSequenceNumber
        oldest == queue.oldestRtpBaseSequenceNumber
    IN  /\ TypeOK
        /\ queue.synchronizing \/ ~Before(next, oldest)
        /\ \A m, n \in DOMAIN queue.blocks :
             m < n => /\ Before(queue.blocks[m].base, queue.blocks[n].base)
                      /\ queue.blocks[n].nextDataPacketIndex = 0
                      /\ ~queue.blocks[n].allowDiscontinuity
        /\ queue.blocks # <<>> =>
             LET head == BlockHead(queue)
             IN  /\ ~Before(head.base, oldest)
                 /\ Before(next, Plus(head.base, DataShards))
                 /\ IF Before(next, head.base) THEN head.nextDataPacketIndex = 0
                    ELSE next = head.base + head.nextDataPacketIndex

\* Whatever the network repeats, reorders or loses, the decoder is given every
\* packet once and in order: the packet due moves on by one when that very
\* packet, or a placeholder for it, is handed over; or it jumps forward over
\* whole blocks of which nothing has arrived.  So it is until the queue starts
\* over in use.
NothingSkippedOrRepeated ==
  [][LET next == queue.nextRtpSequenceNumber
         then == queue'.nextRtpSequenceNumber
     IN  ~restarted' /\ ~(Unstarted /\ queue.blocks = <<>>) =>
           IF output' # output THEN output'.seq = next /\ then = Plus(next, 1)
           ELSE then # next =>
                  /\ Before(next, then)
                  /\ next % DataShards = 0 /\ then % DataShards = 0
                  /\ \A x \in arrived : Before(x[1], next) \/ ~Before(x[1], then)]_vars

\* A packet that arrived in time is played as it was sent, one that did not is
\* recovered only from enough other shards of its block, and none that arrived
\* is concealed, nor one that is only late: something of a later block has come.
\* So it is until the queue starts over in use.
PlayedAsArrived ==
  [][~restarted /\ output' # output =>
       LET base == BlockBase(output'.seq)
           here == <<base, output'.seq % DataShards>>
           came == {x \in arrived' : x[1] = base}
       IN  CASE output'.kind = "sent"      -> here \in came
             [] output'.kind = "recovered" -> here \notin came /\ Cardinality(came) >= DataShards
             [] output'.kind = "lost"      ->
                    here \notin came /\ \E x \in arrived : Before(output'.seq, x[1])]_vars

\* "we'll fill in blank entries for packets that were lost and could not be
\* recovered": a placeholder stands only for a packet of a block of which too
\* few shards arrived.
ConcealedOnlyIfLost ==
  [][output' # output /\ output'.kind = "lost" =>
       Cardinality({x \in arrived : x[1] = BlockBase(output'.seq)}) < DataShards]_vars
=============================================================================
