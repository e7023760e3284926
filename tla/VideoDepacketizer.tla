------------------------- MODULE VideoDepacketizer --------------------------
(***************************************************************************)
(* VideoDepacketizer.c: frames of packets from the FEC queue become decode *)
(* units for the decoder, and a loss makes the depacketizer drop frames    *)
(* until an IDR frame, or a frame coded after reference frames were        *)
(* invalidated (RFI), makes the stream decodable again.                    *)
(*                                                                         *)
(* The receive thread owns most of the state; with a decode unit queue the *)
(* decoder thread runs beside it and, when it needs an IDR frame, writes   *)
(* the same flags without a lock.  The FEC queue is its contract, module   *)
(* FrameDelivery.  Frames are "I" (IDR), "P", or "R" (intra-refresh or     *)
(* coded after an invalidation), the header types 2, 1 and 4/5 of hosts    *)
(* from 7.1.350 on.  A frame is a first packet and a last one: the decoder *)
(* thread may act in between.                                              *)
(***************************************************************************)
EXTENDS Integers, Sequences

CONSTANTS
  MaxFrame,      \* bound: frames the host sends
  QueueBound,    \* capacity of decodeUnitQueue (15)
  DropLimit      \* CONSECUTIVE_DROP_LIMIT (120)

ASSUME DepacketizerAssumption ==
  MaxFrame \in Nat \ {0} /\ QueueBound \in Nat \ {0} /\ DropLimit \in Nat \ {0}

FrameType == {"I", "P", "R"}
NoFrame == [n |-> 0, t |-> "I"]

VARIABLES
  \* the FEC queue
  current,               \* currentFrameNumber: the next frame it can complete
  begun,                 \* a packet of that frame was accepted
  reported,              \* reportedLostFrame
  lost,                  \* the frame it reported last
  \* what the session was set up with, for good
  strictIdrFrameWait,    \* the host does not invalidate reference frames
  directSubmit,          \* CAPABILITY_DIRECT_SUBMIT: no queue and no decoder thread
  \* the depacketizer
  nextFrameNumber,
  startFrameNumber,
  waiting,               \* waitingForIdrFrame, ...RefInvalFrame, ...NextSuccessfulFrame
  frameType,
  dropStatePending,
  idrFrameProcessed,
  consecutiveFrameDrops,
  receiver,              \* "idle", "decoding" a frame, or about to "submit" it
  \* the decoder
  decodeUnitQueue,
  decoder,               \* "idle", "working", or in requestDecoderRefresh()
  handed,                \* the frame the decoder was given last
  \* history
  offered,               \* number of the last frame submitted or queued
  asked,                 \* an IDR request was sent that no frame has answered
  predicted,             \* a loss was predicted since the last IDR frame
  refreshed,             \* requestDecoderRefresh() done, no frame handed since
  late,                  \* the last frame past the checks when it was done
  rfi                    \* the last window passed to connectionDetectedFrameLoss()

fec     == <<current, begun, reported, lost>>
frames  == <<nextFrameNumber, startFrameNumber, frameType, receiver>>
flags   == <<waiting, dropStatePending, consecutiveFrameDrops>>
dec     == <<decodeUnitQueue, decoder, handed, idrFrameProcessed, refreshed, late>>
setup   == <<strictIdrFrameWait, directSubmit>>
vars    == <<fec, frames, flags, dec, setup, offered, asked, predicted, rfi>>

Fec == INSTANCE FrameDelivery

-----------------------------------------------------------------------------
(***************************************************************************)
(* dropFrameState().                                                       *)
(***************************************************************************)
LimitReached == consecutiveFrameDrops + 1 = DropLimit

\* Mutated: RFI is used although no IDR frame was decoded yet.
MutDropped(w) ==
  LET toIdr == strictIdrFrameWait \/ w.idr
  IN  [w EXCEPT !.idr = toIdr \/ LimitReached, !.rfi = @ \/ ~toIdr]

\* What a drop makes the flags w wait for: an IDR frame without RFI, before the
\* first IDR frame was decoded, when one was awaited already or at the limit.
Dropped(w) ==
  LET toIdr == strictIdrFrameWait \/ ~idrFrameProcessed \/ w.idr
  IN  [w EXCEPT !.idr = toIdr \/ LimitReached, !.rfi = @ \/ ~toIdr]

DropFrameState(w) ==
  /\ waiting' = Dropped(w)
  /\ dropStatePending' = FALSE
  /\ consecutiveFrameDrops' = IF LimitReached THEN 0 ELSE consecutiveFrameDrops + 1

(***************************************************************************)
(* Packets of the frame the FEC queue completed.                           *)
(***************************************************************************)
\* Mutated: the end of the wait for an RFI frame leaves the third flag set.
MutRecovered(w, t) ==
  IF t = "I" THEN [idr |-> FALSE, rfi |-> FALSE, next |-> FALSE]
  ELSE IF t = "R" /\ w.rfi THEN [w EXCEPT !.rfi = FALSE]
  ELSE w

\* What the type of a starting frame ends the wait for.
Recovered(w, t) ==
  IF t = "I" THEN [idr |-> FALSE, rfi |-> FALSE, next |-> FALSE]
  ELSE IF t = "R" /\ w.rfi THEN [w EXCEPT !.rfi = FALSE, !.next = FALSE]
  ELSE w

Gap == nextFrameNumber < current

FirstPacket(t) ==
  /\ receiver = "idle" /\ begun /\ nextFrameNumber <= current
  /\ nextFrameNumber' = current
  /\ frameType' = t
  /\ receiver' = "decoding"
  /\ IF Gap
     THEN LET w == [waiting EXCEPT !.next = TRUE]
          IN  /\ waiting' = Recovered(Dropped(w), t)
              /\ dropStatePending' = FALSE
              /\ consecutiveFrameDrops' = IF LimitReached THEN 0 ELSE consecutiveFrameDrops + 1
     ELSE /\ waiting' = Recovered(waiting, t)
          /\ UNCHANGED <<dropStatePending, consecutiveFrameDrops>>
  /\ predicted' = (predicted /\ t # "I")
  /\ asked' = IF t = "I" THEN FALSE ELSE asked \/ (Gap /\ LimitReached)
  /\ UNCHANGED <<fec, startFrameNumber, dec, setup, offered, rfi>>

\* A frame the depacketizer gave up on (it was predicted lost) is ignored.
IgnoreFrame ==
  /\ receiver = "idle" /\ current < nextFrameNumber
  /\ Fec!FrameCompletes
  /\ UNCHANGED <<frames, flags, dec, setup, predicted, offered, asked, rfi>>

\* The frame is over.
FrameDone ==
  /\ nextFrameNumber' = current + 1
  /\ Fec!FrameCompletes

\* A packet does not carry the expected stream packet index, or the length of
\* the last packet is wrong: the frame is dropped and recovery asked for.
CorruptPacket ==
  /\ begun /\ nextFrameNumber <= current
  /\ receiver \in {"idle", "decoding"}
  /\ receiver' = "idle"
  /\ FrameDone
  /\ DropFrameState(waiting)
  /\ IF Dropped(waiting).idr
     THEN asked' = TRUE /\ UNCHANGED rfi
     ELSE rfi' = <<startFrameNumber, current>> /\ UNCHANGED asked
  /\ UNCHANGED <<startFrameNumber, frameType, dec, setup, predicted, offered>>

\* Mutated: an incomplete recovery is never asked for again.
MutStillWaiting ==
  /\ receiver = "decoding"
  /\ waiting.idr \/ waiting.rfi
  /\ receiver' = "idle"
  /\ FrameDone
  /\ DropFrameState([waiting EXCEPT !.next = FALSE])
  /\ asked' = (asked \/ LimitReached)
  /\ rfi' = IF waiting.idr THEN rfi ELSE <<startFrameNumber, current>>
  /\ UNCHANGED <<startFrameNumber, frameType, dec, setup, predicted, offered>>

\* The frame is complete but the stream is not decodable yet.
StillWaiting ==
  /\ receiver = "decoding"
  /\ waiting.idr \/ waiting.rfi
  /\ receiver' = "idle"
  /\ FrameDone
  /\ DropFrameState([waiting EXCEPT !.next = FALSE])
  /\ asked' = (asked \/ (waiting.idr /\ waiting.next) \/ LimitReached)
  /\ rfi' = IF waiting.idr THEN rfi ELSE <<startFrameNumber, current>>
  /\ UNCHANGED <<startFrameNumber, frameType, dec, setup, predicted, offered>>

\* A drop the decoder asked for is carried out, unless this is the IDR frame.
PendingDrop ==
  /\ receiver = "decoding" /\ ~waiting.idr /\ ~waiting.rfi
  /\ dropStatePending /\ frameType # "I"
  /\ receiver' = "idle"
  /\ FrameDone
  /\ DropFrameState(waiting)
  /\ asked' = (asked \/ LimitReached)
  /\ UNCHANGED <<startFrameNumber, frameType, dec, setup, predicted, offered, rfi>>

\* The checks are passed; reassembleFrame() follows.
Decodable ==
  /\ receiver = "decoding" /\ ~waiting.idr /\ ~waiting.rfi
  /\ dropStatePending => frameType = "I"
  /\ receiver' = "submit"
  /\ FrameDone
  /\ dropStatePending' = FALSE
  /\ UNCHANGED <<startFrameNumber, frameType, waiting, consecutiveFrameDrops,
                 dec, setup, predicted, offered, asked, rfi>>

(***************************************************************************)
(* reassembleFrame().                                                      *)
(***************************************************************************)
Frame == [n |-> current - 1, t |-> frameType]

\* Mutated: the window of frames to invalidate is not moved.
MutSubmitted ==
  /\ receiver' = "idle"
  /\ offered' = Frame.n
  /\ consecutiveFrameDrops' = 0
  /\ UNCHANGED <<startFrameNumber, fec, nextFrameNumber, frameType, setup, predicted, rfi>>

Submitted ==
  /\ receiver' = "idle"
  /\ offered' = Frame.n
  /\ consecutiveFrameDrops' = 0
  /\ startFrameNumber' = nextFrameNumber
  /\ UNCHANGED <<fec, nextFrameNumber, frameType, setup, predicted, rfi>>

OfferFrame ==
  /\ ~directSubmit /\ receiver = "submit" /\ Len(decodeUnitQueue) < QueueBound
  /\ decodeUnitQueue' = Append(decodeUnitQueue, Frame)
  /\ Submitted
  /\ UNCHANGED <<waiting, dropStatePending, decoder, handed, idrFrameProcessed, refreshed, late, asked>>

\* The decoder is too slow: everything queued is thrown away.
QueueOverflow ==
  /\ ~directSubmit /\ receiver = "submit" /\ Len(decodeUnitQueue) = QueueBound
  /\ receiver' = "idle"
  /\ DropFrameState([waiting EXCEPT !.idr = TRUE])
  /\ decodeUnitQueue' = <<>>
  /\ asked' = TRUE
  /\ UNCHANGED <<fec, nextFrameNumber, startFrameNumber, frameType, decoder, handed,
                 idrFrameProcessed, refreshed, late, setup, predicted, offered, rfi>>

\* Mutated: the refresh asks for an IDR frame but does not wait for it.
MutSubmitDirectly ==
  /\ directSubmit /\ receiver = "submit"
  /\ handed' = Frame
  /\ Submitted
  /\ \/ /\ idrFrameProcessed' = (idrFrameProcessed \/ frameType = "I")
        /\ refreshed' = FALSE /\ UNCHANGED asked
     \/ /\ asked' = TRUE /\ refreshed' = TRUE
        /\ UNCHANGED idrFrameProcessed
  /\ UNCHANGED <<waiting, dropStatePending, decodeUnitQueue, decoder, late>>

\* The decoder runs on the receive thread and completes the frame at once.
SubmitDirectly ==
  /\ directSubmit /\ receiver = "submit"
  /\ handed' = Frame
  /\ Submitted
  /\ \/ /\ idrFrameProcessed' = (idrFrameProcessed \/ frameType = "I")
        /\ refreshed' = FALSE
        /\ UNCHANGED <<waiting, dropStatePending, asked>>
     \/ /\ waiting' = [waiting EXCEPT !.idr = TRUE]
        /\ dropStatePending' = TRUE
        /\ asked' = TRUE /\ refreshed' = TRUE
        /\ UNCHANGED idrFrameProcessed
  /\ UNCHANGED <<decodeUnitQueue, decoder, late>>

(***************************************************************************)
(* The decoder thread: LiWaitForNextVideoFrame, LiCompleteVideoFrame and   *)
(* requestDecoderRefresh, whose writes are steps of their own.             *)
(***************************************************************************)
receiveSide == <<fec, frames, consecutiveFrameDrops, setup, offered, predicted, rfi>>

WaitForNextVideoFrame ==
  /\ decoder = "idle" /\ decodeUnitQueue # <<>>
  /\ handed' = Head(decodeUnitQueue)
  /\ decodeUnitQueue' = Tail(decodeUnitQueue)
  /\ decoder' = "working"
  /\ refreshed' = FALSE
  /\ UNCHANGED <<receiveSide, waiting, dropStatePending, idrFrameProcessed, late, asked>>

CompleteVideoFrame ==
  /\ decoder = "working"
  /\ decoder' = "idle"
  /\ idrFrameProcessed' = (idrFrameProcessed \/ handed.t = "I")
  /\ UNCHANGED <<receiveSide, waiting, dropStatePending, decodeUnitQueue, handed, refreshed, late,
                 asked>>

NeedIdr ==
  /\ decoder = "working"
  /\ waiting' = [waiting EXCEPT !.idr = TRUE]
  /\ decoder' = "flushing"
  /\ UNCHANGED <<receiveSide, dropStatePending, idrFrameProcessed, decodeUnitQueue, handed,
                 refreshed, late, asked>>

FlushDecodeUnits ==
  /\ decoder = "flushing"
  /\ decodeUnitQueue' = <<>>
  /\ decoder' = "requesting"
  /\ UNCHANGED <<receiveSide, waiting, dropStatePending, idrFrameProcessed, handed, refreshed,
                 late, asked>>

\* The last frame that is past the checks: it is queued, or about to be.
PastChecks == IF receiver = "submit" THEN Frame.n ELSE offered

\* Mutated: the receive thread is not told to drop its state.
MutRequestRefresh ==
  /\ decoder = "requesting"
  /\ asked' = TRUE /\ refreshed' = TRUE /\ late' = PastChecks
  /\ decoder' = "idle"
  /\ UNCHANGED <<receiveSide, waiting, dropStatePending, idrFrameProcessed, decodeUnitQueue, handed>>

RequestRefresh ==
  /\ decoder = "requesting"
  /\ dropStatePending' = TRUE
  /\ asked' = TRUE /\ refreshed' = TRUE /\ late' = PastChecks
  /\ decoder' = "idle"
  /\ UNCHANGED <<receiveSide, waiting, idrFrameProcessed, decodeUnitQueue, handed>>

(***************************************************************************)
(* notifyFrameLost() as the FEC queue calls it.                            *)
(***************************************************************************)
\* The depacketizer's part, for frame f; with RFI it need not wait for f.
NotifyFrameLost(f) ==
  /\ DropFrameState(waiting)
  /\ IF Dropped(waiting).idr
     THEN UNCHANGED <<nextFrameNumber, rfi>>
     ELSE nextFrameNumber' = f + 1 /\ rfi' = <<startFrameNumber, f>>

NotNotified == UNCHANGED <<nextFrameNumber, rfi, flags>>

notifyOnly == <<startFrameNumber, frameType, receiver, dec, setup, offered>>

\* A request made earlier may have been for a frame whose loss the depacketizer
\* has yet to notice; one made at this moment (at the drop limit) was not.
AskedAfterLoss(notified, newCurrent) ==
  asked' = \/ notified /\ LimitReached
           \/ asked /\ newCurrent <= nextFrameNumber'

\* The first packet of the frame the queue expects.
BeginFrame ==
  /\ receiver = "idle"
  /\ Fec!FrameStarts
  /\ UNCHANGED <<notifyOnly, predicted, nextFrameNumber, rfi, flags, asked>>

BeginBlock ==
  /\ receiver = "idle"
  /\ Fec!BlockStarts
  /\ UNCHANGED <<notifyOnly, predicted, nextFrameNumber, rfi, flags, asked>>

LoseFrames(f) ==
  /\ receiver = "idle"
  /\ Fec!FramesLost(f)
  /\ IF Fec!LossReported(f) THEN NotifyFrameLost(f) ELSE NotNotified
  /\ AskedAfterLoss(Fec!LossReported(f), f + 1)
  /\ UNCHANGED <<notifyOnly, predicted>>

LoseBlocks(f) ==
  /\ receiver = "idle"
  /\ Fec!BlocksLost(f)
  /\ IF reported THEN NotNotified ELSE NotifyFrameLost(current)
  /\ AskedAfterLoss(~reported, f + 1)
  /\ UNCHANGED <<notifyOnly, predicted>>

\* Too many packets are missing to recover the frame, unless they come late.
PredictLoss ==
  /\ receiver = "idle"
  /\ Fec!LossPredicted
  /\ NotifyFrameLost(current)
  /\ predicted' = TRUE
  /\ asked' = (asked \/ LimitReached)
  /\ UNCHANGED notifyOnly

-----------------------------------------------------------------------------
Init ==
  /\ Fec!Init
  /\ nextFrameNumber = 1 /\ startFrameNumber = 0
  /\ waiting = [idr |-> TRUE, rfi |-> FALSE, next |-> FALSE]
  /\ frameType = "P" /\ receiver = "idle"
  /\ dropStatePending = FALSE /\ idrFrameProcessed = FALSE
  /\ strictIdrFrameWait \in BOOLEAN /\ directSubmit \in BOOLEAN
  \* not reset: the count of an earlier session goes on
  /\ consecutiveFrameDrops \in 0..(DropLimit - 1)
  /\ decodeUnitQueue = <<>> /\ decoder = "idle" /\ handed = NoFrame
  /\ offered = 0 /\ asked = FALSE /\ predicted = FALSE
  /\ refreshed = FALSE /\ late = 0 /\ rfi = <<0, 0>>

\* The host's encoder starts with an IDR frame; later types are its choice.
HostSends == IF current = 1 THEN {"I"} ELSE FrameType

ReceiveStep ==
  \/ \E t \in HostSends : FirstPacket(t)
  \/ IgnoreFrame \/ CorruptPacket \/ StillWaiting \/ PendingDrop \/ Decodable
  \/ OfferFrame \/ QueueOverflow \/ SubmitDirectly

DecoderStep ==
  WaitForNextVideoFrame \/ CompleteVideoFrame \/ NeedIdr \/ FlushDecodeUnits \/ RequestRefresh

LossStep ==
  BeginFrame \/ BeginBlock \/ (\E f \in current..MaxFrame : LoseFrames(f) \/ LoseBlocks(f)) \/ PredictLoss

Next == ReceiveStep \/ DecoderStep \/ LossStep

Spec == Init /\ [][Next]_vars

-----------------------------------------------------------------------------
FrameNumber == 1..(MaxFrame + 1)
Frames == [n : 0..MaxFrame, t : FrameType]

TypeOK ==
  /\ current \in FrameNumber /\ nextFrameNumber \in FrameNumber
  /\ startFrameNumber \in 0..(MaxFrame + 1)
  /\ begun \in BOOLEAN /\ reported \in BOOLEAN /\ lost \in 0..MaxFrame
  /\ begun => current <= MaxFrame
  /\ waiting \in [idr : BOOLEAN, rfi : BOOLEAN, next : BOOLEAN]
  /\ frameType \in FrameType /\ receiver \in {"idle", "decoding", "submit"}
  /\ dropStatePending \in BOOLEAN /\ idrFrameProcessed \in BOOLEAN
  /\ strictIdrFrameWait \in BOOLEAN /\ directSubmit \in BOOLEAN
  /\ consecutiveFrameDrops \in 0..(DropLimit - 1)
  /\ decodeUnitQueue \in Seq(Frames) /\ Len(decodeUnitQueue) <= QueueBound
  /\ decoder \in {"idle", "working", "flushing", "requesting"}
  /\ handed \in Frames
  /\ offered \in 0..MaxFrame /\ asked \in BOOLEAN /\ predicted \in BOOLEAN
  /\ refreshed \in BOOLEAN /\ late \in 0..MaxFrame
  /\ rfi \in (0..MaxFrame) \X (0..MaxFrame)

\* A plain P frame is submitted only right after the frame it was coded from,
\* and handed to the decoder only right after that frame was: no loss,
\* corruption, overflow or refresh, in any order, opens a hole before it.  A
\* refresh flushes the queue while the receive thread goes on, so what was past
\* the checks before the refresh was over (late) may be handed all the same.
NoGapBeforeP ==
  [][/\ offered' # offered /\ frameType = "P" => offered' = offered + 1
     /\ handed' # handed /\ handed'.t = "P" /\ handed'.n > late => handed'.n = handed.n + 1]_vars

\* The window reported to the host starts right after the last frame that was
\* submitted (a received frame is never invalidated, a lost one never left
\* out) and is not empty, as the control stream asserts.
RfiWindowExact ==
  [][rfi' # rfi => rfi'[1] = offered + 1 /\ rfi'[1] <= rfi'[2]]_vars

\* When a frame is about to be submitted nothing is being waited for any more:
\* the assertion !waitingForNextSuccessfulFrame before reassembleFrame().
RecoveryIsOver == receiver = "submit" => ~waiting.next

\* An IDR frame that is waited for is on its way: a request for it is pending,
\* or the next complete frame will send one, or a loss not yet noticed will, or
\* the decoder is about to, or it is the first frame.  Otherwise the picture
\* would freeze until the consecutive drop limit.
IdrRequested ==
  waiting.idr =>
    \/ asked \/ waiting.next
    \/ nextFrameNumber < current
    \/ offered = 0 /\ nextFrameNumber = 1
    \/ decoder \in {"flushing", "requesting"}

\* Without RFI, or before it can be used, every awaited IDR frame was asked for
\* and the request is repeated when its answer is lost; but not if a loss was
\* predicted, which waits for an IDR frame without asking for one.
IdrIsOnItsWay ==
  ~predicted /\ (strictIdrFrameWait \/ ~idrFrameProcessed) => IdrRequested

\* The same with RFI: "IDR wait takes priority over RFI wait", so an RFI frame
\* must not end what the wait for an IDR frame needs.
IdrWaitHasPriority == ~predicted => IdrRequested

\* After a refresh a decoder on the receive thread does not go on with a plain
\* P frame.
RefreshThenNoP == [][directSubmit /\ refreshed /\ ~refreshed' => handed'.t # "P"]_vars

\* requestDecoderRefresh: "ensures the next frame submitted to the decoder will
\* be an IDR frame". After a refresh the next frame the decoder gets is an IDR frame.
RefreshThenIdr == [][refreshed /\ ~refreshed' => handed'.t = "I"]_vars

\* The assertion of validateDecodeUnitForPlayback, for a decoder on the receive
\* thread: "We must not dequeue a P frame before an IDR frame has been
\* successfully processed".
IdrBeforeP ==
  [][directSubmit /\ handed' # handed /\ handed'.t # "I" => idrFrameProcessed]_vars

=============================================================================
