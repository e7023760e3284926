---------------------- MODULE VideoDepacketizerProofs ----------------------
(***************************************************************************)
(* Proofs about VideoDepacketizer, for any number of frames, any queue     *)
(* capacity and drop limit, and either kind of decoder.                    *)
(*                                                                         *)
(* The inductive invariant says where the last submitted frame stands:     *)
(* while nothing is awaited it is the frame before the next one, and so it *)
(* is for a plain P frame in the making (Consecutive); and it says where   *)
(* the window of lost frames starts: right behind that frame, once there   *)
(* is one (WindowStart), RFI being used only after an IDR frame was        *)
(* decoded.                                                                *)
(*                                                                         *)
(* Three more, on top of it, follow the waits: the third flag is never set *)
(* alone (Recovery); while RFI cannot be used, an awaited IDR frame has    *)
(* been asked for or is about to be (IdrWait); and a decoder on the        *)
(* receive thread gets nothing that a refresh ruled out (Direct).  A last  *)
(* one follows the frames from their submission to the decoder: what the   *)
(* queue holds is in order, and while a P frame may be submitted next, the *)
(* frame before it is the last one held, by the queue or by the decoder    *)
(* (HeldInv); only during a refresh is nothing said of it.                 *)
(***************************************************************************)
EXTENDS VideoDepacketizer, TLAPS

Flags == [idr : BOOLEAN, rfi : BOOLEAN, next : BOOLEAN]

Awaited(w) == w.idr \/ w.rfi

Consecutive ==
  /\ receiver = "idle" /\ ~Awaited(waiting) => offered = nextFrameNumber - 1
  /\ receiver = "decoding" =>
       /\ begun /\ nextFrameNumber = current
       /\ ~Awaited(waiting) /\ frameType = "P" => offered = nextFrameNumber - 1
  /\ receiver = "submit" =>
       /\ nextFrameNumber = current /\ current > 1
       /\ frameType = "P" => offered = nextFrameNumber - 2

WindowStart ==
  /\ startFrameNumber <= current
  /\ offered > 0 => startFrameNumber = offered + 1
  /\ offered = 0 => ~idrFrameProcessed /\ decodeUnitQueue = <<>> /\ decoder = "idle"
  /\ waiting.rfi => idrFrameProcessed

DepacketizerInv == TypeOK /\ Consecutive /\ WindowStart

-----------------------------------------------------------------------------
(***************************************************************************)
(* What a drop and the start of a frame do to the flags.                   *)
(***************************************************************************)
\* dropFrameState always leaves a wait behind, and one for RFI alone only if an
\* IDR frame was decoded.
LEMMA DropWaits ==
  ASSUME TypeOK, NEW w \in Flags, w.rfi => idrFrameProcessed
  PROVE  /\ Dropped(w) \in Flags
         /\ Awaited(Dropped(w))
         /\ Dropped(w).rfi => idrFrameProcessed
         /\ Dropped(w).next = w.next
<1> DEFINE toIdr == strictIdrFrameWait \/ ~idrFrameProcessed \/ w.idr
<1>1. Dropped(w) = [w EXCEPT !.idr = toIdr \/ LimitReached, !.rfi = @ \/ ~toIdr]
  BY DEF Dropped
<1>2. /\ (toIdr \/ LimitReached) \in BOOLEAN
      /\ (w.rfi \/ ~toIdr) \in BOOLEAN
  BY Zenon
<1>3. Dropped(w) = [idr |-> toIdr \/ LimitReached, rfi |-> w.rfi \/ ~toIdr, next |-> w.next]
  BY <1>1 DEF Flags
<1>4. w.next \in BOOLEAN
  BY DEF Flags
<1> HIDE DEF toIdr
<1>5. Dropped(w) \in Flags
  BY <1>2, <1>3, <1>4 DEF Flags
<1>6. /\ Dropped(w).idr = (toIdr \/ LimitReached)
      /\ Dropped(w).rfi = (w.rfi \/ ~toIdr)
      /\ Dropped(w).next = w.next
  BY <1>3
<1>7. Awaited(Dropped(w))
  BY <1>6, Zenon DEF Awaited
<1>8. Dropped(w).rfi => idrFrameProcessed
  BY <1>6, Zenon DEF toIdr
<1> QED BY <1>5, <1>6, <1>7, <1>8

\* The start of a frame ends waits but begins none, and a plain P frame ends none.
LEMMA RecoveredFlags ==
  ASSUME NEW w \in Flags, NEW t \in FrameType
  PROVE  /\ Recovered(w, t) \in Flags
         /\ Recovered(w, t).rfi => w.rfi
         /\ t = "P" => Recovered(w, t) = w
<1>1. CASE t = "I"
  BY <1>1 DEF Recovered, Flags
<1>2. CASE t = "R" /\ w.rfi
  BY <1>2 DEF Recovered, Flags
<1>3. CASE t # "I" /\ ~(t = "R" /\ w.rfi)
  <2>1. Recovered(w, t) = w
    BY <1>3 DEF Recovered
  <2> QED BY <2>1
<1> QED BY <1>1, <1>2, <1>3

\* The counter stays below the limit.
LEMMA DropCount ==
  ASSUME TypeOK, NEW w, DropFrameState(w)
  PROVE  /\ waiting' = Dropped(w)
         /\ dropStatePending' = FALSE /\ dropStatePending' \in BOOLEAN
         /\ consecutiveFrameDrops' \in 0..(DropLimit - 1)
<1>1. consecutiveFrameDrops' \in 0..(DropLimit - 1)
  BY DepacketizerAssumption DEF DropFrameState, LimitReached, TypeOK
<1>2. dropStatePending' = FALSE
  BY DEF DropFrameState
<1>3. dropStatePending' \in BOOLEAN
  BY <1>2, Zenon
<1>4. waiting' = Dropped(w)
  BY DEF DropFrameState
<1> QED BY <1>1, <1>2, <1>3, <1>4

-----------------------------------------------------------------------------
LEMMA InitHolds == Init => DepacketizerInv
<1> SUFFICES ASSUME Init PROVE DepacketizerInv
  OBVIOUS
<1>1. /\ begun \in BOOLEAN /\ reported \in BOOLEAN /\ strictIdrFrameWait \in BOOLEAN
      /\ directSubmit \in BOOLEAN /\ predicted \in BOOLEAN /\ dropStatePending \in BOOLEAN /\ idrFrameProcessed \in BOOLEAN
      /\ asked \in BOOLEAN /\ refreshed \in BOOLEAN
  BY Zenon DEF Init, Fec!Init
<1>2. waiting \in Flags
  <2>1. TRUE \in BOOLEAN /\ FALSE \in BOOLEAN
    BY Zenon
  <2> QED BY <2>1 DEF Init, Flags
<1>3. TypeOK
  BY <1>1, <1>2, DepacketizerAssumption
  DEF Init, Fec!Init, TypeOK, Flags, FrameNumber, FrameType, Frames, NoFrame
<1>4. Consecutive /\ WindowStart
  BY <1>3 DEF Init, Fec!Init, Consecutive, WindowStart, Awaited, TypeOK
<1> QED BY <1>3, <1>4 DEF DepacketizerInv

LEMMA FirstPacketKeepsInv ==
  ASSUME DepacketizerInv, NEW t \in FrameType, FirstPacket(t)
  PROVE  DepacketizerInv'
<1> DEFINE w == [waiting EXCEPT !.next = TRUE]
<1> USE DEF DepacketizerInv, setup
<1>1. w \in Flags /\ w.rfi = waiting.rfi /\ waiting \in Flags
  BY Zenon DEF TypeOK, Flags
<1>2. waiting.rfi => idrFrameProcessed
  BY DEF WindowStart
<1> HIDE DEF w
<1>3. /\ waiting' \in Flags
      /\ waiting'.rfi => idrFrameProcessed
      /\ t = "P" /\ ~Awaited(waiting') => ~Gap
      /\ t = "P" /\ ~Gap => waiting' = waiting
      /\ dropStatePending' \in BOOLEAN
      /\ consecutiveFrameDrops' \in 0..(DropLimit - 1)
  <2>1. CASE Gap
    <3>1. waiting' = Recovered(Dropped(w), t)
      BY <2>1 DEF FirstPacket, w
    <3>2. /\ Dropped(w) \in Flags /\ Awaited(Dropped(w))
          /\ Dropped(w).rfi => idrFrameProcessed
      BY <1>1, <1>2, DropWaits
    <3>3. dropStatePending' \in BOOLEAN
      BY <2>1, Zenon DEF FirstPacket
    <3>4. consecutiveFrameDrops' \in 0..(DropLimit - 1)
      BY <2>1, DepacketizerAssumption DEF FirstPacket, LimitReached, TypeOK
    <3> QED BY <2>1, <3>1, <3>2, <3>3, <3>4, RecoveredFlags
  <2>2. CASE ~Gap
    <3>1. waiting' = Recovered(waiting, t) /\ UNCHANGED <<dropStatePending, consecutiveFrameDrops>>
      BY <2>2 DEF FirstPacket
    <3> QED BY <2>2, <3>1, <1>1, <1>2, RecoveredFlags DEF TypeOK
  <2> QED BY <2>1, <2>2
<1>4. asked' \in BOOLEAN /\ predicted' \in BOOLEAN
  BY Zenon DEF FirstPacket, TypeOK
<1>5. TypeOK'
  BY <1>3, <1>4 DEF FirstPacket, TypeOK, Flags, FrameNumber, fec, dec
<1>6. Consecutive'
  BY <1>3 DEF FirstPacket, Consecutive, Gap, TypeOK, FrameNumber, FrameType, fec, Awaited
<1>7. WindowStart'
  BY <1>3 DEF FirstPacket, WindowStart, fec, dec
<1> QED BY <1>5, <1>6, <1>7

\* Completing a frame changes nothing of the FEC queue but its place.
LEMMA CompletionEffect ==
  ASSUME Fec!FrameCompletes
  PROVE  /\ begun /\ begun' = FALSE /\ begun' \in BOOLEAN
         /\ current' = current + 1
         /\ reported' = reported /\ lost' = lost
<1>1. begun' = FALSE
  BY DEF Fec!FrameCompletes
<1>2. begun' \in BOOLEAN
  BY <1>1, Zenon
<1> QED BY <1>1, <1>2 DEF Fec!FrameCompletes

\* A frame that is dropped, whatever for, keeps the invariant.
LEMMA DroppedFrameKeepsInv ==
  ASSUME DepacketizerInv, begun,
         NEW w \in Flags, w.rfi => idrFrameProcessed, DropFrameState(w), FrameDone,
         receiver' = "idle",
         UNCHANGED <<startFrameNumber, frameType, dec, setup, predicted, offered>>,
         asked' \in BOOLEAN, rfi' \in (0..MaxFrame) \X (0..MaxFrame)
  PROVE  DepacketizerInv'
<1> USE DepacketizerAssumption DEF DepacketizerInv, setup
<1>1. /\ waiting' \in Flags /\ Awaited(waiting')
      /\ waiting'.rfi => idrFrameProcessed
      /\ dropStatePending' \in BOOLEAN
      /\ consecutiveFrameDrops' \in 0..(DropLimit - 1)
  BY DropWaits, DropCount
<1>2. /\ begun' = FALSE /\ begun' \in BOOLEAN /\ current' = current + 1
      /\ reported' = reported /\ lost' = lost /\ nextFrameNumber' = current + 1
  BY CompletionEffect DEF FrameDone
<1>3. /\ startFrameNumber' = startFrameNumber /\ frameType' = frameType
      /\ strictIdrFrameWait' = strictIdrFrameWait /\ directSubmit' = directSubmit
      /\ offered' = offered /\ predicted' = predicted
      /\ decodeUnitQueue' = decodeUnitQueue /\ decoder' = decoder /\ handed' = handed
      /\ idrFrameProcessed' = idrFrameProcessed /\ refreshed' = refreshed /\ late' = late
  BY DEF dec
<1>4. TypeOK'
  BY <1>1, <1>2, <1>3 DEF TypeOK, Flags, FrameNumber
<1>5. Consecutive'
  BY <1>1 DEF Consecutive, Awaited
<1>6. WindowStart'
  BY <1>1, <1>2, <1>3 DEF WindowStart, TypeOK, FrameNumber
<1> QED BY <1>4, <1>5, <1>6

\* The window that ends with frame f is one the type allows.
LEMMA WindowType ==
  ASSUME DepacketizerInv, NEW f \in current..MaxFrame
  PROVE  <<startFrameNumber, f>> \in (0..MaxFrame) \X (0..MaxFrame)
BY DepacketizerAssumption DEF DepacketizerInv, TypeOK, WindowStart, FrameNumber

LEMMA ReceiveStepKeepsInv ==
  ASSUME DepacketizerInv, ReceiveStep
  PROVE  DepacketizerInv'
<1> USE DepacketizerAssumption DEF DepacketizerInv, setup
<1>0. /\ waiting \in Flags
      /\ waiting.rfi => idrFrameProcessed
      /\ begun => current \in current..MaxFrame
  BY DEF TypeOK, Flags, WindowStart, FrameNumber
<1>1. ASSUME NEW t \in HostSends, FirstPacket(t) PROVE DepacketizerInv'
  <2>1. t \in FrameType
    BY DEF HostSends, FrameType
  <2> QED BY <1>1, <2>1, FirstPacketKeepsInv
<1>2. CASE IgnoreFrame
  <2>1. /\ begun /\ begun' = FALSE /\ begun' \in BOOLEAN
        /\ current' = current + 1 /\ reported' = reported /\ lost' = lost
    BY <1>2, CompletionEffect DEF IgnoreFrame
  <2>2. TypeOK'
    BY <1>2, <2>1 DEF IgnoreFrame, TypeOK, FrameNumber, frames, flags, dec
  <2>3. Consecutive' /\ WindowStart'
    BY <1>2, <2>1 DEF IgnoreFrame, TypeOK, FrameNumber, Consecutive, WindowStart, Awaited, frames, flags, dec
  <2> QED BY <2>2, <2>3
<1>3. CASE CorruptPacket
  <2>1. asked' \in BOOLEAN /\ rfi' \in (0..MaxFrame) \X (0..MaxFrame)
    <3>1. TRUE \in BOOLEAN
      BY Zenon
    <3> QED BY <1>0, <1>3, <3>1, WindowType DEF CorruptPacket, TypeOK
  <2> QED BY <1>0, <1>3, <2>1, DroppedFrameKeepsInv DEF CorruptPacket
<1>4. CASE StillWaiting
  <2> DEFINE w == [waiting EXCEPT !.next = FALSE]
  <2>1. w \in Flags /\ w.rfi = waiting.rfi
    BY <1>0, Zenon DEF Flags
  <2>2. asked' \in BOOLEAN
    BY <1>4, Zenon DEF StillWaiting
  <2>3. begun
    BY <1>4 DEF StillWaiting, Consecutive
  <2>4. rfi' \in (0..MaxFrame) \X (0..MaxFrame)
    BY <1>0, <1>4, <2>3, WindowType DEF StillWaiting, TypeOK
  <2>5. DropFrameState(w)
    BY <1>4 DEF StillWaiting
  <2> HIDE DEF w
  <2> QED BY <1>0, <1>4, <2>1, <2>2, <2>3, <2>4, <2>5, DroppedFrameKeepsInv DEF StillWaiting
<1>5. CASE PendingDrop
  <2>1. asked' \in BOOLEAN
    BY <1>5, Zenon DEF PendingDrop
  <2>2. begun
    BY <1>5 DEF PendingDrop, Consecutive
  <2> QED BY <1>0, <1>5, <2>1, <2>2, DroppedFrameKeepsInv DEF PendingDrop, TypeOK
<1>6. CASE Decodable
  <2>1. /\ begun' = FALSE /\ begun' \in BOOLEAN /\ current' = current + 1
        /\ reported' = reported /\ lost' = lost /\ nextFrameNumber' = current + 1
    BY <1>6, CompletionEffect DEF Decodable, FrameDone
  <2>6. dropStatePending' \in BOOLEAN
    BY <1>6, Zenon DEF Decodable
  <2>2. begun /\ nextFrameNumber = current
    BY <1>6 DEF Decodable, Consecutive
  <2>3. TypeOK'
    BY <1>6, <2>1, <2>2, <2>6 DEF Decodable, TypeOK, FrameNumber, dec
  <2>4. Consecutive'
    BY <1>6, <2>1, <2>2 DEF Decodable, TypeOK, FrameNumber, Consecutive, Awaited
  <2>5. WindowStart'
    BY <1>6, <2>1 DEF Decodable, TypeOK, FrameNumber, WindowStart, dec
  <2> QED BY <2>3, <2>4, <2>5
<1>7. CASE OfferFrame
  <2>1. Frame \in Frames /\ Frame.n = current - 1 /\ nextFrameNumber = current /\ current > 1
    BY <1>7 DEF OfferFrame, Consecutive, Frame, Frames, TypeOK, FrameNumber
  <2> HIDE DEF Frame
  <2>2. TypeOK'
    BY <1>7, <2>1, DepacketizerAssumption DEF OfferFrame, Submitted, TypeOK, FrameNumber, fec, Frames
  <2>3. Consecutive' /\ WindowStart'
    BY <1>7, <2>1, DepacketizerAssumption DEF OfferFrame, Submitted, TypeOK, FrameNumber, Consecutive, WindowStart, Awaited, fec
  <2> QED BY <2>2, <2>3
<1>8. CASE QueueOverflow
  <2> DEFINE w == [waiting EXCEPT !.idr = TRUE]
  <2>1. w \in Flags /\ w.rfi = waiting.rfi
    BY <1>0, Zenon DEF Flags
  <2>2. DropFrameState(w)
    BY <1>8 DEF QueueOverflow
  <2> HIDE DEF w
  <2>3. /\ waiting' \in Flags /\ Awaited(waiting')
        /\ waiting'.rfi => idrFrameProcessed
        /\ dropStatePending' \in BOOLEAN
        /\ consecutiveFrameDrops' \in 0..(DropLimit - 1)
    BY <1>0, <2>1, <2>2, DropWaits, DropCount
  <2>4. asked' \in BOOLEAN
    BY <1>8, Zenon DEF QueueOverflow
  <2>5. TypeOK'
    <3>1. <<>> \in Seq(Frames) /\ Len(<<>>) = 0
      OBVIOUS
    <3> QED BY <1>8, <2>3, <2>4, <3>1 DEF QueueOverflow, TypeOK, Flags, FrameNumber, fec
  <2>6. Consecutive' /\ WindowStart'
    BY <1>8, <2>3 DEF QueueOverflow, Consecutive, WindowStart, Awaited, fec, TypeOK, FrameNumber
  <2> QED BY <2>5, <2>6
<1>9. CASE SubmitDirectly
  <2>1. Frame \in Frames /\ Frame.n = current - 1 /\ nextFrameNumber = current /\ current > 1
    BY <1>9 DEF SubmitDirectly, Consecutive, Frame, Frames, TypeOK, FrameNumber
  <2> HIDE DEF Frame
  <2>2. /\ waiting' \in Flags /\ waiting'.rfi = waiting.rfi
        /\ Awaited(waiting) => Awaited(waiting')
    BY <1>0, <1>9, Zenon DEF SubmitDirectly, Flags, Awaited
  <2>3. /\ idrFrameProcessed' \in BOOLEAN /\ refreshed' \in BOOLEAN
        /\ dropStatePending' \in BOOLEAN /\ asked' \in BOOLEAN
        /\ idrFrameProcessed => idrFrameProcessed'
    <3>1. /\ dropStatePending \in BOOLEAN /\ asked \in BOOLEAN /\ idrFrameProcessed \in BOOLEAN
          /\ TRUE \in BOOLEAN /\ FALSE \in BOOLEAN
          /\ (idrFrameProcessed \/ frameType = "I") \in BOOLEAN
      BY Zenon DEF TypeOK
    <3>2. CASE /\ idrFrameProcessed' = (idrFrameProcessed \/ frameType = "I")
               /\ refreshed' = FALSE
               /\ dropStatePending' = dropStatePending /\ asked' = asked
      BY <3>1, <3>2, Zenon
    <3>3. CASE /\ idrFrameProcessed' = idrFrameProcessed
               /\ refreshed' = TRUE /\ dropStatePending' = TRUE /\ asked' = TRUE
      BY <3>1, <3>3, Zenon
    <3> QED BY <1>9, <3>2, <3>3 DEF SubmitDirectly
  <2>4. TypeOK'
    BY <1>9, <2>1, <2>2, <2>3, DepacketizerAssumption DEF SubmitDirectly, Submitted, TypeOK, FrameNumber, fec, Flags, Frames
  <2>5. /\ receiver' = "idle" /\ offered' = current - 1 /\ startFrameNumber' = current
        /\ current' = current /\ nextFrameNumber' = current /\ current \in Nat
    BY <1>9, <2>1 DEF SubmitDirectly, Submitted, fec, TypeOK, FrameNumber
  <2>6. Consecutive'
    BY <2>5 DEF Consecutive
  <2>7. WindowStart'
    BY <1>0, <2>1, <2>2, <2>3, <2>5 DEF WindowStart
  <2> QED BY <2>4, <2>6, <2>7
<1> QED BY <1>1, <1>2, <1>3, <1>4, <1>5, <1>6, <1>7, <1>8, <1>9 DEF ReceiveStep

\* The decoder thread only ever adds a wait, and cannot act before a frame was
\* offered.
LEMMA DecoderStepKeepsInv ==
  ASSUME DepacketizerInv, DecoderStep
  PROVE  DepacketizerInv'
<1> USE DepacketizerAssumption DEF DepacketizerInv, setup
<1>1. /\ current' = current /\ begun' = begun /\ reported' = reported /\ lost' = lost
      /\ nextFrameNumber' = nextFrameNumber /\ startFrameNumber' = startFrameNumber
      /\ frameType' = frameType /\ receiver' = receiver
      /\ consecutiveFrameDrops' = consecutiveFrameDrops
      /\ strictIdrFrameWait' = strictIdrFrameWait /\ directSubmit' = directSubmit
      /\ offered' = offered /\ predicted' = predicted /\ rfi' = rfi
  BY DEF DecoderStep, WaitForNextVideoFrame, CompleteVideoFrame, NeedIdr, FlushDecodeUnits,
     RequestRefresh, receiveSide, fec, frames
<1>2. /\ waiting' \in Flags
      /\ waiting'.rfi = waiting.rfi
      /\ Awaited(waiting) => Awaited(waiting')
  <2>1. waiting \in Flags
    BY DEF TypeOK, Flags
  <2>2. CASE waiting' = waiting
    BY <2>1, <2>2
  <2>3. CASE waiting' = [waiting EXCEPT !.idr = TRUE]
    BY <2>1, <2>3, Zenon DEF Flags, Awaited
  <2> QED
    BY <2>2, <2>3 DEF DecoderStep, WaitForNextVideoFrame, CompleteVideoFrame, NeedIdr,
       FlushDecodeUnits, RequestRefresh
<1>3. /\ idrFrameProcessed' \in BOOLEAN /\ refreshed' \in BOOLEAN
      /\ dropStatePending' \in BOOLEAN /\ asked' \in BOOLEAN
      /\ idrFrameProcessed => idrFrameProcessed'
  BY Zenon DEF DecoderStep, WaitForNextVideoFrame, CompleteVideoFrame, NeedIdr, FlushDecodeUnits,
     RequestRefresh, TypeOK
<1>4. /\ decodeUnitQueue' \in Seq(Frames) /\ Len(decodeUnitQueue') <= QueueBound
      /\ handed' \in Frames
      /\ decoder' \in {"idle", "working", "flushing", "requesting"}
  <2>1. CASE WaitForNextVideoFrame
    BY <2>1 DEF WaitForNextVideoFrame, TypeOK
  <2>2. CASE FlushDecodeUnits
    <3>1. decodeUnitQueue' = <<>> /\ handed' = handed /\ decoder' = "requesting"
      BY <2>2 DEF FlushDecodeUnits
    <3> QED BY <3>1 DEF TypeOK
  <2>3. CASE CompleteVideoFrame \/ NeedIdr \/ RequestRefresh
    BY <2>3 DEF CompleteVideoFrame, NeedIdr, RequestRefresh, TypeOK
  <2> QED BY <2>1, <2>2, <2>3 DEF DecoderStep
<1>5. offered > 0
  BY DEF DecoderStep, WaitForNextVideoFrame, CompleteVideoFrame, NeedIdr, FlushDecodeUnits,
     RequestRefresh, WindowStart, TypeOK
<1>9. late' \in 0..MaxFrame
  BY DEF DecoderStep, WaitForNextVideoFrame, CompleteVideoFrame, NeedIdr, FlushDecodeUnits,
     RequestRefresh, PastChecks, Frame, TypeOK, Consecutive, FrameNumber
<1>6. TypeOK'
  BY <1>1, <1>2, <1>3, <1>4, <1>9 DEF TypeOK, Flags, FrameNumber
<1>7. Consecutive'
  BY <1>1, <1>2 DEF Consecutive
<1>8. WindowStart'
  BY <1>1, <1>2, <1>3, <1>5 DEF WindowStart
<1> QED BY <1>6, <1>7, <1>8

\* notifyFrameLost for a frame the FEC queue has reached.
LEMMA NotifyEffect ==
  ASSUME DepacketizerInv, NEW f \in current..MaxFrame, NotifyFrameLost(f)
  PROVE  /\ waiting' \in Flags /\ Awaited(waiting')
         /\ waiting'.rfi => idrFrameProcessed
         /\ dropStatePending' \in BOOLEAN
         /\ consecutiveFrameDrops' \in 0..(DropLimit - 1)
         /\ nextFrameNumber' \in FrameNumber
         /\ rfi' \in (0..MaxFrame) \X (0..MaxFrame)
<1> USE DepacketizerAssumption DEF DepacketizerInv, setup
<1>1. waiting \in Flags /\ (waiting.rfi => idrFrameProcessed)
  BY DEF TypeOK, Flags, WindowStart
<1>2. DropFrameState(waiting)
  BY DEF NotifyFrameLost
<1>3. nextFrameNumber' \in FrameNumber /\ rfi' \in (0..MaxFrame) \X (0..MaxFrame)
  BY WindowType DEF NotifyFrameLost, TypeOK, FrameNumber
<1> QED BY <1>1, <1>2, <1>3, DropWaits, DropCount

\* What the FEC queue's steps leave alone, and a report it makes.
LEMMA LossKeepsInv ==
  ASSUME DepacketizerInv, receiver = "idle", notifyOnly' = notifyOnly,
         current' \in FrameNumber, current <= current',
         begun' \in BOOLEAN, begun' => current' <= MaxFrame,
         reported' \in BOOLEAN, lost' \in 0..MaxFrame, asked' \in BOOLEAN, predicted' \in BOOLEAN,
         \/ NotNotified
         \/ \E f \in current..MaxFrame : NotifyFrameLost(f)
  PROVE  DepacketizerInv'
<1> USE DepacketizerAssumption DEF DepacketizerInv, setup
<1>1. /\ startFrameNumber' = startFrameNumber /\ frameType' = frameType /\ receiver' = receiver
      /\ decodeUnitQueue' = decodeUnitQueue /\ decoder' = decoder /\ handed' = handed
      /\ idrFrameProcessed' = idrFrameProcessed /\ refreshed' = refreshed /\ late' = late
      /\ strictIdrFrameWait' = strictIdrFrameWait /\ directSubmit' = directSubmit /\ offered' = offered
  BY DEF notifyOnly, dec
<1>2. /\ waiting' \in Flags
      /\ waiting'.rfi => idrFrameProcessed
      /\ dropStatePending' \in BOOLEAN
      /\ consecutiveFrameDrops' \in 0..(DropLimit - 1)
      /\ nextFrameNumber' \in FrameNumber
      /\ rfi' \in (0..MaxFrame) \X (0..MaxFrame)
      /\ ~Awaited(waiting') => nextFrameNumber' = nextFrameNumber /\ ~Awaited(waiting)
  <2>1. CASE NotNotified
    BY <2>1 DEF NotNotified, flags, TypeOK, Flags, WindowStart, FrameNumber
  <2>2. CASE \E f \in current..MaxFrame : NotifyFrameLost(f)
    BY <2>2, NotifyEffect
  <2> QED BY <2>1, <2>2
<1>3. TypeOK'
  BY <1>1, <1>2 DEF TypeOK, Flags, FrameNumber
<1>4. Consecutive'
  BY <1>1, <1>2 DEF Consecutive
<1>5. WindowStart'
  BY <1>1, <1>2 DEF WindowStart, TypeOK, FrameNumber
<1> QED BY <1>3, <1>4, <1>5

LEMMA LossStepKeepsInv ==
  ASSUME DepacketizerInv, LossStep
  PROVE  DepacketizerInv'
<1> USE DepacketizerAssumption DEF DepacketizerInv, setup
<1>0. /\ TRUE \in BOOLEAN /\ FALSE \in BOOLEAN /\ predicted \in BOOLEAN
      /\ begun \in BOOLEAN /\ asked \in BOOLEAN /\ reported \in BOOLEAN
  BY Zenon DEF TypeOK
<1>1. CASE BeginFrame
  <2>1. NotNotified /\ asked' = asked /\ predicted' = predicted
    BY <1>1 DEF BeginFrame, NotNotified, flags
  <2>4. asked' \in BOOLEAN /\ predicted' \in BOOLEAN
    BY <1>0, <2>1
  <2>2. notifyOnly' = notifyOnly /\ receiver = "idle"
    BY <1>1 DEF BeginFrame, notifyOnly, dec
  <2>3. /\ current' \in FrameNumber /\ current <= current'
        /\ begun' \in BOOLEAN /\ reported' \in BOOLEAN
        /\ begun' => current' <= MaxFrame
        /\ lost' \in 0..MaxFrame
    <3>1. /\ current' = current /\ current <= MaxFrame /\ current \in FrameNumber /\ current \in Int
          /\ lost' \in 0..MaxFrame
      BY <1>1 DEF BeginFrame, Fec!FrameStarts, TypeOK, FrameNumber
    <3>2. begun' \in BOOLEAN /\ reported' \in BOOLEAN
      BY <1>1, Zenon DEF BeginFrame, Fec!FrameStarts, TypeOK
    <3> QED BY <3>1, <3>2
  <2> QED BY <2>1, <2>2, <2>3, <2>4, LossKeepsInv
<1>2. CASE BeginBlock
  <2>1. NotNotified /\ asked' = asked /\ predicted' = predicted
    BY <1>2 DEF BeginBlock, NotNotified, flags
  <2>4. asked' \in BOOLEAN /\ predicted' \in BOOLEAN
    BY <1>0, <2>1
  <2>2. notifyOnly' = notifyOnly /\ receiver = "idle"
    BY <1>2 DEF BeginBlock, notifyOnly, dec
  <2>3. /\ current' \in FrameNumber /\ current <= current'
        /\ begun' \in BOOLEAN /\ reported' \in BOOLEAN
        /\ begun' => current' <= MaxFrame
        /\ lost' \in 0..MaxFrame
    <3>1. /\ current' = current /\ current <= MaxFrame /\ current \in FrameNumber /\ current \in Int
          /\ lost' \in 0..MaxFrame
      BY <1>2 DEF BeginBlock, Fec!BlockStarts, TypeOK, FrameNumber
    <3>2. begun' \in BOOLEAN /\ reported' \in BOOLEAN
      BY <1>2, Zenon DEF BeginBlock, Fec!BlockStarts, TypeOK
    <3> QED BY <3>1, <3>2
  <2> QED BY <2>1, <2>2, <2>3, <2>4, LossKeepsInv
<1>3. ASSUME NEW f \in current..MaxFrame, LoseFrames(f) PROVE DepacketizerInv'
  <2>1. f + 1 \in FrameNumber /\ current <= f + 1 /\ f + 1 <= MaxFrame /\ current' = f + 1
    BY <1>3 DEF LoseFrames, Fec!FramesLost, TypeOK, FrameNumber
  <2>2. asked' \in BOOLEAN
    BY <1>3, Zenon DEF LoseFrames, AskedAfterLoss
  <2>3. NotNotified \/ NotifyFrameLost(f)
    BY <1>3 DEF LoseFrames
  <2>4. notifyOnly' = notifyOnly /\ receiver = "idle" /\ predicted' = predicted
    BY <1>3 DEF LoseFrames
  <2>5. /\ begun' = TRUE /\ reported' = FALSE /\ lost' \in 0..MaxFrame
    BY <1>3 DEF LoseFrames, Fec!FramesLost, TypeOK, FrameNumber
  <2> QED BY <1>0, <2>1, <2>2, <2>3, <2>4, <2>5, LossKeepsInv
<1>4. ASSUME NEW f \in current..MaxFrame, LoseBlocks(f) PROVE DepacketizerInv'
  <2>1. f + 1 \in FrameNumber /\ current <= f + 1 /\ current' = f + 1 /\ current \in current..MaxFrame
    BY <1>4 DEF LoseBlocks, Fec!BlocksLost, TypeOK, FrameNumber
  <2>2. asked' \in BOOLEAN
    BY <1>4, Zenon DEF LoseBlocks, AskedAfterLoss
  <2>3. NotNotified \/ NotifyFrameLost(current)
    BY <1>4 DEF LoseBlocks
  <2>4. notifyOnly' = notifyOnly /\ receiver = "idle" /\ predicted' = predicted
    BY <1>4 DEF LoseBlocks
  <2>5. /\ begun' = FALSE /\ reported' = TRUE /\ lost' \in 0..MaxFrame
    BY <1>4, <2>1 DEF LoseBlocks, Fec!BlocksLost, TypeOK, FrameNumber
  <2> QED BY <1>0, <2>1, <2>2, <2>3, <2>4, <2>5, LossKeepsInv
<1>5. CASE PredictLoss
  <2>1. current' = current /\ current \in FrameNumber /\ current \in current..MaxFrame /\ begun' = begun
    BY <1>5 DEF PredictLoss, Fec!LossPredicted, TypeOK, FrameNumber
  <2>2. asked' \in BOOLEAN
    BY <1>5, Zenon DEF PredictLoss
  <2>3. NotifyFrameLost(current)
    BY <1>5 DEF PredictLoss
  <2>4. notifyOnly' = notifyOnly /\ receiver = "idle" /\ predicted' = TRUE
    BY <1>5 DEF PredictLoss, notifyOnly, dec
  <2>5. reported' = TRUE /\ lost' \in 0..MaxFrame
    BY <1>5, <2>1 DEF PredictLoss, Fec!LossPredicted, FrameNumber
  <2>6. current' <= MaxFrame
    BY <1>5, <2>1 DEF PredictLoss, Fec!LossPredicted, TypeOK
  <2> QED BY <1>0, <2>1, <2>2, <2>3, <2>4, <2>5, <2>6, LossKeepsInv DEF TypeOK, FrameNumber
<1> QED BY <1>1, <1>2, <1>3, <1>4, <1>5 DEF LossStep

LEMMA StutterKeepsInv ==
  ASSUME DepacketizerInv, UNCHANGED vars
  PROVE  DepacketizerInv'
BY DEF DepacketizerInv, TypeOK, Consecutive, WindowStart, Awaited, FrameNumber, Frames,
   vars, fec, frames, flags, dec, setup

-----------------------------------------------------------------------------
(***************************************************************************)
(* The waits.                                                              *)
(***************************************************************************)
\* waitingForNextSuccessfulFrame is never set alone, and never when a frame is
\* about to be submitted.
Recovery ==
  /\ waiting.next => Awaited(waiting)
  /\ receiver = "submit" => ~waiting.next

CannotRfi == strictIdrFrameWait \/ ~idrFrameProcessed

\* While RFI cannot be used, nothing is skipped unnoticed and nothing but an IDR
\* frame is awaited; and a drop the decoder left pending was asked for.
IdrWait ==
  /\ CannotRfi => nextFrameNumber <= current /\ ~waiting.rfi
  /\ receiver = "decoding" /\ nextFrameNumber = 1 => ~waiting.idr
  /\ dropStatePending =>
       asked \/ nextFrameNumber < current \/ (receiver = "decoding" /\ frameType = "I")
  /\ IdrIsOnItsWay

\* With a decoder on the receive thread, what a refresh or the start of the
\* stream waits for is either still awaited or in the making.
Direct ==
  directSubmit =>
    /\ decoder = "idle" /\ decodeUnitQueue = <<>>
    /\ receiver = "submit" => ~Awaited(waiting)
    /\ refreshed => Awaited(waiting) \/ (receiver # "idle" /\ frameType # "P")
    /\ ~idrFrameProcessed => waiting.idr \/ (receiver # "idle" /\ frameType = "I")

\* A drop waits for an IDR frame while RFI cannot be used.
LEMMA DropEffect ==
  ASSUME DepacketizerInv, NEW w \in Flags, w.rfi => idrFrameProcessed, DropFrameState(w)
  PROVE  /\ waiting' \in Flags /\ Awaited(waiting')
         /\ waiting'.next = w.next
         /\ CannotRfi => waiting'.idr /\ (waiting'.rfi => w.rfi)
         /\ ~dropStatePending'
<1>1. waiting' = Dropped(w) /\ ~dropStatePending'
  BY DEF DropFrameState
<1>2. /\ Dropped(w) \in Flags /\ Awaited(Dropped(w))
      /\ Dropped(w).next = w.next
  BY DropWaits DEF DepacketizerInv
<1>3. CannotRfi => Dropped(w).idr /\ (Dropped(w).rfi => w.rfi)
  BY Zenon DEF Dropped, Flags, CannotRfi
<1> QED BY <1>1, <1>2, <1>3

\* Which waits the start of a frame leaves.
LEMMA RecoveryEffect ==
  ASSUME NEW w \in Flags, NEW t \in FrameType
  PROVE  /\ t = "I" => ~Recovered(w, t).idr /\ ~Recovered(w, t).rfi /\ ~Recovered(w, t).next
         /\ t # "I" => Recovered(w, t).idr = w.idr
         /\ Recovered(w, t).next => w.next /\ (w.rfi => Recovered(w, t).rfi)
<1>1. CASE t = "I"
  BY <1>1 DEF Recovered
<1>2. CASE t = "R" /\ w.rfi
  <2>1. Recovered(w, t) = [w EXCEPT !.rfi = FALSE, !.next = FALSE]
    BY <1>2 DEF Recovered
  <2> QED BY <1>2, <2>1 DEF Flags
<1>3. CASE t # "I" /\ ~(t = "R" /\ w.rfi)
  <2>1. Recovered(w, t) = w
    BY <1>3 DEF Recovered
  <2> QED BY <1>3, <2>1
<1> QED BY <1>1, <1>2, <1>3

\* What FirstPacket does to the waits.
LEMMA FirstPacketEffect ==
  ASSUME DepacketizerInv, NEW t \in HostSends, FirstPacket(t)
  PROVE  /\ t \in FrameType /\ (current = 1 => t = "I")
         /\ t = "I" => ~waiting'.idr /\ ~waiting'.rfi /\ ~waiting'.next
         /\ t # "I" /\ ~Gap /\ ~waiting.rfi => waiting' = waiting
         /\ t # "I" /\ waiting.idr => waiting'.idr
         /\ t # "I" /\ Gap /\ CannotRfi /\ ~waiting.rfi => waiting'.idr /\ waiting'.next
         /\ CannotRfi /\ waiting'.rfi => waiting.rfi
         /\ (waiting.next => Awaited(waiting)) /\ waiting'.next => Awaited(waiting')
         /\ t = "P" /\ Awaited(waiting) => Awaited(waiting')
         /\ dropStatePending' => dropStatePending /\ ~Gap
<1> DEFINE w == [waiting EXCEPT !.next = TRUE]
<1>1. t \in FrameType /\ (current = 1 => t = "I")
  BY DEF HostSends, FrameType
<1>2. /\ waiting \in Flags /\ w \in Flags
      /\ w.idr = waiting.idr /\ w.rfi = waiting.rfi /\ w.next
      /\ waiting.rfi => idrFrameProcessed
  BY Zenon DEF DepacketizerInv, TypeOK, WindowStart, Flags
<1> HIDE DEF w
<1>3. CASE Gap
  <2>1. waiting' = Recovered(Dropped(w), t) /\ ~dropStatePending'
    BY <1>3 DEF FirstPacket, w
  <2>2. /\ Dropped(w) \in Flags /\ Awaited(Dropped(w)) /\ Dropped(w).next
        /\ waiting.idr => Dropped(w).idr
        /\ CannotRfi => Dropped(w).idr /\ (Dropped(w).rfi => waiting.rfi)
    <3>1. /\ waiting.idr => Dropped(w).idr
          /\ CannotRfi => Dropped(w).idr /\ (Dropped(w).rfi => waiting.rfi)
      <4>1. /\ w.idr => Dropped(w).idr
            /\ CannotRfi => Dropped(w).idr /\ (Dropped(w).rfi => w.rfi)
        BY <1>2, Zenon DEF Dropped, Flags, CannotRfi
      <4> QED BY <1>2, <4>1
    <3> QED BY <1>2, <3>1, DropWaits DEF DepacketizerInv
  <2> DEFINE d == Dropped(w)
  <2> HIDE DEF d
  <2>3. /\ d \in Flags /\ Awaited(d) /\ d.next /\ waiting' = Recovered(d, t)
        /\ waiting.idr => d.idr
        /\ CannotRfi => d.idr /\ (d.rfi => waiting.rfi)
    BY <2>1, <2>2 DEF d
  <2>4. /\ t = "I" => ~waiting'.idr /\ ~waiting'.rfi /\ ~waiting'.next
        /\ t # "I" => waiting'.idr = d.idr
        /\ waiting'.next => (d.rfi => waiting'.rfi)
        /\ t = "P" => waiting' = d
        /\ waiting'.rfi => d.rfi
        /\ ~d.rfi /\ t # "I" => waiting' = d
    BY <1>1, <2>3, RecoveryEffect, RecoveredFlags DEF Recovered
  <2> QED BY <1>1, <1>3, <2>1, <2>3, <2>4 DEF Awaited
<1>4. CASE ~Gap
  <2>1. waiting' = Recovered(waiting, t) /\ dropStatePending' = dropStatePending
    BY <1>4 DEF FirstPacket
  <2>2. /\ t = "I" => ~waiting'.idr /\ ~waiting'.rfi /\ ~waiting'.next
        /\ t # "I" => waiting'.idr = waiting.idr
        /\ waiting'.next => waiting.next /\ (waiting.rfi => waiting'.rfi)
        /\ t = "P" => waiting' = waiting
        /\ t # "I" /\ ~waiting.rfi => waiting' = waiting
        /\ waiting'.rfi => waiting.rfi
    BY <1>1, <1>2, <2>1, RecoveryEffect, RecoveredFlags DEF Recovered
  <2> QED BY <1>1, <1>4, <2>1, <2>2 DEF Awaited
<1> QED BY <1>3, <1>4

\* Each action that drops a frame does so with the waits as they are, or with
\* one of them changed.
LEMMA DropSteps ==
  ASSUME DepacketizerInv
  PROVE  /\ waiting \in Flags /\ (waiting.rfi => idrFrameProcessed)
         /\ CorruptPacket => DropFrameState(waiting)
         /\ PendingDrop => DropFrameState(waiting)
         /\ StillWaiting => \E w \in Flags : w.idr = waiting.idr /\ w.rfi = waiting.rfi /\ ~w.next /\ DropFrameState(w)
         /\ QueueOverflow => \E w \in Flags : w.idr /\ w.rfi = waiting.rfi /\ w.next = waiting.next /\ DropFrameState(w)
<1>1. waiting \in Flags /\ (waiting.rfi => idrFrameProcessed)
  BY DEF DepacketizerInv, TypeOK, WindowStart, Flags
<1>2. CorruptPacket \/ PendingDrop => DropFrameState(waiting)
  BY DEF CorruptPacket, PendingDrop
<1>3. ASSUME StillWaiting
      PROVE  \E w \in Flags : w.idr = waiting.idr /\ w.rfi = waiting.rfi /\ ~w.next /\ DropFrameState(w)
  <2> DEFINE w == [waiting EXCEPT !.next = FALSE]
  <2>1. w \in Flags /\ w.idr = waiting.idr /\ w.rfi = waiting.rfi /\ ~w.next
    BY <1>1, Zenon DEF Flags
  <2>2. DropFrameState(w)
    BY <1>3 DEF StillWaiting
  <2> QED BY <2>1, <2>2
<1>4. ASSUME QueueOverflow
      PROVE  \E w \in Flags : w.idr /\ w.rfi = waiting.rfi /\ w.next = waiting.next /\ DropFrameState(w)
  <2> DEFINE w == [waiting EXCEPT !.idr = TRUE]
  <2>1. w \in Flags /\ w.idr /\ w.rfi = waiting.rfi /\ w.next = waiting.next
    BY <1>1, Zenon DEF Flags
  <2>2. DropFrameState(w)
    BY <1>4 DEF QueueOverflow
  <2> QED BY <2>1, <2>2
<1> QED BY <1>1, <1>2, <1>3, <1>4

\* A refresh adds the wait for an IDR frame and takes none away.
LEMMA RefreshEffect ==
  ASSUME DepacketizerInv, DecoderStep \/ SubmitDirectly
  PROVE  /\ waiting' \in Flags
         /\ waiting'.next = waiting.next /\ waiting'.rfi = waiting.rfi
         /\ waiting.idr => waiting'.idr
         /\ waiting' = waiting \/ (waiting'.idr /\ (SubmitDirectly \/ NeedIdr))
<1>1. waiting \in Flags
  BY DropSteps
<1>2. \/ waiting' = waiting
      \/ waiting' = [waiting EXCEPT !.idr = TRUE] /\ (SubmitDirectly \/ NeedIdr)
  BY DEF DecoderStep, WaitForNextVideoFrame, CompleteVideoFrame, NeedIdr, FlushDecodeUnits,
     RequestRefresh, SubmitDirectly
<1>3. CASE waiting' = waiting
  BY <1>1, <1>3
<1>4. CASE waiting' = [waiting EXCEPT !.idr = TRUE] /\ (SubmitDirectly \/ NeedIdr)
  BY <1>1, <1>4, Zenon DEF Flags
<1> QED BY <1>2, <1>3, <1>4

\* The FEC queue's steps happen between frames and report a loss or none.
LEMMA LossEffect ==
  ASSUME DepacketizerInv, LossStep
  PROVE  /\ receiver = "idle" /\ notifyOnly' = notifyOnly
         /\ NotNotified \/ DropFrameState(waiting)
<1>1. BeginFrame \/ BeginBlock => NotNotified /\ receiver = "idle" /\ notifyOnly' = notifyOnly
  BY DEF BeginFrame, BeginBlock, NotNotified, flags, notifyOnly, dec, setup
<1>2. ASSUME NEW f \in current..MaxFrame, LoseFrames(f) \/ LoseBlocks(f)
      PROVE  receiver = "idle" /\ notifyOnly' = notifyOnly /\ (NotNotified \/ DropFrameState(waiting))
  BY <1>2 DEF LoseFrames, LoseBlocks, NotifyFrameLost
<1>3. PredictLoss => receiver = "idle" /\ notifyOnly' = notifyOnly /\ DropFrameState(waiting)
  BY DEF PredictLoss, NotifyFrameLost
<1> QED BY <1>1, <1>2, <1>3 DEF LossStep

LEMMA RecoveryKept ==
  ASSUME DepacketizerInv, Recovery, [Next]_vars
  PROVE  Recovery'
<1>0. /\ waiting \in Flags /\ (waiting.rfi => idrFrameProcessed)
      /\ waiting.next => Awaited(waiting)
  BY DropSteps DEF Recovery
<1>1. ASSUME NEW t \in HostSends, FirstPacket(t) PROVE Recovery'
  <2>1. receiver' = "decoding"
    BY <1>1 DEF FirstPacket
  <2> QED BY <1>0, <1>1, <2>1, FirstPacketEffect DEF Recovery
<1>2. CASE IgnoreFrame \/ OfferFrame \/ Decodable
  BY <1>0, <1>2 DEF IgnoreFrame, OfferFrame, Decodable, Submitted, Recovery, Awaited, flags, frames
<1>3. CASE CorruptPacket \/ PendingDrop \/ StillWaiting \/ QueueOverflow
  <2>1. receiver' = "idle"
    BY <1>3 DEF CorruptPacket, PendingDrop, StillWaiting, QueueOverflow
  <2>2. Awaited(waiting')
    BY <1>0, <1>3, DropSteps, DropEffect
  <2> QED BY <2>1, <2>2 DEF Recovery
<1>4. CASE SubmitDirectly \/ DecoderStep
  <2>1. receiver' = "idle" \/ receiver' = receiver
    BY <1>4 DEF SubmitDirectly, Submitted, DecoderStep, WaitForNextVideoFrame, CompleteVideoFrame,
       NeedIdr, FlushDecodeUnits, RequestRefresh, receiveSide, frames
  <2> QED BY <1>4, <2>1, RefreshEffect DEF Recovery, Awaited
<1>5. CASE LossStep
  <2>1. receiver' = "idle"
    BY <1>5, LossEffect DEF notifyOnly
  <2>2. CASE NotNotified
    BY <2>1, <2>2 DEF Recovery, NotNotified, flags
  <2>3. CASE DropFrameState(waiting)
    BY <1>0, <2>1, <2>3, DropEffect DEF Recovery
  <2> QED BY <1>5, <2>2, <2>3, LossEffect
<1>6. CASE UNCHANGED vars
  BY <1>6 DEF Recovery, Awaited, vars, flags, frames
<1> QED BY <1>1, <1>2, <1>3, <1>4, <1>5, <1>6 DEF Next, ReceiveStep

LEMMA DirectKept ==
  ASSUME DepacketizerInv, Direct, [Next]_vars
  PROVE  Direct'
<1> SUFFICES ASSUME directSubmit' PROVE Direct'
  BY DEF Direct
<1>0. /\ directSubmit' = directSubmit
      /\ waiting \in Flags /\ (waiting.rfi => idrFrameProcessed)
  <2>1. directSubmit' = directSubmit
    BY DEF Next, ReceiveStep, FirstPacket, IgnoreFrame, CorruptPacket, StillWaiting, PendingDrop,
       Decodable, OfferFrame, QueueOverflow, SubmitDirectly, Submitted, DecoderStep,
       WaitForNextVideoFrame, CompleteVideoFrame, NeedIdr, FlushDecodeUnits, RequestRefresh,
       receiveSide, LossStep, BeginFrame, BeginBlock, LoseFrames, LoseBlocks, PredictLoss,
       notifyOnly, setup, vars
  <2> QED BY <2>1, DropSteps
<1>00. /\ directSubmit /\ decoder = "idle" /\ decodeUnitQueue = <<>>
       /\ receiver = "submit" => ~Awaited(waiting)
       /\ refreshed => Awaited(waiting) \/ (receiver # "idle" /\ frameType # "P")
       /\ ~idrFrameProcessed => waiting.idr \/ (receiver # "idle" /\ frameType = "I")
  BY <1>0 DEF Direct
<1>1. ASSUME NEW t \in HostSends, FirstPacket(t) PROVE Direct'
  <2>1. /\ receiver = "idle" /\ receiver' = "decoding" /\ frameType' = t
        /\ UNCHANGED <<decoder, decodeUnitQueue, refreshed, idrFrameProcessed>>
    BY <1>1 DEF FirstPacket, dec
  <2> QED BY <1>00, <1>1, <2>1, FirstPacketEffect DEF Direct
<1>2. CASE IgnoreFrame \/ Decodable
  BY <1>00, <1>2 DEF IgnoreFrame, Decodable, Direct, Awaited, flags, frames, dec
<1>3. CASE CorruptPacket \/ PendingDrop \/ StillWaiting
  <2>1. receiver' = "idle" /\ UNCHANGED <<decoder, decodeUnitQueue, refreshed, idrFrameProcessed>>
    BY <1>3 DEF CorruptPacket, PendingDrop, StillWaiting, dec
  <2>2. Awaited(waiting') /\ (CannotRfi => waiting'.idr)
    BY <1>0, <1>3, DropSteps, DropEffect
  <2> QED BY <1>00, <2>1, <2>2 DEF Direct, CannotRfi
<1>4. CASE SubmitDirectly
  <2>1. /\ receiver = "submit" /\ receiver' = "idle" /\ frameType' = frameType
        /\ UNCHANGED <<decoder, decodeUnitQueue>>
        /\ \/ /\ idrFrameProcessed' = (idrFrameProcessed \/ frameType = "I")
              /\ ~refreshed' /\ waiting' = waiting
           \/ /\ waiting' = [waiting EXCEPT !.idr = TRUE]
              /\ idrFrameProcessed' = idrFrameProcessed
    BY <1>4 DEF SubmitDirectly, Submitted
  <2>2. waiting' = [waiting EXCEPT !.idr = TRUE] => waiting'.idr
    BY <1>0 DEF Flags
  <2> QED BY <1>00, <2>1, <2>2 DEF Direct, Awaited
<1>5. CASE LossStep
  <2>1. /\ receiver = "idle" /\ receiver' = "idle"
        /\ UNCHANGED <<decoder, decodeUnitQueue, refreshed, idrFrameProcessed>>
    BY <1>5, LossEffect DEF notifyOnly, dec
  <2>2. CASE NotNotified
    BY <1>00, <2>1, <2>2 DEF Direct, NotNotified, flags
  <2>3. CASE DropFrameState(waiting)
    BY <1>0, <1>00, <2>1, <2>3, DropEffect DEF Direct, CannotRfi
  <2> QED BY <1>5, <2>2, <2>3, LossEffect
<1>6. CASE UNCHANGED vars
  BY <1>6 DEF Direct, Awaited, vars, flags, frames, dec, setup
<1>7. ~OfferFrame /\ ~QueueOverflow /\ ~DecoderStep
  BY <1>00 DEF OfferFrame, QueueOverflow, DecoderStep, WaitForNextVideoFrame, CompleteVideoFrame,
     NeedIdr, FlushDecodeUnits, RequestRefresh
<1> QED BY <1>1, <1>2, <1>3, <1>4, <1>5, <1>6, <1>7 DEF Next, ReceiveStep

\* RFI, once usable, stays so.
LEMMA CannotRfiBefore ==
  ASSUME DepacketizerInv, [Next]_vars
  PROVE  CannotRfi' => CannotRfi
<1>1. strictIdrFrameWait' = strictIdrFrameWait
  BY DEF Next, ReceiveStep, FirstPacket, IgnoreFrame, CorruptPacket, StillWaiting, PendingDrop,
     Decodable, OfferFrame, QueueOverflow, SubmitDirectly, Submitted, DecoderStep,
     WaitForNextVideoFrame, CompleteVideoFrame, NeedIdr, FlushDecodeUnits, RequestRefresh,
     receiveSide, LossStep, BeginFrame, BeginBlock, LoseFrames, LoseBlocks, PredictLoss,
     notifyOnly, setup, vars
<1>2. idrFrameProcessed => idrFrameProcessed'
  BY DEF Next, ReceiveStep, FirstPacket, IgnoreFrame, CorruptPacket, StillWaiting, PendingDrop,
     Decodable, OfferFrame, QueueOverflow, SubmitDirectly, Submitted, DecoderStep,
     WaitForNextVideoFrame, CompleteVideoFrame, NeedIdr, FlushDecodeUnits, RequestRefresh,
     LossStep, BeginFrame, BeginBlock, LoseFrames, LoseBlocks, PredictLoss,
     notifyOnly, dec, vars
<1> QED BY <1>1, <1>2 DEF CannotRfi

\* IdrWait of the state after a step, from what CannotRfi meant before it.
LEMMA IdrWaitFrom ==
  ASSUME DepacketizerInv, [Next]_vars,
         CannotRfi => nextFrameNumber' <= current' /\ ~waiting'.rfi,
         receiver' = "decoding" /\ nextFrameNumber' = 1 => ~waiting'.idr,
         dropStatePending' =>
           asked' \/ nextFrameNumber' < current' \/ (receiver' = "decoding" /\ frameType' = "I"),
         ~predicted' /\ CannotRfi => IdrRequested'
  PROVE  IdrWait'
BY CannotRfiBefore DEF IdrWait, IdrIsOnItsWay, CannotRfi

LEMMA FirstPacketKeepsIdrWait ==
  ASSUME DepacketizerInv, IdrWait, NEW t \in HostSends, FirstPacket(t), [Next]_vars
  PROVE  IdrWait'
<1>1. /\ receiver' = "decoding" /\ nextFrameNumber' = current /\ frameType' = t
      /\ nextFrameNumber <= current
      /\ current' = current /\ decoder' = decoder /\ offered' = offered
      /\ asked' = (IF t = "I" THEN FALSE ELSE asked \/ (Gap /\ LimitReached))
      /\ predicted' = (predicted /\ t # "I")
  BY DEF FirstPacket, fec, dec
<1>2. current \in Nat /\ nextFrameNumber \in Nat
  BY DEF DepacketizerInv, TypeOK, FrameNumber
<1>3. /\ CannotRfi => ~waiting.rfi
      /\ dropStatePending => asked \/ nextFrameNumber < current
      /\ ~predicted /\ CannotRfi => IdrRequested
  BY DEF IdrWait, IdrIsOnItsWay, CannotRfi, FirstPacket
<1>4. CannotRfi => nextFrameNumber' <= current' /\ ~waiting'.rfi
  BY <1>1, <1>2, <1>3, FirstPacketEffect
<1>5. receiver' = "decoding" /\ nextFrameNumber' = 1 => ~waiting'.idr
  BY <1>1, FirstPacketEffect
<1>6. dropStatePending' =>
        asked' \/ nextFrameNumber' < current' \/ (receiver' = "decoding" /\ frameType' = "I")
  BY <1>1, <1>3, FirstPacketEffect DEF Gap
<1>7. ~predicted' /\ CannotRfi => IdrRequested'
  <2> SUFFICES ASSUME ~predicted', CannotRfi, waiting'.idr
               PROVE  \/ asked' \/ waiting'.next
                      \/ offered' = 0 /\ nextFrameNumber' = 1
                      \/ decoder' \in {"flushing", "requesting"}
    BY DEF IdrRequested
  <2>1. t # "I" /\ ~predicted /\ current # 1
    BY <1>1, FirstPacketEffect
  <2>2. CASE Gap
    BY <1>3, <2>1, <2>2, FirstPacketEffect
  <2>3. CASE ~Gap
    <3>1. waiting' = waiting
      BY <1>3, <2>1, <2>3, FirstPacketEffect
    <3>2. nextFrameNumber = current
      BY <1>1, <1>2, <2>3 DEF Gap
    <3>3. asked \/ waiting.next \/ decoder \in {"flushing", "requesting"}
      BY <1>2, <1>3, <2>1, <3>1, <3>2 DEF IdrRequested
    <3>4. asked => asked'
      BY <1>1, <2>1
    <3> QED BY <1>1, <3>1, <3>3, <3>4
  <2> QED BY <2>2, <2>3
<1> QED BY <1>4, <1>5, <1>6, <1>7, IdrWaitFrom

\* A frame that is dropped while an IDR frame is awaited: the request was made,
\* is made now, or is what the wait for the first frame stands for.
LEMMA DroppedFrameKeepsIdrWait ==
  ASSUME DepacketizerInv, IdrWait, [Next]_vars, CorruptPacket \/ PendingDrop \/ StillWaiting
  PROVE  IdrWait'
<1>0. /\ waiting \in Flags /\ (waiting.rfi => idrFrameProcessed)
      /\ current \in Nat /\ nextFrameNumber \in Nat
  BY DropSteps DEF DepacketizerInv, TypeOK, FrameNumber
<1>1. /\ receiver' = "idle" /\ current' = current + 1 /\ nextFrameNumber' = current + 1
      /\ decoder' = decoder /\ predicted' = predicted
  BY CompletionEffect DEF CorruptPacket, PendingDrop, StillWaiting, FrameDone, dec
<1>2. ~dropStatePending' /\ (CannotRfi => ~waiting'.rfi)
  BY <1>0, DropSteps, DropEffect DEF IdrWait
<1>3. ~predicted' /\ CannotRfi => IdrRequested'
  <2> SUFFICES ASSUME ~predicted, CannotRfi
               PROVE  asked' \/ decoder' \in {"flushing", "requesting"}
    BY <1>1 DEF IdrRequested
  <2>1. CASE CorruptPacket
    <3>1. Dropped(waiting).idr
      BY <1>0, <2>1, DropSteps, DropEffect DEF DropFrameState
    <3> QED BY <2>1, <3>1 DEF CorruptPacket
  <2>2. CASE PendingDrop
    <3>1. receiver = "decoding" /\ dropStatePending /\ frameType # "I" /\ (asked => asked')
      BY <2>2 DEF PendingDrop
    <3>2. nextFrameNumber = current
      BY <3>1 DEF DepacketizerInv, Consecutive
    <3> QED BY <1>0, <3>1, <3>2 DEF IdrWait
  <2>3. CASE StillWaiting
    <3>1. /\ receiver = "decoding" /\ (waiting.idr \/ waiting.rfi)
          /\ asked \/ (waiting.idr /\ waiting.next) => asked'
      BY <2>3 DEF StillWaiting
    <3>2. nextFrameNumber = current /\ waiting.idr
      BY <3>1 DEF DepacketizerInv, Consecutive, IdrWait
    <3>3. nextFrameNumber # 1 /\ IdrRequested
      BY <3>1, <3>2 DEF IdrWait, IdrIsOnItsWay, CannotRfi
    <3> QED BY <1>0, <1>1, <3>1, <3>2, <3>3 DEF IdrRequested
  <2> QED BY <2>1, <2>2, <2>3
<1> QED BY <1>0, <1>1, <1>2, <1>3, IdrWaitFrom

LEMMA SubmissionKeepsIdrWait ==
  ASSUME DepacketizerInv, IdrWait, [Next]_vars,
         Decodable \/ OfferFrame \/ QueueOverflow \/ SubmitDirectly
  PROVE  IdrWait'
<1>0. /\ waiting \in Flags /\ (waiting.rfi => idrFrameProcessed)
      /\ current \in Nat /\ nextFrameNumber \in Nat
  BY DropSteps DEF DepacketizerInv, TypeOK, FrameNumber
<1>1. CASE Decodable
  <2>1. /\ receiver' = "submit" /\ current' = current + 1 /\ nextFrameNumber' = current + 1
        /\ waiting' = waiting /\ ~waiting.idr /\ ~waiting.rfi /\ ~dropStatePending'
    BY <1>1, CompletionEffect DEF Decodable, FrameDone
  <2>2. IdrRequested'
    BY <2>1 DEF IdrRequested
  <2> QED BY <1>0, <2>1, <2>2, IdrWaitFrom
<1>2. CASE OfferFrame \/ QueueOverflow \/ SubmitDirectly
  <2>1. /\ receiver = "submit" /\ receiver' = "idle"
        /\ current' = current /\ nextFrameNumber' = nextFrameNumber
        /\ decoder' = decoder /\ predicted' = predicted
    BY <1>2 DEF OfferFrame, QueueOverflow, SubmitDirectly, Submitted, fec
  <2>2. nextFrameNumber = current /\ current > 1
    BY <2>1 DEF DepacketizerInv, Consecutive
  <2>3. CASE asked' /\ (CannotRfi => ~waiting'.rfi)
    <3>1. IdrRequested'
      BY <2>3 DEF IdrRequested
    <3> QED BY <1>0, <2>1, <2>2, <2>3, <3>1, IdrWaitFrom
  <2>4. CASE waiting' = waiting /\ asked' = asked /\ dropStatePending' = dropStatePending
    <3>1. /\ dropStatePending' => asked'
          /\ CannotRfi => nextFrameNumber' <= current' /\ ~waiting'.rfi
      BY <1>0, <2>1, <2>2, <2>4 DEF IdrWait
    <3>2. ~predicted' /\ CannotRfi => IdrRequested'
      BY <1>0, <2>1, <2>2, <2>4 DEF IdrWait, IdrIsOnItsWay, CannotRfi, IdrRequested
    <3> QED BY <2>1, <3>1, <3>2, IdrWaitFrom
  <2>5. \/ asked' /\ (CannotRfi => ~waiting'.rfi)
        \/ waiting' = waiting /\ asked' = asked /\ dropStatePending' = dropStatePending
    <3>1. CASE OfferFrame
      BY <3>1 DEF OfferFrame
    <3>2. CASE QueueOverflow
      BY <1>0, <3>2, DropSteps, DropEffect DEF IdrWait, QueueOverflow
    <3>3. CASE SubmitDirectly
      <4>1. asked' \/ (waiting' = waiting /\ asked' = asked /\ dropStatePending' = dropStatePending)
        BY <3>3 DEF SubmitDirectly
      <4> QED BY <3>3, <4>1, RefreshEffect DEF IdrWait
    <3> QED BY <1>2, <3>1, <3>2, <3>3
  <2> QED BY <2>3, <2>4, <2>5
<1> QED BY <1>1, <1>2

LEMMA DecoderKeepsIdrWait ==
  ASSUME DepacketizerInv, IdrWait, [Next]_vars, DecoderStep
  PROVE  IdrWait'
<1>0. /\ current \in Nat /\ nextFrameNumber \in Nat /\ offered \in Nat
      /\ waiting'.next = waiting.next /\ waiting'.rfi = waiting.rfi
  BY RefreshEffect DEF DepacketizerInv, TypeOK, FrameNumber
<1>1. /\ UNCHANGED <<current, nextFrameNumber, receiver, frameType, offered, predicted>>
      /\ asked => asked'
      /\ dropStatePending' = dropStatePending \/ asked'
      /\ decoder \in {"flushing", "requesting"} => decoder' \in {"flushing", "requesting"} \/ asked'
      /\ NeedIdr => decoder' = "flushing"
  BY DEF DecoderStep, WaitForNextVideoFrame, CompleteVideoFrame, NeedIdr, FlushDecodeUnits,
     RequestRefresh, receiveSide, fec, frames
<1>2. receiver = "decoding" => nextFrameNumber # 1
  <2>1. offered > 0
    BY <1>0 DEF DecoderStep, WaitForNextVideoFrame, CompleteVideoFrame, NeedIdr, FlushDecodeUnits,
       RequestRefresh, DepacketizerInv, WindowStart
  <2>2. startFrameNumber = offered + 1 /\ startFrameNumber <= current
    BY <2>1 DEF DepacketizerInv, WindowStart
  <2> QED BY <1>0, <2>1, <2>2 DEF DepacketizerInv, Consecutive
<1>3. waiting'.idr => waiting.idr \/ decoder' = "flushing"
  <2>1. ~SubmitDirectly \/ waiting' = waiting
    BY DEF SubmitDirectly, DecoderStep, WaitForNextVideoFrame, CompleteVideoFrame, NeedIdr,
       FlushDecodeUnits, RequestRefresh, DepacketizerInv, TypeOK, WindowStart, receiveSide, frames, Submitted
  <2> QED BY <1>1, <2>1, RefreshEffect
<1>4. ~predicted' /\ CannotRfi => IdrRequested'
  BY <1>0, <1>1, <1>3 DEF IdrWait, IdrIsOnItsWay, CannotRfi, IdrRequested
<1>5. dropStatePending' =>
        asked' \/ nextFrameNumber' < current' \/ (receiver' = "decoding" /\ frameType' = "I")
  BY <1>1 DEF IdrWait
<1>6. CannotRfi => nextFrameNumber' <= current' /\ ~waiting'.rfi
  BY <1>0, <1>1 DEF IdrWait
<1> QED BY <1>1, <1>2, <1>4, <1>5, <1>6, IdrWaitFrom

LEMMA LossKeepsIdrWait ==
  ASSUME DepacketizerInv, IdrWait, [Next]_vars, LossStep
  PROVE  IdrWait'
<1>0. /\ current \in Nat /\ nextFrameNumber \in Nat
      /\ waiting \in Flags /\ (waiting.rfi => idrFrameProcessed)
      /\ receiver = "idle" /\ receiver' = "idle"
      /\ offered' = offered /\ decoder' = decoder
  BY DropSteps, LossEffect DEF DepacketizerInv, TypeOK, FrameNumber, notifyOnly, dec
<1>1. CASE BeginFrame \/ BeginBlock
  <2>1. UNCHANGED <<current, nextFrameNumber, waiting, dropStatePending, asked, predicted>>
    BY <1>1 DEF BeginFrame, BeginBlock, Fec!FrameStarts, Fec!BlockStarts, flags
  <2> QED BY <1>0, <2>1, IdrWaitFrom DEF IdrWait, IdrIsOnItsWay, CannotRfi, IdrRequested
<1>2. ASSUME NEW f \in current..MaxFrame, LoseFrames(f) \/ LoseBlocks(f) PROVE IdrWait'
  <2>1. current' = f + 1 /\ f \in Int /\ current' > current /\ predicted' = predicted
    BY <1>0, <1>2, DepacketizerAssumption DEF LoseFrames, LoseBlocks, Fec!FramesLost, Fec!BlocksLost
  <2>2. asked /\ current' <= nextFrameNumber' => asked'
    BY <1>2, <2>1 DEF LoseFrames, LoseBlocks, AskedAfterLoss
  <2>3. nextFrameNumber' \in Int
    BY <1>2, <1>0, <2>1 DEF LoseFrames, LoseBlocks, NotNotified, NotifyFrameLost
  <2>4. CASE NotNotified
    <3>1. waiting' = waiting /\ dropStatePending' = dropStatePending /\ nextFrameNumber' = nextFrameNumber
      BY <2>4 DEF NotNotified, flags
    <3> QED BY <1>0, <2>1, <2>2, <3>1, IdrWaitFrom DEF IdrWait, IdrIsOnItsWay, CannotRfi, IdrRequested
  <2>5. CASE NotifyFrameLost(f) \/ NotifyFrameLost(current)
    <3>1. DropFrameState(waiting)
      BY <2>5 DEF NotifyFrameLost
    <3>2. ~dropStatePending' /\ (CannotRfi => waiting'.idr /\ ~waiting'.rfi)
      BY <1>0, <3>1, DropEffect DEF IdrWait
    <3>3. CannotRfi => Dropped(waiting).idr
      BY <3>1, <3>2 DEF DropFrameState
    <3>4. CannotRfi => nextFrameNumber' = nextFrameNumber
      BY <2>5, <3>3 DEF NotifyFrameLost
    <3>5. CannotRfi => nextFrameNumber' < current'
      BY <1>0, <2>1, <3>4 DEF IdrWait
    <3>6. CannotRfi => nextFrameNumber' <= current' /\ IdrRequested'
      BY <2>1, <2>3, <3>5 DEF IdrRequested
    <3> QED BY <1>0, <3>2, <3>6, IdrWaitFrom
  <2> QED BY <1>2, <2>4, <2>5 DEF LoseFrames, LoseBlocks
<1>3. CASE PredictLoss
  <2>1. NotifyFrameLost(current) /\ predicted' /\ current' = current
    BY <1>3 DEF PredictLoss, Fec!LossPredicted
  <2>2. DropFrameState(waiting)
    BY <2>1 DEF NotifyFrameLost
  <2>3. ~dropStatePending' /\ (CannotRfi => waiting'.idr /\ ~waiting'.rfi)
    BY <1>0, <2>2, DropEffect DEF IdrWait
  <2>4. CannotRfi => nextFrameNumber' = nextFrameNumber
    BY <2>1, <2>2, <2>3 DEF NotifyFrameLost, DropFrameState
  <2> QED BY <1>0, <2>1, <2>3, <2>4, IdrWaitFrom DEF IdrWait
<1> QED BY <1>1, <1>2, <1>3 DEF LossStep

LEMMA IdrWaitKept ==
  ASSUME DepacketizerInv, IdrWait, [Next]_vars
  PROVE  IdrWait'
<1>1. CASE IgnoreFrame
  <2>1. /\ UNCHANGED <<nextFrameNumber, receiver, waiting, dropStatePending, asked, predicted, offered, decoder>>
        /\ current' = current + 1 /\ current < nextFrameNumber /\ receiver = "idle"
    BY <1>1, CompletionEffect DEF IgnoreFrame, frames, flags, dec
  <2>2. current \in Nat /\ nextFrameNumber \in Nat
    BY DEF DepacketizerInv, TypeOK, FrameNumber
  <2>3. ~CannotRfi
    BY <2>1, <2>2 DEF IdrWait
  <2>4. dropStatePending' => asked'
    BY <2>1, <2>2 DEF IdrWait
  <2> QED BY <2>1, <2>3, <2>4, IdrWaitFrom
<1>2. CASE UNCHANGED vars
  BY <1>2 DEF IdrWait, IdrIsOnItsWay, IdrRequested, CannotRfi, vars, fec, frames, flags, dec, setup
<1> QED
  BY <1>1, <1>2, FirstPacketKeepsIdrWait, DroppedFrameKeepsIdrWait, SubmissionKeepsIdrWait,
     DecoderKeepsIdrWait, LossKeepsIdrWait DEF Next, ReceiveStep

-----------------------------------------------------------------------------
(***************************************************************************)
(* From the submission to the decoder.                                     *)
(***************************************************************************)
LEMMA SubmittedInOrder ==
  ASSUME DepacketizerInv, [Next]_vars, offered' # offered, frameType = "P"
  PROVE  offered' = offered + 1
<1>1. CASE OfferFrame \/ SubmitDirectly
  BY <1>1, DepacketizerAssumption
  DEF DepacketizerInv, Consecutive, OfferFrame, SubmitDirectly, Submitted, Frame, TypeOK, FrameNumber
<1>2. CASE ReceiveStep /\ ~(OfferFrame \/ SubmitDirectly)
  BY <1>2 DEF ReceiveStep, FirstPacket, IgnoreFrame, CorruptPacket, StillWaiting, PendingDrop,
     Decodable, QueueOverflow
<1>3. CASE DecoderStep
  BY <1>3 DEF DecoderStep, WaitForNextVideoFrame, CompleteVideoFrame, NeedIdr, FlushDecodeUnits,
     RequestRefresh, receiveSide
<1>4. CASE LossStep
  BY <1>4 DEF LossStep, BeginFrame, BeginBlock, LoseFrames, LoseBlocks, PredictLoss, notifyOnly
<1>5. CASE UNCHANGED vars
  BY <1>5 DEF vars
<1> QED BY <1>1, <1>2, <1>3, <1>4, <1>5 DEF Next

\* The number of the frame before the k-th of the queue, and of the last frame
\* held by the queue or, if it is empty, by the decoder.
HeldBefore(k) == IF k = 1 THEN handed.n ELSE decodeUnitQueue[k - 1].n
LastHeld == IF decodeUnitQueue = <<>> THEN handed.n ELSE decodeUnitQueue[Len(decodeUnitQueue)].n

QueueChained ==
  \A k \in 1..Len(decodeUnitQueue) :
    decodeUnitQueue[k].t = "P" /\ decodeUnitQueue[k].n > late =>
      decodeUnitQueue[k].n = HeldBefore(k) + 1

\* The frame in the making, or the next one, can be a P frame that is submitted.
MayGoOn ==
  \/ receiver = "submit" /\ frameType = "P" /\ Frame.n > late
  \/ receiver = "idle" /\ ~Awaited(waiting) /\ ~dropStatePending
  \/ receiver = "decoding" /\ frameType = "P" /\ ~Awaited(waiting) /\ ~dropStatePending

HeldInv ==
  /\ \A k \in 1..Len(decodeUnitQueue) : decodeUnitQueue[k].n <= offered
  /\ directSubmit => decoder = "idle" /\ decodeUnitQueue = <<>>
  /\ decoder # "requesting" => QueueChained /\ (MayGoOn => LastHeld = offered)

\* A step that leaves the queue and the decoder alone and begins nothing new.
LEMMA HeldFrom ==
  ASSUME HeldInv, UNCHANGED <<decodeUnitQueue, handed, late, offered, directSubmit>>,
         decoder' = decoder \/ (~directSubmit /\ decoder # "requesting"),
         decoder' # "requesting" => decoder # "requesting",
         MayGoOn' => MayGoOn
  PROVE  HeldInv'
BY DEF HeldInv, QueueChained, HeldBefore, LastHeld

\* What the queue holds.
LEMMA QueueOfFrames ==
  ASSUME DepacketizerInv
  PROVE  /\ decodeUnitQueue \in Seq(Frames) /\ Len(decodeUnitQueue) \in Nat
         /\ \A k \in 1..Len(decodeUnitQueue) :
              decodeUnitQueue[k] \in Frames /\ decodeUnitQueue[k].n \in Int
<1>1. decodeUnitQueue \in Seq(Frames)
  BY DEF DepacketizerInv, TypeOK
<1>2. \A f \in Frames : f.n \in Int
  BY DepacketizerAssumption DEF Frames
<1> QED BY <1>1, <1>2

LEMMA HeldInit == Init => HeldInv
BY DEF Init, NoFrame, HeldInv, QueueChained, LastHeld

\* A frame that is dropped is followed by no P frame.
LEMMA HeldDropped ==
  ASSUME DepacketizerInv, HeldInv, UNCHANGED <<dec, setup, offered>>, receiver' = "idle",
         \E w \in Flags : (w.rfi => idrFrameProcessed) /\ DropFrameState(w)
  PROVE  HeldInv'
<1>1. Awaited(waiting')
  BY DropEffect
<1> QED BY <1>1, HeldFrom DEF MayGoOn, dec, setup

\* A frame that is queued is the last one held.
LEMMA HeldOffered ==
  ASSUME DepacketizerInv, HeldInv, OfferFrame
  PROVE  HeldInv'
<1> DEFINE q == decodeUnitQueue
           L == Len(decodeUnitQueue)
<1>1. /\ q \in Seq(Frames) /\ L \in Nat /\ offered \in Nat /\ current \in Nat
      /\ Frame.n = current - 1 /\ Frame.t = frameType /\ Frame.n \in Int
  BY DEF DepacketizerInv, TypeOK, FrameNumber, Frame
<1>2. /\ q' = Append(q, Frame) /\ offered' = Frame.n /\ receiver = "submit" /\ receiver' = "idle"
      /\ ~directSubmit /\ directSubmit' = directSubmit
      /\ UNCHANGED <<handed, late, decoder>>
  BY DEF OfferFrame, Submitted, setup
<1>3. offered <= Frame.n /\ (frameType = "P" => Frame.n = offered + 1)
  BY <1>1, <1>2 DEF DepacketizerInv, TypeOK, FrameNumber, Consecutive, WindowStart
<1> HIDE DEF q
<1>4. /\ Len(q') = L + 1 /\ q'[L + 1] = Frame /\ q' # <<>>
      /\ \A k \in 1..L : q'[k] = q[k]
  BY <1>1, <1>2 DEF q
<1>5. /\ \A k \in 1..L : q[k].n \in Int /\ q[k].n <= offered
      /\ decoder # "requesting" => QueueChained /\ (MayGoOn => LastHeld = offered)
  BY <1>1, QueueOfFrames DEF HeldInv, q
<1>6. \A k \in 1..Len(q') : q'[k].n <= offered'
  <2>1. ASSUME NEW k \in 1..L PROVE q'[k].n <= offered'
    BY <1>1, <1>2, <1>3, <1>4, <1>5, <2>1
  <2> QED BY <1>1, <1>2, <1>4, <2>1
<1>7. LastHeld' = offered'
  BY <1>1, <1>2, <1>4 DEF LastHeld, q
<1>8. \A k \in 1..L : HeldBefore(k)' = HeldBefore(k)
  BY <1>1, <1>2, <1>4 DEF HeldBefore, q
<1>9. ASSUME NEW k, k = L + 1 PROVE HeldBefore(k)' = LastHeld
  <2>1. CASE q = <<>>
    <3>1. L = 0
      BY <2>1 DEF q
    <3> QED BY <1>2, <1>9, <2>1, <3>1 DEF HeldBefore, LastHeld, q
  <2>2. CASE q # <<>>
    <3>1. L \in 1..L /\ k # 1 /\ k - 1 = L
      BY <1>1, <1>9, <2>2 DEF q
    <3>2. HeldBefore(k)' = q'[k - 1].n
      BY <3>1 DEF HeldBefore, q
    <3>3. q'[L] = q[L]
      BY <1>4, <3>1
    <3> QED BY <2>2, <3>1, <3>2, <3>3 DEF LastHeld, q
  <2> QED BY <2>1, <2>2
<1>10. ASSUME decoder # "requesting" PROVE QueueChained'
  <2>1. ASSUME NEW k \in 1..L, q'[k].t = "P", q'[k].n > late' PROVE q'[k].n = HeldBefore(k)' + 1
    BY <1>2, <1>4, <1>5, <1>8, <1>10, <2>1 DEF QueueChained, q
  <2>2. ASSUME Frame.t = "P", Frame.n > late PROVE Frame.n = LastHeld + 1
    BY <1>1, <1>2, <1>3, <1>5, <1>10, <2>2 DEF MayGoOn
  <2>3. ASSUME NEW k \in 1..Len(q'), q'[k].t = "P", q'[k].n > late' PROVE q'[k].n = HeldBefore(k)' + 1
    <3>1. k \in 1..L \/ k = L + 1
      BY <1>1, <1>4
    <3>2. CASE k = L + 1
      <4>1. q'[k] = Frame /\ late' = late /\ HeldBefore(k)' = LastHeld
        BY <1>2, <1>4, <1>9, <3>2
      <4> QED BY <2>2, <2>3, <4>1
    <3> QED BY <2>1, <2>3, <3>1, <3>2
  <2> QED BY <2>3 DEF QueueChained, q
<1> QED BY <1>2, <1>6, <1>7, <1>10 DEF HeldInv, q

\* A frame completed at once is the last one held.
LEMMA HeldDirectly ==
  ASSUME DepacketizerInv, HeldInv, SubmitDirectly
  PROVE  HeldInv'
BY DEF DepacketizerInv, HeldInv, SubmitDirectly, Submitted, QueueChained, LastHeld, setup

\* The decoder takes the first frame of the queue.
LEMMA HeldTaken ==
  ASSUME DepacketizerInv, HeldInv, WaitForNextVideoFrame
  PROVE  /\ HeldInv'
         /\ handed'.t = "P" /\ handed'.n > late => handed'.n = handed.n + 1
<1> DEFINE q == decodeUnitQueue
           L == Len(decodeUnitQueue)
<1>1. /\ q \in Seq(Frames) /\ q # <<>> /\ q' = Tail(q) /\ handed' = Head(q)
      /\ decoder = "idle" /\ decoder' = "working"
      /\ UNCHANGED <<receiver, frameType, current, waiting, dropStatePending, offered, late, directSubmit>>
  BY DEF DepacketizerInv, TypeOK, WaitForNextVideoFrame, receiveSide, fec, frames, setup
<1>2. /\ L \in Nat \ {0} /\ Len(q') = L - 1 /\ handed' = q[1]
      /\ \A k \in 1..(L - 1) : q'[k] = q[k + 1]
  BY <1>1
<1> HIDE DEF q
<1>3. HeldBefore(1) = handed.n /\ \A k \in 1..(L - 1) : HeldBefore(k)' = HeldBefore(k + 1)
  <2>1. ASSUME NEW k \in 1..(L - 1) PROVE HeldBefore(k)' = HeldBefore(k + 1)
    <3>1. HeldBefore(k + 1) = q[k].n
      BY <1>2, <2>1 DEF HeldBefore, q
    <3>2. HeldBefore(k)' = IF k = 1 THEN handed'.n ELSE q'[k - 1].n
      BY DEF HeldBefore, q
    <3>3. CASE k = 1
      BY <1>2, <3>1, <3>2, <3>3
    <3>4. CASE k # 1
      <4>1. k - 1 \in 1..(L - 1) /\ (k - 1) + 1 = k
        BY <1>2, <2>1, <3>4
      <4>2. q'[k - 1] = q[k]
        BY <1>2, <4>1
      <4> QED BY <3>1, <3>2, <3>4, <4>2
    <3> QED BY <3>3, <3>4
  <2> QED BY <2>1 DEF HeldBefore
<1>4. QueueChained /\ 1 \in 1..L /\ (directSubmit => q = <<>>)
      /\ \A k \in 1..L : q[k].n <= offered
  BY <1>1, <1>2 DEF HeldInv, q
<1>5. QueueChained'
  BY <1>1, <1>2, <1>3, <1>4 DEF QueueChained, q
<1>6. LastHeld' = LastHeld
  <2>1. LastHeld = q[L].n
    BY <1>1 DEF LastHeld, q
  <2>2. LastHeld' = IF q' = <<>> THEN handed'.n ELSE q'[Len(q')].n
    BY DEF LastHeld, q
  <2>3. CASE L = 1
    <3>1. q' = <<>>
      BY <1>1, <1>2, <2>3 DEF q
    <3> QED BY <1>2, <2>1, <2>2, <2>3, <3>1
  <2>4. CASE L # 1
    <3>1. L - 1 \in 1..(L - 1) /\ (L - 1) + 1 = L
      BY <1>2, <2>4
    <3>2. q'[L - 1] = q[L]
      BY <1>2, <3>1
    <3>3. q' # <<>>
      BY <1>2, <3>1
    <3> QED BY <1>2, <2>1, <2>2, <3>2, <3>3
  <2> QED BY <2>3, <2>4
<1>7. MayGoOn' => MayGoOn
  BY <1>1 DEF MayGoOn, Frame
<1>8. handed'.t = "P" /\ handed'.n > late => handed'.n = handed.n + 1
  BY <1>2, <1>3, <1>4 DEF QueueChained, q
<1>9. HeldInv'
  BY <1>1, <1>2, <1>4, <1>5, <1>6, <1>7 DEF HeldInv, q
<1> QED BY <1>8, <1>9

LEMMA HeldKept ==
  ASSUME DepacketizerInv, HeldInv, [Next]_vars
  PROVE  HeldInv'
<1>0. waiting \in Flags /\ (waiting.rfi => idrFrameProcessed)
  BY DEF DepacketizerInv, TypeOK, Flags, WindowStart
<1>1. ASSUME NEW t \in HostSends, FirstPacket(t) PROVE HeldInv'
  <2>1. t = "P" /\ ~Awaited(waiting') => ~Awaited(waiting)
    BY <1>1, FirstPacketEffect
  <2>2. dropStatePending' \/ Awaited(waiting') \/ t # "P" \/ dropStatePending' = dropStatePending
    <3>1. CASE Gap
      <4>1. Awaited(waiting') \/ t # "P"
        <5> DEFINE w == [waiting EXCEPT !.next = TRUE]
        <5>1. w \in Flags /\ w.rfi = waiting.rfi
          BY <1>0, Zenon DEF Flags
        <5>2. waiting' = Recovered(Dropped(w), t)
          BY <1>1, <3>1 DEF FirstPacket
        <5> HIDE DEF w
        <5>3. Awaited(Dropped(w)) /\ Dropped(w) \in Flags
          BY <1>0, <5>1, DropWaits DEF DepacketizerInv
        <5>4. t = "P" => waiting' = Dropped(w)
          BY <5>2, <5>3, RecoveredFlags DEF HostSends, FrameType
        <5> QED BY <5>3, <5>4
      <4> QED BY <4>1
    <3>2. CASE ~Gap
      BY <1>1, <3>2 DEF FirstPacket
    <3> QED BY <3>1, <3>2
  <2>3. /\ UNCHANGED <<decodeUnitQueue, handed, late, offered, directSubmit, decoder>>
        /\ receiver = "idle" /\ receiver' = "decoding" /\ frameType' = t
    BY <1>1 DEF FirstPacket, dec, setup
  <2>4. MayGoOn' => MayGoOn
    BY <2>1, <2>2, <2>3 DEF MayGoOn
  <2> QED BY <2>3, <2>4, HeldFrom
<1>2. CASE IgnoreFrame
  <2>1. MayGoOn' => MayGoOn
    BY <1>2 DEF IgnoreFrame, MayGoOn, frames, flags
  <2> QED BY <1>2, <2>1, HeldFrom DEF IgnoreFrame, dec, setup
<1>3. CASE CorruptPacket \/ PendingDrop
  BY <1>0, <1>3, HeldDropped DEF CorruptPacket, PendingDrop
<1>4. CASE StillWaiting
  <2> DEFINE w == [waiting EXCEPT !.next = FALSE]
  <2>1. w \in Flags /\ w.rfi = waiting.rfi /\ DropFrameState(w)
    BY <1>0, <1>4, Zenon DEF Flags, StillWaiting
  <2> HIDE DEF w
  <2> QED BY <1>0, <1>4, <2>1, HeldDropped DEF StillWaiting
<1>5. CASE Decodable
  <2>1. MayGoOn' => MayGoOn
    BY <1>5 DEF Decodable, MayGoOn, Awaited
  <2> QED BY <1>5, <2>1, HeldFrom DEF Decodable, dec, setup
<1>6. CASE QueueOverflow
  <2> DEFINE w == [waiting EXCEPT !.idr = TRUE]
  <2>1. w \in Flags /\ w.rfi = waiting.rfi
    BY <1>0, Zenon DEF Flags
  <2>2. DropFrameState(w)
    BY <1>6 DEF QueueOverflow
  <2> HIDE DEF w
  <2>3. Awaited(waiting')
    BY <1>0, <2>1, <2>2, DropWaits, DropCount DEF DepacketizerInv
  <2> QED BY <1>6, <2>3 DEF QueueOverflow, HeldInv, QueueChained, MayGoOn, setup
<1>7. CASE CompleteVideoFrame \/ NeedIdr
  <2>1. /\ UNCHANGED <<decodeUnitQueue, handed, late, offered, directSubmit, receiver, frameType,
                       current, dropStatePending>>
        /\ ~directSubmit /\ decoder # "requesting" /\ decoder' # "requesting"
    BY <1>7 DEF CompleteVideoFrame, NeedIdr, receiveSide, fec, frames, setup, HeldInv
  <2>2. Awaited(waiting) => Awaited(waiting')
    BY <1>0, <1>7 DEF CompleteVideoFrame, NeedIdr, Awaited, Flags
  <2>3. MayGoOn' => MayGoOn
    BY <2>1, <2>2 DEF MayGoOn, Frame
  <2> QED BY <2>1, <2>3, HeldFrom
<1>8. CASE FlushDecodeUnits
  BY <1>8 DEF FlushDecodeUnits, HeldInv, receiveSide, setup
<1>9. CASE RequestRefresh
  <2>1. /\ UNCHANGED <<decodeUnitQueue, handed, offered, directSubmit, receiver, frameType, current>>
        /\ decoder = "requesting" /\ dropStatePending' /\ late' = PastChecks
    BY <1>9 DEF RequestRefresh, receiveSide, fec, frames, setup
  <2>2. /\ PastChecks \in Int /\ offered \in Int /\ offered <= PastChecks
        /\ receiver = "submit" => PastChecks = Frame.n
        /\ \A k \in 1..Len(decodeUnitQueue) : decodeUnitQueue[k].n \in Int
    <3>1. /\ offered \in Nat /\ current \in Nat /\ startFrameNumber \in Nat
          /\ startFrameNumber <= current /\ (offered > 0 => startFrameNumber = offered + 1)
          /\ receiver = "submit" => current > 1
      BY DEF DepacketizerInv, TypeOK, Consecutive, WindowStart, FrameNumber
    <3>2. Frame.n = current - 1
      BY DEF Frame
    <3>3. \A k \in 1..Len(decodeUnitQueue) : decodeUnitQueue[k].n \in Int
      BY QueueOfFrames
    <3> QED BY <3>1, <3>2, <3>3 DEF PastChecks
  <2>3. ~MayGoOn'
    BY <2>1, <2>2 DEF MayGoOn, Frame
  <2>4. QueueChained'
    BY <2>1, <2>2 DEF HeldInv, QueueChained
  <2> QED BY <2>1, <2>3, <2>4 DEF HeldInv
<1>10. CASE LossStep
  <2>1. receiver = "idle" /\ receiver' = "idle" /\ UNCHANGED <<dec, setup, offered>>
    BY <1>10, LossEffect DEF notifyOnly
  <2>2. UNCHANGED flags \/ DropFrameState(waiting)
    BY <1>10 DEF LossStep, BeginFrame, BeginBlock, LoseFrames, LoseBlocks, PredictLoss, NotNotified,
       NotifyFrameLost
  <2>3. CASE UNCHANGED flags
    <3>1. MayGoOn' => MayGoOn
      BY <2>1, <2>3 DEF MayGoOn, flags
    <3> QED BY <2>1, <3>1, HeldFrom DEF dec, setup
  <2> QED BY <1>0, <2>1, <2>2, <2>3, HeldDropped
<1>11. CASE UNCHANGED vars
  <2>1. MayGoOn' => MayGoOn
    BY <1>11 DEF MayGoOn, Frame, vars, fec, frames, flags, dec
  <2> QED BY <1>11, <2>1, HeldFrom DEF vars, dec, setup
<1> QED
  BY <1>1, <1>2, <1>3, <1>4, <1>5, <1>6, <1>7, <1>8, <1>9, <1>10, <1>11, HeldOffered, HeldDirectly,
     HeldTaken DEF Next, ReceiveStep, DecoderStep

\* What the decoder is handed next.
LEMMA HandedInOrder ==
  ASSUME DepacketizerInv, HeldInv, [Next]_vars,
         handed' # handed, handed'.t = "P", handed'.n > late
  PROVE  handed'.n = handed.n + 1
<1>1. CASE WaitForNextVideoFrame
  BY <1>1, HeldTaken
<1>2. CASE SubmitDirectly
  <2>1. /\ receiver = "submit" /\ directSubmit /\ handed' = Frame /\ Frame.t = frameType
        /\ Frame.n = current - 1
    BY <1>2 DEF SubmitDirectly, Frame
  <2>2. LastHeld = offered /\ LastHeld = handed.n
    BY <2>1 DEF HeldInv, MayGoOn, LastHeld
  <2>3. frameType = "P" => offered = current - 2 /\ current \in Int
    BY <2>1 DEF DepacketizerInv, TypeOK, Consecutive, FrameNumber
  <2> QED BY <2>1, <2>2, <2>3
<1>3. CASE CompleteVideoFrame \/ NeedIdr \/ FlushDecodeUnits \/ RequestRefresh \/ OfferFrame \/ QueueOverflow
  BY <1>3 DEF CompleteVideoFrame, NeedIdr, FlushDecodeUnits, RequestRefresh, OfferFrame, QueueOverflow
<1>4. ASSUME NEW t \in HostSends, FirstPacket(t) PROVE handed' = handed
  BY <1>4 DEF FirstPacket, dec
<1>5. CASE IgnoreFrame \/ CorruptPacket \/ StillWaiting \/ PendingDrop \/ Decodable
  BY <1>5 DEF IgnoreFrame, CorruptPacket, StillWaiting, PendingDrop, Decodable, dec
<1>6. CASE LossStep
  BY <1>6, LossEffect DEF notifyOnly, dec
<1>7. CASE UNCHANGED vars
  BY <1>7 DEF vars, dec
<1> QED BY <1>1, <1>2, <1>3, <1>4, <1>5, <1>6, <1>7 DEF Next, ReceiveStep, DecoderStep

-----------------------------------------------------------------------------
(***************************************************************************)
(* The theorems.                                                           *)
(***************************************************************************)
\* Types, the place of the last submitted frame and the start of the window
\* hold in every reachable state.
THEOREM DepacketizerInvariant == Spec => []DepacketizerInv
<1>1. ASSUME DepacketizerInv, [Next]_vars PROVE DepacketizerInv'
  <2>1. CASE ReceiveStep
    BY <1>1, <2>1, ReceiveStepKeepsInv
  <2>2. CASE DecoderStep
    BY <1>1, <2>2, DecoderStepKeepsInv
  <2>3. CASE LossStep
    BY <1>1, <2>3, LossStepKeepsInv
  <2>4. CASE UNCHANGED vars
    BY <1>1, <2>4, StutterKeepsInv
  <2> QED BY <1>1, <2>1, <2>2, <2>3, <2>4 DEF Next
<1> QED BY <1>1, InitHolds, PTL DEF Spec

\* The frames from their submission to the decoder: no refresh or overflow takes
\* away a frame whose successor is still handed over, but for what was past the
\* checks before the refresh was over.
THEOREM HeldInvariant == Spec => []HeldInv
BY HeldInit, HeldKept, DepacketizerInvariant, PTL DEF Spec

\* A plain P frame is only submitted right after the frame before it, and handed
\* over right after it, whatever was lost, corrupt, dropped, predicted or asked
\* for; but what was past the checks before a refresh was over may follow a hole.
THEOREM NoHoleBeforeP == Spec => NoGapBeforeP
<1>1. DepacketizerInv /\ HeldInv /\ [Next]_vars =>
        /\ offered' # offered /\ frameType = "P" => offered' = offered + 1
        /\ handed' # handed /\ handed'.t = "P" /\ handed'.n > late => handed'.n = handed.n + 1
  BY SubmittedInOrder, HandedInOrder
<1> QED BY <1>1, DepacketizerInvariant, HeldInvariant, PTL DEF Spec, NoGapBeforeP

\* Every window given to connectionDetectedFrameLoss() starts right after the
\* last submitted frame and is not empty: notifyFrameLost's "We may not
\* invalidate frames that we've already received", and none is left out.
THEOREM WindowsAreExact == Spec => RfiWindowExact
<1>1. ASSUME DepacketizerInv, [Next]_vars
      PROVE  rfi' # rfi => rfi'[1] = offered + 1 /\ rfi'[1] <= rfi'[2]
  <2>0. /\ waiting \in Flags
        /\ waiting.rfi => idrFrameProcessed
        /\ idrFrameProcessed => startFrameNumber = offered + 1
        /\ startFrameNumber <= current /\ current \in Nat
    BY <1>1, DepacketizerAssumption DEF DepacketizerInv, TypeOK, WindowStart, Flags, FrameNumber
  <2>1. ASSUME NEW f \in current..MaxFrame, NotifyFrameLost(f), rfi' # rfi
        PROVE  rfi'[1] = offered + 1 /\ rfi'[1] <= rfi'[2]
    <3>1. rfi' = <<startFrameNumber, f>> /\ ~Dropped(waiting).idr
      BY <2>1 DEF NotifyFrameLost
    <3>2. idrFrameProcessed
      BY <1>1, <2>0, <3>1, DropWaits DEF DepacketizerInv, Awaited
    <3> QED BY <1>1, <2>0, <3>1, <3>2 DEF DepacketizerInv, TypeOK
  <2>2. CASE LossStep
    <3>1. ASSUME NEW f \in current..MaxFrame, LoseFrames(f) \/ LoseBlocks(f), rfi' # rfi
          PROVE  rfi'[1] = offered + 1 /\ rfi'[1] <= rfi'[2]
      <4>1. NotifyFrameLost(f) \/ NotifyFrameLost(current)
        BY <3>1 DEF LoseFrames, LoseBlocks, NotNotified
      <4>2. current \in current..MaxFrame
        BY <2>0, DepacketizerAssumption
      <4> QED BY <2>1, <3>1, <4>1, <4>2
    <3>2. CASE PredictLoss
      <4>1. NotifyFrameLost(current) /\ current \in current..MaxFrame
        BY <1>1, <3>2, DepacketizerAssumption DEF PredictLoss, Fec!LossPredicted, DepacketizerInv, TypeOK, FrameNumber
      <4> QED BY <2>1, <4>1
    <3>3. CASE BeginFrame \/ BeginBlock
      BY <3>3 DEF BeginFrame, BeginBlock
    <3> QED BY <2>2, <3>1, <3>2, <3>3 DEF LossStep
  <2>3. CASE CorruptPacket
    <3>1. CASE rfi' = rfi
      BY <3>1
    <3>2. CASE rfi' = <<startFrameNumber, current>> /\ ~Dropped(waiting).idr
      <4>1. idrFrameProcessed
        BY <1>1, <2>0, <3>2, DropWaits DEF DepacketizerInv, Awaited
      <4> QED BY <2>0, <3>2, <4>1
    <3> QED BY <2>3, <3>1, <3>2 DEF CorruptPacket
  <2>4. CASE StillWaiting
    BY <2>0, <2>4 DEF StillWaiting
  <2>5. CASE ReceiveStep /\ ~CorruptPacket /\ ~StillWaiting
    BY <2>5 DEF ReceiveStep, FirstPacket, IgnoreFrame, PendingDrop, Decodable, OfferFrame,
       QueueOverflow, SubmitDirectly, Submitted
  <2>6. CASE DecoderStep
    BY <2>6 DEF DecoderStep, WaitForNextVideoFrame, CompleteVideoFrame, NeedIdr, FlushDecodeUnits,
       RequestRefresh, receiveSide
  <2>7. CASE UNCHANGED vars
    BY <2>7 DEF vars
  <2> QED BY <1>1, <2>2, <2>3, <2>4, <2>5, <2>6, <2>7 DEF Next
<1> QED BY <1>1, DepacketizerInvariant, PTL DEF Spec, RfiWindowExact

\* What is awaited, and that it is on its way, in every reachable state.
THEOREM WaitsInvariant == Spec => [](Recovery /\ IdrWait /\ Direct)
<1>1. Init => Recovery /\ IdrWait /\ Direct
  <2> SUFFICES ASSUME Init PROVE Recovery /\ IdrWait /\ Direct
    OBVIOUS
  <2>1. /\ waiting.idr /\ ~waiting.rfi /\ ~waiting.next /\ receiver = "idle"
        /\ nextFrameNumber = 1 /\ current = 1 /\ offered = 0
        /\ decoder = "idle" /\ decodeUnitQueue = <<>> /\ ~refreshed /\ ~dropStatePending
    BY DEF Init, Fec!Init
  <2>2. IdrRequested
    BY <2>1 DEF IdrRequested
  <2>3. IdrWait
    BY <2>1, <2>2 DEF IdrWait, IdrIsOnItsWay
  <2>4. Recovery /\ Direct
    BY <2>1 DEF Recovery, Direct, Awaited
  <2> QED BY <2>3, <2>4
<1>2. DepacketizerInv /\ Recovery /\ [Next]_vars => Recovery'
  BY RecoveryKept
<1>3. DepacketizerInv /\ IdrWait /\ [Next]_vars => IdrWait'
  BY IdrWaitKept
<1>4. DepacketizerInv /\ Direct /\ [Next]_vars => Direct'
  BY DirectKept
<1> QED BY <1>1, <1>2, <1>3, <1>4, DepacketizerInvariant, PTL DEF Spec

\* When a frame is about to be submitted no wait is left over: the assertion
\* !waitingForNextSuccessfulFrame before reassembleFrame() cannot fail.
THEOREM NoWaitLeft == Spec => []RecoveryIsOver
<1>1. Recovery => RecoveryIsOver
  BY DEF Recovery, RecoveryIsOver
<1> QED BY <1>1, WaitsInvariant, PTL

\* While RFI cannot be used and no loss was predicted, an awaited IDR frame was
\* asked for, or will be at the next gap or complete frame: no order of losses,
\* overflows and refreshes leaves requestIdrOnDemand() uncalled.
THEOREM AwaitedIdrIsRequested == Spec => []IdrIsOnItsWay
<1>1. IdrWait => IdrIsOnItsWay
  BY DEF IdrWait
<1> QED BY <1>1, WaitsInvariant, PTL

\* A frame is handed to a decoder on the receive thread only by the submission
\* of the frame in the making.
LEMMA HandedDirectly ==
  ASSUME Direct, directSubmit, [Next]_vars, handed' # handed \/ (refreshed /\ ~refreshed')
  PROVE  /\ SubmitDirectly /\ receiver = "submit" /\ ~Awaited(waiting)
         /\ handed'.t = frameType
<1>1. ~OfferFrame /\ ~QueueOverflow /\ ~DecoderStep
  BY DEF OfferFrame, QueueOverflow, DecoderStep, WaitForNextVideoFrame, CompleteVideoFrame,
     NeedIdr, FlushDecodeUnits, RequestRefresh, Direct
<1>2. ~LossStep /\ ~UNCHANGED vars
  BY DEF LossStep, BeginFrame, BeginBlock, LoseFrames, LoseBlocks, PredictLoss, notifyOnly, dec, vars
<1>3. ReceiveStep /\ ~SubmitDirectly => OfferFrame \/ QueueOverflow
  <2>1. ASSUME NEW t \in HostSends, FirstPacket(t) PROVE dec' = dec
    BY <2>1 DEF FirstPacket
  <2>2. IgnoreFrame \/ CorruptPacket \/ StillWaiting \/ PendingDrop \/ Decodable => dec' = dec
    BY DEF IgnoreFrame, CorruptPacket, StillWaiting, PendingDrop, Decodable
  <2>3. dec' # dec
    BY DEF dec
  <2> QED BY <2>1, <2>2, <2>3 DEF ReceiveStep
<1>4. SubmitDirectly
  BY <1>1, <1>2, <1>3 DEF Next
<1> QED BY <1>4 DEF SubmitDirectly, Frame, Direct

\* After requestDecoderRefresh() by a decoder on the receive thread the next
\* frame it is handed is no plain P frame.
THEOREM NoPAfterRefresh == Spec => RefreshThenNoP
<1>1. Direct /\ [Next]_vars => (directSubmit /\ refreshed /\ ~refreshed' => handed'.t # "P")
  BY HandedDirectly DEF Direct
<1> QED BY <1>1, WaitsInvariant, PTL DEF Spec, RefreshThenNoP

\* A decoder on the receive thread is handed nothing but IDR frames until it has
\* decoded one: the assertion of validateDecodeUnitForPlayback() cannot fail.
THEOREM IdrComesFirst == Spec => IdrBeforeP
<1>1. Direct /\ [Next]_vars =>
        (directSubmit /\ handed' # handed /\ handed'.t # "I" => idrFrameProcessed)
  BY HandedDirectly DEF Direct, Awaited
<1> QED BY <1>1, WaitsInvariant, PTL DEF Spec, IdrBeforeP
=============================================================================
