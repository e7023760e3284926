--------------------------- MODULE FrameDelivery ----------------------------
(***************************************************************************)
(* What the video FEC queue promises the depacketizer.                     *)
(*                                                                         *)
(* Frames come one after the other: a frame starts, and either completes   *)
(* or is given up because a later frame, or a later block of it, arrived   *)
(* first.  A loss is reported at most once per frame; whole frames lost in *)
(* a row are covered by one report, of the last of them.  A loss may be    *)
(* predicted: a frame is reported lost while its packets still arrive, and *)
(* may complete all the same.                                              *)
(***************************************************************************)
EXTENDS Integers

CONSTANT
  MaxFrame      \* bound: frames the host sends

VARIABLES
  current,      \* the frame that starts or completes next
  begun,        \* packets of it were accepted
  reported,     \* it, or a frame given up before it, was reported lost
  lost          \* the frame that was reported last

delivery == <<current, begun, reported, lost>>

FrameStarts ==
  /\ ~begun /\ current <= MaxFrame
  /\ begun' = TRUE /\ reported' = FALSE
  /\ UNCHANGED <<current, lost>>

\* A later block of the frame starts: an earlier report is forgotten.
BlockStarts ==
  /\ begun /\ reported
  /\ reported' = FALSE
  /\ UNCHANGED <<current, begun, lost>>

FrameCompletes ==
  /\ begun
  /\ current' = current + 1 /\ begun' = FALSE
  /\ UNCHANGED <<reported, lost>>

\* Whether losing frames up to f is reported: a report that is still standing is
\* taken for one of the frame before f+1.
LossReported(f) == ~(f = current /\ reported)

\* Frame f+1 starts before current..f are complete.
FramesLost(f) ==
  /\ f \in current..(MaxFrame - 1)
  /\ lost' = IF LossReported(f) THEN f ELSE lost
  /\ current' = f + 1 /\ begun' = TRUE /\ reported' = FALSE

\* A block of frame f came without the ones before it: f is given up, and so are
\* the frames before it, but only the current one is reported.
BlocksLost(f) ==
  /\ f \in current..MaxFrame
  /\ lost' = IF reported THEN lost ELSE current
  /\ current' = f + 1 /\ begun' = FALSE /\ reported' = TRUE

LossPredicted ==
  /\ begun /\ ~reported
  /\ lost' = current /\ reported' = TRUE
  /\ UNCHANGED <<current, begun>>

Init == current = 1 /\ begun = FALSE /\ reported = FALSE /\ lost = 0

Next ==
  \/ FrameStarts \/ BlockStarts \/ FrameCompletes \/ LossPredicted
  \/ \E f \in current..MaxFrame : FramesLost(f) \/ BlocksLost(f)

Spec == Init /\ [][Next]_delivery
=============================================================================
