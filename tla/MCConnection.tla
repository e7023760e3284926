--------------------------- MODULE MCConnection -----------------------------
(***************************************************************************)
(* Connection with two workers of the control stream (receive and loss     *)
(* statistics threads) and one of the video stream.                        *)
(***************************************************************************)
EXTENDS Connection, TLC

CONSTANTS controlRecv, lossStats, videoRecv

MCWorker == {controlRecv, lossStats, videoRecv}
MCOwnerStage == (controlRecv :> 8) @@ (lossStats :> 8) @@ (videoRecv :> 9)
=============================================================================
