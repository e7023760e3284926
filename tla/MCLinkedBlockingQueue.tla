----------------------- MODULE MCLinkedBlockingQueue ------------------------
(***************************************************************************)
(* Small instances of LinkedBlockingQueue: two producers, three entries    *)
(* and a bound of two, so that full, empty and one-element lists, a stale  *)
(* flink and two signals on their way at once all occur.                   *)
(***************************************************************************)
EXTENDS LinkedBlockingQueue, TLC

CONSTANTS p1, p2, e1, e2, e3, worker

MCProducer == {p1, p2}
MCEntry == {e1, e2, e3}
MCFlusher == {p1, worker}
MCWaker == {p2}
=============================================================================
