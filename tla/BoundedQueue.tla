--------------------------- MODULE BoundedQueue ----------------------------
(***************************************************************************)
(* What a queue of the streaming core promises its users, without mutex,   *)
(* condition variable or links: a bounded FIFO of entries that closes in   *)
(* one of two ways (shutdown: nothing more comes out; draining: nothing    *)
(* more goes in).  Each step is one call returning, and returned holds the *)
(* result of each thread's last call.  LinkedBlockingQueue implements it.  *)
(***************************************************************************)
EXTENDS Integers, Sequences

CONSTANTS Producer, Consumer, Entry, SizeBound, NULL

VARIABLES items, shutdown, draining, returned

vars == <<items, shutdown, draining, returned>>

Thread == Producer \cup {Consumer}
Result(st, e) == [status |-> st, entry |-> e]
Returns(t, st, e) == returned' = [returned EXCEPT ![t] = Result(st, e)]
Keep == UNCHANGED <<items, shutdown, draining>>

Init ==
  /\ items = <<>>
  /\ shutdown = FALSE /\ draining = FALSE
  /\ returned = [t \in Thread |-> Result("SUCCESS", NULL)]

Accept(p, e) ==
  /\ ~shutdown /\ ~draining
  /\ Len(items) < SizeBound
  /\ \A i \in DOMAIN items : items[i] # e
  /\ items' = Append(items, e)
  /\ Returns(p, "SUCCESS", NULL)
  /\ UNCHANGED <<shutdown, draining>>

Refuse(p) ==
  /\ Keep
  /\ \/ (shutdown \/ draining) /\ Returns(p, "INTERRUPTED", NULL)
     \/ ~shutdown /\ ~draining /\ Len(items) = SizeBound
        /\ Returns(p, "BOUND_EXCEEDED", NULL)

\* The oldest entry comes out, to the consumer, and never after a shutdown.
Take ==
  /\ ~shutdown /\ items # <<>>
  /\ items' = Tail(items)
  /\ Returns(Consumer, "SUCCESS", items[1])
  /\ UNCHANGED <<shutdown, draining>>

Look ==
  /\ ~shutdown /\ items # <<>>
  /\ Returns(Consumer, "SUCCESS", items[1])
  /\ Keep

NothingToTake ==
  /\ Keep
  /\ \/ (shutdown \/ (draining /\ items = <<>>)) /\ Returns(Consumer, "INTERRUPTED", NULL)
     \/ ~shutdown /\ ~draining /\ items = <<>> /\ Returns(Consumer, "NO_ELEMENT", NULL)
     \/ ~shutdown /\ Returns(Consumer, "USER_WAKE", NULL)

First == IF items = <<>> THEN NULL ELSE items[1]

\* Everything comes out at once, as a chain that starts at the oldest entry.
Flush(t) ==
  /\ items' = <<>>
  /\ Returns(t, "SUCCESS", First)
  /\ UNCHANGED <<shutdown, draining>>

Close ==
  /\ \/ shutdown' = TRUE /\ UNCHANGED draining
     \/ draining' = TRUE /\ UNCHANGED shutdown
  /\ UNCHANGED <<items, returned>>

\* The rest of a closed, or never used, queue goes back to its owner.
Dispose(p) == Returns(p, "SUCCESS", First) /\ Keep

Reopen ==
  /\ items' = <<>>
  /\ shutdown' = FALSE /\ draining' = FALSE
  /\ returned' = [t \in Thread |-> Result("SUCCESS", NULL)]

Next ==
  \/ \E p \in Producer : \/ \E e \in Entry : Accept(p, e)
                         \/ Refuse(p)
                         \/ Dispose(p)
  \/ \E t \in Thread : Flush(t)
  \/ Take \/ Look \/ NothingToTake \/ Close \/ Reopen

Spec == Init /\ [][Next]_vars
=============================================================================
