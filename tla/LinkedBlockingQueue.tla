------------------------ MODULE LinkedBlockingQueue ------------------------
(***************************************************************************)
(* LinkedBlockingQueue.c: the mutex/condition-variable queue every worker  *)
(* thread of the streaming core waits on (decode units, audio packets,     *)
(* input packets, control callbacks, reference frame invalidations).       *)
(*                                                                         *)
(* The list is kept as the code keeps it: head, tail and one flink per     *)
(* entry; blink is written but never read and is left out.  A critical     *)
(* section is one step; PltSignalConditionVariable is called after the     *)
(* unlock, so it is a step of its own (pc = "signal") and any other thread *)
(* may run in between.  The only thread that ever calls the waiting        *)
(* function is Consumer: each queue of the code has one such thread.       *)
(*                                                                         *)
(* items is a history variable: the accepted entries that are still in the *)
(* list, in the order of their acceptance.  No guard reads it.             *)
(***************************************************************************)
EXTENDS Integers, Sequences

CONSTANTS
  Producer,   \* threads that offer, signal or flush
  Consumer,   \* the thread that waits, polls and peeks
  Entry,      \* LINKED_BLOCKING_QUEUE_ENTRY objects
  SizeBound,  \* sizeBound given to LbqInitializeLinkedBlockingQueue
  Flusher,    \* the threads that call LbqFlushQueueItems on this queue
  Waker,      \* the threads that call LbqSignalQueueUserWake on this queue
  NULL

ASSUME ThreadAssumption == Consumer \notin Producer
ASSUME EntryAssumption == NULL \notin Entry
ASSUME BoundAssumption == SizeBound \in Nat \ {0}

ASSUME FlusherAssumption == Flusher \subseteq Producer \cup {Consumer}

VARIABLES
  head, tail, flink,                   \* the list
  currentSize,
  lifetimeUsed,                        \* lifetimeSize # 0
  shutdown, draining, pendingUserWake,
  live,                                \* between Initialize and Destroy
  pc,                                  \* where each thread stands
  ret,                                 \* what each thread's last call returned
  peeked,                              \* the entry Consumer last peeked at
  items                                \* history: the queue's content

list  == <<head, tail, flink, currentSize, lifetimeUsed, items>>
flags == <<shutdown, draining, pendingUserWake>>
vars  == <<list, flags, live, pc, ret, peeked>>

Thread == Producer \cup {Consumer}
Status == {"SUCCESS", "INTERRUPTED", "BOUND_EXCEEDED", "NO_ELEMENT", "USER_WAKE"}
Return(st, e) == [status |-> st, entry |-> e]

(***************************************************************************)
(* Small steps the operations share.                                       *)
(***************************************************************************)
Goto(t, l) == pc' = [pc EXCEPT ![t] = l]
Returns(t, st, e) == ret' = [ret EXCEPT ![t] = Return(st, e)]

\* A call starts only from an idle thread and only on an existing queue.
Calls(t) == live /\ pc[t] = "idle"

\* The four conditions of the waiting loop.
WakeCondition == head # NULL \/ draining \/ shutdown \/ pendingUserWake

\* Unlink the head entry and return it, the tail of the two removing calls.
Pop(t) ==
  /\ head' = flink[head]
  /\ tail' = IF flink[head] = NULL THEN NULL ELSE tail
  /\ currentSize' = currentSize - 1
  /\ items' = Tail(items)
  /\ Returns(t, "SUCCESS", head)
  /\ UNCHANGED <<flink, lifetimeUsed>>

NotPopped(t, st) == Returns(t, st, NULL) /\ UNCHANGED list

(***************************************************************************)
(* Producers.                                                              *)
(***************************************************************************)
Empty(e) == head' = e /\ tail' = e /\ flink' = [flink EXCEPT ![e] = NULL]

MutLink(e) ==
  /\ head' = e
  /\ tail' = tail
  /\ flink' = [flink EXCEPT ![e] = head]

Link(e) ==
  /\ head' = head
  /\ tail' = e
  /\ flink' = [flink EXCEPT ![e] = NULL, ![tail] = e]

\* The caller owns the entry it offers, so it is in no list.
Offer(p, e) ==
  /\ Calls(p)
  /\ \A i \in DOMAIN items : items[i] # e
  /\ \/ /\ shutdown \/ draining
        /\ NotPopped(p, "INTERRUPTED")
        /\ UNCHANGED pc
     \/ /\ ~(shutdown \/ draining)
        /\ currentSize = SizeBound
        /\ NotPopped(p, "BOUND_EXCEEDED")
        /\ UNCHANGED pc
     \/ /\ ~(shutdown \/ draining)
        /\ currentSize # SizeBound
        /\ IF head = NULL THEN Empty(e) ELSE Link(e)
        /\ currentSize' = currentSize + 1
        /\ lifetimeUsed' = TRUE
        /\ items' = Append(items, e)
        /\ Returns(p, "SUCCESS", NULL)
        /\ Goto(p, IF head = NULL THEN "signal" ELSE "idle")
  /\ UNCHANGED <<flags, live, peeked>>

SignalQueueShutdown(p) ==
  /\ Calls(p)
  /\ shutdown' = TRUE
  /\ Goto(p, "signal")
  /\ UNCHANGED <<list, draining, pendingUserWake, live, ret, peeked>>

MutSignalQueueDrain(p) ==
  /\ Calls(p)
  /\ draining' = TRUE
  /\ UNCHANGED <<list, shutdown, pendingUserWake, live, pc, ret, peeked>>

SignalQueueDrain(p) ==
  /\ Calls(p)
  /\ draining' = TRUE
  /\ Goto(p, "signal")
  /\ UNCHANGED <<list, shutdown, pendingUserWake, live, ret, peeked>>

SignalQueueUserWake(p) ==
  /\ Calls(p)
  /\ p \in Waker
  /\ pendingUserWake' = TRUE
  /\ Goto(p, "signal")
  /\ UNCHANGED <<list, shutdown, draining, live, ret, peeked>>

\* PltSignalConditionVariable, after the unlock: it wakes the blocked thread,
\* and is forgotten when no thread is blocked.
SignalConditionVariable(p) ==
  /\ pc[p] = "signal"
  /\ pc' = [pc EXCEPT ![p] = "idle",
                      ![Consumer] = IF @ = "blocked" THEN "woken" ELSE @]
  /\ UNCHANGED <<list, flags, live, ret, peeked>>

\* Peeking "must be synchronized with LbqFlushQueueItems by the caller": after a
\* flush the consumer looks again.
FlushQueueItems(t) ==
  /\ Calls(t)
  /\ t \in Flusher
  /\ head' = NULL /\ tail' = NULL /\ currentSize' = 0 /\ items' = <<>>
  /\ Returns(t, "SUCCESS", head)
  /\ peeked' = NULL
  /\ UNCHANGED <<flink, lifetimeUsed, flags, live, pc>>

(***************************************************************************)
(* The consumer.                                                           *)
(***************************************************************************)
MutAfterWait(c) ==
  \/ /\ shutdown \/ draining
     /\ NotPopped(c, "INTERRUPTED")
     /\ UNCHANGED pendingUserWake
  \/ /\ ~shutdown /\ ~draining /\ pendingUserWake
     /\ pendingUserWake' = FALSE
     /\ NotPopped(c, "USER_WAKE")
  \/ /\ ~shutdown /\ ~draining /\ ~pendingUserWake /\ head # NULL
     /\ Pop(c)
     /\ UNCHANGED pendingUserWake

\* What follows the waiting loop, still under the mutex.
AfterWait(c) ==
  \/ /\ shutdown
     /\ NotPopped(c, "INTERRUPTED")
     /\ UNCHANGED pendingUserWake
  \/ /\ ~shutdown /\ pendingUserWake
     /\ pendingUserWake' = FALSE
     /\ NotPopped(c, "USER_WAKE")
  \/ /\ ~shutdown /\ ~pendingUserWake /\ draining /\ head = NULL
     /\ NotPopped(c, "INTERRUPTED")
     /\ UNCHANGED pendingUserWake
  \/ /\ ~shutdown /\ ~pendingUserWake /\ head # NULL
     /\ Pop(c)
     /\ UNCHANGED pendingUserWake

\* Entering the call, or coming back from the condition variable with the
\* mutex held again: evaluate the loop condition, then block or return.
WaitForQueueElement(c) ==
  /\ Calls(c) \/ pc[c] = "woken"
  /\ \/ /\ ~WakeCondition
        /\ Goto(c, "blocked")
        /\ UNCHANGED <<list, flags, ret, peeked>>
     \/ /\ WakeCondition
        /\ AfterWait(c)
        /\ Goto(c, "idle")
        /\ peeked' = NULL
        /\ UNCHANGED <<shutdown, draining>>
  /\ UNCHANGED live

\* pthread_cond_wait may return without a signal.
SpuriousWakeup(c) ==
  /\ pc[c] = "blocked"
  /\ Goto(c, "woken")
  /\ UNCHANGED <<list, flags, live, ret, peeked>>

EmptyStatus == IF draining THEN "INTERRUPTED" ELSE "NO_ELEMENT"

MutPollQueueElement(c) ==
  /\ Calls(c)
  /\ \/ head = NULL /\ NotPopped(c, EmptyStatus)
     \/ head # NULL /\ Pop(c)
  /\ peeked' = NULL
  /\ UNCHANGED <<flags, live, pc>>

PollQueueElement(c) ==
  /\ Calls(c)
  /\ \/ shutdown /\ NotPopped(c, "INTERRUPTED")
     \/ ~shutdown /\ head = NULL /\ NotPopped(c, EmptyStatus)
     \/ ~shutdown /\ head # NULL /\ Pop(c)
  /\ peeked' = NULL
  /\ UNCHANGED <<flags, live, pc>>

PeekQueueElement(c) ==
  /\ Calls(c)
  /\ \/ shutdown /\ Returns(c, "INTERRUPTED", NULL) /\ peeked' = NULL
     \/ ~shutdown /\ head = NULL /\ Returns(c, EmptyStatus, NULL) /\ peeked' = NULL
     \/ ~shutdown /\ head # NULL /\ Returns(c, "SUCCESS", head) /\ peeked' = head
  /\ UNCHANGED <<list, flags, live, pc>>

(***************************************************************************)
(* Lifetime.  The queue is destroyed once its threads have been joined,    *)
(* and the callers owe it the assertion of the destroy function.  A later  *)
(* connection initialises it again (memset of the whole structure).        *)
(***************************************************************************)
DestroyLinkedBlockingQueue(p) ==
  /\ Calls(p)
  /\ \A t \in Thread : pc[t] = "idle"
  /\ shutdown \/ draining \/ ~lifetimeUsed
  /\ live' = FALSE
  /\ Returns(p, "SUCCESS", head)
  /\ UNCHANGED <<list, flags, pc, peeked>>

InitializeLinkedBlockingQueue(p) ==
  /\ ~live
  /\ live' = TRUE
  /\ head' = NULL /\ tail' = NULL /\ currentSize' = 0
  /\ lifetimeUsed' = FALSE /\ items' = <<>>
  /\ shutdown' = FALSE /\ draining' = FALSE /\ pendingUserWake' = FALSE
  /\ peeked' = NULL
  /\ ret' = [t \in Thread |-> Return("SUCCESS", NULL)]
  /\ UNCHANGED <<flink, pc>>

Init ==
  /\ head = NULL /\ tail = NULL
  /\ flink = [e \in Entry |-> NULL]
  /\ currentSize = 0 /\ lifetimeUsed = FALSE /\ items = <<>>
  /\ shutdown = FALSE /\ draining = FALSE /\ pendingUserWake = FALSE
  /\ live = TRUE
  /\ pc = [t \in Thread |-> "idle"]
  /\ ret = [t \in Thread |-> Return("SUCCESS", NULL)]
  /\ peeked = NULL

ProducerStep(p) ==
  \/ \E e \in Entry : Offer(p, e)
  \/ SignalQueueShutdown(p)
  \/ SignalQueueDrain(p)
  \/ SignalQueueUserWake(p)
  \/ SignalConditionVariable(p)
  \/ FlushQueueItems(p)
  \/ DestroyLinkedBlockingQueue(p)
  \/ InitializeLinkedBlockingQueue(p)

ConsumerStep ==
  \/ WaitForQueueElement(Consumer)
  \/ SpuriousWakeup(Consumer)
  \/ PollQueueElement(Consumer)
  \/ PeekQueueElement(Consumer)
  \/ FlushQueueItems(Consumer)

Next == (\E p \in Producer : ProducerStep(p)) \/ ConsumerStep

Spec == Init /\ [][Next]_vars

\* A thread that left its critical section reaches its signal call, and a
\* woken waiter reacquires the mutex.  Nothing else is fair: no producer has
\* to produce, and the consumer may stop calling.
Fairness ==
  /\ \A p \in Producer : WF_vars(SignalConditionVariable(p))
  /\ WF_vars(pc[Consumer] = "woken" /\ WaitForQueueElement(Consumer))

FairSpec == Spec /\ Fairness

\* The worker threads of the code call the waiting function in a loop until
\* it reports an interruption.
LoopingSpec == FairSpec /\ WF_vars(WaitForQueueElement(Consumer))

-----------------------------------------------------------------------------
TypeOK ==
  /\ head \in Entry \cup {NULL}
  /\ tail \in Entry \cup {NULL}
  /\ flink \in [Entry -> Entry \cup {NULL}]
  /\ currentSize \in Nat
  /\ lifetimeUsed \in BOOLEAN
  /\ shutdown \in BOOLEAN /\ draining \in BOOLEAN /\ pendingUserWake \in BOOLEAN
  /\ live \in BOOLEAN
  /\ pc \in [Thread -> {"idle", "signal", "blocked", "woken"}]
  /\ \A p \in Producer : pc[p] \in {"idle", "signal"}
  /\ pc[Consumer] # "signal"
  /\ ret \in [Thread -> [status : Status, entry : Entry \cup {NULL}]]
  /\ peeked \in Entry \cup {NULL}
  /\ items \in Seq(Entry)

\* The linked representation always spells exactly the accepted entries, in
\* order: head and tail are its ends, flink its successor relation, nothing
\* is in it twice, and currentSize (read without the lock by
\* LbqGetItemCount) is its length and never exceeds the bound.  It is what the
\* LC_ASSERTs on head, tail and currentSize of every operation rely on.
ListSpellsItems ==
  /\ currentSize = Len(items) /\ currentSize <= SizeBound
  /\ items = <<>> => head = NULL /\ tail = NULL
  /\ items # <<>> => head = items[1] /\ tail = items[Len(items)]
  /\ \A i \in 1..Len(items) :
       flink[items[i]] = IF i = Len(items) THEN NULL ELSE items[i + 1]
  /\ \A i, j \in 1..Len(items) : items[i] = items[j] => i = j

\* No wakeup is lost although a producer signals only on the transition from
\* empty to non-empty and only after it released the mutex: whenever the
\* consumer is blocked and its loop condition is false, a signal is still
\* on its way.
NoLostWakeup ==
  pc[Consumer] = "blocked" /\ WakeCondition => \E p \in Producer : pc[p] = "signal"

\* Peek and poll agree: until a flush, the entry the consumer looked at is still
\* the one its next poll removes, whatever is offered in between (the batching
\* loops free or merge the peeked packet on this basis).
PeekedIsNext == peeked # NULL => peeked = head

\* A waiter that shutdown or drain finds asleep, or that is just waking up,
\* does return: LbqSignalQueueShutdown cannot leave a thread behind that
\* stopVideoDepacketizer, stopAudioStream or stopInputStream then joins.
ShutdownReleasesWaiter ==
  (live /\ (shutdown \/ draining) /\ pc[Consumer] \in {"blocked", "woken"})
    ~> (pc[Consumer] = "idle")

\* A queue asked to drain, whose worker keeps waiting for elements and that is
\* not user-woken for ever, ends up empty unless it is shut down: what was
\* accepted before the drain (the last control callbacks) is delivered.
DrainEmptiesQueue ==
  <>[]~pendingUserWake => (live /\ draining) ~> (items = <<>> \/ shutdown \/ ~live)

\* The pointer list under its mutex implements the bounded FIFO: whatever a
\* call returns, the abstract queue returns in one atomic step.
Queue == INSTANCE BoundedQueue WITH returned <- ret
ImplementsBoundedQueue == Queue!Spec

=============================================================================
