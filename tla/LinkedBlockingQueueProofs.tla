---------------------- MODULE LinkedBlockingQueueProofs ---------------------
(***************************************************************************)
(* Proofs about LinkedBlockingQueue for any number of producers, any set   *)
(* of entries and any bound.                                               *)
(*                                                                         *)
(* The inductive invariant is the conjunction of the type invariant and    *)
(* ListSpellsItems: neither Pop nor Link can be shown to keep the size     *)
(* counter and the tail pointer right without knowing the whole chain.     *)
(***************************************************************************)
EXTENDS LinkedBlockingQueue, TLAPS

ListInv == TypeOK /\ ListSpellsItems

\* Removing the head keeps the representation: what is left is spelled by the
\* rest of the chain.
LEMMA PopKeepsList ==
  ASSUME ListInv, NEW t \in Thread, head # NULL, Pop(t)
  PROVE  /\ head' \in Entry \cup {NULL} /\ tail' \in Entry \cup {NULL}
         /\ currentSize' \in Nat /\ items' \in Seq(Entry)
         /\ ret' \in [Thread -> [status : Status, entry : Entry \cup {NULL}]]
         /\ ListSpellsItems'
<1> USE DEF ListInv, Pop, TypeOK, ListSpellsItems
<1>1. /\ items \in Seq(Entry) /\ items # <<>> /\ Len(items) \in Nat \ {0}
      /\ head = items[1] /\ head \in Entry /\ tail = items[Len(items)]
  OBVIOUS
<1>2. /\ items' \in Seq(Entry) /\ Len(items') = Len(items) - 1
      /\ \A i \in 1..Len(items') : items'[i] = items[i + 1]
  BY <1>1
<1>3. ret' \in [Thread -> [status : Status, entry : Entry \cup {NULL}]]
  BY <1>1 DEF Returns, Return, Status
<1>4. CASE Len(items) = 1
  <2>1. items' = <<>> /\ flink[head] = NULL
    BY <1>1, <1>2, <1>4
  <2>2. head' = NULL /\ tail' = NULL /\ currentSize' = 0
    BY <1>1, <1>4, <2>1
  <2>3. ListSpellsItems'
    BY <2>1, <2>2, BoundAssumption
  <2> QED BY <1>2, <1>3, <2>2, <2>3
<1>5. CASE Len(items) # 1
  <2>1. flink[head] = items[2] /\ items[2] \in Entry /\ flink[head] # NULL
    BY <1>1, <1>5, EntryAssumption
  <2>2. items' # <<>> /\ head' = items'[1] /\ tail' = items'[Len(items')]
    <3>1. Len(items') \in 1..Len(items') /\ 1 \in 1..Len(items')
      BY <1>1, <1>2, <1>5
    <3>2. items'[1] = items[2] /\ items'[Len(items')] = items[Len(items)]
      BY <1>1, <1>2, <3>1
    <3>3. head' = items[2] /\ tail' = tail
      BY <2>1
    <3>4. items' # <<>>
      <4>1. Len(items') # 0
        BY <3>1
      <4> QED BY <4>1
    <3> QED BY <1>1, <3>2, <3>3, <3>4
  <2>3. \A i \in 1..Len(items') :
           flink'[items'[i]] = IF i = Len(items') THEN NULL ELSE items'[i + 1]
    <3> TAKE i \in 1..Len(items')
    <3>1. i + 1 \in 1..Len(items) /\ items'[i] = items[i + 1]
      BY <1>1, <1>2
    <3>2. flink[items[i + 1]] = IF i + 1 = Len(items) THEN NULL ELSE items[i + 2]
      BY <3>1
    <3>3. i # Len(items') => items'[i + 1] = items[i + 2]
      BY <1>1, <1>2
    <3> QED BY <3>1, <3>2, <3>3, <1>1, <1>2
  <2>4. \A i, j \in 1..Len(items') : items'[i] = items'[j] => i = j
    <3> SUFFICES ASSUME NEW i \in 1..Len(items'), NEW j \in 1..Len(items'),
                        items'[i] = items'[j]
                 PROVE  i = j
      OBVIOUS
    <3>1. i + 1 \in 1..Len(items) /\ j + 1 \in 1..Len(items)
      BY <1>1, <1>2
    <3>2. items[i + 1] = items[j + 1]
      BY <1>2
    <3> QED BY <3>1, <3>2
  <2>5. currentSize' = Len(items') /\ currentSize' <= SizeBound /\ currentSize' \in Nat
    BY <1>1, <1>2, BoundAssumption
  <2> QED BY <1>1, <1>2, <1>3, <2>1, <2>2, <2>3, <2>4, <2>5
<1> QED BY <1>4, <1>5

\* Appending a new entry at the tail keeps the representation, whether the
\* list was empty or not.
LEMMA AcceptKeepsList ==
  ASSUME ListInv, NEW e \in Entry,
         \A i \in DOMAIN items : items[i] # e,
         currentSize # SizeBound,
         IF head = NULL THEN Empty(e) ELSE Link(e),
         currentSize' = currentSize + 1,
         items' = Append(items, e)
  PROVE  /\ head' \in Entry \cup {NULL} /\ tail' \in Entry \cup {NULL}
         /\ flink' \in [Entry -> Entry \cup {NULL}]
         /\ currentSize' \in Nat /\ items' \in Seq(Entry)
         /\ ListSpellsItems'
<1> USE DEF ListInv, TypeOK, ListSpellsItems
<1>1. /\ items' \in Seq(Entry) /\ Len(items') = Len(items) + 1
      /\ \A i \in 1..Len(items) : items'[i] = items[i]
      /\ items'[Len(items) + 1] = e /\ items' # <<>>
  OBVIOUS
<1>2. \A i, j \in 1..Len(items') : items'[i] = items'[j] => i = j
  <2>1. \A i \in 1..Len(items) : items[i] # e
    OBVIOUS
  <2> QED BY <1>1, <2>1
<1>3. currentSize' \in Nat /\ currentSize' = Len(items') /\ currentSize' <= SizeBound
  BY <1>1, BoundAssumption
<1>4. CASE head = NULL
  <2>1. items = <<>>
    BY <1>4, EntryAssumption
  <2>2. head' = e /\ tail' = e /\ flink' = [flink EXCEPT ![e] = NULL]
    BY <1>4 DEF Empty
  <2>3. Len(items') = 1 /\ items'[1] = e
    BY <1>1, <2>1
  <2> QED BY <1>1, <1>2, <1>3, <2>2, <2>3
<1>5. CASE head # NULL
  <2>1. items # <<>> /\ Len(items) \in Nat \ {0}
        /\ tail = items[Len(items)] /\ tail \in Entry /\ tail # e
    BY <1>5
  <2>2. head' = head /\ tail' = e /\ flink' = [flink EXCEPT ![e] = NULL, ![tail] = e]
    BY <1>5 DEF Link
  <2>3. flink' \in [Entry -> Entry \cup {NULL}] /\ flink'[e] = NULL /\ flink'[tail] = e
        /\ \A x \in Entry \ {e, tail} : flink'[x] = flink[x]
    BY <2>1, <2>2
  <2>4. \A i \in 1..Len(items') :
           flink'[items'[i]] = IF i = Len(items') THEN NULL ELSE items'[i + 1]
    <3> SUFFICES ASSUME NEW i \in 1..Len(items')
                 PROVE  flink'[items'[i]] = IF i = Len(items') THEN NULL ELSE items'[i + 1]
      OBVIOUS
    <3>1. CASE i = Len(items')
      BY <3>1, <1>1, <2>3
    <3>2. CASE i = Len(items)
      BY <3>2, <1>1, <2>1, <2>3
    <3>3. CASE i < Len(items)
      <4>1. i \in 1..Len(items) /\ i + 1 \in 1..Len(items) /\ i # Len(items)
        BY <3>3, <2>1
      <4>2. items[i] # tail /\ items[i] # e /\ items[i] \in Entry
        BY <4>1, <2>1
      <4> QED BY <4>1, <4>2, <1>1, <2>3
    <3> QED BY <3>1, <3>2, <3>3, <1>1
  <2>5. head' = items'[1] /\ tail' = items'[Len(items')]
    BY <1>1, <2>1, <2>2
  <2> QED BY <1>1, <1>2, <1>3, <2>1, <2>2, <2>3, <2>4, <2>5
<1> QED BY <1>4, <1>5

-----------------------------------------------------------------------------
LEMMA ListInvInit == Init => ListInv
<1> SUFFICES ASSUME Init PROVE ListInv
  OBVIOUS
<1>1. pc \in [Thread -> {"idle", "signal", "blocked", "woken"}] /\ \A t \in Thread : pc[t] = "idle"
  BY DEF Init
<1>2. ret \in [Thread -> [status : Status, entry : Entry \cup {NULL}]]
  BY DEF Init, Return, Status
<1>3. TypeOK
  <2>1. items \in Seq(Entry) /\ flink \in [Entry -> Entry \cup {NULL}]
    BY DEF Init
  <2> QED BY <1>1, <1>2, <2>1 DEF Init, TypeOK, Thread
<1>4. ListSpellsItems
  BY BoundAssumption DEF Init, ListSpellsItems
<1> QED BY <1>3, <1>4 DEF ListInv

\* Steps that leave the list alone.
LEMMA SameListSpells == ListSpellsItems /\ UNCHANGED <<list>> => ListSpellsItems'
BY DEF ListSpellsItems, list

LEMMA ListInvNext == ListInv /\ [Next]_vars => ListInv'
<1> SUFFICES ASSUME ListInv, [Next]_vars PROVE ListInv'
  OBVIOUS
<1> USE ThreadAssumption DEF ListInv, Thread
<1>1. ASSUME NEW p \in Producer, NEW e \in Entry, Offer(p, e) PROVE ListInv'
  <2>1. CASE UNCHANGED list
    BY <1>1, <2>1 DEF Offer, NotPopped, Returns, Return, Goto, TypeOK, ListSpellsItems,
                      list, flags, Status
  <2>2. CASE ~(shutdown \/ draining) /\ currentSize # SizeBound
    <3>1. /\ head' \in Entry \cup {NULL} /\ tail' \in Entry \cup {NULL}
          /\ flink' \in [Entry -> Entry \cup {NULL}]
          /\ currentSize' \in Nat /\ items' \in Seq(Entry)
          /\ ListSpellsItems'
      BY <1>1, <2>2, AcceptKeepsList DEF Offer
    <3>2. lifetimeUsed' = TRUE /\ UNCHANGED <<flags, live, peeked>>
      BY <1>1, <2>2 DEF Offer
    <3>3. ret' \in [Thread -> [status : Status, entry : Entry \cup {NULL}]]
      BY <1>1, <2>2 DEF Offer, Returns, Return, Status, TypeOK
    <3>4. /\ pc' \in [Thread -> {"idle", "signal", "blocked", "woken"}]
          /\ \A q \in Producer : pc'[q] \in {"idle", "signal"}
          /\ pc'[Consumer] # "signal"
      BY <1>1, <2>2 DEF Offer, Goto, TypeOK
    <3> QED BY <3>1, <3>2, <3>3, <3>4 DEF TypeOK, flags
  <2> QED BY <1>1, <2>1, <2>2 DEF Offer, NotPopped
<1>2. ASSUME NEW p \in Producer,
             \/ SignalQueueShutdown(p) \/ SignalQueueDrain(p) \/ SignalQueueUserWake(p)
             \/ SignalConditionVariable(p)
      PROVE ListInv'
  <2>1. ListSpellsItems'
    BY <1>2, SameListSpells DEF SignalQueueShutdown, SignalQueueDrain, SignalQueueUserWake,
                                SignalConditionVariable
  <2>2. CASE SignalConditionVariable(p)
    <3>1. /\ pc' \in [Thread -> {"idle", "signal", "blocked", "woken"}]
          /\ \A q \in Producer : pc'[q] \in {"idle", "signal"}
          /\ pc'[Consumer] # "signal"
      BY <2>2 DEF SignalConditionVariable, TypeOK
    <3> QED BY <2>1, <2>2, <3>1 DEF SignalConditionVariable, TypeOK, list, flags
  <2>3. CASE SignalQueueShutdown(p) \/ SignalQueueDrain(p) \/ SignalQueueUserWake(p)
    <3>1. /\ pc' \in [Thread -> {"idle", "signal", "blocked", "woken"}]
          /\ \A q \in Producer : pc'[q] \in {"idle", "signal"}
          /\ pc'[Consumer] # "signal"
      BY <2>3 DEF SignalQueueShutdown, SignalQueueDrain, SignalQueueUserWake, Goto, TypeOK
    <3> QED BY <2>1, <2>3, <3>1 DEF SignalQueueShutdown, SignalQueueDrain,
                                     SignalQueueUserWake, TypeOK, list
  <2> QED BY <1>2, <2>2, <2>3
<1>3. ASSUME NEW t \in Thread, FlushQueueItems(t) PROVE ListInv'
  BY <1>3, BoundAssumption
     DEF FlushQueueItems, Returns, Return, Status, TypeOK, ListSpellsItems, flags
<1>4. ASSUME NEW p \in Producer, DestroyLinkedBlockingQueue(p) PROVE ListInv'
  BY <1>4 DEF DestroyLinkedBlockingQueue, Returns, Return, Status, TypeOK,
              ListSpellsItems, list, flags
<1>5. ASSUME NEW p \in Producer, InitializeLinkedBlockingQueue(p) PROVE ListInv'
  <2>1. ret' \in [Thread -> [status : Status, entry : Entry \cup {NULL}]]
    BY <1>5 DEF InitializeLinkedBlockingQueue, Return, Status
  <2>2. TypeOK'
    <3>1. shutdown' \in BOOLEAN /\ draining' \in BOOLEAN /\ pendingUserWake' \in BOOLEAN
          /\ lifetimeUsed' \in BOOLEAN /\ live' \in BOOLEAN
      BY <1>5, Zenon DEF InitializeLinkedBlockingQueue
    <3>3. items' \in Seq(Entry) /\ currentSize' \in Nat
      BY <1>5 DEF InitializeLinkedBlockingQueue
    <3>2. /\ head' \in Entry \cup {NULL} /\ tail' \in Entry \cup {NULL}
          /\ peeked' \in Entry \cup {NULL} /\ flink' = flink /\ pc' = pc
      BY <1>5 DEF InitializeLinkedBlockingQueue
    <3> QED BY <2>1, <3>1, <3>2, <3>3 DEF TypeOK
  <2>3. ListSpellsItems'
    <3>1. currentSize' = 0 /\ items' = <<>> /\ head' = NULL /\ tail' = NULL
      BY <1>5 DEF InitializeLinkedBlockingQueue
    <3> QED BY <3>1, BoundAssumption DEF ListSpellsItems
  <2> QED BY <2>2, <2>3
<1>6. ASSUME NEW c \in Thread, Pop(c), head # NULL,
             lifetimeUsed' = lifetimeUsed, flags' \in BOOLEAN \X BOOLEAN \X BOOLEAN,
             live' = live, peeked' = NULL,
             pc' = pc \/ pc' = [pc EXCEPT ![Consumer] = "idle"]
      PROVE ListInv'
  <2>1. /\ head' \in Entry \cup {NULL} /\ tail' \in Entry \cup {NULL}
        /\ currentSize' \in Nat /\ items' \in Seq(Entry)
        /\ ret' \in [Thread -> [status : Status, entry : Entry \cup {NULL}]]
        /\ ListSpellsItems'
    BY <1>6, PopKeepsList
  <2>2. flink' = flink
    BY <1>6 DEF Pop
  <2>3. shutdown' \in BOOLEAN /\ draining' \in BOOLEAN /\ pendingUserWake' \in BOOLEAN
    BY <1>6 DEF flags
  <2>4. /\ pc' \in [Thread -> {"idle", "signal", "blocked", "woken"}]
        /\ \A q \in Producer : pc'[q] \in {"idle", "signal"}
        /\ pc'[Consumer] # "signal"
    BY <1>6 DEF TypeOK
  <2> QED BY <1>6, <2>1, <2>2, <2>3, <2>4 DEF TypeOK
<1>7. ASSUME WaitForQueueElement(Consumer) PROVE ListInv'
  <2>1. CASE UNCHANGED list
    <3>1. ListSpellsItems'
      BY <2>1, SameListSpells
    <3>2. ret' \in [Thread -> [status : Status, entry : Entry \cup {NULL}]]
      BY <1>7 DEF WaitForQueueElement, AfterWait, Pop, NotPopped, Returns, Return, Status,
                  TypeOK, ListSpellsItems
    <3>3. /\ pc' \in [Thread -> {"idle", "signal", "blocked", "woken"}]
          /\ \A q \in Producer : pc'[q] \in {"idle", "signal"}
          /\ pc'[Consumer] # "signal"
      BY <1>7 DEF WaitForQueueElement, Goto, TypeOK
    <3>4. flags' \in BOOLEAN \X BOOLEAN \X BOOLEAN /\ live' = live /\ peeked' \in {peeked, NULL}
      BY <1>7 DEF WaitForQueueElement, AfterWait, TypeOK, flags
    <3> QED BY <2>1, <3>1, <3>2, <3>3, <3>4 DEF TypeOK, list, flags
  <2>2. CASE Pop(Consumer) /\ head # NULL /\ ~UNCHANGED list
    <3>1. /\ lifetimeUsed' = lifetimeUsed /\ live' = live
          /\ flags' \in BOOLEAN \X BOOLEAN \X BOOLEAN
      BY <1>7, <2>2 DEF WaitForQueueElement, AfterWait, Pop, NotPopped, TypeOK, flags, list
    <3>2. peeked' = NULL /\ pc' = [pc EXCEPT ![Consumer] = "idle"]
      BY <1>7, <2>2 DEF WaitForQueueElement, Goto
    <3> QED BY <1>6, <2>2, <3>1, <3>2
  <2> QED BY <1>7, <2>1, <2>2 DEF WaitForQueueElement, AfterWait, NotPopped
<1>8. ASSUME PollQueueElement(Consumer) PROVE ListInv'
  <2>1. CASE UNCHANGED list
    <3>1. ListSpellsItems'
      BY <2>1, SameListSpells
    <3>2. ret' \in [Thread -> [status : Status, entry : Entry \cup {NULL}]]
      BY <1>8 DEF PollQueueElement, EmptyStatus, Pop, NotPopped, Returns, Return, Status,
                  TypeOK, ListSpellsItems
    <3> QED BY <1>8, <2>1, <3>1, <3>2 DEF PollQueueElement, TypeOK, list, flags
  <2>2. CASE Pop(Consumer) /\ head # NULL
    <3>1. /\ lifetimeUsed' = lifetimeUsed /\ live' = live /\ pc' = pc /\ peeked' = NULL
          /\ flags' \in BOOLEAN \X BOOLEAN \X BOOLEAN
      BY <1>8, <2>2 DEF PollQueueElement, Pop, TypeOK, flags
    <3> QED BY <1>6, <2>2, <3>1
  <2> QED BY <1>8, <2>1, <2>2 DEF PollQueueElement, NotPopped
<1>9. ASSUME SpuriousWakeup(Consumer) \/ PeekQueueElement(Consumer) PROVE ListInv'
  BY <1>9 DEF SpuriousWakeup, PeekQueueElement, EmptyStatus, Goto, Returns, Return, Status,
              TypeOK, ListSpellsItems, list, flags
<1>10. CASE UNCHANGED vars
  BY <1>10 DEF TypeOK, ListSpellsItems, vars, list, flags
<1> QED
  BY <1>1, <1>2, <1>3, <1>4, <1>5, <1>7, <1>8, <1>9, <1>10 DEF Next, ProducerStep, ConsumerStep

-----------------------------------------------------------------------------
\* Type correctness, and the representation invariant the LC_ASSERTs of
\* LinkedBlockingQueue.c rely on, hold in every reachable state.
THEOREM ListCorrect == Spec => [](TypeOK /\ ListSpellsItems)
<1>1. ListInv => TypeOK /\ ListSpellsItems
  BY DEF ListInv
<1> QED BY <1>1, ListInvInit, ListInvNext, PTL DEF Spec

-----------------------------------------------------------------------------
\* A signal that is on its way stays on its way until it is delivered, and the
\* consumer goes to sleep only while its loop condition holds.
LEMMA NoLostWakeupNext == ListInv /\ NoLostWakeup /\ [Next]_vars => NoLostWakeup'
<1> SUFFICES ASSUME ListInv, NoLostWakeup, [Next]_vars,
                    pc'[Consumer] = "blocked", WakeCondition'
             PROVE  \E p \in Producer : pc'[p] = "signal"
  BY DEF NoLostWakeup
<1> USE ThreadAssumption DEF ListInv, TypeOK, Thread
<1>1. ASSUME NEW p \in Producer, NEW e \in Entry, Offer(p, e)
      PROVE  \E q \in Producer : pc'[q] = "signal"
  <2>1. CASE pc' = [pc EXCEPT ![p] = "signal"]
    BY <2>1
  <2>2. CASE pc' = pc /\ UNCHANGED list
    BY <1>1, <2>2 DEF Offer, NoLostWakeup, WakeCondition, list, flags
  <2>3. CASE head # NULL /\ pc' = [pc EXCEPT ![p] = "idle"] /\ pc[p] = "idle"
    BY <2>3 DEF NoLostWakeup, WakeCondition
  <2> QED BY <1>1, <2>1, <2>2, <2>3 DEF Offer, NotPopped, Goto, Calls
<1>2. ASSUME NEW p \in Producer,
             SignalQueueShutdown(p) \/ SignalQueueDrain(p) \/ SignalQueueUserWake(p)
      PROVE  \E q \in Producer : pc'[q] = "signal"
  BY <1>2 DEF SignalQueueShutdown, SignalQueueDrain, SignalQueueUserWake, Goto
<1>3. ASSUME NEW p \in Producer, SignalConditionVariable(p) PROVE FALSE
  BY <1>3 DEF SignalConditionVariable
<1>4. ASSUME NEW t \in Thread, FlushQueueItems(t)
      PROVE  \E q \in Producer : pc'[q] = "signal"
  BY <1>4 DEF FlushQueueItems, NoLostWakeup, WakeCondition, flags
<1>5. ASSUME NEW p \in Producer,
             DestroyLinkedBlockingQueue(p) \/ InitializeLinkedBlockingQueue(p)
      PROVE  \E q \in Producer : pc'[q] = "signal"
  BY <1>5 DEF DestroyLinkedBlockingQueue, InitializeLinkedBlockingQueue, NoLostWakeup,
              WakeCondition, list, flags
<1>6. ASSUME WaitForQueueElement(Consumer) PROVE FALSE
  BY <1>6 DEF WaitForQueueElement, Goto, WakeCondition, list, flags
<1>7. ASSUME PollQueueElement(Consumer) \/ PeekQueueElement(Consumer) PROVE FALSE
  BY <1>7 DEF PollQueueElement, PeekQueueElement, Calls
<1>8. ASSUME SpuriousWakeup(Consumer) PROVE FALSE
  BY <1>8 DEF SpuriousWakeup, Goto
<1>9. CASE UNCHANGED vars
  BY <1>9 DEF NoLostWakeup, WakeCondition, vars, list, flags
<1> QED
  BY <1>1, <1>2, <1>3, <1>4, <1>5, <1>6, <1>7, <1>8, <1>9 DEF Next, ProducerStep, ConsumerStep

\* Whatever the number of producers, no wakeup of the single waiting thread is
\* ever lost, although signals are sent outside the mutex and only on the
\* transition from empty to non-empty.
THEOREM WakeupNeverLost == Spec => []NoLostWakeup
<1>1. Init => NoLostWakeup
  BY DEF Init, NoLostWakeup, Thread
<1>2. ListInv /\ NoLostWakeup /\ [Next]_vars => NoLostWakeup'
  BY NoLostWakeupNext
<1> QED BY <1>1, <1>2, ListInvInit, ListInvNext, PTL DEF Spec

-----------------------------------------------------------------------------
\* What the consumer has peeked at stays the head of the list: whatever moves
\* the head is a call of the consumer, a flush, or an offer to an empty list.
LEMMA PeekedNext == PeekedIsNext /\ [Next]_vars => PeekedIsNext'
<1> SUFFICES ASSUME PeekedIsNext, [Next]_vars, peeked' # NULL PROVE peeked' = head'
  BY DEF PeekedIsNext
<1>1. CASE UNCHANGED vars
  BY <1>1 DEF vars, list, PeekedIsNext
<1>2. ASSUME NEW p \in Producer, ProducerStep(p) PROVE peeked' = head'
  <2>1. ASSUME NEW e \in Entry, Offer(p, e) PROVE peeked' = head'
    <3>1. peeked' = peeked /\ peeked = head /\ head # NULL
      BY <2>1 DEF Offer, PeekedIsNext
    <3>2. head' = head
      BY <2>1, <3>1 DEF Offer, NotPopped, Link, list
    <3> QED BY <3>1, <3>2
  <2>2. CASE \/ SignalQueueShutdown(p) \/ SignalQueueDrain(p) \/ SignalQueueUserWake(p)
             \/ SignalConditionVariable(p) \/ DestroyLinkedBlockingQueue(p)
    BY <2>2 DEF SignalQueueShutdown, SignalQueueDrain, SignalQueueUserWake,
                SignalConditionVariable, DestroyLinkedBlockingQueue, list, PeekedIsNext
  <2>3. CASE FlushQueueItems(p) \/ InitializeLinkedBlockingQueue(p)
    BY <2>3 DEF FlushQueueItems, InitializeLinkedBlockingQueue
  <2> QED BY <1>2, <2>1, <2>2, <2>3 DEF ProducerStep
<1>3. CASE ConsumerStep
  <2>1. CASE PeekQueueElement(Consumer)
    BY <2>1 DEF PeekQueueElement, list
  <2>2. CASE WaitForQueueElement(Consumer) \/ SpuriousWakeup(Consumer)
    BY <2>2 DEF WaitForQueueElement, SpuriousWakeup, list, PeekedIsNext
  <2>3. CASE PollQueueElement(Consumer) \/ FlushQueueItems(Consumer)
    BY <2>3 DEF PollQueueElement, FlushQueueItems
  <2> QED BY <1>3, <2>1, <2>2, <2>3 DEF ConsumerStep
<1> QED BY <1>1, <1>2, <1>3 DEF Next

\* Peek and poll agree (LbqPeekQueueElement and LbqPollQueueElement as the
\* batching loops of InputStream.c and ControlStream.c use them).
THEOREM PeekAgrees == Spec => []PeekedIsNext
<1>1. Init => PeekedIsNext
  BY DEF Init, PeekedIsNext
<1> QED BY <1>1, PeekedNext, PTL DEF Spec

-----------------------------------------------------------------------------
\* The pointer list implements the bounded FIFO: every step of a call is a
\* step of the abstract queue or leaves its state unchanged.
LEMMA QueueStep == ListInv /\ [Next]_vars => [Queue!Next]_(Queue!vars)
<1> SUFFICES ASSUME ListInv, [Next]_vars PROVE Queue!Next \/ UNCHANGED Queue!vars
  OBVIOUS
<1> USE DEF ListInv, Thread, Queue!Thread
<1>0. /\ (head = NULL) = (items = <<>>)
      /\ head = Queue!First
      /\ items # <<>> => head = items[1]
  BY EntryAssumption DEF TypeOK, ListSpellsItems, Queue!First
<1>1. ASSUME NEW p \in Producer, NEW e \in Entry, Offer(p, e) PROVE Queue!Next
  <2>1. CASE Offer(p, e) /\ items' = items
    <3>1. Len(Append(items, e)) # Len(items)
      BY DEF TypeOK
    <3>2. items' # Append(items, e)
      BY <2>1, <3>1
    <3>3. Queue!Refuse(p)
      BY <2>1, <3>2 DEF Offer, NotPopped, Returns, Return, flags, list, ListSpellsItems,
            Queue!Refuse, Queue!Keep, Queue!Returns, Queue!Result
    <3> QED BY <3>3 DEF Queue!Next
  <2>2. CASE Offer(p, e) /\ items' # items
    <3>1. Len(items) < SizeBound
      BY <2>2, BoundAssumption DEF Offer, NotPopped, list, TypeOK, ListSpellsItems
    <3>2. Queue!Accept(p, e)
      BY <2>2, <3>1 DEF Offer, NotPopped, Returns, Return, flags, list,
            Queue!Accept, Queue!Returns, Queue!Result
    <3> QED BY <3>2 DEF Queue!Next
  <2> QED BY <1>1, <2>1, <2>2
<1>2. ASSUME NEW p \in Producer, SignalQueueShutdown(p) \/ SignalQueueDrain(p)
      PROVE Queue!Close
  BY <1>2 DEF SignalQueueShutdown, SignalQueueDrain, list, Queue!Close
<1>3. ASSUME NEW p \in Producer, SignalQueueUserWake(p) \/ SignalConditionVariable(p)
      PROVE UNCHANGED Queue!vars
  BY <1>3 DEF SignalQueueUserWake, SignalConditionVariable, list, flags, Queue!vars
<1>4. ASSUME NEW t \in Thread, FlushQueueItems(t) PROVE Queue!Next
  <2>1. Queue!Flush(t)
    BY <1>0, <1>4 DEF FlushQueueItems, Returns, Return, flags, Queue!Flush, Queue!Returns,
          Queue!Result
  <2> QED BY <2>1 DEF Queue!Next
<1>5. ASSUME NEW p \in Producer, DestroyLinkedBlockingQueue(p) PROVE Queue!Next
  <2>1. Queue!Dispose(p)
    BY <1>0, <1>5 DEF DestroyLinkedBlockingQueue, Returns, Return, list, flags,
          Queue!Dispose, Queue!Keep, Queue!Returns, Queue!Result
  <2> QED BY <2>1 DEF Queue!Next
<1>6. ASSUME NEW p \in Producer, InitializeLinkedBlockingQueue(p) PROVE Queue!Next
  <2>1. Queue!Reopen
    BY <1>6 DEF InitializeLinkedBlockingQueue, Return, Queue!Reopen, Queue!Result
  <2> QED BY <2>1 DEF Queue!Next
<1>7. ASSUME head # NULL, ~shutdown, Pop(Consumer), UNCHANGED <<shutdown, draining>>
      PROVE Queue!Take
  BY <1>0, <1>7 DEF Pop, Returns, Return, Queue!Take, Queue!Returns, Queue!Result
<1>8. ASSUME WaitForQueueElement(Consumer) PROVE Queue!Next \/ UNCHANGED Queue!vars
  <2>1. CASE ~WakeCondition
    BY <1>8, <2>1 DEF WaitForQueueElement, list, flags, Queue!vars
  <2>2. CASE AfterWait(Consumer) /\ UNCHANGED <<shutdown, draining>>
    <3>1. CASE head # NULL /\ ~shutdown /\ Pop(Consumer)
      BY <1>7, <2>2, <3>1 DEF Queue!Next
    <3>2. CASE ~(head # NULL /\ ~shutdown /\ Pop(Consumer))
      <4>1. Queue!NothingToTake
        BY <1>0, <2>2, <3>2 DEF AfterWait, NotPopped, Returns, Return, list,
              Queue!NothingToTake, Queue!Keep, Queue!Returns, Queue!Result
      <4> QED BY <4>1 DEF Queue!Next
    <3> QED BY <3>1, <3>2
  <2> QED BY <1>8, <2>1, <2>2 DEF WaitForQueueElement
<1>9. ASSUME PollQueueElement(Consumer) PROVE Queue!Next
  <2>1. CASE head # NULL /\ ~shutdown
    BY <1>7, <1>9, <2>1 DEF PollQueueElement, flags, Queue!Next
  <2>2. CASE ~(head # NULL /\ ~shutdown)
    <3>1. Queue!NothingToTake
      BY <1>0, <1>9, <2>2 DEF PollQueueElement, EmptyStatus, NotPopped, Returns, Return, list,
            flags, Queue!NothingToTake, Queue!Keep, Queue!Returns, Queue!Result
    <3> QED BY <3>1 DEF Queue!Next
  <2> QED BY <2>1, <2>2
<1>10. ASSUME PeekQueueElement(Consumer) PROVE Queue!Next
  <2>1. CASE head # NULL /\ ~shutdown
    <3>1. Queue!Look
      BY <1>0, <1>10, <2>1 DEF PeekQueueElement, Returns, Return, list, flags, Queue!Look,
            Queue!Keep, Queue!Returns, Queue!Result
    <3> QED BY <3>1 DEF Queue!Next
  <2>2. CASE ~(head # NULL /\ ~shutdown)
    <3>1. Queue!NothingToTake
      BY <1>0, <1>10, <2>2 DEF PeekQueueElement, EmptyStatus, Returns, Return, list,
            flags, Queue!NothingToTake, Queue!Keep, Queue!Returns, Queue!Result
    <3> QED BY <3>1 DEF Queue!Next
  <2> QED BY <2>1, <2>2
<1>11. ASSUME SpuriousWakeup(Consumer) PROVE UNCHANGED Queue!vars
  BY <1>11 DEF SpuriousWakeup, list, flags, Queue!vars
<1>12. CASE UNCHANGED vars
  BY <1>12 DEF vars, list, flags, Queue!vars
<1> QED
  BY <1>1, <1>2, <1>3, <1>4, <1>5, <1>6, <1>8, <1>9, <1>10, <1>11, <1>12
     DEF Next, ProducerStep, ConsumerStep, Queue!Next

\* For every set of producers, every bound and every interleaving, the results
\* the calls return are those of an atomic bounded FIFO: entries come out
\* once, in the order they went in, none after a shutdown.
THEOREM QueueRefinement == Spec => ImplementsBoundedQueue
<1>1. Init => Queue!Init
  BY DEF Init, Queue!Init, Return, Queue!Result, Thread, Queue!Thread
<1>2. ListInv /\ [Next]_vars => [Queue!Next]_(Queue!vars)
  BY QueueStep
<1> QED BY <1>1, <1>2, ListInvInit, ListInvNext, PTL
        DEF Spec, ImplementsBoundedQueue, Queue!Spec

=============================================================================
