-------------------------- MODULE InputStreamProofs -------------------------
(***************************************************************************)
(* Proofs about InputStream for any number of client threads, any set of   *)
(* batched states and movements and any bound of the queue.                *)
(*                                                                         *)
(* That a dirty flag stands for exactly one packet is not inductive alone: *)
(* between the test of the flag and the offer a call holds the mutex       *)
(* (LockExclusive) and the flag stays clear (OfferPending), so that nobody *)
(* can offer a second packet for the same state.                           *)
(*                                                                         *)
(* The order of events needs two more invariants. OrderInv follows a       *)
(* numbered event through call, queue and hand to the wire; AfterInv says  *)
(* that whatever a call has returned for is on the wire, in the hand, or   *)
(* queued in front of every event that was offered later.                  *)
(***************************************************************************)
EXTENDS InputStream, TLAPS

Packet == [kind : Kinds \cup Discrete, move : Int \X Int, buttons : Buttons \cup {NoButtons},
           number : Nat, after : [Kinds -> Nat], reliable : BOOLEAN]

\* What the sender holds fits what it is about to do with it.
SenderShape ==
  /\ sender \in {"wait", "relative", "fill", "batch", "send", "ended"}
  /\ sender = "wait" => hand.kind = "nothing"
  /\ sender = "relative" => hand.kind = "relative"
  /\ sender = "fill" => hand.kind \in Latest
  /\ sender = "batch" => hand.kind \in {"pad", "pen"}
  /\ sender = "send" => hand.kind \in Latest \cup Discrete
  /\ sender \notin {"wait", "ended"} => hand \in Packet

Types ==
  /\ call \in [Client -> [at : {"idle", "entered", "allocated"}, event : Packet \cup {Nothing}]]
  /\ \A c \in Client : call[c].at # "idle" => call[c].event \in Packet
  /\ queue \in Seq(Packet)
  /\ relative \in [x : Int, y : Int, dirty : BOOLEAN]
  /\ latest \in [Latest -> [number : Nat, dirty : BOOLEAN]]
  /\ penButtons \in Buttons \cup {NoButtons}
  /\ settled \in [Kinds -> Nat] /\ moves \in Nat /\ events \in Nat
  /\ moved \in [x : Int, y : Int] /\ wire \in [x : Int, y : Int]
  /\ SenderShape

Dirty(k) == IF k = "relative" THEN relative.dirty ELSE latest[k].dirty
Offers(c, k) == call[c].at = "allocated" /\ call[c].event.kind = k

\* batchedInputMutex: one call at a time is between its change and its offer,
LockExclusive ==
  \A c, d \in Client : \A k, l \in Kinds : Offers(c, k) /\ Offers(d, l) => c = d

\* and has found the flag of its state clear.
OfferPending == \A c \in Client : \A k \in Kinds : Offers(c, k) => ~Dirty(k)

\* The queue drains only after the list of free holders has been shut.
ShutOrder == draining => freeListShut

InputInv == Types /\ LockExclusive /\ OfferPending /\ ShutOrder /\ BatchedStateAccounted

\* The state of one batched kind, as DirtyMeansQueued has it.
Sound(k) ==
  IF Dirty(k) THEN \/ InSender(k) /\ Holders(k) = {}
                   \/ ~InSender(k) /\ \E i \in Holders(k) : Holders(k) = {i}
  ELSE ~InSender(k) /\ Holders(k) = {}

LEMMA SoundMeans == DirtyMeansQueued <=> (sender # "ended" => \A k \in Kinds : Sound(k))
BY DEF DirtyMeansQueued, Sound, Dirty

\* Batched states are none of the kinds that are sent as they were queued.
LEMMA KindsApart ==
  /\ "relative" \in Kinds /\ Latest \subseteq Kinds /\ Latest = Kinds \ {"relative"}
  /\ \A k \in Kinds : k \notin {"click", "pad", "pen", "nothing"}
BY InputAssumption DEF Kinds

-----------------------------------------------------------------------------
(***************************************************************************)
(* What the queue operations do to the packets of one kind.                *)
(***************************************************************************)
LEMMA AppendHolders ==
  ASSUME queue \in Seq(Packet), NEW e \in Packet, queue' = Append(queue, e), NEW k
  PROVE  /\ queue' \in Seq(Packet)
         /\ e.kind = k => Holders(k)' = Holders(k) \cup {Len(queue) + 1}
         /\ e.kind # k => Holders(k)' = Holders(k)
<1>1. /\ queue' \in Seq(Packet) /\ Len(queue') = Len(queue) + 1 /\ Len(queue) \in Nat
      /\ queue'[Len(queue) + 1] = e /\ \A i \in 1..Len(queue) : queue'[i] = queue[i]
  OBVIOUS
<1>2. \A i : i \in 1..Len(queue') <=> i \in 1..Len(queue) \/ i = Len(queue) + 1
  BY <1>1
<1> QED BY <1>1, <1>2 DEF Holders

LEMMA TailHolders ==
  ASSUME queue \in Seq(Packet), queue # <<>>, queue' = Tail(queue), NEW k
  PROVE  /\ queue' \in Seq(Packet) /\ Head(queue) \in Packet
         /\ Holders(k) = {} => Holders(k)' = {} /\ Head(queue).kind # k
         /\ \A i \in Holders(k) : Holders(k) = {i} =>
              IF Head(queue).kind = k THEN Holders(k)' = {}
              ELSE \E j \in Holders(k)' : Holders(k)' = {j}
<1>1. /\ queue' \in Seq(Packet) /\ Len(queue') = Len(queue) - 1 /\ Len(queue) \in Nat \ {0}
      /\ Head(queue) = queue[1] /\ Head(queue) \in Packet
      /\ \A i \in 1..Len(queue') : queue'[i] = queue[i + 1]
  OBVIOUS
<1>2. \A i \in Holders(k)' : i + 1 \in Holders(k) /\ i \in Nat
  BY <1>1 DEF Holders
<1>3. Head(queue).kind = k <=> 1 \in Holders(k)
  BY <1>1 DEF Holders
<1>4. ASSUME NEW i \in Holders(k), Holders(k) = {i}
      PROVE  IF Head(queue).kind = k THEN Holders(k)' = {}
             ELSE \E j \in Holders(k)' : Holders(k)' = {j}
  <2>1. CASE Head(queue).kind = k
    <3>1. i = 1
      BY <1>3, <1>4, <2>1
    <3>2. \A j \in Holders(k)' : j + 1 = 1 /\ j >= 1
      BY <1>2, <1>4, <3>1 DEF Holders
    <3>3. \A j \in Holders(k)' : FALSE
      BY <1>2, <3>2
    <3> QED BY <2>1, <3>3
  <2>2. CASE Head(queue).kind # k
    <3>1. i # 1 /\ i \in 1..Len(queue) /\ queue[i].kind = k
      BY <1>3, <1>4, <2>2 DEF Holders
    <3>2. i - 1 \in 1..Len(queue') /\ queue'[i - 1] = queue[i]
      BY <1>1, <3>1
    <3>3. i - 1 \in Holders(k)'
      BY <3>1, <3>2 DEF Holders
    <3>4. \A j \in Holders(k)' : j + 1 = i /\ j \in Nat
      BY <1>2, <1>4
    <3>5. \A j \in Holders(k)' : j = i - 1
      BY <3>1, <3>4
    <3> QED BY <2>2, <3>3, <3>5
  <2> QED BY <2>1, <2>2
<1> QED BY <1>1, <1>2, <1>3, <1>4

-----------------------------------------------------------------------------
\* A stream that has just been started.
Fresh ==
  /\ sender = "wait" /\ hand = Nothing /\ queue = <<>> /\ call = [c \in Client |-> Idle]
  /\ relative = [x |-> 0, y |-> 0, dirty |-> FALSE] /\ latest = [k \in Latest |-> NoState]
  /\ penButtons = NoButtons /\ settled = Zero /\ moves = 0 /\ events = 0
  /\ moved = [x |-> 0, y |-> 0] /\ wire = [x |-> 0, y |-> 0] /\ draining = FALSE

LEMMA FreshHolds == Fresh => InputInv
<1> SUFFICES ASSUME Fresh PROVE InputInv
  OBVIOUS
<1> USE DEF Fresh
<1>1. SenderShape
  BY DEF SenderShape, Nothing, Event
<1>2. Types
  <2>1. call \in [Client -> [at : {"idle", "entered", "allocated"}, event : Packet \cup {Nothing}]]
        /\ \A c \in Client : call[c].at = "idle"
    BY DEF Idle
  <2>2. relative \in [x : Int, y : Int, dirty : BOOLEAN]
    <3>1. 0 \in Int /\ FALSE \in BOOLEAN
      OBVIOUS
    <3> QED BY <3>1
  <2>3. latest \in [Latest -> [number : Nat, dirty : BOOLEAN]]
    <3>1. NoState \in [number : Nat, dirty : BOOLEAN]
      BY DEF NoState
    <3> QED BY <3>1
  <2>4. /\ queue \in Seq(Packet) /\ penButtons \in Buttons \cup {NoButtons}
        /\ settled \in [Kinds -> Nat] /\ moves \in Nat /\ events \in Nat
        /\ moved \in [x : Int, y : Int] /\ wire \in [x : Int, y : Int]
    BY DEF Zero
  <2> QED BY <1>1, <2>1, <2>2, <2>3, <2>4 DEF Types
<1>3. \A c \in Client : call[c].at = "idle"
  BY DEF Idle
<1>4. LockExclusive /\ OfferPending /\ ShutOrder
  BY <1>3 DEF LockExclusive, OfferPending, ShutOrder, Offers
<1>5. DirtyMeansQueued
  <2>1. \A k \in Kinds : Sound(k)
    BY KindsApart DEF Sound, Dirty, InSender, Holders, NoState
  <2> QED BY <2>1, SoundMeans
<1>6. MovementAccounted
  BY DEF MovementAccounted
<1> QED BY <1>2, <1>4, <1>5, <1>6 DEF InputInv, BatchedStateAccounted

LEMMA InputInit == Init => InputInv
<1>1. Init => Fresh
  BY DEF Init, Fresh
<1> QED BY <1>1, FreshHolds

LEMMA InputRestart == Restart => InputInv'
<1>1. Restart => Fresh'
  BY DEF Restart, Fresh
<1> QED BY <1>1, FreshHolds, PTL
-----------------------------------------------------------------------------
(***************************************************************************)
(* Calls up to the offer, and the steps of stopping: neither queue nor     *)
(* flags change.                                                           *)
(***************************************************************************)
LEMMA SameSound ==
  ASSUME DirtyMeansQueued, UNCHANGED <<queue, sender, hand>>,
         \A k \in Kinds : Dirty(k)' <=> Dirty(k)
  PROVE  DirtyMeansQueued'
<1> SUFFICES ASSUME sender # "ended", NEW k \in Kinds PROVE Sound(k)'
  BY DEF DirtyMeansQueued, Sound, Dirty
<1>1. Sound(k)
  BY SoundMeans
<1>2. Holders(k)' = Holders(k) /\ (InSender(k)' <=> InSender(k))
  BY DEF Holders, InSender
<1> QED BY <1>1, <1>2 DEF Sound

\* Nobody else is between change and offer while the mutex is free.
LEMMA Unlocked ==
  ASSUME ~Locked, NEW c \in Client, NEW k \in Kinds
  PROVE  ~Offers(c, k)
BY DEF Locked, Offers, Batched

\* One call changes, and either has not got to its offer or found the mutex
\* free and its flag clear.
LEMMA OneCallChanges ==
  ASSUME LockExclusive, OfferPending, NEW c \in Client,
         \A d \in Client \ {c} : call'[d] = call[d],
         \A k \in Kinds : Dirty(k)' <=> Dirty(k),
         \/ \A k \in Kinds : ~Offers(c, k)'
         \/ ~Locked /\ \A k \in Kinds : Offers(c, k)' => ~Dirty(k)
  PROVE  LockExclusive' /\ OfferPending'
<1>1. \A d \in Client \ {c} : \A k \in Kinds : Offers(d, k)' => Offers(d, k)
  BY DEF Offers
<1>2. OfferPending'
  BY <1>1 DEF OfferPending, Offers, Dirty
<1>3. ASSUME NEW d \in Client, NEW e \in Client, NEW k \in Kinds, NEW l \in Kinds,
             Offers(d, k)', Offers(e, l)', d # e
      PROVE  FALSE
  <2>1. CASE d # c /\ e # c
    BY <1>1, <1>3, <2>1 DEF LockExclusive
  <2>2. CASE d = c
    <3>1. Offers(e, l) /\ ~Locked
      BY <1>1, <1>3, <2>2 DEF Offers
    <3> QED BY <3>1, Unlocked
  <2>3. CASE e = c
    <3>1. Offers(d, k) /\ ~Locked
      BY <1>1, <1>3, <2>3 DEF Offers
    <3> QED BY <3>1, Unlocked
  <2> QED BY <2>1, <2>2, <2>3
<1>4. LockExclusive'
  BY <1>3 DEF LockExclusive, Offers
<1> QED BY <1>2, <1>4

LEMMA NewEventIsPacket ==
  ASSUME NEW e \in NewEvents, NEW n \in Nat
  PROVE  [e EXCEPT !.number = n] \in Packet
<1>1. Moves \subseteq Int \X Int /\ <<0, 0>> \in Int \X Int
  BY InputAssumption DEF Int16Min
<1>2. Zero \in [Kinds -> Nat] /\ TRUE \in BOOLEAN
  BY DEF Zero
<1>3. \E k \in Kinds \cup Discrete, m \in Int \X Int, b \in Buttons \cup {NoButtons} : e = Event(k, m, b)
  <2>1. CASE \E m \in Moves : e = Event("relative", m, NoButtons)
    BY <1>1, <2>1, KindsApart
  <2>2. CASE \E k \in Latest \cup {"click"} : e = Event(k, <<0, 0>>, NoButtons)
    BY <1>1, <2>2, KindsApart DEF Discrete
  <2>3. CASE \E k \in {"pad", "pen"}, b \in Buttons : e = Event(k, <<0, 0>>, b)
    BY <1>1, <2>3 DEF Discrete
  <2> QED BY <2>1, <2>2, <2>3 DEF NewEvents
<1>4. PICK k \in Kinds \cup Discrete, m \in Int \X Int, b \in Buttons \cup {NoButtons} :
         e = Event(k, m, b)
  BY <1>3
<1>5. 0 \in Nat
  OBVIOUS
<1>6. e \in Packet
  BY <1>2, <1>4, <1>5, Zenon DEF Event, Packet
<1> QED BY <1>6 DEF Packet

\* What the calls of one thread may leave, whatever they were.
CallTypes ==
  /\ call \in [Client -> [at : {"idle", "entered", "allocated"}, event : Packet \cup {Nothing}]]
  /\ \A c \in Client : call[c].at # "idle" => call[c].event \in Packet

LEMMA CallTypesKept ==
  ASSUME CallTypes, NEW c \in Client, NEW e \in Packet,
         NEW at \in {"entered", "allocated"},
         \/ call' = [call EXCEPT ![c] = [at |-> at, event |-> e]]
         \/ Return(c)
  PROVE  CallTypes'
<1>1. CASE call' = [call EXCEPT ![c] = [at |-> at, event |-> e]]
  BY <1>1 DEF CallTypes
<1>2. CASE Return(c)
  <2>1. Idle.at = "idle" /\ Idle \in [at : {"idle", "entered", "allocated"}, event : Packet \cup {Nothing}]
    BY DEF Idle
  <2> QED BY <1>2, <2>1 DEF CallTypes, Return
<1> QED BY <1>1, <1>2

LEMMA EnterStep ==
  ASSUME InputInv, NEW c \in Client, EnterCall(c)
  PROVE  InputInv'
<1> USE DEF InputInv, BatchedStateAccounted
<1>1. UNCHANGED <<relative, latest, penButtons, moved, moves, settled, refused, sender, hand, wire,
                  failed, queue, freeListShut, draining>>
  BY DEF EnterCall, thread, shut
<1>2. events' \in Nat
  BY DEF EnterCall, Types
<1>3. PICK e \in Packet : call' = [call EXCEPT ![c] = [at |-> "entered", event |-> e]]
  <2>1. PICK f \in NewEvents :
          call' = [call EXCEPT ![c] = [at |-> "entered", event |-> [f EXCEPT !.number = events']]]
    BY DEF EnterCall
  <2> QED BY <1>2, <2>1, NewEventIsPacket
<1>4. Types'
  <2>1. CallTypes'
    BY <1>3, CallTypesKept DEF Types, CallTypes
  <2> QED BY <1>1, <1>2, <2>1 DEF Types, CallTypes, SenderShape
<1>5. call'[c].at = "entered" /\ \A d \in Client \ {c} : call'[d] = call[d]
  BY <1>3 DEF Types
<1>6. LockExclusive' /\ OfferPending'
  BY <1>1, <1>5, OneCallChanges DEF Offers, Dirty
<1>7. DirtyMeansQueued'
  BY <1>1, SameSound DEF Dirty
<1>8. MovementAccounted'
  <2>1. call[c].at = "idle"
    BY DEF EnterCall
  <2>2. \A d \in Client : call[d].at = "allocated" => call'[d] = call[d]
    BY <1>5, <2>1
  <2> QED BY <1>1, <2>2 DEF MovementAccounted
<1> QED BY <1>1, <1>4, <1>6, <1>7, <1>8 DEF ShutOrder

\* From the test of initialized to the offer.
LEMMA ChangeStep ==
  ASSUME InputInv, NEW c \in Client, AddMovement(c) \/ SetLatest(c) \/ AllocateHolder(c)
  PROVE  InputInv'
<1> USE DEF InputInv, BatchedStateAccounted
<1> DEFINE e == call[c].event
<1>1. /\ UNCHANGED <<refused, events, sender, hand, wire, failed, queue, freeListShut, draining>>
      /\ call[c].at = "entered" /\ e \in Packet
  BY DEF AddMovement, SetLatest, AllocateHolder, thread, shut, Types
<1>2. /\ \E f \in Packet : f.kind = e.kind /\ (Return(c) \/ ToOffer(c, f))
      /\ e.kind \in Kinds => ~Locked /\ (Dirty(e.kind) \/ freeListShut => Return(c))
      /\ e.kind \in Kinds /\ ~Dirty(e.kind) /\ ~freeListShut => ToOffer(c, e)
  <2>1. CASE AddMovement(c)
    BY <1>1, <2>1, KindsApart DEF AddMovement, AllocateOr, Dirty
  <2>2. CASE SetLatest(c)
    BY <1>1, <2>2, KindsApart DEF SetLatest, AllocateOr, Dirty
  <2>3. CASE AllocateHolder(c)
    <3>1. e.kind \notin Kinds
      BY <2>3, KindsApart DEF AllocateHolder, Discrete
    <3>2. settled \in [Kinds -> Nat]
      BY DEF Types
    <3>3. /\ [e EXCEPT !.after = settled] \in Packet
          /\ [e EXCEPT !.after = settled].kind = e.kind
      BY <1>1, <3>2 DEF Packet
    <3>4. \A r \in BOOLEAN : /\ [e EXCEPT !.after = settled, !.reliable = r] \in Packet
                            /\ [e EXCEPT !.after = settled, !.reliable = r].kind = e.kind
      BY <1>1, <3>2 DEF Packet
    <3>5. (e.buttons # penButtons) \in BOOLEAN
      OBVIOUS
    <3> QED BY <1>1, <2>3, <3>1, <3>3, <3>4, <3>5 DEF AllocateHolder, AllocateOr
  <2> QED BY <2>1, <2>2, <2>3
<1>3. \A k \in Kinds : Dirty(k)' <=> Dirty(k)
  <2>1. relative'.dirty = relative.dirty
    BY DEF Types, AddMovement, SetLatest, AllocateHolder
  <2>2. ASSUME NEW k \in Latest PROVE latest'[k].dirty = latest[k].dirty
    <3>1. \/ latest' = latest
          \/ latest' = [latest EXCEPT ![e.kind] = [latest[e.kind] EXCEPT !.number = @ + 1]]
      BY DEF AddMovement, SetLatest, AllocateHolder
    <3>2. latest[k] \in [number : Nat, dirty : BOOLEAN]
      BY DEF Types
    <3> QED BY <3>1, <3>2 DEF Types
  <2> QED BY <2>1, <2>2, KindsApart DEF Dirty
<1>4. CallTypes'
  BY <1>2, CallTypesKept DEF Types, CallTypes, ToOffer
<1>5. \A d \in Client \ {c} : call'[d] = call[d]
  BY <1>2 DEF Types, Return, ToOffer
<1>6. LockExclusive' /\ OfferPending'
  <2>1. Return(c) => \A k \in Kinds : ~Offers(c, k)'
    BY DEF Return, Idle, Offers, Types
  <2>2. \A f : ToOffer(c, f) => \A k \in Kinds : Offers(c, k)' => k = f.kind
    BY DEF ToOffer, Offers, Types
  <2>3. \/ \A k \in Kinds : ~Offers(c, k)'
        \/ ~Locked /\ \A k \in Kinds : Offers(c, k)' => ~Dirty(k)
    BY <1>2, <2>1, <2>2
  <2> QED BY <1>3, <1>5, <2>3, OneCallChanges
<1>7. DirtyMeansQueued'
  BY <1>1, <1>3, SameSound
<1>8. Types'
  <2>1. CASE AddMovement(c)
    <3>1. e.move[1] \in Int /\ e.move[2] \in Int
      BY <1>1 DEF Packet
    <3>2. relative' \in [x : Int, y : Int, dirty : BOOLEAN] /\ moved' \in [x : Int, y : Int]
      <4>1. /\ moved.x + e.move[1] \in Int /\ moved.y + e.move[2] \in Int
            /\ relative.x + e.move[1] \in Int /\ relative.y + e.move[2] \in Int
        BY <3>1 DEF Types
      <4>2. moved' = [x |-> moved.x + e.move[1], y |-> moved.y + e.move[2]]
        BY <2>1 DEF AddMovement
      <4>3. relative' = [relative EXCEPT !.x = @ + e.move[1], !.y = @ + e.move[2]]
        BY <2>1 DEF AddMovement
      <4>4. moved' \in [x : Int, y : Int]
        BY <4>1, <4>2
      <4> QED BY <4>1, <4>3, <4>4 DEF Types
    <3>3. moves' \in Nat
      BY <2>1 DEF AddMovement, Types
    <3>4. settled' \in [Kinds -> Nat]
      BY <2>1, <3>3 DEF AddMovement, Types, Settle
    <3> QED BY <1>1, <1>4, <2>1, <3>2, <3>3, <3>4 DEF AddMovement, Types, CallTypes, SenderShape, thread
  <2>2. CASE SetLatest(c)
    <3>1. latest[e.kind].number + 1 \in Nat /\ e.kind \in Latest
      BY <2>2 DEF SetLatest, Types
    <3>2. latest' \in [Latest -> [number : Nat, dirty : BOOLEAN]]
      BY <2>2, <3>1 DEF SetLatest, Types
    <3>3. settled' \in [Kinds -> Nat]
      BY <2>2, <3>1 DEF SetLatest, Types, Settle
    <3> QED BY <1>1, <1>4, <2>2, <3>2, <3>3 DEF SetLatest, Types, CallTypes, SenderShape, thread
  <2>3. CASE AllocateHolder(c)
    <3>1. penButtons' \in Buttons \cup {NoButtons}
      BY <1>1, <2>3 DEF AllocateHolder, Types, Packet
    <3> QED BY <1>1, <1>4, <2>3, <3>1 DEF AllocateHolder, Types, CallTypes, SenderShape, thread
  <2> QED BY <2>1, <2>2, <2>3
<1>9. MovementAccounted'
  <2>1. \A d \in Client : Offers(d, "relative") => d # c /\ Offers(d, "relative")'
    BY <1>1, <1>5 DEF Offers
  <2>2. CASE AddMovement(c)
    <3>1. /\ relative'.x = relative.x + e.move[1] /\ relative'.y = relative.y + e.move[2]
          /\ moved'.x = moved.x + e.move[1] /\ moved'.y = moved.y + e.move[2]
          /\ wire' = wire /\ relative'.dirty = relative.dirty /\ e.kind = "relative"
      BY <2>2 DEF AddMovement, Types, thread
    <3>2. /\ relative.x \in Int /\ relative.y \in Int /\ moved.x \in Int /\ moved.y \in Int
          /\ wire.x \in Int /\ wire.y \in Int /\ e.move[1] \in Int /\ e.move[2] \in Int
      BY <1>1 DEF Types, Packet
    <3>3. ~failed' => wire'.x + relative'.x = moved'.x /\ wire'.y + relative'.y = moved'.y
      BY <1>1, <3>1, <3>2 DEF MovementAccounted
    <3>4. ~freeListShut /\ ~relative.dirty => Offers(c, "relative")'
      <4>1. ~freeListShut /\ ~relative.dirty => ToOffer(c, e)
        BY <1>2, <3>1, KindsApart DEF Dirty
      <4> QED BY <3>1, <4>1 DEF ToOffer, Offers, Types
    <3> QED BY <1>1, <3>1, <3>3, <3>4 DEF MovementAccounted, Offers
  <2>3. CASE SetLatest(c) \/ AllocateHolder(c)
    <3>1. UNCHANGED <<relative, moved, wire>>
      BY <2>3 DEF SetLatest, AllocateHolder, thread
    <3> QED BY <1>1, <2>1, <3>1 DEF MovementAccounted, Offers
  <2> QED BY <2>2, <2>3
<1> QED BY <1>1, <1>6, <1>7, <1>8, <1>9 DEF ShutOrder

-----------------------------------------------------------------------------
(***************************************************************************)
(* The offer.                                                              *)
(***************************************************************************)
LEMMA OfferStep ==
  ASSUME InputInv, NEW c \in Client, OfferHolder(c)
  PROVE  InputInv'
<1> USE DEF InputInv, BatchedStateAccounted
<1> DEFINE e == call[c].event
           full == Len(queue) >= QueueBound
           queued == ~draining /\ ~full
<1>1. /\ UNCHANGED <<penButtons, moved, moves, events, sender, hand, wire, failed, freeListShut,
                    draining>>
      /\ call[c].at = "allocated" /\ e \in Packet /\ Return(c)
      /\ queue' = (IF queued THEN Append(queue, e) ELSE queue)
      /\ MarkDirty(e.kind, queued)
      /\ refused' = (refused \/ (full /\ ~draining))
  BY DEF OfferHolder, thread, shut, Types
<1>2. relative'.x = relative.x /\ relative'.y = relative.y
      /\ relative'.dirty = (relative.dirty \/ (e.kind = "relative" /\ queued))
  BY <1>1 DEF MarkDirty, Types
<1>3. \A k \in Kinds : Dirty(k)' <=> Dirty(k) \/ (k = e.kind /\ queued)
  <2>1. \A k \in Latest : latest'[k].dirty <=> latest[k].dirty \/ (k = e.kind /\ queued)
    <3> SUFFICES ASSUME NEW k \in Latest
                 PROVE  latest'[k].dirty <=> latest[k].dirty \/ (k = e.kind /\ queued)
      OBVIOUS
    <3>1. latest'[k] = [latest[k] EXCEPT !.dirty = @ \/ (e.kind = k /\ queued)]
      BY <1>1 DEF MarkDirty
    <3>2. latest[k] \in [number : Nat, dirty : BOOLEAN]
      BY DEF Types
    <3> QED BY <3>1, <3>2
  <2> QED BY <1>2, <2>1, KindsApart DEF Dirty
<1>4. /\ call'[c].at = "idle" /\ \A d \in Client \ {c} : call'[d] = call[d]
      /\ \A k \in Kinds : ~Offers(c, k)'
      /\ \A d \in Client \ {c} : \A k : Offers(d, k)' <=> Offers(d, k)
  BY <1>1 DEF Return, Idle, Types, Offers
<1>5. \A k \in Kinds : k = e.kind <=> Offers(c, k)
  BY <1>1 DEF Offers
<1>6. LockExclusive'
  BY <1>4 DEF LockExclusive
<1>7. OfferPending'
  <2> SUFFICES ASSUME NEW d \in Client, NEW k \in Kinds, Offers(d, k)' PROVE ~Dirty(k)'
    BY DEF OfferPending, Offers, Dirty
  <2>1. d # c /\ Offers(d, k)
    BY <1>4
  <2>2. ~Dirty(k) /\ ~Offers(c, k)
    BY <2>1 DEF OfferPending, LockExclusive
  <2> QED BY <1>3, <1>5, <2>2
<1>8. queue' \in Seq(Packet)
  BY <1>1 DEF Types
<1>9. Types'
  <2>1. CallTypes'
    BY <1>1, CallTypesKept DEF Types, CallTypes
  <2>2. relative' \in [x : Int, y : Int, dirty : BOOLEAN]
    BY <1>1 DEF MarkDirty, Types
  <2>3. latest' \in [Latest -> [number : Nat, dirty : BOOLEAN]]
    <3>1. \A k \in Latest : [latest[k] EXCEPT !.dirty = @ \/ (e.kind = k /\ queued)]
                              \in [number : Nat, dirty : BOOLEAN]
      BY DEF Types
    <3>2. latest' = [k \in Latest |-> [latest[k] EXCEPT !.dirty = @ \/ (e.kind = k /\ queued)]]
      BY <1>1 DEF MarkDirty
    <3> QED BY <3>1, <3>2
  <2>4. settled' \in [Kinds -> Nat]
    <3>1. settled' = [k \in Kinds |-> IF k = e.kind THEN Newest(k) ELSE settled[k]]
      BY DEF OfferHolder
    <3>2. \A k \in Kinds : settled[k] \in Nat /\ Newest(k) \in Nat
      BY KindsApart DEF Types, Newest
    <3> QED BY <3>1, <3>2
  <2> QED BY <1>1, <1>8, <2>1, <2>2, <2>3, <2>4 DEF Types, CallTypes, SenderShape
<1>10. DirtyMeansQueued'
  <2>1. SUFFICES ASSUME sender # "ended", NEW k \in Kinds PROVE Sound(k)'
    BY <1>1 DEF DirtyMeansQueued, Sound, Dirty
  <2>2. Sound(k) /\ (InSender(k)' <=> InSender(k))
    BY <1>1, SoundMeans, <2>1 DEF InSender
  <2>3. CASE queued /\ k = e.kind
    <3>1. ~Dirty(k)
      BY <1>5, <2>3 DEF OfferPending
    <3>2. ~InSender(k) /\ Holders(k) = {}
      BY <2>2, <3>1 DEF Sound
    <3>3. Holders(k)' = {Len(queue) + 1}
      BY <1>1, <2>3, <3>2, AppendHolders DEF Types
    <3> QED BY <1>3, <2>2, <2>3, <3>2, <3>3 DEF Sound
  <2>4. CASE ~(queued /\ k = e.kind)
    <3>1. Holders(k)' = Holders(k)
      <4>1. CASE queued
        BY <1>1, <2>4, <4>1, AppendHolders DEF Types
      <4>2. CASE ~queued
        BY <1>1, <4>2 DEF Holders
      <4> QED BY <4>1, <4>2
    <3> QED BY <1>3, <2>2, <2>4, <3>1 DEF Sound
  <2> QED BY <2>3, <2>4
<1>11. MovementAccounted'
  <2>1. ~failed' => wire'.x + relative'.x = moved'.x /\ wire'.y + relative'.y = moved'.y
    BY <1>1, <1>2 DEF MovementAccounted
  <2>2. ASSUME ~failed', ~refused', ~freeListShut', relative'.x # 0 \/ relative'.y # 0,
               ~relative'.dirty
        PROVE  \E d \in Client : Offers(d, "relative")'
    <3>1. PICK d \in Client : Offers(d, "relative")
      BY <1>1, <1>2, <2>2 DEF MovementAccounted, Offers
    <3>2. CASE d = c
      <4>1. queued
        BY <1>1, <2>2 DEF ShutOrder
      <4> QED BY <1>2, <2>2, <3>1, <3>2, <4>1 DEF Offers
    <3>3. CASE d # c
      BY <1>4, <3>1, <3>3
    <3> QED BY <3>2, <3>3
  <2> QED BY <2>1, <2>2 DEF MovementAccounted, Offers
<1> QED BY <1>1, <1>6, <1>7, <1>9, <1>10, <1>11 DEF ShutOrder

-----------------------------------------------------------------------------
(***************************************************************************)
(* The sender.                                                             *)
(***************************************************************************)
\* Its steps do not touch the calls, and clear flags at most.
LEMMA SenderLeavesCalls ==
  ASSUME InputInv, UNCHANGED <<call, freeListShut, draining>>,
         \A k \in Kinds : Dirty(k)' => Dirty(k)
  PROVE  LockExclusive' /\ OfferPending' /\ ShutOrder'
BY DEF InputInv, LockExclusive, OfferPending, ShutOrder, Offers, Dirty

\* Where a packet goes after it was taken.
LEMMA StageFits ==
  ASSUME NEW e \in Packet
  PROVE  /\ Stage(e.kind) \in {"relative", "fill", "batch", "send"}
         /\ Stage(e.kind) = "relative" <=> e.kind = "relative"
         /\ Stage(e.kind) = "fill" <=> e.kind \in Latest
         /\ Stage(e.kind) = "batch" => e.kind \in {"pad", "pen"}
         /\ Stage(e.kind) = "send" => e.kind \in Discrete
<1>1. e.kind \in Kinds \cup Discrete
  BY DEF Packet
<1> QED BY <1>1, KindsApart DEF Stage, Discrete

LEMMA TakeStep ==
  ASSUME InputInv, TakePacket
  PROVE  InputInv'
<1> USE DEF InputInv, BatchedStateAccounted
<1>1. /\ UNCHANGED <<clients, wire, failed, freeListShut, draining>> /\ sender = "wait"
      /\ hand.kind = "nothing"
  BY DEF TakePacket, shut, Types, SenderShape
<1>2. LockExclusive' /\ OfferPending' /\ ShutOrder'
  BY <1>1, SenderLeavesCalls DEF clients, Dirty
<1>3. MovementAccounted'
  BY <1>1 DEF MovementAccounted, clients
<1>4. CASE queue = <<>>
  <2>1. sender' = "ended" /\ UNCHANGED <<hand, queue>>
    BY <1>4 DEF TakePacket
  <2>2. Types'
    BY <1>1, <2>1 DEF Types, SenderShape, clients
  <2>3. DirtyMeansQueued'
    BY <2>1 DEF DirtyMeansQueued
  <2> QED BY <1>2, <1>3, <2>2, <2>3
<1>5. CASE queue # <<>>
  <2> DEFINE e == Head(queue)
  <2>1. /\ hand' = e /\ queue' = Tail(queue) /\ sender' = Stage(e.kind)
        /\ e \in Packet /\ queue' \in Seq(Packet) /\ queue \in Seq(Packet)
    BY <1>5, TailHolders DEF TakePacket, Types
  <2>2. Types'
    <3>1. SenderShape'
      BY <2>1, StageFits DEF SenderShape
    <3> QED BY <1>1, <2>1, <3>1 DEF Types, clients
  <2>3. DirtyMeansQueued'
    <3>1. SUFFICES ASSUME NEW k \in Kinds PROVE Sound(k)'
      BY DEF DirtyMeansQueued, Sound, Dirty
    <3>2. Sound(k) /\ ~InSender(k) /\ (Dirty(k)' <=> Dirty(k))
      BY <1>1, SoundMeans, KindsApart DEF InSender, Dirty, clients
    <3>3. InSender(k)' <=> e.kind = k
      BY <2>1, StageFits, KindsApart DEF InSender
    <3>4. CASE Dirty(k)
      <4>1. PICK i \in Holders(k) : Holders(k) = {i}
        BY <3>2, <3>4 DEF Sound
      <4>2. IF e.kind = k THEN Holders(k)' = {} ELSE \E j \in Holders(k)' : Holders(k)' = {j}
        BY <1>5, <2>1, <4>1, TailHolders
      <4> QED BY <3>2, <3>3, <3>4, <4>2 DEF Sound
    <3>5. CASE ~Dirty(k)
      <4>1. Holders(k) = {}
        BY <3>2, <3>5 DEF Sound
      <4>2. Holders(k)' = {} /\ e.kind # k
        BY <1>5, <2>1, <4>1, TailHolders
      <4> QED BY <3>2, <3>3, <3>5, <4>2 DEF Sound
    <3> QED BY <3>4, <3>5
  <2> QED BY <1>2, <1>3, <2>2, <2>3
<1> QED BY <1>4, <1>5

LEMMA MergeStep ==
  ASSUME InputInv, MergeNext
  PROVE  InputInv'
<1> USE DEF InputInv, BatchedStateAccounted
<1>1. /\ UNCHANGED <<clients, wire, failed, freeListShut, draining>> /\ sender = "batch"
      /\ hand.kind \in {"pad", "pen"} /\ hand \in Packet /\ queue \in Seq(Packet)
  BY DEF MergeNext, shut, Types, SenderShape
<1>2. LockExclusive' /\ OfferPending' /\ ShutOrder'
  BY <1>1, SenderLeavesCalls DEF clients, Dirty
<1>3. MovementAccounted'
  BY <1>1 DEF MovementAccounted, clients
<1>4. \A k \in Kinds : Sound(k) /\ ~InSender(k) /\ (Dirty(k)' <=> Dirty(k))
  BY <1>1, SoundMeans DEF InSender, Dirty, clients
<1>5. CASE queue # <<>> /\ Mergeable(hand, Head(queue))
  <2> DEFINE e == Head(queue)
  <2>1. /\ queue' = Tail(queue) /\ sender' = sender /\ e.kind = hand.kind
        /\ e \in Packet /\ queue' \in Seq(Packet)
    BY <1>1, <1>5, TailHolders DEF MergeNext, Mergeable
  <2>2. hand' \in Packet /\ hand'.kind = hand.kind
    BY <1>1, <1>5, <2>1 DEF MergeNext, Packet
  <2>3. Types'
    BY <1>1, <2>1, <2>2 DEF Types, SenderShape, clients
  <2>4. DirtyMeansQueued'
    <3>1. SUFFICES ASSUME NEW k \in Kinds PROVE Sound(k)'
      BY DEF DirtyMeansQueued, Sound, Dirty
    <3>2. e.kind # k /\ ~InSender(k)'
      BY <1>1, <2>1, <2>2, KindsApart DEF InSender
    <3>3. CASE Dirty(k)
      <4>1. PICK i \in Holders(k) : Holders(k) = {i}
        BY <1>4, <3>3 DEF Sound
      <4>2. \E j \in Holders(k)' : Holders(k)' = {j}
        BY <1>1, <1>5, <2>1, <3>2, <4>1, TailHolders
      <4> QED BY <1>4, <3>2, <3>3, <4>2 DEF Sound
    <3>4. CASE ~Dirty(k)
      <4>1. Holders(k)' = {}
        BY <1>1, <1>4, <1>5, <2>1, <3>4, TailHolders DEF Sound
      <4> QED BY <1>4, <3>2, <3>4, <4>1 DEF Sound
    <3> QED BY <3>3, <3>4
  <2> QED BY <1>2, <1>3, <2>3, <2>4
<1>6. CASE ~(queue # <<>> /\ Mergeable(hand, Head(queue)))
  <2>1. sender' = "send" /\ UNCHANGED <<hand, queue>>
    BY <1>6 DEF MergeNext
  <2>2. Types'
    BY <1>1, <2>1 DEF Types, SenderShape, clients, Discrete
  <2>3. DirtyMeansQueued'
    <3>1. SUFFICES ASSUME NEW k \in Kinds PROVE Sound(k)'
      BY DEF DirtyMeansQueued, Sound, Dirty
    <3>2. ~InSender(k)' /\ Holders(k)' = Holders(k)
      BY <2>1 DEF InSender, Holders
    <3> QED BY <1>4, <3>2 DEF Sound
  <2> QED BY <1>2, <1>3, <2>2, <2>3
<1> QED BY <1>5, <1>6

\* The packet gets the newest value, and the flag is cleared with it.
LEMMA FillStep ==
  ASSUME InputInv, FillLatest
  PROVE  InputInv'
<1> USE DEF InputInv, BatchedStateAccounted
<1>0. PICK l \in Latest : l = hand.kind
  BY DEF FillLatest, Types, SenderShape
<1>1. /\ UNCHANGED <<call, relative, penButtons, moved, moves, settled, refused, events, wire, failed,
                    freeListShut, draining, queue>>
      /\ sender = "fill" /\ sender' = "send" /\ hand \in Packet
      /\ hand' = [hand EXCEPT !.number = latest[l].number]
      /\ latest' = [latest EXCEPT ![l].dirty = FALSE]
  BY <1>0 DEF FillLatest, shut, Types, SenderShape
<1>2. latest' \in [Latest -> [number : Nat, dirty : BOOLEAN]]
  BY <1>1 DEF Types
<1>3. hand' \in Packet /\ hand'.kind = l
  <2>1. latest[l].number \in Nat
    BY <1>1 DEF Types
  <2> QED BY <1>0, <1>1, <2>1 DEF Packet
<1>4. Types'
  BY <1>1, <1>2, <1>3 DEF Types, SenderShape
<1>5. ~Dirty(l)' /\ \A k \in Kinds \ {l} : Dirty(k)' <=> Dirty(k)
  <2>1. l # "relative"
    BY KindsApart
  <2>2. latest'[l].dirty = FALSE /\ \A k \in Latest \ {l} : latest'[k] = latest[k]
    BY <1>1 DEF Types
  <2> QED BY <1>1, <2>1, <2>2, KindsApart DEF Dirty
<1>6. LockExclusive' /\ OfferPending' /\ ShutOrder'
  <2>1. \A k \in Kinds : Dirty(k)' => Dirty(k)
    <3> TAKE k \in Kinds
    <3>1. CASE k = l
      BY <1>5, <3>1 DEF Dirty
    <3>2. CASE k # l
      BY <1>5, <3>2
    <3> QED BY <3>1, <3>2
  <2> QED BY <1>1, <2>1, SenderLeavesCalls
<1>7. MovementAccounted'
  BY <1>1 DEF MovementAccounted
<1>8. DirtyMeansQueued'
  <2>1. SUFFICES ASSUME NEW k \in Kinds PROVE Sound(k)'
    BY DEF DirtyMeansQueued, Sound, Dirty
  <2>2. Sound(k) /\ ~InSender(k)' /\ Holders(k)' = Holders(k)
    BY <1>1, SoundMeans DEF InSender, Holders
  <2>3. CASE k = l
    <3>1. InSender(k)
      BY <1>0, <1>1, <2>3 DEF InSender
    <3>2. Holders(k) = {}
      BY <2>2, <3>1 DEF Sound
    <3>3. ~Dirty(k)'
      BY <1>5, <2>3 DEF Dirty
    <3> QED BY <2>2, <3>2, <3>3 DEF Sound
  <2>4. CASE k # l
    <3>1. ~InSender(k)
      BY <1>0, <2>4 DEF InSender
    <3> QED BY <1>5, <2>2, <2>4, <3>1 DEF Sound
  <2> QED BY <2>3, <2>4
<1> QED BY <1>4, <1>6, <1>7, <1>8

LEMMA SendStep ==
  ASSUME InputInv, SendPacket
  PROVE  InputInv'
<1> USE DEF InputInv, BatchedStateAccounted
<1>1. /\ UNCHANGED <<call, relative, latest, penButtons, moved, moves, settled, refused, events, wire,
                    freeListShut, draining, queue>>
      /\ sender = "send" /\ hand' = Nothing /\ sender' \in {"wait", "ended"}
      /\ failed => failed'
  BY DEF SendPacket, SendFails, shut
<1>2. hand'.kind = "nothing"
  BY <1>1 DEF Nothing, Event
<1>3. Types'
  BY <1>1, <1>2 DEF Types, SenderShape
<1>4. LockExclusive' /\ OfferPending' /\ ShutOrder'
  BY <1>1, SenderLeavesCalls DEF Dirty
<1>5. MovementAccounted'
  BY <1>1 DEF MovementAccounted
<1>6. DirtyMeansQueued'
  <2>1. SUFFICES ASSUME NEW k \in Kinds PROVE Sound(k)'
    BY DEF DirtyMeansQueued, Sound, Dirty
  <2>2. Sound(k) /\ ~InSender(k) /\ ~InSender(k)' /\ Holders(k)' = Holders(k)
        /\ (Dirty(k)' <=> Dirty(k))
    BY <1>1, SoundMeans DEF InSender, Holders, Dirty
  <2> QED BY <2>2 DEF Sound
<1> QED BY <1>3, <1>4, <1>5, <1>6

LEMMA ChunkInt == ASSUME NEW d \in Int PROVE Chunk(d) \in Int
BY InputAssumption DEF Chunk, Int16Min

\* A chunk is taken from the pending movement and sent; nothing is pending when
\* the flag is cleared.
LEMMA RelativeStep ==
  ASSUME InputInv, SendRelative
  PROVE  InputInv'
<1> USE DEF InputInv, BatchedStateAccounted
<1> DEFINE dx == Chunk(relative.x)
           dy == Chunk(relative.y)
           none == relative.x = 0 /\ relative.y = 0
<1>1. /\ UNCHANGED <<call, latest, penButtons, moved, moves, settled, refused, events, freeListShut,
                    draining, queue>>
      /\ sender = "relative" /\ hand.kind = "relative" /\ hand \in Packet /\ ~Locked
  BY DEF SendRelative, shut, Types, SenderShape
<1>2. /\ relative.x \in Int /\ relative.y \in Int /\ dx \in Int /\ dy \in Int
      /\ relative.dirty \in BOOLEAN /\ relative \in [x : Int, y : Int, dirty : BOOLEAN]
      /\ wire.x \in Int /\ wire.y \in Int /\ moved.x \in Int /\ moved.y \in Int
  BY ChunkInt DEF Types
<1>3. CASE none
  <2>1. /\ relative' = [relative EXCEPT !.dirty = FALSE] /\ sender' = "wait" /\ hand' = Nothing
        /\ wire' = wire /\ failed' = failed
    BY <1>3 DEF SendRelative
  <2>2. /\ relative' \in [x : Int, y : Int, dirty : BOOLEAN] /\ relative'.dirty = FALSE
        /\ relative'.x = relative.x /\ relative'.y = relative.y
    BY <1>2, <2>1
  <2>3. hand'.kind = "nothing"
    BY <2>1 DEF Nothing, Event
  <2>4. Types'
    BY <1>1, <2>1, <2>2, <2>3 DEF Types, SenderShape
  <2>5. \A k \in Kinds : Dirty(k)' <=> Dirty(k) /\ k # "relative"
    BY <1>1, <2>2 DEF Dirty
  <2>6. LockExclusive' /\ OfferPending' /\ ShutOrder'
    BY <1>1, <2>5, SenderLeavesCalls
  <2>7. MovementAccounted'
    BY <1>1, <1>3, <2>1, <2>2 DEF MovementAccounted
  <2>8. DirtyMeansQueued'
    <3>1. SUFFICES ASSUME NEW k \in Kinds PROVE Sound(k)'
      BY DEF DirtyMeansQueued, Sound, Dirty
    <3>2. Sound(k) /\ ~InSender(k)' /\ Holders(k)' = Holders(k)
          /\ (InSender(k) <=> k = "relative")
      BY <1>1, <2>1, SoundMeans DEF InSender, Holders
    <3> QED BY <2>5, <3>2 DEF Sound
  <2> QED BY <2>4, <2>6, <2>7, <2>8
<1>4. CASE ~none
  <2>1. /\ relative' = [relative EXCEPT !.x = @ - dx, !.y = @ - dy]
        /\ \/ /\ wire' = [x |-> wire.x + dx, y |-> wire.y + dy]
              /\ UNCHANGED <<sender, hand, failed>>
           \/ SendFails /\ wire' = wire
    BY <1>4 DEF SendRelative
  <2>2. /\ relative' \in [x : Int, y : Int, dirty : BOOLEAN] /\ relative'.dirty = relative.dirty
        /\ relative'.x = relative.x - dx /\ relative'.y = relative.y - dy
    <3> HIDE DEF dx, dy
    <3>1. relative' = [relative EXCEPT !.x = relative.x - dx, !.y = relative.y - dy]
      BY <2>1
    <3>2. relative.x - dx \in Int /\ relative.y - dy \in Int
      BY <1>2
    <3> QED BY <1>2, <3>1, <3>2
  <2>3. wire' \in [x : Int, y : Int]
    BY <1>2, <2>1 DEF Types
  <2>4. SenderShape'
    <3>1. CASE UNCHANGED <<sender, hand>>
      BY <3>1 DEF Types, SenderShape
    <3>2. CASE SendFails
      BY <3>2 DEF SendFails, SenderShape
    <3> QED BY <2>1, <3>1, <3>2
  <2>5. Types'
    BY <1>1, <2>2, <2>3, <2>4 DEF Types
  <2>6. \A k \in Kinds : Dirty(k)' <=> Dirty(k)
    BY <1>1, <2>2 DEF Dirty
  <2>7. LockExclusive' /\ OfferPending' /\ ShutOrder'
    BY <1>1, <2>6, SenderLeavesCalls
  <2>8. CASE UNCHANGED <<sender, hand, failed>>
             /\ wire' = [x |-> wire.x + dx, y |-> wire.y + dy]
    <3>1. DirtyMeansQueued'
      BY <1>1, <2>6, <2>8, SameSound
    <3>2. wire'.x = wire.x + dx /\ wire'.y = wire.y + dy
      BY <2>8
    <3>3. ~failed' => wire'.x + relative'.x = moved'.x /\ wire'.y + relative'.y = moved'.y
      <4> SUFFICES ASSUME ~failed
                   PROVE  wire'.x + relative'.x = moved.x /\ wire'.y + relative'.y = moved.y
        BY <1>1, <2>8
      <4>1. wire.x + relative.x = moved.x /\ wire.y + relative.y = moved.y
        BY DEF MovementAccounted
      <4> HIDE DEF dx, dy
      <4> QED BY <1>2, <2>2, <3>2, <4>1
    <3>4. relative.dirty
      <4>1. Sound("relative") /\ InSender("relative")
        BY <1>1, SoundMeans, KindsApart DEF InSender
      <4> QED BY <4>1 DEF Sound, Dirty
    <3>5. MovementAccounted'
      BY <2>2, <3>3, <3>4 DEF MovementAccounted
    <3> QED BY <2>5, <2>7, <3>1, <3>5
  <2>9. CASE SendFails
    <3>1. DirtyMeansQueued' /\ MovementAccounted'
      BY <2>9 DEF SendFails, DirtyMeansQueued, MovementAccounted
    <3> QED BY <2>5, <2>7, <3>1
  <2> QED BY <2>1, <2>8, <2>9
<1> QED BY <1>3, <1>4

\* The steps of stopInputStream, and stuttering.
LEMMA StopStepKeeps ==
  ASSUME InputInv, StopInputStream \/ StopStep \/ UNCHANGED vars
  PROVE  InputInv'
<1> USE DEF InputInv, BatchedStateAccounted
<1>1. /\ UNCHANGED <<clients, thread, queue>>
      /\ freeListShut => freeListShut'
      /\ draining' => draining \/ freeListShut
  BY DEF StopInputStream, StopStep, ShutFreeList, DrainQueue, JoinSender, Shutting, vars, shut
<1>2. Types'
  BY <1>1 DEF Types, SenderShape, clients, thread
<1>3. LockExclusive' /\ OfferPending' /\ ShutOrder'
  BY <1>1 DEF LockExclusive, OfferPending, ShutOrder, Offers, Dirty, clients
<1>4. DirtyMeansQueued'
  BY <1>1, SameSound DEF Dirty, clients, thread
<1>5. MovementAccounted'
  BY <1>1 DEF MovementAccounted, clients, thread
<1> QED BY <1>2, <1>3, <1>4, <1>5

-----------------------------------------------------------------------------
\* The strengthened invariant holds throughout.
THEOREM InputInvariant == Spec => []InputInv
<1>1. InputInv /\ [Next]_vars => InputInv'
  BY EnterStep, ChangeStep, OfferStep, TakeStep, MergeStep, FillStep, SendStep, RelativeStep,
     StopStepKeeps, InputRestart DEF Next, ClientStep, SenderStep
<1> QED BY <1>1, InputInit, PTL DEF Spec

\* For any number of client threads and any bound of the queue, a dirty flag
\* (currentRelativeMouseState.dirty and its like) stands for exactly one packet,
\* and no movement is lost, made up or sent twice.
THEOREM BatchingIsSound == Spec => []BatchedStateAccounted
<1>1. InputInv => BatchedStateAccounted
  BY DEF InputInv
<1> QED BY <1>1, InputInvariant, PTL
-----------------------------------------------------------------------------
(***************************************************************************)
(* The order of discrete events.  Those accepted and not sent yet are the  *)
(* one in the sender's hand, behind those it was merged with, followed by  *)
(* those in the queue.                                                     *)
(***************************************************************************)
HistoryTypes ==
  /\ awaiting \in Seq(Packet) /\ reached \in [Kinds -> Nat]
  /\ \A j \in 1..Len(awaiting) : awaiting[j].kind \in Discrete

\* Every event has a number of its own.
Numbered ==
  /\ \A i, j \in 1..Len(awaiting) : awaiting[i].number = awaiting[j].number => i = j
  /\ \A j \in 1..Len(awaiting) : awaiting[j].number <= events
  /\ \A c \in Client : call[c].at # "idle" =>
       /\ call[c].event.number <= events
       /\ \A j \in 1..Len(awaiting) : awaiting[j].number # call[c].event.number
       /\ \A d \in Client \ {c} :
            call[d].at # "idle" => call[d].event.number # call[c].event.number

InHand == sender \in {"batch", "send"} /\ hand.kind \in Discrete

\* The event in hand is the one accepted as h-th; those before were merged.
HandAt(h) ==
  /\ InHand => /\ h \in 1..Len(awaiting) /\ awaiting[h].number = hand.number
               /\ hand.kind # "click" \/ h = 1
               /\ \A j \in 1..h : awaiting[j].kind = hand.kind /\ awaiting[j].buttons = hand.buttons
  /\ ~InHand => h = 0

\* The events accepted after the h-th are those in the queue, in this order.
RestAt(h) ==
  /\ \A i \in 1..Len(queue) : queue[i].kind \in Discrete =>
       \E j \in h + 1..Len(awaiting) : awaiting[j] = queue[i]
  /\ \A j \in h + 1..Len(awaiting) : \E i \in 1..Len(queue) : awaiting[j] = queue[i]
  /\ \A i, k \in 1..Len(queue), j, l \in 1..Len(awaiting) :
       i < k /\ awaiting[j] = queue[i] /\ awaiting[l] = queue[k] => j < l

InLine == \E h \in 0..Len(awaiting) : HandAt(h) /\ RestAt(h)

OrderInv == HistoryTypes /\ (sender # "ended" => Numbered /\ InLine)

LEMMA TailFacts ==
  ASSUME NEW S, NEW q \in Seq(S), q # <<>>
  PROVE  /\ Head(q) \in S /\ Head(q) = q[1] /\ Tail(q) \in Seq(S) /\ Len(Tail(q)) = Len(q) - 1
         /\ Len(q) \in Nat \ {0} /\ \A i \in 1..Len(Tail(q)) : Tail(q)[i] = q[i + 1]
OBVIOUS

LEMMA AppendFacts ==
  ASSUME NEW S, NEW q \in Seq(S), NEW e \in S
  PROVE  /\ Append(q, e) \in Seq(S) /\ Len(Append(q, e)) = Len(q) + 1 /\ Len(q) \in Nat
         /\ Append(q, e)[Len(q) + 1] = e /\ \A i \in 1..Len(q) : Append(q, e)[i] = q[i]
OBVIOUS

LEMMA SuffixFacts ==
  ASSUME NEW S, NEW q \in Seq(S), NEW h \in 0..Len(q)
  PROVE  /\ SubSeq(q, h + 1, Len(q)) \in Seq(S) /\ Len(SubSeq(q, h + 1, Len(q))) = Len(q) - h
         /\ \A i \in 1..Len(q) - h : SubSeq(q, h + 1, Len(q))[i] = q[i + h]
OBVIOUS

LEMMA SeqFacts ==
  ASSUME NEW S, NEW q \in Seq(S)
  PROVE  Len(q) \in Nat /\ \A i \in 1..Len(q) : q[i] \in S
OBVIOUS

\* The first discrete packet of the queue is the next that was accepted.
LEMMA NextInLine ==
  ASSUME Types, HistoryTypes, Numbered, NEW h \in 0..Len(awaiting), RestAt(h),
         queue # <<>>, Head(queue).kind \in Discrete
  PROVE  h + 1 \in 1..Len(awaiting) /\ awaiting[h + 1] = Head(queue)
<1> HIDE DEF Packet
<1>1. /\ queue \in Seq(Packet) /\ Len(queue) \in Nat \ {0} /\ Head(queue) = queue[1]
      /\ Len(awaiting) \in Nat
  BY TailFacts, SeqFacts DEF Types, HistoryTypes
<1>2. PICK j \in h + 1..Len(awaiting) : awaiting[j] = queue[1]
  BY <1>1 DEF RestAt
<1>3. PICK i \in 1..Len(queue) : awaiting[h + 1] = queue[i]
  BY <1>1, <1>2 DEF RestAt
<1>4. CASE i = 1
  BY <1>1, <1>2, <1>3, <1>4
<1>5. CASE i # 1
  <2>1. 1 < i /\ h + 1 \in 1..Len(awaiting) /\ j \in 1..Len(awaiting) /\ 1 \in 1..Len(queue)
    BY <1>1, <1>2, <1>3, <1>5
  <2>2. j < h + 1
    BY <1>2, <1>3, <2>1 DEF RestAt
  <2> QED BY <1>1, <1>2, <2>2
<1> QED BY <1>4, <1>5

\* Taking it leaves the others in line.
LEMMA RestOfTail ==
  ASSUME Types, HistoryTypes, Numbered, NEW h \in 0..Len(awaiting), RestAt(h),
         queue # <<>>, queue' = Tail(queue), awaiting' = awaiting
  PROVE  IF Head(queue).kind \in Discrete THEN RestAt(h + 1)' ELSE RestAt(h)'
<1> HIDE DEF Packet
<1>1. /\ queue \in Seq(Packet) /\ Len(queue) \in Nat \ {0} /\ Head(queue) = queue[1]
      /\ Len(queue') = Len(queue) - 1 /\ \A i \in 1..Len(queue') : queue'[i] = queue[i + 1]
      /\ Len(awaiting) \in Nat
  BY TailFacts, SeqFacts DEF Types, HistoryTypes
<1>2. \A i \in 1..Len(queue') : i + 1 \in 1..Len(queue)
  BY <1>1
<1>3. \A i, k \in 1..Len(queue'), j, l \in 1..Len(awaiting) :
        i < k /\ awaiting[j] = queue'[i] /\ awaiting[l] = queue'[k] => j < l
  <2> SUFFICES ASSUME NEW i \in 1..Len(queue'), NEW k \in 1..Len(queue'),
                      NEW j \in 1..Len(awaiting), NEW l \in 1..Len(awaiting),
                      i < k, awaiting[j] = queue'[i], awaiting[l] = queue'[k]
               PROVE  j < l
    OBVIOUS
  <2>1. i + 1 < k + 1 /\ awaiting[j] = queue[i + 1] /\ awaiting[l] = queue[k + 1]
    BY <1>1
  <2> QED BY <1>2, <2>1 DEF RestAt
<1>4. CASE Head(queue).kind \in Discrete
  <2>1. h + 1 \in 1..Len(awaiting) /\ awaiting[h + 1] = queue[1]
    BY <1>1, <1>4, NextInLine
  <2>2. ASSUME NEW i \in 1..Len(queue'), queue'[i].kind \in Discrete
        PROVE  \E j \in h + 2..Len(awaiting) : awaiting[j] = queue'[i]
    <3>1. PICK j \in h + 1..Len(awaiting) : awaiting[j] = queue[i + 1]
      BY <1>1, <1>2, <2>2 DEF RestAt
    <3>2. 1 < i + 1 /\ j \in 1..Len(awaiting) /\ 1 \in 1..Len(queue)
      BY <1>1, <3>1
    <3>3. h + 1 < j
      BY <1>2, <2>1, <3>1, <3>2 DEF RestAt
    <3> QED BY <1>1, <3>1, <3>3
  <2>3. ASSUME NEW j \in h + 2..Len(awaiting) PROVE \E i \in 1..Len(queue') : awaiting[j] = queue'[i]
    <3>1. PICK i \in 1..Len(queue) : awaiting[j] = queue[i]
      BY DEF RestAt
    <3>2. i # 1
      BY <2>1, <3>1 DEF Numbered
    <3>3. i - 1 \in 1..Len(queue') /\ queue'[i - 1] = queue[i]
      BY <1>1, <3>2
    <3> QED BY <3>1, <3>3
  <2>4. (h + 1) + 1 = h + 2
    OBVIOUS
  <2> QED BY <1>3, <1>4, <2>2, <2>3, <2>4 DEF RestAt
<1>5. CASE Head(queue).kind \notin Discrete
  <2>1. ASSUME NEW i \in 1..Len(queue'), queue'[i].kind \in Discrete
        PROVE  \E j \in h + 1..Len(awaiting) : awaiting[j] = queue'[i]
    BY <1>1, <1>2, <2>1 DEF RestAt
  <2>2. ASSUME NEW j \in h + 1..Len(awaiting) PROVE \E i \in 1..Len(queue') : awaiting[j] = queue'[i]
    <3>1. PICK i \in 1..Len(queue) : awaiting[j] = queue[i]
      BY DEF RestAt
    <3>2. i # 1
      BY <1>1, <1>5, <3>1 DEF HistoryTypes
    <3>3. i - 1 \in 1..Len(queue') /\ queue'[i - 1] = queue[i]
      BY <1>1, <3>2
    <3> QED BY <3>1, <3>3
  <2> QED BY <1>3, <1>5, <2>1, <2>2 DEF RestAt
<1> QED BY <1>4, <1>5
-----------------------------------------------------------------------------
\* A step that moves neither the queue nor what the sender holds.
LEMMA LineStays ==
  ASSUME InLine, UNCHANGED <<queue, awaiting>>, InHand' <=> InHand, InHand => hand' = hand
  PROVE  InLine'
<1>1. PICK h \in 0..Len(awaiting) : HandAt(h) /\ RestAt(h)
  BY DEF InLine
<1>2. queue' = queue /\ awaiting' = awaiting
  OBVIOUS
<1>3. RestAt(h)'
  BY <1>1, <1>2, Zenon DEF RestAt
<1>4. HandAt(h)'
  <2>1. CASE InHand
    BY <1>1, <1>2, <2>1 DEF HandAt
  <2>2. CASE ~InHand
    BY <1>1, <1>2, <2>2 DEF HandAt
  <2> QED BY <2>1, <2>2
<1> QED BY <1>1, <1>2, <1>3, <1>4 DEF InLine

LEMMA NumbersOfCalls ==
  ASSUME Numbered, UNCHANGED awaiting, NEW c \in Client, \A d \in Client \ {c} : call'[d] = call[d],
         events \in Nat, events' \in Nat, events <= events', HistoryTypes,
         \A d \in Client : call[d].at # "idle" => call[d].event.number \in Nat,
         \/ call'[c].at = "idle"
         \/ /\ events' = events + 1 /\ call'[c].event.number = events'
         \/ /\ call[c].at # "idle" /\ call'[c].event.number = call[c].event.number
  PROVE  Numbered'
<1>1. \A j \in 1..Len(awaiting) : awaiting[j].number \in Nat
  <2> HIDE DEF Packet
  <2>1. \A j \in 1..Len(awaiting) : awaiting[j] \in Packet
    BY SeqFacts DEF HistoryTypes
  <2> QED BY <2>1 DEF Packet
<1>2. CASE call'[c].at = "idle"
  BY <1>1, <1>2 DEF Numbered
<1>3. CASE events' = events + 1 /\ call'[c].event.number = events'
  BY <1>1, <1>3 DEF Numbered
<1>4. CASE call[c].at # "idle" /\ call'[c].event.number = call[c].event.number
  BY <1>1, <1>4 DEF Numbered
<1> QED BY <1>2, <1>3, <1>4

LEMMA EventNumber ==
  ASSUME NEW k, NEW m, NEW b, NEW n
  PROVE  [Event(k, m, b) EXCEPT !.number = n].number = n
BY Zenon DEF Event

LEMMA OrderOfCalls ==
  ASSUME InputInv, OrderInv, NEW c \in Client,
         EnterCall(c) \/ AddMovement(c) \/ SetLatest(c) \/ AllocateHolder(c)
  PROVE  OrderInv'
<1>1. UNCHANGED <<queue, awaiting, sender, hand, reached>>
  BY DEF EnterCall, AddMovement, SetLatest, AllocateHolder, thread
<1>2. /\ events \in Nat /\ \A d \in Client : call[d].at # "idle" => call[d].event \in Packet
      /\ call \in [Client -> [at : {"idle", "entered", "allocated"}, event : Packet \cup {Nothing}]]
  BY DEF InputInv, Types
<1>3. \A d \in Client : call[d].at # "idle" => call[d].event.number \in Nat
  BY <1>2 DEF Packet
<1>4. /\ \A d \in Client \ {c} : call'[d] = call[d]
      /\ \/ events' = events /\ call'[c].at = "idle"
         \/ /\ events' = events + 1 /\ call'[c].event.number = events'
         \/ /\ events' = events /\ call[c].at # "idle"
            /\ call'[c].event.number = call[c].event.number
  <2>1. CASE EnterCall(c)
    <3>1. PICK e \in NewEvents :
            call' = [call EXCEPT ![c] = [at |-> "entered", event |-> [e EXCEPT !.number = events']]]
      BY <2>1 DEF EnterCall
    <3>2. [e EXCEPT !.number = events'].number = events'
      <4>1. events' \in Nat /\ events' = events + 1
        BY <1>2, <2>1 DEF EnterCall
      <4>2. \E k, m, b : e = Event(k, m, b)
        <5>1. CASE \E m \in Moves : e = Event("relative", m, NoButtons)
          BY <5>1
        <5>2. CASE \E k \in Latest \cup {"click"} : e = Event(k, <<0, 0>>, NoButtons)
          BY <5>2
        <5>3. CASE \E k \in {"pad", "pen"}, b \in Buttons : e = Event(k, <<0, 0>>, b)
          BY <5>3
        <5> QED BY <5>1, <5>2, <5>3 DEF NewEvents
      <4>3. PICK k, m, b : e = Event(k, m, b)
        BY <4>2
      <4>4. [Event(k, m, b) EXCEPT !.number = events'].number = events'
        BY EventNumber
      <4> QED BY <4>3, <4>4, Zenon
    <3> DEFINE f == [e EXCEPT !.number = events']
    <3>3. f.number = events' /\ call' = [call EXCEPT ![c] = [at |-> "entered", event |-> f]]
      BY <3>1, <3>2
    <3> HIDE DEF f
    <3>4. call'[c].event = f /\ \A d \in Client \ {c} : call'[d] = call[d]
      BY <1>2, <3>3
    <3>5. events' = events + 1
      BY <2>1 DEF EnterCall
    <3> QED BY <3>3, <3>4, <3>5
  <2>2. CASE AddMovement(c) \/ SetLatest(c)
    <3>1. /\ call[c].at = "entered" /\ events' = events
          /\ call' = [call EXCEPT ![c] = Idle]
             \/ call' = [call EXCEPT ![c] = [at |-> "allocated", event |-> call[c].event]]
      BY <2>2 DEF AddMovement, SetLatest, AllocateOr, Return, ToOffer
    <3>2. \A d \in Client \ {c} : call'[d] = call[d]
      BY <1>2, <3>1
    <3>3. call'[c] = Idle \/ call'[c] = [at |-> "allocated", event |-> call[c].event]
      BY <1>2, <3>1
    <3> QED BY <3>1, <3>2, <3>3 DEF Idle
  <2>3. CASE AllocateHolder(c)
    <3>1. /\ call[c].at = "entered" /\ events' = events
          /\ \/ call' = [call EXCEPT ![c] = Idle]
             \/ call' = [call EXCEPT ![c] =
                  [at |-> "allocated", event |-> [call[c].event EXCEPT !.after = settled]]]
             \/ call' = [call EXCEPT ![c] =
                  [at |-> "allocated", event |-> [call[c].event EXCEPT !.after = settled,
                                          !.reliable = call[c].event.buttons # penButtons]]]
      BY <2>3 DEF AllocateHolder, AllocateOr, Return, ToOffer
    <3>2. \A r : /\ [call[c].event EXCEPT !.after = settled].number = call[c].event.number
                 /\ [call[c].event EXCEPT !.after = settled, !.reliable = r].number
                      = call[c].event.number
      BY <1>2, <3>1 DEF Packet
    <3> DEFINE f == [call[c].event EXCEPT !.after = settled]
               g == [call[c].event EXCEPT !.after = settled,
                                          !.reliable = call[c].event.buttons # penButtons]
    <3>5. f.number = call[c].event.number /\ g.number = call[c].event.number
      BY <3>2
    <3>6. \/ call' = [call EXCEPT ![c] = Idle]
          \/ call' = [call EXCEPT ![c] = [at |-> "allocated", event |-> f]]
          \/ call' = [call EXCEPT ![c] = [at |-> "allocated", event |-> g]]
      BY <3>1
    <3> HIDE DEF f, g
    <3>3. \A d \in Client \ {c} : call'[d] = call[d]
      BY <1>2, <3>6
    <3>4. call'[c] = Idle \/ call'[c].event.number = call[c].event.number
      BY <1>2, <3>5, <3>6
    <3> QED BY <3>1, <3>3, <3>4 DEF Idle
  <2> QED BY <2>1, <2>2, <2>3
<1>5. sender # "ended" => Numbered'
  BY <1>1, <1>2, <1>3, <1>4, NumbersOfCalls DEF OrderInv
<1>6. sender # "ended" => InLine'
  BY <1>1, LineStays DEF OrderInv, InHand
<1> QED BY <1>1, <1>5, <1>6 DEF OrderInv, HistoryTypes

LEMMA OrderOfOffer ==
  ASSUME InputInv, OrderInv, NEW c \in Client, OfferHolder(c)
  PROVE  OrderInv'
<1> DEFINE e == call[c].event
           queued == ~draining /\ ~(Len(queue) >= QueueBound)
<1>1. /\ UNCHANGED <<events, sender, hand, reached>> /\ call[c].at = "allocated"
      /\ queue' = (IF queued THEN Append(queue, e) ELSE queue)
      /\ awaiting' = (IF queued /\ e.kind \in Discrete THEN Append(awaiting, e) ELSE awaiting)
      /\ call' = [call EXCEPT ![c] = Idle]
  BY DEF OfferHolder, thread, Return
<1>2. /\ events \in Nat /\ e \in Packet /\ queue \in Seq(Packet) /\ awaiting \in Seq(Packet)
      /\ call \in [Client -> [at : {"idle", "entered", "allocated"}, event : Packet \cup {Nothing}]]
      /\ \A d \in Client : call[d].at # "idle" => call[d].event \in Packet
      /\ \A j \in 1..Len(awaiting) : awaiting[j].kind \in Discrete
  BY <1>1 DEF InputInv, Types, OrderInv, HistoryTypes
<1>3. \A d \in Client : call[d].at # "idle" => call[d].event.number \in Nat
  BY <1>2 DEF Packet
<1>4. call'[c].at = "idle" /\ \A d \in Client \ {c} : call'[d] = call[d]
  BY <1>1, <1>2 DEF Idle
<1> HIDE DEF Packet, e, queued
<1>5. CASE ~(queued /\ e.kind \in Discrete)
  <2>1. awaiting' = awaiting
    BY <1>1, <1>5
  <2>2. sender # "ended" => Numbered'
    BY <1>1, <1>2, <1>3, <1>4, <2>1, NumbersOfCalls DEF OrderInv
  <2>3. ASSUME sender # "ended" PROVE InLine'
    <3>1. CASE ~queued
      BY <1>1, <2>1, <2>3, <3>1, LineStays DEF OrderInv, InHand
    <3>2. CASE queued
      <4>1. PICK h \in 0..Len(awaiting) : HandAt(h) /\ RestAt(h)
        BY <2>3 DEF OrderInv, InLine
      <4>2. /\ Len(queue') = Len(queue) + 1 /\ Len(queue) \in Nat /\ queue'[Len(queue) + 1] = e
            /\ \A i \in 1..Len(queue) : queue'[i] = queue[i]
        BY <1>1, <1>2, <3>2, AppendFacts
      <4>3. HandAt(h)'
        BY <1>1, <2>1, <4>1 DEF HandAt, InHand
      <4>4. \A i \in 1..Len(queue') : i \in 1..Len(queue) \/ queue'[i] = e
        BY <4>2
      <4>5. e.kind \notin Discrete
        BY <1>5, <3>2
      <4>6. \A j \in 1..Len(awaiting) : awaiting[j] # e
        BY <1>2, <4>5
      <4>7. RestAt(h)'
        BY <2>1, <4>1, <4>2, <4>4, <4>5, <4>6 DEF RestAt
      <4> QED BY <2>1, <4>3, <4>7 DEF InLine
    <3> QED BY <3>1, <3>2
  <2> QED BY <1>1, <2>1, <2>2, <2>3 DEF OrderInv, HistoryTypes
<1>6. CASE queued /\ e.kind \in Discrete
  <2>1. /\ Len(queue') = Len(queue) + 1 /\ Len(queue) \in Nat /\ queue'[Len(queue) + 1] = e
        /\ \A i \in 1..Len(queue) : queue'[i] = queue[i]
    BY <1>1, <1>2, <1>6, AppendFacts
  <2>2. /\ Len(awaiting') = Len(awaiting) + 1 /\ Len(awaiting) \in Nat
        /\ awaiting'[Len(awaiting) + 1] = e /\ awaiting' \in Seq(Packet)
        /\ \A i \in 1..Len(awaiting) : awaiting'[i] = awaiting[i]
    BY <1>1, <1>2, <1>6, AppendFacts
  <2>3. HistoryTypes'
    <3>1. \A j \in 1..Len(awaiting') : j \in 1..Len(awaiting) \/ j = Len(awaiting) + 1
      BY <2>2
    <3> QED BY <1>1, <1>2, <1>6, <2>2, <3>1 DEF HistoryTypes, OrderInv
  <2>4. ASSUME sender # "ended" PROVE Numbered'
    <3>1. Numbered
      BY <2>4 DEF OrderInv
    <3>2. \A j \in 1..Len(awaiting') : j \in 1..Len(awaiting) \/ j = Len(awaiting) + 1
      BY <2>2
    <3>3. e.number <= events /\ \A j \in 1..Len(awaiting) : awaiting[j].number # e.number
      BY <1>1, <3>1 DEF Numbered, e
    <3>4. \A d \in Client \ {c} : call[d].at # "idle" => call[d].event.number # e.number
      BY <1>1, <3>1 DEF Numbered, e
    <3>5. \A i, j \in 1..Len(awaiting') : awaiting'[i].number = awaiting'[j].number => i = j
      BY <2>2, <3>1, <3>2, <3>3 DEF Numbered
    <3>6. \A j \in 1..Len(awaiting') : awaiting'[j].number <= events
      BY <2>2, <3>1, <3>2, <3>3 DEF Numbered
    <3>7. ASSUME NEW d \in Client, call'[d].at # "idle"
          PROVE  /\ call'[d].event.number <= events
                 /\ \A j \in 1..Len(awaiting') : awaiting'[j].number # call'[d].event.number
                 /\ \A f \in Client \ {d} :
                      call'[f].at # "idle" => call'[f].event.number # call'[d].event.number
      <4>1. d # c /\ call'[d] = call[d]
        BY <1>4, <3>7
      <4>2. \A j \in 1..Len(awaiting') : awaiting'[j].number # call'[d].event.number
        BY <2>2, <3>1, <3>2, <3>4, <3>7, <4>1 DEF Numbered
      <4> QED BY <1>4, <3>1, <3>7, <4>1, <4>2 DEF Numbered
    <3> QED BY <1>1, <3>5, <3>6, <3>7 DEF Numbered
  <2>5. ASSUME sender # "ended" PROVE InLine'
    <3>1. PICK h \in 0..Len(awaiting) : HandAt(h) /\ RestAt(h)
      BY <2>5 DEF OrderInv, InLine
    <3>2. h \in 0..Len(awaiting')
      BY <2>2
    <3>3. HandAt(h)'
      BY <1>1, <2>2, <3>1 DEF HandAt, InHand
    <3>4. /\ \A i \in 1..Len(queue') : i \in 1..Len(queue) \/ i = Len(queue) + 1
          /\ \A j \in 1..Len(awaiting') : j \in 1..Len(awaiting) \/ j = Len(awaiting) + 1
      BY <2>1, <2>2
    <3>5. Numbered
      BY <2>5 DEF OrderInv
    <3>6. \A j \in 1..Len(awaiting) : awaiting[j] # e
      BY <1>1, <3>5 DEF Numbered, e
    <3>7. \A i \in 1..Len(queue) : queue[i] # e
      <4> SUFFICES ASSUME NEW i \in 1..Len(queue), queue[i] = e PROVE FALSE
        OBVIOUS
      <4>1. \E j \in 1..Len(awaiting) : awaiting[j] = e
        BY <1>6, <3>1 DEF RestAt
      <4> QED BY <3>6, <4>1
    <3>8. RestAt(h)'
      <4>1. ASSUME NEW i \in 1..Len(queue'), queue'[i].kind \in Discrete
            PROVE  \E j \in h + 1..Len(awaiting') : awaiting'[j] = queue'[i]
        <5>1. CASE i \in 1..Len(queue)
          <6>1. PICK j \in h + 1..Len(awaiting) : awaiting[j] = queue[i]
            BY <2>1, <3>1, <4>1, <5>1 DEF RestAt
          <6>2. j \in h + 1..Len(awaiting') /\ j \in 1..Len(awaiting)
            BY <2>2
          <6> QED BY <2>1, <2>2, <5>1, <6>1, <6>2
        <5>2. CASE i = Len(queue) + 1
          <6>1. Len(awaiting) + 1 \in h + 1..Len(awaiting')
            BY <2>2
          <6> QED BY <2>1, <2>2, <5>2, <6>1
        <5> QED BY <3>4, <5>1, <5>2
      <4>2. \A j \in h + 1..Len(awaiting') : \E i \in 1..Len(queue') : awaiting'[j] = queue'[i]
        <5> SUFFICES ASSUME NEW j \in h + 1..Len(awaiting')
                     PROVE  \E i \in 1..Len(queue') : awaiting'[j] = queue'[i]
          OBVIOUS
        <5>1. CASE j \in 1..Len(awaiting)
          <6>1. PICK i \in 1..Len(queue) : awaiting[j] = queue[i]
            BY <2>2, <3>1, <5>1 DEF RestAt
          <6>2. i \in 1..Len(queue')
            BY <2>1
          <6> QED BY <2>1, <2>2, <5>1, <6>1, <6>2
        <5>2. CASE j = Len(awaiting) + 1
          <6>1. Len(queue) + 1 \in 1..Len(queue')
            BY <2>1
          <6> QED BY <2>1, <2>2, <5>2, <6>1
        <5> QED BY <2>2, <5>1, <5>2
      <4>3. \A i, k \in 1..Len(queue'), j, l \in 1..Len(awaiting') :
              i < k /\ awaiting'[j] = queue'[i] /\ awaiting'[l] = queue'[k] => j < l
        <5> SUFFICES ASSUME NEW i \in 1..Len(queue'), NEW k \in 1..Len(queue'),
                            NEW j \in 1..Len(awaiting'), NEW l \in 1..Len(awaiting'),
                            i < k, awaiting'[j] = queue'[i], awaiting'[l] = queue'[k]
                     PROVE  j < l
          OBVIOUS
        <5>1. i \in 1..Len(queue) /\ queue'[i] # e
          BY <2>1, <3>4, <3>7
        <5>2. j \in 1..Len(awaiting)
          BY <2>2, <3>4, <5>1
        <5>3. CASE k \in 1..Len(queue)
          <6>1. l \in 1..Len(awaiting)
            BY <2>1, <2>2, <3>4, <3>7, <5>3
          <6> QED BY <2>1, <2>2, <3>1, <5>1, <5>2, <5>3, <6>1 DEF RestAt
        <5>4. CASE k = Len(queue) + 1
          <6>1. l = Len(awaiting) + 1
            BY <2>1, <2>2, <3>4, <3>6, <5>4
          <6> QED BY <2>2, <5>2, <6>1
        <5> QED BY <3>4, <5>3, <5>4
      <4> QED BY <4>1, <4>2, <4>3 DEF RestAt
    <3> QED BY <3>2, <3>3, <3>8 DEF InLine
  <2> QED BY <1>1, <2>3, <2>4, <2>5 DEF OrderInv
<1> QED BY <1>5, <1>6
\* Packets that are taken, and merged with the one in hand.
LEMMA OrderOfTaking ==
  ASSUME InputInv, OrderInv, TakePacket \/ MergeNext
  PROVE  OrderInv'
<1>1. /\ UNCHANGED <<events, call, awaiting, reached>> /\ sender \in {"wait", "batch"}
      /\ Types /\ sender # "ended" /\ Numbered /\ HistoryTypes
  BY DEF TakePacket, MergeNext, clients, InputInv, OrderInv
<1>2. HistoryTypes' /\ Numbered'
  BY <1>1 DEF HistoryTypes, Numbered
<1>3. PICK h \in 0..Len(awaiting) : HandAt(h) /\ RestAt(h)
  BY <1>1 DEF OrderInv, InLine
<1>4. sender = "wait" => hand.kind = "nothing" /\ ~InHand
  BY <1>1 DEF InHand, Types, SenderShape
<1>5. sender = "batch" => hand.kind \in {"pad", "pen"} /\ InHand /\ hand \in Packet
  BY <1>1 DEF InHand, Types, SenderShape, Discrete
<1>6. CASE \/ sender = "wait" /\ queue = <<>>
           \/ sender = "batch" /\ ~(queue # <<>> /\ Mergeable(hand, Head(queue)))
  <2>1. UNCHANGED <<hand, queue>> /\ sender' = (IF sender = "wait" THEN "ended" ELSE "send")
    BY <1>6 DEF TakePacket, MergeNext
  <2>2. sender' # "ended" => InLine'
    BY <1>1, <1>5, <2>1, LineStays DEF InHand, OrderInv
  <2> QED BY <1>2, <2>2 DEF OrderInv
<1>7. CASE sender = "wait" /\ queue # <<>>
  <2> DEFINE e == Head(queue)
  <2>1. hand' = e /\ queue' = Tail(queue) /\ sender' = Stage(e.kind)
    BY <1>7 DEF TakePacket, MergeNext
  <2>2. e \in Packet /\ e.kind \in Kinds \cup Discrete
    <3>1. e \in Packet
      <4> HIDE DEF Packet
      <4> QED BY <1>1, <1>7, TailFacts DEF Types
    <3> QED BY <3>1 DEF Packet
  <2>3. h = 0
    BY <1>3, <1>4, <1>7 DEF HandAt
  <2>4. CASE e.kind \in Discrete
    <3>1. 1 \in 1..Len(awaiting) /\ awaiting[1] = e
      BY <1>1, <1>3, <1>7, <2>3, <2>4, NextInLine
    <3>2. RestAt(1)'
      BY <1>1, <1>3, <1>7, <2>1, <2>3, <2>4, RestOfTail
    <3>3. InHand'
      BY <2>1, <2>4, StageFits, <2>2, KindsApart DEF InHand, Discrete
    <3>4. \A j \in 1..1 : j = 1
      OBVIOUS
    <3>5. HandAt(1)'
      BY <1>1, <2>1, <3>1, <3>3, <3>4 DEF HandAt
    <3>6. 1 \in 0..Len(awaiting')
      BY <1>1, <3>1
    <3> QED BY <1>2, <3>2, <3>5, <3>6 DEF OrderInv, InLine
  <2>5. CASE e.kind \notin Discrete
    <3>1. RestAt(0)'
      BY <1>1, <1>3, <1>7, <2>1, <2>3, <2>5, RestOfTail
    <3>2. ~InHand'
      BY <2>1, <2>5 DEF InHand
    <3>3. HandAt(0)' /\ 0 \in 0..Len(awaiting')
      BY <1>1, <1>3, <2>3, <3>2 DEF HandAt
    <3> QED BY <1>2, <3>1, <3>3 DEF OrderInv, InLine
  <2> QED BY <2>4, <2>5
<1>8. CASE sender = "batch" /\ queue # <<>> /\ Mergeable(hand, Head(queue))
  <2> DEFINE e == Head(queue)
  <2>1. /\ hand' = (IF hand.kind = "pad" THEN [e EXCEPT !.reliable = hand.reliable] ELSE e)
        /\ queue' = Tail(queue) /\ sender' = "batch"
        /\ e.kind = hand.kind /\ e.buttons = hand.buttons
    BY <1>8 DEF TakePacket, MergeNext, Mergeable
  <2>2. e \in Packet
    <3> HIDE DEF Packet
    <3> QED BY <1>1, <1>8, TailFacts DEF Types
  <2>3. hand'.kind = hand.kind /\ hand'.buttons = hand.buttons /\ hand'.number = e.number
    BY <2>1, <2>2 DEF Packet
  <2>4. e.kind \in Discrete /\ e.kind # "click"
    BY <1>5, <1>8, <2>1 DEF Discrete
  <2>5. h + 1 \in 1..Len(awaiting) /\ awaiting[h + 1] = e
    BY <1>1, <1>3, <1>8, <2>4, NextInLine
  <2>6. RestAt(h + 1)'
    BY <1>1, <1>3, <1>8, <2>1, <2>4, RestOfTail
  <2>7. InHand'
    BY <2>1, <2>3, <2>4 DEF InHand
  <2>8. \A j \in 1..h + 1 : j \in 1..h \/ j = h + 1
    OBVIOUS
  <2>9. \A j \in 1..h : awaiting[j].kind = hand.kind /\ awaiting[j].buttons = hand.buttons
    BY <1>3, <1>5, <1>8 DEF HandAt
  <2>10. HandAt(h + 1)'
    BY <1>1, <2>1, <2>3, <2>4, <2>5, <2>7, <2>8, <2>9 DEF HandAt
  <2>11. h + 1 \in 0..Len(awaiting')
    BY <1>1, <2>5
  <2> QED BY <1>2, <2>6, <2>10, <2>11 DEF OrderInv, InLine
<1> QED BY <1>6, <1>7, <1>8, <1>1 DEF TakePacket, MergeNext

\* The event that is sent is found among those that wait, and those before it
\* were merged with it.
LEMMA SentInOrder ==
  ASSUME Numbered, NEW h \in 0..Len(awaiting), HandAt(h), InHand
  PROVE  IndexOf(hand) = h /\ h \in 1..Len(awaiting)
<1>1. h \in 1..Len(awaiting) /\ awaiting[h].number = hand.number
  BY DEF HandAt
<1>2. \A i \in 1..Len(awaiting) : awaiting[i].number = hand.number => i = h
  BY <1>1 DEF Numbered
<1> QED BY <1>1, <1>2 DEF IndexOf

LEMMA OrderOfSending ==
  ASSUME InputInv, OrderInv, SendPacket
  PROVE  OrderInv'
<1>1. /\ UNCHANGED <<events, call, queue>> /\ sender = "send" /\ hand' = Nothing
      /\ HistoryTypes /\ Numbered /\ Types
  BY DEF SendPacket, SendFails, OrderInv, InputInv
<1>2. /\ hand.kind \in Latest \cup Discrete /\ hand \in Packet
      /\ hand.kind \in Latest <=> ~InHand
  BY <1>1, KindsApart DEF Types, SenderShape, InHand, Discrete
<1>3. ~InHand'
  BY <1>1 DEF InHand, Nothing, Event, Discrete
<1>4. PICK h \in 0..Len(awaiting) : HandAt(h) /\ RestAt(h)
  BY <1>1 DEF OrderInv, InLine
<1>5. CASE SendFails
  BY <1>1, <1>5 DEF SendPacket, SendFails, OrderInv, HistoryTypes
<1>6. CASE ~SendFails /\ hand.kind \in Latest
  <2>1. /\ sender' = "wait" /\ awaiting' = awaiting
        /\ reached' = [reached EXCEPT ![hand.kind] = hand.number]
    BY <1>6 DEF SendPacket
  <2>2. hand.number \in Nat
    BY <1>2 DEF Packet
  <2>3. reached' \in [Kinds -> Nat]
    BY <1>1, <2>1, <2>2 DEF HistoryTypes
  <2>4. InLine'
    BY <1>1, <1>2, <1>3, <1>6, <2>1, LineStays DEF OrderInv
  <2> QED BY <1>1, <2>1, <2>3, <2>4 DEF OrderInv, HistoryTypes, Numbered
<1>7. CASE ~SendFails /\ hand.kind \notin Latest
  <2>1. IndexOf(hand) = h /\ h \in 1..Len(awaiting)
    BY <1>1, <1>2, <1>4, <1>7, SentInOrder
  <2>2. /\ sender' = "wait" /\ reached' = reached
        /\ awaiting' = SubSeq(awaiting, h + 1, Len(awaiting))
    BY <1>7, <2>1 DEF SendPacket
  <2>3. /\ awaiting' \in Seq(Packet) /\ Len(awaiting') = Len(awaiting) - h /\ Len(awaiting) \in Nat
        /\ \A i \in 1..Len(awaiting') : awaiting'[i] = awaiting[i + h]
    <3> HIDE DEF Packet
    <3> QED BY <1>1, <2>2, SuffixFacts, SeqFacts DEF HistoryTypes
  <2>4. \A i \in 1..Len(awaiting') : i + h \in 1..Len(awaiting)
    BY <2>3
  <2>5. HistoryTypes'
    BY <1>1, <2>2, <2>3, <2>4 DEF HistoryTypes
  <2>6. Numbered'
    <3>1. \A i, j \in 1..Len(awaiting') : awaiting'[i].number = awaiting'[j].number => i = j
      <4> SUFFICES ASSUME NEW i \in 1..Len(awaiting'), NEW j \in 1..Len(awaiting'),
                          awaiting'[i].number = awaiting'[j].number
                   PROVE  i = j
        OBVIOUS
      <4>1. i + h = j + h
        BY <1>1, <2>3, <2>4 DEF Numbered
      <4> QED BY <4>1
    <3> QED BY <1>1, <2>3, <2>4, <3>1 DEF Numbered
  <2>7. RestAt(0)'
    <3>1. ASSUME NEW i \in 1..Len(queue'), queue'[i].kind \in Discrete
          PROVE  \E j \in 1..Len(awaiting') : awaiting'[j] = queue'[i]
      <4>1. PICK j \in h + 1..Len(awaiting) : awaiting[j] = queue[i]
        BY <1>1, <1>4, <3>1 DEF RestAt
      <4>2. j - h \in 1..Len(awaiting') /\ (j - h) + h = j
        BY <2>3
      <4> QED BY <1>1, <2>3, <4>1, <4>2
    <3>2. ASSUME NEW j \in 1..Len(awaiting') PROVE \E i \in 1..Len(queue') : awaiting'[j] = queue'[i]
      <4>1. j + h \in h + 1..Len(awaiting)
        BY <2>3
      <4> QED BY <1>1, <1>4, <2>3, <4>1 DEF RestAt
    <3>3. ASSUME NEW i \in 1..Len(queue'), NEW k \in 1..Len(queue'),
                 NEW j \in 1..Len(awaiting'), NEW l \in 1..Len(awaiting'),
                 i < k, awaiting'[j] = queue'[i], awaiting'[l] = queue'[k]
          PROVE  j < l
      <4>1. j + h < l + h
        BY <1>1, <1>4, <2>3, <2>4, <3>3 DEF RestAt
      <4> QED BY <4>1
    <3>4. 0 + 1 = 1
      OBVIOUS
    <3> QED BY <3>1, <3>2, <3>3, <3>4 DEF RestAt
  <2>8. 0 \in 0..Len(awaiting')
    BY <2>3, <2>1
  <2>9. HandAt(0)'
    BY <1>3 DEF HandAt
  <2> QED BY <2>5, <2>6, <2>7, <2>8, <2>9 DEF OrderInv, InLine
<1> QED BY <1>5, <1>6, <1>7

\* The other steps leave the events where they are.
LEMMA OrderAside ==
  ASSUME InputInv, OrderInv,
         SendRelative \/ FillLatest \/ StopInputStream \/ StopStep \/ UNCHANGED vars
  PROVE  OrderInv'
<1>1. CASE SendRelative
  <2>1. UNCHANGED <<events, call, awaiting, queue>> /\ sender = "relative"
    BY <1>1 DEF SendRelative
  <2>2. sender' = "relative" \/ hand' = Nothing
    BY <1>1, <2>1 DEF SendRelative, SendFails
  <2>3. ~InHand /\ ~InHand'
    BY <2>1, <2>2 DEF InHand, Nothing, Event, Discrete
  <2>4. reached' \in [Kinds -> Nat]
    <3>1. \/ reached' = reached \/ reached' = [reached EXCEPT !["relative"] = moves]
      BY <1>1 DEF SendRelative
    <3> QED BY <3>1 DEF OrderInv, HistoryTypes, InputInv, Types
  <2> QED BY <2>1, <2>3, <2>4, LineStays DEF OrderInv, HistoryTypes, Numbered
<1>2. CASE FillLatest
  <2>1. UNCHANGED <<events, call, awaiting, queue, reached>> /\ sender = "fill" /\ hand.kind \in Latest
    BY <1>2 DEF FillLatest, InputInv, Types, SenderShape
  <2>2. hand'.kind = hand.kind
    <3>1. hand \in Packet /\ hand' = [hand EXCEPT !.number = latest[hand.kind].number]
      BY <1>2 DEF FillLatest, InputInv, Types, SenderShape
    <3> QED BY <3>1 DEF Packet
  <2>3. ~InHand /\ ~InHand'
    BY <2>1, <2>2, KindsApart DEF InHand, Discrete
  <2> QED BY <2>1, <2>3, LineStays DEF OrderInv, HistoryTypes, Numbered
<1>3. CASE StopInputStream \/ StopStep \/ UNCHANGED vars
  <2>1. UNCHANGED <<events, call, awaiting, queue, reached, sender, hand>>
    BY <1>3 DEF StopInputStream, StopStep, ShutFreeList, DrainQueue, JoinSender, Shutting, vars,
                clients, thread
  <2> QED BY <2>1, LineStays DEF OrderInv, HistoryTypes, Numbered, InHand
<1> QED BY <1>1, <1>2, <1>3

LEMMA OrderBegins ==
  ASSUME call = [c \in Client |-> Idle], queue = <<>>, awaiting = <<>>, hand = Nothing,
         sender = "wait", reached = Zero
  PROVE  OrderInv
<1>1. /\ \A c \in Client : call[c].at = "idle" /\ ~InHand
      /\ Len(queue) = 0 /\ Len(awaiting) = 0 /\ ~InHand
  BY DEF Idle, InHand
<1>2. HistoryTypes
  BY DEF HistoryTypes, Zero
<1>3. Numbered
  BY <1>1 DEF Numbered
<1>4. HandAt(0) /\ RestAt(0) /\ 0 \in 0..Len(awaiting)
  BY <1>1 DEF HandAt, RestAt
<1> QED BY <1>2, <1>3, <1>4 DEF OrderInv, InLine

\* The invariant of the events that wait, whoever queues them and whenever the
\* sender takes, merges and sends them (InputStream.c 216-410).
THEOREM OrderInvariant == Spec => []OrderInv
<1>1. Init => OrderInv
  BY OrderBegins DEF Init
<1>2. InputInv /\ OrderInv /\ [Next]_vars => OrderInv'
  <2> SUFFICES ASSUME InputInv, OrderInv, [Next]_vars PROVE OrderInv'
    OBVIOUS
  <2>1. CASE \E c \in Client : EnterCall(c) \/ ClientStep(c)
    BY <2>1, OrderOfCalls, OrderOfOffer DEF ClientStep
  <2>2. CASE SenderStep
    BY <2>2, OrderOfTaking, OrderOfSending, OrderAside DEF SenderStep
  <2>3. CASE StopInputStream \/ StopStep \/ UNCHANGED vars
    BY <2>3, OrderAside
  <2>4. CASE Restart
    <3>1. (/\ call = [c \in Client |-> Idle] /\ queue = <<>> /\ awaiting = <<>> /\ hand = Nothing
           /\ sender = "wait" /\ reached = Zero)'
      BY <2>4 DEF Restart
    <3> QED BY <3>1, OrderBegins, PTL
  <2> QED BY <2>1, <2>2, <2>3, <2>4 DEF Next
<1> QED BY <1>1, <1>2, InputInvariant, PTL DEF Spec
-----------------------------------------------------------------------------
(***************************************************************************)
(* Batched state before discrete events.  Covered(k, n, p): state k, up to *)
(* its n-th value, reaches the host before a packet at place p of the      *)
(* queue does: it was sent, it is being sent, or its packet is in front.   *)
(***************************************************************************)
Covered(k, n, p) ==
  \/ n <= reached[k]
  \/ hand.kind = k /\ sender \in {"relative", "fill"}
  \/ hand.kind = k /\ sender = "send" /\ n <= hand.number
  \/ \E i \in 1..Len(queue) : i < p /\ queue[i].kind = k

Follows(e, p) ==
  \A k \in Kinds : e.after[k] <= Newest(k) /\ (~refused => Covered(k, e.after[k], p))

\* Nothing is newer than the newest, and what is sent is newer than what was.
NewestLast ==
  \A k \in Kinds : /\ settled[k] <= Newest(k) /\ reached[k] <= Newest(k)
                   /\ sender = "send" /\ hand.kind = k =>
                        reached[k] <= hand.number /\ hand.number <= Newest(k)

\* What a call has returned for is covered, unless it was refused.
SettledCovered ==
  ~refused /\ ~freeListShut => \A k \in Kinds : Covered(k, settled[k], Len(queue) + 1)

QueueFollows == \A i \in 1..Len(queue) : queue[i].kind \in Discrete => Follows(queue[i], i)
CallsFollow ==
  \A c \in Client : call[c].at = "allocated" /\ call[c].event.kind \in Discrete =>
    Follows(call[c].event, Len(queue) + 1)
HandFollows == InHand /\ ~refused => \A k \in Kinds : hand.after[k] <= reached[k]

AfterInv == sender # "ended" => 
  /\ NewestLast /\ SettledCovered
  /\ QueueFollows /\ CallsFollow /\ HandFollows

\* Every number involved.
LEMMA Numbers ==
  ASSUME Types, HistoryTypes
  PROVE  /\ \A k \in Kinds : Newest(k) \in Nat /\ settled[k] \in Nat /\ reached[k] \in Nat
         /\ Len(queue) \in Nat
         /\ \A i \in 1..Len(queue) : queue[i] \in Packet
         /\ \A e \in Packet : e.number \in Nat /\ \A k \in Kinds : e.after[k] \in Nat
         /\ \A c \in Client : call[c].at # "idle" => call[c].event \in Packet
         /\ sender \notin {"wait", "ended"} => hand \in Packet
<1>1. \A k \in Kinds : Newest(k) \in Nat /\ settled[k] \in Nat /\ reached[k] \in Nat
  BY KindsApart DEF Types, HistoryTypes, Newest
<1>2. Len(queue) \in Nat /\ \A i \in 1..Len(queue) : queue[i] \in Packet
  <2> HIDE DEF Packet
  <2> QED BY SeqFacts DEF Types
<1>3. \A e \in Packet : e.number \in Nat /\ \A k \in Kinds : e.after[k] \in Nat
  BY DEF Packet
<1> QED BY <1>1, <1>2, <1>3 DEF Types, SenderShape

\* A place is covered if an earlier one is.
LEMMA CoveredLater ==
  ASSUME NEW k, NEW n, NEW p \in Nat, NEW q \in Nat, p <= q, Covered(k, n, p)
  PROVE  Covered(k, n, q)
BY DEF Covered

\* The sender took d packets from the queue, and whatever was covered still is.
LEMMA SenderKeeps ==
  ASSUME Types, HistoryTypes, AfterInv, sender # "ended",
         UNCHANGED <<call, settled, refused, freeListShut>>,
         \A k \in Kinds : Newest(k)' = Newest(k),
         NEW d \in {0, 1}, Len(queue') \in Nat, Len(queue) = Len(queue') + d,
         \A i \in 1..Len(queue') : queue'[i] = queue[i + d],
         \A k \in Kinds, n \in Nat, p \in Nat :
           p <= Len(queue) + 1 /\ d < p /\ n <= Newest(k) /\ Covered(k, n, p) => Covered(k, n, p - d)'
  PROVE  SettledCovered' /\ QueueFollows' /\ CallsFollow'
<1> USE Numbers
<1> HIDE DEF Packet
<1>1. ASSUME NEW k \in Kinds, NEW n \in Nat, NEW p \in Nat, d < p, p <= Len(queue) + 1,
             n <= Newest(k), ~refused => Covered(k, n, p)
      PROVE  n <= Newest(k)' /\ (~refused' => Covered(k, n, p - d)')
  BY <1>1
<1>2. SettledCovered'
  <2> SUFFICES ASSUME ~refused', ~freeListShut', NEW k \in Kinds
               PROVE  Covered(k, settled[k], Len(queue) + 1)'
    BY DEF SettledCovered, Covered
  <2>1. PICK n \in Nat, p \in Nat : n = settled[k] /\ p = Len(queue) + 1
    OBVIOUS
  <2>2. Covered(k, n, p) /\ n <= Newest(k)
    BY <2>1 DEF AfterInv, SettledCovered, NewestLast
  <2>3. d < p /\ p - d = Len(queue') + 1 /\ settled'[k] = n
    BY <2>1
  <2>4. Covered(k, n, p - d)'
    BY <1>1, <2>1, <2>2, <2>3
  <2> QED BY <2>3, <2>4 DEF Covered
<1>3. ASSUME NEW i \in 1..Len(queue'), queue'[i].kind \in Discrete, NEW k \in Kinds
      PROVE  (queue[i].after[k] <= Newest(k) /\ (~refused => Covered(k, queue[i].after[k], i)))'
  <2>1. i + d \in 1..Len(queue) /\ queue'[i] = queue[i + d] /\ (i + d) - d = i /\ d < i + d
    OBVIOUS
  <2>2. Follows(queue[i + d], i + d) /\ queue[i + d] \in Packet
    BY <1>3, <2>1 DEF AfterInv, QueueFollows
  <2>3. PICK n \in Nat, p \in Nat : n = queue[i + d].after[k] /\ p = i + d
    BY <2>1, <2>2
  <2>4. n <= Newest(k) /\ (~refused => Covered(k, n, p))
    BY <2>2, <2>3 DEF Follows
  <2>5. n <= Newest(k)' /\ (~refused' => Covered(k, n, p - d)')
    BY <1>1, <2>1, <2>3, <2>4
  <2>6. p - d = i /\ queue'[i].after[k] = n
    BY <2>1, <2>3
  <2> QED BY <2>5, <2>6 DEF Covered
<1>4. ASSUME NEW c \in Client, call'[c].at = "allocated", call'[c].event.kind \in Discrete,
             NEW k \in Kinds
      PROVE  (call[c].event.after[k] <= Newest(k)
              /\ (~refused => Covered(k, call[c].event.after[k], Len(queue) + 1)))'
  <2>1. Follows(call[c].event, Len(queue) + 1) /\ call[c].event \in Packet
    BY <1>4 DEF AfterInv, CallsFollow
  <2>2. PICK n \in Nat, p \in Nat : n = call[c].event.after[k] /\ p = Len(queue) + 1
    BY <2>1
  <2>3. d < p /\ p - d = Len(queue') + 1 /\ call'[c].event.after[k] = n
    BY <2>2
  <2>4. n <= Newest(k) /\ (~refused => Covered(k, n, p))
    BY <2>1, <2>2 DEF Follows
  <2>5. n <= Newest(k)' /\ (~refused' => Covered(k, n, p - d)')
    BY <1>1, <2>2, <2>3, <2>4
  <2> QED BY <2>3, <2>5 DEF Covered
<1>5. QueueFollows'
  BY <1>3 DEF QueueFollows, Follows, Covered
<1>6. CallsFollow'
  BY <1>4 DEF CallsFollow, Follows, Covered
<1> QED BY <1>2, <1>5, <1>6
\* A call changes no place that is covered.
LEMMA CoveredByCalls ==
  ASSUME UNCHANGED <<hand, sender, reached>>, queue \in Seq(Packet),
         queue' = queue \/ \E e \in Packet : queue' = Append(queue, e),
         NEW k, NEW n, NEW p \in Nat, NEW q \in Nat, p <= q, p <= Len(queue) + 1, Covered(k, n, p)
  PROVE  Covered(k, n, q)'
<1> HIDE DEF Packet
<1>1. Len(queue) \in Nat /\ Len(queue') \in Nat /\ Len(queue) <= Len(queue')
      /\ \A i \in 1..Len(queue) : queue'[i] = queue[i]
  <2>1. CASE queue' = queue
    BY <2>1
  <2>2. CASE \E e \in Packet : queue' = Append(queue, e)
    BY <2>2, AppendFacts
  <2> QED BY <2>1, <2>2
<1>2. ASSUME NEW i \in 1..Len(queue), i < p, queue[i].kind = k
      PROVE  i \in 1..Len(queue') /\ i < q /\ queue'[i].kind = k
  BY <1>1, <1>2
<1> QED BY <1>2 DEF Covered

\* What a call leaves: it offers an event that follows all a call has returned
\* for, or has queued it, and covers what it returns for.
LEMMA CallsKeep ==
  ASSUME Types, HistoryTypes, Types', HistoryTypes', AfterInv, sender # "ended",
         UNCHANGED <<hand, sender, reached, freeListShut>>, refused => refused',
         \A k \in Kinds : Newest(k) <= Newest(k)',
         NEW c \in Client, \A d \in Client \ {c} : call'[d] = call[d],
         \/ queue' = queue
         \/ \E e \in Packet : /\ queue' = Append(queue, e)
                              /\ e.kind \in Discrete => Follows(e, Len(queue) + 1),
         call'[c].at = "allocated" /\ call'[c].event.kind \in Discrete =>
           ~freeListShut /\ call'[c].event.after = settled,
         \A k \in Kinds : settled'[k] <= Newest(k)',
         \A k \in Kinds : \/ settled'[k] = settled[k] \/ freeListShut \/ refused'
                          \/ Covered(k, settled[k], Len(queue) + 1)'
  PROVE  AfterInv'
<1> USE Numbers
<1> HIDE DEF Packet
<1>0. \A k \in Kinds : (Newest(k) \in Nat)'
  BY KindsApart DEF Types, Newest
<1>1. /\ Len(queue) \in Nat /\ Len(queue') \in Nat /\ Len(queue) <= Len(queue')
      /\ queue \in Seq(Packet)
      /\ \A i \in 1..Len(queue) : queue'[i] = queue[i]
      /\ \A i \in 1..Len(queue') : i \in 1..Len(queue) \/
           (i = Len(queue) + 1 /\ queue'[i] \in Packet
            /\ (queue'[i].kind \in Discrete => Follows(queue'[i], i)))
  <2>1. queue \in Seq(Packet)
    BY DEF Types
  <2>2. CASE queue' = queue
    BY <2>1, <2>2
  <2>3. CASE queue' # queue
    <3>1. PICK e \in Packet : /\ queue' = Append(queue, e)
                              /\ e.kind \in Discrete => Follows(e, Len(queue) + 1)
      BY <2>3
    <3>2. /\ Len(queue') = Len(queue) + 1 /\ queue'[Len(queue) + 1] = e
          /\ \A i \in 1..Len(queue) : queue'[i] = queue[i]
      BY <2>1, <3>1, AppendFacts
    <3> QED BY <2>1, <3>1, <3>2
  <2> QED BY <2>2, <2>3
<1>2. ASSUME NEW k \in Kinds, NEW n \in Nat, NEW p \in Nat, NEW q \in Nat,
             p <= q, p <= Len(queue) + 1, n <= Newest(k), ~refused => Covered(k, n, p)
      PROVE  n <= Newest(k)' /\ (~refused' => Covered(k, n, q)')
  <2>1. queue' = queue \/ \E e \in Packet : queue' = Append(queue, e)
    OBVIOUS
  <2>2. Covered(k, n, p) => Covered(k, n, q)'
    BY <1>1, <1>2, <2>1, CoveredByCalls
  <2>3. Newest(k)' \in Nat
    BY <1>0
  <2> QED BY <1>2, <2>2, <2>3
<1>3. NewestLast'
  <2> SUFFICES ASSUME NEW k \in Kinds
               PROVE  (/\ settled[k] <= Newest(k) /\ reached[k] <= Newest(k)
                       /\ sender = "send" /\ hand.kind = k =>
                            reached[k] <= hand.number /\ hand.number <= Newest(k))'
    BY DEF NewestLast, Newest
  <2>1. /\ reached[k] <= Newest(k)
        /\ sender = "send" /\ hand.kind = k =>
             reached[k] <= hand.number /\ hand.number <= Newest(k)
    BY DEF AfterInv, NewestLast
  <2>2. Newest(k) <= Newest(k)' /\ Newest(k) \in Nat /\ Newest(k)' \in Nat /\ reached[k] \in Nat
        /\ (sender = "send" => hand.number \in Nat)
    BY <1>0
  <2> QED BY <2>1, <2>2
<1>4. SettledCovered'
  <2> SUFFICES ASSUME ~refused', ~freeListShut', NEW k \in Kinds
               PROVE  Covered(k, settled[k], Len(queue) + 1)'
    BY DEF SettledCovered, Covered
  <2>1. CASE settled'[k] # settled[k]
    BY <2>1
  <2>2. CASE settled'[k] = settled[k]
    <3>1. PICK n \in Nat, p \in Nat, q \in Nat :
            n = settled[k] /\ p = Len(queue) + 1 /\ q = Len(queue') + 1
      BY <1>1
    <3>2. Covered(k, n, p) /\ n <= Newest(k) /\ p <= q
      BY <1>1, <3>1 DEF AfterInv, SettledCovered, NewestLast
    <3>3. Covered(k, n, q)'
      BY <1>2, <3>1, <3>2
    <3> QED BY <2>2, <3>1, <3>3 DEF Covered
  <2> QED BY <2>1, <2>2
<1>5. ASSUME NEW i \in 1..Len(queue'), queue'[i].kind \in Discrete, NEW k \in Kinds
      PROVE  (queue[i].after[k] <= Newest(k) /\ (~refused => Covered(k, queue[i].after[k], i)))'
  <2>1. queue'[i] \in Packet /\ i <= Len(queue) + 1
    BY <1>1
  <2>2. Follows(queue'[i], i)
    BY <1>1, <1>5 DEF AfterInv, QueueFollows
  <2>3. PICK n \in Nat : n = queue'[i].after[k]
    BY <2>1
  <2>4. n <= Newest(k) /\ (~refused => Covered(k, n, i))
    BY <2>2, <2>3 DEF Follows
  <2>5. n <= Newest(k)' /\ (~refused' => Covered(k, n, i)')
    BY <1>2, <2>1, <2>4
  <2> QED BY <2>3, <2>5 DEF Covered
<1>6. ASSUME NEW d \in Client, call'[d].at = "allocated", call'[d].event.kind \in Discrete,
             NEW k \in Kinds
      PROVE  (call[d].event.after[k] <= Newest(k)
              /\ (~refused => Covered(k, call[d].event.after[k], Len(queue) + 1)))'
  <2>1. PICK p \in Nat, q \in Nat : p = Len(queue) + 1 /\ q = Len(queue') + 1 /\ p <= q
    BY <1>1
  <2>2. \E n \in Nat : n = call'[d].event.after[k] /\ n <= Newest(k) /\ (~refused => Covered(k, n, p))
    <3>1. CASE d = c
      BY <1>6, <2>1, <3>1 DEF AfterInv, SettledCovered, NewestLast
    <3>2. CASE d # c
      <4>1. call[d].event \in Packet /\ Follows(call[d].event, Len(queue) + 1) /\ call'[d] = call[d]
        BY <1>6, <3>2 DEF AfterInv, CallsFollow
      <4> QED BY <2>1, <4>1 DEF Follows
    <3> QED BY <3>1, <3>2
  <2>3. PICK n \in Nat : n = call'[d].event.after[k] /\ n <= Newest(k)
                         /\ (~refused => Covered(k, n, p))
    BY <2>2
  <2>4. n <= Newest(k)' /\ (~refused' => Covered(k, n, q)')
    BY <1>2, <2>1, <2>3
  <2> QED BY <2>1, <2>3, <2>4 DEF Covered
<1>7. QueueFollows' /\ CallsFollow'
  BY <1>5, <1>6 DEF QueueFollows, CallsFollow, Follows, Covered
<1>8. HandFollows'
  BY DEF AfterInv, HandFollows, InHand
<1> QED BY <1>3, <1>4, <1>7, <1>8 DEF AfterInv
\* A flag that is set covers every value of its state.
LEMMA DirtyCovers ==
  ASSUME InputInv, sender # "ended", NEW k \in Kinds, Dirty(k)
  PROVE  \/ hand.kind = k /\ sender \in {"relative", "fill"}
         \/ \E i \in 1..Len(queue) : i < Len(queue) + 1 /\ queue[i].kind = k
<1>1. Sound(k)
  BY SoundMeans DEF InputInv, BatchedStateAccounted
<1>2. Len(queue) \in Nat
  <2> HIDE DEF Packet
  <2> QED BY SeqFacts DEF InputInv, Types
<1>3. InSender(k) \/ \E i \in Holders(k) : TRUE
  BY <1>1 DEF Sound
<1> QED BY <1>2, <1>3 DEF InSender, Holders

LEMMA CallChanges ==
  ASSUME Types, NEW c \in Client, NEW x, call' = [call EXCEPT ![c] = x]
  PROVE  call'[c] = x /\ \A d \in Client \ {c} : call'[d] = call[d]
BY DEF Types

LEMMA AfterOfCalls ==
  ASSUME InputInv, OrderInv, AfterInv, Types', HistoryTypes', NEW c \in Client,
         EnterCall(c) \/ AddMovement(c) \/ SetLatest(c) \/ AllocateHolder(c)
  PROVE  AfterInv'
<1> USE Numbers
<1>1. /\ UNCHANGED <<hand, sender, reached, freeListShut, refused, queue>>
      /\ Types /\ HistoryTypes
  BY DEF EnterCall, AddMovement, SetLatest, AllocateHolder, thread, shut, InputInv, OrderInv
<1> SUFFICES ASSUME sender # "ended" PROVE AfterInv'
  BY <1>1 DEF AfterInv
<1>2. \A k \in Kinds : settled[k] <= Newest(k)
  BY DEF AfterInv, NewestLast
<1>3. ASSUME NEW k \in Kinds, Dirty(k), settled' = settled \/ settled' # settled
      PROVE  \A n : Covered(k, n, Len(queue) + 1)'
  <2>1. \/ hand'.kind = k /\ sender' \in {"relative", "fill"}
        \/ \E i \in 1..Len(queue') : i < Len(queue') + 1 /\ queue'[i].kind = k
    BY <1>1, <1>3, DirtyCovers
  <2> QED BY <2>1 DEF Covered
<1>4. CASE EnterCall(c)
  <2>1. UNCHANGED <<settled, moves, latest>> /\ call'[c].at = "entered"
        /\ \A d \in Client \ {c} : call'[d] = call[d]
    BY <1>1, <1>4 DEF EnterCall, Types
  <2>2. \A k \in Kinds : Newest(k)' = Newest(k)
    BY <2>1 DEF Newest
  <2> QED BY <1>1, <1>2, <2>1, <2>2, CallsKeep
<1>5. CASE AddMovement(c)
  <2> DEFINE e == call[c].event
  <2>1. /\ e.kind = "relative" /\ call[c].at = "entered" /\ latest' = latest /\ moves' = moves + 1
        /\ settled' = (IF relative.dirty \/ freeListShut
                       THEN [settled EXCEPT !["relative"] = moves'] ELSE settled)
        /\ call' = [call EXCEPT ![c] = Idle] \/ call' = [call EXCEPT ![c] = [at |-> "allocated", event |-> e]]
    BY <1>5 DEF AddMovement, Settle, AllocateOr, Return, ToOffer
  <2>2. /\ \A d \in Client \ {c} : call'[d] = call[d]
        /\ call'[c].at = "allocated" => call'[c].event = e
    BY <1>1, <2>1 DEF Types, Idle
  <2>3. e.kind \notin Discrete
    BY <2>1 DEF Discrete
  <2>4. /\ \A k \in Kinds \ {"relative"} : Newest(k)' = Newest(k)
        /\ Newest("relative") = moves /\ Newest("relative")' = moves'
        /\ moves \in Nat
    BY <1>1, <2>1 DEF Newest, Types
  <2>5. \A k \in Kinds : Newest(k) <= Newest(k)'
    BY <1>1, <2>1, <2>4
  <2>6. \A k \in Kinds : settled'[k] = settled[k] \/ (k = "relative" /\ settled'[k] = moves'
                                                     /\ (relative.dirty \/ freeListShut))
    BY <1>1, <2>1 DEF Types
  <2>7. \A k \in Kinds : settled'[k] <= Newest(k)'
    BY <1>1, <1>2, <2>1, <2>4, <2>5, <2>6
  <2>8. ASSUME NEW k \in Kinds
        PROVE  settled'[k] = settled[k] \/ freeListShut \/ Covered(k, settled[k], Len(queue) + 1)'
    <3>1. CASE k = "relative" /\ relative.dirty
      <4>1. Dirty(k)
        BY <3>1 DEF Dirty
      <4>2. \A n : Covered(k, n, Len(queue) + 1)'
        BY <1>3, <4>1
      <4> QED BY <4>2 DEF Covered
    <3> QED BY <2>6, <3>1
  <2> QED BY <1>1, <2>2, <2>3, <2>5, <2>7, <2>8, CallsKeep
<1>6. CASE SetLatest(c)
  <2> DEFINE e == call[c].event
  <2>0. PICK l \in Latest : l = e.kind
    BY <1>6 DEF SetLatest
  <2>1. /\ call[c].at = "entered" /\ moves' = moves
        /\ latest' = [latest EXCEPT ![l] = [latest[l] EXCEPT !.number = @ + 1]]
        /\ settled' = (IF latest[l].dirty \/ freeListShut
                       THEN [settled EXCEPT ![l] = latest[l].number + 1] ELSE settled)
        /\ call' = [call EXCEPT ![c] = Idle] \/ call' = [call EXCEPT ![c] = [at |-> "allocated", event |-> e]]
    <3>1. /\ call[c].at = "entered" /\ moves' = moves
          /\ latest' = [latest EXCEPT ![e.kind].number = @ + 1]
          /\ Settle(e.kind, latest[e.kind].number + 1, latest[e.kind].dirty \/ freeListShut)
          /\ AllocateOr(c, e, latest[e.kind].dirty)
      BY <1>6 DEF SetLatest
    <3>2. call' = [call EXCEPT ![c] = Idle] \/ call' = [call EXCEPT ![c] = [at |-> "allocated", event |-> e]]
      BY <3>1 DEF AllocateOr, Return, ToOffer
    <3> HIDE DEF e
    <3>3. latest' = [latest EXCEPT ![l] = [latest[l] EXCEPT !.number = @ + 1]]
      BY <2>0, <3>1
    <3>4. settled' = (IF latest[l].dirty \/ freeListShut
                      THEN [settled EXCEPT ![l] = latest[l].number + 1] ELSE settled)
      BY <2>0, <3>1 DEF Settle
    <3> QED BY <3>1, <3>2, <3>3, <3>4
  <2>2. /\ \A d \in Client \ {c} : call'[d] = call[d]
        /\ call'[c].at = "allocated" => call'[c].event = e
    <3> HIDE DEF e
    <3>1. \E x : x \in {Idle, [at |-> "allocated", event |-> e]} /\ call' = [call EXCEPT ![c] = x]
      BY <2>1
    <3>2. /\ \A d \in Client \ {c} : call'[d] = call[d]
          /\ call'[c] \in {Idle, [at |-> "allocated", event |-> e]}
      BY <1>1, <3>1, CallChanges
    <3> QED BY <3>2 DEF Idle
  <2>3. l \notin Discrete /\ l # "relative" /\ l \in Kinds
    BY KindsApart DEF Discrete
  <2>4. /\ latest[l].number \in Nat /\ latest'[l].number = latest[l].number + 1
        /\ \A k \in Latest \ {l} : latest'[k] = latest[k]
    <3>1. latest \in [Latest -> [number : Nat, dirty : BOOLEAN]]
      BY <1>1 DEF Types
    <3>2. latest[l] \in [number : Nat, dirty : BOOLEAN]
      BY <2>1, <3>1
    <3>3. [latest[l] EXCEPT !.number = @ + 1].number = latest[l].number + 1
      BY <3>2
    <3> QED BY <2>1, <3>1, <3>2, <3>3
  <2>5. /\ \A k \in Kinds \ {l} : Newest(k)' = Newest(k)
        /\ Newest(l) = latest[l].number /\ Newest(l)' = latest[l].number + 1
    BY <2>1, <2>3, <2>4, KindsApart DEF Newest
  <2>6. \A k \in Kinds : Newest(k) <= Newest(k)'
    BY <1>1, <2>4, <2>5
  <2>7. \A k \in Kinds : settled'[k] = settled[k] \/ (k = l /\ settled'[k] = latest[l].number + 1
                                                     /\ (latest[l].dirty \/ freeListShut))
    BY <1>1, <2>1 DEF Types
  <2>8. \A k \in Kinds : settled'[k] <= Newest(k)'
    BY <1>1, <1>2, <2>4, <2>5, <2>6, <2>7
  <2>9. ASSUME NEW k \in Kinds
        PROVE  settled'[k] = settled[k] \/ freeListShut \/ Covered(k, settled[k], Len(queue) + 1)'
    <3>1. CASE k = l /\ latest[l].dirty
      <4>1. Dirty(k)
        BY <2>3, <3>1 DEF Dirty
      <4>2. \A n : Covered(k, n, Len(queue) + 1)'
        BY <1>3, <4>1
      <4> QED BY <4>2 DEF Covered
    <3> QED BY <2>7, <3>1
  <2> QED BY <1>1, <2>0, <2>2, <2>3, <2>6, <2>8, <2>9, CallsKeep
<1>7. CASE AllocateHolder(c)
  <2> DEFINE e == call[c].event
             f == [e EXCEPT !.after = settled]
             g == [e EXCEPT !.after = settled, !.reliable = e.buttons # penButtons]
  <2>1. /\ UNCHANGED <<moves, latest, settled>> /\ e \in Packet
        /\ \/ call' = [call EXCEPT ![c] = Idle]
           \/ ~freeListShut /\ call' = [call EXCEPT ![c] = [at |-> "allocated", event |-> f]]
           \/ ~freeListShut /\ call' = [call EXCEPT ![c] = [at |-> "allocated", event |-> g]]
    <3>1. call[c].at = "entered"
      BY <1>7 DEF AllocateHolder
    <3> QED BY <1>1, <1>7, <3>1 DEF AllocateHolder, AllocateOr, Return, ToOffer
  <2>2. f.after = settled /\ g.after = settled
    BY <2>1 DEF Packet
  <2> HIDE DEF f, g
  <2>3. /\ \A d \in Client \ {c} : call'[d] = call[d]
        /\ call'[c] = Idle \/ (~freeListShut /\ call'[c].event.after = settled)
    BY <1>1, <2>1, <2>2 DEF Types
  <2>4. \A k \in Kinds : Newest(k)' = Newest(k)
    BY <2>1 DEF Newest
  <2>5. Idle.at = "idle"
    BY DEF Idle
  <2> QED BY <1>1, <1>2, <2>1, <2>3, <2>4, <2>5, CallsKeep
<1> QED BY <1>4, <1>5, <1>6, <1>7

LEMMA AfterOfOffer ==
  ASSUME InputInv, OrderInv, AfterInv, Types', HistoryTypes', NEW c \in Client, OfferHolder(c)
  PROVE  AfterInv'
<1> USE Numbers
<1> DEFINE e == call[c].event
           queued == ~draining /\ ~(Len(queue) >= QueueBound)
<1>1. /\ UNCHANGED <<moves, sender, hand, reached, freeListShut>> /\ call[c].at = "allocated"
      /\ queue' = (IF queued THEN Append(queue, e) ELSE queue)
      /\ call' = [call EXCEPT ![c] = Idle] /\ MarkDirty(e.kind, queued)
      /\ settled' = [k \in Kinds |-> IF k = e.kind THEN Newest(k) ELSE settled[k]]
      /\ refused => refused'
      /\ ~queued => refused' \/ draining
  BY DEF OfferHolder, thread, shut, Return
<1>2. Types /\ HistoryTypes /\ e \in Packet /\ (draining => freeListShut)
  BY <1>1 DEF InputInv, OrderInv, ShutOrder, Types
<1> SUFFICES ASSUME sender # "ended" PROVE AfterInv'
  BY <1>1 DEF AfterInv
<1>3. \A k \in Kinds : Newest(k)' = Newest(k)
  <2>1. \A k \in Latest : latest'[k].number = latest[k].number
    <3> SUFFICES ASSUME NEW k \in Latest PROVE latest'[k].number = latest[k].number
      OBVIOUS
    <3>1. latest'[k] = [latest[k] EXCEPT !.dirty = @ \/ (e.kind = k /\ queued)]
      BY <1>1 DEF MarkDirty
    <3>2. latest[k] \in [number : Nat, dirty : BOOLEAN]
      BY <1>2 DEF Types
    <3> QED BY <3>1, <3>2
  <2> QED BY <1>1, <2>1, KindsApart DEF Newest
<1>4. call'[c].at = "idle" /\ \A d \in Client \ {c} : call'[d] = call[d]
  BY <1>1, <1>2 DEF Types, Idle
<1>5. e.kind \in Discrete => Follows(e, Len(queue) + 1)
  BY <1>1 DEF AfterInv, CallsFollow
<1>6. \A k \in Kinds : settled'[k] <= Newest(k)'
  BY <1>1, <1>2, <1>3 DEF AfterInv, NewestLast
<1>7. ASSUME NEW k \in Kinds
      PROVE  \/ settled'[k] = settled[k] \/ freeListShut \/ refused'
             \/ Covered(k, settled[k], Len(queue) + 1)'
  <2>1. CASE k = e.kind /\ queued
    <3>1. queue \in Seq(Packet) /\ queue' = Append(queue, e)
      BY <1>1, <1>2, <2>1 DEF Types
    <3>2. Len(queue') = Len(queue) + 1 /\ queue'[Len(queue) + 1] = e /\ Len(queue) \in Nat
      <4> HIDE DEF Packet, e
      <4> QED BY <1>2, <3>1, AppendFacts
    <3>3. \E i \in 1..Len(queue') : i < Len(queue') + 1 /\ queue'[i].kind = k
      BY <2>1, <3>2
    <3> QED BY <3>3 DEF Covered
  <2>2. CASE k # e.kind
    BY <1>1, <2>2
  <2>3. CASE ~queued
    BY <1>1, <1>2, <2>3
  <2> QED BY <2>1, <2>2, <2>3
<1>8. \/ queue' = queue
      \/ \E x \in Packet : /\ queue' = Append(queue, x)
                           /\ x.kind \in Discrete => Follows(x, Len(queue) + 1)
  BY <1>1, <1>2, <1>5
<1>9. \A k \in Kinds : Newest(k) <= Newest(k)'
  BY <1>2, <1>3
<1>10. refused => refused'
  BY <1>1
<1> HIDE DEF e, queued
<1> QED BY <1>1, <1>2, <1>4, <1>6, <1>7, <1>8, <1>9, <1>10, CallsKeep
\* The sender takes a packet: a batched state's is filled in next, an event
\* has nothing of a batched state in front of it.
LEMMA AfterOfTaking ==
  ASSUME InputInv, OrderInv, AfterInv, TakePacket \/ MergeNext
  PROVE  AfterInv'
<1> USE Numbers
<1>1. /\ UNCHANGED <<call, settled, refused, freeListShut, reached, moves, latest>>
      /\ sender \in {"wait", "batch"} /\ Types /\ HistoryTypes
      /\ NewestLast /\ SettledCovered /\ QueueFollows /\ CallsFollow /\ HandFollows
  BY DEF TakePacket, MergeNext, clients, shut, InputInv, OrderInv, AfterInv
<1>2. /\ \A k \in Kinds : hand.kind # k
      /\ sender = "batch" => hand \in Packet
  BY <1>1, KindsApart DEF Types, SenderShape
<1>3. \A k \in Kinds : Newest(k)' = Newest(k)
  BY <1>1 DEF Newest
<1>4. CASE \/ sender = "wait" /\ queue = <<>>
           \/ sender = "batch" /\ ~(queue # <<>> /\ Mergeable(hand, Head(queue)))
  <2>1. UNCHANGED <<hand, queue>> /\ sender' = (IF sender = "wait" THEN "ended" ELSE "send")
    BY <1>4 DEF TakePacket, MergeNext
  <2>2. \A k \in Kinds, n \in Nat, p \in Nat : Covered(k, n, p) => Covered(k, n, p - 0)'
    BY <1>1, <1>2, <2>1 DEF Covered
  <2>3. SettledCovered' /\ QueueFollows' /\ CallsFollow'
    <3>1. /\ Len(queue') \in Nat /\ Len(queue) = Len(queue') + 0 /\ 0 \in {0, 1}
          /\ \A i \in 1..Len(queue') : queue'[i] = queue[i + 0]
      BY <1>1, <2>1
    <3>2. sender # "ended"
      BY <1>1
    <3> HIDE DEF Packet
    <3> QED BY <1>1, <1>3, <2>2, <3>1, <3>2, SenderKeeps
  <2>4. NewestLast'
    BY <1>1, <1>2, <1>3, <2>1 DEF NewestLast
  <2>5. sender' # "ended" => HandFollows'
    BY <1>1, <2>1 DEF HandFollows, InHand
  <2> QED BY <2>3, <2>4, <2>5 DEF AfterInv
<1>5. CASE /\ queue # <<>>
           /\ sender = "wait" \/ (sender = "batch" /\ Mergeable(hand, Head(queue)))
  <2> DEFINE e == Head(queue)
  <2>1. /\ queue' = Tail(queue)
        /\ sender = "wait" => hand' = e /\ sender' = Stage(e.kind)
        /\ sender = "batch" => /\ sender' = "batch" /\ e.kind = hand.kind
                               /\ hand' \in {e, [e EXCEPT !.reliable = hand.reliable]}
    BY <1>1, <1>5 DEF TakePacket, MergeNext, Mergeable
  <2>2. /\ e \in Packet /\ e = queue[1] /\ Len(queue') = Len(queue) - 1 /\ Len(queue) \in Nat \ {0}
        /\ \A i \in 1..Len(queue') : queue'[i] = queue[i + 1]
    <3> HIDE DEF Packet
    <3> QED BY <1>1, <1>5, <2>1, TailFacts DEF Types
  <2>3. hand'.kind = e.kind /\ hand'.after = e.after
    <3>1. /\ [e EXCEPT !.reliable = hand.reliable].kind = e.kind
          /\ [e EXCEPT !.reliable = hand.reliable].after = e.after
      BY <2>2 DEF Packet
    <3> QED BY <1>1, <2>1, <3>1
  <2>4. /\ sender' = "send" => e.kind \in Discrete
        /\ e.kind \in Kinds => sender' \in {"relative", "fill"}
    <3>1. CASE sender = "wait"
      BY <2>1, <2>2, <3>1, StageFits, KindsApart
    <3>2. CASE sender = "batch"
      BY <1>2, <2>1, <3>2
    <3> QED BY <1>1, <3>1, <3>2
  <2>5. ASSUME NEW k \in Kinds, NEW n \in Nat, NEW p \in Nat, 1 < p, Covered(k, n, p)
        PROVE  Covered(k, n, p - 1)'
    <3>1. CASE n <= reached[k]
      BY <1>1, <3>1 DEF Covered
    <3>2. CASE \E i \in 1..Len(queue) : i < p /\ queue[i].kind = k
      <4>1. PICK i \in 1..Len(queue) : i < p /\ queue[i].kind = k
        BY <3>2
      <4>2. CASE i = 1
        BY <2>2, <2>3, <2>4, <4>1, <4>2 DEF Covered
      <4>3. CASE i # 1
        <5>1. i - 1 \in 1..Len(queue') /\ i - 1 < p - 1 /\ queue'[i - 1] = queue[i]
          BY <2>2, <4>1, <4>3
        <5> QED BY <4>1, <5>1 DEF Covered
      <4> QED BY <4>2, <4>3
    <3> QED BY <1>2, <2>5, <3>1, <3>2 DEF Covered
  <2>6. SettledCovered' /\ QueueFollows' /\ CallsFollow'
    <3>1. /\ Len(queue') \in Nat /\ Len(queue) = Len(queue') + 1 /\ 1 \in {0, 1} /\ sender # "ended"
      BY <1>1, <2>2
    <3> HIDE DEF Packet
    <3> QED BY <1>1, <1>3, <2>2, <2>5, <3>1, SenderKeeps
  <2>7. NewestLast'
    <3>1. \A k \in Kinds : ~(sender' = "send" /\ hand'.kind = k)
      BY <2>3, <2>4, KindsApart DEF Discrete
    <3> QED BY <1>1, <1>3, <3>1 DEF NewestLast
  <2>8. HandFollows'
    <3> SUFFICES ASSUME InHand', ~refused', NEW k \in Kinds PROVE hand'.after[k] <= reached'[k]
      BY DEF HandFollows, InHand
    <3>1. e.kind \in Discrete
      BY <2>3 DEF InHand
    <3>2. 1 \in 1..Len(queue)
      BY <2>2
    <3>3. Covered(k, e.after[k], 1)
      BY <1>1, <2>2, <3>1, <3>2 DEF QueueFollows, Follows
    <3>4. e.after[k] <= reached[k]
      BY <1>2, <2>2, <3>3 DEF Covered
    <3> QED BY <1>1, <2>3, <3>4
  <2> QED BY <2>6, <2>7, <2>8 DEF AfterInv
<1> QED BY <1>1, <1>4, <1>5

\* A packet filled in, sent, or a chunk of movement sent: the queue stays.
LEMMA AfterOfSending ==
  ASSUME InputInv, OrderInv, AfterInv, FillLatest \/ SendPacket \/ SendRelative
  PROVE  AfterInv'
<1> USE Numbers
<1>1. /\ UNCHANGED <<call, settled, refused, freeListShut, moves, queue>>
      /\ sender \in {"fill", "send", "relative"} /\ Types /\ HistoryTypes
      /\ NewestLast /\ SettledCovered /\ QueueFollows /\ CallsFollow /\ HandFollows
  BY DEF FillLatest, SendPacket, SendRelative, shut, InputInv, OrderInv, AfterInv
<1>2. hand \in Packet
  BY <1>1 DEF Types, SenderShape
<1>3. \A k \in Kinds : Newest(k)' = Newest(k)
  <2>1. latest' = latest \/ latest' = [latest EXCEPT ![hand.kind].dirty = FALSE]
    BY DEF FillLatest, SendPacket, SendRelative
  <2>2. \A k \in Latest : latest'[k].number = latest[k].number
    <3>1. latest \in [Latest -> [number : Nat, dirty : BOOLEAN]]
      BY <1>1 DEF Types
    <3>2. \A k \in Latest : latest'[k] = latest[k] \/ latest'[k] = [latest[k] EXCEPT !.dirty = FALSE]
      BY <2>1, <3>1
    <3>3. \A k \in Latest : [latest[k] EXCEPT !.dirty = FALSE].number = latest[k].number
      BY <3>1
    <3> QED BY <3>2, <3>3
  <2> QED BY <1>1, <2>2, KindsApart DEF Newest
<1>4. /\ Len(queue') \in Nat /\ Len(queue) = Len(queue') + 0 /\ 0 \in {0, 1} /\ sender # "ended"
      /\ \A i \in 1..Len(queue') : queue'[i] = queue[i + 0]
  BY <1>1
<1>5. ASSUME NEW k \in Kinds PROVE Newest(k) \in Nat /\ settled[k] \in Nat /\ reached[k] \in Nat
  BY <1>1
<1>6. ASSUME \A k \in Kinds, n \in Nat, p \in Nat :
               n <= Newest(k) /\ Covered(k, n, p) => Covered(k, n, p - 0)'
      PROVE  SettledCovered' /\ QueueFollows' /\ CallsFollow'
  <2> HIDE DEF Packet
  <2> QED BY <1>1, <1>3, <1>4, <1>6, SenderKeeps
<1>7. Nothing.kind = "nothing"
  BY DEF Nothing, Event
<1>8. CASE FillLatest
  <2>1. /\ sender = "fill" /\ sender' = "send" /\ reached' = reached
        /\ hand' = [hand EXCEPT !.number = latest[hand.kind].number] /\ hand.kind \in Latest
    BY <1>1, <1>8 DEF FillLatest, Types, SenderShape
  <2>2. hand'.kind = hand.kind /\ hand'.number = Newest(hand.kind)
    BY <1>2, <2>1, KindsApart DEF Packet, Newest
  <2>3. ASSUME NEW k \in Kinds, NEW n \in Nat, NEW p \in Nat, n <= Newest(k), Covered(k, n, p)
        PROVE  Covered(k, n, p - 0)'
    BY <1>1, <2>1, <2>2, <2>3 DEF Covered
  <2>4. NewestLast'
    <3> SUFFICES ASSUME NEW k \in Kinds
                 PROVE  (/\ settled[k] <= Newest(k) /\ reached[k] <= Newest(k)
                         /\ sender = "send" /\ hand.kind = k =>
                              reached[k] <= hand.number /\ hand.number <= Newest(k))'
      BY DEF NewestLast, Newest
    <3> QED BY <1>1, <1>3, <1>5, <2>1, <2>2 DEF NewestLast
  <2>5. ~InHand'
    BY <2>1, <2>2, KindsApart DEF InHand, Discrete
  <2> QED BY <1>6, <2>3, <2>4, <2>5 DEF AfterInv, HandFollows
<1>9. CASE SendPacket
  <2>1. /\ sender = "send" /\ hand' = Nothing /\ sender' \in {"wait", "ended"}
        /\ sender' = "wait" => reached' = (IF hand.kind \in Latest
                                           THEN [reached EXCEPT ![hand.kind] = hand.number] ELSE reached)
    BY <1>9 DEF SendPacket, SendFails
  <2> SUFFICES ASSUME sender' = "wait" PROVE AfterInv'
    BY <2>1 DEF AfterInv
  <2>2. \A k \in Kinds : reached'[k] = (IF k = hand.kind THEN hand.number ELSE reached[k])
    <3>1. hand.kind \in Latest \cup Discrete
      BY <1>1, <2>1 DEF Types, SenderShape
    <3> QED BY <1>1, <2>1, <3>1, KindsApart DEF HistoryTypes, Discrete
  <2>3. \A k \in Kinds : k = hand.kind => reached[k] <= hand.number /\ hand.number <= Newest(k)
    BY <1>1, <2>1 DEF NewestLast
  <2>4. hand.number \in Nat /\ ~InHand'
    BY <1>2, <2>1, <1>7 DEF Packet, InHand, Discrete
  <2>5. ASSUME NEW k \in Kinds, NEW n \in Nat, NEW p \in Nat, n <= Newest(k), Covered(k, n, p)
        PROVE  Covered(k, n, p - 0)'
    <3>1. CASE n <= reached[k] \/ (hand.kind = k /\ n <= hand.number)
      <4>1. n <= reached'[k]
        BY <1>5, <2>2, <2>3, <2>4, <3>1
      <4> QED BY <4>1 DEF Covered
    <3>2. CASE \E i \in 1..Len(queue) : i < p /\ queue[i].kind = k
      BY <1>1, <3>2 DEF Covered
    <3> QED BY <2>1, <2>5, <3>1, <3>2 DEF Covered
  <2>6. NewestLast'
    <3> SUFFICES ASSUME NEW k \in Kinds
                 PROVE  (settled[k] <= Newest(k) /\ reached[k] <= Newest(k))'
      BY DEF NewestLast, Newest
    <3> QED BY <1>1, <1>3, <1>5, <2>2, <2>3 DEF NewestLast
  <2> QED BY <1>6, <2>4, <2>5, <2>6 DEF AfterInv, HandFollows
<1>10. CASE SendRelative
  <2>1. /\ sender = "relative" /\ hand.kind = "relative"
        /\ \/ sender' = "wait" /\ hand' = Nothing /\ reached' = [reached EXCEPT !["relative"] = moves]
           \/ UNCHANGED <<sender, hand, reached>>
           \/ sender' = "ended"
    BY <1>1, <1>10 DEF SendRelative, SendFails, Types, SenderShape
  <2> SUFFICES ASSUME sender' # "ended" PROVE AfterInv'
    BY DEF AfterInv
  <2>2. CASE UNCHANGED <<sender, hand, reached>>
    <3>1. ASSUME NEW k \in Kinds, NEW n \in Nat, NEW p \in Nat, Covered(k, n, p)
          PROVE  Covered(k, n, p - 0)'
      BY <1>1, <2>2, <3>1 DEF Covered
    <3>2. NewestLast'
      <4> SUFFICES ASSUME NEW k \in Kinds
                   PROVE  (/\ settled[k] <= Newest(k) /\ reached[k] <= Newest(k)
                           /\ sender = "send" /\ hand.kind = k =>
                                reached[k] <= hand.number /\ hand.number <= Newest(k))'
        BY DEF NewestLast, Newest
      <4> QED BY <1>1, <1>3, <2>1, <2>2 DEF NewestLast
    <3>3. HandFollows'
      BY <2>1, <2>2 DEF HandFollows, InHand
    <3> QED BY <1>6, <3>1, <3>2, <3>3 DEF AfterInv
  <2>3. CASE sender' = "wait" /\ hand' = Nothing /\ reached' = [reached EXCEPT !["relative"] = moves]
    <3>1. /\ Newest("relative") = moves /\ "relative" \in Kinds
          /\ \A k \in Kinds : reached'[k] = (IF k = "relative" THEN moves ELSE reached[k])
      BY <1>1, <2>3, KindsApart DEF HistoryTypes, Newest
    <3>2. ASSUME NEW k \in Kinds, NEW n \in Nat, NEW p \in Nat, n <= Newest(k), Covered(k, n, p)
          PROVE  Covered(k, n, p - 0)'
      <4>1. CASE n <= reached[k] \/ k = "relative"
        <5>1. reached[k] <= Newest(k)
          BY <1>1 DEF NewestLast
        <5>2. n <= reached'[k]
          BY <1>5, <3>1, <3>2, <4>1, <5>1
        <5> QED BY <5>2 DEF Covered
      <4>2. CASE \E i \in 1..Len(queue) : i < p /\ queue[i].kind = k
        BY <1>1, <4>2 DEF Covered
      <4> QED BY <2>1, <3>2, <4>1, <4>2 DEF Covered
    <3>3. NewestLast'
      <4> SUFFICES ASSUME NEW k \in Kinds
                   PROVE  (settled[k] <= Newest(k) /\ reached[k] <= Newest(k))'
        BY <2>3 DEF NewestLast, Newest
      <4> QED BY <1>1, <1>3, <1>5, <3>1 DEF NewestLast
    <3>4. ~InHand'
      BY <2>3 DEF InHand
    <3> QED BY <1>6, <3>2, <3>3, <3>4 DEF AfterInv, HandFollows
  <2> QED BY <2>1, <2>2, <2>3
<1> QED BY <1>8, <1>9, <1>10

LEMMA AfterAside ==
  ASSUME InputInv, OrderInv, AfterInv, StopInputStream \/ StopStep \/ UNCHANGED vars
  PROVE  AfterInv'
<1>1. /\ UNCHANGED <<call, settled, refused, moves, latest, queue, sender, hand, reached>>
      /\ freeListShut => freeListShut'
  BY DEF StopInputStream, StopStep, ShutFreeList, DrainQueue, JoinSender, Shutting, vars, clients,
         thread, shut
<1> QED BY <1>1 DEF AfterInv, NewestLast, SettledCovered, QueueFollows, CallsFollow, HandFollows,
                    Follows, Covered, Newest, InHand

LEMMA AfterBegins ==
  ASSUME call = [c \in Client |-> Idle], queue = <<>>, hand = Nothing, sender = "wait",
         reached = Zero, settled = Zero, moves = 0, latest = [k \in Latest |-> NoState]
  PROVE  AfterInv
<1>1. /\ \A c \in Client : call[c].at = "idle" /\ ~InHand
      /\ Len(queue) = 0 /\ ~InHand
  BY DEF Idle, InHand
<1>2. \A k \in Kinds : settled[k] = 0 /\ reached[k] = 0 /\ Newest(k) = 0
  BY KindsApart DEF Zero, Newest, NoState
<1>3. NewestLast
  BY <1>2 DEF NewestLast
<1>4. SettledCovered
  BY <1>2 DEF SettledCovered, Covered
<1>5. QueueFollows /\ CallsFollow /\ HandFollows
  BY <1>1 DEF QueueFollows, CallsFollow, HandFollows
<1> QED BY <1>3, <1>4, <1>5 DEF AfterInv

\* The invariant of the batched state in front of the events (InputStream.c
\* 216-330 and the tests of the dirty flags in the LiSend functions).
THEOREM AfterInvariant == Spec => []AfterInv
<1>1. Init => AfterInv
  BY AfterBegins DEF Init
<1>2. InputInv /\ OrderInv /\ InputInv' /\ OrderInv' /\ AfterInv /\ [Next]_vars => AfterInv'
  <2> SUFFICES ASSUME InputInv, OrderInv, InputInv', OrderInv', AfterInv, [Next]_vars
               PROVE  AfterInv'
    OBVIOUS
  <2>0. Types' /\ HistoryTypes'
    BY DEF InputInv, OrderInv
  <2>1. CASE \E c \in Client : EnterCall(c) \/ ClientStep(c)
    BY <2>0, <2>1, AfterOfCalls, AfterOfOffer DEF ClientStep
  <2>2. CASE SenderStep
    BY <2>2, AfterOfTaking, AfterOfSending DEF SenderStep
  <2>3. CASE StopInputStream \/ StopStep \/ UNCHANGED vars
    BY <2>3, AfterAside
  <2>4. CASE Restart
    <3>1. (/\ call = [c \in Client |-> Idle] /\ queue = <<>> /\ hand = Nothing /\ sender = "wait"
           /\ reached = Zero /\ settled = Zero /\ moves = 0
           /\ latest = [k \in Latest |-> NoState])'
      BY <2>4 DEF Restart
    <3> QED BY <3>1, AfterBegins, PTL
  <2> QED BY <2>1, <2>2, <2>3, <2>4 DEF Next
<1> QED BY <1>1, <1>2, InputInvariant, OrderInvariant, PTL DEF Spec

\* Whatever the client threads queue and the sender merges, discrete events
\* are sent in the order they were accepted in, only controller and pen packets
\* with the same buttons are left out, and unless the queue overflowed every
\* movement whose call had returned is sent before them.
THEOREM DiscreteEventsInOrder == Spec => EventsInOrder
<1> DEFINE Sent ==
      LET i == IndexOf(last')
      IN /\ \E j \in 1..Len(awaiting) : awaiting[j].number = last'.number
         /\ \A j \in 1..i - 1 : /\ awaiting[j].kind = last'.kind /\ last'.kind # "click"
                                /\ awaiting[j].buttons = last'.buttons
         /\ ~refused => \A k \in Kinds : last'.after[k] <= reached[k]
<1>1. InputInv /\ OrderInv /\ AfterInv /\ [Next]_vars => [last' # last /\ last' # Nothing => Sent]_vars
  <2> SUFFICES ASSUME InputInv, OrderInv, AfterInv, [Next]_vars, last' # last, last' # Nothing
               PROVE  Sent
    OBVIOUS
  <2>1. SendPacket /\ last' = hand /\ hand.kind \notin Latest
    <3>1. \/ SendPacket \/ Restart \/ last' = last
      BY DEF Next, EnterCall, ClientStep, AddMovement, SetLatest, AllocateHolder, OfferHolder,
             SenderStep, TakePacket, MergeNext, SendRelative, FillLatest, StopInputStream, StopStep,
             ShutFreeList, DrainQueue, JoinSender, Shutting, vars, thread
    <3>2. ~Restart
      BY DEF Restart
    <3>3. SendPacket
      BY <3>1, <3>2
    <3> QED BY <3>3 DEF SendPacket
  <2>2. sender = "send" /\ InHand /\ Numbered /\ HandFollows
    BY <2>1 DEF SendPacket, InHand, InputInv, Types, SenderShape, OrderInv, AfterInv
  <2>3. PICK h \in 0..Len(awaiting) : HandAt(h)
    BY <2>2 DEF OrderInv, InLine
  <2>4. IndexOf(last') = h /\ h \in 1..Len(awaiting)
    BY <2>1, <2>2, <2>3, SentInOrder
  <2>5. /\ awaiting[h].number = last'.number
        /\ last'.kind # "click" \/ h = 1
        /\ \A j \in 1..h : awaiting[j].kind = last'.kind /\ awaiting[j].buttons = last'.buttons
    BY <2>1, <2>2, <2>3 DEF HandAt
  <2>6. \A j \in 1..h - 1 : /\ awaiting[j].kind = last'.kind /\ last'.kind # "click"
                            /\ awaiting[j].buttons = last'.buttons
    <3>1. \A j \in 1..h - 1 : j \in 1..h /\ h # 1
      BY <2>4
    <3> QED BY <2>5, <3>1
  <2>7. ~refused => \A k \in Kinds : last'.after[k] <= reached[k]
    BY <2>1, <2>2 DEF HandFollows
  <2>9. \E j \in 1..Len(awaiting) : awaiting[j].number = last'.number
    BY <2>4, <2>5
  <2> QED BY <2>4, <2>6, <2>7, <2>9, Zenon
<1> QED BY <1>1, InputInvariant, OrderInvariant, AfterInvariant, PTL DEF Spec, EventsInOrder
====
