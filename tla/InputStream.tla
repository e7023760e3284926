---------------------------- MODULE InputStream ----------------------------
(***************************************************************************)
(* InputStream.c: input events on their way to the host.  Any thread of    *)
(* the client may call a LiSend...Event function; one thread, InputSend,   *)
(* takes the queued packets and sends them over the control stream.        *)
(*                                                                         *)
(* Three ways of batching keep the queue short:                            *)
(*   - relative movement is added up, and the mouse position and motion    *)
(*     sensors overwritten, in a state of which at most one packet is      *)
(*     queued, whose contents the sender fills in when it takes it;        *)
(*   - controller packets that differ only in sticks and triggers, and     *)
(*     pen packets that differ only in position, are merged by the sender; *)
(*   - everything else (buttons, keys, text, scrolling, touches) is queued *)
(*     and sent one by one.                                                *)
(***************************************************************************)
EXTENDS Integers, Sequences

CONSTANTS
  Client,      \* threads of the client that send input
  Moves,       \* relative movements <<dx, dy>>
  Latest,      \* states of which the newest value counts: the position of the
               \* mouse, each sensor of each controller
  Buttons,     \* states of the buttons of a controller or a pen
  Int16Max,    \* INT16_MAX
  QueueBound,  \* MAX_QUEUED_INPUT_PACKETS
  MaxEvents    \* calls made between a start and a stop

Int16Min == -Int16Max - 1

ASSUME InputAssumption ==
  /\ Int16Max \in Nat \ {0} /\ QueueBound \in Nat /\ MaxEvents \in Nat
  /\ Latest \cap {"relative", "click", "pad", "pen", "nothing"} = {}
  /\ Moves \subseteq (Int16Min..Int16Max) \X (Int16Min..Int16Max)

\* Packets that are sent as they were queued, or merged with the next.
Discrete == {"click", "pad", "pen"}

VARIABLES
  stage,        \* "up", "stopping" or "down"
  initialized, freeListShut, draining,
  call,         \* what each client thread is doing, and with which event
  queue,        \* packetQueue
  relative,     \* currentRelativeMouseState
  latest,       \* the other batched states; their value is a number
  penButtons,   \* currentPenButtonState
  sender, hand, \* where the InputSend thread is, and its holder
  \* history, read by no guard
  moved, wire,  \* total movement asked for and sent
  moves,        \* number of relative movements asked for
  settled,      \* of each batched state, the newest a call has returned for
  reached,      \* of each batched state, the newest the host has been sent
  awaiting,     \* discrete events accepted and not sent yet
  last,         \* the discrete event sent last
  refused,      \* whether the queue has ever been full
  failed,       \* sendInputPacket has failed
  events

clients == <<call, relative, latest, penButtons, moved, moves, settled, awaiting, refused, events>>
thread  == <<sender, hand, wire, reached, last, failed>>
shut    == <<stage, initialized, freeListShut, draining>>
vars    == <<clients, thread, shut, queue>>

Kinds == Latest \cup {"relative"}
Zero == [k \in Kinds |-> 0]
Event(k, m, b) ==
  [kind |-> k, move |-> m, buttons |-> b, number |-> 0, after |-> Zero, reliable |-> TRUE]
NoButtons == CHOOSE b \in Buttons : TRUE
Nothing == Event("nothing", <<0, 0>>, NoButtons)
Idle == [at |-> "idle", event |-> Nothing]
NoState == [number |-> 0, dirty |-> FALSE]

Init ==
  /\ stage = "up" /\ initialized = TRUE /\ freeListShut = FALSE /\ draining = FALSE
  /\ call = [c \in Client |-> Idle] /\ queue = <<>>
  /\ relative = [x |-> 0, y |-> 0, dirty |-> FALSE]
  /\ latest = [k \in Latest |-> NoState] /\ penButtons = NoButtons
  /\ sender = "wait" /\ hand = Nothing
  /\ moved = [x |-> 0, y |-> 0] /\ wire = [x |-> 0, y |-> 0] /\ moves = 0
  /\ settled = Zero /\ reached = Zero
  /\ awaiting = <<>> /\ last = Nothing
  /\ refused = FALSE /\ failed = FALSE /\ events = 0

(***************************************************************************)
(* The LiSend...Event functions.  batchedInputMutex is held from the first *)
(* change of a batched state to the end of the call.                       *)
(***************************************************************************)
Batched(e) == e.kind \in Kinds
Locked == \E c \in Client : call[c].at = "allocated" /\ Batched(call[c].event)

NewEvents ==
  {Event("relative", m, NoButtons) : m \in Moves}
  \cup {Event(k, <<0, 0>>, NoButtons) : k \in Latest \cup {"click"}}
  \cup {Event(k, <<0, 0>>, b) : k \in {"pad", "pen"}, b \in Buttons}

\* A call passes the test of initialized.
EnterCall(c) ==
  /\ call[c].at = "idle" /\ initialized /\ events < MaxEvents
  /\ events' = events + 1
  /\ \E e \in NewEvents :
       call' = [call EXCEPT ![c] = [at |-> "entered", event |-> [e EXCEPT !.number = events']]]
  /\ UNCHANGED <<relative, latest, penButtons, moved, moves, settled, awaiting, refused,
                 thread, shut, queue>>

Return(c) == call' = [call EXCEPT ![c] = Idle]
ToOffer(c, e) == call' = [call EXCEPT ![c] = [at |-> "allocated", event |-> e]]
\* allocatePacketHolder fails when the input stream is being stopped.
AllocateOr(c, e, done) == IF done \/ freeListShut THEN Return(c) ELSE ToOffer(c, e)
Newest(k) == IF k = "relative" THEN moves ELSE latest[k].number
\* The state a call returns for.
Settle(k, n, returns) == settled' = (IF returns THEN [settled EXCEPT ![k] = n] ELSE settled)

\* LiSendMouseMoveEvent: the movement is added first; a packet is queued only
\* if none is.
AddMovement(c) ==
  LET e == call[c].event
  IN /\ call[c].at = "entered" /\ e.kind = "relative" /\ ~Locked
     /\ relative' = [relative EXCEPT !.x = @ + e.move[1], !.y = @ + e.move[2]]
     /\ moved' = [x |-> moved.x + e.move[1], y |-> moved.y + e.move[2]]
     /\ moves' = moves + 1
     /\ Settle("relative", moves', relative.dirty \/ freeListShut)
     /\ AllocateOr(c, e, relative.dirty)
     /\ UNCHANGED <<latest, penButtons, awaiting, refused, events, thread, shut, queue>>

\* LiSendMousePositionEvent and LiSendControllerMotionEvent: the newest value
\* replaces the one before.
SetLatest(c) ==
  LET e == call[c].event
  IN /\ call[c].at = "entered" /\ e.kind \in Latest /\ ~Locked
     /\ latest' = [latest EXCEPT ![e.kind].number = @ + 1]
     /\ Settle(e.kind, latest[e.kind].number + 1, latest[e.kind].dirty \/ freeListShut)
     /\ AllocateOr(c, e, latest[e.kind].dirty)
     /\ UNCHANGED <<relative, penButtons, moved, moves, awaiting, refused, events, thread,
                    shut, queue>>

\* Buttons, keys, text, scrolling and touches, controllers and pens.  A pen
\* packet may get lost on the way to the host unless its buttons have changed.
AllocateHolder(c) ==
  LET e == call[c].event
  IN /\ call[c].at = "entered" /\ e.kind \in Discrete
     /\ IF e.kind = "pen"
        THEN /\ penButtons' = (IF freeListShut THEN penButtons ELSE e.buttons)
             /\ AllocateOr(c, [e EXCEPT !.after = settled, !.reliable = e.buttons # penButtons], FALSE)
        ELSE AllocateOr(c, [e EXCEPT !.after = settled], FALSE) /\ UNCHANGED penButtons
     /\ UNCHANGED <<relative, latest, moved, moves, settled, awaiting, refused, events, thread, shut,
                    queue>>

\* Mutated: the flag is set although the packet was not queued.
MutMarkDirty(k, queued) ==
  /\ relative' = [relative EXCEPT !.dirty = @ \/ k = "relative"]
  /\ latest' = [l \in Latest |-> [latest[l] EXCEPT !.dirty = @ \/ (k = l)]]

\* The state has a packet in the queue, if the packet was accepted.
MarkDirty(k, queued) ==
  /\ relative' = [relative EXCEPT !.dirty = @ \/ (k = "relative" /\ queued)]
  /\ latest' = [l \in Latest |-> [latest[l] EXCEPT !.dirty = @ \/ (k = l /\ queued)]]

\* LbqOfferQueueItem, which refuses when full or when the stream is stopping.
OfferHolder(c) ==
  LET e == call[c].event
      full == Len(queue) >= QueueBound
      queued == ~draining /\ ~full
  IN /\ call[c].at = "allocated"
     /\ queue' = (IF queued THEN Append(queue, e) ELSE queue)
     /\ awaiting' = (IF queued /\ e.kind \in Discrete THEN Append(awaiting, e) ELSE awaiting)
     /\ refused' = (refused \/ (full /\ ~draining))
     /\ settled' = [k \in Kinds |-> IF k = e.kind THEN Newest(k) ELSE settled[k]]
     /\ MarkDirty(e.kind, queued)
     /\ Return(c)
     /\ UNCHANGED <<penButtons, moved, moves, events, thread, shut>>

ClientStep(c) == AddMovement(c) \/ SetLatest(c) \/ AllocateHolder(c) \/ OfferHolder(c)

(***************************************************************************)
(* inputSendThreadProc.                                                    *)
(***************************************************************************)
\* How a packet is treated depends on its kind.
Stage(kind) == CASE kind = "relative"       -> "relative"
                 [] kind \in Latest         -> "fill"
                 [] kind \in {"pad", "pen"} -> "batch"
                 [] OTHER                   -> "send"

\* Mutated: the queue is shut down instead of drained.
MutTakePacket ==
  /\ sender = "wait"
  /\ IF queue = <<>> \/ draining
     THEN draining /\ sender' = "ended" /\ UNCHANGED <<hand, queue>>
     ELSE hand' = Head(queue) /\ queue' = Tail(queue) /\ sender' = Stage(Head(queue).kind)
  /\ UNCHANGED <<clients, wire, reached, last, failed, shut>>

\* The next packet, while there is one.
TakePacket ==
  /\ sender = "wait"
  /\ IF queue = <<>>
     THEN draining /\ sender' = "ended" /\ UNCHANGED <<hand, queue>>
     ELSE hand' = Head(queue) /\ queue' = Tail(queue) /\ sender' = Stage(Head(queue).kind)
  /\ UNCHANGED <<clients, wire, reached, last, failed, shut>>

\* Mutated: the buttons are not compared.
MutMergeable(a, b) == a.kind = b.kind

\* The same controller or pen with the same buttons.
Mergeable(a, b) == a.kind = b.kind /\ a.buttons = b.buttons

\* A controller packet takes the sticks of the next; a pen packet is replaced
\* by it, with its flags.
MergeNext ==
  /\ sender = "batch"
  /\ IF queue # <<>> /\ Mergeable(hand, Head(queue))
     THEN /\ hand' = (IF hand.kind = "pad" THEN [Head(queue) EXCEPT !.reliable = hand.reliable]
                      ELSE Head(queue))
          /\ queue' = Tail(queue) /\ UNCHANGED sender
     ELSE sender' = "send" /\ UNCHANGED <<hand, queue>>
  /\ UNCHANGED <<clients, wire, reached, last, failed, shut>>

\* What fits in a packet of a delta.
Chunk(d) == IF d < Int16Min THEN Int16Min ELSE IF d > Int16Max THEN Int16Max ELSE d

\* sendInputPacket fails, the connection is reported lost, the thread ends.
SendFails == sender' = "ended" /\ hand' = Nothing /\ failed' = TRUE

\* Relative movement: as many packets as the delta needs, including what is
\* added while one is being sent, and only then is nothing pending.
SendRelative ==
  /\ sender = "relative" /\ ~Locked
  /\ LET x == Chunk(relative.x)
         y == Chunk(relative.y)
     IN IF relative.x = 0 /\ relative.y = 0
        THEN /\ relative' = [relative EXCEPT !.dirty = FALSE]
             /\ sender' = "wait" /\ hand' = Nothing
             /\ reached' = [reached EXCEPT !["relative"] = moves]
             /\ UNCHANGED <<wire, failed>>
        ELSE /\ relative' = [relative EXCEPT !.x = @ - x, !.y = @ - y]
             /\ UNCHANGED reached
             /\ \/ /\ wire' = [x |-> wire.x + x, y |-> wire.y + y]
                   /\ UNCHANGED <<sender, hand, failed>>
                \/ SendFails /\ UNCHANGED wire
  /\ UNCHANGED <<call, latest, penButtons, moved, moves, settled, awaiting, refused, events,
                 last, shut, queue>>

\* Position and sensors: the packet gets the newest value.
FillLatest ==
  /\ sender = "fill" /\ ~Locked
  /\ hand' = [hand EXCEPT !.number = latest[hand.kind].number]
  /\ latest' = [latest EXCEPT ![hand.kind].dirty = FALSE]
  /\ sender' = "send"
  /\ UNCHANGED <<call, relative, penButtons, moved, moves, settled, awaiting, refused, events,
                 wire, reached, last, failed, shut, queue>>

IndexOf(e) == CHOOSE i \in 1..Len(awaiting) : awaiting[i].number = e.number

SendPacket ==
  /\ sender = "send"
  /\ \/ /\ sender' = "wait" /\ hand' = Nothing /\ UNCHANGED failed
        /\ IF hand.kind \in Latest
           THEN /\ reached' = [reached EXCEPT ![hand.kind] = hand.number]
                /\ UNCHANGED <<last, awaiting>>
           ELSE /\ last' = hand
                /\ awaiting' = SubSeq(awaiting, IndexOf(hand) + 1, Len(awaiting))
                /\ UNCHANGED reached
     \/ SendFails /\ UNCHANGED <<reached, last, awaiting>>
  /\ UNCHANGED <<call, relative, latest, penButtons, moved, moves, settled, refused, events,
                 wire, shut, queue>>

SenderStep == TakePacket \/ MergeNext \/ SendRelative \/ FillLatest \/ SendPacket

(***************************************************************************)
(* stopInputStream, and the next connection.                               *)
(***************************************************************************)
Shutting(from, to) == stage = from /\ stage' = to /\ UNCHANGED <<clients, thread, queue>>

StopInputStream == /\ Shutting("up", "stopping") /\ initialized' = FALSE
                   /\ UNCHANGED <<freeListShut, draining>>
ShutFreeList == /\ stage = "stopping" /\ ~freeListShut /\ freeListShut' = TRUE
                /\ UNCHANGED <<stage, initialized, draining, clients, thread, queue>>
DrainQueue == /\ freeListShut /\ ~draining /\ draining' = TRUE
              /\ UNCHANGED <<stage, initialized, freeListShut, clients, thread, queue>>
JoinSender == /\ draining /\ sender = "ended" /\ Shutting("stopping", "down")
              /\ UNCHANGED <<initialized, freeListShut, draining>>

Restart ==
  /\ stage = "down" /\ \A c \in Client : call[c].at = "idle"
  /\ stage' = "up" /\ initialized' = TRUE /\ freeListShut' = FALSE /\ draining' = FALSE
  /\ call' = [c \in Client |-> Idle] /\ queue' = <<>>
  /\ relative' = [x |-> 0, y |-> 0, dirty |-> FALSE]
  /\ latest' = [k \in Latest |-> NoState] /\ penButtons' = NoButtons
  /\ sender' = "wait" /\ hand' = Nothing
  /\ moved' = [x |-> 0, y |-> 0] /\ wire' = [x |-> 0, y |-> 0] /\ moves' = 0
  /\ settled' = Zero /\ reached' = Zero
  /\ awaiting' = <<>> /\ last' = Nothing
  /\ refused' = FALSE /\ failed' = FALSE /\ events' = 0

StopStep == ShutFreeList \/ DrainQueue \/ JoinSender

Next ==
  \/ \E c \in Client : EnterCall(c) \/ ClientStep(c)
  \/ SenderStep \/ StopInputStream \/ StopStep \/ Restart

Spec == Init /\ [][Next]_vars
\* Calls finish, and the two threads are scheduled.
FairSpec == /\ Spec /\ WF_vars(SenderStep) /\ WF_vars(StopStep)
            /\ \A c \in Client : WF_vars(ClientStep(c))

(***************************************************************************)
(* Properties.                                                             *)
(***************************************************************************)
\* Packets for a batched state that are queued or not filled in yet.
Holders(k) == {i \in 1..Len(queue) : queue[i].kind = k}
InSender(k) == hand.kind = k /\ sender \in {"relative", "fill"}

\* The dirty flag of a batched state says that exactly one packet will carry it.
DirtyMeansQueued ==
  sender # "ended" =>
    \A k \in Kinds :
      LET dirty == IF k = "relative" THEN relative.dirty ELSE latest[k].dirty
      IN IF dirty THEN \/ InSender(k) /\ Holders(k) = {}
                       \/ ~InSender(k) /\ \E i \in Holders(k) : Holders(k) = {i}
         ELSE ~InSender(k) /\ Holders(k) = {}

\* No movement is lost, made up or sent twice, and none is left behind: what
\* is pending has a packet, or its call is not over, or the queue was full.
MovementAccounted ==
  ~failed =>
    /\ wire.x + relative.x = moved.x /\ wire.y + relative.y = moved.y
    /\ ~refused /\ ~freeListShut /\ (relative.x # 0 \/ relative.y # 0) =>
         relative.dirty \/ \E c \in Client : call[c].at = "allocated" /\ call[c].event.kind = "relative"

\* The batched states are sound although the flag, the queue and the state are
\* under different locks and an offer can fail.
BatchedStateAccounted == DirtyMeansQueued /\ MovementAccounted

\* Discrete events are sent in the order they were queued in.  Merging leaves
\* out only controller or pen packets that differ from the one sent in nothing
\* but sticks or position; and unless the queue overflowed, all movement whose
\* calls had returned is sent before the event, so that a click never lands
\* where the pointer used to be.
EventsInOrder ==
  [][last' # last /\ last' # Nothing =>
       LET i == IndexOf(last')
       IN /\ \E j \in 1..Len(awaiting) : awaiting[j].number = last'.number
          /\ \A j \in 1..i - 1 : /\ awaiting[j].kind = last'.kind /\ last'.kind # "click"
                                 /\ awaiting[j].buttons = last'.buttons
          /\ ~refused => \A k \in Kinds : last'.after[k] <= reached[k]]_vars

\* stopInputStream returns, and unless the connection failed everything that
\* was accepted has been sent by then.
InputDrains ==
  stage = "stopping" ~> /\ stage = "down"
                        /\ failed \/ (queue = <<>> /\ awaiting = <<>> /\ ~relative.dirty)
=============================================================================
