--------------------------- MODULE ControlStream ---------------------------
(***************************************************************************)
(* ControlStream.c: the five threads that keep the host informed and that  *)
(* hear from it, with the queues and the event between them, from          *)
(* startControlStream to the end of stopControlStream.                     *)
(*                                                                         *)
(*   "recv"   ControlRecv   hears state changes, the host's farewell, and  *)
(*                          ENet's disconnect                              *)
(*   "async"  CtrlAsyncCb   hands state changes to the client's callbacks  *)
(*   "loss"   LossStats     sends pings and reports on FEC                 *)
(*   "idr"    ReqIdrFrame   asks the host for an IDR frame                 *)
(*   "rfi"    InvRefFrames  tells the host which frames were lost          *)
(*                                                                         *)
(* The video receive thread and the decoder report losses and request IDR  *)
(* frames while the stream is up; both are joined before it is stopped     *)
(* (Connection).  ENet protocols only (version 5 and later); memory is     *)
(* sequentially consistent.                                                *)
(***************************************************************************)
EXTENDS Integers, Sequences

CONSTANTS
  PerController,  \* states of one controller each (rumble, triggers, LED)
  Motion,         \* motion sensor rates, which are never batched
  Hdr,            \* the HDR mode, kept in a global as well
  MaxFrame,       \* highest frame number that may be lost
  TupleBound, FecBound, CallbackBound,  \* of the three queues
  Budgets         \* how much may happen during one connection

ASSUME BoundAssumption ==
  /\ MaxFrame \in Nat
  /\ TupleBound \in Nat /\ FecBound \in Nat /\ CallbackBound \in Nat
  /\ Budgets \subseteq [requests : Nat, messages : Nat, failures : Nat]
ASSUME KeyAssumption ==
  /\ PerController \cap Motion = {} /\ PerController \cap Hdr = {} /\ Motion \cap Hdr = {}
  /\ "bye" \notin PerController \cup Motion \cup Hdr  \* the host's farewell
  /\ \A h, g \in Hdr : h = g                          \* there is one display

Key == PerController \cup Motion \cup Hdr
Thread == {"recv", "async", "loss", "idr", "rfi"}
Requester == {"video", "decoder"}

VARIABLES
  call,        \* what the connection does with the stream
  todo,        \* the steps it still has to take for that
  useRfi,      \* isReferenceFrameInvalidationEnabled()
  stopping, quit,      \* static bool stopping; ConnectionInterrupted
  pc, interrupted,     \* where each thread is; who was told to end
  \* requests to the host
  requester,   \* where the two threads that call in are
  lost,        \* the last window the depacketizer reported
  tuples, tuplesShut,  \* invalidReferenceFrameTuples
  range,       \* startFrame and endFrame of invalidateRefFramesFunc
  event,       \* idrFrameRequiredEvent.signalled
  fec,         \* length of frameFecStatusQueue
  \* messages from the host
  peer, host, broken,  \* ENet's peer, the host, the local network
  inbox,       \* received by ENet, not dispatched yet
  intercept, disconnectPending,
  hdrState,    \* hdrEnabled: the number of the last HDR message handled
  callbacks, callbacksEnd,  \* asyncCallbackQueue and whether it is closed
  inHand,      \* queuedCb of asyncCallbackThreadFunc
  \* history, read by no guard
  untold,      \* lost frames the host is not told of; 0 for an IDR request
  sent, queued, shown,  \* last number per key: by the host, accepted, seen
  owed,        \* messages that were there before the first disconnect notice
  terminated,  \* connectionTerminated() took effect
  budget       \* what may still happen

caller  == <<call, todo, useRfi, stopping, quit>>
threads == <<pc, interrupted>>
frames  == <<requester, lost, tuples, tuplesShut, range, event, untold>>
network == <<peer, host, broken, inbox, intercept, disconnectPending, owed>>
states  == <<hdrState, callbacks, callbacksEnd, inHand, sent, queued, shown>>
rest    == <<fec, terminated, budget>>
vars    == <<caller, threads, frames, network, states, rest>>

Nobody == [t \in Thread |-> "none"]
Untouched == [k \in Key |-> 0]
\* The first step of each thread function.
First == [t \in Thread |-> CASE t = "recv" -> "poll" [] t = "loss" -> "send"
                             [] OTHER -> "wait"]

Create(t) == [op |-> "create", thread |-> t]
Interrupt(ts) == [op |-> "interrupt", threads |-> ts]
Join(ts) == [op |-> "join", threads |-> ts]
Do(o) == [op |-> o]

(***************************************************************************)
(* The three procedures of the connection's thread, as the steps they are  *)
(* made of.                                                                *)
(***************************************************************************)
StartSteps(withRfi) ==
  <<Do("connect"), Create("recv"), Do("startA"), Do("startB"), Create("loss"),
    Create("idr"), Create("async")>> \o (IF withRfi THEN <<Create("rfi")>> ELSE <<>>)

\* The cleanup of a start that failed, by the threads that exist by then.
UndoSteps ==
  LET Exists(t) == pc[t] # "none"
      End(t) == IF Exists(t) THEN <<Interrupt({t}), Join({t})>> ELSE <<>>
  IN <<Do("stopping")>>
     \o (IF Exists("idr") THEN <<Do("setEvent")>> ELSE <<>>)
     \o (IF Exists("async") THEN <<Do("shutCallbacks")>> ELSE <<>>)
     \o (IF Exists("recv") THEN <<Do("quit")>> ELSE <<>>)
     \o End("loss") \o End("recv") \o End("idr") \o End("async")
     \o <<Do("reset")>>

\* Mutated: the IDR thread is woken before it is told to stop.
MutStopSteps(withRfi) ==
  <<Do("setEvent"), Do("stopping"), Do("shutTuples"), Do("drainCallbacks"),
    Interrupt({"loss", "idr", "recv", "async"}), Join({"loss", "idr", "recv", "async"})>>
  \o (IF withRfi THEN <<Interrupt({"rfi"}), Join({"rfi"})>> ELSE <<>>)
  \o <<Do("reset")>>

StopSteps(withRfi) ==
  <<Do("stopping"), Do("shutTuples"), Do("drainCallbacks"), Do("setEvent"),
    Interrupt({"loss", "idr", "recv", "async"}), Join({"loss", "idr", "recv", "async"})>>
  \o (IF withRfi THEN <<Interrupt({"rfi"}), Join({"rfi"})>> ELSE <<>>)
  \o <<Do("reset")>>

Init ==
  /\ call = "starting" /\ useRfi \in BOOLEAN /\ todo = StartSteps(useRfi)
  /\ stopping = FALSE /\ quit = FALSE
  /\ pc = Nobody /\ interrupted = {}
  /\ requester = [r \in Requester |-> "idle"] /\ lost = [start |-> 0, end |-> 0]
  /\ tuples = <<>> /\ tuplesShut = FALSE /\ range = [start |-> 0, end |-> 0]
  /\ event = FALSE /\ fec = 0
  /\ peer = "none" /\ host = "serving" /\ broken = FALSE
  /\ inbox = <<>> /\ intercept = FALSE /\ disconnectPending = FALSE
  /\ hdrState = 0 /\ callbacks = <<>> /\ callbacksEnd = "open" /\ inHand = <<>>
  /\ untold = {} /\ sent = Untouched /\ queued = Untouched /\ shown = Untouched
  /\ owed = 0 /\ terminated = FALSE /\ budget \in Budgets

\* The next connection initializes everything again.
Restart ==
  /\ call = "down"
  /\ call' = "starting" /\ useRfi' \in BOOLEAN /\ todo' = StartSteps(useRfi')
  /\ stopping' = FALSE /\ quit' = FALSE
  /\ pc' = Nobody /\ interrupted' = {}
  /\ requester' = [r \in Requester |-> "idle"] /\ lost' = [start |-> 0, end |-> 0]
  /\ tuples' = <<>> /\ tuplesShut' = FALSE /\ range' = [start |-> 0, end |-> 0]
  /\ event' = FALSE /\ fec' = 0
  /\ peer' = "none" /\ host' = "serving" /\ broken' = FALSE
  /\ inbox' = <<>> /\ intercept' = FALSE /\ disconnectPending' = FALSE
  /\ hdrState' = 0 /\ callbacks' = <<>> /\ callbacksEnd' = "open" /\ inHand' = <<>>
  /\ untold' = {} /\ sent' = Untouched /\ queued' = Untouched /\ shown' = Untouched
  /\ owed' = 0 /\ terminated' = FALSE /\ budget' \in Budgets

\* connectionTerminated() is ignored once the connection is interrupted.
Terminate == terminated' = (terminated \/ ~quit)
\* A message reaches ENet's queue and the socket takes it.
CanSend == peer = "connected" /\ ~broken
Goto(t, l) == pc' = [pc EXCEPT ![t] = l]

(***************************************************************************)
(* startControlStream and stopControlStream.                               *)
(***************************************************************************)
Next1 == Head(todo)
Doing(o) == call \in {"starting", "undoing", "stopping"} /\ todo # <<>> /\ Next1.op = o
Advance == todo' = Tail(todo)

Connect ==
  /\ Doing("connect")
  /\ peer' = "connected" /\ intercept' = TRUE /\ Advance
  /\ UNCHANGED <<call, useRfi, stopping, quit, threads, frames, host, broken, inbox,
                 disconnectPending, owed, states, rest>>

CreateThread ==
  /\ Doing("create") /\ Advance
  /\ Goto(Next1.thread, First[Next1.thread])
  /\ UNCHANGED <<call, useRfi, stopping, quit, interrupted, frames, network, states, rest>>

SendStart ==
  /\ Doing("startA") \/ Doing("startB")
  /\ CanSend /\ Advance
  /\ UNCHANGED <<call, useRfi, stopping, quit, threads, frames, network, states, rest>>

\* Any step of a start may fail; sending START A or B fails with the network.
StartFails ==
  /\ call = "starting" /\ todo # <<>>
  /\ Next1.op \in {"startA", "startB"} => ~CanSend
  /\ call' = "undoing" /\ todo' = UndoSteps
  /\ UNCHANGED <<useRfi, stopping, quit, threads, frames, network, states, rest>>

Started ==
  /\ call = "starting" /\ todo = <<>> /\ call' = "up"
  /\ UNCHANGED <<todo, useRfi, stopping, quit, threads, frames, network, states, rest>>

\* LiStopConnection has interrupted the connection and joined the requesters.
Stop ==
  /\ call = "up" /\ \A r \in Requester : requester[r] = "idle"
  /\ call' = "stopping" /\ todo' = StopSteps(useRfi) /\ quit' = TRUE
  /\ UNCHANGED <<useRfi, stopping, threads, frames, network, states, rest>>

SetFlag ==
  /\ \/ Doing("stopping") /\ stopping' = TRUE /\ UNCHANGED <<quit, tuplesShut, event, callbacksEnd>>
     \/ Doing("quit") /\ quit' = TRUE /\ UNCHANGED <<stopping, tuplesShut, event, callbacksEnd>>
     \/ Doing("setEvent") /\ event' = TRUE /\ UNCHANGED <<stopping, quit, tuplesShut, callbacksEnd>>
     \/ Doing("shutTuples") /\ tuplesShut' = TRUE /\ UNCHANGED <<stopping, quit, event, callbacksEnd>>
     \/ Doing("shutCallbacks") /\ callbacksEnd' = "shutdown" /\ UNCHANGED <<stopping, quit, tuplesShut, event>>
     \/ Doing("drainCallbacks") /\ callbacksEnd' = "draining" /\ UNCHANGED <<stopping, quit, tuplesShut, event>>
  /\ Advance
  /\ UNCHANGED <<call, useRfi, threads, requester, lost, tuples, range, untold, network,
                 hdrState, callbacks, inHand, sent, queued, shown, rest>>

InterruptThread ==
  /\ Doing("interrupt") /\ Advance
  /\ interrupted' = interrupted \cup Next1.threads
  /\ UNCHANGED <<call, useRfi, stopping, quit, pc, frames, network, states, rest>>

JoinThread ==
  /\ Doing("join") /\ Advance
  /\ \A t \in Next1.threads : pc[t] = "ended"
  /\ UNCHANGED <<call, useRfi, stopping, quit, threads, frames, network, states, rest>>

\* The peer is disconnected, gracefully or not, and the ENet host destroyed.
Reset ==
  /\ Doing("reset") /\ Advance
  /\ peer' = "none" /\ inbox' = <<>> /\ intercept' = FALSE /\ call' = "down"
  /\ UNCHANGED <<useRfi, stopping, quit, threads, frames, host, broken, disconnectPending,
                 owed, states, rest>>

(***************************************************************************)
(* Requests: the video receive thread and the decoder.                     *)
(***************************************************************************)
Spend(what) == budget[what] > 0 /\ budget' = [budget EXCEPT ![what] = @ - 1]
Stimulus == call = "up" /\ Spend("requests")

\* connectionDetectedFrameLoss: the depacketizer reports windows that start
\* where the last one did, or after it, and end later.  Without invalidation,
\* or when the queue is full, an IDR frame is requested instead.
DetectedFrameLoss ==
  /\ Stimulus /\ requester["video"] = "idle"
  /\ \E e \in lost.end + 1..MaxFrame, s \in {lost.start, lost.end + 1} :
       /\ s > 0
       /\ lost' = [start |-> s, end |-> e]
       /\ untold' = untold \cup s..e
  /\ IF useRfi /\ Len(tuples) < TupleBound
     THEN tuples' = Append(tuples, lost') /\ UNCHANGED requester
     ELSE requester' = [requester EXCEPT !["video"] = "flush"] /\ UNCHANGED tuples
  /\ UNCHANGED <<caller, threads, tuplesShut, range, event, network, states, fec, terminated>>

\* Mutated: the event is set first, and the windows are flushed then.
MutRequestIdrFrame(r) ==
  \/ /\ Stimulus /\ requester[r] = "idle"
     /\ requester' = [requester EXCEPT ![r] = "set"]
     /\ untold' = untold \cup {0}
     /\ UNCHANGED <<tuples, event>>
  \/ /\ requester[r] = "set" /\ event' = TRUE
     /\ requester' = [requester EXCEPT ![r] = "flush"]
     /\ UNCHANGED <<tuples, untold, budget>>
  \/ /\ requester[r] = "flush" /\ tuples' = <<>>
     /\ requester' = [requester EXCEPT ![r] = "idle"]
     /\ UNCHANGED <<event, untold, budget>>

\* LiRequestIdrFrame, called by the decoder or the depacketizer, or from
\* queueFrameInvalidationTuple: the windows are redundant, the event is set.
RequestIdrFrame(r) ==
  \/ /\ Stimulus /\ requester[r] = "idle"
     /\ requester' = [requester EXCEPT ![r] = "flush"]
     /\ untold' = untold \cup {0}
     /\ UNCHANGED <<tuples, event>>
  \/ /\ requester[r] = "flush" /\ tuples' = <<>>
     /\ requester' = [requester EXCEPT ![r] = "set"]
     /\ UNCHANGED <<event, untold, budget>>
  \/ /\ requester[r] = "set" /\ event' = TRUE
     /\ requester' = [requester EXCEPT ![r] = "idle"]
     /\ UNCHANGED <<tuples, untold, budget>>

LiRequestIdrFrame(r) ==
  /\ RequestIdrFrame(r)
  /\ UNCHANGED <<caller, threads, lost, tuplesShut, range, network, states, fec, terminated>>

\* connectionSendFrameFecStatus, which drops the report when eight wait.
SendFrameFecStatus ==
  /\ Stimulus /\ fec < FecBound /\ fec' = fec + 1
  /\ UNCHANGED <<caller, threads, frames, network, states, terminated>>

(***************************************************************************)
(* requestIdrFrameFunc.  PltWaitForEvent and PltClearEvent are two steps.  *)
(***************************************************************************)
\* The end of a loop, and its test of the thread's interrupt flag.
LoopTest(t) == Goto(t, IF t \in interrupted THEN "ended" ELSE First[t])

IdrWait ==
  /\ pc["idr"] = "wait" /\ event
  /\ Goto("idr", "woken")
  /\ UNCHANGED <<caller, interrupted, frames, network, states, rest>>

IdrClear ==
  /\ pc["idr"] = "woken" /\ event' = FALSE
  /\ Goto("idr", "cleared")
  /\ UNCHANGED <<caller, interrupted, requester, lost, tuples, tuplesShut, range, untold,
                 network, states, rest>>

IdrTestStopping ==
  /\ pc["idr"] = "cleared"
  /\ Goto("idr", IF stopping THEN "ended" ELSE "flush")
  /\ UNCHANGED <<caller, interrupted, frames, network, states, rest>>

IdrFlush ==
  /\ pc["idr"] = "flush" /\ tuples' = <<>>
  /\ Goto("idr", "send")
  /\ UNCHANGED <<caller, interrupted, requester, lost, tuplesShut, range, event, untold,
                 network, states, rest>>

\* requestIdrFrame: the host starts over from the next frame it encodes.
IdrSend ==
  /\ pc["idr"] = "send"
  /\ LoopTest("idr")
  /\ IF CanSend THEN untold' = {} /\ UNCHANGED terminated
     ELSE Terminate /\ UNCHANGED untold
  /\ UNCHANGED <<caller, interrupted, requester, lost, tuples, tuplesShut, range, event,
                 network, states, fec, budget>>

(***************************************************************************)
(* invalidateRefFramesFunc.                                                *)
(***************************************************************************)
RfiWait ==
  /\ pc["rfi"] = "wait"
  /\ \/ tuplesShut /\ Goto("rfi", "ended") /\ UNCHANGED <<tuples, range>>
     \/ /\ ~tuplesShut /\ tuples # <<>>
        /\ range' = Head(tuples) /\ tuples' = Tail(tuples)
        /\ Goto("rfi", "merge")
  /\ UNCHANGED <<caller, interrupted, requester, lost, tuplesShut, event, untold, network,
                 states, rest>>

\* Mutated: the range is replaced by the window that is merged.
MutRfiMerge ==
  /\ pc["rfi"] = "merge"
  /\ IF tuplesShut \/ tuples = <<>>
     THEN Goto("rfi", "send") /\ UNCHANGED <<tuples, range>>
     ELSE range' = Head(tuples) /\ tuples' = Tail(tuples) /\ UNCHANGED pc
  /\ UNCHANGED <<caller, interrupted, requester, lost, tuplesShut, event, untold, network,
                 states, rest>>

\* All windows that wait become one range.
RfiMerge ==
  /\ pc["rfi"] = "merge"
  /\ IF tuplesShut \/ tuples = <<>>
     THEN Goto("rfi", "send") /\ UNCHANGED <<tuples, range>>
     ELSE /\ range' = [range EXCEPT !.end = Head(tuples).end]
          /\ tuples' = Tail(tuples) /\ UNCHANGED pc
  /\ UNCHANGED <<caller, interrupted, requester, lost, tuplesShut, event, untold, network,
                 states, rest>>

RfiSend ==
  /\ pc["rfi"] = "send"
  /\ LoopTest("rfi")
  /\ IF CanSend THEN untold' = untold \ (range.start..range.end) /\ UNCHANGED terminated
     ELSE Terminate /\ UNCHANGED untold
  /\ UNCHANGED <<caller, interrupted, requester, lost, tuples, tuplesShut, range, event,
                 network, states, fec, budget>>

(***************************************************************************)
(* lossStatsThreadFunc: FEC reports, then a ping, then a sleep that an     *)
(* interrupt cuts short.                                                   *)
(***************************************************************************)
LossSend ==
  /\ pc["loss"] = "send"
  /\ IF ~CanSend THEN Terminate /\ Goto("loss", "ended") /\ fec' = (IF fec > 0 THEN fec - 1 ELSE 0)
     ELSE /\ UNCHANGED terminated
          /\ IF fec > 0 /\ ~tuplesShut THEN fec' = fec - 1 /\ UNCHANGED pc
             ELSE LoopTest("loss") /\ UNCHANGED fec
  /\ UNCHANGED <<caller, interrupted, frames, network, states, budget>>

(***************************************************************************)
(* controlReceiveThreadFunc.                                               *)
(***************************************************************************)
\* queueAsyncCallback, after an HDR message has set the global state.
Accept(m) ==
  /\ hdrState' = (IF m.key \in Hdr THEN m.number ELSE hdrState)
  /\ IF callbacksEnd = "open" /\ Len(callbacks) < CallbackBound
     THEN callbacks' = Append(callbacks, m) /\ queued' = [queued EXCEPT ![m.key] = m.number]
     ELSE UNCHANGED <<callbacks, queued>>
  /\ UNCHANGED <<peer, terminated>>

\* A termination message ends the stream at once; a state change is passed on.
Handle(m) ==
  /\ IF m.key = "bye"
     THEN /\ peer' = "disconnected" /\ Terminate /\ Goto("recv", "ended")
          /\ UNCHANGED <<hdrState, callbacks, queued>>
     ELSE Accept(m) /\ Goto("recv", "poll")
  /\ inbox' = Tail(inbox)
  /\ owed' = (IF owed > 0 THEN owed - 1 ELSE 0)
  /\ UNCHANGED intercept

\* The thread reports the end of the connection and ends.
ReceiveFails ==
  /\ Terminate /\ Goto("recv", "ended")
  /\ peer' = (IF peer = "zombie" THEN "disconnected" ELSE peer)
  /\ UNCHANGED <<inbox, owed, intercept, hdrState, callbacks, queued>>

\* What serviceEnetHost returns: an error at once if the connection is
\* interrupted, else an event ENet has queued, an error, or nothing.
Serviced ==
  IF quit THEN ReceiveFails
  ELSE IF inbox # <<>> THEN Handle(Head(inbox))
  ELSE (broken \/ peer = "zombie") /\ ReceiveFails

ReceiveIdle ==
  UNCHANGED <<inbox, owed, peer, hdrState, callbacks, queued, terminated>>

\* Mutated: a pending disconnect is looked at before the events are.
MutReceivePoll ==
  /\ pc["recv"] = "poll"
  /\ IF "recv" \in interrupted THEN Goto("recv", "ended") /\ ReceiveIdle /\ UNCHANGED intercept
     ELSE IF disconnectPending THEN Goto("recv", "quiet") /\ ReceiveIdle /\ intercept' = FALSE
     ELSE Serviced
  /\ UNCHANGED <<caller, interrupted, frames, host, broken, disconnectPending, callbacksEnd,
                 inHand, sent, shown, fec, budget>>

\* The loop: with nothing to handle the thread waits for the socket, or looks
\* at a pending disconnect.
ReceivePoll ==
  /\ pc["recv"] = "poll"
  /\ IF "recv" \in interrupted THEN Goto("recv", "ended") /\ ReceiveIdle /\ UNCHANGED intercept
     ELSE \/ Serviced
          \/ /\ ~quit /\ ~broken /\ peer # "zombie" /\ inbox = <<>> /\ disconnectPending
             /\ Goto("recv", "quiet") /\ ReceiveIdle /\ UNCHANGED intercept
  /\ UNCHANGED <<caller, interrupted, frames, host, broken, disconnectPending, callbacksEnd,
                 inHand, sent, shown, fec, budget>>

\* Mutated: the intercept stays, and the wait for the disconnect starts again.
MutReceiveQuiet ==
  /\ pc["recv"] = "quiet"
  /\ \/ Serviced
     \/ /\ ~quit /\ ~broken /\ peer # "zombie" /\ inbox = <<>>
        /\ Goto("recv", "poll") /\ ReceiveIdle /\ UNCHANGED intercept
  /\ UNCHANGED <<caller, interrupted, frames, host, broken, disconnectPending, callbacksEnd,
                 inHand, sent, shown, fec, budget>>

\* A disconnect is pending.  If nothing more arrives within 100 ms it is let
\* through; if it is not repeated within a second the host is taken for dead.
ReceiveQuiet ==
  /\ pc["recv"] = "quiet"
  /\ \/ Serviced
     \/ /\ ~quit /\ ~broken /\ peer # "zombie" /\ inbox = <<>>
        /\ IF intercept
           THEN intercept' = FALSE /\ Goto("recv", "poll") /\ ReceiveIdle
           ELSE ReceiveFails
  /\ UNCHANGED <<caller, interrupted, frames, host, broken, disconnectPending, callbacksEnd,
                 inHand, sent, shown, fec, budget>>

(***************************************************************************)
(* asyncCallbackThreadFunc.  inHand holds the callback that is batched.    *)
(***************************************************************************)
AsyncWait ==
  /\ pc["async"] = "wait"
  /\ \/ /\ callbacksEnd = "shutdown" \/ (callbacksEnd = "draining" /\ callbacks = <<>>)
        /\ Goto("async", "ended") /\ UNCHANGED <<callbacks, inHand>>
     \/ /\ callbacksEnd # "shutdown" /\ callbacks # <<>>
        /\ inHand' = <<Head(callbacks)>> /\ callbacks' = Tail(callbacks)
        /\ Goto("async", "batch")
  /\ UNCHANGED <<caller, interrupted, frames, network, hdrState, callbacksEnd, sent, queued,
                 shown, rest>>

\* Mutated: the controller is not compared.
MutBatchable(m, next) == m.key \notin Motion /\ next.key \notin Motion \cup Hdr

\* The next callback replaces this one if it is for the same state.
Batchable(m, next) == m.key \notin Motion /\ next.key = m.key

AsyncBatch ==
  /\ pc["async"] = "batch"
  /\ IF callbacksEnd # "shutdown" /\ callbacks # <<>> /\ Batchable(inHand[1], Head(callbacks))
     THEN inHand' = <<Head(callbacks)>> /\ callbacks' = Tail(callbacks) /\ UNCHANGED pc
     ELSE Goto("async", "call") /\ UNCHANGED <<callbacks, inHand>>
  /\ UNCHANGED <<caller, interrupted, frames, network, hdrState, callbacksEnd, sent, queued,
                 shown, rest>>

\* The HDR callback is given the global state.
AsyncCall ==
  /\ pc["async"] = "call"
  /\ LET m == inHand[1]
     IN shown' = [shown EXCEPT ![m.key] = IF m.key \in Hdr THEN hdrState ELSE m.number]
  /\ inHand' = <<>> /\ Goto("async", "wait")
  /\ UNCHANGED <<caller, interrupted, frames, network, hdrState, callbacks, callbacksEnd,
                 sent, queued, rest>>

(***************************************************************************)
(* The host and the network.                                               *)
(***************************************************************************)
Connected == peer = "connected" /\ host # "gone" /\ ~broken

\* ENet takes a message from the network: whichever thread services the host.
HostSends ==
  /\ Connected /\ Spend("messages")
  /\ \/ \E k \in Key : /\ sent' = [sent EXCEPT ![k] = @ + 1]
                       /\ inbox' = Append(inbox, [key |-> k, number |-> sent[k] + 1])
     \/ inbox' = Append(inbox, [key |-> "bye", number |-> 0]) /\ UNCHANGED sent
  /\ UNCHANGED <<caller, threads, frames, peer, host, broken, intercept, disconnectPending,
                 owed, hdrState, callbacks, callbacksEnd, inHand, queued, shown, fec, terminated>>

HostLeaves ==
  /\ Connected /\ Spend("failures") /\ host = "serving" /\ host' = "leaving"
  /\ UNCHANGED <<caller, threads, frames, peer, broken, inbox, intercept, disconnectPending,
                 owed, states, fec, terminated>>

\* ENet's disconnect arrives, and is repeated until it is acknowledged:
\* ignoreDisconnectIntercept drops it; without the intercept ENet drops what
\* it has not dispatched and makes the peer a zombie.
DisconnectArrives ==
  /\ Connected /\ host = "leaving"
  /\ IF intercept
     THEN /\ disconnectPending' = TRUE
          /\ owed' = (IF disconnectPending THEN owed ELSE Len(inbox))
          /\ UNCHANGED <<peer, inbox>>
     ELSE peer' = "zombie" /\ inbox' = <<>> /\ UNCHANGED <<disconnectPending, owed>>
  /\ UNCHANGED <<caller, threads, frames, host, broken, intercept, states, rest>>

\* The host falls silent, and ENet's timeout makes the peer a zombie.
HostDies ==
  /\ Connected /\ Spend("failures") /\ host' = "gone"
  /\ UNCHANGED <<caller, threads, frames, peer, broken, inbox, intercept, disconnectPending,
                 owed, states, fec, terminated>>

PeerTimesOut ==
  /\ peer = "connected" /\ host = "gone"
  /\ peer' = "zombie" /\ inbox' = <<>>
  /\ UNCHANGED <<caller, threads, frames, host, broken, intercept, disconnectPending, owed,
                 states, rest>>

\* The socket fails.
NetworkFails ==
  /\ peer = "connected" /\ ~broken /\ Spend("failures") /\ broken' = TRUE
  /\ UNCHANGED <<caller, threads, frames, peer, host, inbox, intercept, disconnectPending,
                 owed, states, fec, terminated>>

\* The thread that starts and stops the stream.
CallerStep == \/ Connect \/ CreateThread \/ SendStart \/ StartFails \/ Started
              \/ SetFlag \/ InterruptThread \/ JoinThread \/ Reset
IdrStep  == \/ IdrWait \/ IdrClear \/ IdrTestStopping
            \/ IdrFlush \/ IdrSend
RfiStep  == RfiWait \/ RfiMerge \/ RfiSend
LossStep == LossSend
RecvStep == ReceivePoll \/ ReceiveQuiet
AsyncStep == AsyncWait \/ AsyncBatch \/ AsyncCall

Next ==
  \/ Restart \/ Stop \/ CallerStep
  \/ DetectedFrameLoss \/ (\E r \in Requester : LiRequestIdrFrame(r)) \/ SendFrameFecStatus
  \/ IdrStep \/ RfiStep \/ LossStep \/ RecvStep \/ AsyncStep
  \/ HostSends \/ HostLeaves \/ DisconnectArrives \/ HostDies \/ PeerTimesOut \/ NetworkFails

Spec == Init /\ [][Next]_vars

\* Threads are scheduled, calls finish; a disconnect is repeated until it is
\* acknowledged, and a silent host times out.  Nothing makes the client stop
\* the stream, a loss occur or the host speak.
Fairness ==
  /\ WF_vars(CallerStep)
  /\ WF_vars(IdrStep) /\ WF_vars(RfiStep) /\ WF_vars(LossStep)
  /\ WF_vars(RecvStep) /\ WF_vars(AsyncStep)
  /\ \A r \in Requester : WF_vars(requester[r] # "idle" /\ LiRequestIdrFrame(r))
  /\ WF_vars(DisconnectArrives) /\ WF_vars(PeerTimesOut)

FairSpec == Spec /\ Fairness

(***************************************************************************)
(* Properties.                                                             *)
(***************************************************************************)
\* A request for an IDR frame is on its way: it has been taken by the IDR
\* thread, or the event will make the thread take it.
IdrComing ==
  \/ event \/ pc["idr"] \in {"woken", "cleared", "flush", "send"}
  \/ \E r \in Requester : requester[r] # "idle"

Covers(w, f) == w.start <= f /\ f <= w.end

InTuples(f) == \E i \in 1..Len(tuples) : Covers(tuples[i], f)
InRange(f) == pc["rfi"] \in {"merge", "send"} /\ Covers(range, f)

\* While the stream lives, every lost frame the host does not know of is in a
\* window that waits, in the range the RFI thread holds, or about to be made
\* irrelevant by an IDR frame; and a requested IDR frame is being asked for.
\* (Windows are flushed by two threads while a third merges them and the
\* event is cleared after the wait, ControlStream.c 389, 1480 and 1512.)
NoLossForgotten ==
  call = "up" /\ ~terminated =>
    \A f \in untold : IdrComing \/ InTuples(f) \/ InRange(f)

\* The host is told of every lost frame, unless the connection dies or ends.
HostIsTold ==
  \A f \in 0..MaxFrame :
    f \in untold ~> (f \notin untold \/ terminated \/ call # "up")

\* startControlStream and stopControlStream return, whatever the threads are
\* doing: each thread that is joined was told to end and notices.
StartAndStopReturn == call \in {"starting", "undoing", "stopping"} ~> call \in {"up", "down"}

\* The last state that was accepted for a controller or the display has been
\* shown to the client, or is on its way there; when stopControlStream returns
\* it has been shown, and nothing is left in the queue.  Batching never drops
\* one state for another.
Pending(k) == \E i \in 1..Len(callbacks) : callbacks[i].key = k /\ callbacks[i].number = queued[k]
Handled(k) == \E i \in 1..Len(inHand) : inHand[i].key = k /\ inHand[i].number = queued[k]
StatesReachClient ==
  call \in {"up", "stopping"} \/ (call = "down" /\ pc["async"] = "ended" /\ callbacksEnd = "draining") =>
    /\ \A k \in Key : shown[k] >= queued[k] \/ Pending(k) \/ Handled(k)
    /\ pc["async"] = "ended" => callbacks = <<>> /\ inHand = <<>>

\* Messages that had arrived when the host's disconnect was first noticed are
\* handled before the disconnect takes effect and ENet drops them
\* (ControlStream.c 840: "drops disconnect events to allow us to process
\* pending receives first").
ReceivedBeforeDisconnect ==
  [][host = "leaving" /\ peer = "connected" /\ peer' = "zombie" => owed = 0]_vars

\* Once the host has left or died, or the network has failed, the client is
\* told, unless it stops the stream itself.
DeathIsReported ==
  (call = "up" /\ (host # "serving" \/ broken)) ~> (terminated \/ call # "up")
=============================================================================
