------------------------- MODULE ControlStreamProofs ------------------------
(***************************************************************************)
(* Proofs about ControlStream for any number of frames, any bound of the   *)
(* queue of windows and any budget of events.                              *)
(*                                                                         *)
(* That no loss is forgotten is not inductive: merging a window into the   *)
(* range of the RFI thread keeps the frames of both only because windows   *)
(* wait in order (WindowsInOrder), and a taken request is sent only because*)
(* nothing has been told to stop while the stream is up (NotStopping).     *)
(* That a disconnect waits for what had arrived needs to know how much of  *)
(* it ENet still holds (DisconnectInv).                                    *)
(***************************************************************************)
EXTENDS ControlStream, TLAPS

Window == [start : Nat, end : Nat]
Place == {"none", "poll", "quiet", "send", "wait", "woken", "cleared", "flush", "merge", "batch",
          "call", "ended"}

Types ==
  /\ pc \in [Thread -> Place] /\ requester \in [Requester -> {"idle", "flush", "set"}]
  /\ tuples \in Seq(Window) /\ range \in Window /\ lost \in Window
  /\ untold \subseteq Nat

\* w neither starts nor ends after v.
Before(w, v) == w.start <= v.start /\ w.end <= v.end

\* Windows wait in the order they were reported in; the last one reported is
\* the latest, and the range the RFI thread is merging is before them all.
WindowsInOrder ==
  /\ lost.start <= lost.end + 1
  /\ \A i \in 1..Len(tuples) : Before(tuples[i], lost)
  /\ \A i, j \in 1..Len(tuples) : i < j => Before(tuples[i], tuples[j])
  /\ pc["rfi"] = "merge" => Before(range, lost) /\ \A i \in 1..Len(tuples) : Before(range, tuples[i])

NotStopping == ~quit /\ ~stopping /\ ~tuplesShut

StartStep == {Do("connect"), Do("startA"), Do("startB")} \cup {Create(t) : t \in Thread}

\* Nothing is lost or requested before the stream is up.
NothingYet ==
  /\ untold = {} /\ tuples = <<>> /\ requester = [r \in Requester |-> "idle"]
  /\ todo \in Seq(StartStep)

LossInv ==
  /\ Types
  /\ call \in {"starting", "up"} => WindowsInOrder /\ NotStopping
  /\ call = "starting" => NothingYet
  /\ NoLossForgotten

-----------------------------------------------------------------------------
LEMMA StartStepsFit ==
  ASSUME NEW b \in BOOLEAN PROVE StartSteps(b) \in Seq(StartStep)
<1>1. \A t \in Thread : Create(t) \in StartStep
  BY DEF StartStep
<1>2. {Do("connect"), Do("startA"), Do("startB")} \subseteq StartStep
  BY DEF StartStep
<1>3. "recv" \in Thread /\ "loss" \in Thread /\ "idr" \in Thread /\ "async" \in Thread /\ "rfi" \in Thread
  BY DEF Thread
<1>4. <<Do("connect"), Create("recv"), Do("startA"), Do("startB"), Create("loss"),
        Create("idr"), Create("async")>> \in Seq(StartStep)
  BY <1>1, <1>2, <1>3
<1>5. (IF b THEN <<Create("rfi")>> ELSE <<>>) \in Seq(StartStep)
  BY <1>1, <1>3
<1> HIDE DEF StartStep
<1> QED BY <1>4, <1>5 DEF StartSteps

\* A connection that is about to start.
Beginning ==
  /\ call = "starting" /\ todo \in Seq(StartStep)
  /\ pc = Nobody /\ requester = [r \in Requester |-> "idle"]
  /\ lost = [start |-> 0, end |-> 0] /\ range = [start |-> 0, end |-> 0] /\ tuples = <<>>
  /\ untold = {} /\ NotStopping

LEMMA BeginningHolds == Beginning => LossInv
<1> SUFFICES ASSUME Beginning PROVE LossInv
  OBVIOUS
<1> USE DEF Beginning
<1>1. Types
  BY DEF Types, Window, Nobody, Place
<1>2. WindowsInOrder
  BY DEF WindowsInOrder, Nobody, Thread
<1>3. NothingYet /\ NoLossForgotten
  BY DEF NothingYet, NoLossForgotten
<1> QED BY <1>1, <1>2, <1>3 DEF LossInv

LEMMA LossInit == Init => LossInv
<1>1. Init => Beginning
  BY StartStepsFit DEF Init, Beginning, NotStopping
<1> QED BY <1>1, BeginningHolds

LEMMA LossRestart == Restart => LossInv'
<1>1. Restart => Beginning'
  <2> SUFFICES ASSUME Restart PROVE Beginning'
    OBVIOUS
  <2>1. todo' \in Seq(StartStep)
    BY StartStepsFit DEF Restart
  <2> HIDE DEF StartStep
  <2> QED BY <2>1 DEF Restart, Beginning, NotStopping
<1> QED BY <1>1, BeginningHolds, PTL

-----------------------------------------------------------------------------
\* A step of a thread keeps the places of all; only its own changes.
LEMMA GotoFacts ==
  ASSUME Types, NEW t \in Thread, NEW l \in Place, Goto(t, l)
  PROVE  /\ pc' \in [Thread -> Place] /\ pc'[t] = l
         /\ \A u \in Thread \ {t} : pc'[u] = pc[u]
BY DEF Types, Goto

LEMMA FirstFits == \A t \in Thread : First[t] \in Place \ {"merge"}
BY DEF First, Thread, Place

LEMMA LoopTestFacts ==
  ASSUME Types, NEW t \in Thread, LoopTest(t)
  PROVE  pc' \in [Thread -> Place] /\ \A u \in Thread \ {t} : pc'[u] = pc[u]
BY GotoFacts, FirstFits DEF LoopTest, Place

LEMMA TailFacts ==
  ASSUME NEW S, NEW q \in Seq(S), q # <<>>
  PROVE  /\ Head(q) \in S /\ Head(q) = q[1] /\ Tail(q) \in Seq(S) /\ Len(Tail(q)) = Len(q) - 1
         /\ Len(q) \in Nat \ {0} /\ \A i \in 1..Len(Tail(q)) : Tail(q)[i] = q[i + 1]
OBVIOUS

\* Once the client has been told that the connection ended, it has been told.
LEMMA TerminateFacts == Terminate \/ UNCHANGED terminated => (terminated => terminated')
BY Zenon DEF Terminate

\* What waits are windows, also when nothing does.
LEMMA NoneWait == (Types => tuples \in Seq(Window)) /\ <<>> \in Seq(Window)
BY DEF Types

\* What a thread does that neither reports nor asks for frames: the frames and
\* the other threads stay where they are.
LEMMA OtherThreads ==
  ASSUME Types, LossStep \/ RecvStep \/ AsyncStep
  PROVE  /\ pc' \in [Thread -> Place] /\ pc'["idr"] = pc["idr"] /\ pc'["rfi"] = pc["rfi"]
         /\ UNCHANGED <<frames, caller>>
         /\ terminated => terminated'
<1>1. "loss" \in Thread /\ "recv" \in Thread /\ "async" \in Thread
      /\ "idr" \in Thread \ {"loss", "recv", "async"} /\ "rfi" \in Thread \ {"loss", "recv", "async"}
  BY DEF Thread
<1>2. {"ended", "poll", "quiet", "batch", "call", "wait"} \subseteq Place
  BY DEF Place
<1>3. UNCHANGED <<frames, caller>> /\ (terminated => terminated')
  <2>1. UNCHANGED <<frames, caller>>
    BY DEF LossStep, LossSend, RecvStep, ReceivePoll, ReceiveQuiet, AsyncStep, AsyncWait,
           AsyncBatch, AsyncCall
  <2>2. UNCHANGED terminated \/ Terminate
    BY DEF LossStep, LossSend, RecvStep, ReceivePoll, ReceiveQuiet, ReceiveIdle, Serviced,
           ReceiveFails, Handle, Accept, AsyncStep, AsyncWait, AsyncBatch, AsyncCall, rest
  <2> QED BY <2>1, <2>2, TerminateFacts
<1>4. CASE LossStep
  <2>1. Goto("loss", "ended") \/ UNCHANGED pc \/ LoopTest("loss")
    BY <1>4 DEF LossStep, LossSend
  <2> QED BY <1>1, <1>2, <1>3, <2>1, GotoFacts, LoopTestFacts DEF Types
<1>5. CASE RecvStep
  <2>1. \E l \in {"ended", "poll", "quiet"} : Goto("recv", l)
    BY <1>5 DEF RecvStep, ReceivePoll, ReceiveQuiet, Serviced, ReceiveFails, Handle
  <2> QED BY <1>1, <1>2, <1>3, <2>1, GotoFacts
<1>6. CASE AsyncStep
  <2>1. UNCHANGED pc \/ \E l \in {"ended", "batch", "call", "wait"} : Goto("async", l)
    BY <1>6 DEF AsyncStep, AsyncWait, AsyncBatch, AsyncCall
  <2> QED BY <1>1, <1>2, <1>3, <2>1, GotoFacts DEF Types
<1> QED BY <1>4, <1>5, <1>6

-----------------------------------------------------------------------------
\* Nothing is promised of a stream that is being stopped or is down.
LEMMA NotUp ==
  ASSUME Types', call' \notin {"starting", "up"}
  PROVE  LossInv'
BY DEF LossInv, NoLossForgotten

\* A step that leaves frames, the connection and the two threads that ask for
\* frames alone.
LEMMA FramesKept ==
  ASSUME LossInv, pc' \in [Thread -> Place], UNCHANGED <<frames, call, quit, stopping>>,
         pc'["idr"] = pc["idr"], pc'["rfi"] = pc["rfi"],
         terminated => terminated',
         call = "starting" => todo' \in Seq(StartStep)
  PROVE  LossInv'
<1> USE DEF frames
<1>1. Types'
  BY DEF LossInv, Types
<1>2. WindowsInOrder => WindowsInOrder'
  BY DEF WindowsInOrder, Before
<1>3. NotStopping => NotStopping'
  BY DEF NotStopping
<1>4. call = "starting" => NothingYet'
  BY DEF LossInv, NothingYet
<1>5. NoLossForgotten'
  BY DEF LossInv, NoLossForgotten, IdrComing, InTuples, InRange, Covers
<1> QED BY <1>1, <1>2, <1>3, <1>4, <1>5 DEF LossInv

-----------------------------------------------------------------------------
(***************************************************************************)
(* The thread that starts and stops the stream.                            *)
(***************************************************************************)
LEMMA CallerKeeps == LossInv /\ (CallerStep \/ Stop) => LossInv'
<1> SUFFICES ASSUME LossInv, CallerStep \/ Stop PROVE LossInv'
  OBVIOUS
<1>1. Types
  BY DEF LossInv
<1>2. call = "starting" /\ todo # <<>> =>
        /\ Next1 \in StartStep /\ Tail(todo) \in Seq(StartStep)
        /\ Next1.op \in {"connect", "startA", "startB", "create"}
        /\ Next1.op = "create" => Next1.thread \in Thread
  <2> SUFFICES ASSUME call = "starting", todo # <<>>
               PROVE /\ Next1 \in StartStep /\ Tail(todo) \in Seq(StartStep)
                     /\ Next1.op \in {"connect", "startA", "startB", "create"}
                     /\ Next1.op = "create" => Next1.thread \in Thread
    OBVIOUS
  <2>1. todo \in Seq(StartStep)
    BY DEF LossInv, NothingYet
  <2>2. Next1 \in StartStep /\ Tail(todo) \in Seq(StartStep)
    <3> HIDE DEF StartStep
    <3> QED BY <2>1, TailFacts DEF Next1
  <2>3. \A x \in StartStep : /\ x.op \in {"connect", "startA", "startB", "create"}
                             /\ x.op = "create" => x.thread \in Thread
    BY DEF StartStep, Do, Create
  <2> QED BY <2>2, <2>3
<1>3. CASE Connect \/ SendStart
  <2>1. UNCHANGED <<frames, call, quit, stopping, pc, terminated>> /\ todo # <<>> /\ Advance
    <3>1. CASE Connect
      BY <3>1 DEF Connect, Doing, threads, rest
    <3>2. CASE SendStart
      BY <3>2 DEF SendStart, Doing, threads, rest
    <3> QED BY <1>3, <3>1, <3>2
  <2>2. call = "starting" => todo' \in Seq(StartStep)
    BY <1>2, <2>1 DEF Advance
  <2>3. pc' \in [Thread -> Place]
    BY <1>1, <2>1 DEF Types
  <2>4. terminated => terminated'
    BY <2>1
  <2> HIDE DEF StartStep
  <2> QED BY <2>1, <2>2, <2>3, <2>4, FramesKept
<1>4. CASE CreateThread
  <2>1. CASE call = "starting"
    <3>0. Next1.thread \in Thread /\ Tail(todo) \in Seq(StartStep)
      <4>1. todo # <<>> /\ Next1.op = "create"
        BY <1>4 DEF CreateThread, Doing
      <4> QED BY <1>2, <2>1, <4>1
    <3>1. PICK t \in Thread : t = Next1.thread
      BY <3>0
    <3>2. Goto(t, First[t]) /\ todo' = Tail(todo)
      BY <1>4, <3>1 DEF CreateThread, Advance
    <3>3. pc' \in [Thread -> Place] /\ pc'[t] = First[t] /\ \A u \in Thread \ {t} : pc'[u] = pc[u]
      BY <1>1, <3>2, FirstFits, GotoFacts
    <3>4. UNCHANGED <<frames, call, quit, stopping, terminated>>
      BY <1>4 DEF CreateThread, rest
    <3>5. Types'
      BY <1>1, <3>3, <3>4 DEF Types, frames
    <3>6. pc'["rfi"] = "merge" => pc["rfi"] = "merge"
      BY <3>3, FirstFits DEF Thread
    <3>7. WindowsInOrder'
      BY <2>1, <3>4, <3>6 DEF LossInv, WindowsInOrder, Before, frames
    <3>8. NotStopping'
      BY <2>1, <3>4 DEF LossInv, NotStopping, frames
    <3>9. NothingYet'
      BY <2>1, <3>0, <3>2, <3>4 DEF LossInv, NothingYet, frames
    <3> QED BY <2>1, <3>4, <3>5, <3>7, <3>8, <3>9 DEF LossInv, NoLossForgotten, frames
  <2>2. CASE call # "starting"
    <3>1. call' \notin {"starting", "up"}
      BY <1>4, <2>2 DEF CreateThread, Doing
    <3>2. PICK t : t = Next1.thread
      OBVIOUS
    <3>3. pc' = [pc EXCEPT ![t] = First[t]] /\ UNCHANGED frames
      BY <1>4, <3>2 DEF CreateThread, Goto
    <3>4. pc' \in [Thread -> Place]
      <4>1. CASE t \in Thread
        BY <1>1, <3>3, <4>1, FirstFits DEF Types
      <4>2. CASE t \notin Thread
        BY <1>1, <3>3, <4>2 DEF Types
      <4> QED BY <4>1, <4>2
    <3>5. Types'
      BY <1>1, <3>3, <3>4 DEF Types, frames
    <3> QED BY <3>1, <3>5, NotUp
  <2> QED BY <2>1, <2>2
<1>5. CASE Started
  <2>1. UNCHANGED <<frames, pc, quit, stopping>> /\ call = "starting" /\ call' = "up"
    BY <1>5 DEF Started, threads
  <2>2. Types' /\ NotStopping' /\ WindowsInOrder'
    BY <1>1, <2>1 DEF LossInv, Types, NotStopping, WindowsInOrder, Before, frames
  <2>3. untold' = {}
    BY <2>1 DEF LossInv, NothingYet, frames
  <2> QED BY <2>1, <2>2, <2>3 DEF LossInv, NoLossForgotten
<1>6. CASE StartFails \/ Stop \/ Reset
  <2>1. Types' /\ call' \notin {"starting", "up"}
    BY <1>1, <1>6 DEF StartFails, Stop, Reset, Types, threads, frames
  <2> QED BY <2>1, NotUp
<1>7. CASE SetFlag \/ InterruptThread \/ JoinThread
  <2>1. call' = call /\ call \in {"starting", "undoing", "stopping"} /\ todo # <<>>
    BY <1>7 DEF SetFlag, InterruptThread, JoinThread, Doing
  <2>2. call # "starting"
    BY <1>2, <1>7, <2>1 DEF SetFlag, InterruptThread, JoinThread, Doing
  <2>3. Types'
    BY <1>1, <1>7 DEF SetFlag, InterruptThread, JoinThread, Types, threads, frames
  <2> QED BY <2>1, <2>2, <2>3, NotUp
<1> QED BY <1>3, <1>4, <1>5, <1>6, <1>7 DEF CallerStep

-----------------------------------------------------------------------------
(***************************************************************************)
(* The depacketizer and the decoder.                                       *)
(***************************************************************************)
LEMMA ReportKeeps == LossInv /\ DetectedFrameLoss => LossInv'
<1> SUFFICES ASSUME LossInv, DetectedFrameLoss PROVE LossInv'
  OBVIOUS
<1>1. /\ Types /\ WindowsInOrder /\ NotStopping /\ NoLossForgotten
      /\ call = "up" /\ call' = "up"
      /\ UNCHANGED <<pc, quit, stopping, tuplesShut, range, event, terminated>>
  BY DEF LossInv, DetectedFrameLoss, Stimulus, caller, threads
<1>2. PICK e \in lost.end + 1..MaxFrame, s \in {lost.start, lost.end + 1} :
        s > 0 /\ lost' = [start |-> s, end |-> e] /\ untold' = untold \cup s..e
  BY DEF DetectedFrameLoss
<1>3. /\ lost \in Window /\ lost.start \in Nat /\ lost.end \in Nat /\ lost.start <= lost.end + 1
      /\ tuples \in Seq(Window) /\ range \in Window
  BY <1>1 DEF Types, Window, WindowsInOrder
<1>4. e \in Nat /\ s \in Nat /\ s <= e /\ lost.start <= s /\ lost.end <= e
  BY <1>2, <1>3, BoundAssumption
<1>5. lost' \in Window /\ lost'.start = s /\ lost'.end = e
  BY <1>2, <1>4 DEF Window
<1>6. untold' \subseteq Nat
  BY <1>1, <1>2, <1>4 DEF Types
<1>7. \A w \in Window : Before(w, lost) => Before(w, lost')
  BY <1>3, <1>4, <1>5 DEF Before, Window
<1>8. CASE requester' = [requester EXCEPT !["video"] = "flush"] /\ UNCHANGED tuples
  <2>1. Types'
    BY <1>1, <1>5, <1>6, <1>8 DEF Types, Requester
  <2>2. WindowsInOrder'
    <3>1. \A i \in 1..Len(tuples) : Before(tuples[i], lost')
      BY <1>1, <1>3, <1>7 DEF WindowsInOrder
    <3>2. pc["rfi"] = "merge" => Before(range, lost')
      BY <1>1, <1>3, <1>7 DEF WindowsInOrder
    <3>3. lost'.start <= lost'.end + 1
      BY <1>4, <1>5
    <3> QED BY <1>1, <1>8, <3>1, <3>2, <3>3 DEF WindowsInOrder, Before
  <2>3. requester'["video"] # "idle"
    BY <1>1, <1>8 DEF Types, Requester
  <2>4. NoLossForgotten' /\ NotStopping'
    BY <1>1, <2>3 DEF NoLossForgotten, IdrComing, Requester, NotStopping
  <2> QED BY <1>1, <2>1, <2>2, <2>4 DEF LossInv
<1>9. CASE tuples' = Append(tuples, lost') /\ UNCHANGED requester
  <2>1. Len(tuples) \in Nat /\ tuples' \in Seq(Window) /\ Len(tuples') = Len(tuples) + 1
        /\ tuples'[Len(tuples) + 1] = lost' /\ \A i \in 1..Len(tuples) : tuples'[i] = tuples[i]
    BY <1>3, <1>5, <1>9
  <2>2. Types'
    BY <1>1, <1>5, <1>6, <1>9, <2>1 DEF Types
  <2>3. \A i \in 1..Len(tuples) : tuples[i] \in Window /\ Before(tuples[i], lost')
    BY <1>1, <1>3, <1>7 DEF WindowsInOrder
  <2>4. WindowsInOrder'
    <3>1. Before(lost', lost')
      BY <1>4, <1>5 DEF Before
    <3>2. \A i \in 1..Len(tuples') : i \in 1..Len(tuples) \/ i = Len(tuples) + 1
      BY <2>1
    <3>3. \A i \in 1..Len(tuples') : Before(tuples'[i], lost')
      BY <2>1, <2>3, <3>1, <3>2
    <3>4. \A i, j \in 1..Len(tuples') : i < j => Before(tuples'[i], tuples'[j])
      <4> SUFFICES ASSUME NEW i \in 1..Len(tuples'), NEW j \in 1..Len(tuples'), i < j
                   PROVE  Before(tuples'[i], tuples'[j])
        OBVIOUS
      <4>1. i \in 1..Len(tuples)
        BY <2>1
      <4>2. CASE j \in 1..Len(tuples)
        BY <1>1, <2>1, <4>1, <4>2 DEF WindowsInOrder
      <4>3. CASE j = Len(tuples) + 1
        BY <2>1, <2>3, <4>1, <4>3
      <4> QED BY <3>2, <4>2, <4>3
    <3>5. pc["rfi"] = "merge" => Before(range, lost') /\ \A i \in 1..Len(tuples') : Before(range, tuples'[i])
      BY <1>1, <1>3, <1>7, <2>1, <3>2 DEF WindowsInOrder
    <3>6. lost'.start <= lost'.end + 1
      BY <1>4, <1>5
    <3> QED BY <1>1, <3>3, <3>4, <3>5, <3>6 DEF WindowsInOrder, Before
  <2>5. NoLossForgotten' /\ NotStopping'
    <3>1. ASSUME ~terminated, NEW f \in untold' PROVE IdrComing' \/ InTuples(f)' \/ InRange(f)'
      <4>1. CASE f \in untold
        <5>1. IdrComing \/ InTuples(f) \/ InRange(f)
          BY <1>1, <3>1, <4>1 DEF NoLossForgotten
        <5>2. IdrComing => IdrComing'
          BY <1>1, <1>9 DEF IdrComing
        <5>3. InTuples(f) => InTuples(f)'
          BY <2>1 DEF InTuples, Covers
        <5>4. InRange(f) => InRange(f)'
          BY <1>1 DEF InRange, Covers
        <5> QED BY <5>1, <5>2, <5>3, <5>4
      <4>2. CASE f \in s..e
        <5>1. Covers(tuples'[Len(tuples) + 1], f)
          BY <1>5, <2>1, <4>2 DEF Covers
        <5>2. Len(tuples) + 1 \in 1..Len(tuples')
          BY <2>1
        <5>3. \E i \in 1..Len(tuples') : Covers(tuples'[i], f)
          BY <5>1, <5>2
        <5> QED BY <5>3 DEF InTuples, Covers
      <4> QED BY <1>2, <4>1, <4>2
    <3>2. NoLossForgotten'
      BY <1>1, <3>1 DEF NoLossForgotten
    <3> QED BY <1>1, <3>2 DEF NotStopping
  <2> QED BY <1>1, <2>2, <2>4, <2>5 DEF LossInv
<1> QED BY <1>8, <1>9 DEF DetectedFrameLoss

LEMMA RequestKeeps == \A r \in Requester : LossInv /\ LiRequestIdrFrame(r) => LossInv'
<1> SUFFICES ASSUME NEW r \in Requester, LossInv, LiRequestIdrFrame(r) PROVE LossInv'
  OBVIOUS
<1>1. /\ Types
      /\ UNCHANGED <<call, todo, quit, stopping, pc, lost, tuplesShut, range, terminated>>
      /\ RequestIdrFrame(r)
  BY DEF LossInv, LiRequestIdrFrame, caller, threads
<1>2. requester[r] # "idle" \/ call = "up"
  BY <1>1 DEF RequestIdrFrame, Stimulus
<1>3. call # "starting"
  <2>1. call = "starting" => requester[r] = "idle"
    BY DEF LossInv, NothingYet
  <2> QED BY <1>2, <2>1
<1>4. tuples' = tuples \/ tuples' = <<>>
  BY <1>1 DEF RequestIdrFrame
<1>5. Types'
  <2>1. requester' \in [Requester -> {"idle", "flush", "set"}]
    <3>1. \E l \in {"idle", "flush", "set"} : requester' = [requester EXCEPT ![r] = l]
      BY <1>1 DEF RequestIdrFrame
    <3> QED BY <1>1, <3>1 DEF Types
  <2>2. untold' \subseteq Nat
    <3>1. untold' = untold \/ untold' = untold \cup {0}
      BY <1>1 DEF RequestIdrFrame
    <3>2. untold \subseteq Nat /\ 0 \in Nat
      BY <1>1 DEF Types
    <3> QED BY <3>1, <3>2
  <2>3. tuples' \in Seq(Window)
    BY <1>1, <1>4, NoneWait
  <2> QED BY <1>1, <2>1, <2>2, <2>3 DEF Types
<1>6. WindowsInOrder => WindowsInOrder'
  BY <1>1, <1>4 DEF WindowsInOrder, Before
<1>7. IdrComing'
  <2>1. event' \/ requester'[r] # "idle"
    BY <1>1 DEF RequestIdrFrame, Types
  <2> QED BY <2>1 DEF IdrComing
<1>8. NotStopping => NotStopping'
  BY <1>1 DEF NotStopping
<1> QED BY <1>1, <1>3, <1>5, <1>6, <1>7, <1>8 DEF LossInv, NoLossForgotten

-----------------------------------------------------------------------------
(***************************************************************************)
(* The two threads that tell the host.                                     *)
(***************************************************************************)
LEMMA IdrKeeps == LossInv /\ IdrStep => LossInv'
<1> SUFFICES ASSUME LossInv, IdrStep PROVE LossInv'
  OBVIOUS
<1>1. Types /\ UNCHANGED <<caller, requester, lost, tuplesShut, range>>
  BY DEF LossInv, IdrStep, IdrWait, IdrClear, IdrTestStopping, IdrFlush, IdrSend, frames
<1>2. "idr" \in Thread /\ "rfi" \in Thread \ {"idr"}
  BY DEF Thread
<1>3. (\E l \in Place : Goto("idr", l)) \/ LoopTest("idr")
  BY DEF IdrStep, IdrWait, IdrClear, IdrTestStopping, IdrFlush, IdrSend, Place
<1>4. pc' \in [Thread -> Place] /\ pc'["rfi"] = pc["rfi"]
  BY <1>1, <1>2, <1>3, GotoFacts, LoopTestFacts
<1>5. tuples' = tuples \/ tuples' = <<>>
  BY DEF IdrStep, IdrWait, IdrClear, IdrTestStopping, IdrFlush, IdrSend, frames
<1>6. untold' = untold \/ untold' = {}
  BY DEF IdrStep, IdrWait, IdrClear, IdrTestStopping, IdrFlush, IdrSend, frames
<1>7. Types'
  <2>1. tuples' \in Seq(Window)
    BY <1>1, <1>5, NoneWait
  <2> QED BY <1>1, <1>4, <1>6, <2>1 DEF Types
<1>8. WindowsInOrder => WindowsInOrder'
  BY <1>1, <1>4, <1>5 DEF WindowsInOrder, Before
<1>9. UNCHANGED <<call, todo, quit, stopping, tuplesShut>>
  BY <1>1 DEF caller
<1>10. call = "starting" => NothingYet'
  BY <1>1, <1>5, <1>6, <1>9 DEF LossInv, NothingYet
<1>11. NoLossForgotten'
  <2> SUFFICES ASSUME call = "up", ~terminated' PROVE untold' = {} \/ IdrComing'
    BY <1>9 DEF NoLossForgotten
  <2>1. ~stopping /\ ~quit
    BY DEF LossInv, NotStopping
  <2>2. CASE IdrWait \/ IdrClear \/ IdrTestStopping \/ IdrFlush
    <3>1. \E l \in {"woken", "cleared", "flush", "send"} : Goto("idr", l)
      BY <2>1, <2>2 DEF IdrWait, IdrClear, IdrTestStopping, IdrFlush
    <3>2. pc'["idr"] \in {"woken", "cleared", "flush", "send"}
      BY <1>1, <1>2, <3>1 DEF Types, Goto
    <3> QED BY <3>2 DEF IdrComing
  <2>3. CASE IdrSend
    <3>1. untold' = {} \/ Terminate
      BY <2>3 DEF IdrSend
    <3>2. ~Terminate
      BY <2>1, Zenon DEF Terminate
    <3> QED BY <3>1, <3>2
  <2> QED BY <2>2, <2>3 DEF IdrStep
<1> QED BY <1>7, <1>8, <1>9, <1>10, <1>11 DEF LossInv, NotStopping

LEMMA RfiKeeps == LossInv /\ RfiStep => LossInv'
<1> SUFFICES ASSUME LossInv, RfiStep PROVE LossInv'
  OBVIOUS
<1>1. Types /\ UNCHANGED <<caller, requester, lost, tuplesShut, event>>
  BY DEF LossInv, RfiStep, RfiWait, RfiMerge, RfiSend, frames
<1>2. "rfi" \in Thread /\ "idr" \in Thread \ {"rfi"}
  BY DEF Thread
<1>3. UNCHANGED pc \/ (\E l \in Place : Goto("rfi", l)) \/ LoopTest("rfi")
  BY DEF RfiStep, RfiWait, RfiMerge, RfiSend, Place
<1>4. pc' \in [Thread -> Place] /\ pc'["idr"] = pc["idr"]
  BY <1>1, <1>2, <1>3, GotoFacts, LoopTestFacts DEF Types
<1>5. UNCHANGED <<call, todo, quit, stopping, tuplesShut>>
  BY <1>1 DEF caller
<1>6. IdrComing => IdrComing'
  BY <1>1, <1>4 DEF IdrComing
<1>7. tuples # <<>> => /\ Head(tuples) \in Window /\ Head(tuples) = tuples[1]
                       /\ Tail(tuples) \in Seq(Window) /\ Len(Tail(tuples)) = Len(tuples) - 1
                       /\ Len(tuples) \in Nat \ {0}
                       /\ \A i \in 1..Len(Tail(tuples)) : Tail(tuples)[i] = tuples[i + 1]
  BY <1>1, TailFacts DEF Types
<1>8. range \in Window /\ range.start \in Nat /\ range.end \in Nat
  BY <1>1 DEF Types, Window
\* Taking the first window: what is left is still in order.
<1>9. ASSUME tuples # <<>>, tuples' = Tail(tuples), range' \in Window, range'.end = Head(tuples).end,
             range'.start <= Head(tuples).start, UNCHANGED <<untold, terminated>>,
             pc["rfi"] \in {"wait", "merge"}, pc'["rfi"] = "merge",
             pc["rfi"] = "merge" => range'.start = range.start
      PROVE  LossInv'
  <2>1. Types'
    BY <1>1, <1>4, <1>7, <1>9 DEF Types
  <2>2. call # "starting"
    BY <1>9 DEF LossInv, NothingYet
  <2>3. 1 \in 1..Len(tuples) /\ \A i \in 1..Len(tuples') : i + 1 \in 1..Len(tuples) /\ 1 < i + 1
        /\ tuples'[i] = tuples[i + 1]
    BY <1>7, <1>9
  <2>4. \A w \in Window : w.start \in Nat /\ w.end \in Nat
    BY DEF Window
  <2>5. tuples[1] \in Window /\ \A i \in 1..Len(tuples') : tuples'[i] \in Window
    BY <1>7, <1>9
  <2>6. \A w \in Window : lost' = lost /\ (Before(tuples[1], w) => Before(range', w))
    BY <1>1, <1>7, <1>9, <2>4, <2>5 DEF Before
  <2>7. WindowsInOrder => WindowsInOrder'
    <3> SUFFICES ASSUME WindowsInOrder PROVE WindowsInOrder'
      OBVIOUS
    <3>1. \A i \in 1..Len(tuples') : Before(tuples'[i], lost)
      BY <2>3 DEF WindowsInOrder
    <3>2. \A i, j \in 1..Len(tuples') : i < j => Before(tuples'[i], tuples'[j])
      <4> SUFFICES ASSUME NEW i \in 1..Len(tuples'), NEW j \in 1..Len(tuples'), i < j
                   PROVE  Before(tuples'[i], tuples'[j])
        OBVIOUS
      <4>1. i + 1 \in 1..Len(tuples) /\ j + 1 \in 1..Len(tuples) /\ i + 1 < j + 1
        BY <2>3
      <4>2. Before(tuples[i + 1], tuples[j + 1])
        BY <4>1 DEF WindowsInOrder
      <4> QED BY <2>3, <4>2
    <3>3. Before(range', lost)
      BY <1>1, <2>3, <2>6 DEF WindowsInOrder, Types
    <3>4. \A i \in 1..Len(tuples') : Before(range', tuples'[i])
      <4> SUFFICES ASSUME NEW i \in 1..Len(tuples') PROVE Before(range', tuples'[i])
        OBVIOUS
      <4>1. Before(tuples[1], tuples[i + 1])
        BY <2>3 DEF WindowsInOrder
      <4> QED BY <2>3, <2>5, <2>6, <4>1
    <3> QED BY <1>1, <3>1, <3>2, <3>3, <3>4 DEF WindowsInOrder, Before
  <2>8. NoLossForgotten'
    <3> SUFFICES ASSUME call = "up", ~terminated, NEW f \in untold
                 PROVE  IdrComing' \/ InTuples(f)' \/ InRange(f)'
      BY <1>5, <1>9 DEF NoLossForgotten
    <3>1. IdrComing \/ InTuples(f) \/ InRange(f)
      BY DEF LossInv, NoLossForgotten
    <3>2. f \in Nat
      BY <1>1 DEF Types
    <3>3. Covers(range', f) => InRange(f)'
      BY <1>9 DEF InRange, Covers
    <3>4. CASE InRange(f)
      <4>1. range.start <= f /\ f <= range.end /\ pc["rfi"] = "merge"
        BY <1>9, <3>4 DEF InRange, Covers
      <4>2. Before(range, tuples[1])
        BY <2>3, <4>1 DEF LossInv, WindowsInOrder
      <4>3. range'.start <= f /\ f <= range'.end
        BY <1>7, <1>8, <1>9, <2>4, <3>2, <4>1, <4>2 DEF Before
      <4> QED BY <3>3, <4>3 DEF Covers
    <3>5. CASE InTuples(f)
      <4>1. PICK k \in 1..Len(tuples) : Covers(tuples[k], f)
        BY <3>5 DEF InTuples
      <4>2. CASE k = 1
        <5>1. range'.start <= f /\ f <= range'.end
          BY <1>7, <1>9, <2>4, <2>5, <3>2, <4>1, <4>2 DEF Covers
        <5> QED BY <3>3, <5>1 DEF Covers
      <4>3. CASE k # 1
        <5>1. k - 1 \in 1..Len(tuples') /\ tuples'[k - 1] = tuples[k]
          BY <1>7, <1>9, <4>3
        <5>2. Covers(tuples'[k - 1], f)
          BY <4>1, <5>1
        <5> QED BY <5>1, <5>2 DEF InTuples, Covers
      <4> QED BY <4>2, <4>3
    <3> QED BY <1>6, <3>1, <3>4, <3>5
  <2> QED BY <1>5, <2>1, <2>2, <2>7, <2>8 DEF LossInv, NotStopping
<1>10. CASE RfiWait
  <2>1. CASE tuplesShut
    <3>1. call \notin {"starting", "up"}
      BY <2>1 DEF LossInv, NotStopping
    <3>2. Types'
      BY <1>1, <1>4, <1>10, <2>1 DEF RfiWait, Types
    <3> QED BY <1>5, <3>1, <3>2, NotUp
  <2>2. CASE ~tuplesShut
    <3>1. /\ tuples # <<>> /\ range' = Head(tuples) /\ tuples' = Tail(tuples) /\ pc["rfi"] = "wait"
          /\ Goto("rfi", "merge") /\ UNCHANGED <<untold, terminated>>
      BY <1>10, <2>2 DEF RfiWait, rest
    <3>2. pc'["rfi"] = "merge"
      BY <1>1, <1>2, <3>1 DEF Types, Goto
    <3>3. range' \in Window /\ range'.end = Head(tuples).end /\ range'.start <= Head(tuples).start
      BY <1>7, <3>1 DEF Window
    <3> QED BY <1>9, <3>1, <3>2, <3>3
  <2> QED BY <2>1, <2>2
<1>11. CASE RfiMerge
  <2>1. CASE tuplesShut \/ tuples = <<>>
    <3>1. pc["rfi"] = "merge" /\ Goto("rfi", "send") /\ UNCHANGED <<tuples, range, untold, terminated>>
      BY <1>11, <2>1 DEF RfiMerge, rest
    <3>2. pc'["rfi"] = "send"
      BY <1>1, <1>2, <3>1 DEF Types, Goto
    <3>3. Types'
      BY <1>1, <1>4, <3>1 DEF Types
    <3>4. WindowsInOrder => WindowsInOrder'
      BY <1>1, <3>1, <3>2 DEF WindowsInOrder, Before
    <3>5. call = "starting" => NothingYet'
      BY <1>1, <1>5, <3>1 DEF LossInv, NothingYet
    <3>6. NoLossForgotten'
      BY <1>5, <1>6, <3>1, <3>2 DEF LossInv, NoLossForgotten, InTuples, InRange, Covers
    <3> QED BY <1>5, <3>3, <3>4, <3>5, <3>6 DEF LossInv, NotStopping
  <2>2. CASE ~tuplesShut /\ tuples # <<>>
    <3>1. /\ range' = [range EXCEPT !.end = Head(tuples).end] /\ tuples' = Tail(tuples)
          /\ pc["rfi"] = "merge" /\ UNCHANGED <<pc, untold, terminated>>
      BY <1>11, <2>2 DEF RfiMerge, rest
    <3>2. Head(tuples).end \in Nat
      BY <1>7, <2>2 DEF Window
    <3>3. range'.end = Head(tuples).end /\ range'.start = range.start /\ range' \in Window
      BY <1>8, <3>1, <3>2 DEF Window
    <3>4. CASE call \in {"starting", "up"}
      <4>1. Before(range, tuples[1])
        BY <1>7, <2>2, <3>1, <3>4 DEF LossInv, WindowsInOrder
      <4>2. range'.start <= Head(tuples).start
        BY <1>7, <2>2, <3>3, <4>1 DEF Before
      <4> QED BY <1>9, <2>2, <3>1, <3>3, <4>2
    <3>5. CASE call \notin {"starting", "up"}
      <4>1. Types'
        BY <1>1, <1>4, <1>7, <2>2, <3>1, <3>3 DEF Types
      <4> QED BY <1>5, <3>5, <4>1, NotUp
    <3> QED BY <3>4, <3>5
  <2> QED BY <2>1, <2>2
<1>12. CASE RfiSend
  <2>1. /\ LoopTest("rfi") /\ UNCHANGED <<tuples, range>> /\ pc["rfi"] = "send"
        /\ (untold' = untold \ (range.start..range.end) /\ UNCHANGED terminated)
           \/ (Terminate /\ UNCHANGED untold)
    BY <1>12 DEF RfiSend
  <2>2. pc'["rfi"] # "merge"
    BY <1>1, <1>2, <2>1, FirstFits DEF Types, LoopTest, Goto
  <2>3. Types'
    BY <1>1, <1>4, <2>1 DEF Types
  <2>4. WindowsInOrder => WindowsInOrder'
    BY <1>1, <2>1, <2>2 DEF WindowsInOrder, Before
  <2>5. call = "starting" => NothingYet'
    <3>1. untold' \subseteq untold
      BY <2>1
    <3> QED BY <1>1, <1>5, <2>1, <3>1 DEF LossInv, NothingYet
  <2>6. NoLossForgotten'
    <3> SUFFICES ASSUME call = "up", ~terminated', NEW f \in untold'
                 PROVE  IdrComing' \/ InTuples(f)'
      BY <1>5 DEF NoLossForgotten
    <3>1. ~Terminate
      <4>1. ~quit
        BY DEF LossInv, NotStopping
      <4> QED BY <4>1, Zenon DEF Terminate
    <3>2. untold' = untold \ (range.start..range.end) /\ ~terminated
      BY <2>1, <3>1
    <3>3. f \in untold /\ f \in Nat /\ ~Covers(range, f)
      BY <1>1, <1>8, <3>2 DEF Types, Covers
    <3>4. IdrComing \/ InTuples(f)
      BY <3>2, <3>3 DEF LossInv, NoLossForgotten, InRange
    <3>5. InTuples(f) => InTuples(f)'
      BY <2>1 DEF InTuples, Covers
    <3> QED BY <1>6, <3>4, <3>5
  <2> QED BY <1>5, <2>3, <2>4, <2>5, <2>6 DEF LossInv, NotStopping
<1> QED BY <1>10, <1>11, <1>12 DEF RfiStep

-----------------------------------------------------------------------------
\* A report of the FEC state, the host and the network.
LEMMA OutsideKeeps ==
  LossInv /\ (\/ SendFrameFecStatus \/ HostSends \/ HostLeaves \/ DisconnectArrives
              \/ HostDies \/ PeerTimesOut \/ NetworkFails) => LossInv'
<1> SUFFICES ASSUME LossInv,
                    \/ SendFrameFecStatus \/ HostSends \/ HostLeaves \/ DisconnectArrives
                    \/ HostDies \/ PeerTimesOut \/ NetworkFails
             PROVE  LossInv'
  OBVIOUS
<1>1. UNCHANGED <<caller, threads, frames, terminated>>
  BY DEF SendFrameFecStatus, HostSends, HostLeaves, DisconnectArrives, HostDies, PeerTimesOut,
         NetworkFails, rest
<1>2. pc' = pc /\ UNCHANGED <<call, todo, quit, stopping>>
  BY <1>1 DEF caller, threads
<1>3. pc' \in [Thread -> Place]
  BY <1>2 DEF LossInv, Types
<1>4. call = "starting" => todo' \in Seq(StartStep)
  BY <1>2 DEF LossInv, NothingYet
<1> QED BY <1>1, <1>2, <1>3, <1>4, FramesKept

\* The inductive invariant of the losses (ControlStream.c 379-402, 1465-1513).
THEOREM ControlInvariant == Spec => []LossInv
<1>1. LossInv /\ [Next]_vars => LossInv'
  <2> SUFFICES ASSUME LossInv, [Next]_vars PROVE LossInv'
    OBVIOUS
  <2>1. CASE Restart
    BY <2>1, LossRestart
  <2>2. CASE Stop \/ CallerStep
    BY <2>2, CallerKeeps
  <2>3. CASE DetectedFrameLoss
    BY <2>3, ReportKeeps
  <2>4. CASE \E r \in Requester : LiRequestIdrFrame(r)
    BY <2>4, RequestKeeps
  <2>5. CASE IdrStep \/ RfiStep
    BY <2>5, IdrKeeps, RfiKeeps
  <2>6. CASE LossStep \/ RecvStep \/ AsyncStep
    <3>1. Types
      BY DEF LossInv
    <3>2. UNCHANGED <<call, todo, quit, stopping, frames>>
      BY <2>6, <3>1, OtherThreads DEF caller
    <3>3. call = "starting" => todo' \in Seq(StartStep)
      BY <3>2 DEF LossInv, NothingYet
    <3> QED BY <2>6, <3>1, <3>2, <3>3, OtherThreads, FramesKept
  <2>7. CASE \/ SendFrameFecStatus \/ HostSends \/ HostLeaves \/ DisconnectArrives
             \/ HostDies \/ PeerTimesOut \/ NetworkFails
    BY <2>7, OutsideKeeps
  <2>8. CASE UNCHANGED vars
    <3>1. UNCHANGED <<frames, call, todo, quit, stopping, pc, terminated>>
      BY <2>8 DEF vars, caller, threads, rest
    <3>2. pc' \in [Thread -> Place]
      BY <3>1 DEF LossInv, Types
    <3>3. call = "starting" => todo' \in Seq(StartStep)
      BY <3>1 DEF LossInv, NothingYet
    <3> QED BY <3>1, <3>2, <3>3, FramesKept
  <2> QED BY <2>1, <2>2, <2>3, <2>4, <2>5, <2>6, <2>7, <2>8 DEF Next
<1> QED BY <1>1, LossInit, PTL DEF Spec

\* While the stream lives no lost frame is forgotten, whatever the two threads
\* that flush, the one that merges and the two that report do (ControlStream.c
\* 389, 1480 and 1512).
THEOREM LossesRemembered == Spec => []NoLossForgotten
<1>1. LossInv => NoLossForgotten
  BY DEF LossInv
<1> QED BY <1>1, ControlInvariant, PTL

-----------------------------------------------------------------------------
(***************************************************************************)
(* Messages from the host.  That the last state of each kind reaches the   *)
(* client rests on the numbers of a kind ascending along the way, from the *)
(* callback in hand over the queue to what ENet has not dispatched yet.    *)
(***************************************************************************)
State == [key : Key, number : Nat]
Message == [key : Key \cup {"bye"}, number : Nat]

MessageTypes ==
  /\ inbox \in Seq(Message) /\ callbacks \in Seq(State) /\ inHand \in Seq(State)
  /\ hdrState \in Nat
  /\ sent \in [Key -> Nat] /\ queued \in [Key -> Nat] /\ shown \in [Key -> Nat]

Ascending(q) ==
  \A i, j \in 1..Len(q) :
    i < j /\ q[i].key = q[j].key /\ q[i].key \in Key => q[i].number < q[j].number

\* What ENet holds is newer than what was accepted.
InboxAhead ==
  /\ Ascending(inbox)
  /\ \A i \in 1..Len(inbox) : inbox[i].key \in Key =>
       /\ queued[inbox[i].key] < inbox[i].number /\ inbox[i].number <= sent[inbox[i].key]
       /\ inbox[i].key \in Hdr => hdrState < inbox[i].number
  /\ \A k \in Key : queued[k] <= sent[k]
  /\ \A k \in Hdr : queued[k] <= hdrState /\ hdrState <= sent[k]

\* What waits is newer than what is in hand, and that than what was shown.
QueueAhead ==
  /\ Ascending(callbacks)
  /\ \A i \in 1..Len(callbacks) :
       /\ callbacks[i].number <= queued[callbacks[i].key]
       /\ \A j \in 1..Len(inHand) :
            inHand[j].key = callbacks[i].key => inHand[j].number < callbacks[i].number
  /\ \A j \in 1..Len(inHand) : inHand[j].number <= queued[inHand[j].key]

ShownBehind ==
  \A k \in Key \ Hdr :
    /\ shown[k] <= queued[k]
    /\ \A i \in 1..Len(callbacks) : callbacks[i].key = k => shown[k] < callbacks[i].number
    /\ \A j \in 1..Len(inHand) : inHand[j].key = k => shown[k] < inHand[j].number

HandShape ==
  /\ pc["async"] \in {"none", "wait", "batch", "call", "ended"}
  /\ pc["async"] \in {"none", "wait", "ended"} => inHand = <<>>
  /\ pc["async"] \in {"batch", "call"} => Len(inHand) = 1

\* The thread ends only when the queue is being closed, and drains it first.
QueueOpen ==
  /\ callbacksEnd \in {"open", "draining", "shutdown"}
  /\ call \in {"starting", "up"} => callbacksEnd = "open"
  /\ call = "stopping" => callbacksEnd # "shutdown"
  /\ pc["async"] = "ended" => callbacksEnd # "open"
  /\ pc["async"] = "ended" /\ callbacksEnd = "draining" => callbacks = <<>>

NothingMissed == \A k \in Key : shown[k] >= queued[k] \/ Pending(k) \/ Handled(k)

UndoStep == {Do(o) : o \in {"stopping", "setEvent", "shutCallbacks", "quit", "reset"}}
            \cup {Interrupt({t}) : t \in Thread} \cup {Join({t}) : t \in Thread}
StopStep == {Do(o) : o \in {"stopping", "shutTuples", "drainCallbacks", "setEvent", "reset"}}
            \cup {Interrupt(ts) : ts \in SUBSET Thread} \cup {Join(ts) : ts \in SUBSET Thread}

\* A start creates the callback thread once; the other procedures consist of
\* their own steps.
TodoFits ==
  /\ call = "starting" =>
       \A i \in 1..Len(todo) : todo[i] = Create("async") =>
         /\ pc["async"] = "none"
         /\ \A j \in 1..Len(todo) : todo[j] = Create("async") => j = i
  /\ call = "undoing" => todo \in Seq(UndoStep)
  /\ call = "stopping" => todo \in Seq(StopStep)

MessageInv ==
  /\ MessageTypes /\ TodoFits /\ QueueOpen
  /\ InboxAhead /\ QueueAhead /\ ShownBehind /\ HandShape /\ NothingMissed

LEMMA ConcatFacts ==
  ASSUME NEW S, NEW q \in Seq(S), NEW r \in Seq(S)
  PROVE  /\ Len(q \o r) = Len(q) + Len(r)
         /\ \A i \in 1..Len(q) + Len(r) :
              (q \o r)[i] = IF i <= Len(q) THEN q[i] ELSE r[i - Len(q)]
OBVIOUS

LEMMA UndoStepsFit == UndoSteps \in Seq(UndoStep)
<1> DEFINE Exists(t) == pc[t] # "none"
           End(t) == IF Exists(t) THEN <<Interrupt({t}), Join({t})>> ELSE <<>>
           A == <<Do("stopping")>>
           B == IF Exists("idr") THEN <<Do("setEvent")>> ELSE <<>>
           D == IF Exists("async") THEN <<Do("shutCallbacks")>> ELSE <<>>
           E == IF Exists("recv") THEN <<Do("quit")>> ELSE <<>>
           F == <<Do("reset")>>
<1>1. {Do("stopping"), Do("setEvent"), Do("shutCallbacks"), Do("quit"), Do("reset")} \subseteq UndoStep
  BY DEF UndoStep
<1>2. \A t \in Thread : Interrupt({t}) \in UndoStep /\ Join({t}) \in UndoStep
  BY DEF UndoStep
<1>3. {"recv", "loss", "idr", "async"} \subseteq Thread
  BY DEF Thread
<1> HIDE DEF UndoStep
<1>4. \A t \in Thread : End(t) \in Seq(UndoStep)
  BY <1>2
<1>5. A \in Seq(UndoStep) /\ B \in Seq(UndoStep) /\ D \in Seq(UndoStep) /\ E \in Seq(UndoStep) /\ F \in Seq(UndoStep)
  BY <1>1
<1>6. UndoSteps = A \o B \o D \o E \o End("loss") \o End("recv") \o End("idr") \o End("async") \o F
  BY DEF UndoSteps
<1> HIDE DEF A, B, D, E, F, End
<1> QED BY <1>3, <1>4, <1>5, <1>6

LEMMA StopStepsFit == ASSUME NEW b PROVE StopSteps(b) \in Seq(StopStep)
<1>1. {Do("stopping"), Do("shutTuples"), Do("drainCallbacks"), Do("setEvent"), Do("reset")} \subseteq StopStep
  BY DEF StopStep
<1>2. \A ts \in SUBSET Thread : Interrupt(ts) \in StopStep /\ Join(ts) \in StopStep
  BY DEF StopStep
<1>3. {"loss", "idr", "recv", "async"} \in SUBSET Thread /\ {"rfi"} \in SUBSET Thread
  BY DEF Thread
<1>4. {Interrupt({"loss", "idr", "recv", "async"}), Join({"loss", "idr", "recv", "async"}),
       Interrupt({"rfi"}), Join({"rfi"})} \subseteq StopStep
  BY <1>2, <1>3
<1> HIDE DEF StopStep
<1>5. <<Do("stopping"), Do("shutTuples"), Do("drainCallbacks"), Do("setEvent"),
        Interrupt({"loss", "idr", "recv", "async"}), Join({"loss", "idr", "recv", "async"})>> \in Seq(StopStep)
  BY <1>1, <1>4
<1>6. (IF b THEN <<Interrupt({"rfi"}), Join({"rfi"})>> ELSE <<>>) \in Seq(StopStep)
  BY <1>4
<1>7. <<Do("reset")>> \in Seq(StopStep)
  BY <1>1
<1> QED BY <1>5, <1>6, <1>7 DEF StopSteps

LEMMA StartCreatesOnce ==
  ASSUME NEW b \in BOOLEAN, NEW i \in 1..Len(StartSteps(b)), StartSteps(b)[i] = Create("async")
  PROVE  i = 7
<1> DEFINE s == <<Do("connect"), Create("recv"), Do("startA"), Do("startB"), Create("loss"),
                  Create("idr"), Create("async")>>
           r == IF b THEN <<Create("rfi")>> ELSE <<>>
<1>1. StartSteps(b) = s \o r
  BY DEF StartSteps
<1>2. Len(s) = 7 /\ Len(r) \in {0, 1} /\ s \in Seq(StartStep) /\ r \in Seq(StartStep)
  <2>1. {Do("connect"), Do("startA"), Do("startB"), Create("recv"), Create("loss"), Create("idr"),
         Create("async"), Create("rfi")} \subseteq StartStep
    BY DEF StartStep, Thread
  <2> HIDE DEF StartStep
  <2> QED BY <2>1
<1>3. \A j \in 1..6 : s[j] # Create("async")
  BY DEF Do, Create
<1>4. Len(r) = 1 => r[1] # Create("async")
  BY DEF Create
<1> HIDE DEF s, r, StartStep
<1>5. s \in Seq(StartStep) /\ r \in Seq(StartStep)
  BY <1>2
<1>6. /\ Len(s \o r) = Len(s) + Len(r)
      /\ \A j \in 1..Len(s) + Len(r) : (s \o r)[j] = IF j <= Len(s) THEN s[j] ELSE r[j - Len(s)]
  BY ONLY <1>5, ConcatFacts
<1>7. i \in 1..7 + Len(r) /\ (IF i <= 7 THEN s[i] ELSE r[i - 7]) = Create("async")
  BY <1>1, <1>2, <1>6
<1>8. CASE i <= 7
  BY <1>2, <1>3, <1>7, <1>8
<1>9. CASE i > 7
  <2>1. Len(r) = 1 /\ i = 8
    BY <1>2, <1>7, <1>9
  <2> QED BY <1>4, <1>7, <2>1
<1> QED BY <1>2, <1>7, <1>8, <1>9

\* A connection that is about to start has nothing of the host's.
Fresh ==
  /\ call = "starting" /\ todo = StartSteps(useRfi) /\ useRfi \in BOOLEAN /\ pc = Nobody
  /\ inbox = <<>> /\ callbacks = <<>> /\ inHand = <<>> /\ hdrState = 0 /\ callbacksEnd = "open"
  /\ sent = Untouched /\ queued = Untouched /\ shown = Untouched

LEMMA FreshHolds == Fresh => MessageInv
<1> SUFFICES ASSUME Fresh PROVE MessageInv
  OBVIOUS
<1>1. MessageTypes
  BY DEF Fresh, MessageTypes, Untouched
<1>2. pc["async"] = "none"
  BY DEF Fresh, Nobody, Thread
<1>3. TodoFits
  <2>1. \A i \in 1..Len(todo) : todo[i] = Create("async") => i = 7
    BY StartCreatesOnce DEF Fresh
  <2> QED BY <1>2, <2>1 DEF Fresh, TodoFits
<1>4. QueueOpen /\ HandShape
  BY <1>2 DEF Fresh, QueueOpen, HandShape
<1>5. Hdr \subseteq Key
  BY DEF Key
<1>6. \A k \in Key : sent[k] = 0 /\ queued[k] = 0 /\ shown[k] = 0
  BY DEF Fresh, Untouched
<1>7. InboxAhead
  BY <1>5, <1>6 DEF Fresh, InboxAhead, Ascending
<1>8. QueueAhead /\ ShownBehind
  BY <1>6 DEF Fresh, QueueAhead, ShownBehind, Ascending
<1>9. NothingMissed
  BY <1>6 DEF NothingMissed
<1> QED BY <1>1, <1>3, <1>4, <1>7, <1>8, <1>9 DEF MessageInv

LEMMA MessageInit == Init => MessageInv
BY FreshHolds DEF Init, Fresh

LEMMA MessageRestart == Restart => MessageInv'
<1>1. Restart => Fresh'
  BY DEF Restart, Fresh
<1> QED BY <1>1, FreshHolds, PTL

-----------------------------------------------------------------------------
\* A step that handles no message, except that ENet may drop what it holds.
LEMMA MessagesKept ==
  ASSUME MessageInv, UNCHANGED <<hdrState, callbacks, inHand, sent, queued, shown>>,
         inbox' \in {inbox, <<>>}, pc'["async"] = pc["async"], TodoFits', QueueOpen'
  PROVE  MessageInv'
<1>1. MessageTypes'
  <2>1. inbox \in Seq(Message) /\ <<>> \in Seq(Message)
    BY DEF MessageInv, MessageTypes
  <2>2. inbox' \in Seq(Message)
    BY <2>1
  <2> QED BY <2>2 DEF MessageInv, MessageTypes
<1>2. InboxAhead'
  <2>1. CASE inbox' = inbox
    BY <2>1 DEF MessageInv, InboxAhead, Ascending
  <2>2. CASE inbox' = <<>>
    BY <2>2 DEF MessageInv, InboxAhead, Ascending
  <2> QED BY <2>1, <2>2
<1>3. QueueAhead' /\ ShownBehind'
  BY DEF MessageInv, QueueAhead, ShownBehind, Ascending
<1>4. HandShape' /\ NothingMissed'
  BY DEF MessageInv, HandShape, NothingMissed, Pending, Handled
<1> QED BY <1>1, <1>2, <1>3, <1>4 DEF MessageInv

\* The same, of a thread that is not the one starting and stopping the stream.
LEMMA MessagesAside ==
  ASSUME MessageInv, UNCHANGED <<call, todo, states>>,
         inbox' \in {inbox, <<>>}, pc'["async"] = pc["async"]
  PROVE  MessageInv'
<1>1. TodoFits' /\ QueueOpen'
  BY DEF MessageInv, TodoFits, QueueOpen, states
<1>2. UNCHANGED <<hdrState, callbacks, inHand, sent, queued, shown>>
  BY DEF states
<1> QED BY <1>1, <1>2, MessagesKept

LEMMA TodoTail ==
  ASSUME LossInv, TodoFits, todo # <<>>, Advance, call' = call,
         pc'["async"] = pc["async"] \/ (call = "starting" /\ Next1 = Create("async"))
  PROVE  TodoFits'
<1>1. ASSUME call = "starting"
      PROVE  \A i \in 1..Len(todo') : todo'[i] = Create("async") =>
               /\ pc'["async"] = "none"
               /\ \A j \in 1..Len(todo') : todo'[j] = Create("async") => j = i
  <2>1. todo \in Seq(StartStep)
    BY <1>1 DEF LossInv, NothingYet
  <2>2. /\ todo' = Tail(todo) /\ Next1 = todo[1] /\ Len(todo) \in Nat \ {0}
        /\ Len(todo') = Len(todo) - 1 /\ \A i \in 1..Len(todo') : todo'[i] = todo[i + 1]
    <3> HIDE DEF StartStep
    <3> QED BY <2>1, TailFacts DEF Advance, Next1
  <2>3. \A i \in 1..Len(todo) : todo[i] = Create("async") =>
               /\ pc["async"] = "none"
               /\ \A j \in 1..Len(todo) : todo[j] = Create("async") => j = i
    BY <1>1 DEF TodoFits
  <2> SUFFICES ASSUME NEW i \in 1..Len(todo'), todo'[i] = Create("async")
               PROVE  /\ pc'["async"] = "none"
                      /\ \A j \in 1..Len(todo') : todo'[j] = Create("async") => j = i
    OBVIOUS
  <2>4. i + 1 \in 1..Len(todo) /\ todo[i + 1] = Create("async") /\ 1 \in 1..Len(todo)
    BY <2>2
  <2>5. Next1 # Create("async")
    BY <2>2, <2>3, <2>4
  <2>6. pc'["async"] = "none"
    BY <2>3, <2>4, <2>5
  <2>7. ASSUME NEW j \in 1..Len(todo'), todo'[j] = Create("async") PROVE j = i
    <3>1. j + 1 \in 1..Len(todo) /\ todo[j + 1] = Create("async")
      BY <2>2, <2>7
    <3>2. j + 1 = i + 1
      BY <2>3, <2>4, <3>1
    <3> QED BY <2>2, <3>2
  <2> QED BY <2>6, <2>7
<1>2. ASSUME call = "undoing" PROVE todo' \in Seq(UndoStep)
  <2>1. todo \in Seq(UndoStep)
    BY <1>2 DEF TodoFits
  <2> HIDE DEF UndoStep
  <2> QED BY <2>1, TailFacts DEF Advance
<1>3. ASSUME call = "stopping" PROVE todo' \in Seq(StopStep)
  <2>1. todo \in Seq(StopStep)
    BY <1>3 DEF TodoFits
  <2> HIDE DEF StopStep
  <2> QED BY <2>1, TailFacts DEF Advance
<1> QED BY <1>1, <1>2, <1>3 DEF TodoFits

\* What each procedure may do next.
LEMMA NextStep ==
  ASSUME LossInv, TodoFits, todo # <<>>
  PROVE  /\ call = "starting" => Next1.op \in {"connect", "startA", "startB", "create"}
         /\ call = "undoing" => Next1.op \notin {"create", "drainCallbacks"}
         /\ call = "stopping" => Next1.op \notin {"create", "shutCallbacks"}
<1>1. CASE call = "starting"
  <2>1. todo \in Seq(StartStep)
    BY <1>1 DEF LossInv, NothingYet
  <2>2. Next1 \in StartStep
    <3> HIDE DEF StartStep
    <3> QED BY <2>1, TailFacts DEF Next1
  <2> QED BY <1>1, <2>2 DEF StartStep, Do, Create
<1>2. CASE call = "undoing"
  <2>1. todo \in Seq(UndoStep)
    BY <1>2 DEF TodoFits
  <2>2. Next1 \in UndoStep
    <3> HIDE DEF UndoStep
    <3> QED BY <2>1, TailFacts DEF Next1
  <2>3. \A x \in UndoStep : x.op \notin {"create", "drainCallbacks"}
    BY DEF UndoStep, Do, Interrupt, Join
  <2> QED BY <1>2, <2>2, <2>3
<1>3. CASE call = "stopping"
  <2>1. todo \in Seq(StopStep)
    BY <1>3 DEF TodoFits
  <2>2. Next1 \in StopStep
    <3> HIDE DEF StopStep
    <3> QED BY <2>1, TailFacts DEF Next1
  <2>3. \A x \in StopStep : x.op \notin {"create", "shutCallbacks"}
    BY DEF StopStep, Do, Interrupt, Join
  <2> QED BY <1>3, <2>2, <2>3
<1> QED BY <1>1, <1>2, <1>3

-----------------------------------------------------------------------------
(***************************************************************************)
(* The thread that starts and stops the stream.                            *)
(***************************************************************************)
LEMMA MessagesOfCaller ==
  ASSUME LossInv, MessageInv, CallerStep \/ Stop PROVE MessageInv'
<1>1. TodoFits /\ QueueOpen /\ HandShape /\ Types
  BY DEF MessageInv, LossInv
<1>2. CASE Connect \/ SendStart \/ InterruptThread \/ JoinThread
  <2>1. UNCHANGED <<call, pc, inbox, states>> /\ todo # <<>> /\ Advance
    <3>1. CASE Connect
      BY <3>1 DEF Connect, Doing, threads
    <3>2. CASE SendStart
      BY <3>2 DEF SendStart, Doing, threads, network
    <3>3. CASE InterruptThread
      BY <3>3 DEF InterruptThread, Doing, network
    <3>4. CASE JoinThread
      BY <3>4 DEF JoinThread, Doing, threads, network
    <3> QED BY <1>2, <3>1, <3>2, <3>3, <3>4
  <2>2. TodoFits'
    BY <1>1, <2>1, TodoTail
  <2>3. QueueOpen'
    BY <1>1, <2>1 DEF QueueOpen, states
  <2> QED BY <2>1, <2>2, <2>3, MessagesKept DEF states
<1>3. CASE CreateThread
  <2>1. todo # <<>> /\ Next1.op = "create" /\ UNCHANGED <<call, inbox, states>> /\ Advance
        /\ call \in {"starting", "undoing", "stopping"} /\ Goto(Next1.thread, First[Next1.thread])
    BY <1>3 DEF CreateThread, Doing, network
  <2>2. call = "starting"
    BY <1>1, <2>1, NextStep
  <2>3. todo \in Seq(StartStep)
    BY <2>2 DEF LossInv, NothingYet
  <2>4. Next1 \in StartStep /\ Next1 = todo[1] /\ 1 \in 1..Len(todo)
    <3> HIDE DEF StartStep
    <3> QED BY <2>1, <2>3, TailFacts DEF Next1
  <2>5. PICK t \in Thread : Next1 = Create(t) /\ Next1.thread = t
    BY <2>1, <2>4 DEF StartStep, Do, Create
  <2>6. pc'[t] = First[t] /\ \A u \in Thread \ {t} : pc'[u] = pc[u]
    BY <1>1, <2>1, <2>5, FirstFits, GotoFacts
  <2>7. "async" \in Thread
    BY DEF Thread
  <2>8. CASE t = "async"
    <3>1. pc["async"] = "none" /\ pc'["async"] = "wait" /\ inHand = <<>>
      BY <1>1, <2>2, <2>4, <2>5, <2>6, <2>7, <2>8 DEF TodoFits, HandShape, First
    <3>2. TodoFits'
      BY <1>1, <2>1, <2>2, <2>5, <2>8, TodoTail
    <3>3. QueueOpen' /\ HandShape'
      BY <1>1, <2>1, <2>2, <3>1 DEF QueueOpen, HandShape, states
    <3>4. MessageTypes' /\ InboxAhead'
      BY <2>1 DEF MessageInv, MessageTypes, InboxAhead, Ascending, states
    <3>5. QueueAhead' /\ ShownBehind' /\ NothingMissed'
      BY <2>1 DEF MessageInv, QueueAhead, ShownBehind, NothingMissed, Pending, Handled, Ascending, states
    <3> QED BY <3>2, <3>3, <3>4, <3>5 DEF MessageInv
  <2>9. CASE t # "async"
    <3>1. pc'["async"] = pc["async"]
      BY <2>6, <2>7, <2>9
    <3>2. TodoFits'
      BY <1>1, <2>1, <3>1, TodoTail
    <3>3. QueueOpen'
      BY <1>1, <2>1, <3>1 DEF QueueOpen, states
    <3> QED BY <2>1, <3>1, <3>2, <3>3, MessagesKept DEF states
  <2> QED BY <2>8, <2>9
<1>4. CASE StartFails \/ Started \/ Stop
  <2>1. UNCHANGED <<pc, inbox, states>>
    BY <1>4 DEF StartFails, Started, Stop, threads, network
  <2>2. TodoFits'
    <3>1. CASE StartFails
      BY <3>1, UndoStepsFit DEF StartFails, TodoFits
    <3>2. CASE Started
      BY <3>2 DEF Started, TodoFits
    <3>3. CASE Stop
      <4>1. StopSteps(useRfi) \in Seq(StopStep)
        BY StopStepsFit
      <4> QED BY <3>3, <4>1 DEF Stop, TodoFits
    <3> QED BY <1>4, <3>1, <3>2, <3>3
  <2>3. QueueOpen'
    BY <1>1, <1>4, <2>1 DEF QueueOpen, states, StartFails, Started, Stop
  <2> QED BY <2>1, <2>2, <2>3, MessagesKept DEF states
<1>5. CASE SetFlag
  <2>1. /\ UNCHANGED <<call, pc, inbox, hdrState, callbacks, inHand, sent, queued, shown>>
        /\ todo # <<>> /\ Advance /\ call \in {"starting", "undoing", "stopping"}
    BY <1>5 DEF SetFlag, Doing, threads, network
  <2>2. TodoFits'
    BY <1>1, <2>1, TodoTail
  <2>3. \/ UNCHANGED callbacksEnd /\ Next1.op \in {"stopping", "quit", "setEvent", "shutTuples"}
        \/ callbacksEnd' = "shutdown" /\ Next1.op = "shutCallbacks"
        \/ callbacksEnd' = "draining" /\ Next1.op = "drainCallbacks"
    BY <1>5 DEF SetFlag, Doing
  <2>4. QueueOpen'
    <3>1. /\ call = "starting" => Next1.op \in {"connect", "startA", "startB", "create"}
          /\ call = "undoing" => Next1.op # "drainCallbacks"
          /\ call = "stopping" => Next1.op # "shutCallbacks"
      BY <1>1, <2>1, NextStep
    <3>2. call # "starting"
      BY <2>3, <3>1
    <3> QED BY <1>1, <2>1, <2>3, <3>1, <3>2 DEF QueueOpen
  <2> QED BY <2>1, <2>2, <2>4, MessagesKept
<1>6. CASE Reset
  <2>1. UNCHANGED <<pc, states>> /\ inbox' = <<>> /\ call' = "down"
    BY <1>6 DEF Reset, threads
  <2>2. TodoFits' /\ QueueOpen'
    BY <1>1, <2>1 DEF TodoFits, QueueOpen, states
  <2> QED BY <2>1, <2>2, MessagesKept DEF states
<1> QED BY <1>2, <1>3, <1>4, <1>5, <1>6 DEF CallerStep

-----------------------------------------------------------------------------
(***************************************************************************)
(* The thread that hands callbacks to the client.                          *)
(***************************************************************************)
\* The first callback that waits becomes the one in hand, alone or in place of
\* an older one for the same state.
LEMMA TakeHead ==
  ASSUME MessageInv, callbacks # <<>>,
         inHand = <<>> \/ (Len(inHand) = 1 /\ inHand[1].key = Head(callbacks).key),
         inHand' = <<Head(callbacks)>>, callbacks' = Tail(callbacks),
         UNCHANGED <<inbox, hdrState, sent, queued, shown>>
  PROVE  MessageTypes' /\ InboxAhead' /\ QueueAhead' /\ ShownBehind' /\ NothingMissed'
<1>1. MessageTypes /\ InboxAhead /\ QueueAhead /\ ShownBehind /\ NothingMissed
  BY DEF MessageInv
<1>2. callbacks \in Seq(State) /\ inHand \in Seq(State) /\ queued \in [Key -> Nat] /\ shown \in [Key -> Nat]
  BY <1>1 DEF MessageTypes
<1>3. /\ Head(callbacks) = callbacks[1] /\ callbacks' \in Seq(State) /\ Len(callbacks) \in Nat \ {0}
      /\ Len(callbacks') = Len(callbacks) - 1
      /\ \A i \in 1..Len(callbacks') : callbacks'[i] = callbacks[i + 1] /\ i + 1 \in 1..Len(callbacks)
      /\ 1 \in 1..Len(callbacks)
  <2> HIDE DEF State
  <2> QED BY <1>2, TailFacts
<1>4. /\ Len(inHand') = 1 /\ inHand'[1] = callbacks[1] /\ inHand' \in Seq(State)
      /\ callbacks[1].key \in Key /\ callbacks[1].number \in Nat
  <2>1. callbacks[1] \in State
    <3> HIDE DEF State
    <3> QED BY <1>2, <1>3
  <2>2. <<callbacks[1]>> \in Seq(State)
    <3> HIDE DEF State
    <3> QED BY <2>1
  <2> QED BY <1>3, <2>1, <2>2 DEF State
<1>5. MessageTypes'
  BY <1>1, <1>3, <1>4 DEF MessageTypes
<1>6. InboxAhead'
  BY <1>1 DEF InboxAhead, Ascending
<1>7. \A i \in 1..Len(callbacks) : callbacks[i].key \in Key /\ callbacks[i].number \in Nat
  <2>1. \A i \in 1..Len(callbacks) : callbacks[i] \in State
    <3> HIDE DEF State
    <3> QED BY <1>2
  <2> QED BY <2>1 DEF State
<1>8. QueueAhead'
  <2>1. Ascending(callbacks)'
    BY <1>1, <1>3 DEF QueueAhead, Ascending
  <2>2. ASSUME NEW i \in 1..Len(callbacks')
        PROVE  /\ callbacks'[i].number <= queued[callbacks'[i].key]
               /\ callbacks[1].key = callbacks'[i].key => callbacks[1].number < callbacks'[i].number
    <3>1. i + 1 \in 1..Len(callbacks) /\ callbacks'[i] = callbacks[i + 1] /\ 1 < i + 1
      BY <1>3
    <3> QED BY <1>1, <1>3, <1>4, <3>1 DEF QueueAhead, Ascending
  <2>3. callbacks[1].number <= queued[callbacks[1].key]
    BY <1>1, <1>3 DEF QueueAhead
  <2> QED BY <1>4, <2>1, <2>2, <2>3 DEF QueueAhead
<1>9. ShownBehind'
  BY <1>1, <1>3, <1>4 DEF ShownBehind
<1>10. NothingMissed'
  <2> SUFFICES ASSUME NEW k \in Key PROVE (shown[k] >= queued[k] \/ Pending(k) \/ Handled(k))'
    BY DEF NothingMissed
  <2>1. CASE shown[k] >= queued[k]
    BY <2>1
  <2>2. CASE Pending(k)
    <3>1. PICK i \in 1..Len(callbacks) : callbacks[i].key = k /\ callbacks[i].number = queued[k]
      BY <2>2 DEF Pending
    <3>2. CASE i = 1
      BY <1>4, <3>1, <3>2 DEF Handled
    <3>3. CASE i # 1
      <4>1. i - 1 \in 1..Len(callbacks') /\ callbacks'[i - 1] = callbacks[i]
        BY <1>3, <3>1, <3>3
      <4> QED BY <3>1, <4>1 DEF Pending
    <3> QED BY <3>2, <3>3
  <2>3. CASE Handled(k)
    <3>1. Len(inHand) = 1 /\ inHand[1].key = k /\ inHand[1].number = queued[k] /\ callbacks[1].key = k
      BY <1>3, <2>3 DEF Handled
    <3>2. inHand[1].number < callbacks[1].number /\ callbacks[1].number <= queued[k]
      BY <1>1, <1>3, <3>1 DEF QueueAhead
    <3>3. queued[k] \in Nat
      BY <1>2
    <3> QED BY <1>4, <3>1, <3>2, <3>3
  <2> QED BY <1>1, <2>1, <2>2, <2>3 DEF NothingMissed
<1> QED BY <1>5, <1>6, <1>8, <1>9, <1>10

LEMMA MessagesOfAsync ==
  ASSUME LossInv, MessageInv, AsyncStep PROVE MessageInv'
<1>1. /\ MessageTypes /\ TodoFits /\ QueueOpen /\ InboxAhead /\ QueueAhead /\ ShownBehind
      /\ HandShape /\ NothingMissed /\ Types
  BY DEF MessageInv, LossInv
<1>2. UNCHANGED <<call, todo, inbox, hdrState, callbacksEnd, sent, queued>>
  BY DEF AsyncStep, AsyncWait, AsyncBatch, AsyncCall, caller, network
<1>3. \A l : Goto("async", l) => pc'["async"] = l
  BY <1>1 DEF Types, Goto, Thread
<1>4. pc["async"] # "none" /\ (callbacks = <<>> => callbacks' = <<>>) => TodoFits'
  BY <1>1, <1>2 DEF TodoFits
<1>5. callbacks \in Seq(State) /\ inHand \in Seq(State)
  BY <1>1 DEF MessageTypes
<1>6. CASE AsyncWait
  <2>1. pc["async"] = "wait" /\ inHand = <<>> /\ UNCHANGED shown
    BY <1>1, <1>6 DEF AsyncWait, HandShape
  <2>2. CASE callbacks # <<>> /\ inHand' = <<Head(callbacks)>> /\ callbacks' = Tail(callbacks)
             /\ Goto("async", "batch")
    <3>1. MessageTypes' /\ InboxAhead' /\ QueueAhead' /\ ShownBehind' /\ NothingMissed'
      BY <1>2, <2>1, <2>2, TakeHead
    <3>2. pc'["async"] = "batch"
      BY <1>3, <2>2
    <3>3. Len(inHand') = 1
      BY <2>2
    <3>4. HandShape'
      BY <3>2, <3>3 DEF HandShape
    <3>5. QueueOpen' /\ TodoFits'
      BY <1>1, <1>2, <2>1, <3>2 DEF QueueOpen, TodoFits
    <3> QED BY <3>1, <3>4, <3>5 DEF MessageInv
  <2>3. CASE /\ callbacksEnd = "shutdown" \/ (callbacksEnd = "draining" /\ callbacks = <<>>)
             /\ Goto("async", "ended") /\ UNCHANGED <<callbacks, inHand>>
    <3>1. pc'["async"] = "ended"
      BY <1>3, <2>3
    <3>2. HandShape' /\ QueueOpen' /\ TodoFits'
      BY <1>1, <1>2, <2>1, <2>3, <3>1 DEF HandShape, QueueOpen, TodoFits
    <3>3. MessageTypes' /\ InboxAhead' /\ NothingMissed'
      BY <1>1, <1>2, <2>1, <2>3 DEF MessageTypes, InboxAhead, Ascending, NothingMissed, Pending, Handled
    <3>4. QueueAhead' /\ ShownBehind'
      BY <1>1, <1>2, <2>1, <2>3 DEF QueueAhead, ShownBehind, Ascending
    <3> QED BY <3>2, <3>3, <3>4 DEF MessageInv
  <2> QED BY <1>6, <2>2, <2>3 DEF AsyncWait
<1>7. CASE AsyncBatch
  <2>1. pc["async"] = "batch" /\ Len(inHand) = 1 /\ UNCHANGED shown
    BY <1>1, <1>7 DEF AsyncBatch, HandShape
  <2>2. CASE callbacks # <<>> /\ Batchable(inHand[1], Head(callbacks))
             /\ inHand' = <<Head(callbacks)>> /\ callbacks' = Tail(callbacks) /\ UNCHANGED pc
    <3>1. inHand[1].key = Head(callbacks).key
      BY <2>2 DEF Batchable
    <3>2. MessageTypes' /\ InboxAhead' /\ QueueAhead' /\ ShownBehind' /\ NothingMissed'
      BY <1>2, <2>1, <2>2, <3>1, TakeHead
    <3>3. Len(inHand') = 1
      BY <2>2
    <3>4. HandShape' /\ QueueOpen' /\ TodoFits'
      BY <1>1, <1>2, <2>1, <2>2, <3>3 DEF HandShape, QueueOpen, TodoFits
    <3> QED BY <3>2, <3>4 DEF MessageInv
  <2>3. CASE Goto("async", "call") /\ UNCHANGED <<callbacks, inHand>>
    <3>1. pc'["async"] = "call"
      BY <1>3, <2>3
    <3>2. HandShape' /\ QueueOpen' /\ TodoFits'
      BY <1>1, <1>2, <2>1, <2>3, <3>1 DEF HandShape, QueueOpen, TodoFits
    <3>3. MessageTypes' /\ InboxAhead' /\ NothingMissed'
      BY <1>1, <1>2, <2>1, <2>3 DEF MessageTypes, InboxAhead, Ascending, NothingMissed, Pending, Handled
    <3>4. QueueAhead' /\ ShownBehind'
      BY <1>1, <1>2, <2>1, <2>3 DEF QueueAhead, ShownBehind, Ascending
    <3> QED BY <3>2, <3>3, <3>4 DEF MessageInv
  <2> QED BY <1>7, <2>2, <2>3 DEF AsyncBatch
<1>8. CASE AsyncCall
  <2>1. pc["async"] = "call" /\ Len(inHand) = 1 /\ inHand' = <<>> /\ UNCHANGED callbacks
        /\ Goto("async", "wait")
    BY <1>1, <1>8 DEF AsyncCall, HandShape
  <2>2. PICK m \in State : m = inHand[1]
    <3>1. 1 \in 1..Len(inHand)
      BY <2>1
    <3>2. inHand[1] \in State
      <4> HIDE DEF State
      <4> QED BY <1>5, <3>1
    <3> QED BY <3>2
  <2>3. m.key \in Key /\ m.number \in Nat
    BY <2>2 DEF State
  <2>4. shown' = [shown EXCEPT ![m.key] = IF m.key \in Hdr THEN hdrState ELSE m.number]
    BY <1>8, <2>2 DEF AsyncCall
  <2>5. /\ shown' \in [Key -> Nat]
        /\ shown'[m.key] = IF m.key \in Hdr THEN hdrState ELSE m.number
        /\ \A k \in Key : k # m.key => shown'[k] = shown[k]
    BY <1>1, <2>3, <2>4 DEF MessageTypes
  <2>6. pc'["async"] = "wait"
    BY <1>3, <2>1
  <2>7. HandShape' /\ QueueOpen' /\ TodoFits'
    BY <1>1, <1>2, <2>1, <2>6 DEF HandShape, QueueOpen, TodoFits
  <2>8. MessageTypes'
    <3>1. <<>> \in Seq(State)
      OBVIOUS
    <3> HIDE DEF State, Message
    <3> QED BY <1>1, <1>2, <2>1, <2>5, <3>1 DEF MessageTypes
  <2>9. InboxAhead' /\ QueueAhead'
    BY <1>1, <1>2, <2>1 DEF InboxAhead, QueueAhead, Ascending
  <2>10. m.number <= queued[m.key]
         /\ \A i \in 1..Len(callbacks) : callbacks[i].key = m.key => m.number < callbacks[i].number
    BY <1>1, <2>1, <2>2 DEF QueueAhead
  <2>11. ShownBehind'
    BY <1>1, <1>2, <2>1, <2>5, <2>10 DEF ShownBehind
  <2>12. NothingMissed'
    <3> SUFFICES ASSUME NEW k \in Key PROVE (shown[k] >= queued[k] \/ Pending(k))'
      BY DEF NothingMissed
    <3>1. Pending(k) => Pending(k)'
      BY <1>2, <2>1 DEF Pending
    <3>2. CASE k # m.key
      <4>1. ~Handled(k)
        BY <2>1, <2>2, <3>2 DEF Handled
      <4> QED BY <1>1, <1>2, <2>5, <3>1, <3>2, <4>1 DEF NothingMissed
    <3>3. CASE k = m.key /\ k \in Hdr
      BY <1>1, <1>2, <2>5, <3>3 DEF InboxAhead
    <3>4. CASE k = m.key /\ k \notin Hdr
      <4>1. shown[k] < m.number /\ shown[k] \in Nat /\ queued[k] \in Nat
        BY <1>1, <2>1, <2>2, <2>3, <3>4 DEF ShownBehind, MessageTypes
      <4>2. Pending(k) \/ m.number = queued[k]
        <5>1. ~(shown[k] >= queued[k])
          BY <2>3, <2>10, <3>4, <4>1
        <5>2. Handled(k) => m.number = queued[k]
          BY <2>1, <2>2 DEF Handled
        <5> QED BY <1>1, <5>1, <5>2 DEF NothingMissed
      <4> QED BY <1>2, <2>3, <2>5, <3>1, <3>4, <4>1, <4>2
    <3> QED BY <3>2, <3>3, <3>4
  <2> QED BY <2>7, <2>8, <2>9, <2>11, <2>12 DEF MessageInv
<1> QED BY <1>6, <1>7, <1>8 DEF AsyncStep

-----------------------------------------------------------------------------
(***************************************************************************)
(* The thread that receives, and the host that sends.                      *)
(***************************************************************************)
LEMMA AppendFacts ==
  ASSUME NEW S, NEW q \in Seq(S), NEW m \in S
  PROVE  /\ Append(q, m) \in Seq(S) /\ Len(Append(q, m)) = Len(q) + 1 /\ Len(q) \in Nat
         /\ Append(q, m)[Len(q) + 1] = m
         /\ \A i \in 1..Len(q) : Append(q, m)[i] = q[i] /\ q[i] \in S
OBVIOUS

LEMMA KeyFacts == Hdr \subseteq Key /\ "bye" \notin Key /\ \A h, g \in Hdr : h = g
BY KeyAssumption DEF Key

\* A message is the first that ENet holds.  What it changes of the states is
\* nothing, or what queueAsyncCallback does with it.
LEMMA MessageHandled ==
  ASSUME MessageInv, NEW m \in Message, inbox # <<>>, m = Head(inbox), inbox' = Tail(inbox),
         pc'["async"] = pc["async"], UNCHANGED <<call, todo, callbacksEnd, inHand, sent, shown>>,
         \/ UNCHANGED <<hdrState, callbacks, queued>>
         \/ m.key \in Key /\ Accept(m)
  PROVE  MessageInv'
<1>1. /\ MessageTypes /\ TodoFits /\ QueueOpen /\ InboxAhead /\ QueueAhead /\ ShownBehind
      /\ HandShape /\ NothingMissed
  BY DEF MessageInv
<1>2. TodoFits' /\ HandShape'
  BY <1>1 DEF TodoFits, HandShape
<1>3. /\ m = inbox[1] /\ 1 \in 1..Len(inbox) /\ inbox' \in Seq(Message)
      /\ \A i \in 1..Len(inbox') : inbox'[i] = inbox[i + 1] /\ i + 1 \in 1..Len(inbox) /\ 1 < i + 1
  <2>1. inbox \in Seq(Message)
    BY <1>1 DEF MessageTypes
  <2> HIDE DEF Message
  <2> QED BY <2>1, TailFacts
<1>4. Ascending(inbox)'
  BY <1>1, <1>3 DEF InboxAhead, Ascending
<1>5. \A i \in 1..Len(inbox') : inbox'[i].key \in Key /\ inbox'[i].key = m.key => m.number < inbox'[i].number
  BY <1>1, <1>3 DEF InboxAhead, Ascending
<1>6. \A i \in 1..Len(inbox) : inbox[i].number \in Nat
  <2>1. \A i \in 1..Len(inbox) : inbox[i] \in Message
    <3> HIDE DEF Message
    <3> QED BY <1>1 DEF MessageTypes
  <2> QED BY <2>1 DEF Message
<1>7. CASE UNCHANGED <<hdrState, callbacks, queued>>
  <2>1. MessageTypes'
    BY <1>1, <1>3, <1>7 DEF MessageTypes
  <2>2. InboxAhead'
    BY <1>1, <1>3, <1>4, <1>7 DEF InboxAhead
  <2>3. QueueAhead' /\ ShownBehind' /\ NothingMissed' /\ QueueOpen'
    BY <1>1, <1>7 DEF QueueAhead, ShownBehind, NothingMissed, Pending, Handled, QueueOpen, Ascending
  <2> QED BY <1>2, <2>1, <2>2, <2>3 DEF MessageInv
<1>8. CASE m.key \in Key /\ Accept(m)
  <2>1. m \in State /\ m.number \in Nat /\ m.key \in Key
    BY <1>8 DEF Message, State
  <2>2. queued[m.key] < m.number /\ m.number <= sent[m.key] /\ (m.key \in Hdr => hdrState < m.number)
    BY <1>1, <1>3, <2>1 DEF InboxAhead
  <2>3. hdrState' = (IF m.key \in Hdr THEN m.number ELSE hdrState) /\ hdrState' \in Nat
    BY <1>1, <1>8, <2>1 DEF Accept, MessageTypes
  <2>4. \A i \in 1..Len(inbox') : inbox'[i].key \in Hdr => hdrState' < inbox'[i].number
    BY <1>1, <1>3, <1>5, <2>3, KeyFacts DEF InboxAhead
  <2>5. \A k \in Key : queued[k] \in Nat /\ sent[k] \in Nat /\ shown[k] \in Nat
    BY <1>1 DEF MessageTypes
  <2>6. CASE UNCHANGED <<callbacks, queued>>
    <3>1. MessageTypes'
      BY <1>1, <1>3, <2>3, <2>6 DEF MessageTypes
    <3>2. \A k \in Hdr : queued[k] <= hdrState' /\ hdrState' <= sent[k]
      BY <1>1, <2>1, <2>2, <2>3, <2>5, KeyFacts DEF InboxAhead
    <3>3. InboxAhead'
      BY <1>1, <1>3, <1>4, <2>4, <2>6, <3>2 DEF InboxAhead
    <3>4. QueueAhead' /\ ShownBehind' /\ NothingMissed' /\ QueueOpen'
      BY <1>1, <2>6 DEF QueueAhead, ShownBehind, NothingMissed, Pending, Handled, QueueOpen, Ascending
    <3> QED BY <1>2, <3>1, <3>3, <3>4 DEF MessageInv
  <2>7. CASE /\ callbacksEnd = "open"
             /\ callbacks' = Append(callbacks, m) /\ queued' = [queued EXCEPT ![m.key] = m.number]
    <3>1. /\ callbacks' \in Seq(State) /\ Len(callbacks') = Len(callbacks) + 1
          /\ Len(callbacks) \in Nat /\ callbacks'[Len(callbacks) + 1] = m
          /\ \A i \in 1..Len(callbacks) : callbacks'[i] = callbacks[i] /\ callbacks[i] \in State
      <4> HIDE DEF State
      <4> QED BY <1>1, <2>1, <2>7, AppendFacts DEF MessageTypes
    <3>2. /\ queued' \in [Key -> Nat] /\ queued'[m.key] = m.number
          /\ \A k \in Key : k # m.key => queued'[k] = queued[k]
      BY <1>1, <2>1, <2>7 DEF MessageTypes
    <3>3. MessageTypes'
      BY <1>1, <1>3, <2>3, <3>1, <3>2 DEF MessageTypes
    <3>4. \A k \in Key : queued[k] <= queued'[k] /\ queued'[k] <= sent[k]
      BY <1>1, <2>2, <2>5, <3>2 DEF InboxAhead
    <3>5. InboxAhead'
      <4>1. ASSUME NEW i \in 1..Len(inbox'), inbox'[i].key \in Key
            PROVE  queued'[inbox'[i].key] < inbox'[i].number /\ inbox'[i].number <= sent[inbox'[i].key]
        BY <1>1, <1>3, <1>5, <3>2, <4>1 DEF InboxAhead
      <4>2. \A k \in Hdr : queued'[k] <= hdrState' /\ hdrState' <= sent[k]
        BY <1>1, <2>1, <2>2, <2>3, <2>5, <3>2, KeyFacts DEF InboxAhead
      <4> QED BY <1>4, <2>4, <3>4, <4>1, <4>2 DEF InboxAhead
    <3>6. \A i \in 1..Len(callbacks) : callbacks[i].key \in Key /\ callbacks[i].number \in Nat
                                       /\ callbacks[i].number <= queued[callbacks[i].key]
      BY <1>1, <3>1 DEF State, QueueAhead
    <3>7. \A j \in 1..Len(inHand) : inHand[j].key \in Key /\ inHand[j].number \in Nat
                                    /\ inHand[j].number <= queued[inHand[j].key]
      <4>1. \A j \in 1..Len(inHand) : inHand[j] \in State
        <5> HIDE DEF State
        <5> QED BY <1>1 DEF MessageTypes
      <4> QED BY <1>1, <4>1 DEF State, QueueAhead
    <3>8. QueueAhead'
      <4>1. Ascending(callbacks)'
        <5> SUFFICES ASSUME NEW i \in 1..Len(callbacks'), NEW j \in 1..Len(callbacks'), i < j,
                            callbacks'[i].key = callbacks'[j].key
                     PROVE  callbacks'[i].number < callbacks'[j].number
          BY DEF Ascending
        <5>1. i \in 1..Len(callbacks) /\ callbacks'[i] = callbacks[i]
          BY <3>1
        <5>2. CASE j = Len(callbacks) + 1
          BY <2>1, <2>2, <2>5, <3>1, <3>6, <5>1, <5>2
        <5>3. CASE j # Len(callbacks) + 1
          <6>0. Len(callbacks') = Len(callbacks) + 1 /\ Len(callbacks) \in Nat
            BY <3>1
          <6>1. j \in 1..Len(callbacks) /\ callbacks'[j] = callbacks[j]
            <7>1. j \in 1..Len(callbacks)
              BY <5>3, <6>0
            <7> QED BY <3>1, <7>1
          <6>2. callbacks[i].key = callbacks[j].key /\ callbacks[i].key \in Key /\ i < j
            BY <3>6, <5>1, <6>1
          <6>3. Ascending(callbacks)
            BY <1>1 DEF QueueAhead
          <6>4. callbacks[i].number < callbacks[j].number
            BY <5>1, <6>1, <6>2, <6>3 DEF Ascending
          <6> QED BY <5>1, <6>1, <6>4
        <5> QED BY <5>2, <5>3
      <4>2. ASSUME NEW i \in 1..Len(callbacks')
            PROVE  /\ callbacks'[i].number <= queued'[callbacks'[i].key]
                   /\ \A j \in 1..Len(inHand) :
                        inHand[j].key = callbacks'[i].key => inHand[j].number < callbacks'[i].number
        <5>1. CASE i = Len(callbacks) + 1
          BY <2>1, <2>2, <2>5, <3>1, <3>2, <3>7, <5>1
        <5>2. CASE i # Len(callbacks) + 1
          <6>1. i \in 1..Len(callbacks) /\ callbacks'[i] = callbacks[i]
            BY <3>1, <5>2
          <6>2. queued[callbacks[i].key] <= queued'[callbacks[i].key]
            BY <3>4, <3>6, <6>1
          <6>3. callbacks[i].number <= queued'[callbacks[i].key]
            BY <2>5, <3>2, <3>6, <6>1, <6>2
          <6> QED BY <1>1, <6>1, <6>3 DEF QueueAhead
        <5> QED BY <5>1, <5>2
      <4>3. \A j \in 1..Len(inHand) : inHand[j].number <= queued'[inHand[j].key]
        BY <2>5, <3>2, <3>4, <3>7
      <4> QED BY <4>1, <4>2, <4>3 DEF QueueAhead
    <3>9. ShownBehind'
      <4> SUFFICES ASSUME NEW k \in Key \ Hdr
                   PROVE  /\ shown[k] <= queued'[k]
                          /\ \A i \in 1..Len(callbacks') : callbacks'[i].key = k => shown[k] < callbacks'[i].number
                          /\ \A j \in 1..Len(inHand) : inHand[j].key = k => shown[k] < inHand[j].number
        BY DEF ShownBehind
      <4>1. shown[k] <= queued'[k]
        BY <1>1, <2>5, <3>2, <3>4 DEF ShownBehind
      <4>2. m.key = k => shown[k] < m.number
        BY <1>1, <2>1, <2>2, <2>5 DEF ShownBehind
      <4>3. \A i \in 1..Len(callbacks') : callbacks'[i].key = k => shown[k] < callbacks'[i].number
        BY <1>1, <3>1, <4>2 DEF ShownBehind
      <4> QED BY <1>1, <4>1, <4>3 DEF ShownBehind
    <3>10. NothingMissed'
      <4> SUFFICES ASSUME NEW k \in Key PROVE (shown[k] >= queued[k] \/ Pending(k) \/ Handled(k))'
        BY DEF NothingMissed
      <4>1. CASE k = m.key
        <5>1. Len(callbacks) + 1 \in 1..Len(callbacks')
          BY <3>1
        <5> QED BY <3>1, <3>2, <4>1, <5>1 DEF Pending
      <4>2. CASE k # m.key
        <5>1. queued'[k] = queued[k]
          BY <3>2, <4>2
        <5>2. Pending(k) => Pending(k)'
          <6>1. \A i \in 1..Len(callbacks) : i \in 1..Len(callbacks')
            BY <3>1
          <6> QED BY <3>1, <5>1, <6>1 DEF Pending
        <5>3. Handled(k) => Handled(k)'
          BY <5>1 DEF Handled
        <5> QED BY <1>1, <5>1, <5>2, <5>3 DEF NothingMissed
      <4> QED BY <4>1, <4>2
    <3>11. QueueOpen'
      BY <1>1, <2>7 DEF QueueOpen
    <3> QED BY <1>2, <3>3, <3>5, <3>8, <3>9, <3>10, <3>11 DEF MessageInv
  <2> QED BY <1>8, <2>6, <2>7 DEF Accept
<1> QED BY <1>7, <1>8

LEMMA MessagesOfRecv ==
  ASSUME LossInv, MessageInv, RecvStep PROVE MessageInv'
<1>1. /\ UNCHANGED <<call, todo, callbacksEnd, inHand, sent, shown>>
      /\ pc'["async"] = pc["async"]
  <2>1. \E l \in {"ended", "poll", "quiet"} : Goto("recv", l)
    BY DEF RecvStep, ReceivePoll, ReceiveQuiet, Serviced, ReceiveFails, Handle
  <2>2. pc'["async"] = pc["async"]
    BY <2>1 DEF LossInv, Types, Goto, Thread
  <2> QED BY <2>2 DEF RecvStep, ReceivePoll, ReceiveQuiet, caller
<1>2. ReceiveIdle \/ ReceiveFails \/ (inbox # <<>> /\ Handle(Head(inbox)))
  BY DEF RecvStep, ReceivePoll, ReceiveQuiet, Serviced
<1>3. CASE ReceiveIdle \/ ReceiveFails
  <2>1. UNCHANGED <<inbox, hdrState, callbacks, queued>>
    BY <1>3 DEF ReceiveIdle, ReceiveFails
  <2> QED BY <1>1, <2>1, MessagesAside DEF states
<1>4. CASE inbox # <<>> /\ Handle(Head(inbox))
  <2>1. PICK m \in Message : m = Head(inbox)
    <3>1. inbox \in Seq(Message)
      BY DEF MessageInv, MessageTypes
    <3>2. Head(inbox) \in Message
      <4> HIDE DEF Message
      <4> QED BY <1>4, <3>1, TailFacts
    <3> QED BY <3>2
  <2>2. /\ inbox' = Tail(inbox)
        /\ \/ UNCHANGED <<hdrState, callbacks, queued>>
           \/ m.key # "bye" /\ Accept(m)
    BY <1>4, <2>1 DEF Handle
  <2>3. m.key # "bye" => m.key \in Key
    BY <2>1 DEF Message
  <2> QED BY <1>1, <1>4, <2>1, <2>2, <2>3, MessageHandled
<1> QED BY <1>2, <1>3, <1>4

LEMMA MessagesOfHost ==
  ASSUME LossInv, MessageInv, HostSends PROVE MessageInv'
<1>1. /\ MessageTypes /\ InboxAhead
      /\ UNCHANGED <<call, todo, pc, hdrState, callbacks, callbacksEnd, inHand, queued, shown>>
  BY DEF MessageInv, HostSends, caller, threads
<1>2. PICK m \in Message : /\ inbox' = Append(inbox, m)
                           /\ \/ UNCHANGED sent /\ m.key = "bye"
                              \/ /\ m.key \in Key /\ m.number = sent[m.key] + 1
                                 /\ sent' = [sent EXCEPT ![m.key] = @ + 1]
  <2>1. CASE inbox' = Append(inbox, [key |-> "bye", number |-> 0]) /\ UNCHANGED sent
    <3>1. [key |-> "bye", number |-> 0] \in Message
      BY DEF Message
    <3> QED BY <2>1, <3>1
  <2>2. ASSUME NEW k \in Key, sent' = [sent EXCEPT ![k] = @ + 1],
               inbox' = Append(inbox, [key |-> k, number |-> sent[k] + 1])
        PROVE  \E m \in Message : inbox' = Append(inbox, m) /\ m.key = k /\ m.number = sent[k] + 1
    <3>1. [key |-> k, number |-> sent[k] + 1] \in Message
      BY <1>1, <2>2 DEF Message, MessageTypes
    <3> QED BY <2>2, <3>1
  <2> QED BY <2>1, <2>2 DEF HostSends
<1>3. /\ inbox' \in Seq(Message) /\ Len(inbox') = Len(inbox) + 1 /\ Len(inbox) \in Nat
      /\ inbox'[Len(inbox) + 1] = m
      /\ \A i \in 1..Len(inbox) : inbox'[i] = inbox[i] /\ inbox[i] \in Message
  <2> HIDE DEF Message
  <2> QED BY <1>1, <1>2, AppendFacts DEF MessageTypes
<1>4. /\ sent' \in [Key -> Nat]
      /\ \A k \in Key : sent[k] <= sent'[k] /\ sent[k] \in Nat /\ sent'[k] \in Nat /\ queued[k] \in Nat
      /\ m.key \in Key => sent'[m.key] = sent[m.key] + 1 /\ m.number = sent[m.key] + 1
  <2>1. CASE UNCHANGED sent /\ m.key = "bye"
    BY <1>1, <2>1, KeyFacts DEF MessageTypes
  <2>2. CASE m.key \in Key /\ m.number = sent[m.key] + 1 /\ sent' = [sent EXCEPT ![m.key] = @ + 1]
    BY <1>1, <2>2 DEF MessageTypes
  <2> QED BY <1>2, <2>1, <2>2
<1>5. MessageTypes'
  BY <1>1, <1>3, <1>4 DEF MessageTypes
<1>6. \A i \in 1..Len(inbox) : inbox[i].number \in Nat
  BY <1>3 DEF Message
<1>7. Ascending(inbox)'
  <2> SUFFICES ASSUME NEW i \in 1..Len(inbox'), NEW j \in 1..Len(inbox'), i < j,
                      inbox'[i].key = inbox'[j].key, inbox'[i].key \in Key
               PROVE  inbox'[i].number < inbox'[j].number
    BY DEF Ascending
  <2>1. i \in 1..Len(inbox) /\ inbox'[i] = inbox[i]
    BY <1>3
  <2>2. CASE j = Len(inbox) + 1
    <3>1. inbox[i].number <= sent[m.key] /\ m.key \in Key
      BY <1>1, <1>3, <2>1, <2>2 DEF InboxAhead
    <3> QED BY <1>3, <1>4, <1>6, <2>1, <2>2, <3>1
  <2>3. CASE j # Len(inbox) + 1
    <3>1. j \in 1..Len(inbox) /\ inbox'[j] = inbox[j]
      BY <1>3, <2>3
    <3>2. Ascending(inbox)
      BY <1>1 DEF InboxAhead
    <3>3. inbox[i].number < inbox[j].number
      BY <2>1, <3>1, <3>2 DEF Ascending
    <3> QED BY <2>1, <3>1, <3>3
  <2> QED BY <2>2, <2>3
<1>8. InboxAhead'
  <2>1. ASSUME NEW i \in 1..Len(inbox'), inbox'[i].key \in Key
        PROVE  /\ queued[inbox'[i].key] < inbox'[i].number /\ inbox'[i].number <= sent'[inbox'[i].key]
               /\ inbox'[i].key \in Hdr => hdrState < inbox'[i].number
    <3>1. CASE i = Len(inbox) + 1
      <4>1. queued[m.key] <= sent[m.key] /\ (m.key \in Hdr => hdrState <= sent[m.key])
        BY <1>1, <1>3, <2>1, <3>1 DEF InboxAhead
      <4>2. hdrState \in Nat
        BY <1>1 DEF MessageTypes
      <4> QED BY <1>3, <1>4, <2>1, <3>1, <4>1, <4>2
    <3>2. CASE i # Len(inbox) + 1
      <4>1. i \in 1..Len(inbox) /\ inbox'[i] = inbox[i]
        BY <1>3, <3>2
      <4>2. /\ queued[inbox[i].key] < inbox[i].number /\ inbox[i].number <= sent[inbox[i].key]
            /\ inbox[i].key \in Hdr => hdrState < inbox[i].number
        BY <1>1, <2>1, <4>1 DEF InboxAhead
      <4>3. inbox[i].number <= sent'[inbox[i].key]
        BY <1>4, <1>6, <2>1, <4>1, <4>2
      <4> QED BY <4>1, <4>2, <4>3
    <3> QED BY <3>1, <3>2
  <2>2. \A k \in Key : queued[k] <= sent'[k]
    BY <1>1, <1>4 DEF InboxAhead
  <2>3. \A k \in Hdr : queued[k] <= hdrState /\ hdrState <= sent'[k]
    BY <1>1, <1>4, KeyFacts DEF InboxAhead, MessageTypes
  <2> QED BY <1>1, <1>7, <2>1, <2>2, <2>3 DEF InboxAhead
<1>9. TodoFits' /\ QueueOpen' /\ HandShape'
  BY <1>1 DEF MessageInv, TodoFits, QueueOpen, HandShape
<1>10. QueueAhead' /\ ShownBehind' /\ NothingMissed'
  BY <1>1 DEF MessageInv, QueueAhead, ShownBehind, NothingMissed, Pending, Handled, Ascending
<1> QED BY <1>5, <1>8, <1>9, <1>10 DEF MessageInv

-----------------------------------------------------------------------------
\* The invariant of the host's messages (ControlStream.c 847-925, 1033, 1547).
THEOREM MessageInvariant == Spec => []MessageInv
<1>1. LossInv /\ MessageInv /\ [Next]_vars => MessageInv'
  <2> SUFFICES ASSUME LossInv, MessageInv, [Next]_vars PROVE MessageInv'
    OBVIOUS
  <2>1. CASE Restart
    BY <2>1, MessageRestart
  <2>2. CASE Stop \/ CallerStep
    BY <2>2, MessagesOfCaller
  <2>3. CASE RecvStep
    BY <2>3, MessagesOfRecv
  <2>4. CASE AsyncStep
    BY <2>4, MessagesOfAsync
  <2>5. CASE HostSends
    BY <2>5, MessagesOfHost
  <2>6. CASE IdrStep \/ RfiStep \/ LossStep
    <3>1. \E t \in {"idr", "rfi", "loss"} : UNCHANGED pc \/ \E l : Goto(t, l)
      BY <2>6 DEF IdrStep, IdrWait, IdrClear, IdrTestStopping, IdrFlush, IdrSend, RfiStep, RfiWait,
                  RfiMerge, RfiSend, LossStep, LossSend, LoopTest
    <3>2. pc'["async"] = pc["async"]
      BY <3>1 DEF LossInv, Types, Goto, Thread
    <3>3. UNCHANGED <<call, todo, inbox, states>>
      BY <2>6 DEF IdrStep, IdrWait, IdrClear, IdrTestStopping, IdrFlush, IdrSend, RfiStep, RfiWait,
                  RfiMerge, RfiSend, LossStep, LossSend, caller, network
    <3> QED BY <3>2, <3>3, MessagesAside
  <2>7. CASE \/ DetectedFrameLoss \/ SendFrameFecStatus \/ HostLeaves \/ DisconnectArrives
             \/ HostDies \/ PeerTimesOut \/ NetworkFails \/ \E r \in Requester : LiRequestIdrFrame(r)
    <3>1. UNCHANGED <<call, todo, pc, states>> /\ inbox' \in {inbox, <<>>}
      BY <2>7 DEF DetectedFrameLoss, SendFrameFecStatus, HostLeaves, DisconnectArrives, HostDies,
                  PeerTimesOut, NetworkFails, LiRequestIdrFrame, caller, threads, network
    <3> QED BY <3>1, MessagesAside
  <2>8. CASE UNCHANGED vars
    <3>1. UNCHANGED <<call, todo, pc, inbox, states>>
      BY <2>8 DEF vars, caller, threads, network
    <3> QED BY <3>1, MessagesAside
  <2> QED BY <2>1, <2>2, <2>3, <2>4, <2>5, <2>6, <2>7, <2>8 DEF Next
<1> QED BY <1>1, MessageInit, ControlInvariant, PTL DEF Spec

\* The last state accepted for a controller or the display reaches the client,
\* however callbacks are batched, and the thread that delivers them ends with
\* nothing left (ControlStream.c 847-925 and 1547).
THEOREM NoStateMissed == Spec => []StatesReachClient
<1>1. MessageInv => StatesReachClient
  <2> SUFFICES ASSUME MessageInv,
                      call \in {"up", "stopping"}
                      \/ (call = "down" /\ pc["async"] = "ended" /\ callbacksEnd = "draining")
               PROVE  /\ \A k \in Key : shown[k] >= queued[k] \/ Pending(k) \/ Handled(k)
                      /\ pc["async"] = "ended" => callbacks = <<>> /\ inHand = <<>>
    BY DEF StatesReachClient
  <2>1. \A k \in Key : shown[k] >= queued[k] \/ Pending(k) \/ Handled(k)
    BY DEF MessageInv, NothingMissed
  <2>2. pc["async"] = "ended" => callbacks = <<>> /\ inHand = <<>>
    BY DEF MessageInv, QueueOpen, HandShape
  <2> QED BY <2>1, <2>2
<1> QED BY <1>1, MessageInvariant, PTL

-----------------------------------------------------------------------------
(***************************************************************************)
(* The disconnect.  The messages owed are among those ENet holds, and once *)
(* the intercept is off none is; it goes on again only with the next       *)
(* connection, which is made once per start.                               *)
(***************************************************************************)
LaterStep == StartStep \ {Do("connect")}

ConnectsOnce ==
  call = "starting" =>
    \/ /\ todo = StartSteps(useRfi) /\ useRfi \in BOOLEAN
       /\ peer = "none" /\ owed = 0 /\ pc = Nobody
    \/ todo \in Seq(LaterStep)

DisconnectInv ==
  /\ owed \in Nat
  /\ peer = "connected" => owed <= Len(inbox)
  /\ peer = "connected" /\ ~intercept => owed = 0
  /\ ConnectsOnce

LEMMA Narrower ==
  ASSUME NEW S, NEW T, NEW q \in Seq(S), \A i \in 1..Len(q) : q[i] \in T
  PROVE  q \in Seq(T)
OBVIOUS

LEMMA FirstStep ==
  ASSUME NEW b \in BOOLEAN
  PROVE  StartSteps(b) # <<>> /\ Head(StartSteps(b)) = Do("connect") /\ Tail(StartSteps(b)) \in Seq(LaterStep)
<1> DEFINE p == <<Do("connect"), Create("recv"), Do("startA"), Do("startB"), Create("loss"),
                  Create("idr"), Create("async")>>
           r == IF b THEN <<Create("rfi")>> ELSE <<>>
<1>1. /\ {Do("startA"), Do("startB"), Create("recv"), Create("loss"), Create("idr"), Create("async"),
          Create("rfi")} \subseteq LaterStep
      /\ Do("connect") \in StartStep /\ LaterStep \subseteq StartStep
  BY DEF LaterStep, StartStep, Thread, Do, Create
<1> HIDE DEF LaterStep, StartStep
<1>2. p \in Seq(StartStep) /\ Len(p) = 7 /\ p[1] = Do("connect") /\ \A i \in 2..7 : p[i] \in LaterStep
  <2>1. Len(p) = 7 /\ p[1] = Do("connect")
    OBVIOUS
  <2>2. \A i \in 2..7 : i = 2 \/ i = 3 \/ i = 4 \/ i = 5 \/ i = 6 \/ i = 7
    OBVIOUS
  <2>3. p[2] = Create("recv") /\ p[3] = Do("startA") /\ p[4] = Do("startB") /\ p[5] = Create("loss")
        /\ p[6] = Create("idr") /\ p[7] = Create("async")
    OBVIOUS
  <2>4. p \in Seq(StartStep)
    BY <1>1
  <2> QED BY <1>1, <2>1, <2>2, <2>3, <2>4
<1>3. r \in Seq(StartStep) /\ \A i \in 1..Len(r) : r[i] \in LaterStep
  BY <1>1
<1> DEFINE s == p \o r
<1>4. StartSteps(b) = s
  BY DEF StartSteps
<1> HIDE DEF p, r
<1>5. /\ s \in Seq(StartStep) /\ Len(s) = 7 + Len(r) /\ Len(r) \in Nat
      /\ s[1] = Do("connect") /\ \A i \in 2..Len(s) : s[i] \in LaterStep
  <2>1. s \in Seq(StartStep) /\ Len(r) \in Nat
    BY <1>2, <1>3
  <2>0. p \in Seq(StartStep) /\ r \in Seq(StartStep) /\ Len(p) = 7
    BY <1>2, <1>3
  <2>2. Len(s) = 7 + Len(r) /\ \A i \in 1..7 + Len(r) : s[i] = IF i <= 7 THEN p[i] ELSE r[i - 7]
    <3>1. /\ Len(p \o r) = Len(p) + Len(r)
          /\ \A i \in 1..Len(p) + Len(r) : (p \o r)[i] = IF i <= Len(p) THEN p[i] ELSE r[i - Len(p)]
      BY ONLY <2>0, ConcatFacts
    <3> QED BY <2>0, <3>1
  <2>3. ASSUME NEW i \in 2..Len(s) PROVE s[i] \in LaterStep
    <3>1. CASE i <= 7
      <4>1. i \in 2..7 /\ s[i] = p[i]
        BY <2>1, <2>2, <3>1, <2>3
      <4> QED BY <1>2, <4>1
    <3>2. CASE i > 7
      <4>1. i - 7 \in 1..Len(r) /\ s[i] = r[i - 7]
        BY <2>1, <2>2, <3>2, <2>3
      <4> QED BY <1>3, <4>1
    <3> QED BY <2>1, <2>2, <3>1, <3>2
  <2> QED BY <1>2, <2>1, <2>2, <2>3
<1> HIDE DEF s
<1>6. s # <<>> /\ Head(s) = Do("connect") /\ Tail(s) \in Seq(LaterStep)
  <2>1. s # <<>> /\ Head(s) = s[1] /\ Len(Tail(s)) = Len(s) - 1
        /\ \A i \in 1..Len(Tail(s)) : Tail(s)[i] = s[i + 1]
    BY <1>5, TailFacts
  <2>2. Tail(s) \in Seq(StartStep) /\ \A i \in 1..Len(Tail(s)) : Tail(s)[i] \in LaterStep
    BY <1>5, <2>1
  <2>3. Tail(s) \in Seq(LaterStep)
    BY <2>2, Narrower
  <2> QED BY <1>5, <2>1, <2>3
<1> QED BY <1>4, <1>6

\* Only the first step of a start connects.
LEMMA ConnectIsFirst ==
  ASSUME LossInv, MessageInv, ConnectsOnce, todo # <<>>,
         call \in {"starting", "undoing", "stopping"}
  PROVE  /\ Next1.op = "connect" =>
              call = "starting" /\ todo = StartSteps(useRfi) /\ useRfi \in BOOLEAN /\ peer = "none" /\ owed = 0
         /\ call = "starting" /\ Next1.op # "connect" => Tail(todo) \in Seq(LaterStep)
<1>1. CASE call = "starting" /\ todo \in Seq(LaterStep)
  <2>1. Head(todo) \in LaterStep /\ Tail(todo) \in Seq(LaterStep)
    <3> HIDE DEF LaterStep
    <3> QED BY <1>1, TailFacts
  <2>2. \A x \in LaterStep : x.op # "connect"
    BY DEF LaterStep, StartStep, Do, Create
  <2> QED BY <2>1, <2>2 DEF Next1
<1>2. CASE call = "starting" /\ todo \notin Seq(LaterStep)
  <2>1. todo = StartSteps(useRfi) /\ useRfi \in BOOLEAN /\ peer = "none" /\ owed = 0
    BY <1>2 DEF ConnectsOnce
  <2>2. Next1.op = "connect"
    BY <2>1, FirstStep DEF Next1, Do
  <2> QED BY <1>2, <2>1, <2>2
<1>3. CASE call = "undoing"
  <2>1. todo \in Seq(UndoStep)
    BY <1>3 DEF MessageInv, TodoFits
  <2>2. Next1 \in UndoStep
    <3> HIDE DEF UndoStep
    <3> QED BY <2>1, TailFacts DEF Next1
  <2>3. \A x \in UndoStep : x.op # "connect"
    BY DEF UndoStep, Do, Interrupt, Join
  <2> QED BY <1>3, <2>2, <2>3
<1>4. CASE call = "stopping"
  <2>1. todo \in Seq(StopStep)
    BY <1>4 DEF MessageInv, TodoFits
  <2>2. Next1 \in StopStep
    <3> HIDE DEF StopStep
    <3> QED BY <2>1, TailFacts DEF Next1
  <2>3. \A x \in StopStep : x.op # "connect"
    BY DEF StopStep, Do, Interrupt, Join
  <2> QED BY <1>4, <2>2, <2>3
<1> QED BY <1>1, <1>2, <1>3, <1>4

LEMMA DisconnectBegins == call = "starting" /\ todo = StartSteps(useRfi) /\ useRfi \in BOOLEAN
                          /\ peer = "none" /\ owed = 0 /\ pc = Nobody => DisconnectInv
BY DEF DisconnectInv, ConnectsOnce

LEMMA DisconnectOfCaller ==
  ASSUME LossInv, MessageInv, DisconnectInv, CallerStep \/ Stop PROVE DisconnectInv'
<1>1. inbox \in Seq(Message) /\ ConnectsOnce
  BY DEF MessageInv, MessageTypes, DisconnectInv
<1>2. CASE Connect
  <2>1. /\ call \in {"starting", "undoing", "stopping"} /\ todo # <<>> /\ Next1.op = "connect"
        /\ peer' = "connected" /\ intercept' /\ todo' = Tail(todo)
        /\ UNCHANGED <<call, useRfi, inbox, owed>>
    BY <1>2 DEF Connect, Doing, Advance
  <2>2. call = "starting" /\ todo = StartSteps(useRfi) /\ useRfi \in BOOLEAN /\ owed = 0
    BY <1>1, <2>1, ConnectIsFirst
  <2>3. todo' \in Seq(LaterStep)
    BY <2>1, <2>2, FirstStep
  <2>4. Len(inbox) \in Nat
    BY <1>1
  <2> QED BY <2>1, <2>2, <2>3, <2>4 DEF DisconnectInv, ConnectsOnce
<1>3. CASE CreateThread \/ SendStart \/ SetFlag \/ InterruptThread \/ JoinThread
  <2>1. /\ call \in {"starting", "undoing", "stopping"} /\ todo # <<>> /\ Next1.op # "connect"
        /\ todo' = Tail(todo) /\ UNCHANGED <<call, peer, inbox, owed, intercept>>
    <3>1. CASE CreateThread
      BY <3>1 DEF CreateThread, Doing, Advance, network
    <3>2. CASE SendStart
      BY <3>2 DEF SendStart, Doing, Advance, network
    <3>3. CASE SetFlag
      BY <3>3 DEF SetFlag, Doing, Advance, network
    <3>4. CASE InterruptThread
      BY <3>4 DEF InterruptThread, Doing, Advance, network
    <3>5. CASE JoinThread
      BY <3>5 DEF JoinThread, Doing, Advance, network
    <3> QED BY <1>3, <3>1, <3>2, <3>3, <3>4, <3>5
  <2>2. call = "starting" => todo' \in Seq(LaterStep)
    BY <1>1, <2>1, ConnectIsFirst
  <2> QED BY <2>1, <2>2 DEF DisconnectInv, ConnectsOnce
<1>4. CASE StartFails \/ Started \/ Stop
  <2>1. call' # "starting" /\ UNCHANGED <<peer, inbox, owed, intercept>>
    BY <1>4 DEF StartFails, Started, Stop, network
  <2> QED BY <2>1 DEF DisconnectInv, ConnectsOnce
<1>5. CASE Reset
  <2>1. call' = "down" /\ peer' = "none" /\ owed' = owed
    BY <1>5 DEF Reset
  <2> QED BY <2>1 DEF DisconnectInv, ConnectsOnce
<1> QED BY <1>2, <1>3, <1>4, <1>5 DEF CallerStep

LEMMA DisconnectOfRecv ==
  ASSUME MessageInv, DisconnectInv, RecvStep PROVE DisconnectInv'
<1>1. inbox \in Seq(Message) /\ Len(inbox) \in Nat /\ owed \in Nat
  <2> HIDE DEF Message
  <2> QED BY DEF MessageInv, MessageTypes, DisconnectInv
<1>2. UNCHANGED <<call, todo, useRfi>>
  BY DEF RecvStep, ReceivePoll, ReceiveQuiet, caller
<1>3. ConnectsOnce'
  <2>1. call' = "starting" /\ todo' \notin Seq(LaterStep) =>
          pc = Nobody
    BY <1>2 DEF DisconnectInv, ConnectsOnce
  <2>2. pc["recv"] \in {"poll", "quiet"}
    BY DEF RecvStep, ReceivePoll, ReceiveQuiet
  <2>3. Nobody["recv"] = "none"
    BY DEF Nobody, Thread
  <2> QED BY <2>1, <2>2, <2>3 DEF ConnectsOnce
<1>4. CASE ReceiveIdle /\ UNCHANGED intercept
  BY <1>3, <1>4 DEF ReceiveIdle, DisconnectInv
<1>5. CASE ReceiveIdle /\ inbox = <<>>
  BY <1>1, <1>3, <1>5 DEF ReceiveIdle, DisconnectInv
<1>6. CASE ReceiveFails
  BY <1>1, <1>3, <1>6 DEF ReceiveFails, DisconnectInv
<1>7. CASE inbox # <<>> /\ Handle(Head(inbox))
  <2>1. /\ Len(inbox') = Len(inbox) - 1 /\ inbox' = Tail(inbox)
        /\ owed' = (IF owed > 0 THEN owed - 1 ELSE 0) /\ intercept' = intercept
        /\ peer' = peer \/ peer' = "disconnected"
    BY <1>1, <1>7, TailFacts DEF Handle, Accept
  <2> QED BY <1>1, <1>3, <2>1 DEF DisconnectInv
<1>8. \/ ReceiveIdle /\ (UNCHANGED intercept \/ inbox = <<>>)
      \/ ReceiveFails \/ (inbox # <<>> /\ Handle(Head(inbox)))
  BY DEF RecvStep, ReceivePoll, ReceiveQuiet, Serviced
<1> QED BY <1>4, <1>5, <1>6, <1>7, <1>8

LEMMA DisconnectOfHost ==
  ASSUME MessageInv, DisconnectInv, HostSends PROVE DisconnectInv'
<1>1. inbox \in Seq(Message) /\ owed \in Nat /\ Len(inbox) \in Nat /\ peer = "connected"
  <2> HIDE DEF Message
  <2> QED BY DEF MessageInv, MessageTypes, DisconnectInv, HostSends, Connected
<1>2. UNCHANGED <<call, todo, useRfi, pc, peer, owed, intercept>>
  BY DEF HostSends, caller, threads
<1>3. \E m : inbox' = Append(inbox, m)
  BY DEF HostSends
<1>4. Len(inbox') = Len(inbox) + 1
  BY <1>1, <1>3
<1> QED BY <1>1, <1>2, <1>4 DEF DisconnectInv, ConnectsOnce

\* What moves neither the caller nor a thread that did not exist, and leaves
\* the connection with the host alone or ends it.
LEMMA DisconnectAside ==
  ASSUME DisconnectInv, UNCHANGED <<call, todo, useRfi, intercept>>,
         pc = Nobody => pc' = Nobody,
         \/ UNCHANGED <<peer, owed, inbox>>
         \/ /\ peer = "connected" /\ peer' = "zombie" /\ owed' = owed
         \/ /\ peer = "connected" /\ peer' = peer /\ intercept
            /\ owed' \in {owed, Len(inbox)} /\ inbox' = inbox /\ Len(inbox) \in Nat
  PROVE  DisconnectInv'
BY DEF DisconnectInv, ConnectsOnce

LEMMA DisconnectOfOthers ==
  ASSUME MessageInv, DisconnectInv,
         \/ IdrStep \/ RfiStep \/ LossStep \/ AsyncStep
         \/ DetectedFrameLoss \/ SendFrameFecStatus \/ \E r \in Requester : LiRequestIdrFrame(r)
         \/ HostLeaves \/ DisconnectArrives \/ HostDies \/ PeerTimesOut \/ NetworkFails
         \/ UNCHANGED vars
  PROVE  DisconnectInv'
<1>1. CASE IdrStep \/ RfiStep \/ LossStep \/ AsyncStep
  <2>1. \A t \in Thread : Nobody[t] = "none"
    BY DEF Nobody
  <2>2. \E t \in Thread : pc[t] # "none"
    BY <1>1 DEF IdrStep, IdrWait, IdrClear, IdrTestStopping, IdrFlush, IdrSend, RfiStep, RfiWait,
                RfiMerge, RfiSend, LossStep, LossSend, AsyncStep, AsyncWait, AsyncBatch, AsyncCall,
                Thread
  <2>3. UNCHANGED <<call, todo, useRfi, network>>
    BY <1>1 DEF IdrStep, IdrWait, IdrClear, IdrTestStopping, IdrFlush, IdrSend, RfiStep, RfiWait,
                RfiMerge, RfiSend, LossStep, LossSend, AsyncStep, AsyncWait, AsyncBatch, AsyncCall,
                caller
  <2> QED BY <2>1, <2>2, <2>3, DisconnectAside DEF network
<1>2. CASE \/ DetectedFrameLoss \/ SendFrameFecStatus \/ HostLeaves \/ HostDies \/ NetworkFails
           \/ \E r \in Requester : LiRequestIdrFrame(r)
  <2>1. UNCHANGED <<call, todo, useRfi, pc, peer, owed, inbox, intercept>>
    BY <1>2 DEF DetectedFrameLoss, SendFrameFecStatus, HostLeaves, HostDies, NetworkFails,
                LiRequestIdrFrame, caller, threads, network
  <2> QED BY <2>1, DisconnectAside
<1>3. CASE DisconnectArrives \/ PeerTimesOut
  <2>1. UNCHANGED <<call, todo, useRfi, pc, intercept>> /\ peer = "connected"
    BY <1>3 DEF DisconnectArrives, PeerTimesOut, Connected, caller, threads
  <2>2. Len(inbox) \in Nat
    <3> HIDE DEF Message
    <3> QED BY DEF MessageInv, MessageTypes
  <2>3. \/ peer' = "zombie" /\ owed' = owed
        \/ peer' = peer /\ intercept /\ owed' \in {owed, Len(inbox)} /\ inbox' = inbox
    BY <1>3 DEF DisconnectArrives, PeerTimesOut
  <2> QED BY <2>1, <2>2, <2>3, DisconnectAside
<1>4. CASE UNCHANGED vars
  BY <1>4, DisconnectAside DEF vars, caller, threads, network
<1> QED BY <1>1, <1>2, <1>3, <1>4

\* The invariant of the disconnect: the messages it must wait for are still
\* there, and the intercept goes on only with the first step of a start
\* (ControlStream.c 840-858, 1078-1092 and 1662).
THEOREM DisconnectInvariant == Spec => []DisconnectInv
<1>1. Init => DisconnectInv
  BY DisconnectBegins DEF Init
<1>2. LossInv /\ MessageInv /\ DisconnectInv /\ [Next]_vars => DisconnectInv'
  <2> SUFFICES ASSUME LossInv, MessageInv, DisconnectInv, [Next]_vars PROVE DisconnectInv'
    OBVIOUS
  <2>1. CASE Restart
    <3>1. (call = "starting" /\ todo = StartSteps(useRfi) /\ useRfi \in BOOLEAN
           /\ peer = "none" /\ owed = 0 /\ pc = Nobody)'
      BY <2>1 DEF Restart
    <3> QED BY <3>1, DisconnectBegins, PTL
  <2>2. CASE Stop \/ CallerStep
    BY <2>2, DisconnectOfCaller
  <2>3. CASE RecvStep
    BY <2>3, DisconnectOfRecv
  <2>4. CASE HostSends
    BY <2>4, DisconnectOfHost
  <2>5. CASE \/ IdrStep \/ RfiStep \/ LossStep \/ AsyncStep
             \/ DetectedFrameLoss \/ SendFrameFecStatus
             \/ \E r \in Requester : LiRequestIdrFrame(r)
             \/ HostLeaves \/ DisconnectArrives \/ HostDies \/ PeerTimesOut \/ NetworkFails
             \/ UNCHANGED vars
    BY <2>5, DisconnectOfOthers
  <2> QED BY <2>1, <2>2, <2>3, <2>4, <2>5 DEF Next
<1> QED BY <1>1, <1>2, ControlInvariant, MessageInvariant, PTL DEF Spec

\* No message that was there when the host's disconnect was first noticed is
\* dropped by it (ControlStream.c 840-858 and 1078-1092).
THEOREM MessagesBeforeDisconnect == Spec => ReceivedBeforeDisconnect
<1>1. DisconnectInv /\ [Next]_vars =>
        [host = "leaving" /\ peer = "connected" /\ peer' = "zombie" => owed = 0]_vars
  <2> SUFFICES ASSUME DisconnectInv, [Next]_vars, host = "leaving", peer = "connected",
                      peer' = "zombie"
               PROVE  owed = 0
    OBVIOUS
  <2>1. CASE Restart \/ Stop \/ CallerStep
    BY <2>1 DEF Restart, Stop, CallerStep, Connect, CreateThread, SendStart, StartFails, Started,
                SetFlag, InterruptThread, JoinThread, Reset, network
  <2>2. CASE RecvStep
    BY <2>2 DEF RecvStep, ReceivePoll, ReceiveQuiet, Serviced, ReceiveIdle, ReceiveFails, Handle,
                Accept
  <2>3. CASE \/ IdrStep \/ RfiStep \/ LossStep \/ AsyncStep
    BY <2>3 DEF IdrStep, IdrWait, IdrClear, IdrTestStopping, IdrFlush, IdrSend, RfiStep, RfiWait,
                RfiMerge, RfiSend, LossStep, LossSend, AsyncStep, AsyncWait, AsyncBatch, AsyncCall,
                network
  <2>4. CASE \/ DetectedFrameLoss \/ SendFrameFecStatus
             \/ \E r \in Requester : LiRequestIdrFrame(r)
             \/ HostSends \/ HostLeaves \/ HostDies \/ PeerTimesOut \/ NetworkFails
             \/ UNCHANGED vars
    BY <2>4 DEF DetectedFrameLoss, SendFrameFecStatus, LiRequestIdrFrame, HostSends, HostLeaves,
                HostDies, PeerTimesOut, NetworkFails, vars, network
  <2>5. CASE DisconnectArrives
    BY <2>5 DEF DisconnectArrives, DisconnectInv
  <2> QED BY <2>1, <2>2, <2>3, <2>4, <2>5 DEF Next
<1> QED BY <1>1, DisconnectInvariant, PTL DEF Spec, ReceivedBeforeDisconnect
=============================================================================
