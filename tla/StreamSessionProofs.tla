------------------------- MODULE StreamSessionProofs ------------------------
(***************************************************************************)
(* Proofs about StreamSession for any set of Game activities, finite or    *)
(* not.                                                                    *)
(*                                                                         *)
(* That the semaphore counts sessions cannot be shown from the semaphore   *)
(* alone: a permit is given back by the stop thread, which exists because  *)
(* an activity believed itself connected, which it does because a runnable *)
(* of a start that succeeded was queued.  The invariant follows that chain *)
(* and says that each link of it is used once: StartedOnce about the queue *)
(* and StopOnce about the flag `connected` of Game.java.                   *)
(*                                                                         *)
(* The last section proves, of the native library that a session starts    *)
(* and stops, the invariants of module Connection.                         *)
(***************************************************************************)
EXTENDS StreamSession, Connection, TLAPS

Running(g) == startThread[g] = "started" /\ stopThread[g] \notin {"releasing", "done"}

\* Position i of the UI queue tells g that its connection has started.
Tells(i, g) == i \in 1..Len(uiQueue) /\ uiQueue[i] = <<g, "started">>

\* A successful start is told at most once, and not again when it was.
StartedOnce ==
  \A g \in Game :
    /\ \A i, j \in 1..Len(uiQueue) : Tells(i, g) /\ Tells(j, g) => i = j
    /\ \A i \in 1..Len(uiQueue) :
         Tells(i, g) => startThread[g] = "started" /\ ~connected[g] /\ stopThread[g] = "none"

\* Whoever believes itself connected is, and has no stop thread yet; and only
\* a connection that was established is ever stopped.
StopOnce ==
  \A g \in Game :
    /\ connected[g] => startThread[g] = "started" /\ stopThread[g] = "none"
    /\ stopThread[g] # "none" => startThread[g] = "started"

\* An activity attempts one connection.
OneAttempt == \A g \in Game : surface[g] = "none" => startThread[g] = "none"

\* One session at a time, and it says what the library does.
SessionOwnsLibrary ==
  /\ \A g \in Game : Running(g) => native = "up"
  /\ \A g \in Game : startThread[g] = "starting" => native = "starting"
  /\ native # "down" => \E g \in Game : startThread[g] = "starting" \/ Running(g)

SessInv == /\ TypeOK /\ OneAttempt /\ StartedOnce /\ StopOnce /\ SemaphoreCountsSessions
           /\ CallbacksReachTheirGame /\ SessionOwnsLibrary

-----------------------------------------------------------------------------
LEMMA SessInit == Init => SessInv
<1> SUFFICES ASSUME Init PROVE SessInv
  OBVIOUS
<1>1. TypeOK
  <2>1. /\ connected \in [Game -> BOOLEAN] /\ dialog \in [Game -> BOOLEAN]
        /\ silenced \in BOOLEAN
    BY Zenon DEF Init
  <2>2. /\ uiQueue \in Seq(Game \X {"started", "failed", "terminated"})
        /\ permits \in 0..1 /\ asyncTerm \in Nat
    BY DEF Init
  <2>3. /\ hasty \in {{}, Game}
        /\ activity \in [Game -> {"none", "shown", "left"}]
        /\ surface \in [Game -> {"none", "valid", "destroyed"}]
        /\ startThread \in [Game -> {"none", "launching", "acquiring", "locking",
                                     "starting", "started", "failed"}]
        /\ stopThread \in [Game -> {"none", "interrupting", "locking", "stopping",
                                    "releasing", "done"}]
        /\ lock \in Game \cup {NoGame} /\ bridge \in Game \cup {NoGame}
        /\ native \in {"down", "starting", "up"}
    BY DEF Init
  <2> QED BY <2>1, <2>2, <2>3 DEF TypeOK
<1>2. OneAttempt /\ StartedOnce /\ StopOnce /\ SessionOwnsLibrary
  BY DEF Init, OneAttempt, StartedOnce, StopOnce, SessionOwnsLibrary, Running, Tells
<1>3. SemaphoreCountsSessions /\ CallbacksReachTheirGame
  BY DEF Init, SemaphoreCountsSessions, CallbacksReachTheirGame, Holds
<1> QED BY <1>1, <1>2, <1>3 DEF SessInv

\* What a post leaves in the queue, and what running the first runnable does.
LEMMA PostFacts ==
  ASSUME TypeOK, NEW g \in Game, NEW what \in {"started", "failed", "terminated"}, Post(g, what)
  PROVE  /\ uiQueue' \in Seq(Game \X {"started", "failed", "terminated"})
         /\ Len(uiQueue') = Len(uiQueue) + 1 /\ uiQueue'[Len(uiQueue) + 1] = <<g, what>>
         /\ \A i \in 1..Len(uiQueue) : uiQueue'[i] = uiQueue[i]
BY DEF TypeOK, Post

LEMMA RunFacts ==
  ASSUME TypeOK, uiQueue # <<>>, uiQueue' = Tail(uiQueue)
  PROVE  /\ uiQueue' \in Seq(Game \X {"started", "failed", "terminated"})
         /\ Len(uiQueue') = Len(uiQueue) - 1 /\ Len(uiQueue) \in Nat \ {0}
         /\ \A i \in 1..Len(uiQueue') : uiQueue'[i] = uiQueue[i + 1]
         /\ Head(uiQueue) = uiQueue[1]
BY DEF TypeOK

\* A post of anything but "started" leaves the queue's news of starts alone.
LEMMA OtherPost ==
  ASSUME TypeOK, NEW g \in Game, NEW what \in {"failed", "terminated"}, Post(g, what),
         NEW h \in Game, NEW i \in 1..Len(uiQueue'), Tells(i, h)'
  PROVE  Tells(i, h)
<1>1. i # Len(uiQueue) + 1
  BY PostFacts DEF Tells
<1> QED BY <1>1, PostFacts DEF Tells, TypeOK

\* Running a runnable leaves the news of starts that wait behind it.
LEMMA RunShifts ==
  ASSUME TypeOK, uiQueue # <<>>, uiQueue' = Tail(uiQueue),
         NEW h \in Game, NEW i \in 1..Len(uiQueue'), Tells(i, h)'
  PROVE  Tells(i + 1, h) /\ i + 1 \in 1..Len(uiQueue)
BY RunFacts DEF Tells

\* StartedOnce survives as long as the queue brings no news of a start, except
\* by moving up, and whoever is still to be told has not been touched.
LEMMA StartedOnceKept ==
  ASSUME TypeOK, StartedOnce, NEW k \in {0, 1},
         \A h \in Game : \A i \in 1..Len(uiQueue') : Tells(i, h)' =>
           /\ i + k \in 1..Len(uiQueue) /\ Tells(i + k, h)
           /\ startThread'[h] = startThread[h] /\ connected'[h] = connected[h]
           /\ stopThread'[h] = stopThread[h]
  PROVE  StartedOnce'
<1> SUFFICES ASSUME NEW g \in Game
             PROVE  /\ \A i, j \in 1..Len(uiQueue') : Tells(i, g)' /\ Tells(j, g)' => i = j
                    /\ \A i \in 1..Len(uiQueue') : Tells(i, g)' =>
                         /\ startThread'[g] = "started" /\ ~connected'[g]
                         /\ stopThread'[g] = "none"
  BY DEF StartedOnce, Tells
<1>1. \A i \in 1..Len(uiQueue') : Tells(i, g)' =>
         startThread'[g] = "started" /\ ~connected'[g] /\ stopThread'[g] = "none"
  BY DEF StartedOnce
<1>2. ASSUME NEW i \in 1..Len(uiQueue'), NEW j \in 1..Len(uiQueue'), Tells(i, g)', Tells(j, g)'
      PROVE  i = j
  <2>1. i + k = j + k
    BY <1>2 DEF StartedOnce
  <2>2. i \in Int /\ j \in Int
    OBVIOUS
  <2> QED BY <2>1, <2>2
<1> QED BY <1>1, <1>2

-----------------------------------------------------------------------------
(***************************************************************************)
(* The steps that do not touch a thread of NvConnection: the life of the   *)
(* activity up to its first surface, and the library's own threads.        *)
(***************************************************************************)
LEMMA QuietStep ==
  ASSUME SessInv,
         \/ \E g \in Game : Launch(g)
         \/ FatalError \/ ConnectionTerminated
         \/ \E g \in Game : RunStageFailed(g)
         \/ UNCHANGED vars
  PROVE  SessInv'
<1> USE DEF SessInv
<1>1. /\ UNCHANGED <<startThread, stopThread, permits, bridge, native, connected>>
  BY DEF Launch, FatalError, ConnectionTerminated, RunStageFailed, vars, ui, threads, java, library
<1>2. TypeOK'
  <2>1. uiQueue' \in Seq(Game \X {"started", "failed", "terminated"})
    BY PostFacts, RunFacts DEF TypeOK, Launch, FatalError, ConnectionTerminated, RunStageFailed, vars
  <2>2. /\ hasty' \in {{}, Game} /\ activity' \in [Game -> {"none", "shown", "left"}]
        /\ surface' \in [Game -> {"none", "valid", "destroyed"}]
        /\ lock' \in Game \cup {NoGame} /\ asyncTerm' \in Nat
    BY DEF TypeOK, Launch, FatalError, ConnectionTerminated, RunStageFailed, vars, ui, threads,
           java, library
  <2>3. dialog' \in [Game -> BOOLEAN] /\ silenced' \in BOOLEAN
    BY Zenon DEF TypeOK, Launch, FatalError, ConnectionTerminated, RunStageFailed, vars, ui,
           threads, java, library
  <2> QED BY <1>1, <2>1, <2>2, <2>3 DEF TypeOK
<1>3. StartedOnce'
  <2>1. CASE uiQueue' = uiQueue
    BY <1>1, <2>1 DEF StartedOnce, Tells
  <2>2. CASE ConnectionTerminated /\ bridge # NoGame
    <3>1. bridge \in Game /\ Post(bridge, "terminated")
      BY <2>2 DEF TypeOK, ConnectionTerminated
    <3>2. \A h \in Game : \A i \in 1..Len(uiQueue') : Tells(i, h)' => Tells(i, h)
      BY <3>1, OtherPost
    <3>3. \A h \in Game : \A i \in 1..Len(uiQueue') : Tells(i, h)' =>
             i + 0 \in 1..Len(uiQueue) /\ Tells(i + 0, h)
      BY <3>2 DEF Tells
    <3> QED BY <1>1, <3>3, StartedOnceKept
  <2>3. CASE \E g \in Game : RunStageFailed(g)
    <3>1. uiQueue # <<>> /\ uiQueue' = Tail(uiQueue)
      BY <2>3 DEF RunStageFailed
    <3>2. \A h \in Game : \A i \in 1..Len(uiQueue') : Tells(i, h)' =>
             i + 1 \in 1..Len(uiQueue) /\ Tells(i + 1, h)
      BY <3>1, RunShifts
    <3> QED BY <1>1, <3>2, StartedOnceKept
  <2> QED BY <2>1, <2>2, <2>3 DEF Launch, FatalError, ConnectionTerminated, vars
<1>4. StopOnce' /\ SemaphoreCountsSessions' /\ CallbacksReachTheirGame' /\ SessionOwnsLibrary'
  BY <1>1 DEF StopOnce, SemaphoreCountsSessions, CallbacksReachTheirGame, SessionOwnsLibrary,
              Holds, Running
<1>5. OneAttempt'
  BY <1>1 DEF OneAttempt, Launch, FatalError, ConnectionTerminated, RunStageFailed, vars, ui
<1> QED BY <1>2, <1>3, <1>4, <1>5

-----------------------------------------------------------------------------
(***************************************************************************)
(* The steps in which an activity may stop its connection.                 *)
(***************************************************************************)
\* Whoever is still to be told of its start is not stopped: it does not know
\* of a connection yet.
LEMMA StopConnectionSpares ==
  ASSUME SessInv, NEW g \in Game, StopConnection(g), NEW h \in Game, NEW i, Tells(i, h)
  PROVE  connected'[h] = connected[h] /\ stopThread'[h] = stopThread[h]
<1>1. ~connected[h]
  BY DEF SessInv, StartedOnce, Tells
<1>2. CASE h = g
  BY <1>1, <1>2 DEF SessInv, TypeOK, StopConnection
<1>3. CASE h # g
  BY <1>3 DEF SessInv, TypeOK, StopConnection
<1> QED BY <1>2, <1>3

LEMMA StopConnectionKeeps ==
  ASSUME SessInv, NEW g \in Game, StopConnection(g),
         UNCHANGED <<startThread, permits, bridge, native>>
  PROVE  /\ connected' \in [Game -> BOOLEAN]
         /\ stopThread' \in [Game -> {"none", "interrupting", "locking", "stopping",
                                     "releasing", "done"}]
         /\ StopOnce' /\ SemaphoreCountsSessions' /\ CallbacksReachTheirGame'
         /\ SessionOwnsLibrary'
<1> USE DEF SessInv
<1>1. \A h \in Game :
        \/ stopThread'[h] = stopThread[h] /\ (connected'[h] => connected[h])
        \/ stopThread[h] = "none" /\ stopThread'[h] = "interrupting" /\ ~connected'[h]
           /\ startThread[h] = "started"
  BY DEF TypeOK, StopConnection, StopOnce
<1>2. connected' \in [Game -> BOOLEAN]
  BY Zenon DEF TypeOK, StopConnection
<1>3. stopThread' \in [Game -> {"none", "interrupting", "locking", "stopping",
                               "releasing", "done"}]
  BY DEF TypeOK, StopConnection
<1>4. StopOnce'
  BY <1>1 DEF StopOnce
<1>5. \A h \in Game : Holds(h)' <=> Holds(h)
  BY <1>1 DEF Holds
<1>6. \A h \in Game : Running(h)' <=> Running(h)
  BY <1>1 DEF Running
<1>7. SemaphoreCountsSessions'
  BY <1>5 DEF SemaphoreCountsSessions
<1>8. CallbacksReachTheirGame'
  BY <1>1 DEF CallbacksReachTheirGame
<1>9. SessionOwnsLibrary'
  BY <1>6 DEF SessionOwnsLibrary
<1> QED BY <1>2, <1>3, <1>4, <1>7, <1>8, <1>9

LEMMA LeaveStep ==
  ASSUME SessInv, NEW g \in Game, SurfaceDestroyed(g) \/ OnStop(g) \/ RunConnectionTerminated(g)
  PROVE  SessInv'
<1> USE DEF SessInv
<1>1. UNCHANGED <<hasty, startThread, permits, lock, bridge, native, silenced, asyncTerm>>
  BY DEF SurfaceDestroyed, OnStop, RunConnectionTerminated, java, library
<1>2. StopConnection(g) \/ UNCHANGED <<connected, stopThread>>
  BY DEF SurfaceDestroyed, OnStop, RunConnectionTerminated
<1>3. /\ connected' \in [Game -> BOOLEAN]
      /\ stopThread' \in [Game -> {"none", "interrupting", "locking", "stopping",
                                  "releasing", "done"}]
      /\ StopOnce' /\ SemaphoreCountsSessions' /\ CallbacksReachTheirGame'
      /\ SessionOwnsLibrary'
  <2>1. CASE StopConnection(g)
    BY <1>1, <2>1, StopConnectionKeeps
  <2>2. CASE UNCHANGED <<connected, stopThread>>
    BY <1>1, <2>2 DEF TypeOK, StopOnce, SemaphoreCountsSessions, CallbacksReachTheirGame,
                      SessionOwnsLibrary, Holds, Running
  <2> QED BY <1>2, <2>1, <2>2
<1>4. \/ uiQueue' = uiQueue
      \/ uiQueue # <<>> /\ uiQueue' = Tail(uiQueue)
  BY DEF SurfaceDestroyed, OnStop, RunConnectionTerminated
<1>5. TypeOK'
  <2>1. uiQueue' \in Seq(Game \X {"started", "failed", "terminated"})
    BY <1>4, RunFacts DEF TypeOK
  <2>2. /\ activity' \in [Game -> {"none", "shown", "left"}]
        /\ surface' \in [Game -> {"none", "valid", "destroyed"}]
    BY DEF TypeOK, SurfaceDestroyed, OnStop, RunConnectionTerminated
  <2>3. dialog' \in [Game -> BOOLEAN]
    BY Zenon DEF TypeOK, SurfaceDestroyed, OnStop, RunConnectionTerminated
  <2> QED BY <1>1, <1>3, <2>1, <2>2, <2>3 DEF TypeOK
<1>6. \A h \in Game : \A i : Tells(i, h) =>
         connected'[h] = connected[h] /\ stopThread'[h] = stopThread[h]
  BY <1>2, StopConnectionSpares
<1>7. StartedOnce'
  <2>1. CASE uiQueue' = uiQueue
    <3>1. \A h \in Game : \A i \in 1..Len(uiQueue') : Tells(i, h)' =>
             i + 0 \in 1..Len(uiQueue) /\ Tells(i + 0, h)
      BY <2>1 DEF Tells
    <3> QED BY <1>1, <1>6, <3>1, StartedOnceKept
  <2>2. CASE uiQueue # <<>> /\ uiQueue' = Tail(uiQueue)
    <3>1. \A h \in Game : \A i \in 1..Len(uiQueue') : Tells(i, h)' =>
             i + 1 \in 1..Len(uiQueue) /\ Tells(i + 1, h)
      BY <2>2, RunShifts
    <3> QED BY <1>1, <1>6, <3>1, StartedOnceKept
  <2> QED BY <1>4, <2>1, <2>2
<1>8. OneAttempt'
  BY <1>1 DEF TypeOK, OneAttempt, SurfaceDestroyed, OnStop, RunConnectionTerminated
<1> QED BY <1>3, <1>5, <1>7, <1>8

\* The activity learns that it is connected: the one time it is told.
LEMMA RunStartedStep ==
  ASSUME SessInv, NEW g \in Game, RunConnectionStarted(g)
  PROVE  SessInv'
<1> USE DEF SessInv
<1>1. /\ UNCHANGED <<hasty, activity, surface, dialog, startThread, stopThread, permits, lock,
                    bridge, native, silenced, asyncTerm>>
      /\ uiQueue # <<>> /\ uiQueue' = Tail(uiQueue)
      /\ connected' = [connected EXCEPT ![g] = TRUE]
  BY DEF RunConnectionStarted, threads, java, library
<1>2. Tells(1, g)
  BY RunFacts DEF RunConnectionStarted, Tells
<1>3. startThread[g] = "started" /\ stopThread[g] = "none"
  BY <1>2 DEF StartedOnce, Tells
<1>4. TypeOK'
  <2>1. connected' \in [Game -> BOOLEAN]
    BY <1>1, Zenon DEF TypeOK
  <2> QED BY <1>1, <2>1, RunFacts DEF TypeOK
<1>5. StartedOnce'
  <2>1. \A h \in Game : \A i \in 1..Len(uiQueue') : Tells(i, h)' =>
           i + 1 \in 1..Len(uiQueue) /\ Tells(i + 1, h)
    BY <1>1, RunShifts
  <2>2. ASSUME NEW h \in Game, NEW i \in 1..Len(uiQueue'), Tells(i, h)'
        PROVE  connected'[h] = connected[h]
    <3>1. h # g
      <4>1. Tells(i + 1, h) /\ i + 1 \in 1..Len(uiQueue) /\ 1 \in 1..Len(uiQueue) /\ i + 1 # 1
        BY <2>1, <2>2, <1>2 DEF Tells
      <4> QED BY <4>1, <1>2 DEF StartedOnce
    <3> QED BY <1>1, <3>1 DEF TypeOK
  <2> QED BY <1>1, <2>1, <2>2, StartedOnceKept
<1>6. StopOnce'
  BY <1>1, <1>3 DEF TypeOK, StopOnce
<1>7. /\ OneAttempt' /\ SemaphoreCountsSessions' /\ CallbacksReachTheirGame'
      /\ SessionOwnsLibrary'
  BY <1>1 DEF OneAttempt, SemaphoreCountsSessions, CallbacksReachTheirGame, SessionOwnsLibrary,
              Holds, Running
<1> QED BY <1>4, <1>5, <1>6, <1>7

-----------------------------------------------------------------------------
(***************************************************************************)
(* The start thread.  Until it is done nobody is told of a connection and  *)
(* there is none to stop.                                                  *)
(***************************************************************************)
LEMMA StartQueue ==
  ASSUME SessInv, NEW g \in Game, startThread[g] # "started", TypeOK',
         UNCHANGED <<connected, stopThread>>,
         \A h \in Game \ {g} : startThread'[h] = startThread[h],
         \/ uiQueue' = uiQueue
         \/ Post(g, "failed")
         \/ Post(g, "started") /\ startThread'[g] = "started"
  PROVE  StartedOnce' /\ StopOnce'
<1> USE DEF SessInv
<1>1. ~connected[g] /\ stopThread[g] = "none" /\ \A i : ~Tells(i, g)
  BY DEF StopOnce, StartedOnce, Tells
<1>2. StopOnce'
  BY <1>1 DEF StopOnce
<1>3. StartedOnce'
  <2>1. CASE uiQueue' = uiQueue \/ Post(g, "failed")
    <3>1. \A h \in Game : \A i \in 1..Len(uiQueue') : Tells(i, h)' => Tells(i, h)
      BY <2>1, OtherPost DEF Tells
    <3>2. \A h \in Game : \A i \in 1..Len(uiQueue') : Tells(i, h)' =>
             i + 0 \in 1..Len(uiQueue) /\ Tells(i + 0, h) /\ h # g
      BY <1>1, <3>1 DEF Tells
    <3> QED BY <3>2, StartedOnceKept
  <2>2. CASE Post(g, "started") /\ startThread'[g] = "started"
    <3>1. \A h \in Game : \A i \in 1..Len(uiQueue') : Tells(i, h)' =>
             (Tells(i, h) /\ h # g) \/ (i = Len(uiQueue) + 1 /\ h = g)
      <4> SUFFICES ASSUME NEW h \in Game, NEW i \in 1..Len(uiQueue'), Tells(i, h)'
                   PROVE  (Tells(i, h) /\ h # g) \/ (i = Len(uiQueue) + 1 /\ h = g)
        OBVIOUS
      <4>1. CASE i = Len(uiQueue) + 1
        BY <2>2, <4>1, PostFacts DEF Tells
      <4>2. CASE i # Len(uiQueue) + 1
        <5>1. i \in 1..Len(uiQueue)
          BY <2>2, <4>2, PostFacts DEF TypeOK
        <5>2. Tells(i, h)
          BY <2>2, <5>1, PostFacts DEF Tells
        <5> QED BY <5>2, <1>1 DEF Tells
      <4> QED BY <4>1, <4>2
    <3>2. SUFFICES ASSUME NEW h \in Game
                   PROVE  /\ \A i, j \in 1..Len(uiQueue') : Tells(i, h)' /\ Tells(j, h)' => i = j
                          /\ \A i \in 1..Len(uiQueue') : Tells(i, h)' =>
                               /\ startThread'[h] = "started" /\ ~connected'[h]
                               /\ stopThread'[h] = "none"
      BY DEF StartedOnce, Tells
    <3>3. CASE h = g
      BY <1>1, <2>2, <3>1, <3>3
    <3>4. CASE h # g
      <4>1. \A i \in 1..Len(uiQueue') : Tells(i, h)' => Tells(i, h)
        BY <3>1, <3>4
      <4>2. \A i : Tells(i, h) => i \in 1..Len(uiQueue)
        BY DEF Tells
      <4> QED BY <3>4, <4>1, <4>2 DEF StartedOnce
    <3> QED BY <3>3, <3>4
  <2> QED BY <2>1, <2>2
<1> QED BY <1>2, <1>3

\* What a step of the start thread of g leaves alone.
LEMMA StartStep ==
  ASSUME SessInv, NEW g \in Game, SurfaceChanged(g) \/ Start(g)
  PROVE  SessInv'
<1> USE DEF SessInv
<1>1. /\ UNCHANGED <<hasty, activity, connected, dialog, stopThread, asyncTerm>>
      /\ startThread[g] # "started"
      /\ \A h \in Game \ {g} : startThread'[h] = startThread[h]
      /\ startThread' \in [Game -> {"none", "launching", "acquiring", "locking",
                                   "starting", "started", "failed"}]
  BY DEF TypeOK, OneAttempt, SurfaceChanged, Start, StartApp, Acquire, EnterStart,
         ConnectionStarted, StageFailed, ui, java, library
<1>2. stopThread[g] = "none"
  BY <1>1 DEF StopOnce
<1>3. \/ uiQueue' = uiQueue
      \/ Post(g, "failed")
      \/ Post(g, "started") /\ startThread'[g] = "started"
  BY DEF TypeOK, SurfaceChanged, Start, StartApp, Acquire, EnterStart, ConnectionStarted,
         StageFailed
<1>4. \A h \in Game : \A k \in Game : Holds(h) /\ Holds(k) => h = k
  BY DEF SemaphoreCountsSessions
<1>5. SemaphoreCountsSessions' /\ permits' \in 0..1
  <2>1. \A h \in Game \ {g} : Holds(h)' <=> Holds(h)
    BY <1>1 DEF Holds
  <2>2. CASE SurfaceChanged(g) \/ StartApp(g) \/ EnterStart(g) \/ ConnectionStarted(g)
    <3>1. permits' = permits /\ (Holds(g)' <=> Holds(g))
      BY <1>1, <1>2, <2>2 DEF TypeOK, OneAttempt, Holds, SurfaceChanged, StartApp, EnterStart,
         ConnectionStarted, java
    <3>2. \A h \in Game : Holds(h)' <=> Holds(h)
      BY <2>1, <3>1
    <3> QED BY <3>1, <3>2 DEF SemaphoreCountsSessions, TypeOK
  <2>3. CASE Acquire(g)
    <3>1. permits = 1 /\ permits' = 0 /\ Holds(g)'
      BY <1>1, <1>2, <2>3 DEF TypeOK, Holds, Acquire
    <3>2. \A h \in Game \ {g} : ~Holds(h)'
      BY <2>1, <3>1 DEF SemaphoreCountsSessions
    <3> QED BY <3>1, <3>2 DEF SemaphoreCountsSessions
  <2>4. CASE StageFailed(g)
    <3>1. Holds(g) /\ ~Holds(g)' /\ permits' = permits + 1
      BY <1>2, <2>4 DEF TypeOK, Holds, StageFailed
    <3>2. permits = 0 /\ permits' = 1
      BY <3>1 DEF SemaphoreCountsSessions, TypeOK
    <3>3. \A h \in Game : ~Holds(h)'
      BY <1>4, <2>1, <3>1
    <3> QED BY <3>2, <3>3 DEF SemaphoreCountsSessions
  <2> QED BY <2>2, <2>3, <2>4 DEF Start
<1>6. TypeOK'
  <2>1. uiQueue' \in Seq(Game \X {"started", "failed", "terminated"})
    BY <1>3, PostFacts DEF TypeOK
  <2>2. /\ surface' \in [Game -> {"none", "valid", "destroyed"}]
        /\ lock' \in Game \cup {NoGame} /\ bridge' \in Game \cup {NoGame}
        /\ native' \in {"down", "starting", "up"}
    BY DEF TypeOK, SurfaceChanged, Start, StartApp, Acquire, EnterStart, ConnectionStarted,
           StageFailed, ui, java, library
  <2>3. silenced' \in BOOLEAN
    BY Zenon DEF TypeOK, SurfaceChanged, Start, StartApp, Acquire, EnterStart, ConnectionStarted,
           StageFailed, java, library
  <2> QED BY <1>1, <1>5, <2>1, <2>2, <2>3 DEF TypeOK
<1>7. StartedOnce' /\ StopOnce'
  BY <1>1, <1>3, <1>6, StartQueue
<1>8. OneAttempt'
  BY <1>1 DEF TypeOK, OneAttempt, SurfaceChanged, Start, StartApp, Acquire, EnterStart,
              ConnectionStarted, StageFailed, ui
<1>9. CallbacksReachTheirGame' /\ SessionOwnsLibrary'
  <2>1. CASE UNCHANGED <<bridge, native>> /\ startThread[g] # "starting"
             /\ startThread'[g] \notin {"starting", "started"}
    BY <1>1, <2>1 DEF CallbacksReachTheirGame, SessionOwnsLibrary, Running
  <2>2. CASE Holds(g) /\ UNCHANGED stopThread
    <3>1. \A h \in Game \ {g} : ~Holds(h)
      BY <1>4, <2>2
    <3>2. \A h \in Game \ {g} : startThread'[h] \in {"starting", "started"} =>
             startThread'[h] = "started" /\ stopThread'[h] = "done"
      BY <1>1, <1>7, <3>1 DEF Holds, StopOnce
    <3>3. CASE EnterStart(g)
      BY <3>2, <3>3 DEF TypeOK, EnterStart, CallbacksReachTheirGame, SessionOwnsLibrary, Running
    <3>4. CASE ConnectionStarted(g)
      BY <1>2, <3>2, <3>4 DEF TypeOK, ConnectionStarted, CallbacksReachTheirGame,
         SessionOwnsLibrary, Running
    <3>5. CASE StageFailed(g)
      BY <3>2, <3>5 DEF TypeOK, StageFailed, CallbacksReachTheirGame, SessionOwnsLibrary, Running
    <3>6. startThread[g] \in {"locking", "starting"}
      BY <1>1, <2>2 DEF Holds
    <3> QED BY <3>3, <3>4, <3>5, <3>6 DEF Start, SurfaceChanged, StartApp, Acquire, OneAttempt
  <2>3. \/ UNCHANGED <<bridge, native>> /\ startThread[g] # "starting"
           /\ startThread'[g] \notin {"starting", "started"}
        \/ Holds(g)
    BY <1>2 DEF TypeOK, OneAttempt, Holds, SurfaceChanged, Start, StartApp, Acquire, EnterStart,
                ConnectionStarted, StageFailed, java, library
  <2> QED BY <1>1, <2>1, <2>2, <2>3
<1> QED BY <1>5, <1>6, <1>7, <1>8, <1>9

-----------------------------------------------------------------------------
(***************************************************************************)
(* The stop thread: it exists because the connection was up, and goes      *)
(* through its stages without the activity.                                *)
(***************************************************************************)
LEMMA StopStep ==
  ASSUME SessInv, NEW g \in Game, Stop(g)
  PROVE  SessInv'
<1> USE DEF SessInv
<1>1. /\ UNCHANGED <<hasty, activity, surface, connected, dialog, uiQueue, startThread, asyncTerm>>
      /\ stopThread[g] \in {"interrupting", "locking", "stopping", "releasing"}
      /\ \A h \in Game \ {g} : stopThread'[h] = stopThread[h]
      /\ stopThread' \in [Game -> {"none", "interrupting", "locking", "stopping",
                                  "releasing", "done"}]
      /\ stopThread'[g] # "none"
  BY DEF TypeOK, Stop, InterruptConnection, EnterStop, CleanupBridge, Release, ui, java, library
<1>2. startThread[g] = "started" /\ ~connected[g] /\ Holds(g)
  BY <1>1 DEF StopOnce, Holds
<1>3. \A h \in Game \ {g} : ~Holds(h)
  BY <1>2 DEF SemaphoreCountsSessions
<1>4. \A h \in Game \ {g} : ~Holds(h)'
  BY <1>1, <1>3 DEF Holds
<1>5. SemaphoreCountsSessions' /\ permits' \in 0..1
  <2>1. permits = 0
    BY <1>2 DEF SemaphoreCountsSessions, TypeOK
  <2>2. CASE Release(g)
    <3>1. permits' = 1 /\ ~Holds(g)'
      BY <2>1, <2>2 DEF TypeOK, Release, Holds
    <3> QED BY <1>4, <3>1 DEF SemaphoreCountsSessions
  <2>3. CASE InterruptConnection(g) \/ EnterStop(g) \/ CleanupBridge(g)
    <3>1. permits' = 0 /\ Holds(g)'
      BY <1>2, <2>1, <2>3 DEF TypeOK, InterruptConnection, EnterStop, CleanupBridge, Holds, java
    <3> QED BY <1>4, <3>1 DEF SemaphoreCountsSessions
  <2> QED BY <2>2, <2>3 DEF Stop
<1>6. TypeOK'
  <2>1. silenced' \in BOOLEAN
    BY Zenon DEF TypeOK, Stop, InterruptConnection, EnterStop, CleanupBridge, Release, java, library
  <2>2. /\ lock' \in Game \cup {NoGame} /\ bridge' \in Game \cup {NoGame}
        /\ native' \in {"down", "starting", "up"}
    BY DEF TypeOK, Stop, InterruptConnection, EnterStop, CleanupBridge, Release, java, library
  <2> QED BY <1>1, <1>5, <2>1, <2>2 DEF TypeOK
<1>7. StartedOnce' /\ StopOnce' /\ OneAttempt'
  <2>1. StopOnce' /\ OneAttempt'
    BY <1>1, <1>2 DEF StopOnce, OneAttempt
  <2>2. \A i : ~Tells(i, g)
    BY <1>1 DEF StartedOnce, Tells
  <2>3. \A h \in Game : \A i \in 1..Len(uiQueue') : Tells(i, h)' =>
           i + 0 \in 1..Len(uiQueue) /\ Tells(i + 0, h) /\ h # g
    BY <1>1, <2>2 DEF Tells
  <2> QED BY <1>1, <2>1, <2>3, StartedOnceKept
<1>8. CallbacksReachTheirGame' /\ SessionOwnsLibrary'
  <2>1. \A h \in Game \ {g} : startThread'[h] \in {"starting", "started"} =>
           startThread'[h] = "started" /\ stopThread'[h] = "done"
    BY <1>1, <1>4, <1>7 DEF Holds, StopOnce
  <2>2. CASE InterruptConnection(g) \/ EnterStop(g)
    BY <1>1, <1>2, <2>2 DEF TypeOK, InterruptConnection, EnterStop, CallbacksReachTheirGame,
       SessionOwnsLibrary, Running, java
  <2>3. CASE CleanupBridge(g)
    BY <1>2, <2>1, <2>3 DEF TypeOK, CleanupBridge, CallbacksReachTheirGame, SessionOwnsLibrary,
       Running
  <2>4. CASE Release(g)
    BY <1>2, <2>1, <2>4 DEF TypeOK, Release, CallbacksReachTheirGame, SessionOwnsLibrary, Running,
       library
  <2> QED BY <2>2, <2>3, <2>4 DEF Stop
<1> QED BY <1>5, <1>6, <1>7, <1>8

-----------------------------------------------------------------------------
\* The strengthened invariant holds throughout.
THEOREM SessionInvariant == Spec => []SessInv
<1>1. SessInv /\ [Next]_vars => SessInv'
  BY QuietStep, LeaveStep, RunStartedStep, StartStep, StopStep DEF Next, User, Runnables
<1> QED BY <1>1, SessInit, PTL DEF Spec

\* Variables of the session keep their types.
THEOREM SessionTypeOK == Spec => []TypeOK
<1>1. SessInv => TypeOK
  BY DEF SessInv
<1> QED BY <1>1, SessionInvariant, PTL

\* connectionAllowed (NvConnection.java) counts sessions for any number of
\* activities: no permit is lost or released twice.
THEOREM PermitsCountSessions == Spec => []SemaphoreCountsSessions
<1>1. SessInv => SemaphoreCountsSessions
  BY DEF SessInv
<1> QED BY <1>1, SessionInvariant, PTL

\* The listener on the bridge (AntBridge.java) is that of the session the
\* library is running.
THEOREM BridgeIsOwn == Spec => []CallbacksReachTheirGame
<1>1. SessInv => CallbacksReachTheirGame
  BY DEF SessInv
<1> QED BY <1>1, SessionInvariant, PTL

\* A delayed stop thread stops its own session and no other.
THEOREM StopsOnlyOwn == Spec => StopsItsOwnSession
<1>1. SessInv /\ [Next]_vars =>
        [\A g \in Game : InterruptConnection(g) \/ EnterStop(g) =>
           /\ native = "up"
           /\ \A h \in Game \ {g} : ~Holds(h)]_vars
  <2> SUFFICES ASSUME SessInv, NEW g \in Game, InterruptConnection(g) \/ EnterStop(g)
               PROVE  native = "up" /\ \A h \in Game \ {g} : ~Holds(h)
    OBVIOUS
  <2>1. stopThread[g] \in {"interrupting", "locking"}
    BY DEF InterruptConnection, EnterStop
  <2>2. startThread[g] = "started"
    BY <2>1 DEF SessInv, StopOnce
  <2>3. Running(g) /\ Holds(g)
    BY <2>1, <2>2 DEF Running, Holds
  <2> QED BY <2>3 DEF SessInv, SessionOwnsLibrary, SemaphoreCountsSessions
<1> QED BY <1>1, SessionInvariant, PTL DEF Spec, StopsItsOwnSession

\* LiStartConnection is never entered while the library is in use.
THEOREM EntersDownLibrary == Spec => StartsWhenDown
<1>1. SessInv /\ [Next]_vars => [\A g \in Game : EnterStart(g) => native = "down"]_vars
  <2> SUFFICES ASSUME SessInv, NEW g \in Game, EnterStart(g), native # "down"
               PROVE  FALSE
    OBVIOUS
  <2>1. startThread[g] = "locking"
    BY DEF EnterStart
  <2>2. PICK h \in Game : startThread[h] = "starting" \/ Running(h)
    BY DEF SessInv, SessionOwnsLibrary
  <2>3. h # g /\ Holds(h) /\ Holds(g)
    BY <2>1, <2>2 DEF SessInv, StopOnce, Running, Holds
  <2> QED BY <2>3 DEF SessInv, SemaphoreCountsSessions
<1> QED BY <1>1, SessionInvariant, PTL DEF Spec, StartsWhenDown

-----------------------------------------------------------------------------
(***************************************************************************)
(* The native library: what StreamSession takes for granted of it is what  *)
(* module Connection shows.  These are the theorems about that module, for *)
(* any set of worker threads, owned by any of the four started stages.     *)
(*                                                                         *)
(* The inductive invariant adds two facts to the checked invariants: only  *)
(* a stage with threads is ever half started (so that completing it keeps  *)
(* the stage in range), and a stop leaves the termination flag up until    *)
(* the next start.                                                         *)
(***************************************************************************)
HalfStarted == caller \in {"spawned", "aborting"} => stage + 1 \in StartStages

Silenced == stopCalled => alreadyTerminated

ConnInv ==
  /\ ConnTypeOK
  /\ HalfStarted
  /\ WorkersWithinStage
  /\ AllOrNothing
  /\ Silenced

LEMMA StageFacts ==
  /\ Stages = 0..11 /\ LastStage = 11
  /\ StartStages \subseteq Stages
BY DEF Stages, LastStage, STAGE_NONE, STAGE_MAX, StartStages

LEMMA ConnInitHolds == ConnInit => ConnInv
<1> SUFFICES ASSUME ConnInit PROVE ConnInv
  OBVIOUS
<1>1. stage \in Stages /\ detached \subseteq Worker /\ callbacks \in Nat
  BY StageFacts DEF ConnInit, STAGE_NONE
<1>2. /\ caller \in {"idle", "starting", "spawned", "aborting", "stopping"}
      /\ worker \in [Worker -> {"off", "running", "reporting", "terminating", "ended"}]
  BY DEF ConnInit
<1>3. /\ alreadyTerminated \in BOOLEAN /\ interrupted \in BOOLEAN
      /\ failedStage \in BOOLEAN /\ stopCalled \in BOOLEAN
  BY Zenon DEF ConnInit
<1>4. HalfStarted /\ WorkersWithinStage /\ AllOrNothing /\ Silenced
  BY DEF ConnInit, HalfStarted, WorkersWithinStage, AllOrNothing, Silenced
<1> QED BY <1>1, <1>2, <1>3, <1>4 DEF ConnInv, ConnTypeOK

\* Joining a stage's threads keeps the type of the thread table.
LEMMA JoinKeepsType ==
  ASSUME ConnTypeOK, NEW k
  PROVE  AfterJoin(k) \in [Worker -> {"off", "running", "reporting", "terminating", "ended"}]
BY DEF ConnTypeOK, AfterJoin

LEMMA CallerStepKeepsInv ==
  ASSUME ConnInv, CallerStep
  PROVE  ConnInv'
<1> USE StageFacts, OwnerAssumption DEF ConnInv
<1>1. CASE LiStartConnection
  BY <1>1 DEF LiStartConnection, BeginStop, ConnTypeOK, HalfStarted, WorkersWithinStage,
     AllOrNothing, Silenced, STAGE_NONE
<1>2. CASE InitStage
  <2>1. stage' \in Stages
    BY <1>2 DEF InitStage
  <2> QED
    BY <1>2, <2>1 DEF InitStage, ConnTypeOK, HalfStarted, WorkersWithinStage, AllOrNothing,
       Silenced, flags, history, StartStages
<1>3. CASE SpawnStage
  <2>1. ConnTypeOK' /\ HalfStarted' /\ AllOrNothing' /\ Silenced'
    BY <1>3 DEF SpawnStage, ConnTypeOK, HalfStarted, AllOrNothing, Silenced, flags, history
  <2>2. WorkersWithinStage'
    BY <1>3 DEF SpawnStage, ConnTypeOK, WorkersWithinStage, Owned
  <2> QED BY <2>1, <2>2
<1>4. CASE StageComplete
  BY <1>4 DEF StageComplete, ConnTypeOK, HalfStarted, WorkersWithinStage, AllOrNothing,
     Silenced, flags, history, StartStages
<1>5. CASE AbortStage
  BY <1>5 DEF AbortStage, ConnTypeOK, HalfStarted, WorkersWithinStage, AllOrNothing,
     Silenced, flags, history
<1>6. CASE FailStage
  <2>1. ConnTypeOK'
    BY <1>6, JoinKeepsType DEF FailStage, BeginStop, ConnTypeOK
  <2>2. HalfStarted' /\ AllOrNothing' /\ Silenced'
    BY <1>6 DEF FailStage, BeginStop, HalfStarted, AllOrNothing, Silenced
  <2>3. WorkersWithinStage'
    BY <1>6 DEF FailStage, BeginStop, ConnTypeOK, WorkersWithinStage, AfterJoin, Owned, StartStages
  <2> QED BY <2>1, <2>2, <2>3
<1>7. CASE StartReturns
  BY <1>7 DEF StartReturns, ConnTypeOK, HalfStarted, WorkersWithinStage, AllOrNothing,
     Silenced, flags, history
<1>8. CASE LiStopConnection
  BY <1>8 DEF LiStopConnection, BeginStop, ConnTypeOK, HalfStarted, WorkersWithinStage,
     AllOrNothing, Silenced
<1>9. CASE StopStage
  <2>1. ConnTypeOK'
    BY <1>9, JoinKeepsType DEF StopStage, ConnTypeOK, flags, history, STAGE_NONE
  <2>2. HalfStarted' /\ AllOrNothing' /\ Silenced'
    BY <1>9 DEF StopStage, HalfStarted, AllOrNothing, Silenced, flags, history
  <2>3. WorkersWithinStage'
    BY <1>9 DEF StopStage, ConnTypeOK, WorkersWithinStage, AfterJoin, Owned, StartStages
  <2> QED BY <2>1, <2>2, <2>3
<1>10. CASE StopReturns
  BY <1>10 DEF StopReturns, ConnTypeOK, HalfStarted, WorkersWithinStage, AllOrNothing,
     Silenced, flags, history
<1> QED
  BY <1>1, <1>2, <1>3, <1>4, <1>5, <1>6, <1>7, <1>8, <1>9, <1>10 DEF CallerStep

LEMMA WorkerStepKeepsInv ==
  ASSUME ConnInv, NEW w \in Worker, WorkerStep(w)
  PROVE  ConnInv'
<1> USE StageFacts, OwnerAssumption DEF ConnInv
<1>1. stage' = stage /\ caller' = caller /\ stopCalled' = stopCalled
  BY DEF WorkerStep, WorkerStops, WorkerFails, CheckTerminated, Terminate,
     TerminationCallback, flags, history
<1>2. ConnTypeOK'
  <2>1. stage' \in Stages /\ callbacks' \in Nat /\ detached' \subseteq Worker
    BY DEF ConnTypeOK, WorkerStep, WorkerStops, WorkerFails, CheckTerminated, Terminate,
       TerminationCallback, flags, history
  <2>2. /\ caller' \in {"idle", "starting", "spawned", "aborting", "stopping"}
        /\ worker' \in [Worker -> {"off", "running", "reporting", "terminating", "ended"}]
    BY <1>1 DEF ConnTypeOK, WorkerStep, WorkerStops, WorkerFails, CheckTerminated, Terminate,
       TerminationCallback
  <2>3. /\ alreadyTerminated' \in BOOLEAN /\ interrupted' \in BOOLEAN
        /\ failedStage' \in BOOLEAN /\ stopCalled' \in BOOLEAN
    BY Zenon DEF ConnTypeOK, WorkerStep, WorkerStops, WorkerFails, CheckTerminated, Terminate,
       TerminationCallback, flags, history
  <2> QED BY <2>1, <2>2, <2>3 DEF ConnTypeOK
<1>3. \A v \in Worker : worker'[v] # "off" => worker[v] # "off"
  BY DEF ConnTypeOK, WorkerStep, WorkerStops, WorkerFails, CheckTerminated, Terminate,
     TerminationCallback
<1>4. WorkersWithinStage'
  BY <1>1, <1>3 DEF WorkersWithinStage
<1>5. HalfStarted' /\ AllOrNothing'
  BY <1>1 DEF HalfStarted, AllOrNothing
<1>6. Silenced'
  BY <1>1 DEF Silenced, WorkerStep, WorkerStops, WorkerFails, CheckTerminated, Terminate,
     TerminationCallback, flags
<1> QED BY <1>2, <1>4, <1>5, <1>6

\* The strengthened invariant holds throughout: types, joined threads, all or
\* nothing, and the flag a stop leaves behind.
THEOREM ConnectionInvariant == ConnSpec => []ConnInv
<1>1. ConnInv /\ [ConnNext]_connVars => ConnInv'
  <2> SUFFICES ASSUME ConnInv, [ConnNext]_connVars PROVE ConnInv'
    OBVIOUS
  <2>1. CASE CallerStep
    BY <2>1, CallerStepKeepsInv
  <2>2. CASE LiInterruptConnection
    BY <2>2 DEF ConnInv, LiInterruptConnection, ConnTypeOK, HalfStarted, WorkersWithinStage,
       AllOrNothing, Silenced, history
  <2>3. ASSUME NEW w \in Worker, WorkerStep(w) PROVE ConnInv'
    BY <2>3, WorkerStepKeepsInv
  <2>4. CASE UNCHANGED connVars
    BY <2>4 DEF ConnInv, ConnTypeOK, HalfStarted, WorkersWithinStage, AllOrNothing, Silenced,
       connVars, flags, history
  <2> QED BY <2>1, <2>2, <2>3, <2>4 DEF ConnNext
<1> QED BY <1>1, ConnInitHolds, PTL DEF ConnSpec

\* No thread outlives its stage, for any number of worker threads: stop and
\* start functions never free what a running thread still uses (Connection.c,
\* LiStopConnection and the cleanup of LiStartConnection).
THEOREM ThreadsJoined == ConnSpec => []WorkersWithinStage
<1>1. ConnInv => WorkersWithinStage
  BY DEF ConnInv
<1> QED BY <1>1, ConnectionInvariant, PTL

\* Between calls the connection is fully up or fully down (the assertion at
\* the end of LiStopConnection), whichever stage failed.
THEOREM FullyUpOrDown == ConnSpec => []AllOrNothing
<1>1. ConnInv => AllOrNothing
  BY DEF ConnInv
<1> QED BY <1>1, ConnectionInvariant, PTL

\* After LiStopConnection is entered no report passes the flag test.
THEOREM NoReportAfterStop == ConnSpec => StopSilencesWorkers
<1>1. ConnInv /\ [ConnNext]_connVars =>
        [\A w \in Worker :
           worker[w] # "terminating" /\ worker'[w] = "terminating" => ~stopCalled]_connVars
  <2> SUFFICES ASSUME ConnInv, ConnNext, NEW w \in Worker,
                      worker[w] # "terminating", worker'[w] = "terminating"
               PROVE  ~stopCalled
    OBVIOUS
  <2>1. CASE CallerStep
    BY <2>1 DEF ConnInv, ConnTypeOK, CallerStep, LiStartConnection, InitStage, SpawnStage,
       StageComplete, AbortStage, FailStage, StartReturns, LiStopConnection,
       StopStage, StopReturns, AfterJoin
  <2>2. CASE LiInterruptConnection
    BY <2>2 DEF LiInterruptConnection
  <2>3. ASSUME NEW v \in Worker, WorkerStep(v) PROVE ~stopCalled
    BY <2>3 DEF ConnInv, ConnTypeOK, Silenced, WorkerStep, WorkerStops, WorkerFails,
       CheckTerminated, Terminate, TerminationCallback
  <2> QED BY <2>1, <2>2, <2>3 DEF ConnNext
<1> QED BY <1>1, ConnectionInvariant, PTL DEF ConnSpec, StopSilencesWorkers
=============================================================================
