--------------------------- MODULE StreamSession ----------------------------
(***************************************************************************)
(* One streaming session at a time: the Game activities, the start and     *)
(* stop threads of NvConnection, the semaphore and the class lock that     *)
(* keep two of them out of the native library, and the bridge through      *)
(* which the library calls back.                                           *)
(*                                                                         *)
(* The native library is what module Connection shows of it: LiStart either*)
(* establishes a connection or fails and leaves nothing, LiStop always     *)
(* returns, and a fatal error of a live connection is reported once from a *)
(* detached thread that nothing waits for.                                 *)
(***************************************************************************)
EXTENDS Integers, Sequences

CONSTANTS
  Game,        \* the Game activities a run of the app creates
  NoGame

ASSUME GameAssumption == NoGame \notin Game

VARIABLES
  hasty,        \* the activities whose users may leave while a connection is
                \* starting: none or all, and which does not change
  \* the activity, touched by the UI thread only
  activity,     \* "none", "shown" or "left" (after onStop)
  surface,      \* "none", "valid" or "destroyed"
  connected,
  dialog,       \* displayedFailureDialog
  uiQueue,      \* runnables posted to the UI thread
  \* NvConnection and AntBridge
  startThread,  \* the thread NvConnection.start() creates
  stopThread,   \* the thread Game.stopConnection() creates
  permits,      \* connectionAllowed
  lock,         \* who is inside synchronized (AntBridge.class)
  bridge,       \* AntBridge.connectionListener
  \* the native library
  native,       \* "down", "starting", "up"
  silenced,     \* alreadyTerminated or ConnectionInterrupted
  asyncTerm     \* AsyncTerm threads that have not called back yet

ui        == <<hasty, activity, surface, connected, dialog>>
java      == <<permits, lock, bridge>>
library   == <<native, silenced, asyncTerm>>
threads   == <<startThread, stopThread>>
vars      == <<ui, uiQueue, threads, java, library>>

Post(g, what) == uiQueue' = Append(uiQueue, <<g, what>>)

(***************************************************************************)
(* The activity's life, as the system drives it.                           *)
(***************************************************************************)
\* launchMode singleTask: no second Game while one is on screen.
Launch(g) ==
  /\ activity[g] = "none"
  /\ \A h \in Game : activity[h] # "shown"
  /\ activity' = [activity EXCEPT ![g] = "shown"]
  /\ UNCHANGED <<hasty, surface, connected, dialog, uiQueue, threads, java, library>>

\* The first surfaceChanged attempts the connection; later ones do nothing.
SurfaceChanged(g) ==
  /\ activity[g] = "shown" /\ surface[g] = "none"
  /\ surface' = [surface EXCEPT ![g] = "valid"]
  /\ startThread' = [startThread EXCEPT ![g] = "launching"]
  /\ UNCHANGED <<hasty, activity, connected, dialog, uiQueue, stopThread, java, library>>

\* Mutated: stopping twice is not prevented.
MutStopConnection(g) ==
  /\ UNCHANGED connected
  /\ stopThread' = [stopThread EXCEPT ![g] = IF connected[g] THEN "interrupting" ELSE @]

\* Game.stopConnection: nothing unless connected. (The flag "connecting" it
\* also tests is never set.)
StopConnection(g) ==
  /\ connected' = [connected EXCEPT ![g] = FALSE]
  /\ stopThread' = [stopThread EXCEPT ![g] = IF connected[g] THEN "interrupting" ELSE @]

SurfaceDestroyed(g) ==
  /\ surface[g] = "valid"
  /\ surface' = [surface EXCEPT ![g] = "destroyed"]
  /\ StopConnection(g)
  /\ UNCHANGED <<hasty, activity, dialog, uiQueue, startThread, java, library>>

\* The attempt is over and the activity knows how it ended.
Settled(g) ==
  /\ startThread[g] \in {"none", "started", "failed"}
  /\ \A i \in 1..Len(uiQueue) : uiQueue[i][1] # g

OnStop(g) ==
  /\ activity[g] = "shown"
  /\ g \in hasty \/ Settled(g)
  /\ activity' = [activity EXCEPT ![g] = "left"]
  /\ dialog' = [dialog EXCEPT ![g] = TRUE]
  /\ StopConnection(g)
  /\ UNCHANGED <<hasty, surface, uiQueue, startThread, java, library>>

(***************************************************************************)
(* Runnables the callbacks post to the UI thread.                          *)
(***************************************************************************)
RunConnectionStarted(g) ==
  /\ uiQueue # <<>> /\ Head(uiQueue) = <<g, "started">>
  /\ uiQueue' = Tail(uiQueue)
  /\ connected' = [connected EXCEPT ![g] = TRUE]
  /\ UNCHANGED <<hasty, activity, surface, dialog, threads, java, library>>

RunStageFailed(g) ==
  /\ uiQueue # <<>> /\ Head(uiQueue) = <<g, "failed">>
  /\ uiQueue' = Tail(uiQueue)
  /\ dialog' = [dialog EXCEPT ![g] = TRUE]
  /\ UNCHANGED <<hasty, activity, surface, connected, threads, java, library>>

RunConnectionTerminated(g) ==
  /\ uiQueue # <<>> /\ Head(uiQueue) = <<g, "terminated">>
  /\ uiQueue' = Tail(uiQueue)
  /\ dialog' = [dialog EXCEPT ![g] = TRUE]
  /\ IF dialog[g]
     THEN UNCHANGED <<connected, stopThread>>
     ELSE StopConnection(g)
  /\ UNCHANGED <<hasty, activity, surface, startThread, java, library>>

(***************************************************************************)
(* NvConnection.start().                                                   *)
(***************************************************************************)
\* startApp() over HTTP: failure is reported and no permit is taken.
StartApp(g) ==
  /\ startThread[g] = "launching"
  /\ \/ /\ startThread' = [startThread EXCEPT ![g] = "acquiring"]
        /\ UNCHANGED uiQueue
     \/ /\ startThread' = [startThread EXCEPT ![g] = "failed"]
        /\ Post(g, "failed")
  /\ UNCHANGED <<ui, stopThread, java, library>>

\* Mutated: the thread does not wait for the semaphore.
MutAcquire(g) ==
  /\ startThread[g] = "acquiring"
  /\ permits' = permits - 1
  /\ startThread' = [startThread EXCEPT ![g] = "locking"]
  /\ UNCHANGED <<ui, uiQueue, stopThread, lock, bridge, library>>

Acquire(g) ==
  /\ startThread[g] = "acquiring" /\ permits > 0
  /\ permits' = permits - 1
  /\ startThread' = [startThread EXCEPT ![g] = "locking"]
  /\ UNCHANGED <<ui, uiQueue, stopThread, lock, bridge, library>>

\* Under the class lock: the bridge is set up and LiStartConnection entered.
EnterStart(g) ==
  /\ startThread[g] = "locking" /\ lock = NoGame
  /\ lock' = g
  /\ bridge' = g
  /\ native' = "starting" /\ silenced' = FALSE
  /\ startThread' = [startThread EXCEPT ![g] = "starting"]
  /\ UNCHANGED <<ui, uiQueue, stopThread, permits, asyncTerm>>

ConnectionStarted(g) ==
  /\ startThread[g] = "starting"
  /\ native' = "up"
  /\ Post(g, "started")
  /\ startThread' = [startThread EXCEPT ![g] = "started"]
  /\ lock' = NoGame
  /\ UNCHANGED <<ui, stopThread, permits, bridge, silenced, asyncTerm>>

\* Mutated: the failed start keeps its permit.
MutStageFailed(g) ==
  /\ startThread[g] = "starting"
  /\ native' = "down" /\ silenced' = TRUE
  /\ Post(g, "failed")
  /\ startThread' = [startThread EXCEPT ![g] = "failed"]
  /\ lock' = NoGame
  /\ UNCHANGED <<ui, stopThread, permits, bridge, asyncTerm>>

\* stageFailed(), the library's own LiStopConnection, and the release of the
\* permit on the caller's behalf.
StageFailed(g) ==
  /\ startThread[g] = "starting"
  /\ native' = "down" /\ silenced' = TRUE
  /\ Post(g, "failed")
  /\ startThread' = [startThread EXCEPT ![g] = "failed"]
  /\ permits' = permits + 1
  /\ lock' = NoGame
  /\ UNCHANGED <<ui, stopThread, bridge, asyncTerm>>

(***************************************************************************)
(* NvConnection.stop().                                                    *)
(***************************************************************************)
\* Mutated: the permit is given back before the library is down.
MutInterruptConnection(g) ==
  /\ stopThread[g] = "interrupting"
  /\ silenced' = TRUE /\ permits' = permits + 1
  /\ stopThread' = [stopThread EXCEPT ![g] = "locking"]
  /\ UNCHANGED <<ui, uiQueue, startThread, lock, bridge, native, asyncTerm>>

InterruptConnection(g) ==
  /\ stopThread[g] = "interrupting"
  /\ silenced' = TRUE
  /\ stopThread' = [stopThread EXCEPT ![g] = "locking"]
  /\ UNCHANGED <<ui, uiQueue, startThread, java, native, asyncTerm>>

EnterStop(g) ==
  /\ stopThread[g] = "locking" /\ lock = NoGame
  /\ lock' = g
  /\ silenced' = TRUE
  /\ stopThread' = [stopThread EXCEPT ![g] = "stopping"]
  /\ UNCHANGED <<ui, uiQueue, startThread, permits, bridge, native, asyncTerm>>

\* LiStopConnection returned; the bridge is cleared.
CleanupBridge(g) ==
  /\ stopThread[g] = "stopping"
  /\ native' = "down" /\ bridge' = NoGame
  /\ lock' = NoGame
  /\ stopThread' = [stopThread EXCEPT ![g] = "releasing"]
  /\ UNCHANGED <<ui, uiQueue, startThread, permits, silenced, asyncTerm>>

Release(g) ==
  /\ stopThread[g] = "releasing"
  /\ permits' = permits + 1
  /\ stopThread' = [stopThread EXCEPT ![g] = "done"]
  /\ UNCHANGED <<ui, uiQueue, startThread, lock, bridge, library>>

(***************************************************************************)
(* The native library's own threads.                                       *)
(***************************************************************************)
\* A fatal error, while the connection is up or its last stages are starting.
FatalError ==
  /\ native \in {"starting", "up"} /\ ~silenced
  /\ silenced' = TRUE
  /\ asyncTerm' = asyncTerm + 1
  /\ UNCHANGED <<ui, uiQueue, threads, java, native>>

\* bridgeClConnectionTerminated: whoever is on the bridge now is told.
ConnectionTerminated ==
  /\ asyncTerm > 0
  /\ asyncTerm' = asyncTerm - 1
  /\ IF bridge # NoGame THEN Post(bridge, "terminated") ELSE UNCHANGED uiQueue
  /\ UNCHANGED <<ui, threads, java, native, silenced>>

-----------------------------------------------------------------------------
Init ==
  /\ hasty \in {{}, Game}
  /\ activity = [g \in Game |-> "none"]
  /\ surface = [g \in Game |-> "none"]
  /\ connected = [g \in Game |-> FALSE]
  /\ dialog = [g \in Game |-> FALSE]
  /\ uiQueue = <<>>
  /\ startThread = [g \in Game |-> "none"]
  /\ stopThread = [g \in Game |-> "none"]
  /\ permits = 1 /\ lock = NoGame /\ bridge = NoGame
  /\ native = "down" /\ silenced = FALSE /\ asyncTerm = 0

User(g) == Launch(g) \/ SurfaceChanged(g) \/ OnStop(g)
Runnables(g) == RunConnectionStarted(g) \/ RunStageFailed(g) \/ RunConnectionTerminated(g)
Start(g) == StartApp(g) \/ Acquire(g) \/ EnterStart(g) \/ ConnectionStarted(g) \/ StageFailed(g)
Stop(g) == InterruptConnection(g) \/ EnterStop(g) \/ CleanupBridge(g) \/ Release(g)

Next ==
  \/ \E g \in Game : \/ User(g) \/ SurfaceDestroyed(g) \/ Runnables(g)
                     \/ Start(g) \/ Stop(g)
  \/ FatalError \/ ConnectionTerminated

Spec == Init /\ [][Next]_vars

\* Threads and the UI looper run. Users may stay for ever and errors need not
\* happen, but the system destroys the surface of an activity that was left.
\* Weak fairness is enough for the permit and the lock: each thread passes them
\* once, so that no waiter can be overtaken for ever.
Fairness ==
  /\ \A g \in Game :
       /\ WF_vars(Runnables(g))
       /\ WF_vars(activity[g] = "left" /\ SurfaceDestroyed(g))
       /\ WF_vars(Start(g))
       /\ WF_vars(Stop(g))
  /\ WF_vars(ConnectionTerminated)

FairSpec == Spec /\ Fairness

-----------------------------------------------------------------------------
TypeOK ==
  /\ hasty \in {{}, Game}
  /\ activity \in [Game -> {"none", "shown", "left"}]
  /\ surface \in [Game -> {"none", "valid", "destroyed"}]
  /\ connected \in [Game -> BOOLEAN] /\ dialog \in [Game -> BOOLEAN]
  /\ uiQueue \in Seq(Game \X {"started", "failed", "terminated"})
  /\ startThread \in [Game -> {"none", "launching", "acquiring", "locking",
                               "starting", "started", "failed"}]
  /\ stopThread \in [Game -> {"none", "interrupting", "locking", "stopping",
                              "releasing", "done"}]
  /\ permits \in 0..1
  /\ lock \in Game \cup {NoGame} /\ bridge \in Game \cup {NoGame}
  /\ native \in {"down", "starting", "up"}
  /\ silenced \in BOOLEAN /\ asyncTerm \in Nat

\* From acquire() to the release() that ends the session.
Holds(g) == startThread[g] \in {"locking", "starting", "started"} /\ stopThread[g] # "done"

\* The semaphore always says how many sessions there are, whichever way they
\* ended: nothing is released twice (Game.stopConnection is called from the
\* UI events, the failed start releases by itself) and nothing is lost.
SemaphoreCountsSessions ==
  /\ permits = 1 <=> \A g \in Game : ~Holds(g)
  /\ permits = 0 <=> \E g \in Game : Holds(g)
  /\ \A g, h \in Game : Holds(g) /\ Holds(h) => g = h

\* While the library is starting, running or being stopped for a Game, the
\* listener on the bridge is that Game's: what its threads report never
\* reaches an activity of another session (nor a cleared bridge).
CallbacksReachTheirGame ==
  \A g \in Game :
    (startThread[g] \in {"starting", "started"} /\ stopThread[g] \notin {"releasing", "done"})
      => bridge = g

\* A stop thread interrupts and stops the session it was created for, however
\* long it was delayed, and never a newer one.
StopsItsOwnSession ==
  [][\A g \in Game : InterruptConnection(g) \/ EnterStop(g) =>
       /\ native = "up"
       /\ \A h \in Game \ {g} : ~Holds(h)]_vars

\* LiStartConnection is entered only when the library is down, as its
\* "not thread-safe" contract requires.
StartsWhenDown ==
  [][\A g \in Game : EnterStart(g) => native = "down"]_vars

\* As long as nobody leaves while a connection is starting, whoever waits for
\* the permit gets to start: the session before always ends, since its activity
\* was left.
PendingConnectionProceeds ==
  hasty = {} =>
    \A g \in Game : (startThread[g] = "acquiring") ~> (startThread[g] \in {"started", "failed"})

\* NvConnection.java, on stop(): "Now a pending connection can be processed".
\* A session whose activity was left does not keep the permit.
LeftSessionReleases ==
  \A g \in Game : (activity[g] = "left" /\ Holds(g)) ~> ~Holds(g)

=============================================================================
