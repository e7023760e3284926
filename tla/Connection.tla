---------------------------- MODULE Connection -----------------------------
(***************************************************************************)
(* Connection.c: bringing a streaming connection up stage by stage, taking *)
(* it down in reverse, and telling the client when it dies on its own.     *)
(*                                                                         *)
(* Three kinds of threads act: the caller of LiStartConnection and         *)
(* LiStopConnection (the two are never run in parallel, Limelight.h: "This *)
(* function is not thread-safe"; module StreamSession checks that the      *)
(* Java side keeps to it), the worker threads the four started streams     *)
(* own, any of which may hit a fatal error and report it, and the detached *)
(* AsyncTerm threads that run the client's termination callback.           *)
(*                                                                         *)
(* The names of the specification itself begin with Conn, so that a module *)
(* can extend this one beside StreamSession, the session that drives it.   *)
(***************************************************************************)
EXTENDS Integers, FiniteSets

CONSTANTS
  Worker,       \* threads that may call connectionTerminated()
  OwnerStage    \* the stage whose start function creates each of them

STAGE_NONE == 0
STAGE_MAX == 12
LastStage == STAGE_MAX - 1
Stages == STAGE_NONE..LastStage

\* initializeVideoStream() and initializeInputStream() return nothing.
CannotFail == {6, 7}
\* Control, video, audio and input stream establishment.
StartStages == {8, 9, 10, 11}

ASSUME OwnerAssumption == OwnerStage \in [Worker -> StartStages]

VARIABLES
  stage,               \* static int stage
  alreadyTerminated,   \* static bool alreadyTerminated
  interrupted,         \* ConnectionInterrupted
  caller,              \* what the starting or stopping thread is doing
  worker,              \* each worker thread's life
  detached,            \* AsyncTerm threads that have not called the client yet
  \* history of the current connection, read by no guard
  callbacks,           \* number of connectionTerminated() calls to the client
  failedStage,         \* whether stageFailed() was called
  stopCalled           \* whether LiStopConnection() has been entered

flags    == <<alreadyTerminated, interrupted>>
history  == <<callbacks, failedStage, stopCalled>>
connVars == <<stage, flags, caller, worker, detached, history>>

Owned(k) == {w \in Worker : OwnerStage[w] = k}

\* Mutated: the flags are not raised first.
MutBeginStop ==
  /\ interrupted' = interrupted /\ alreadyTerminated' = alreadyTerminated
  /\ caller' = "stopping"
  /\ stopCalled' = TRUE

\* What LiStopConnection does before it unwinds anything.
BeginStop ==
  /\ alreadyTerminated' = TRUE
  /\ interrupted' = TRUE
  /\ caller' = "stopping"
  /\ stopCalled' = TRUE

(***************************************************************************)
(* LiStartConnection.                                                      *)
(***************************************************************************)
\* Mutated: alreadyTerminated is not reset.
MutLiStartConnection ==
  /\ caller = "idle" /\ stage = STAGE_NONE
  /\ callbacks' = 0 /\ failedStage' = FALSE
  /\ \/ BeginStop
     \/ /\ interrupted' = FALSE
        /\ caller' = "starting"
        /\ stopCalled' = FALSE
        /\ UNCHANGED alreadyTerminated
  /\ UNCHANGED <<stage, worker, detached>>

\* A new connection: parameters are checked before and after the flags are
\* reset, and either failure goes through LiStopConnection with no stage up.
LiStartConnection ==
  /\ caller = "idle" /\ stage = STAGE_NONE
  /\ callbacks' = 0 /\ failedStage' = FALSE
  /\ \/ BeginStop
     \/ /\ alreadyTerminated' = FALSE
        /\ interrupted' = FALSE
        /\ caller' = "starting"
        /\ stopCalled' = FALSE
  /\ UNCHANGED <<stage, worker, detached>>

\* A stage without threads of its own comes up.
InitStage ==
  /\ caller = "starting" /\ stage + 1 \in Stages \ StartStages
  /\ stage' = stage + 1
  /\ UNCHANGED <<flags, caller, worker, detached, history>>

\* A start function creates its threads, which run from then on ...
SpawnStage ==
  /\ caller = "starting" /\ stage + 1 \in StartStages
  /\ caller' = "spawned"
  /\ worker' = [w \in Worker |-> IF w \in Owned(stage + 1) THEN "running" ELSE worker[w]]
  /\ UNCHANGED <<stage, flags, detached, history>>

\* ... and then either succeeds, or interrupts and joins them again.
StageComplete ==
  /\ caller = "spawned"
  /\ stage' = stage + 1
  /\ caller' = "starting"
  /\ UNCHANGED <<flags, worker, detached, history>>

AbortStage ==
  /\ caller = "spawned"
  /\ caller' = "aborting"
  /\ UNCHANGED <<stage, flags, worker, detached, history>>

Joined(k) == \A w \in Owned(k) : worker[w] \in {"off", "ended"}
AfterJoin(k) == [w \in Worker |-> IF w \in Owned(k) THEN "off" ELSE worker[w]]

\* Mutated: the cleanup path does not call LiStopConnection.
MutFailStage ==
  /\ \/ caller = "starting" /\ stage + 1 \in Stages \ CannotFail
     \/ caller = "aborting" /\ Joined(stage + 1)
  /\ worker' = AfterJoin(stage + 1)
  /\ failedStage' = TRUE
  /\ caller' = "idle"
  /\ UNCHANGED <<stage, flags, detached, callbacks, stopCalled>>

\* stageFailed() and the cleanup path.
FailStage ==
  /\ \/ caller = "starting" /\ stage + 1 \in Stages \ CannotFail
     \/ caller = "aborting" /\ Joined(stage + 1)
  /\ worker' = AfterJoin(stage + 1)
  /\ failedStage' = TRUE
  /\ BeginStop
  /\ UNCHANGED <<stage, detached, callbacks>>

StartReturns ==
  /\ caller = "starting" /\ stage = LastStage
  /\ caller' = "idle"
  /\ UNCHANGED <<stage, flags, worker, detached, history>>

LiInterruptConnection ==
  /\ ~interrupted
  /\ interrupted' = TRUE
  /\ UNCHANGED <<stage, alreadyTerminated, caller, worker, detached, history>>

(***************************************************************************)
(* LiStopConnection: undo the current stage and those before it, each stop *)
(* function joining the threads of its stage.                              *)
(***************************************************************************)
LiStopConnection ==
  /\ caller = "idle"
  /\ BeginStop
  /\ UNCHANGED <<stage, worker, detached, callbacks, failedStage>>

\* Mutated: the stage is torn down without joining its threads.
MutStopStage ==
  /\ caller = "stopping" /\ stage # STAGE_NONE
  /\ stage' = stage - 1
  /\ UNCHANGED <<flags, caller, worker, detached, history>>

StopStage ==
  /\ caller = "stopping" /\ stage # STAGE_NONE
  /\ Joined(stage)
  /\ worker' = AfterJoin(stage)
  /\ stage' = stage - 1
  /\ UNCHANGED <<flags, caller, detached, history>>

StopReturns ==
  /\ caller = "stopping" /\ stage = STAGE_NONE
  /\ caller' = "idle"
  /\ UNCHANGED <<stage, flags, worker, detached, history>>

(***************************************************************************)
(* Worker threads and ClInternalConnectionTerminated.                      *)
(***************************************************************************)
\* Told to stop (interrupted thread, closed socket, drained queue).
Interrupted(w) ==
  \/ caller = "stopping" /\ OwnerStage[w] = stage
  \/ caller = "aborting" /\ OwnerStage[w] = stage + 1

WorkerStops(w) ==
  /\ worker[w] = "running" /\ Interrupted(w)
  /\ worker' = [worker EXCEPT ![w] = "ended"]
  /\ UNCHANGED <<stage, flags, caller, detached, history>>

\* A fatal error: the thread calls the hooked connectionTerminated().
WorkerFails(w) ==
  /\ worker[w] = "running"
  /\ worker' = [worker EXCEPT ![w] = "reporting"]
  /\ UNCHANGED <<stage, flags, caller, detached, history>>

\* The unlocked test of the two flags.
CheckTerminated(w) ==
  /\ worker[w] = "reporting"
  /\ worker' = [worker EXCEPT ![w] =
                  IF alreadyTerminated \/ interrupted THEN "ended" ELSE "terminating"]
  /\ UNCHANGED <<stage, flags, caller, detached, history>>

\* Mutated: the callback is run by the reporting thread itself, so that a client
\* stopping the connection from its callback joins the thread it runs on.
MutTerminate(w) ==
  /\ worker[w] = "terminating" /\ caller = "idle"
  /\ alreadyTerminated' = TRUE
  /\ caller' = "stopping"
  /\ UNCHANGED <<stage, interrupted, worker, detached, history>>

\* Mark the connection terminated and hand the callback to a detached thread.
\* Bound: one AsyncTerm thread per worker that has not yet run.
Terminate(w) ==
  /\ worker[w] = "terminating" /\ w \notin detached
  /\ alreadyTerminated' = TRUE
  /\ detached' = detached \cup {w}
  /\ worker' = [worker EXCEPT ![w] = "ended"]
  /\ UNCHANGED <<stage, interrupted, caller, history>>

\* terminationCallbackThreadFunc: the client is told.
TerminationCallback(w) ==
  /\ w \in detached
  /\ detached' = detached \ {w}
  /\ callbacks' = callbacks + 1
  /\ UNCHANGED <<stage, flags, caller, worker, failedStage, stopCalled>>

ConnInit ==
  /\ stage = STAGE_NONE
  /\ alreadyTerminated = FALSE /\ interrupted = FALSE
  /\ caller = "idle"
  /\ worker = [w \in Worker |-> "off"]
  /\ detached = {}
  /\ callbacks = 0 /\ failedStage = FALSE /\ stopCalled = FALSE

CallerStep ==
  \/ LiStartConnection \/ InitStage \/ SpawnStage \/ StageComplete \/ AbortStage
  \/ FailStage \/ StartReturns
  \/ LiStopConnection \/ StopStage \/ StopReturns

WorkerStep(w) ==
  \/ WorkerStops(w) \/ WorkerFails(w) \/ CheckTerminated(w) \/ Terminate(w)
  \/ TerminationCallback(w)

ConnNext == CallerStep \/ LiInterruptConnection \/ \E w \in Worker : WorkerStep(w)

ConnSpec == ConnInit /\ [][ConnNext]_connVars

\* Every thread that can take a step of the library's own code takes it; the
\* client need not start, stop or interrupt, and errors need not happen.
ConnFairness ==
  /\ WF_connVars(InitStage \/ SpawnStage \/ StageComplete \/ AbortStage
                   \/ FailStage \/ StartReturns)
  /\ WF_connVars(StopStage \/ StopReturns)
  /\ \A w \in Worker : /\ WF_connVars(WorkerStops(w))
                       /\ WF_connVars(CheckTerminated(w))
                       /\ WF_connVars(Terminate(w))
                       /\ WF_connVars(TerminationCallback(w))

FairConnSpec == ConnSpec /\ ConnFairness

-----------------------------------------------------------------------------
ConnTypeOK ==
  /\ stage \in Stages
  /\ alreadyTerminated \in BOOLEAN /\ interrupted \in BOOLEAN
  /\ caller \in {"idle", "starting", "spawned", "aborting", "stopping"}
  /\ worker \in [Worker -> {"off", "running", "reporting", "terminating", "ended"}]
  /\ detached \subseteq Worker
  /\ callbacks \in Nat
  /\ failedStage \in BOOLEAN /\ stopCalled \in BOOLEAN

\* No worker thread outlives the stage that owns it: whenever a stage is not
\* up (nor being brought up) all its threads have been joined, so that the
\* destroy functions never free a socket, queue or context still in use, and
\* a stopped or failed connection leaves no thread behind.
WorkersWithinStage ==
  \A w \in Worker : worker[w] # "off" =>
    \/ OwnerStage[w] <= stage
    \/ OwnerStage[w] = stage + 1 /\ caller \in {"spawned", "aborting"}

\* Between calls the connection is either fully up or fully down: the
\* assertion stage == STAGE_NONE at the end of LiStopConnection, and no stage
\* is skipped or leaked however the start fails.
AllOrNothing == caller = "idle" => stage \in {STAGE_NONE, LastStage}

\* From the moment LiStopConnection is entered until the next start, no
\* further report can pass the flag test: only the reports that had already
\* passed it may still reach the client.
StopSilencesWorkers ==
  [][\A w \in Worker :
       worker[w] # "terminating" /\ worker'[w] = "terminating" => ~stopCalled]_connVars

\* LiStartConnection and LiStopConnection return from every state, although
\* they join threads that may at that moment be reporting their own failure.
CallsReturn == (caller # "idle") ~> (caller = "idle")

\* A fatal error is reported to the client unless the connection is stopped or
\* interrupted meanwhile, whatever earlier connections left in the flags: the
\* client does not keep a dead stream on screen.
FatalErrorReported ==
  \A w \in Worker :
    (worker[w] = "reporting") ~> (callbacks > 0 \/ stopCalled \/ interrupted)

\* Connection.c "Avoid recursion and issuing multiple callbacks".
SingleTerminationCallback == callbacks <= 1

\* Connection.c: the hook exists "so we can avoid issuing a termination
\* callback after LiStopConnection() is called".
NoCallbackAfterStop == [][stopCalled => callbacks' <= callbacks]_connVars

\* Limelight.h on stageFailed: "ConnListenerConnectionTerminated() will not be
\* invoked because the connection was not yet fully established."
FailedStartNotTerminated == ~(failedStage /\ callbacks > 0)

=============================================================================
