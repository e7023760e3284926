--------------------------- MODULE CodecRecovery ---------------------------
(***************************************************************************)
(* MediaCodecDecoderRenderer.java: three threads share one MediaCodec.     *)
(* The input thread (the native decoder thread) feeds it, the renderer     *)
(* takes decoded frames out, and with balanced frame pacing a Choreographer*)
(* thread shows them.  When the codec throws, or must be configured anew   *)
(* for HDR, every thread stops at doCodecRecoveryIfRequired, and the last  *)
(* to arrive restarts, resets or recreates the codec.  Meanwhile the       *)
(* stream may be stopped.  The codec itself is external: it may throw      *)
(* whenever it is used.                                                    *)
(***************************************************************************)
EXTENDS Naturals, FiniteSets

CONSTANTS
  MaxTries,    \* CR_MAX_TRIES
  OutLimit,    \* OUTPUT_BUFFER_QUEUE_LIMIT
  EventBound   \* exceptions of the codec and changes of HDR mode in a stream

ASSUME CodecAssumption == MaxTries \in Nat /\ OutLimit \in Nat \ {0} /\ EventBound \in Nat

\* The threads that have a flag; CR_FLAG_ALL is the set of all.
Threads == {"input", "render", "choreographer"}

VARIABLES
  type,            \* codecRecoveryType: "none", "restart" or "reset"
  flags, attempts, \* codecRecoveryThreadQuiescedFlags, codecRecoveryAttempts
  stopping, first, \* stopping; whether there is an initialException
  at, kind,        \* where each thread is; the recovery its exception asks for
  phase, bad,      \* of the input thread: the call it is in; it has thrown
  nextInput,       \* there is a nextInputBuffer
  outputs,         \* size of outputBufferQueue
  paced,           \* frame pacing is balanced: there is a Choreographer thread
  hdrStale,        \* currentHdrMetadata is not what the codec is configured with
  hdrAt,           \* where setHdrMode is
  stage, prepared, \* progress of stopping; calls of prepareForStop made
  interrupted,     \* the interrupt status of the renderer
  \* history, read by no guard
  owed,            \* the codec was recovered and no IDR frame asked for since
  early,           \* a thread stopped for a Choreographer that started later
  mistimed,        \* a recovery was requested before all threads had left the
                   \* last one, or after prepareForStop had cancelled it
  missed,          \* HDR mode changed between configuration and end of recovery
  unexpected,      \* "Unexpected codec recovery type" was thrown
  events

codec    == <<nextInput, outputs>>
recovery == <<type, flags, attempts, mistimed, early>>
hdrs     == <<hdrStale, hdrAt, missed>>
ends     == <<stage, prepared, interrupted>>
vars == <<recovery, stopping, first, at, kind, phase, bad, codec, paced, hdrs, ends, owed,
          unexpected, events>>

Init ==
  /\ type = "none" /\ flags = {} /\ attempts = 0 /\ stopping = FALSE /\ first = FALSE
  /\ at = [t \in Threads |-> CASE t = "choreographer" -> "absent" [] t = "render" -> "work" [] OTHER -> "loop"]
  /\ kind = [t \in Threads |-> "reset"] /\ phase = "fetch" /\ bad = FALSE
  /\ nextInput = FALSE /\ outputs = 0 /\ paced \in BOOLEAN
  /\ hdrStale = FALSE /\ hdrAt = "idle" /\ stage = "start" /\ prepared = 0
  /\ interrupted = FALSE
  /\ owed = FALSE /\ early = FALSE /\ mistimed = FALSE /\ missed = FALSE
  /\ unexpected = FALSE /\ events = 0

Alive == stage # "crashed"
At(t, place) == Alive /\ at[t] = place
Go(t, place) == at' = [at EXCEPT ![t] = place]
\* codecRecoveryMonitor is held across steps only by the thread that recovers.
MonitorFree == \A t \in Threads : at[t] \notin {"configure", "recreate", "done"}

(***************************************************************************)
(* doCodecRecoveryIfRequired.                                              *)
(***************************************************************************)
\* The renderer looks at stopping and goes on, the other waits for the next frame.
Leave(t) == Go(t, IF t # "render" THEN "loop" ELSE IF stopping THEN "ended" ELSE "work")

\* Mutated: queueNextInputBuffer does not look at codecRecovered.
MutResume(t, recovered) ==
  IF t # "input" THEN Leave(t) /\ UNCHANGED <<phase, bad, owed>>
  ELSE IF bad \/ (phase # "queue" /\ (recovered \/ ~nextInput))
  THEN Go(t, "loop") /\ phase' = "fetch" /\ bad' = FALSE /\ owed' = FALSE
  ELSE /\ UNCHANGED <<bad, owed>>
       /\ IF phase = "queue" THEN Go(t, "fetch") /\ phase' = "refetch"
          ELSE Go(t, "queue") /\ UNCHANGED phase

\* Back in the caller.  The input thread asks for an IDR frame (DR_NEED_IDR) if
\* there was a recovery, an exception, or no buffer; after queueing a buffer it
\* fetches the next.
Resume(t, recovered) ==
  IF t # "input" THEN Leave(t) /\ UNCHANGED <<phase, bad, owed>>
  ELSE IF recovered \/ bad \/ (phase # "queue" /\ ~nextInput)
  THEN Go(t, "loop") /\ phase' = "fetch" /\ bad' = FALSE /\ owed' = FALSE
  ELSE /\ UNCHANGED <<bad, owed>>
       /\ IF phase = "queue" THEN Go(t, "fetch") /\ phase' = "refetch"
          ELSE Go(t, "queue") /\ UNCHANGED phase

CheckRequired(t) ==
  /\ At(t, "check")
  /\ IF type = "none" THEN Resume(t, FALSE) ELSE Go(t, "enter") /\ UNCHANGED <<phase, bad, owed>>
  /\ UNCHANGED <<recovery, stopping, first, kind, codec, paced, hdrs, ends, unexpected, events>>

\* Mutated: a Choreographer that does not exist is waited for.
MutQuiesced(t) == flags \cup {t}

\* A thread has quiesced; a Choreographer that does not exist counts as such.
Quiesced(t) == flags \cup {t} \cup (IF at["choreographer"] = "absent" THEN {"choreographer"} ELSE {})

\* The last to quiesce forgets the buffers of the codec before it touches it.
Quiesce(t) ==
  /\ At(t, "enter") /\ MonitorFree
  /\ flags' = Quiesced(t)
  /\ early' = (early \/ (paced /\ at["choreographer"] = "absent"))
  /\ IF flags' = Threads
     THEN /\ Go(t, "configure") /\ nextInput' = FALSE /\ outputs' = 0
          /\ attempts' = (IF type = "none" THEN attempts ELSE attempts + 1)
          /\ UNCHANGED <<phase, bad, owed>>
     ELSE /\ UNCHANGED <<codec, attempts>>
          /\ IF type = "none" THEN Resume(t, TRUE) ELSE Go(t, "asleep") /\ UNCHANGED <<phase,
                                                                                       bad, owed>>
  /\ UNCHANGED <<type, mistimed, stopping, first, kind, paced, hdrs, ends,
                 unexpected, events>>

\* The wait ends when nothing is required any more; that of the renderer also
\* when it is interrupted, and its interrupt status is set again.
Wake(t) ==
  /\ At(t, "asleep") /\ MonitorFree
  /\ type = "none" \/ (t = "render" /\ interrupted)
  /\ Resume(t, TRUE)
  /\ UNCHANGED <<recovery, stopping, first, kind, codec, paced, hdrs, ends, unexpected, events>>

Configured(t) == Go(t, "done") /\ hdrStale' = FALSE /\ owed' = TRUE /\ UNCHANGED <<type,
                                                                                   stopping, stage>>
\* IllegalArgumentException: the surface is probably gone.
SurfaceGone(t) == Go(t, "done") /\ stopping' = TRUE /\ UNCHANGED <<type, hdrStale, owed, stage>>

\* Restart, then reset, then recreate; if that fails, crash.
Configure(t) ==
  /\ \/ /\ At(t, "configure") /\ type # "none"
        /\ \/ Configured(t) \/ SurfaceGone(t)
           \/ /\ IF type = "restart" THEN type' = "reset" /\ UNCHANGED at
                 ELSE Go(t, "recreate") /\ UNCHANGED type
              /\ UNCHANGED <<hdrStale, stopping, owed, stage>>
     \/ /\ At(t, "recreate")
        /\ \/ Configured(t) \/ SurfaceGone(t)
           \/ stage' = "crashed" /\ UNCHANGED <<at, hdrStale, stopping, owed, type>>
  /\ UNCHANGED <<flags, attempts, mistimed, early, first, kind, phase, bad, codec, paced, hdrAt,
                 missed, prepared, interrupted, unexpected, events>>

\* All may go on.
FinishRecovery(t) ==
  /\ \/ At(t, "done") /\ type' = "none"
     \/ At(t, "configure") /\ type = "none" /\ UNCHANGED type
  /\ flags' = {} /\ Resume(t, TRUE)
  /\ UNCHANGED <<attempts, mistimed, early, stopping, first, kind, codec, paced, hdrs, ends,
                 unexpected, events>>

RecoveryStep(t) ==
  CheckRequired(t) \/ Quiesce(t) \/ Wake(t) \/ Configure(t) \/ FinishRecovery(t)

(***************************************************************************)
(* handleDecoderException.                                                 *)
(***************************************************************************)
Request(k) ==
  /\ type' = k
  /\ mistimed' = (mistimed \/ stage \in {"quit", "join"} \/ \E t \in Threads : at[t] = "asleep")

Event == events < EventBound /\ events' = events + 1
Handled(t) == Go(t, "check") /\ kind' = [kind EXCEPT ![t] = "reset"]

\* The codec throws: a recovery is asked for, up to MaxTries times; after that
\* an exception three seconds after the first one crashes.
Throw(t) ==
  /\ Event
  /\ IF ~stopping /\ attempts < MaxTries
     THEN /\ \E k \in {"restart", "reset"} : kind' = [kind EXCEPT ![t] = k]
          /\ Go(t, "cas") /\ UNCHANGED <<first, stage>>
     ELSE \/ Handled(t) /\ first' = (first \/ (~stopping /\ type = "none")) /\ UNCHANGED stage
          \/ /\ ~stopping /\ type = "none" /\ first
             /\ stage' = "crashed" /\ UNCHANGED <<at, kind, first>>
NoThrow == UNCHANGED <<kind, first, stage, events>>

RequestFirst(t) ==
  /\ At(t, "cas")
  /\ IF type = "none" THEN Request(kind[t]) /\ Handled(t)
     ELSE Go(t, "promote") /\ UNCHANGED <<type, mistimed, kind>>
  /\ UNCHANGED <<flags, attempts, early, stopping, first, phase, bad, codec, paced, hdrs, ends,
                 owed,
                 unexpected, events>>

Promote(t) ==
  /\ At(t, "promote")
  /\ IF type = "none" THEN unexpected' = TRUE /\ stage' = "crashed" /\ UNCHANGED <<type, at, kind>>
     ELSE /\ type' = (IF kind[t] = "reset" THEN "reset" ELSE type)
          /\ Handled(t) /\ UNCHANGED <<unexpected, stage>>
  /\ UNCHANGED <<flags, attempts, mistimed, early, stopping, first, phase, bad, codec, paced, hdrs,
                 prepared, interrupted, owed, events>>

ExceptionStep(t) == RequestFirst(t) \/ Promote(t)

(***************************************************************************)
(* The renderer thread.                                                    *)
(***************************************************************************)
\* There is no frame, or one is shown, or left for the Choreographer: then the
\* oldest is to make room if the queue is full.  Nothing is fed to the codec
\* before start has returned.
TakeOutput ==
  /\ At("render", "work")
  /\ \/ Go("render", "check") /\ NoThrow
     \/ /\ paced /\ stage # "start" /\ NoThrow
        /\ Go("render", IF outputs = OutLimit THEN "take" ELSE "add")
     \/ Throw("render")
  /\ UNCHANGED <<recovery, stopping, phase, bad, codec, paced, hdrs, prepared, interrupted, owed,
                 unexpected>>

\* take() blocks if the Choreographer has emptied the queue meanwhile; an
\* interrupt ends it, and the renderer returns through the finally clause.
TakeOldest ==
  /\ At("render", "take")
  /\ \/ /\ interrupted /\ interrupted' = FALSE
        /\ Go("render", "check") /\ NoThrow /\ UNCHANGED outputs
     \/ /\ ~interrupted /\ outputs > 0 /\ outputs' = outputs - 1
        /\ (Go("render", "add") /\ NoThrow) \/ Throw("render")
        /\ UNCHANGED interrupted
  /\ UNCHANGED <<recovery, stopping, phase, bad, nextInput, paced, hdrs, prepared, owed,
                 unexpected>>

AddOutput ==
  /\ At("render", "add") /\ outputs' = outputs + 1 /\ Go("render", "check")
  /\ UNCHANGED <<recovery, stopping, first, kind, phase, bad, nextInput, paced, hdrs, ends, owed,
                 unexpected, events>>

(***************************************************************************)
(* The Choreographer thread: doFrame.                                      *)
(***************************************************************************)
DoFrame ==
  /\ At("choreographer", "loop") /\ ~stopping
  /\ IF outputs > 0 THEN outputs' = outputs - 1 /\ Go("choreographer", "work")
     ELSE Go("choreographer", "check") /\ UNCHANGED outputs
  /\ UNCHANGED <<recovery, stopping, first, kind, phase, bad, nextInput, paced, hdrs, ends, owed,
                 unexpected, events>>

ShowOutput ==
  /\ At("choreographer", "work")
  /\ (Go("choreographer", "check") /\ NoThrow) \/ Throw("choreographer")
  /\ UNCHANGED <<recovery, stopping, phase, bad, codec, paced, hdrs, prepared, interrupted, owed,
                 unexpected>>

\* The looper runs the posted quit between two frames.
Quit ==
  /\ At("choreographer", "loop") /\ (stage \in {"quit", "join"} \/ prepared = 2) /\ Go("choreographer", "ended")
  /\ UNCHANGED <<recovery, stopping, first, kind, phase, bad, codec, paced, hdrs, ends, owed,
                 unexpected,
                 events>>

(***************************************************************************)
(* The input thread: submitDecodeUnit.                                     *)
(***************************************************************************)
Submit ==
  /\ At("input", "loop") /\ ~stopping /\ stage \in {"up", "unlock", "quit", "join"}
  /\ Go("input", "fetch")
  /\ UNCHANGED <<recovery, stopping, first, kind, phase, bad, codec, paced, hdrs, ends, owed,
                 unexpected, events>>

\* fetchNextInputBuffer: at once if there is one, without a look at recovery.
\* The codec may hand out none, or throw, an exception that is transient
\* included.  When it is called last, submitDecodeUnit returns DR_OK or, having
\* queued parameter sets, goes on to the picture.
Fetch ==
  /\ At("input", "fetch")
  /\ \/ /\ nextInput /\ NoThrow /\ UNCHANGED <<bad, nextInput>>
        /\ Go("input", "queue")
     \/ /\ ~nextInput /\ NoThrow /\ UNCHANGED bad
        /\ Go("input", "check") /\ nextInput' \in {FALSE, ~stopping}
     \/ ~nextInput /\ Throw("input") /\ bad' = TRUE /\ UNCHANGED nextInput
     \/ /\ ~nextInput /\ Event /\ bad' = TRUE /\ Go("input", "check")
        /\ UNCHANGED <<nextInput, kind, first, stage>>
  /\ UNCHANGED <<recovery, stopping, phase, outputs, paced, hdrs, prepared, interrupted, owed,
                 unexpected>>

\* No buffer for five seconds, and no other exception reported.
DecoderHung ==
  /\ At("input", "check") /\ type = "none" /\ phase # "queue" /\ ~bad /\ ~nextInput /\ ~first
  /\ stage' = "crashed"
  /\ UNCHANGED <<recovery, stopping, first, at, kind, phase, bad, codec, paced, hdrs, prepared,
                 interrupted, owed, unexpected, events>>

\* The buffer fetched last is kept for the next call.
ReturnOk ==
  /\ At("input", "queue") /\ phase = "refetch"
  /\ Go("input", "loop") /\ phase' = "fetch"
  /\ UNCHANGED <<recovery, stopping, first, kind, bad, codec, paced, hdrs, ends, owed,
                 unexpected, events>>

\* queueNextInputBuffer; after a transient exception the buffer is kept.
QueueInput ==
  /\ At("input", "queue") /\ phase' = "queue"
  /\ \/ nextInput' = FALSE /\ Go("input", "check") /\ NoThrow /\ UNCHANGED bad
     \/ /\ Event /\ bad' = TRUE /\ nextInput' = ~stopping /\ Go("input", "check")
        /\ UNCHANGED <<kind, first, stage>>
     \/ Throw("input") /\ bad' = TRUE /\ nextInput' = FALSE
  /\ UNCHANGED <<recovery, stopping, outputs, paced, hdrs, prepared, interrupted, owed, unexpected>>

InputStep == Submit \/ Fetch \/ DecoderHung \/ ReturnOk \/ QueueInput

(***************************************************************************)
(* start, setHdrMode, prepareForStop and stop.                             *)
(***************************************************************************)
Start ==
  /\ stage = "start" /\ stage' = "up"
  /\ IF paced THEN Go("choreographer", "loop") ELSE UNCHANGED at
  /\ UNCHANGED <<recovery, stopping, first, kind, phase, bad, codec, paced, hdrs, prepared,
                 interrupted, owed, unexpected, events>>

ChangeHdr ==
  /\ Alive /\ stage \in {"up", "unlock", "quit", "join"} /\ hdrAt = "idle" /\ Event
  /\ hdrStale' = TRUE /\ hdrAt' = "cas"
  /\ UNCHANGED <<recovery, stopping, first, at, kind, phase, bad, codec, paced, missed, ends, owed,
                 unexpected>>

RequestHdr ==
  /\ Alive /\ hdrAt = "cas" /\ hdrAt' = "idle" /\ attempts' = 0
  /\ IF type = "none" THEN Request("restart") /\ UNCHANGED missed
     ELSE /\ missed' = (missed \/ (hdrStale /\ \E t \in Threads : at[t] = "done"))
          /\ UNCHANGED <<type, mistimed>>
  /\ UNCHANGED <<flags, early, stopping, first, at, kind, phase, bad, codec, paced, hdrStale,
                 ends, owed,
                 unexpected, events>>

SetStopping ==
  /\ stage = "up" /\ stage' = "unlock" /\ stopping' = TRUE /\ prepared' = 1 /\ interrupted' = TRUE
  /\ UNCHANGED <<recovery, first, at, kind, phase, bad, codec, paced, hdrs, owed, unexpected,
                 events>>

CancelRecovery ==
  /\ stage = "unlock" /\ MonitorFree /\ stage' = "quit" /\ type' = "none"
  /\ UNCHANGED <<flags, attempts, mistimed, early, stopping, first, at, kind, phase, bad, codec,
                 paced,
                 hdrs, prepared, interrupted, owed, unexpected, events>>

\* prepareForStop is called when the user leaves, and again by stop.
EnterStop ==
  /\ stage = "quit"
  /\ \/ stage' = "join" /\ UNCHANGED <<prepared, interrupted>>
     \/ prepared = 1 /\ stage' = "unlock" /\ prepared' = 2 /\ interrupted' = TRUE
  /\ UNCHANGED <<recovery, stopping, first, at, kind, phase, bad, codec, paced, hdrs, owed,
                 unexpected,
                 events>>

\* stop joins the two threads it has started; its caller joins the input thread.
JoinThreads ==
  /\ stage = "join" /\ at["choreographer"] \in {"absent", "ended"} /\ at["render"] = "ended"
  /\ at["input"] = "loop" /\ hdrAt = "idle" /\ stage' = "down"
  /\ UNCHANGED <<recovery, stopping, first, at, kind, phase, bad, codec, paced, hdrs, prepared,
                 interrupted, owed, unexpected, events>>

\* The next stream has a renderer of its own.
NewRenderer ==
  /\ stage \in {"down", "crashed"} /\ stage' = "start"
  /\ type' = "none" /\ flags' = {} /\ attempts' = 0 /\ stopping' = FALSE /\ first' = FALSE
  /\ at' = [t \in Threads |-> CASE t = "choreographer" -> "absent" [] t = "render" -> "work" [] OTHER -> "loop"]
  /\ kind' = [t \in Threads |-> "reset"] /\ phase' = "fetch" /\ bad' = FALSE
  /\ nextInput' = FALSE /\ outputs' = 0 /\ paced' \in BOOLEAN
  /\ hdrStale' = FALSE /\ hdrAt' = "idle" /\ prepared' = 0 /\ interrupted' = FALSE
  /\ owed' = FALSE /\ early' = FALSE /\ mistimed' = FALSE /\ missed' = FALSE
  /\ unexpected' = FALSE /\ events' = 0

RenderStep == TakeOutput \/ TakeOldest \/ AddOutput \/ RecoveryStep("render") \/ ExceptionStep("render")
FrameStep == DoFrame \/ ShowOutput \/ Quit \/ RecoveryStep("choreographer") \/ ExceptionStep("choreographer")
FeedStep == InputStep \/ RecoveryStep("input") \/ ExceptionStep("input")
StopStep == Start \/ CancelRecovery \/ EnterStop \/ JoinThreads

Next ==
  \/ RenderStep \/ FrameStep \/ FeedStep \/ Start \/ ChangeHdr \/ RequestHdr
  \/ SetStopping \/ CancelRecovery \/ EnterStop \/ JoinThreads \/ NewRenderer

Spec == Init /\ [][Next]_vars
\* The threads run, frames keep coming from the host, and the codec answers.
FairSpec == /\ Spec /\ WF_vars(RenderStep) /\ WF_vars(FrameStep) /\ WF_vars(FeedStep)
            /\ WF_vars(StopStep) /\ WF_vars(RequestHdr)

(***************************************************************************)
(* Properties.                                                             *)
(***************************************************************************)
Using(t) == IF t = "input" THEN at[t] \in {"fetch", "queue"} ELSE at[t] \in {"work", "take", "add"}

\* While the codec is being recovered no other thread uses it, and no buffer of
\* the old codec is left to be used afterwards; the input thread does not end a
\* call after a recovery without having asked for the IDR frame that completes
\* it; and a request is never of an unexpected type while the stream runs.
\* None of this is sure if a thread quiesced before the Choreographer started.
RecoveryIsExclusive ==
  ~early =>
    /\ \A t \in Threads : at[t] \in {"configure", "recreate", "done"} =>
         /\ \A u \in Threads \ {t} : ~Using(u)
         /\ ~nextInput /\ outputs = 0
    /\ at["input"] = "loop" /\ ~stopping => ~owed
    /\ unexpected => stopping

Crashed == stage = "crashed"
\* The renderer found the queue full and blocks in take() on an empty one: it
\* alone adds to the queue, so only the interrupt of prepareForStop ends that.
Starved == at["render"] = "take" /\ outputs = 0
\* Again and again nothing is pending: no recovery is required, the codec has the
\* HDR mode set last, and nobody is in prepareForStop or stop.  So a recovery ends,
\* a change of HDR mode reaches the codec, and stopping returns; unless the process
\* crashed, or the request came too early or too late: before all threads had left
\* the recovery before, or after the codec was configured.  A starved renderer
\* never quiesces, but stopping ends even then.
RecoveryAndStopEnd ==
  []<>(/\ type = "none" \/ stopping \/ Crashed \/ mistimed \/ Starved
       /\ ~hdrStale \/ stopping \/ Crashed \/ mistimed \/ missed \/ Starved
       /\ stage \notin {"unlock", "quit", "join"} \/ mistimed)
=============================================================================
