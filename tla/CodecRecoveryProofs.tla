------------------------ MODULE CodecRecoveryProofs -------------------------
(***************************************************************************)
(* Proofs about CodecRecovery for any limits.                              *)
(*                                                                         *)
(* What the flags of codecRecoveryThreadQuiescedFlags say is the heart of  *)
(* it (FlaggedRest): a thread whose flag is set sleeps, recovers the codec *)
(* itself, or will not use it any more because the stream stops.  It holds *)
(* because a thread that has found a recovery required is waited for, so   *)
(* that the type cannot turn to "none" under it (NotCancelled).            *)
(***************************************************************************)
EXTENDS CodecRecovery, TLAPS

Recovering == {"configure", "recreate", "done"}
Place == {"absent", "loop", "work", "take", "add", "fetch", "queue", "check", "enter", "asleep", "cas",
          "promote", "ended"} \cup Recovering

Types ==
  /\ at \in [Threads -> Place] /\ kind \in [Threads -> {"restart", "reset"}]
  /\ type \in {"none", "restart", "reset"} /\ flags \subseteq Threads
  /\ \A t \in Threads : at[t] = "absent" => t = "choreographer"
  /\ \A t \in Threads : at[t] = "loop" => t # "render"

\* Stopping is under way when prepareForStop has been called.
StopBegun == prepared # 0 \/ interrupted \/ stage \in {"unlock", "quit", "join"} => stopping

\* One thread recovers at a time, when all have quiesced, and what it finds
\* of the old codec is gone.
OneRecovers ==
  /\ \A t, u \in Threads : at[t] \in Recovering /\ at[u] \in Recovering => t = u
  /\ \A t \in Threads : at[t] \in Recovering => flags = Threads /\ ~nextInput /\ outputs = 0

\* A thread whose flag is set keeps off the codec.
FlaggedRest ==
  \A t \in flags :
    \/ at[t] \in {"asleep"} \cup Recovering
    \/ at[t] = "absent" /\ ~paced
    \/ at[t] \in {"loop", "ended"} /\ stopping

\* Nobody who has seen that a recovery is required finds it gone, and nobody
\* keeps a flag without one, unless the stream stops.
NotCancelled ==
  ~stopping /\ type = "none" => flags = {} /\ \A t \in Threads : at[t] \notin {"enter", "promote"}

\* An IDR frame is owed only to an input thread that is still in the recovery.
OwedAsleep == owed /\ ~stopping => at["input"] \in {"asleep"} \cup Recovering

CodecInv ==
  /\ Types /\ StopBegun
  /\ ~early => /\ OneRecovers /\ FlaggedRest /\ NotCancelled /\ OwedAsleep
               /\ unexpected => stopping

-----------------------------------------------------------------------------
LEMMA CodecInit == Init => CodecInv
<1> SUFFICES ASSUME Init PROVE CodecInv
  OBVIOUS
<1>1. Types
  BY DEF Init, Types, Threads, Place, Recovering
<1>2. StopBegun
  BY DEF Init, StopBegun
<1>3. OneRecovers /\ FlaggedRest /\ NotCancelled /\ OwedAsleep
  BY DEF Init, OneRecovers, FlaggedRest, NotCancelled, OwedAsleep, Recovering, Threads
<1>4. ~unexpected
  BY DEF Init
<1> QED BY <1>1, <1>2, <1>3, <1>4 DEF CodecInv

LEMMA CodecRestart == NewRenderer => CodecInv'
<1> SUFFICES ASSUME NewRenderer PROVE CodecInv'
  OBVIOUS
<1>1. Types'
  BY DEF NewRenderer, Types, Threads, Place, Recovering
<1>2. StopBegun'
  BY DEF NewRenderer, StopBegun
<1>3. OneRecovers' /\ FlaggedRest' /\ NotCancelled' /\ OwedAsleep'
  BY DEF NewRenderer, OneRecovers, FlaggedRest, NotCancelled, OwedAsleep, Recovering, Threads
<1>4. ~unexpected'
  BY DEF NewRenderer
<1> QED BY <1>1, <1>2, <1>3, <1>4 DEF CodecInv

\* A step that moves no thread: a request, a change of HDR mode, progress of
\* stopping.
LEMMA NobodyMoves ==
  ASSUME CodecInv,
         UNCHANGED <<at, flags, early, paced, nextInput, outputs, kind>>,
         owed' => owed, stopping => stopping',
         type' \in {"none", "restart", "reset"}, type' = "none" => type = "none" \/ stopping',
         StopBegun', ~early /\ unexpected' => unexpected \/ stopping
  PROVE  CodecInv'
<1>1. Types'
  BY DEF CodecInv, Types
<1>2. ~early => OneRecovers'
  BY DEF CodecInv, OneRecovers
<1>3. ~early => FlaggedRest'
  BY DEF CodecInv, FlaggedRest
<1>4. ~early => NotCancelled'
  BY DEF CodecInv, NotCancelled
<1>5. ~early => OwedAsleep'
  BY DEF CodecInv, OwedAsleep
<1>6. ~early /\ unexpected' => stopping'
  BY DEF CodecInv
<1>7. early' = early
  OBVIOUS
<1> QED BY <1>1, <1>2, <1>3, <1>4, <1>5, <1>6, <1>7 DEF CodecInv

\* A thread that may use the codec.
Active(t) == at[t] \in {"work", "take", "add", "fetch", "queue", "check", "enter", "cas", "promote"}
             \/ (at[t] = "loop" /\ ~stopping)

\* Nobody recovers the codec while one may use it.
LEMMA ActiveExcludes ==
  ASSUME CodecInv, ~early, NEW t \in Threads, Active(t)
  PROVE  t \notin flags /\ \A u \in Threads : at[u] \notin Recovering
<1>1. t \notin flags
  BY DEF CodecInv, FlaggedRest, Active, Recovering
<1> QED BY <1>1 DEF CodecInv, OneRecovers

\* A step of a thread outside the recovery.
LEMMA MovesOutside ==
  ASSUME CodecInv, NEW t \in Threads, Active(t), NEW q \in Place \ (Recovering \cup {"absent"}),
         at' = [at EXCEPT ![t] = q], q = "loop" => t # "render",
         UNCHANGED <<flags, early, paced, stopping>>,
         owed' => owed, kind' \in [Threads -> {"restart", "reset"}],
         type' \in {"none", "restart", "reset"}, type' = "none" => type = "none",
         q \in {"enter", "promote"} => type' # "none",
         StopBegun', ~early /\ unexpected' => unexpected \/ stopping
  PROVE  CodecInv'
<1> USE DEF Active
<1>1. Types
  BY DEF CodecInv
<1>2. at' \in [Threads -> Place] /\ at'[t] = q /\ \A u \in Threads \ {t} : at'[u] = at[u]
  BY <1>1 DEF Types
<1>3. Types'
  BY <1>1, <1>2 DEF Types
<1>4. ~early => t \notin flags /\ \A u \in Threads : at[u] \notin Recovering
  BY ActiveExcludes
<1>5. ~early => \A u \in Threads : at'[u] \notin Recovering
  BY <1>2, <1>4
<1>6. ~early => OneRecovers'
  BY <1>5 DEF OneRecovers
<1>7. ~early => FlaggedRest'
  <2> SUFFICES ASSUME ~early, NEW u \in flags
               PROVE  \/ at'[u] \in {"asleep"} \cup Recovering
                      \/ at'[u] = "absent" /\ ~paced
                      \/ at'[u] \in {"loop", "ended"} /\ stopping
    BY DEF FlaggedRest
  <2>1. u \in Threads \ {t}
    BY <1>1, <1>4 DEF Types
  <2> QED BY <1>2, <2>1 DEF CodecInv, FlaggedRest
<1>8. ~early => NotCancelled'
  BY <1>2 DEF CodecInv, NotCancelled
<1>9. ~early => OwedAsleep'
  <2> SUFFICES ASSUME ~early, owed', ~stopping PROVE at'["input"] = "asleep"
    BY DEF OwedAsleep
  <2>1. at["input"] = "asleep" /\ "input" \in Threads
    BY <1>4 DEF CodecInv, OwedAsleep, Threads
  <2> QED BY <1>2, <2>1
<1> QED BY <1>3, <1>6, <1>7, <1>8, <1>9 DEF CodecInv

-----------------------------------------------------------------------------
(***************************************************************************)
(* doCodecRecoveryIfRequired.                                              *)
(***************************************************************************)
\* Where a thread goes from doCodecRecoveryIfRequired.
LEMMA ResumeFacts ==
  ASSUME NEW t \in Threads, NEW r \in BOOLEAN, Resume(t, r)
  PROVE  /\ owed' => owed
         /\ \E q \in {"loop", "work", "ended", "fetch", "queue"} :
              /\ at' = [at EXCEPT ![t] = q]
              /\ q = "loop" => t # "render"
              /\ r /\ t = "input" => q = "loop" /\ ~owed'
              /\ r /\ stopping => q \in {"loop", "ended"}
<1>1. owed' => owed
  <2>1. UNCHANGED owed \/ owed' = FALSE
    BY DEF Resume
  <2> QED BY <2>1, Zenon
<1>2. CASE t # "input"
  BY <1>1, <1>2 DEF Resume, Leave, Go
<1>3. CASE t = "input"
  <2>1. r => Go(t, "loop") /\ owed' = FALSE
    BY <1>3 DEF Resume
  <2>2. \E q \in {"loop", "fetch", "queue"} : Go(t, q)
    BY <1>3 DEF Resume
  <2>3. CASE r
    BY <1>1, <1>3, <2>1, <2>3 DEF Go
  <2>4. CASE ~r
    BY <1>1, <1>3, <2>2, <2>4 DEF Go
  <2> QED BY <2>3, <2>4
<1> QED BY <1>2, <1>3

LEMMA CheckKeeps == ASSUME CodecInv, NEW t \in Threads, CheckRequired(t) PROVE CodecInv'
<1>1. /\ Active(t) /\ Types
      /\ UNCHANGED <<flags, early, paced, stopping, kind, type, prepared, interrupted, stage,
                     unexpected>>
  BY DEF CheckRequired, At, Active, CodecInv, recovery, ends
<1>2. StopBegun' /\ (~early /\ unexpected' => unexpected \/ stopping)
  BY <1>1 DEF CodecInv, StopBegun
<1>3. CASE type = "none"
  <2>1. Resume(t, FALSE)
    BY <1>3 DEF CheckRequired
  <2>2. PICK q \in {"loop", "work", "ended", "fetch", "queue"} :
          at' = [at EXCEPT ![t] = q] /\ (q = "loop" => t # "render") /\ (owed' => owed)
    BY <2>1, ResumeFacts
  <2>3. q \in Place \ (Recovering \cup {"absent"}) /\ q \notin {"enter", "promote"}
    BY DEF Place, Recovering
  <2> QED BY <1>1, <1>2, <2>2, <2>3, MovesOutside DEF Types
<1>4. CASE type # "none"
  <2>1. at' = [at EXCEPT ![t] = "enter"] /\ UNCHANGED owed
    BY <1>4 DEF CheckRequired, Go
  <2>2. owed' => owed
    BY <2>1, Zenon
  <2>3. "enter" \in Place \ (Recovering \cup {"absent"})
    BY DEF Place, Recovering
  <2> QED BY <1>1, <1>2, <1>4, <2>1, <2>2, <2>3, MovesOutside DEF Types
<1> QED BY <1>3, <1>4

LEMMA QuiesceKeeps == ASSUME CodecInv, NEW t \in Threads, Quiesce(t) PROVE CodecInv'
<1>1. /\ at[t] = "enter" /\ MonitorFree /\ flags' = Quiesced(t) /\ Types
      /\ UNCHANGED <<type, stopping, kind, paced, prepared, interrupted, stage, unexpected>>
  BY DEF Quiesce, At, CodecInv, hdrs, ends
<1>2. ~early' => ~early /\ (at["choreographer"] = "absent" => ~paced)
  <2>1. early' = (early \/ (paced /\ at["choreographer"] = "absent"))
    BY DEF Quiesce
  <2> QED BY <2>1, Zenon
<1>3. \A u \in Threads : at[u] \notin Recovering
  BY <1>1 DEF MonitorFree, Recovering
<1>4. StopBegun'
  BY <1>1 DEF CodecInv, StopBegun
<1>5. flags' \subseteq Threads /\ t \in flags'
      /\ \A u \in flags' : u = t \/ u \in flags \/ (u = "choreographer" /\ at[u] = "absent")
  BY <1>1 DEF Quiesced, Types, Threads
<1>6. ASSUME NEW q \in Place, at' = [at EXCEPT ![t] = q], q = "loop" => t # "render", q # "absent",
             q \in {"asleep"} \cup Recovering \/ (q \in {"loop", "ended"} /\ stopping) \/ early,
             q \in Recovering => flags' = Threads /\ ~nextInput' /\ outputs' = 0,
             owed' => owed, type = "none" => stopping \/ early
      PROVE  CodecInv'
  <2>1. at' \in [Threads -> Place] /\ at'[t] = q /\ \A u \in Threads \ {t} : at'[u] = at[u]
    BY <1>1, <1>6 DEF Types
  <2>2. Types'
    BY <1>1, <1>5, <1>6, <2>1 DEF Types
  <2>3. \A u \in Threads : at'[u] \in Recovering => u = t
    BY <1>3, <2>1
  <2>4. OneRecovers'
    BY <1>6, <2>1, <2>3 DEF OneRecovers
  <2>5. ~early' => FlaggedRest'
    <3> SUFFICES ASSUME ~early', NEW u \in flags'
                 PROVE  \/ at'[u] \in {"asleep"} \cup Recovering
                        \/ at'[u] = "absent" /\ ~paced
                        \/ at'[u] \in {"loop", "ended"} /\ stopping
      BY <1>1 DEF FlaggedRest
    <3>1. CASE u = t
      BY <1>2, <1>6, <2>1, <3>1
    <3>2. CASE u # t /\ u \in flags
      <4>1. u \in Threads /\ at'[u] = at[u]
        BY <1>1, <2>1, <3>2 DEF Types
      <4> QED BY <1>2, <3>2, <4>1 DEF CodecInv, FlaggedRest
    <3>3. CASE u # t /\ u = "choreographer" /\ at[u] = "absent"
      BY <1>2, <1>5, <2>1, <3>3
    <3> QED BY <1>5, <3>1, <3>2, <3>3
  <2>6. ~early' => NotCancelled'
    BY <1>1, <1>2, <1>6 DEF NotCancelled
  <2>7. ~early' => OwedAsleep'
    <3> SUFFICES ASSUME ~early', owed', ~stopping PROVE at'["input"] = "asleep"
      BY <1>1 DEF OwedAsleep
    <3>1. at["input"] = "asleep" /\ "input" \in Threads
      BY <1>2, <1>3, <1>6 DEF CodecInv, OwedAsleep, Threads
    <3> QED BY <1>1, <2>1, <3>1
  <2>8. ~early' /\ unexpected' => stopping'
    BY <1>1, <1>2 DEF CodecInv
  <2> QED BY <1>4, <2>2, <2>4, <2>5, <2>6, <2>7, <2>8 DEF CodecInv
<1>7. type = "none" => stopping \/ early
  BY <1>1 DEF CodecInv, NotCancelled
<1>8. CASE flags' = Threads
  <2>1. at' = [at EXCEPT ![t] = "configure"] /\ nextInput' = FALSE /\ outputs' = 0 /\ UNCHANGED owed
    BY <1>8 DEF Quiesce, Go
  <2>2. owed' => owed
    BY <2>1, Zenon
  <2>3. "configure" \in Place /\ "configure" \in Recovering
    BY DEF Place, Recovering
  <2> QED BY <1>6, <1>7, <1>8, <2>1, <2>2, <2>3
<1>9. CASE flags' # Threads /\ type # "none"
  <2>1. at' = [at EXCEPT ![t] = "asleep"] /\ UNCHANGED owed
    BY <1>9 DEF Quiesce, Go
  <2>2. owed' => owed
    BY <2>1, Zenon
  <2>3. "asleep" \in Place /\ "asleep" \notin Recovering
    BY DEF Place, Recovering
  <2> QED BY <1>6, <1>7, <2>1, <2>2, <2>3
<1>10. CASE flags' # Threads /\ type = "none"
  <2>1. Resume(t, TRUE)
    BY <1>10 DEF Quiesce
  <2>2. PICK q \in {"loop", "work", "ended", "fetch", "queue"} :
          /\ at' = [at EXCEPT ![t] = q] /\ (q = "loop" => t # "render") /\ (owed' => owed)
          /\ (stopping => q \in {"loop", "ended"})
    BY <2>1, ResumeFacts
  <2>3. q \in Place /\ q \notin Recovering /\ q # "absent"
    BY DEF Place, Recovering
  <2> QED BY <1>6, <1>7, <1>10, <2>2, <2>3
<1> QED BY <1>8, <1>9, <1>10

LEMMA WakeKeeps == ASSUME CodecInv, NEW t \in Threads, Wake(t) PROVE CodecInv'
<1>1. /\ at[t] = "asleep" /\ MonitorFree /\ Resume(t, TRUE) /\ Types
      /\ UNCHANGED <<flags, type, early, stopping, kind, paced, prepared, interrupted, stage,
                     unexpected>>
  BY DEF Wake, At, CodecInv, hdrs, ends, recovery
<1>2. PICK q \in {"loop", "work", "ended", "fetch", "queue"} :
        /\ at' = [at EXCEPT ![t] = q] /\ (q = "loop" => t # "render") /\ (owed' => owed)
        /\ (t = "input" => ~owed') /\ (stopping => q \in {"loop", "ended"})
  BY <1>1, ResumeFacts
<1>3. q \in Place /\ q \notin Recovering /\ q \notin {"absent", "enter", "promote"}
  BY DEF Place, Recovering
<1>4. at' \in [Threads -> Place] /\ at'[t] = q /\ \A u \in Threads \ {t} : at'[u] = at[u]
  BY <1>1, <1>2, <1>3 DEF Types
<1>5. \A u \in Threads : at'[u] \notin Recovering
  BY <1>1, <1>3, <1>4 DEF MonitorFree, Recovering
<1>6. Types' /\ StopBegun' /\ OneRecovers'
  BY <1>1, <1>2, <1>3, <1>4, <1>5 DEF CodecInv, Types, StopBegun, OneRecovers
<1>7. ~early /\ t \in flags => stopping
  <2>1. type = "none" \/ interrupted
    BY DEF Wake
  <2>2. interrupted => stopping
    BY DEF CodecInv, StopBegun
  <2> QED BY <2>1, <2>2 DEF CodecInv, NotCancelled
<1>8. ~early => FlaggedRest'
  <2> SUFFICES ASSUME ~early, NEW u \in flags
               PROVE  \/ at'[u] \in {"asleep"} \cup Recovering
                      \/ at'[u] = "absent" /\ ~paced
                      \/ at'[u] \in {"loop", "ended"} /\ stopping
    BY <1>1 DEF FlaggedRest
  <2>1. u \in Threads
    BY <1>1 DEF Types
  <2>2. CASE u = t
    BY <1>2, <1>4, <1>7, <2>2
  <2>3. CASE u # t
    BY <1>4, <2>1, <2>3 DEF CodecInv, FlaggedRest
  <2> QED BY <2>2, <2>3
<1>9. ~early => NotCancelled'
  BY <1>1, <1>3, <1>4 DEF CodecInv, NotCancelled
<1>10. ~early => OwedAsleep'
  <2> SUFFICES ASSUME ~early, owed', ~stopping PROVE at'["input"] \in {"asleep"} \cup Recovering
    BY <1>1 DEF OwedAsleep
  <2>1. t # "input" /\ "input" \in Threads
    BY <1>2 DEF Threads
  <2>2. at["input"] \in {"asleep"} \cup Recovering
    BY <1>2 DEF CodecInv, OwedAsleep
  <2> QED BY <1>4, <2>1, <2>2
<1>11. ~early' /\ unexpected' => stopping'
  BY <1>1 DEF CodecInv
<1>12. early' = early
  BY <1>1
<1> QED BY <1>6, <1>8, <1>9, <1>10, <1>11, <1>12 DEF CodecInv

LEMMA ConfigureKeeps == ASSUME CodecInv, NEW t \in Threads, Configure(t) PROVE CodecInv'
<1>1. /\ at[t] \in {"configure", "recreate"} /\ Types
      /\ UNCHANGED <<flags, early, kind, paced, prepared, interrupted, unexpected, nextInput,
                     outputs>>
  BY DEF Configure, At, CodecInv, codec
<1>2. \E q \in Recovering : at' = [at EXCEPT ![t] = q]
  <2>1. Go(t, "done") \/ Go(t, "recreate") \/ UNCHANGED at
    BY DEF Configure, Configured, SurfaceGone
  <2>2. UNCHANGED at => at' = [at EXCEPT ![t] = at[t]]
    BY <1>1 DEF Types
  <2> QED BY <1>1, <2>1, <2>2 DEF Go, Recovering
<1>3. PICK q \in Recovering : at' = [at EXCEPT ![t] = q]
  BY <1>2
<1>4. q \in Place /\ q \notin {"absent", "loop", "enter", "promote"} /\ at[t] \in Recovering
  BY <1>1 DEF Place, Recovering
<1>5. at' \in [Threads -> Place] /\ at'[t] = q /\ \A u \in Threads \ {t} : at'[u] = at[u]
  BY <1>1, <1>3, <1>4 DEF Types
<1>6. stopping => stopping'
  <2>1. UNCHANGED stopping \/ stopping' = TRUE
    BY DEF Configure, Configured, SurfaceGone
  <2> QED BY <2>1, Zenon
<1>7. type' \in {"none", "restart", "reset"} /\ (type' = "none" => type = "none")
  BY <1>1 DEF Configure, Configured, SurfaceGone, Types
<1>8. stage' \in {stage, "crashed"}
  BY DEF Configure, Configured, SurfaceGone
<1>9. Types' /\ StopBegun'
  BY <1>1, <1>4, <1>5, <1>6, <1>7, <1>8 DEF CodecInv, Types, StopBegun
<1>10. ASSUME ~early PROVE OneRecovers' /\ FlaggedRest' /\ NotCancelled' /\ OwedAsleep'
  <2>1. flags = Threads /\ ~nextInput /\ outputs = 0 /\ \A u \in Threads : at[u] \in Recovering => u = t
    BY <1>4, <1>10 DEF CodecInv, OneRecovers
  <2>2. OneRecovers'
    BY <1>1, <1>5, <2>1 DEF OneRecovers
  <2>3. FlaggedRest'
    <3> SUFFICES ASSUME NEW u \in Threads
                 PROVE  \/ at'[u] \in {"asleep"} \cup Recovering
                        \/ at'[u] = "absent" /\ ~paced
                        \/ at'[u] \in {"loop", "ended"} /\ stopping'
      BY <1>1, <2>1 DEF FlaggedRest
    <3>1. CASE u = t
      BY <1>5, <3>1
    <3>2. CASE u # t
      BY <1>5, <1>6, <1>10, <2>1, <3>2 DEF CodecInv, FlaggedRest
    <3> QED BY <3>1, <3>2
  <2>4. NotCancelled'
    <3>1. flags # {}
      BY <2>1 DEF Threads
    <3> QED BY <1>1, <1>6, <1>7, <1>10, <3>1 DEF CodecInv, NotCancelled
  <2>5. OwedAsleep'
    <3>1. "input" \in flags /\ at["input"] # "absent"
      BY <1>1, <2>1 DEF Types, Threads
    <3>2. at["input"] \in {"asleep"} \cup Recovering \/ stopping
      BY <1>10, <3>1 DEF CodecInv, FlaggedRest
    <3>3. at'["input"] \in {"asleep"} \cup Recovering \/ stopping'
      BY <1>5, <1>6, <2>1, <3>1, <3>2
    <3> QED BY <3>3 DEF OwedAsleep
  <2> QED BY <2>2, <2>3, <2>4, <2>5
<1>11. ~early' /\ unexpected' => stopping'
  BY <1>1, <1>6 DEF CodecInv
<1>12. early' = early
  BY <1>1
<1> QED BY <1>9, <1>10, <1>11, <1>12 DEF CodecInv

LEMMA FinishKeeps == ASSUME CodecInv, NEW t \in Threads, FinishRecovery(t) PROVE CodecInv'
<1>1. /\ at[t] \in Recovering /\ Resume(t, TRUE) /\ Types /\ flags' = {}
      /\ UNCHANGED <<early, stopping, kind, paced, prepared, interrupted, stage, unexpected>>
      /\ type' = "none"
  BY DEF FinishRecovery, At, CodecInv, hdrs, ends, Recovering
<1>2. PICK q \in {"loop", "work", "ended", "fetch", "queue"} :
        /\ at' = [at EXCEPT ![t] = q] /\ (q = "loop" => t # "render") /\ (owed' => owed)
        /\ (t = "input" => ~owed')
  BY <1>1, ResumeFacts
<1>3. q \in Place /\ q \notin Recovering /\ q \notin {"absent", "enter", "promote"}
  BY DEF Place, Recovering
<1>4. at' \in [Threads -> Place] /\ at'[t] = q /\ \A u \in Threads \ {t} : at'[u] = at[u]
  BY <1>1, <1>2, <1>3 DEF Types
<1>5. Types' /\ StopBegun'
  BY <1>1, <1>2, <1>3, <1>4 DEF CodecInv, Types, StopBegun
<1>6. ASSUME ~early PROVE OneRecovers' /\ FlaggedRest' /\ NotCancelled' /\ OwedAsleep'
  <2>1. flags = Threads /\ \A u \in Threads : at[u] \in Recovering => u = t
    BY <1>1, <1>6 DEF CodecInv, OneRecovers
  <2>2. \A u \in Threads : at'[u] \notin Recovering
    BY <1>3, <1>4, <2>1
  <2>3. OneRecovers' /\ FlaggedRest'
    BY <1>1, <2>2 DEF OneRecovers, FlaggedRest
  <2>4. \A u \in Threads : at[u] \notin {"enter", "promote"}
    BY <1>6, <2>1 DEF CodecInv, FlaggedRest, Recovering
  <2>5. NotCancelled'
    BY <1>1, <1>3, <1>4, <2>4 DEF NotCancelled
  <2>6. OwedAsleep'
    <3> SUFFICES ASSUME owed', ~stopping PROVE at'["input"] \in {"asleep"} \cup Recovering
      BY <1>1 DEF OwedAsleep
    <3>1. t # "input" /\ "input" \in Threads
      BY <1>2 DEF Threads
    <3>2. at["input"] \in {"asleep"} \cup Recovering
      BY <1>2, <1>6 DEF CodecInv, OwedAsleep
    <3> QED BY <1>4, <3>1, <3>2
  <2> QED BY <2>3, <2>5, <2>6
<1>7. ~early' /\ unexpected' => stopping'
  BY <1>1 DEF CodecInv
<1>8. early' = early
  BY <1>1
<1> QED BY <1>5, <1>6, <1>7, <1>8 DEF CodecInv

-----------------------------------------------------------------------------
(***************************************************************************)
(* The work of the three threads, and handleDecoderException.              *)
(***************************************************************************)
LEMMA ThrowFacts ==
  ASSUME Types, NEW t \in Threads, at[t] \notin {"absent"} \cup Recovering, Throw(t)
  PROVE  /\ \E q \in {"cas", "check", at[t]} : at' = [at EXCEPT ![t] = q]
         /\ kind' \in [Threads -> {"restart", "reset"}] /\ stage' \in {stage, "crashed"}
<1>1. \/ (\E k \in {"restart", "reset"} : kind' = [kind EXCEPT ![t] = k]) /\ Go(t, "cas") /\ UNCHANGED stage
      \/ Handled(t) /\ UNCHANGED stage
      \/ stage' = "crashed" /\ UNCHANGED <<at, kind>>
  BY DEF Throw
<1>2. UNCHANGED at => at' = [at EXCEPT ![t] = at[t]]
  BY DEF Types
<1>3. \A k \in {"restart", "reset"} : [kind EXCEPT ![t] = k] \in [Threads -> {"restart", "reset"}]
  BY DEF Types
<1> QED BY <1>1, <1>2, <1>3 DEF Types, Go, Handled

\* Where a thread is at work outside the recovery.
Busy == {"work", "take", "add", "fetch", "queue"}

\* Work outside the recovery, with or without an exception.
LEMMA WorkKeeps ==
  ASSUME CodecInv, NEW t \in Threads, at[t] \in Busy,
         \/ Throw(t)
         \/ NoThrow /\ \E q \in {"check", "queue", "take", "add", "loop"} : (q = "loop" => t # "render") /\ Go(t, q)
         \/ Go(t, "check") /\ UNCHANGED <<kind, stage>>,
         UNCHANGED <<recovery, stopping, paced, prepared, owed, unexpected>>,
         interrupted' => interrupted
  PROVE  CodecInv'
<1>1. Types /\ Active(t) /\ at[t] \in Place \ (Recovering \cup {"absent", "enter", "promote", "loop"})
  BY DEF CodecInv, Active, Busy, Place, Recovering
<1>2. /\ \E q \in {"cas", "check", "queue", "take", "add", "loop", at[t]} :
           at' = [at EXCEPT ![t] = q] /\ (q = "loop" => t # "render")
      /\ kind' \in [Threads -> {"restart", "reset"}] /\ stage' \in {stage, "crashed"}
  <2>1. CASE Throw(t)
    BY <1>1, <2>1, ThrowFacts DEF Recovering
  <2>2. CASE ~Throw(t)
    BY <1>1, <2>2 DEF NoThrow, Go, Types
  <2> QED BY <2>1, <2>2
<1>3. PICK q \in {"cas", "check", "queue", "take", "add", "loop", at[t]} :
        at' = [at EXCEPT ![t] = q] /\ (q = "loop" => t # "render")
  BY <1>2
<1>4. q \in Place \ (Recovering \cup {"absent"}) /\ q \notin {"enter", "promote"}
  BY <1>1 DEF Place, Recovering
<1>5. StopBegun'
  BY <1>2 DEF CodecInv, StopBegun
<1>6. (owed' => owed) /\ (unexpected' => unexpected)
  BY Zenon
<1>7. UNCHANGED <<flags, early, paced, stopping, type>>
  BY DEF recovery
<1> QED BY <1>1, <1>2, <1>3, <1>4, <1>5, <1>6, <1>7, MovesOutside DEF Types

LEMMA ThreadsKeep ==
  ASSUME CodecInv, TakeOutput \/ TakeOldest \/ AddOutput \/ ShowOutput \/ Fetch \/ DecoderHung \/ QueueInput \/ ReturnOk
  PROVE  CodecInv'
<1>1. CASE TakeOutput
  <2>1. "render" \in Threads /\ at["render"] \in Busy
    BY <1>1 DEF TakeOutput, At, Threads, Busy
  <2>2. (NoThrow /\ \E q \in {"check", "take", "add"} : Go("render", q)) \/ Throw("render")
    BY <1>1 DEF TakeOutput
  <2>3. /\ UNCHANGED <<recovery, stopping, paced, prepared, owed, unexpected>>
        /\ (interrupted' => interrupted)
    BY <1>1 DEF TakeOutput
  <2> QED BY <2>1, <2>2, <2>3, WorkKeeps
<1>2. CASE ShowOutput
  <2>1. "choreographer" \in Threads /\ at["choreographer"] \in Busy
    BY <1>2 DEF ShowOutput, At, Threads, Busy
  <2>2. (NoThrow /\ Go("choreographer", "check")) \/ Throw("choreographer")
    BY <1>2 DEF ShowOutput
  <2>3. /\ UNCHANGED <<recovery, stopping, paced, prepared, owed, unexpected>>
        /\ (interrupted' => interrupted)
    BY <1>2 DEF ShowOutput
  <2> QED BY <2>1, <2>2, <2>3, WorkKeeps
<1>3. CASE Fetch
  <2>1. "input" \in Threads /\ at["input"] \in Busy
    BY <1>3 DEF Fetch, At, Threads, Busy
  <2>2. \/ NoThrow /\ \E q \in {"check", "queue"} : Go("input", q)
        \/ Throw("input")
        \/ Go("input", "check") /\ UNCHANGED <<kind, stage>>
    BY <1>3 DEF Fetch
  <2>3. /\ UNCHANGED <<recovery, stopping, paced, prepared, owed, unexpected>>
        /\ (interrupted' => interrupted)
    BY <1>3 DEF Fetch
  <2> QED BY <2>1, <2>2, <2>3, WorkKeeps
<1>4. CASE QueueInput
  <2>1. "input" \in Threads /\ at["input"] \in Busy
    BY <1>4 DEF QueueInput, At, Threads, Busy
  <2>2. \/ NoThrow /\ Go("input", "check")
        \/ Throw("input")
        \/ Go("input", "check") /\ UNCHANGED <<kind, stage>>
    BY <1>4 DEF QueueInput
  <2>3. /\ UNCHANGED <<recovery, stopping, paced, prepared, owed, unexpected>>
        /\ (interrupted' => interrupted)
    BY <1>4 DEF QueueInput
  <2> QED BY <2>1, <2>2, <2>3, WorkKeeps
<1>5. CASE ReturnOk
  <2>1. "input" \in Threads /\ at["input"] \in Busy
    BY <1>5 DEF ReturnOk, At, Threads, Busy
  <2>2. NoThrow /\ Go("input", "loop")
    BY <1>5 DEF ReturnOk, NoThrow, ends
  <2>3. /\ UNCHANGED <<recovery, stopping, paced, prepared, owed, unexpected>>
        /\ (interrupted' => interrupted)
    BY <1>5 DEF ReturnOk, ends
  <2> QED BY <2>1, <2>2, <2>3, WorkKeeps
<1>6. CASE TakeOldest
  <2>1. "render" \in Threads /\ at["render"] \in Busy
    BY <1>6 DEF TakeOldest, At, Threads, Busy
  <2>2. (NoThrow /\ \E q \in {"check", "add"} : Go("render", q)) \/ Throw("render")
    BY <1>6 DEF TakeOldest
  <2>3. /\ UNCHANGED <<recovery, stopping, paced, prepared, owed, unexpected>>
        /\ (interrupted' => interrupted)
    BY <1>6 DEF TakeOldest
  <2> QED BY <2>1, <2>2, <2>3, WorkKeeps
<1>7. CASE AddOutput
  <2>1. "render" \in Threads /\ at["render"] \in Busy
    BY <1>7 DEF AddOutput, At, Threads, Busy
  <2>2. Go("render", "check") /\ UNCHANGED <<kind, stage>>
    BY <1>7 DEF AddOutput, ends
  <2>3. /\ UNCHANGED <<recovery, stopping, paced, prepared, owed, unexpected>>
        /\ (interrupted' => interrupted)
    BY <1>7 DEF AddOutput, ends
  <2> QED BY <2>1, <2>2, <2>3, WorkKeeps
<1>8. CASE DecoderHung
  <2>1. /\ stage' = "crashed"
        /\ UNCHANGED <<recovery, stopping, at, kind, codec, paced, prepared, interrupted, owed,
                       unexpected>>
    BY <1>8 DEF DecoderHung
  <2>2. (owed' => owed) /\ (unexpected' => unexpected) /\ (stopping => stopping')
    BY <2>1, Zenon
  <2>3. StopBegun'
    BY <2>1 DEF CodecInv, StopBegun
  <2> QED BY <2>1, <2>2, <2>3, NobodyMoves DEF recovery, codec, CodecInv, Types
<1> QED BY <1>1, <1>2, <1>3, <1>4, <1>5, <1>6, <1>7, <1>8

LEMMA LoopsKeep == ASSUME CodecInv, DoFrame \/ Submit PROVE CodecInv'
<1>1. PICK t \in {"choreographer", "input"} :
        /\ at[t] = "loop" /\ ~stopping
        /\ \E q \in {"work", "check", "fetch"} : at' = [at EXCEPT ![t] = q]
  BY DEF DoFrame, Submit, At, Go
<1>2. UNCHANGED <<recovery, stopping, paced, kind, ends, owed, unexpected>>
  BY DEF DoFrame, Submit
<1>3. t \in Threads /\ Active(t)
  BY <1>1 DEF Active, Threads
<1>4. PICK q \in {"work", "check", "fetch"} : at' = [at EXCEPT ![t] = q]
  BY <1>1
<1>5. q \in Place \ (Recovering \cup {"absent"}) /\ q \notin {"enter", "promote", "loop"}
  BY DEF Place, Recovering
<1>6. StopBegun' /\ kind' \in [Threads -> {"restart", "reset"}]
  BY <1>2 DEF CodecInv, StopBegun, ends, Types
<1>7. (owed' => owed) /\ (unexpected' => unexpected)
  BY <1>2, Zenon
<1>8. UNCHANGED <<flags, early, paced, stopping, type>> /\ type \in {"none", "restart", "reset"}
  BY <1>2 DEF recovery, CodecInv, Types
<1> QED BY <1>3, <1>4, <1>5, <1>6, <1>7, <1>8, MovesOutside

LEMMA RequestKeeps ==
  ASSUME CodecInv, NEW t \in Threads, RequestFirst(t) \/ Promote(t) PROVE CodecInv'
<1>1. Types /\ Active(t) /\ UNCHANGED <<flags, early, paced, stopping, owed, prepared,
                                        interrupted, nextInput, outputs>>
  BY DEF RequestFirst, Promote, At, Active, CodecInv, ends, codec
<1>2. owed' => owed
  BY <1>1, Zenon
<1>3. [kind EXCEPT ![t] = "reset"] \in [Threads -> {"restart", "reset"}] /\ kind[t] \in {"restart", "reset"}
  BY <1>1 DEF Types
<1>4. "check" \in Place \ (Recovering \cup {"absent"}) /\ "promote" \in Place \ (Recovering \cup {"absent"})
  BY DEF Place, Recovering
<1>5. CASE RequestFirst(t)
  <2>1. /\ UNCHANGED <<stage, unexpected>>
        /\ \/ type' = kind[t] /\ at' = [at EXCEPT ![t] = "check"] /\ kind' = [kind EXCEPT ![t] = "reset"]
           \/ type # "none" /\ UNCHANGED <<type, kind>> /\ at' = [at EXCEPT ![t] = "promote"]
    BY <1>5 DEF RequestFirst, Request, Handled, Go, ends
  <2>2. StopBegun' /\ (unexpected' => unexpected)
    <3>1. unexpected' => unexpected
      BY <2>1, Zenon
    <3> QED BY <1>1, <2>1, <3>1 DEF CodecInv, StopBegun
  <2>3. CASE type' = kind[t] /\ at' = [at EXCEPT ![t] = "check"] /\ kind' = [kind EXCEPT ![t] = "reset"]
    BY <1>1, <1>2, <1>3, <1>4, <2>2, <2>3, MovesOutside
  <2>4. CASE type # "none" /\ UNCHANGED <<type, kind>> /\ at' = [at EXCEPT ![t] = "promote"]
    BY <1>1, <1>2, <1>3, <1>4, <2>2, <2>4, MovesOutside DEF Types
  <2> QED BY <2>1, <2>3, <2>4
<1>6. CASE Promote(t) /\ type = "none"
  <2>1. at[t] = "promote" /\ stage' = "crashed" /\ UNCHANGED <<type, at, kind>>
    BY <1>6 DEF Promote, At
  <2>2. ~early => stopping
    BY <1>6, <2>1 DEF CodecInv, NotCancelled
  <2>3. StopBegun'
    BY <1>1, <2>1 DEF CodecInv, StopBegun
  <2> QED BY <1>1, <1>2, <2>1, <2>2, <2>3, NobodyMoves DEF Types
<1>7. CASE Promote(t) /\ type # "none"
  <2>1. /\ UNCHANGED <<stage, unexpected>> /\ type' \in {type, "reset"}
        /\ at' = [at EXCEPT ![t] = "check"] /\ kind' = [kind EXCEPT ![t] = "reset"]
    BY <1>7 DEF Promote, Handled, Go
  <2>2. unexpected' => unexpected
    BY <2>1, Zenon
  <2>3. StopBegun' /\ type' \in {"none", "restart", "reset"} /\ type' # "none"
    BY <1>1, <1>7, <2>1 DEF CodecInv, StopBegun, Types
  <2> QED BY <1>1, <1>2, <1>3, <1>4, <2>1, <2>2, <2>3, MovesOutside
<1> QED BY <1>5, <1>6, <1>7

-----------------------------------------------------------------------------
(***************************************************************************)
(* Starting and stopping.                                                  *)
(***************************************************************************)
LEMMA QuitKeeps == ASSUME CodecInv, Quit PROVE CodecInv'
<1>1. /\ Types /\ at["choreographer"] = "loop" /\ at' = [at EXCEPT !["choreographer"] = "ended"]
      /\ UNCHANGED <<flags, early, paced, stopping, type, kind, prepared, interrupted, stage,
                     nextInput, outputs,
                     owed, unexpected>>
  BY DEF Quit, At, Go, CodecInv, recovery, codec, ends
<1>2. stopping
  <2>1. stage \in {"quit", "join"} \/ prepared = 2
    BY DEF Quit
  <2> QED BY <2>1 DEF CodecInv, StopBegun
<1>3. /\ at' \in [Threads -> Place] /\ at'["choreographer"] = "ended"
      /\ \A u \in Threads \ {"choreographer"} : at'[u] = at[u]
  BY <1>1 DEF Types, Place, Threads
<1>4. Types' /\ StopBegun'
  BY <1>1, <1>3 DEF CodecInv, Types, StopBegun
<1>5. \A u \in Threads : at'[u] \in Recovering => at[u] \in Recovering
  BY <1>3 DEF Recovering
<1>6. ~early => OneRecovers'
  BY <1>1, <1>5 DEF CodecInv, OneRecovers
<1>7. ~early => FlaggedRest'
  <2> SUFFICES ASSUME ~early, NEW u \in flags
               PROVE  \/ at'[u] \in {"asleep"} \cup Recovering
                      \/ at'[u] = "absent" /\ ~paced
                      \/ at'[u] \in {"loop", "ended"} /\ stopping
    BY <1>1 DEF FlaggedRest
  <2>1. u \in Threads
    BY <1>1 DEF Types
  <2>2. CASE u = "choreographer"
    BY <1>2, <1>3, <2>2
  <2>3. CASE u # "choreographer"
    BY <1>3, <2>1, <2>3 DEF CodecInv, FlaggedRest
  <2> QED BY <2>2, <2>3
<1>8. NotCancelled' /\ OwedAsleep'
  BY <1>1, <1>2 DEF NotCancelled, OwedAsleep
<1>9. unexpected' => stopping'
  BY <1>1, <1>2
<1>10. early' = early
  BY <1>1
<1> QED BY <1>4, <1>6, <1>7, <1>8, <1>9, <1>10 DEF CodecInv

\* Before start there is no Choreographer thread.
NotStarted == stage = "start" => at["choreographer"] = "absent"

LEMMA StartKeeps == ASSUME CodecInv, NotStarted, Start PROVE CodecInv'
<1>1. /\ Types /\ at["choreographer"] = "absent" /\ stage' = "up"
      /\ UNCHANGED <<flags, early, paced, stopping, type, kind, prepared, interrupted, nextInput,
                     outputs,
                     owed, unexpected>>
  BY DEF Start, NotStarted, CodecInv, recovery, codec
<1>2. StopBegun'
  BY <1>1 DEF CodecInv, StopBegun
<1>3. (owed' => owed) /\ (unexpected' => unexpected) /\ (stopping => stopping')
  BY <1>1, Zenon
<1>4. CASE ~paced
  BY <1>1, <1>2, <1>3, <1>4, NobodyMoves DEF Start, Types
<1>5. CASE paced
  <2>1. at' = [at EXCEPT !["choreographer"] = "loop"]
    BY <1>5 DEF Start, Go
  <2>2. /\ at' \in [Threads -> Place] /\ at'["choreographer"] = "loop"
        /\ \A u \in Threads \ {"choreographer"} : at'[u] = at[u]
    BY <1>1, <2>1 DEF Types, Place, Threads
  <2>3. Types'
    BY <1>1, <2>2 DEF Types
  <2>4. ASSUME ~early PROVE OneRecovers' /\ FlaggedRest' /\ NotCancelled' /\ OwedAsleep'
    <3>1. "choreographer" \in Threads \ flags
      BY <1>1, <1>5, <2>4 DEF CodecInv, FlaggedRest, Threads, Recovering
    <3>2. \A u \in Threads : at'[u] \notin Recovering
      BY <2>2, <2>4, <3>1 DEF CodecInv, OneRecovers, Recovering
    <3>3. OneRecovers'
      BY <3>2 DEF OneRecovers
    <3>4. FlaggedRest'
      <4> SUFFICES ASSUME NEW u \in flags
                   PROVE  \/ at'[u] \in {"asleep"} \cup Recovering
                          \/ at'[u] = "absent" /\ ~paced
                          \/ at'[u] \in {"loop", "ended"} /\ stopping
        BY <1>1 DEF FlaggedRest
      <4>1. u \in Threads \ {"choreographer"}
        BY <1>1, <3>1 DEF Types
      <4> QED BY <2>2, <2>4, <4>1 DEF CodecInv, FlaggedRest
    <3>5. NotCancelled'
      BY <1>1, <2>2, <2>4 DEF CodecInv, NotCancelled
    <3>6. OwedAsleep'
      <4>1. "input" \in Threads \ {"choreographer"}
        BY DEF Threads
      <4> QED BY <1>1, <1>3, <2>2, <2>4, <4>1 DEF CodecInv, OwedAsleep
    <3> QED BY <3>3, <3>4, <3>5, <3>6
  <2>5. ~early' /\ unexpected' => stopping'
    BY <1>1 DEF CodecInv
  <2>6. early' = early
    BY <1>1
  <2> QED BY <1>2, <2>3, <2>4, <2>5, <2>6 DEF CodecInv
<1> QED BY <1>4, <1>5

\* Steps of stopping and of setHdrMode.
LEMMA StopsKeep ==
  ASSUME CodecInv, \/ SetStopping \/ CancelRecovery \/ EnterStop \/ JoinThreads
                   \/ ChangeHdr \/ RequestHdr \/ UNCHANGED vars
  PROVE  CodecInv'
<1>1. /\ Types
      /\ UNCHANGED <<at, flags, early, paced, kind, nextInput, outputs, owed, unexpected>>
  BY DEF SetStopping, CancelRecovery, EnterStop, JoinThreads, ChangeHdr, RequestHdr, Request,
         CodecInv, recovery, codec, vars
<1>2. (owed' => owed) /\ (unexpected' => unexpected)
  BY <1>1, Zenon
<1>3. stopping => stopping'
  <2>1. UNCHANGED stopping \/ stopping' = TRUE
    BY DEF SetStopping, CancelRecovery, EnterStop, JoinThreads, ChangeHdr, RequestHdr, vars
  <2> QED BY <2>1, Zenon
<1>4. StopBegun'
  BY DEF SetStopping, CancelRecovery, EnterStop, JoinThreads, ChangeHdr, RequestHdr, vars, ends,
         CodecInv, StopBegun
<1>5. type' \in {"none", "restart", "reset"} /\ (type' = "none" => type = "none" \/ stopping')
  BY <1>1 DEF SetStopping, CancelRecovery, EnterStop, JoinThreads, ChangeHdr, RequestHdr, Request,
         CodecInv, Types, StopBegun, recovery, vars
<1> QED BY <1>1, <1>2, <1>3, <1>4, <1>5, NobodyMoves

LEMMA NotStartedKept == ASSUME CodecInv, NotStarted, [Next]_vars PROVE NotStarted'
<1> SUFFICES ASSUME stage' = "start" PROVE at'["choreographer"] = "absent"
  BY DEF NotStarted
<1>1. CASE NewRenderer
  BY <1>1 DEF NewRenderer, Threads
<1>2. CASE Start \/ ChangeHdr \/ RequestHdr \/ SetStopping \/ CancelRecovery \/ EnterStop \/ JoinThreads
           \/ UNCHANGED vars
  BY <1>2 DEF Start, ChangeHdr, RequestHdr, SetStopping, CancelRecovery, EnterStop, JoinThreads,
              NotStarted, vars, ends
<1>3. ASSUME NEW t \in Threads, at[t] # "absent", (\E q : Go(t, q)) \/ UNCHANGED at,
             stage' \in {stage, "crashed"}
      PROVE  at'["choreographer"] = "absent"
  BY <1>3 DEF Go, CodecInv, Types, Threads, NotStarted
<1>4. ASSUME NEW t \in Threads, RecoveryStep(t) \/ ExceptionStep(t)
      PROVE  at'["choreographer"] = "absent"
  <2>1. at[t] # "absent"
    BY <1>4 DEF RecoveryStep, ExceptionStep, CheckRequired, Quiesce, Wake, Configure, FinishRecovery,
                RequestFirst, Promote, At
  <2>2. stage' \in {stage, "crashed"}
    BY <1>4 DEF RecoveryStep, ExceptionStep, CheckRequired, Quiesce, Wake, Configure, Configured,
                SurfaceGone, FinishRecovery, RequestFirst, Promote, ends
  <2>3. (\E q : Go(t, q)) \/ UNCHANGED at
    <3>1. \A r \in BOOLEAN : Resume(t, r) => \E q : Go(t, q)
      BY ResumeFacts DEF Go
    <3> QED BY <1>4, <3>1 DEF RecoveryStep, ExceptionStep, CheckRequired, Quiesce, Wake, Configure,
                Configured, SurfaceGone, FinishRecovery, RequestFirst, Promote, Handled
  <2> QED BY <1>3, <2>1, <2>2, <2>3
<1>5. ASSUME NEW t \in Threads, at[t] # "absent",
             Throw(t) \/ (NoThrow /\ \E q : Go(t, q))
             \/ ((\E q : Go(t, q)) /\ UNCHANGED stage)
      PROVE  at'["choreographer"] = "absent"
  <2>1. (\E q : Go(t, q)) \/ UNCHANGED at
    BY <1>5 DEF Throw, Handled
  <2>2. stage' \in {stage, "crashed"}
    BY <1>5 DEF Throw, NoThrow
  <2> QED BY <1>3, <1>5, <2>1, <2>2
<1>6. CASE TakeOutput \/ TakeOldest \/ AddOutput
  <2>1. "render" \in Threads /\ at["render"] # "absent"
    BY <1>6 DEF TakeOutput, TakeOldest, AddOutput, At, Threads
  <2>2. \/ Throw("render") \/ (NoThrow /\ \E q : Go("render", q))
        \/ ((\E q : Go("render", q)) /\ UNCHANGED stage)
    BY <1>6 DEF TakeOutput, TakeOldest, AddOutput, ends
  <2> QED BY <1>5, <2>1, <2>2
<1>7. CASE DoFrame \/ ShowOutput \/ Quit
  <2>1. at["choreographer"] # "absent"
    BY <1>7 DEF DoFrame, ShowOutput, Quit, At
  <2>2. stage # "start"
    BY <2>1 DEF NotStarted
  <2>3. stage' \in {stage, "crashed"}
    BY <1>7 DEF DoFrame, ShowOutput, Quit, Throw, NoThrow, ends
  <2> QED BY <2>2, <2>3
<1>9. CASE DecoderHung
  BY <1>9 DEF DecoderHung
<1>8. CASE InputStep /\ ~DecoderHung
  <2>1. "input" \in Threads /\ at["input"] # "absent"
    BY <1>8 DEF InputStep, Submit, Fetch, ReturnOk, QueueInput, At, Threads
  <2>2. \/ Throw("input") \/ (NoThrow /\ \E q : Go("input", q))
        \/ ((\E q : Go("input", q)) /\ UNCHANGED stage)
    BY <1>8 DEF InputStep, Submit, Fetch, ReturnOk, QueueInput, ends
  <2> QED BY <1>5, <2>1, <2>2
<1> QED BY <1>1, <1>2, <1>4, <1>6, <1>7, <1>8, <1>9 DEF Next, RenderStep, FrameStep, FeedStep, Threads

-----------------------------------------------------------------------------
\* The inductive invariant of recovery (MediaCodecDecoderRenderer.java 611-853).
THEOREM CodecInvariant == Spec => [](CodecInv /\ NotStarted)
<1>1. Init => CodecInv /\ NotStarted
  <2>1. Init => NotStarted
    BY DEF Init, NotStarted, Threads
  <2> QED BY <2>1, CodecInit
<1>2. CodecInv /\ NotStarted /\ [Next]_vars => CodecInv'
  <2> SUFFICES ASSUME CodecInv, NotStarted, [Next]_vars PROVE CodecInv'
    OBVIOUS
  <2>1. ASSUME NEW t \in Threads, RecoveryStep(t) PROVE CodecInv'
    BY <2>1, CheckKeeps, QuiesceKeeps, WakeKeeps, ConfigureKeeps, FinishKeeps DEF RecoveryStep
  <2>2. ASSUME NEW t \in Threads, ExceptionStep(t) PROVE CodecInv'
    BY <2>2, RequestKeeps DEF ExceptionStep
  <2>3. CASE RenderStep
    BY <2>1, <2>2, <2>3, ThreadsKeep DEF RenderStep, Threads
  <2>4. CASE FrameStep
    BY <2>1, <2>2, <2>4, ThreadsKeep, LoopsKeep, QuitKeeps DEF FrameStep, Threads
  <2>5. CASE FeedStep
    BY <2>1, <2>2, <2>5, ThreadsKeep, LoopsKeep DEF FeedStep, InputStep, Threads
  <2>6. CASE Start
    BY <2>6, StartKeeps
  <2>7. CASE \/ SetStopping \/ CancelRecovery \/ EnterStop \/ JoinThreads
             \/ ChangeHdr \/ RequestHdr \/ UNCHANGED vars
    BY <2>7, StopsKeep
  <2>8. CASE NewRenderer
    BY <2>8, CodecRestart
  <2> QED BY <2>3, <2>4, <2>5, <2>6, <2>7, <2>8 DEF Next
<1>3. CodecInv /\ NotStarted /\ [Next]_vars => NotStarted'
  BY NotStartedKept
<1> QED BY <1>1, <1>2, <1>3, PTL DEF Spec

\* While a thread recovers the codec no other uses it and nothing of the old
\* codec is kept, an IDR frame is asked for after each recovery, and a request
\* is of an unexpected type only when the stream stops; for any number of
\* tries, of buffers and of exceptions.
THEOREM RecoveryIsSafe == Spec => []RecoveryIsExclusive
<1>1. CodecInv => RecoveryIsExclusive
  <2> SUFFICES ASSUME CodecInv, ~early PROVE RecoveryIsExclusive
    BY DEF RecoveryIsExclusive
  <2>1. ASSUME NEW t \in Threads, at[t] \in Recovering
        PROVE  (\A u \in Threads \ {t} : ~Using(u)) /\ ~nextInput /\ outputs = 0
    <3>1. flags = Threads /\ ~nextInput /\ outputs = 0
      BY <2>1 DEF CodecInv, OneRecovers
    <3>2. ASSUME NEW u \in Threads \ {t} PROVE ~Using(u)
      BY <3>1, <3>2 DEF CodecInv, FlaggedRest, Using, Recovering
    <3> QED BY <3>1, <3>2
  <2>2. at["input"] = "loop" /\ ~stopping => ~owed
    BY DEF CodecInv, OwedAsleep, Recovering
  <2>3. unexpected => stopping
    BY DEF CodecInv
  <2> QED BY <2>1, <2>2, <2>3 DEF RecoveryIsExclusive, Recovering
<1> QED BY <1>1, CodecInvariant, PTL
=============================================================================
