# Verification of the Antcloud streaming client

The repository is an Android client for game streaming (a Moonlight fork).
Its own core is the C library `app/src/main/jni/core/common-c/src` (paths
below are relative to it unless they start with `java/`): it negotiates a
session, receives video and audio over UDP with forward error correction,
keeps an encrypted control channel, sends input, and calls back into a
decoder, an audio renderer and a connection listener. The Java and Kotlin code
around it implements those callbacks, pairing, discovery and the user
interface. `enet/`, `reedsolomon/`, openssl and libopus are vendored.

## 1. Inventory

| component | state it keeps | operations | talks to | what is hard |
|---|---|---|---|---|
| Queue (`LinkedBlockingQueue.c`) | linked list, size, shutdown/draining/pendingUserWake | offer, wait, poll, peek, flush, shutdown, drain, user wake, destroy | every worker thread | signals sent after the unlock, only on empty to non-empty; flush against wait |
| Connection (`Connection.c`) | stage counter, ConnectionInterrupted, alreadyTerminated | start, stop, interrupt, termination callback | all stages, the listener | termination from several threads, stop racing a failure, unwinding from any stage |
| Video depacketizer (`VideoDepacketizer.c`) | frame numbers, waiting-for-IDR / RFI / next-frame flags, frame under assembly | packet in, frame lost, complete frame, IDR request | decode unit queue, control stream | recovery after loss with two threads writing the same flags |
| Video FEC queue (`RtpVideoQueue.c`) | pending and completed packets of one FEC block, its sequence window, loss counters | add packet, reconstruct, submit | depacketizer | sequence wrap, duplicates, reordering, multi-block frames |
| Audio FEC queue (`RtpAudioQueue.c`) | FEC block list, next sequence number, discontinuity flags | add packet, get queued packet | audio stream | wrap, reordering, recovery, giving up on lost blocks |
| Control stream (`ControlStream.c`) | ENet peer, IDR event, the queues of five threads, loss statistics | request IDR, invalidate frames, send, receive, start, stop | connection, depacketizer, listener | wakeups at stop, coalesced requests and states, a disconnect that overtakes messages |
| Input stream (`InputStream.c`) | packet queue, holder free list, batched mouse/pen/motion state | send events, sender thread | control stream | batching under a lock, dirty flags, saturation |
| Audio and video streams (`AudioStream.c`, `VideoStream.c`) | sockets, ping/receive/decode threads, first-packet flags | init, start, stop, destroy | queues, renderer | joining threads that wait on each other, partial start |
| RTSP (`RtspConnection.c`, `RtspParser.c`, `SdpGenerator.c`) | session, ports, sequence counter | handshake | connection | request/response order, retry without encryption |
| Connection tester (`ConnectionTester.c`) | sockets and a result mask | test ports | application | timeouts |
| Platform (`Platform.c`, `PlatformSockets.c`, `PlatformCrypto.c`) | thread, mutex, event wrappers and counters | create, join, wait, signal | everything | events cleared without the lock |
| JNI glue (`../../callbacks.c`, `../../simplejni.c`) | cached method ids, byte arrays | callbacks into Java | Java | thread attachment |
| Streaming session (`java/ui/Game.java`, `java/nvstream/NvConnection.java`, `java/nvstream/jni/AntBridge.java`) | activity flags, semaphore, class lock, bridge listener | start, stop, surface and activity events | JNI, UI thread | start and stop threads against activity events |
| Decoder renderer (`java/binding/video/MediaCodecDecoderRenderer.java`) | the codec, a recovery type, flags of quiesced threads, buffers | submit, take out, show, recover, change HDR mode, stop | MediaCodec, decoder thread, UI | three threads that must all let go of a codec that any of them saw failing |
| Rest of the Java client (`java/...`) | controllers, computer manager, pairing, account screens | UI and device events | JNI, HTTP | many small state machines |

How they interact. `LiStartConnection` brings eleven stages up in order; four
of them create threads that run until `LiStopConnection` joins them. Every
thread hands work to another through a linked blocking queue or an event. The
video receive thread runs the video FEC queue and the depacketizer; the
depacketizer hands frames to the decoder (directly, as the app does, or by a
queue) and asks the control stream for IDR frames or for the invalidation of
lost reference frames. The audio receive thread runs the audio FEC queue and
feeds the audio decoder thread. Any of these threads may report a fatal error;
a detached thread then calls the client, which is the bridge, which posts to
the UI thread of the activity that started the session.

### What is hard, and what correct means

- Queue: the signal is sent after the unlock and only when the queue was empty.
  Correct means a FIFO that loses no entry and no wakeup, delivers what was
  accepted before a drain, and releases its waiter at shutdown.
- Connection: a stop may meet a failure that is being reported, and a start may
  fail at any stage. Correct means that threads never outlive their stage, that
  a connection is fully up or fully down, that start and stop return, and that
  a fatal error reaches the client unless it has left.
- Session: activity events and library callbacks come in any order and every
  start and stop is a thread of its own. Correct means one session at a time,
  one permit per session, and callbacks that reach their own activity.
- Video FEC queue: packets are lost, repeated and reordered across blocks and
  frames and over the wrap of the sequence numbers. Correct means whole frames,
  in order, exact counters, and the reports of loss the depacketizer needs.
- Depacketizer: a loss, a corrupt packet, an overflow, a refresh and a wrong
  prediction may come together. Correct means that no P frame follows a hole,
  that what is reported lost is exactly what was lost, and that an awaited IDR
  frame has been asked for.
- Audio FEC queue: several blocks are open at once and one may be given up
  while its packets are on their way. Correct means every packet once, in
  order, concealed only when it is not there.
- Control stream: two threads flush the windows of lost frames while a third
  merges them and two more report them. Correct means that the host is told of
  every loss and the client of every state the queue accepted, that what arrived
  before the host's disconnect is handled first, that start and stop return whatever five threads
  are doing, and that a dead host is reported.
- Input stream: states are batched under one lock, queued under another and
  filled in by a third party. Correct means that a dirty flag stands for exactly
  one packet, that no movement is lost or doubled, that a click does not
  overtake the movement before it, and that stopping sends what was accepted.
- Decoder renderer: every thread that uses the codec must stop before one of
  them rebuilds it. Correct means that nobody uses it meanwhile, no buffer of
  the old codec survives, the host is asked for an IDR frame, and neither
  recovery nor stopping hangs.

The list of hazards, each at its line, is in `PROJECT.json`.

## 2. Modules

| module | what it is | source |
|---|---|---|
| `BoundedQueue` | abstract specification: a bounded FIFO whose calls are atomic | the contract of `LinkedBlockingQueue.h` |
| `LinkedBlockingQueue` | the pointer list, the condition variable, signals after the unlock | `LinkedBlockingQueue.c` |
| `Connection` | stages, worker threads, termination | `Connection.c`, `VideoStream.c` (as the model of a stage with threads) |
| `StreamSession` | activities, NvConnection, bridge; the library as `Connection` shows it | `Game.java`, `NvConnection.java`, `AntBridge.java` |
| `FrameDelivery` | abstract specification: what the video FEC queue promises the depacketizer | `RtpVideoQueue.c` |
| `RtpVideoQueue` | the video FEC queue | `RtpVideoQueue.c` |
| `VideoDepacketizer` | loss recovery and the decode unit queue, over `FrameDelivery` | `VideoDepacketizer.c`, `VideoStream.c` |
| `RtpAudioQueue` | the audio FEC queue and the loop that empties it | `RtpAudioQueue.c`, `AudioStream.c` |
| `ControlStream` | five threads, three queues, the IDR event, the host and the network | `ControlStream.c` |
| `InputStream` | client threads, the batched states, the sender | `InputStream.c` |
| `CodecRecovery` | three threads that share a codec, its recovery, and stopping | `MediaCodecDecoderRenderer.java` |
| `...Proofs` of the queue, `StreamSession` (with `Connection`), `RtpVideoQueue`, `RtpAudioQueue`, `VideoDepacketizer`, `ControlStream`, `InputStream` and `CodecRecovery` | theorems | |
| `MC...` | constants for TLC | |

`RtpVideoQueue` is shown to implement `FrameDelivery` (property `DeliverySpec`,
theorem `QueueDelivers`), and `VideoDepacketizer` is checked with `FrameDelivery` in its place
(`Fec == INSTANCE FrameDelivery`): together they cover the path from packets to
decode units without the product of the two state spaces. `StreamSession` uses
`Connection` in the same way, by what its properties say: LiStop returns, a
failed start leaves nothing, a fatal error is reported once (see finding
`SingleTerminationCallback`). `ControlStream` and `InputStream` take the queues
they use as sequences with atomic calls, which is what `BoundedQueue` says and
`LinkedBlockingQueue` is proved to implement; `ControlStream` is in turn the
inside of a stage that `Connection` starts and stops, and the other end of the
reports `VideoDepacketizer` makes (its windows start and end as the theorem
`WindowsAreExact` says).

### LinkedBlockingQueue

One critical section of the code is one step. `PltSignalConditionVariable` runs
after the unlock, so it is a step of its own and `pc` holds the thread in
"signal" until then; wakeups may also be spurious. `head`, `tail` and `flink`
are the code's pointers; `items` is a history variable the invariants compare
them with. `Flusher` and `Waker` say which threads flush and user-wake. A peek is
only made by the thread that polls, and what it saw is what it polls next unless
a flush came between (`PeekedIsNext`).

### Connection

`stage` counts as in the code. The caller's thread is in one of the states of
`caller`; a stage with threads is initialised in two steps, since its threads
run before its start function returns. A worker runs, tests the flags
(`CheckTerminated`), raises them and creates the AsyncTerm thread (`Terminate`)
in separate steps: the code takes no lock. AsyncTerm threads call the client at
any later time. The creation of that thread is taken to succeed.

### StreamSession

A `Game` is one activity from launch to its end. The UI thread runs one event
or runnable at a time; the start and stop threads of `NvConnection` have one
step per statement that another thread can observe. `lock` is the class lock of
`AntBridge`, `permits` the semaphore. `hasty` is the set of users who may leave
while their connection is starting: all of them, or, in the behaviours the
liveness property speaks of, none.

### RtpVideoQueue

A packet is its block and index; its sequence number is computed, modulo
`SeqModulus`. `RtpvAddPacket` is split where `reconstructFrame` begins: first
the packet is rejected, added to its block, starts a block, or proves blocks
lost; then the block is complete, given up by prediction, waits, or is
recovered. `phase` is the place in the call: "waiting" for a packet, "received"
one, or "recovering" the block, where `StartRecovery` has found enough packets
and `RecoverPacket` puts the missing ones in, one a step, before the block is
completed. `queue` is the C structure, field by field, except that lists are
sequences. `arrived` and `submitted` are history. A block is assumed shorter
than half the sequence space, which `U16` differences need to be meaningful: a
real block has at most 1023 data packets (a field of ten bits) and, at 255 per
cent, 2609 parity packets, well below 32768.

### VideoDepacketizer

A frame is a first packet (`BeginFrame` and what follows from it) and a
completion, so that the decoder thread can act in between; with a decoder queue
its refresh is three steps, as the three statements of `requestDecoderRefresh`
are. `waiting` holds the three wait flags. `directSubmit`, chosen in `Init`, is the
capability of the renderer: frames go to it on the receive thread, or by the
queue. `offered`, `asked`, `refreshed`, `predicted` (a
loss was predicted since the last IDR frame) and `rfi` are history; so is `late`,
the last frame that was past the checks of the wait flags when the decoder's
refresh was over. Frame types are those of hosts from 7.1.350 on.

### RtpAudioQueue

`AddPacket` is one call of `RtpaAddPacket`: the packet synchronizes the queue,
is rejected, is handed over at once (`HandleNow`), or is queued, whereupon the
queue may resynchronize or give up a block. `PullPacket`, `PullLost` and
`PullNothing` are the calls of `RtpaGetQueuedPacket` that follow. A block keeps
the shards received, and `fullyReassembled` stands for the marks a recovery
clears. Time is the age of the first block in blocks: none has timed out before
a later block has come, each has after `Patience` blocks. `restarted` is history,
read by no action: a queue with blocks in its list was taken for one that was
never started (section 5).

### ControlStream

`todo` holds what is left of the procedure the caller's thread is in, so that
`StartSteps`, `UndoSteps` and `StopSteps` read like `startControlStream`, its
error path and `stopControlStream`; a failed start undoes what exists by then.
`Hdr` is the one display, if it can do HDR, so that its key is the only one of its
kind.
`pc` holds each thread's place. `PltWaitForEvent` and `PltClearEvent` are two
steps, as are the flush and the `PltSetEvent` of `LiRequestIdrFrame`. ENet is
modelled from its use: any thread that services the host moves messages into
`inbox`; a disconnect notice is dropped while `intercept` is set and repeated
until it is let through, and turns the peer into a zombie then. `untold` is
history: frames lost, and 0 for an IDR request, that the host has not been told.

### InputStream

A call of a client thread is entered, allocates a holder, and offers it; calls
on batched states hold `batchedInputMutex` in between, so the second step is
only taken by one of them. The sender takes a packet, fills it in
(`relative`, `fill`), merges what follows it (`batch`), and sends. `settled` is
history: of each batched state, the newest value for which a call has returned,
which is what an event accepted later comes after. `refused`
remembers that the queue was full, in which case the code drops events by
design; `failed` that the connection broke.

### CodecRecovery

`at` holds each thread's place between the calls that can throw and
`doCodecRecoveryIfRequired`; the compare-and-set operations of
`handleDecoderException` are steps of their own. The monitor is held over
several steps only by the thread that recovers. The size test, `take()` and
`add()` of the renderer on its output buffers are three steps, against the
`poll()` of the Choreographer's callback, and `interrupted` is the renderer's
interrupt status, which `prepareForStop` sets and which ends a blocked `take()`
or a wait. `early`, `mistimed`, `missed` and `unexpected` are history: they mark
races of section 5, which the properties exclude by name, as they do the state
`Starved`.

## 3. Runs

| run | instance | what it shows |
|---|---|---|
| `queue` | 2 producers, 3 entries, bound 2; flush, user wake, peek, worker loop | `ListSpellsItems`, `NoLostWakeup`, `PeekedIsNext`, refinement of `BoundedQueue`; shutdown releases the waiter, a drained queue is emptied |
| `connection` | 2 control threads, 1 video thread | `WorkersWithinStage`, `AllOrNothing`, `StopSilencesWorkers`; start and stop return; a fatal error is reported |
| `conn_single` (violated) | the same | two threads that fail together tell the client twice |
| `session` | 3 activities, hasty users or none | `SemaphoreCountsSessions`, `CallbacksReachTheirGame`, `StopsItsOwnSession`, `StartsWhenDown`; a waiting connection gets its turn |
| `sess_leave` (violated) | 2 activities | a session left while it starts is never released |
| `video` | 6 frames, drop limit 3, predictions; direct submit, or a queue of 2 and a decoder thread | `NoGapBeforeP`, `RfiWindowExact`, `RecoveryIsOver`, `RefreshThenNoP`, `IdrBeforeP`, `IdrIsOnItsWay` |
| `rtpv_queue` | 4 frames of 2+1+2+1 blocks, 2 data and 2 parity packets, modulo 32 | `HolesExact`, `ReconstructAsserts`, `FramesWhole`, refinement of `FrameDelivery` |
| `rtpv_corrupt` (violated) | the same | a packet that failed recovery is submitted |
| `rtpa_queue` | 10 blocks of 2 data and 1 FEC packet, modulo 24 | `ListMatchesWindow`, `NothingSkippedOrRepeated`, `PlayedAsArrived`, until a queue in use is taken for one not started |
| `control` | 3 requests, or 2 messages, or two of a request, a message and a failure; queues of 1, 1 and 2 | `NoLossForgotten`, `StatesReachClient`, `ReceivedBeforeDisconnect`; start and stop return, the host is told, its death is reported |
| `input` | 2 clients, 3 events per stream, queue of 2, a 2-bit "int16" | `BatchedStateAccounted`, `EventsInOrder`; stopping drains |
| `codec` | 2 exceptions or HDR changes, 1 recovery tried, 2 output buffers (the code's limit) | `RecoveryIsExclusive`; recovery, HDR change and stop end |

### Why the bounds are enough

- Queue: with a bound of two, lists are empty, single and full; three entries
  leave one outside a full list, with a stale flink; two producers are enough
  for two signals on their way at once and for an offer between another's
  unlock and signal.
- Connection: two threads of one stage and one of another, so that failures
  coincide within a stage and across stages, and a stage is joined while
  another's thread reports. Connections follow one another without bound.
- Session: with three activities a third may start while a delayed stop of the
  first and the callbacks of the second are pending.
- Depacketizer: six frames hold a loss, its recovery, a loss within
  the recovery and the third consecutive drop, at which the (scaled) limit
  acts. The queue of two overflows, and holds a frame and its successor when a
  refresh flushes it.
- Video FEC queue: frames with one and with two blocks, each followed by both
  kinds; numbers wrap inside frame 3. Two parity packets allow one or two
  recoveries in a block. Thirty-two numbers are few, so newer packets are taken
  for old ones after four lost blocks: the run passes through that too. The
  inductive invariants `BlockInv` and `FrameInv` were also checked on this instance.
- Audio FEC queue: `MaxLate` and `MaxSkip` keep at most four blocks open. Twelve
  blocks fill the sequence space; the ten begin three blocks before the wrap, so
  that reordering, loss and the return to fast recovery (after six blocks without
  reordering) meet it, and so that a queue with a block in its list is taken for
  one that was not started. What such a queue does next is not followed
  (`UntilRestarted`), and the three properties speak of the time before. The same properties were checked once
  with three data and two FEC packets, modulo 36 (ten million states).

- Control stream: with one place in the queue of windows it overflows at the
  second loss; three requests are a window being merged, one that waits and an
  IDR request, or two of those on their way at once. Two messages are a state
  and its successor, of the same key or another, or a state and the farewell. A
  failure next to a request or a message lets each thread notice first. The
  inductive invariant was also checked with four frames and a queue of two.
- Input stream: three events overflow a queue of two, leave one batched state
  behind another, and put a movement before and after a click. A 16-bit number
  of two bits makes one movement fill a packet and the next one split.
- Codec: one try is enough to reach the limit and the crash behind it; two
  events let a second exception, or a change of HDR mode, meet every step of
  the first recovery. Two output buffers are `OUTPUT_BUFFER_QUEUE_LIMIT`.

### Fairness

- Queue: a thread that has left the critical section goes on to signal, and a
  signalled waiter gets the mutex: weak fairness of these steps, which the
  scheduler gives. `LoopingSpec` adds that the worker calls the waiting function
  again, as the loops of the input and callback threads do. Nothing is assumed
  of callers that offer.
- Connection: weak fairness of each thread's own next step. No fairness makes a
  thread fail, a user stop, or a stage fail rather than succeed; a thread whose
  interrupt flag is set does leave its loop, because every blocking call in
  those loops has a timeout or is woken by the stop function.
- Session: the UI thread runs its runnables, started threads run, and a stopped
  activity loses its surface. Users need never leave.
- Control stream: each thread is scheduled, calls that were entered finish, a
  disconnect notice is repeated until acknowledged (ENet's retransmission), and
  ENet's timeout strikes a silent host. Nothing makes a loss, a message, a
  failure or a stop happen.
- Input stream: the sender and the stopping thread are scheduled and calls
  finish; no client need ever call.
- Codec: threads are scheduled, the codec answers or throws, and the host keeps
  sending frames, since the input thread looks at a recovery only when it is
  given one. The process may crash, as the code makes it do on purpose.
  `CHECK_DEADLOCK` is off because two of the races of section 5 hang the code.

No liveness is claimed of the two FEC queues and of the depacketizer: they are
driven by packets, which may simply stop.

## 4. Proofs

All theorems hold for every value of the constants that satisfies the named
assumptions of the modules. Eight modules hold them; each component's own
invariants are seldom inductive, and what was added to make them so is the
argument of the proof.

- `LinkedBlockingQueueProofs`. `ListCorrect`: `TypeOK` and `ListSpellsItems` are
  inductive together; two lemmas, on removing the first entry and on appending
  one, carry all operations. `WakeupNeverLost`: given the list invariant,
  `NoLostWakeup` is inductive by itself. `QueueRefinement`: each step of the
  list is a step of `BoundedQueue` or leaves it unchanged, `items` being its
  content. `PeekAgrees`: an entry peeked at stays the first as long as its number
  of removals is that of the queue, which the consumer alone changes. Assumptions:
  the consumer is no producer, `NULL` is no entry, and the
  bound is positive.
- `VideoDepacketizerProofs`. `DepacketizerInvariant` adds `Consecutive` (while
  nothing is awaited the last submitted frame is the one before the next, and so
  it is for a P frame in the making) and `WindowStart` (the window of lost
  frames starts right behind the last submitted one, and reference frames are
  invalidated only after an IDR frame was decoded). From it follow
  `WindowsAreExact` and the half of `NoHoleBeforeP` about submission, with any
  number of frames, either decoder and any drop limit. `HeldInvariant` follows
  the frames from there to the decoder: unless a refresh is being made, each P
  frame in the queue follows the one before it, and the one that may be submitted
  next follows the last one held, or else they were past the checks when a refresh
  was over (`late`). It gives the other half, about what is handed over.
  `WaitsInvariant` is about the three waits.
  `Recovery`: the wait for the next complete frame is never the only one, so a
  frame that reaches submission has ended it (`NoWaitLeft`). `IdrWait`: while
  reference frames cannot be invalidated, nothing is skipped unnoticed, nothing
  but an IDR frame is awaited, and a drop the decoder left pending was asked for
  (`AwaitedIdrIsRequested`). `Direct`: on the receive thread, what a refresh
  or the first frame waits for is still awaited or in the making, so no P frame
  follows a refresh (`NoPAfterRefresh`) and none precedes the first IDR frame
  (`IdrComesFirst`).
- `RtpVideoQueueProofs`. `BlockInvariant` says what the C structure means. A
  packet's place in the block is the difference of sequence numbers; the set of
  places that the pending list holds (`Held`) against those received over the
  network (`Sent`) tell what the fields mean: the counters of data, parity and
  missing packets are those of `Sent`, the unbroken run at the start and the fast
  path those of `Held`, and a prediction rests on both. The arithmetic modulo the sequence space is in a few lemmas at the
  front (`Modulo` and what follows from it), and the counters change by the
  cardinality of sets of places. `HolesAlwaysExact` and `AssertsHold` (the
  assertions of `reconstructFrame` and of the code it runs) follow. `FrameInv`
  adds that the blocks staged are those of the current frame, each whole and in
  order, so that `FramesComeWhole`; and `QueueDelivers` is the refinement of
  `FrameDelivery`: a packet that starts or completes a block, proves blocks
  lost, or lets a loss be predicted is the corresponding step of the abstract
  specification, and every other step a stutter. For any frames of up to four
  blocks, block sizes and first sequence number.
- `RtpAudioQueueProofs`. `AudioInvariant` measures each number by its distance
  ahead of `oldestRtpBaseSequenceNumber` (`Ahead`). What is accepted lies less
  than half of the numbers ahead; there the comparisons modulo the sequence space
  are an order, so the list is sorted by that distance (`Sorted`, `Placed`), and
  only a block that starts right at the oldest number can have been played from
  (`CursorAt`). Inserting a block, storing a shard, giving blocks up, removing the
  first one and skipping ahead each keep the four parts. `Heard` and `Behind` relate the
  list to the set of shards that arrived, and `PlayedAsArrived` to it.
  `ListAlwaysMatches`, `PlaysOnInOrder` and `PlaysWhatArrived` follow, for any
  shard counts and sequence space, whatever is lost, repeated, reordered or
  late. They are theorems of `Spec` with no further hypothesis, and speak of the
  time before `restarted` (`Spec => [](~restarted => AudioInv)`): until a queue
  with blocks in its list is taken for one that was not started, which the code
  can do (section 5), nothing goes wrong, and nothing but that can make it.
- `StreamSessionProofs`. `SessionInvariant`: the semaphore cannot be shown
  right from the semaphore alone. A permit is given back by a stop thread, which
  exists because an activity believed itself connected, which it does because
  news of a started connection was queued for it. `StartedOnce`, `StopOnce` and
  `OneAttempt` say that each link of the chain is used once, and
  `SessionOwnsLibrary` what the library does meanwhile. `PermitsCountSessions`,
  `BridgeIsOwn`, `StopsOnlyOwn` and `EntersDownLibrary` follow, for any set of
  activities, hasty or not.
- The last section of the same module is about the native library under that
  session, module `Connection`. `ConnectionInvariant`: `WorkersWithinStage` and
  `AllOrNothing` need two more facts to be inductive, that only a stage that owns
  threads is ever half started, and that a stop leaves `alreadyTerminated` set
  until the next start. `ThreadsJoined`, `FullyUpOrDown` and `NoReportAfterStop`
  follow. Assumption: each worker belongs to one of the four started streams.
- `ControlStreamProofs`. `ControlInvariant`: replacing the end of the range by
  that of the next window keeps the frames of both only because windows wait in
  the order they were reported in (`WindowsInOrder`), and an IDR request that was
  taken is sent only because nothing is told to stop while the stream is up
  (`NotStopping`). `LossesRemembered` follows, for any number of frames and any
  bound of the queue. `MessageInvariant`: the numbers of one state ascend from the
  callback in hand over the queue to what ENet still holds (`QueueAhead`,
  `InboxAhead`), so that batching replaces a state by a newer one only; the
  thread ends only on a queue that is being closed, which happens only in the
  steps of undoing and stopping (`TodoFits`, `QueueOpen`). `NoStateMissed` is
  `StatesReachClient` as a theorem, for any controllers and bounds.
  `DisconnectInvariant`: the messages owed to the client when the host
  disconnects are among those ENet holds, and once `intercept` is off none is
  owed; it goes on again only with the next connection, which the first step of
  a start makes (`ConnectsOnce`). `MessagesBeforeDisconnect` follows. It says what
  holds when the disconnect of a leaving host takes effect. A termination for
  another reason, a farewell message, a silent host or a failing network, may
  well leave messages unread, and the theorem says nothing of it.
- `InputStreamProofs`. `InputInvariant`: a call that found a flag clear still
  finds it clear when it offers its packet, because it holds the mutex
  (`LockExclusive`, `OfferPending`), and the queue drains only after no holder
  can be had (`ShutOrder`). `BatchingIsSound` follows, for any number of client
  threads, kinds of state, movements and bounds. `OrderInvariant`: the discrete
  events accepted and not sent are those merged into the packet in the sender's
  hand, then those in the queue, in this order (`InLine`), told apart by numbers
  no two of them share. `AfterInvariant`: a state that a discrete event must not
  overtake was sent, is in the sender's hand, or is in the queue before it
  (`Covered`), for events in the queue, in the hands of a call and of the sender;
  and so it is for whatever a call has returned for (`SettledCovered`). `DiscreteEventsInOrder`
  is `EventsInOrder` as a theorem.
- `CodecRecoveryProofs`. `CodecInvariant`: a thread whose flag is set sleeps,
  recovers the codec itself, or will not use it again because the stream stops
  (`FlaggedRest`); the flags are not forgotten meanwhile, because a thread that
  has found a recovery required is waited for (`NotCancelled`). `RecoveryIsSafe`
  is `RecoveryIsExclusive` as a theorem, for any limits and with or without the
  choreographer.

Only model-checked: all liveness properties, since fairness and ENABLED are out
of the prover's reach.

## 5. Where the code disagrees with what it says

Found by runs:

- `SingleTerminationCallback` (`Connection.c:162`): the flag is tested and set
  without a lock, so two failing threads both call the client.
- `LeftSessionReleases` (`NvConnection.java:88`, `Game.java:2235`): a session
  whose activity is left while it starts is stopped by nobody.
- `NoCorruptPacket` (`RtpVideoQueue.c:188`): most of `PACKET_RECOVERY_FAILURE()`
  is inside a comment.

Stated in the modules, violated, and kept out of the list of runs because one
run per question of the first order is kept; add the formula to the configuration
of the module to see the trace:

- `RefreshThenIdr` (`VideoDepacketizer.c:708`; `VideoBoth.cfg`): the wait for an IDR frame ends at its first packet. If a later
  packet is corrupt, the decoder gets an RFI frame instead.
- `ConcealedOnlyIfLost` (`RtpAudioQueue.c:648`; `RtpaQueue.cfg`): a FEC packet
  that overtakes a data packet leaves the block one shard short; the data packet
  that is due then takes the fast path, which does not try to complete the
  block, and the rest of it is concealed although it could be recovered.
- `ListMatchesWindow` without `~restarted` (`RtpAudioQueue.c:283`;
  `RtpaQueue.cfg` without its constraint): when the stream starts just before
  sequence number 0 and the blocks up to there are lost, the queue
  resynchronizes at block 0, takes its own `oldestRtpBaseSequenceNumber` for
  "not started" and starts over with that block still in the list. The
  assertions of lines 80 and 83 fail.
- `NoGapBeforeP` without `late` (`VideoDepacketizer.c:1113`; `VideoBoth.cfg`):
  the receive thread is past the wait flags with P frame n in its hand while the
  decoder's refresh flushes frame n - 1 from the queue; n is queued all the same,
  and the decoder is handed it after a hole. The refresh has asked for an IDR
  frame by then.
- `NoCallbackAfterStop` (`Connection.c:253`) and `FailedStartNotTerminated`
  (`Limelight.h:382`): an AsyncTerm thread may call the client after a stop, and
  a control thread may fail while a later stage fails to start. For the same
  reason a late AsyncTerm thread may call the listener of the next session, or
  find none: `bridgeClConnectionTerminated` reads the listener twice without a lock
  (`AntBridge.java:287`), which `StreamSession` takes as one step.
- `IdrBeforeP` without `directSubmit` (`VideoDepacketizer.c:229`): the decoder
  thread raises its wait between the receive thread's test and its offer.
- `IdrWaitHasPriority` (`VideoDepacketizer.c:1068`): an RFI frame can end the
  wait that would have repeated a lost IDR request. `IdrIsOnItsWay` without
  `~predicted`: a predicted loss waits for an IDR frame without asking for one.
  In both the picture recovers at the drop limit.

Excluded by name in the properties of `CodecRecovery`; drop the exception to see
the trace (lines of `MediaCodecDecoderRenderer.java`):

- `mistimed` (714-720): a thread still asleep after a recovery when the next one
  is requested waits on without raising its flag again, and that recovery never
  starts. A request made after `prepareForStop` cancelled the last one makes
  `stop` wait for ever for the Choreographer thread.
- `missed` (1202-1204): a change of HDR mode between the configuration of the
  codec and the end of that recovery finds a recovery under way, asks for none,
  and is not applied.
- `unexpected`: a thread whose compare-and-set failed reads "no recovery" because
  `prepareForStop` cancelled it in between, and throws "Unexpected codec recovery
  type". `RecoveryIsExclusive` shows that this happens only while stopping.
- `early`: a thread that quiesces before `start` has created the Choreographer
  thread raises that thread's flag for it; the Choreographer then uses a codec
  that is being recovered.
- `Starved` (990-992): the renderer finds the output queue full, the
  Choreographer's `poll()` empties it before the renderer calls `take()`, and the
  renderer, which alone adds to that queue, blocks. It never quiesces, so a
  recovery the others have begun waits for ever, and so does a change of HDR
  mode. Stopping ends even then, by the interrupt of `prepareForStop`.

Seen while modelling the control and input streams, stated by no property:

- Pen packets are merged into the newer one although it may be sent unreliably
  while the older, with a changed button, was to be sent reliably
  (`InputStream.c:548`, against the comment at 1369).
- `LiSendMouseMoveEvent` racing `stopInputStream` is refused because the queue
  drains, which `LC_ASSERT(err == LBQ_BOUND_EXCEEDED)` (799) does not expect.
- A control start that fails after the receive thread exists but before the
  callback thread does leaves `asyncCallbackQueue` open when it is destroyed,
  against the assertion in `LbqDestroyLinkedBlockingQueue`.

Seen while modelling the rest, stated by no property: `reportedLostFrame` outlives the
lost blocks it was set for, so the next wholly lost frame is not reported at
once (`RtpVideoQueue.c:679`); `isBefore16` is applied to a 32-bit frame index
(576); a first video sequence number in the upper half of the space is refused
(543); `consecutiveFrameDrops` is not reset by an initialisation.

## 6. Not modelled

`PROJECT.json` lists every component with the reason. In short: allocation
failures and free-list caches, hosts older than the current protocol, debugging
modes, encryption and parsing of payloads, how long a decoder must hang before the app crashes, socket errors (as causes; their
effect, a thread that fails, is modelled), loss statistics, RTSP, and the Java
code besides the session and the decoder renderer. Reed-Solomon decoding is
taken to recover what it should; that a recovered video packet can fail its
checks is modelled. All modules assume sequentially consistent memory: the code
reads flags such as `stopping` and `ConnectionInterrupted` without a lock.

Of the files that count as implementation, most lines are outside what a model
of this program can be about: the headers of openssl and opus, the sources of
ENet and the Reed-Solomon coder, and the screens, view models and REST calls of
the account service. The C library's own files with state and concurrency are
modelled except `RtspConnection.c`, which runs alone before any thread, and the
two stream files, whose loops are part of the queues' modules.

## 7. Plan

1. `AudioStream`: the packet queue of thirty with its flush on overflow, over
   `RtpAudioQueue`.
2. The polling threads of `ComputerManagerService`; `RtspHandshake` as the inside
   of the stage that `Connection` abstracts.

A run for a new module takes the place of one whose question another can ask.
