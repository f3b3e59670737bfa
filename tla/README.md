# A TLA+ verification of the graphic surface library

This directory models `graphic_surface`, the library through which OpenHarmony producers (applications, video decoders, cameras)
hand frames to consumers (the render service, encoders). The modules follow the source in
`src/`; `PROJECT.json` maps every definition that models code to its lines.

## 1. The system

| Component | State it keeps | Operations | What makes it correct |
|---|---|---|---|
| **BufferQueue** (`surface/src/buffer_queue.cpp`) | `bufferQueueCache_` (buffers with state, config, flags), `freeList_`, `dirtyList_`, `deletingList_`, sizes and the reservation counter, `isAllocatingBuffer_`, status and modes, the last-flushed lock | request, flush, cancel, acquire, release, attach/detach in three forms, resize, clean, pre-allocate | every buffer is in one pair of hands; lists and states agree; frames arrive once, in order; the queue is never overfilled; a blocked request is woken and served |
| **Frame pacing** (same file, `AcquireBuffer` with a timestamp) | per frame `desiredPresentTimestamp`, `isAutoTimestamp`; `dropFrameLevel_` | timed acquire, drop by level, drop by time | no frame before its time, no frame skipped for none, no dropped buffer lost |
| **LPP path** (same file) | a shared-memory ring with another process | set fd, acquire and flush LPP buffers | a slot that is shown is not overwritten; the newest frame is taken |
| **Attributes** (same file) | transforms, hints, scaling, tunnel layers, HDR metadata, names | get and set, notify | only values their readers expect get in; whoever is to be told is told; a frame has one matrix |
| **BufferQueueProducer** | connected pid, strict-disconnect flag, the death recipient | connect, disconnect, clean, go to background, remote death; IPC stubs | one process is connected; a dead producer leaves nothing behind |
| **BufferQueueConsumer, ConsumerSurface** | references to the queue; user data and its listeners | forwarding, user data | data and listeners agree |
| **ProducerSurface** | `bufferProducerCache_`, release listeners, the last hint, the window | request, flush, cache updates from `deletingBuffers`, release notices | what it is granted it can use; what the queue deletes it hears of; a released buffer is handed out once |
| **BufferClientProducer** | the last transform, name and id | IPC proxy | each field is read as it was written; an answer is the server's; a cached value is true |
| **SurfaceBufferImpl** | a bit set of sequence numbers, handle, reclaim state | allocate, map, read from a parcel, free number, reclaim/resume | a number is one buffer's |
| **SurfaceUtils, SurfaceDelegate, delegator classes** | maps from unique id to surface, to window | register, look up, remove | registration follows the object's life |
| **NativeWindow, NativeBuffer** | reference counts, the registry, the window's buffer cache, tables of metadata types | C interface over surfaces | the registry names no dead window; handles are for the surface's buffers; types read back |
| **SyncFence, SyncFenceTracker, AcquireFenceTracker** | fence fds, the tracker's counters | wait, merge, track on a handler thread | counters match fences under way |
| **BufferHandle** | reserved fds and ints | allocate, clone, free, (de)serialise | each fd closed once |
| **FrameReport, HEBC white list, RS extension, sandbox** | loaded libraries and parsed files | load, query | – |

**Interaction.** A producer process calls `ProducerSurface`, which calls
`BufferQueueProducer` directly or through IPC; a consumer calls
`ConsumerSurface` and `BufferQueueConsumer`. Both ends share one `BufferQueue`,
guarded by `mutex_`. Producers block on `waitReqCon_` (a free buffer or room),
`waitAttachCon_` (a buffer to attach) and `isAllocatingBufferCon_` (another
call's allocation). The queue calls listeners of both sides after it has let go of
`mutex_`, with one exception: `SetTunnelHandle` tells the consumer with `mutex_` held
(user-data listeners are called under the surface's lock).
With a listener for sequence numbers and fences, `ReleaseBuffer` requests every free buffer
on the producer's behalf and sends the numbers unasked.
Binder threads run calls of one client in parallel.

**What is hard.**

* `AllocBuffer` lets go of `mutex_` in the middle of a request.
* `FlushBuffer`, `DetachBufferFromQueue`, `ReleaseBuffer`, `AttachBuffer`,
  `SetQueueSize` and the cleaning calls check in one lock scope and act in
  another, or wait for an allocation in between.
* Blocked requests depend on every other call to notify them.
* The queue is resized and emptied under its users.
* `ReleaseBuffer` may lend free buffers to a listener in the same lock scope, with a wait
  for an allocation in the middle of it.
* The timed acquire decides in one lock scope and takes a frame in another.
* A connection passes from process to process while its calls are under way.
* The producer learns of deletions with replies it may not get.
* Some 90 IPC calls are written and read field by field in different files.
* Settings pass three layers, each with checks of its own.
* Notices are sent after the lock is released.
* Sizes are `uint32_t`, and the reservation counter is decremented by a caller
  that need not have incremented it.

`PROJECT.json` lists each such hazard at its line, with the properties aimed at it.

## 2. The modules

| Module | Models |
|---|---|
| `BufferQueue` | the core: one action per critical section |
| `BufferQueueProperties` | its type invariant, safety, action and liveness properties, fairness |
| `BufferLifecycle` | the abstract specification: hands and frame order, no lists, locks or threads |
| `FramePacing` | the timed `AcquireBuffer`, composed with the core, and its properties |
| `ProducerSession` | producers' surfaces, the connection, death and cleaning, composed with the core |
| `ReleaseNotices` | release with sequence and fence, and the producer's release listener |
| `ParcelFormats` | what the conversions write into a parcel and read out of it |
| `ProducerProtocol` | every call of the producer as messages between proxy and stub |
| `MethodTables` | tables of methods taken together |
| `SettingLayers` | how a setting passes window, surface and stub to the queue |
| `TransformHints` | the transform hint and its broadcast to all producers' surfaces |
| `ConsumerNotices` | transform, tunnel handle and tunnel layer, and their notices to the consumer |
| `FrameMatrix` | both transform matrices, and the last flushed frame's |
| `WindowMetadata` | colour space, metadata and user data through window and surface |
| `WindowLifetime` | native windows: registry, references, buffer caches |
| `LppSource` | the ring shared with the low-power hardware |
| `SequenceNumbers` | the bit set of sequence numbers |
| `MCBufferQueue`, `MCFramePacing`, `MCProducerSession`, `MCParts` | instances for TLC |
| `ListLemmas` | lemmas about lists without repetition |
| `BufferQueueProofs` | type correctness; lists and states agree |
| `BufferQueueStepProofs` | `BufferLifecycle` is implemented; what steps do to frames and to the locked buffer |
| `BufferQueueCapacityProofs` | capacity, one allocation at a time, reserved slots; no blocked request sleeps on |
| `FramePacingProofs` | dropped frames come back; no frame is early or lost on the way |
| `ProducerSessionProofs` | one process at a time, deletions reach the client, grants are usable; lists and refinement inside sessions |
| `PartsProofs` | numbers, notices, window data, hints, windows, the ring, release notices, matrices |
| `TableProofs` | messages and settings |

`FramePacing` and `ProducerSession` extend `BufferQueue`: their steps are its steps
with more around them. The others share no state with the queue or with each other.
Where they need a queue they keep the part of it that their question is about.

### BufferQueue

*Granularity.* An action is what a thread does from taking `mutex_` to letting
go of it. Where a call waits on a condition variable, allocates without the lock,
or leaves one lock scope and enters the next, the thread stays at a program point
`pc[t]` with its locals in `arg[t]`. A call that completes in one scope is one
action and leaves `pc[t]` at `"idle"`. The points are:

| `pc` | in the code |
|---|---|
| `requestWaitAlloc` | `RequestBufferLocked` waits until `isAllocatingBuffer_` is false |
| `requestBlocked` | `ReuseBufferForBlockMode` waits on `waitReqCon_` |
| `alloc` | `AllocBuffer` allocates and maps without the lock |
| `flushStatusOk`, `flushCacheOk`, `flushListenerOk`, `flushCancel` | between the lock scopes of `FlushBuffer` |
| `flushDelete`, `releaseDelete`, `detachDelete`, `attachDelete`, `shrinkWait`, `clearWait`, `cleanWait` | the deletion waits for an allocation in flight |
| `releaseAsks` | `RequestBuffersForListenerLocked`, the first request of which waits for an allocation |
| `attachChecked`, `attachWait` | `AttachBuffer` before its look-up, and in its timed wait |
| `preAlloc` | `PreAllocBuffers` allocates without the lock |

*Data.* A buffer is its sequence number. Of `BufferElement` the model keeps
`state`, `isDeleting`, `config` and `isPreAllocBuffer`, what decides control.
Configurations are values compared for equality. An element that is not in
`bufferQueueCache_` has state `"NONE"`. Sizes are taken modulo `WordSize` where
the code subtracts unsigned numbers. A call that fails a check and returns an
error without changing anything is no step.

*Waiting.* `notify_all` puts the waiting threads into `notified`; a thread in
`notified` re-evaluates its predicate and goes on or sleeps again. A timeout is
an action of its own, enabled when `calls[t]` contains `"Timeout"`.

*Environment.* `calls[t]` gives the entry points thread `t` uses and the configurations
it asks for; it is chosen once, from the constant `Mixes`.
`SingleOwner` says that calls naming one buffer do not overlap, which is what
holding a buffer means to a client (a thread parked in `AttachBuffer` excepted: it
waits for exactly such a call). With `SingleOwner = FALSE` they may.

*Handing over unasked.* A release with `"ReleaseListener"` among the thread's calls may find
the connection's listener for sequence numbers and fences (`ReleaseToListener`), or not
(`ReleaseUnlistened`). With it, `RequestBuffersForListenerLocked` requests the free buffers
configuration by configuration until a request is refused. `HandsOver` takes all that in one
step: any choice of free buffers that takes those of one configuration from the front, does
not take the locked one and no buffer allocated ahead. A configuration may also get none or
only the first few, which is what a refusal for the producer's cache or an attach mark amounts
to; `ProducerSession` says when these are (`ServesListener`). A refused buffer goes to the end of
`freeList_`; the order the refusals leave is any. The requests empty `deletingList_` into
answers that are thrown away. A request looks for a buffer with `defaultUsage_` added to the
configuration: a change of that default after the buffers were allocated, which makes the
request find a buffer of another configuration and refuse it, is one of the choices that take none.

### FramePacing

Extends the core with the timestamps of frames and `dropFrameLevel_`. A timed
acquire is `TimedAcquire` (first lock scope, drops by level), `ReleaseDropped`
once per dropped buffer (the core's `ReleaseBuffer`, with its waits),
`SelectFrame` (second scope), `ReleaseDropped` again, and `AcquireSelected` (the
core's `AcquireBuffer`). Every step of the core may come in between. Timestamps
are `1..MaxTime`, the automatic ones are any time: nothing depends on the clock
being monotone. `held` is the client's side: it releases what it was handed.

### ProducerSession

A `ProducerSurface` has `cache[f]` (`bufferProducerCache_`), the buffers it gave out
(`hands`) and `offline` (`isDisconnected_`); the server `connected`, `strict`, `token`
and the death notices; the queue `cleanFlag`, `cleanList` and `attachFlag`
(`producerCacheClean_`, `producerCacheList_`, the buffers' consumer-attach flag). A
client's call is several steps: it leaves the surface, `BufferQueueProducer` checks the
connection, the queue's own critical sections run (those of `BufferQueue`, with every
other thread in between), the reply is read. `call[t]` says how far it has got; the
surface's `mutex_` is held where the code holds it, except in `CleanCache`, which lets
go of it. `Dies` ends a process between any two steps; its replies are lost, its
calls in the server go on; `OnRemoteDied` comes at some later time. `stale[f]` and
`cleared` are histories that say which cached entries the code cannot know to be old.
The consumer attaches any buffer, known to the queue or not, and sets its attach mark before
the queue answers; a refused attachment leaves the mark. A buffer whose number some cache
still holds is taken to be that buffer. A buffer handed to the listener stays `REQUESTED`
here; its notice and what can go wrong with it are in `ReleaseNotices`.

### ReleaseNotices

The queue's states of a few buffers, `freeBuffers`, the listener and the calling pid the
queue keeps (set in separate steps), and of the client its cache, the kinds of listener
it registered and its function. `ReleasesBuffer` requests all free buffers for the
listener under `mutex_`; the notices are sent later, in one process a call, across
processes a message. `held[b]` counts how often the application was handed `b`.

### ParcelFormats, ProducerProtocol

A parcel is a sequence of field types; a conversion is the sequence it writes or reads,
as a function of the data's shape: whether optional parts are there, how long lists are.
`ProducerProtocol` has one table per stretch of the proxy's source with what each method
writes and expects, one per stretch of the stub's source with what it takes, checks and
answers, and the same for the calls back to the producer's listeners. A call is sent,
served, answered and read, or lost on the way. The proxy's caches of transform, name and
id are variables, as is the server's transform, which the consumer sets too. Where a stub's
answer depends on more than the shape, it may go either way: `HandleIsChecked` names the
calls that refuse a buffer whose handle is no longer the one it was allocated with.

### SettingLayers

A table per stretch of source in each layer says for each method what the layer does
with it: passes it on (to which layer, under which name, if the value is within which
range, and what it makes of the answer), sets or gets. A behaviour is about one setting
(`topic`); several callers enter at any layer with values at and beside the bounds. The one
option that makes two settings, the window's `SET_TRANSFORM` (the queue's transform and that
of the window's configuration), has a row for each.

### TransformHints, ConsumerNotices

The queue's value, each receiver's copy, and the notices under way. A change is made in
one step and told in later ones, because the code releases the lock in between. History
variables (`missed`, `overlapped`, `unsaid`) mark the receivers to whom the code itself
does not promise the change.

### FrameMatrix

The matrices as the code computes them, in units of a common denominator: a product of
4x4 matrices per flip and rotation, the crop, the two conventions. `GetLastFlushedBuffer`
is an action, since it changes the transform it is computed from.

### WindowMetadata, WindowLifetime

Threads of an application around one surface. `WindowMetadata` has the surface's user
data with its limit and listener, and the tables of the window with what `operator[]`
does to them. `WindowLifetime` has the registry, the surface's weak reference to the
window made last, references, destruction in steps, and the caches of both with reused
sequence numbers.

### LppSource

The ring's slots and offsets, `lppFenceMap_`, the buffers' states, and as actors the
consumer, the hardware that writes frames and fences that signal. The hardware takes no
lock, so `AcquireLppBuffer` is three steps with its writes in between: where the newest frame is
(`PicksSlot`), the copy of the ring (`CopiesRing`), the mark (`TakesSlot`); the other calls,
which take `mutex_`, wait. That the copy itself is torn is left out. The mapping of the
descriptor and the switch between sources are actions. `lppSkipCount_` is a constant 0,
because no code raises it; the branch on its limit is there. `frames`, `unseen`, `forced` and
`overtaken` are histories: what the hardware wrote and the consumer has not seen, whose slots
were let go early, which slots were marked after another frame had come into them.

### SequenceNumbers

The bits, the counter with its width, the objects of one process, and the buffers that
other processes hold and may send back. `pidFits` says whether the process id has 16
bits: if not, no number is ever freed.

### BufferLifecycle

Says of each buffer who holds it and of the frames their order. `BufferQueue`
implements it under the refinement mapping in `BufferQueueProperties`
(`REQUESTED`, `ATTACHED` are the producer's, `RELEASED` the queue's, `FLUSHED` a
frame's, `ACQUIRED` the consumer's). A release that hands over is one step, `LendUnasked`: a
buffer comes back, or leaves, and free ones are lent.

## 3. What TLC checks

| Run | Module | States | What it shows |
|---|---|---|---|
| `queue` | `MCBufferQueue` | 425 288 | Three mixes of callers. *Pipeline*: two producers with two configurations, a consumer, a listener that comes and goes, free buffers that are cleaned away, failing flushes and allocations. *Detaching*: a consumer that detaches buffers, keeps their slots and attaches others. *Listening*: a consumer whose releases hand free buffers to the listener, with two configurations, cancels and cleaning. Lists match states; the queue is not overfilled (the buffer being allocated counts); no reserved slot is taken; a blocked request is notified; frames leave only to the consumer and in order; every step refines `BufferLifecycle`. |
| `changes` | `MCBufferQueue` | 357 358 | Five mixes. *Waiting*: `AttachBuffer` waits for a buffer beside a running pipeline. *Attaching*: all three attaching calls and `DetachBuffer`. *Modes*: status, no-block and priority modes, the last flushed frame. *Cleaning*: every way to clean, and allocation in advance. *Resizing*: the size changes while buffers are out, allocations run and releases hand over. Types (the reservation never wraps), lists and refinement; what was checked still holds; a blocked request is notified; a locked buffer is not rewritten or freed; frames go back to the producer only as a last resort, oldest first; a shrink deletes or marks all excess buffers. |
| `live` | `MCBufferQueue` | 8 508 | With fairness and no timeouts: a blocked request returns, every frame is consumed. |
| `pacing` | `MCFramePacing` | 541 965 | The timed acquire with changing drop level: no dropped buffer is lost, no frame is returned too early, a selected frame is returned. |
| `session` | `MCProducerSession` | 300 894 | Two surfaces in two processes, eight mixes of their calls, the consumer's (with and without a listener to hand buffers to), the owner's and a death: a grant is usable (the client has the buffer, or the reply carries it); a deletion reaches the client; two processes never hold one buffer; lists and refinement under cleaning at any moment. |
| `parts` | `MCParts` | 913 151 | Ten parts that share no state: a behaviour is one of one part (`part`), the others' variables are fixed. Each of its fourteen invariants is about one part, see below. |

The invariants of `parts`:

| Invariant | Part | In words |
|---|---|---|
| `MessagesParse` | `ProducerProtocol` | every request and every answer is read field by field as it was written, for every method and shape |
| `AnswersAreTrue` | `ProducerProtocol` | a call that waits reports success when the server has done its part, and only then |
| `CacheIsTrue` | `ProducerProtocol` | the transform the proxy remembers is the queue's |
| `OkMeansDone` | `SettingLayers` | OK means set, refused means untouched, by whichever layer the caller enters |
| `SettingsInRange` | `SettingLayers` | no way through the layers lets a value in that readers do not expect |
| `MatrixIsGeometric` | `FrameMatrix` | the matrix maps corners to the corners that transform and crop name, against a reference on points |
| `HintsAgree` | `TransformHints` | a surface that has handled its notices has the queue's hint |
| `ListenerKnows` | `ConsumerNotices` | a consumer that has handled its notices knows transform, handle and layer |
| `WindowDataAgrees` | `WindowMetadata` | data are what the last Set answered OK asked for; listeners heard of all; the limit holds |
| `HandedOnce`, `NoneForgotten` | `ReleaseNotices` | a released buffer is handed to one user, and is not lost when a notice fails |
| `WindowsAgree` | `WindowLifetime` | the registry names no freed window; a window's handles are for the surface's buffers |
| `RingIsSafe` | `LppSource` | a shown frame keeps a marked slot, unless the hardware overtook the mark; the consumer has few enough; "no update" is true |
| `OwnersDiffer` | `SequenceNumbers` | no object frees the number of another one |

**Bounds.** The queue has two slots (three in `pacing`) and three buffers: two slots are enough to
be full and to be half full, to shrink and to grow by one, a third buffer is needed to replace one while another is
out. Two configurations distinguish reuse from reallocation; two producers are needed to
wait for somebody else's allocation. `WordSize` is 16, above every size, so a wrapped
subtraction is recognised. In `pacing`, `MaxTime = 3` and `OneSecond = 1` give frames
that are due, not yet ready and wrongly far ahead; three slots allow two drops in a row.
In `session` a mix is two or three threads, so that each pair of calls that share state
meets in some mix; two processes are needed to hand the connection on. In `parts`, two
threads or two surfaces race for each shared value; limits (`ParcelLimit`, `ExtraLimit`,
`BatchLimit`, the user-data `Limit`) are 2 and shapes go two beyond them; the frame is
2 by 3 so that a mistaken exchange of sides shows, with every crop of it; the ring has
three slots and `MaxAcquired = 0` (in the code 8 and 2), so that the hardware goes round
it within four frames, between copy and mark as well; numbers are `0..2` of a two-bit mask, so that all can be taken.
`MaxInbox`, `MaxListeners`, `MaxRefs`, `MaxBuffers`, `MaxFrames` and `MaxAbroad` cap
counters that the code does not cap. Every run explores its whole state space. Deadlock
is checked in all of them.

Six runs exhibit disagreements between code and documentation:

| Run | The document | The code |
|---|---|---|
| `shared_buffer` | `docs/knowledge/buffer-queue-producer-consumer.md:37`: every operation validates the state | `FlushBuffer` validates in an earlier lock scope; a `CancelBuffer` in between leaves the buffer in both lists |
| `concurrent_alloc` | `docs/knowledge/buffer-queue-producer-consumer.md:43`: `isAllocatingBufferCon_` prevents concurrent allocation | a request that wakes from its wait does not look at `isAllocatingBuffer_`; when a third thread attaches a buffer to the slot of the one being replaced, two requests reallocate at once |
| `early_frame` | `surface/include/buffer_queue.h:62`: a frame waits for its time | the timed acquire checks the front frame and later takes what is in front by then; in no-block mode a request can take the checked frame back in between |
| `matrix` | `surface/src/surface_utils.cpp:343`: the matrix is the output of `ComputeTransformMatrixV2` | the transform, passed by reference, is an output too: the last flushed frame's is turned round by each reader |
| `metadata` | `interfaces/inner_api/surface/buffer_common.h:146`: the documented metadata types | types that the window's table lacks are all stored as 0, and read back as each other |
| `numbers` | `interfaces/inner_api/surface/native_buffer.h:229`: the number is unique for each buffer | a number is freed with the object of the buffer's own process, though another process holds the buffer and may send it back |

### Fairness

`live` assumes, per thread, weak fairness of every step inside a call: the
operating system schedules runnable threads, and an allocation returns. Of the
clients it assumes that a producer keeps flushing what it was given and a
consumer keeps acquiring and releasing (strong fairness of `FlushesOwned`,
`AcquireBuffer`, `ReleasesAcquired`: such a call may be disabled now and then while
its buffer is in another call). Nobody is obliged to begin a `RequestBuffer`.
Without the clients' part a blocked request rightly sleeps until its timeout; the
run has no timeouts, so it shows that notifications alone suffice. One requesting
thread is used because `notify_all` wakes all and does not order competitors: with
two, one may lose the race forever.

### Faults

Each property of a passing run is also checked against a defect. An operator `F_Fault` stands
before `F`; putting it in `F`'s place must make TLC refute the property.

| Fault | Refutes |
|---|---|
| `Free_StateKept` – the state is not reset | `ListsMatchStates` |
| `Room_OffByOne` – one slot too many | `Capacity` |
| `Slots_ReserveIgnored` – reserved slots count as room | `ReservedSlotsEmpty` |
| `FlushChecksCache_StateIgnored` – any buffer may be flushed | `ChecksStillHold` |
| `ReleaseLastFlushedBuffer_Unnotified` – the lock ends silently | `BlockedAreNotified` |
| `Enqueue_AtFront` – a frame overtakes | `ImplementsLifecycle` |
| `AcquireBuffer_Newest` – the last frame first | `FramesReachConsumer`, `FramesAreConsumed` |
| `Matching_TakesLocked` – the locked buffer is reused | `LockedBufferStays` |
| `PopFromDirtyList_Newest` – the newest frame is taken back | `OverwriteIsLastResort` |
| `FillSlot_Unguarded` – the counter wraps | `TypeOK` |
| `AttachReleased_StaysFree` – the attached buffer stays in the free list | `ListsMatchStates` |
| `AttachBufferToQueue_InCache` – no check for a cached buffer | `ImplementsLifecycle` |
| `FirstOf_OneShort` – one buffer too few is marked | `ShrinkMarksExcess` |
| `Free_Unnotified` – a release wakes nobody | `BlockedAreNotified`, `BlockedIsServed` |
| `Superseded_FrontOnly` – the second frame's time is not looked at | `DroppedAreReleased` |
| `IsPresentTimestampReady_AtOneSecond` – off by one at the second | `NeverTooEarly` |
| `DropOldest_OneTooMany` – one frame too many is dropped | `SelectedIsReturned` |
| `CleanReleased_KeptForgotten` – erased from the map, kept in the list | `ListsMatchStates` |
| `Synced_Never` – the cache is never renewed | `GrantIsUsable` |
| `Forget_Undeleted` – deleted buffers stay in the cache | `DeletionsReachClient` |
| `MayConnect_AnyProcess` – the connection is not checked | `OneProcessHolds` |
| `CleanProducerBySeqNum_DirtyKept` – erased from the map, kept as a frame | `ImplementsLifecycle` |
| `ReadFlushConfig_OneTimestamp` – a field is not read | `MessagesParse` |
| `CheckRetval_Ignored` – the status is read and ignored | `AnswersAreTrue` |
| `Unlearned_Never` – a refused transform stays remembered | `CacheIsTrue` |
| `Told_AlwaysOK` – a refusal below is not passed on | `OkMeansDone` |
| `ProducerScalingCalls_OneUnchecked` – one overload without the check | `SettingsInRange` |
| `NewCombined_AsBefore` – flips keep the old convention | `MatrixIsGeometric` |
| `LearnsHint_Failed` – a refused hint is recorded | `HintsAgree` |
| `LayerChanges_IdOnly` – only the id counts as a change | `ListenerKnows` |
| `Accepts_EvenFull` – no limit | `WindowDataAgrees` |
| `RequestBuffersForListener_LeftFree` – requested buffers stay free | `HandedOnce` |
| `QueueCancels_Forgets` – a refusal is only logged | `NoneForgotten` |
| `ForgetsInWindow_Nothing` – the window keeps its handles | `WindowsAgree` |
| `NoUpdate_ByOffset` – a ring that went round looks unchanged | `RingIsSafe` |
| `FreesNumber_Always` – every object gives its number back | `OwnersDiffer` |

## 4. What is proved

The proofs hold for every set of threads, any finite set of buffers, any
configurations and sizes, and any `Mixes` of calls per thread. They assume the
four `ASSUME`s of `BufferQueue`: buffers are natural numbers (the map's keys), finitely
many; `NULL` is neither a buffer nor a configuration; `InitSize` is positive, at most
`MaxSize`, and `MaxSize` is below `WordSize`; `SingleOwner` is a Boolean. Sessions add
`SurfaceAssumption`: a thread is one of a surface's or of none, and each surface is in a
process. The parts' constants have assumptions of the same kind in their modules: limits are
natural numbers, shapes of data are records of the four fields, a mix names methods that
there are, the unit of the matrices can be divided by the frame's sides. Every run whose
module extends them has TLC evaluate them. Further hypotheses stand in the theorems:

| Hypothesis | Says | Why |
|---|---|---|
| `SingleOwner` | calls that name one buffer do not overlap | who holds a buffer makes one call with it at a time; `shared_buffer` refutes `FlushFromOwner` without it |
| `NeverCalled(S)` | no thread makes a call of the set `S` | the code does not promise the property beside those calls (and with producers that attach buffers `concurrent_alloc` refutes `OneAllocation`), see the known limits in section 5; every set leaves the ordinary calls of producer and consumer |
| `PairedSpec` | the consumer attaches only to a slot it reserved | `surface/include/consumer_surface.h:503` asks for it |
| `NoCleaningWhileDetaching` | no cache is cleaned beside a consumer that detaches | a buffer erased between the check and the deletion of `DetachBufferFromQueue` leaves a reservation for nothing |
| `Settled` | one thread acquires; nothing is resized, cleaned, detached by `DetachBuffer`, or taken back in no-block mode | `early_frame` refutes `NeverTooEarly` in no-block mode |
| `OneSurfaceEach` | no two surfaces share a process | the server tells clients apart by process: with two surfaces in one, a reply that names deletions reaches one of the two caches, and either may connect while the other still holds buffers |
| `[]ReportsInTime` | when the report of a death is under way, nobody else is connected, or only one process lives | `OnBufferProducerRemoteDied` disconnects whoever is connected by then; with three processes the third can then connect beside the second |
| `[]ProducerLives` | the process whose death the producer is to be told of lives; others may die | the calls of a dead process go on in the server, and requests of two processes are then served at once |
| `[]NobodyHides` | nobody calls `GoBackground` | what then waits in `SetProducerCacheCleanFlagLocked` can revive an erased element, see section 5 |
| `[]PreAllocApart` | no consumer detaches buffers beside `PreAllocBuffers` | `DetachBufferFromQueue` takes the attach mark off a buffer that may not have been sent, see section 5 |

Those with `[]` are about behaviours, not states, and are the left side of an implication: a
behaviour that ever breaks one is not spoken of. Each is a set of states that TLC reaches many
of. The mixes of `queue` meet the hypotheses of all theorems about the queue, that of
`pacing` those about frame pacing; those of `session` meet `OneSurfaceEach` and
`ReportsInTime` in every state, and each of the other three in most mixes.

### The queue

| Theorem | Statement |
|---|---|
| `TypeCorrect` | `Spec => []TypeOK` |
| `ListsCorrect` | `SingleOwner => (Spec => []ListsMatchStates)` |
| `ChecksCorrect` | `SingleOwner => (Spec => []ChecksStillHold)` |
| `LifecycleImplemented` | `SingleOwner => (Spec => ImplementsLifecycle)` |
| `FlushedByOwner` | `SingleOwner => (Spec => FlushFromOwner)` |
| `OverwritesLast` | `SingleOwner => (Spec => OverwriteIsLastResort)` |
| `FramesAcquired`, `LockedStaysPut` | `SingleOwner /\ NeverCalled(DroppingCalls) => (Spec => FramesReachConsumer)`, and the same for `LockedBufferStays` |
| `CapacityKept`, `AllocationsApart`, `ReservationKept` | `SingleOwner /\ NeverCalled(GrowingCalls) /\ NoCleaningWhileDetaching => (PairedSpec => []Capacity)`, and the same for `OneAllocation` and `ReservedSlotsEmpty` |
| `NobodyOversleeps` | `SingleOwner => (Spec => []BlockedAreNotified)` |

*Types.* The reservation counter stays in `uint32_t`, and a thread inside a call that
names a buffer carries that buffer. One lemma per group of actions.

*Lists and checks.* `ListsMatchStates` is not inductive: a `ReleaseBuffer` that waits
for an allocation has set the state to `RELEASED` outside the free list, and a
`FlushBuffer` enqueues what it checked several lock scopes ago. The invariant is

    IInv == TypeOK /\ ListsMatchStates /\ ChecksStillHold /\ OneCallPerBuffer

`ChecksStillHold` says, per program point, what the check before it still
guarantees (the buffer may be gone, but it has not changed hands);
`OneCallPerBuffer` says why: no second call is about to act on it. `Change(t)`
states what a step of thread `t` may do to buffers that are not its own (erase
them, or take free ones and frames), and `StepPreserves` that any step within
`Change(t)` keeps `IInv`. Each action is then shown to keep the two lists in
agreement with the states, and to stay within `Change(t)`. `ListLemmas` supplies what
append, remove, cut, tail and concatenation do to a list without repetition.

*Refinement.* Under `IInv` each action maps to one step of `BufferLifecycle` or to none
(`StepMaps`): the lists decide which. A request that takes a free buffer is `Lend`, a flush
is `Submit`, an acquire `Take`, a release that hands over `LendUnasked`, and whatever erases elements is one `Forget` of a set,
which needs that the erased buffers leave `dirtyList_` with them. That frames leave in
order (`FramesAcquired`), that a flush takes from its owner (`FlushedByOwner`), follows
from the mapped step and what the abstract step allows.

*Capacity.* `Capacity`, `OneAllocation` and `ReservedSlotsEmpty` depend on each other, and
none is inductive alone. A `RequestBuffer` that wakes reallocates without looking at
`isAllocatingBuffer_`; that nobody is allocating then follows from the queue being full once
the buffer under allocation is counted; and the size `bufferQueueSize_ - detachReserveSlotNum_`
it is counted against is right only while the difference does not wrap. The invariant is

    CapInv == IInv /\ Fits /\ \A t \in Thread : CallMade(t) /\ DetachHolds(t)

`Fits` counts cache, allocation and reservation against the size; `DetachHolds` keeps the
element that a waiting `DetachBufferFromQueue` is to erase; `CallMade` says that a thread
inside a call is one that makes such calls, which is how `NeverCalled` excludes program
points.

*Wake-ups.* `WakeInv` adds to `BlockedAreNotified` that a thread makes the calls it is in
and, without silent calls, that requests block, no slot is reserved and nothing is marked
for deletion (`Plain`). A step keeps it if it notifies everybody, or leaves nothing to wake
for, or makes no condition true that was false (`Signals`); each group of actions is shown to
do one of these. The one that does not notify though it makes room is a request that
replaces a free buffer by a new one: as there was a free buffer, everybody has been notified.

### Frame pacing

| Theorem | Statement |
|---|---|
| `DropsComeBack` | `PacedSpec => []DroppedAreReleased` |
| `FramesAreInTime` | `SingleOwner /\ Settled => (PacedSpec => NeverTooEarly)` |
| `SelectedComesBack` | `SingleOwner /\ Settled => (PacedSpec => SelectedIsReturned)` |

`DropsComeBack` needs no hypothesis: `PaceInv` is types and the property. Its crux is in
`SelectFrame`: a frame that supersedes the one before it is due, a due frame is ready, so the
scope never leaves with frames dropped and none selected. The other two rest on `SelectInv`:
a thread that is between `SelectFrame` and `AcquireSelected` has its frame at the front of
`dirtyList_`. That no other thread moves the front is not shown action by action again: it
is what the refinement of `BufferLifecycle` says of steps that are not the consumer's.

### The sessions

| Theorem | Statement |
|---|---|
| `OneProcessAtATime` | `OneSurfaceEach => (SessionSpec /\ []ReportsInTime => []OneProcessHolds)` |
| `ClientHearsOfDeletions` | `OneSurfaceEach => (SessionSpec /\ []ProducerLives => []DeletionsReachClient)` |
| `SessionListsCorrect`, `SessionImplementsLifecycle` | `SingleOwner => (SessionSpec /\ []NobodyHides => []ListsMatchStates)`, the same from `OneSurfaceEach` and `[]ProducerLives`, and both for `ImplementsLifecycle` |
| `GrantsUsable` | `SingleOwner /\ OneSurfaceEach => (SessionSpec /\ []ProducerLives /\ []PreAllocApart => []GrantIsUsable)` |

A step of a session is many: a client's call at one of some twenty places and, inside it, any
critical section of the queue. `SessionKinds` first shows that each step of a thread is of
one of few kinds (`StepKind`: quiet, a step of the queue in the name of the call, a grant
that is read, ...), with what the kind does to connection, caches and marks. Every proof
after that is one case per kind.

*One process.* `SessionInv` has types and places, that a surface serves one call at a time
under its mutex, that the server serves calls of the connected process (`Served`), and that
a cache which is not empty is the connected process's or belongs to a surface that has left
and is about to empty it (`CachesConnected`). When processes die the last two can fail, for
a call of the dead goes on; `HeldInv` says that they hold or only one process lives, and
that the dead hold nothing.

*Deletions.* `CachesKnown`: each number the connected surface has cached, or is about to,
is in the queue, recorded as deleted, taken by a clean of the whole queue or by a request
for the listener (`cleared`), or named by a reply on its way. A step can take a number out of the queue only by recording it.

*Lists.* The queue's own `IInv` and `StepMaps` are used again: a step of a session is a step
of `BufferQueue` or leaves the queue alone, but for the one that revives an element.
`SafeInv` shows that it never happens where nobody goes to the background (`FlagOff`),
`AliveInv` that it does not where the process lives: then no grant ever waits, since
`isAllocatingBuffer_` is set only while a request allocates (`AllocTold`), and that request
would be another one of the connected surface, which serves one at a time.

*Grants.* A cached entry whose number was given to a new buffer is stale. `StaleOnWay`: it
is about to be thrown away, the new buffer is on its way to replace it, or its next grant
brings the buffer (it is marked as attached or allocated ahead, or the queue has no
such buffer).

### Messages and settings

| Theorem | Statement |
|---|---|
| `MessagesAreRead` | `ProtocolSpec => []MessagesParse` |
| `ReportsAreTrue` | `ProtocolSpec => []AnswersAreTrue` |
| `RememberedTransformIsTrue` | `ProtocolSpec => []CacheIsTrue` |
| `OKsAreDone` | `SettingSpec => []OkMeansDone` |
| `SettingsAreLegal` | `SettingSpec => []SettingsInRange` |

*Messages.* `ProtocolSound` relates a call's place, result and what the server did
(`CallsSound`), and says when the remembered transform may differ from the queue's
(`CacheSound`). That a message is read as written is then about the tables: `SameLayout`
shows of each kind of field that writer and reader agree for every shape, `RowFits` of each
method of each table that what the stub takes is what the proxy writes, and what the proxy
expects is what the stub replies. Both sides flatten a sequence of fields; that equal
layouts flatten to equal sequences is proved by the least place at which they would differ,
since induction over an operator is not available. Limits and lists are any natural
numbers and any lengths.

*Settings.* Each row of each layer satisfies its layer's predicate (`WindowRow`,
`SurfaceRow`, `StubRow`, `QueueRow`): a call that passes on names a method of the layer
below, and hands on the answer unless it is one of those that the property leaves out. A
call under way (`OnTheWay`) then ends where its entry says, promises what that row does,
and carries a value that the queue checks or a surface has checked (`CheckedAbove`).

### The parts

Each theorem is about the part's own specification; `MCParts` explores all of them in
one run.

| Theorem | Property | The invariant beyond the property |
|---|---|---|
| `NumbersHaveOneOwner` | `OwnersDiffer` | the bit of each tracked owner is set |
| `ConsumerIsTold` | `ListenerKnows` | unless layers crossed, at most one call is telling of a layer, and of the one the queue has |
| `DataIsAsAsked` | `WindowDataAgrees` | types and finiteness only |
| `CopiesOfHint` | `HintsAgree` | what a surface has not been passed by is on its way: in its initial information, its last broadcast, or the answer to its own call |
| `WindowsKeepStep` | `WindowsAgree` | a window that a thread is inside lives, one thread at most destroys it, a dead one has no handles |
| `ShownFramesAreSafe` | `RingIsSafe` | every buffer in the fence map is in its slot and the slot is marked, unless it was overtaken; the slot picked is as it was copied, or has a later frame and no mark; a frame that came since the last one taken is told by the offset or by the time stamp |
| `OneUserEach`, `NothingIsForgotten` | `HandedOnce`, `NoneForgotten` | every buffer that is out is carried exactly once: by the application, a notice, a message or a releaser |
| `MatricesAreGeometric` | `MatrixIsGeometric` | what was read last is the matrix the code computes of some transform and a crop within the frame; each transform's product is then compared with the reference, corner by corner |

Each invariant, and those of the sections above, was checked by TLC on an instance of `parts`,
`queue`, `pacing` or `session` before it was proved.

### What is only model-checked

* *Liveness* (`BlockedIsServed`, `FramesAreConsumed`) is beyond the proof system.
* `ShrinkMarksExcess`: when the deletion after a shrink waits for an allocation, what
  is marked depends on calls in between; the run's mix bounds them.
* *Sessions* in which the process the producer is told of dies: that deletions reach the client
  and grants are usable, and, if somebody goes to the background as well, the lists and the
  refinement. `session` has these in its mixes; the theorems about them assume `ProducerLives`.

## 5. What is not modelled

* *Buffer queue:* handing frames to a delegator, the batch forms of request and flush
  (the messages of which are in `ProducerProtocol`), dumps. Pixels, damage and kernel
  fences do not decide control, except the release fence in `LppSource`.
* *Listener callbacks* of applications: what they do is a call of some thread.
* *ConsumerSurface:* the death of a consumer, which empties the queue as `CleanCache`
  does, and the deletion callbacks.
* *SurfaceBufferImpl:* allocation and mapping of memory, reclaim and resume, the metadata
  cache. They run under one mutex of the buffer; only their failure reaches the queue,
  as `AllocFails`.
* *SyncFence and its trackers:* counters for traces and statistics, filled by a handler
  thread that waits on kernel fences. Only the parcel form of a fence is modelled.
* *BufferHandle:* cloning and freeing of descriptors.
* *Delegators, frame reports, white list, RS extension, sandbox:* they load libraries and
  parse files.
* *NativeBuffer, metadata helper:* conversions without state.

**Known limits of properties.** The models show cases in which a property does not hold.
Where a document promises it, a run of section 3 exhibits the case (`OneAllocation`,
`FlushFromOwner`, `NeverTooEarly` and three more); where none does, the run or the
property leaves the case out:

* A request that `SetQueueSize` wakes because the queue grew looks at the free list only
  (`ReuseBufferForBlockMode`) and returns `GSERROR_NO_BUFFER` before its timeout, with the new slot
  empty; so does one woken after `CleanReleasedBuffers`. The comment at `buffer_queue.cpp:1743`
  speaks of the wake-up only, which happens, and no property is stated.
* `Capacity`: `PreAllocBuffers` counts the cache only, so beside a request under
  allocation the queue can exceed its size by one.
* `ReservedSlotsEmpty`: the producer's `AttachBufferToQueue` does not look at reserved
  slots and may fill them; the run has the consumer's.
* `BlockedAreNotified`: the calls in `SilentCalls` can make a blocked request's condition true
  and notify nobody: `DetachBuffer`, `DetachBufferFromQueue`, `CleanProducerBySeqNum` and the
  deletion of a marked buffer make room, `PreAllocBuffers` adds free buffers, `AttachBuffer`
  changes the size of the cache, and in no-block mode a request whose reallocation fails leaves
  the slot of the frame it took. A free buffer is notified in every mix without
  `PreAllocBuffers`, room in every mix without those calls.
* `FramesReachConsumer`: `AttachBuffer` into a full queue without free buffers, a shrink and
  cleaning delete frames nobody acquired; they are not in that run.
* `ShrinkMarksExcess`: a second shrink counts marked buffers twice.
* `ListsMatchStates` in sessions: a request that was blocked can be granted a buffer while
  another one reallocates; if the producer's cache is to be filled again, it then waits in
  `SetProducerCacheCleanFlagLocked`, and a `CleanProducerBySeqNum` meanwhile makes
  `bufferQueueCache_[sequence]` create an element without a buffer, `RELEASED` and in no list.
  It takes two configurations, `GoBackground`, two surfaces of one process (or the calls of a
  dead one) and some 25 steps; the mixes of `session` have one configuration. Without
  `GoBackground`, or with one surface a process and the process alive, it cannot happen (`SessionListsCorrect`).
* `OneProcessHolds`: until the clean that follows a disconnection is through, the next
  process can be granted what the last one still holds; and `OnBufferProducerRemoteDied`
  disconnects whoever is connected by then, not the process that died: if a second process
  has connected, a third one can be granted buffers the second holds (`ReportsInTime`).
* `GrantIsUsable`: a consumer that detaches and attaches a buffer, whose number the client has
  cached for an older one allocated ahead, takes the attach mark off before the client was sent
  the buffer; the grant then carries none, and the client finds the older one
  (`PreAllocApart`). It takes some 50 steps; no mix of `session` has both calls.
* `DeletionsReachClient`: who empties the whole queue tells no other client; and the requests
  that `ReleaseBuffer` makes for the producer's listener take the numbers off `deletingList_`
  into answers nobody reads, so that the client keeps those buffers.
* `RingIsSafe`: `AcquireLppBuffer` copies the ring and marks the slot afterwards; hardware that
  goes round the whole ring in between has put another frame there, and the buffer the
  consumer gets has no marked slot (`overtaken`). With the code's eight slots that takes eight
  frames between two statements.
* `AnswersAreTrue`: a buffer can have one entry of extra data more than its reader accepts,
  and `SyncProducerCache` more buffers than a list may hold; then a call fails that the server
  has done. `CacheIsTrue`: a lost `SetTransform`, two at once, or the consumer's leave a
  wrong value.
* `OkMeansDone`: the window's options and `SetBufferName` answer OK whatever happened.
* `HintsAgree`, `ListenerKnows`: changes during registration, crossing notices.
* `HandedOnce`, `NoneForgotten`: a surface without a function cancels the buffer and the
  queue does so again; a refusal in another process is not heard of.
* `WindowsAgree`: the surface cannot reach windows other than the last one made.
* `OwnersDiffer`: when all 65535 numbers are taken, numbers are given twice.

## 6. Plan

1. *Done:* the core, its abstract specification; frame pacing; the producers' sessions; the
   protocol; settings, hints, notices, matrices, metadata, release notices, windows, the
   low-power ring, sequence numbers.
2. *Done:* proofs about the core (lists, refinement, frames, capacity, wake-ups), frame pacing,
   the sessions, and all ten parts: every safety property of the passing runs but
   `ShrinkMarksExcess` is a theorem under the hypotheses of section 4.
3. Proofs about sessions in which the connected process dies: an invariant that tells a dead
   process's calls from those of the connected one, in place of `ProducerLives`.
4. The delegator's queueing and the metadata cache, as further actions over `BufferQueue` and
   a module of its own.
