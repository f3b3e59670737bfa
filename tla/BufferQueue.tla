---------------------------- MODULE BufferQueue ----------------------------
(***************************************************************************)
(* The buffer queue of surface/src/buffer_queue.cpp, at the granularity of *)
(* its critical sections: one action is what a thread does while it holds  *)
(* mutex_ without letting go of it, and every condition-variable wait,     *)
(* every unlocked call of the allocator and every gap between two lock     *)
(* scopes of one call is a program point of the calling thread.            *)
(*                                                                         *)
(* Buffers are named by their sequence number.  A buffer's pixels, fence,  *)
(* damage and metadata are left out; of its BufferElement the model keeps  *)
(* what decides control: state, isDeleting, config and isPreAllocBuffer.   *)
(*                                                                         *)
(* An operator F_Fault stands before F and differs from it as a plausible  *)
(* defect of that code would; nothing uses it.  The README says which      *)
(* property each fault would break.                                        *)
(***************************************************************************)
EXTENDS Integers, FiniteSets, SequencesExt

CONSTANTS
    Thread,       \* binder and application threads that call the queue
    Buffers,      \* sequence numbers, ordered as the keys of bufferQueueCache_
    Configs,      \* values of BufferRequestConfig, compared for equality only
    NULL,         \* INVALID_SEQUENCE; no buffer; no configuration
    InitSize,     \* bufferQueueSize_ of a new queue (SURFACE_DEFAULT_QUEUE_SIZE)
    MaxSize,      \* SURFACE_MAX_QUEUE_SIZE
    WordSize,     \* 2^32: sizes are uint32_t
    Mixes,        \* what the threads may do; one mix is chosen at the start
    SingleOwner   \* TRUE: calls naming the same buffer do not overlap

ASSUME BuffersAssumption == Buffers \subseteq Nat /\ IsFiniteSet(Buffers)
ASSUME NullAssumption    == NULL \notin Buffers /\ NULL \notin Configs
ASSUME SizeAssumption    == /\ InitSize \in Nat \ {0}
                            /\ MaxSize \in Nat
                            /\ InitSize <= MaxSize
                            /\ WordSize \in Nat
                            /\ MaxSize < WordSize
ASSUME SingleOwnerAssumption == SingleOwner \in BOOLEAN

VARIABLES
    state,         \* state[s]: BufferElement::state, "NONE" when s is not cached
    isDeleting,    \* the cached buffers whose isDeleting is set
    isPreAlloc,    \* the cached buffers whose isPreAllocBuffer is set
    config,        \* config[s]: BufferElement::config
    freeList,      \* freeList_
    dirtyList,     \* dirtyList_
    deletingList,  \* deletingList_, as a set
    queueSize,     \* bufferQueueSize_
    maxQueueSize,  \* maxQueueSize_, 0 when unset
    reserve,       \* detachReserveSlotNum_
    allocating,    \* isAllocatingBuffer_
    valid,         \* isValidStatus_
    hasListener,   \* listener_ or listenerClazz_ is registered
    noBlock,       \* requestBufferNoBlockMode_
    priorityAlloc, \* isPriorityAlloc_
    lastFlushed,   \* lastFlusedSequence_
    locked,        \* acquireLastFlushedBufSequence_
    pc,            \* pc[t]: where thread t stands in its call
    arg,           \* arg[t]: the arguments and locals it carries there
    calls,         \* calls[t]: the entry points and configurations thread t uses, fixed
    notified       \* threads of waitReqCon_ and waitAttachCon_ woken by a notify_all

elements == <<state, isDeleting, isPreAlloc, config>>
lists    == <<freeList, dirtyList>>
sizes    == <<queueSize, maxQueueSize, reserve>>
modes    == <<valid, hasListener, noBlock, priorityAlloc, calls>>
last     == <<lastFlushed, locked>>
threads  == <<pc, arg>>
vars     == <<elements, lists, deletingList, sizes, allocating, modes, last, threads, notified>>

BufferState == {"RELEASED", "REQUESTED", "FLUSHED", "ACQUIRED", "ATTACHED"}

Location == {"idle", "requestWaitAlloc", "requestBlocked", "alloc",
             "flushStatusOk", "flushCacheOk", "flushListenerOk", "flushCancel", "flushDelete",
             "releaseDelete", "releaseAsks", "detachDelete", "attachChecked", "attachWait", "attachDelete",
             "shrinkWait", "clearWait", "cleanWait", "preAlloc"}

(* What a thread carries: nothing, a buffer, a configuration, or sizes.     *)
NoArg              == [buf |-> NULL, cfg |-> NULL, flag |-> FALSE, count |-> 0, size |-> 0]
BufferArg(s, f)    == [buf |-> s,    cfg |-> NULL, flag |-> f,     count |-> 0, size |-> 0]
ConfigArg(c, f, n) == [buf |-> NULL, cfg |-> c,   flag |-> f,     count |-> n, size |-> 0]
SizeArg(n, z)      == [buf |-> NULL, cfg |-> NULL, flag |-> FALSE, count |-> n, size |-> z]

Init ==
    /\ state = [s \in Buffers |-> "NONE"]
    /\ isDeleting = {} /\ isPreAlloc = {}
    /\ config = [s \in Buffers |-> NULL]
    /\ freeList = <<>> /\ dirtyList = <<>> /\ deletingList = {}
    /\ queueSize = InitSize /\ maxQueueSize = 0 /\ reserve = 0
    /\ allocating = FALSE
    /\ valid = TRUE /\ hasListener = TRUE /\ noBlock = FALSE /\ priorityAlloc = FALSE
    /\ lastFlushed = NULL /\ locked = NULL
    /\ calls \in Mixes
    /\ pc = [t \in Thread |-> "idle"]
    /\ arg = [t \in Thread |-> NoArg]
    /\ notified = {}

-----------------------------------------------------------------------------
(* Reading the queue. *)

Cached == {s \in Buffers : state[s] # "NONE"}
Used   == Cardinality(Cached)

(* bufferQueueSize_ - detachReserveSlotNum_, in uint32_t. *)
Slots_ReserveIgnored == queueSize
Slots == (queueSize - reserve) % WordSize

Room_OffByOne == Used <= Slots
Room == Used < Slots

(* A new SurfaceBufferImpl takes a number no live buffer has; a number some *)
(* call still carries belongs to a buffer that is alive.                    *)
Unused == {s \in Buffers : /\ state[s] = "NONE"
                           /\ s \notin deletingList
                           /\ \A t \in Thread : arg[t].buf # s}

(* The calls on one buffer that may overlap: all, unless it has one owner.  *)
(* A thread parked in AttachBuffer waits for the owner's next call.         *)
Exclusive(t, s) ==
    SingleOwner => \A u \in Thread \ {t} : arg[u].buf = s => pc[u] = "attachWait"

(* The sublist of l that f names by its positions.                          *)
Pick(l, f) == [i \in DOMAIN f |-> l[f[i]]]

MinOf(S) == CHOOSE x \in S : \A y \in S : x <= y

(* WaitForCondition: what a blocked RequestBuffer waits for. *)
WaitForCondition ==
    \/ freeList # <<>> /\ freeList # <<locked>>
    \/ Room
    \/ ~valid

(* The positions of the free list whose buffer has the wanted configuration *)
(* and is not the one a client holds through AcquireLastFlushedBuffer.      *)
Matching_TakesLocked(c) == {i \in DOMAIN freeList : config[freeList[i]] = c}
Matching(c) == {i \in DOMAIN freeList : /\ state[freeList[i]] # "NONE"
                                        /\ config[freeList[i]] = c
                                        /\ freeList[i] # locked}

(* PopFromFreeListLocked: can it take a buffer, which, and what it leaves.  *)
CanPop(c) ==
    Matching(c) # {} \/ (freeList # <<>> /\ ~Room /\ freeList # <<locked>>)

PoppedAt(c) ==
    IF Matching(c) # {} THEN MinOf(Matching(c))
    ELSE IF Head(freeList) = locked THEN 2 ELSE 1

FreeAfterPop(c) ==
    IF Matching(c) = {} /\ Head(freeList) = locked
    THEN Append(SubSeq(freeList, 3, Len(freeList)), locked)
    ELSE RemoveAt(freeList, PoppedAt(c))

(* notify_all on waitReqCon_, and on waitReqCon_ and waitAttachCon_. *)
NotifyRequest == notified \union {t \in Thread : pc[t] = "requestBlocked"}
NotifyBoth == NotifyRequest \union {t \in Thread : pc[t] = "attachWait"}

Idle(t)     == pc[t] = "idle"
Enters(t, call) == Idle(t) /\ call \in calls[t]
Goto(t, l)  == pc' = [pc EXCEPT ![t] = l]
Finish(t)   == /\ pc' = [pc EXCEPT ![t] = "idle"]
               /\ arg' = [arg EXCEPT ![t] = NoArg]
Park(t, l, a) == /\ pc' = [pc EXCEPT ![t] = l]
                 /\ arg' = [arg EXCEPT ![t] = a]

-----------------------------------------------------------------------------
(* Changing the elements of bufferQueueCache_. *)

(* An element with the given state and configuration, isDeleting unset. *)
Insert(s, st, c, pre) ==
    /\ state' = [state EXCEPT ![s] = st]
    /\ config' = [config EXCEPT ![s] = c]
    /\ isDeleting' = isDeleting \ {s}
    /\ isPreAlloc' = IF pre THEN isPreAlloc \union {s} ELSE isPreAlloc \ {s}

SetState(s, st) ==
    /\ state' = [state EXCEPT ![s] = st]
    /\ UNCHANGED <<isDeleting, isPreAlloc, config>>

(* bufferQueueCache_.erase of every buffer of S. *)
Erase(S) ==
    /\ state' = [s \in Buffers |-> IF s \in S THEN "NONE" ELSE state[s]]
    /\ config' = [s \in Buffers |-> IF s \in S THEN NULL ELSE config[s]]
    /\ isDeleting' = isDeleting \ S
    /\ isPreAlloc' = isPreAlloc \ S

(* The elements' part of DeleteBufferInCacheNoWaitForAllocatingState: the   *)
(* producer is told of the deletion unless it never saw the buffer.         *)
Delete(S) ==
    /\ Erase(S)
    /\ deletingList' = deletingList \union ((S \intersect Cached) \ isPreAlloc)

(* DeleteBufferInCacheNoWaitForAllocatingState of a buffer that is in no    *)
(* list, or in the free list.                                               *)
DeleteBufferInCache(s) ==
    /\ Delete({s})
    /\ freeList' = IF s \in Cached THEN RemoveFirst(freeList, s) ELSE freeList
    /\ UNCHANGED dirtyList

(* DeleteBuffersLocked, once no allocation is in flight: n buffers go, free *)
(* ones first, then dirty ones; the rest of n is marked isDeleting in the   *)
(* order of the map.                                                        *)
AtMost(n, l) == IF n < Len(l) THEN n ELSE Len(l)

FirstOf_OneShort(S, n) == {s \in S : Cardinality({u \in S : u <= s}) < n}

FirstOf(S, n) == {s \in S : Cardinality({u \in S : u < s}) < n}

FreeCut(n)  == AtMost(n, freeList)
DirtyCut(n) == AtMost(n - FreeCut(n), dirtyList)
Gone(n)  == ToSet(SubSeq(freeList, 1, FreeCut(n))) \union ToSet(SubSeq(dirtyList, 1, DirtyCut(n)))
Marks(n) == FirstOf(Cached \ Gone(n), n - FreeCut(n) - DirtyCut(n))

CutLists(n) ==
    /\ deletingList' = deletingList \union (Gone(n) \ isPreAlloc)
    /\ freeList' = SubSeq(freeList, FreeCut(n) + 1, Len(freeList))
    /\ dirtyList' = SubSeq(dirtyList, DirtyCut(n) + 1, Len(dirtyList))

DeleteBuffers(n) ==
    /\ state' = [s \in Buffers |-> IF s \in Gone(n) THEN "NONE" ELSE state[s]]
    /\ config' = [s \in Buffers |-> IF s \in Gone(n) THEN NULL ELSE config[s]]
    /\ isDeleting' = (isDeleting \ Gone(n)) \union Marks(n)
    /\ isPreAlloc' = isPreAlloc \ Gone(n)
    /\ CutLists(n)

(* A buffer goes back to the free list, and those who wait for one wake.    *)
Free_Unnotified(s) ==
    /\ SetState(s, "RELEASED")
    /\ freeList' = Append(freeList, s)
    /\ UNCHANGED <<dirtyList, deletingList, notified>>

Free_StateKept(s) ==
    /\ freeList' = Append(freeList, s)
    /\ notified' = NotifyBoth
    /\ UNCHANGED <<elements, dirtyList, deletingList>>

Free(s) ==
    /\ SetState(s, "RELEASED")
    /\ freeList' = Append(freeList, s)
    /\ notified' = NotifyBoth
    /\ UNCHANGED <<dirtyList, deletingList>>

-----------------------------------------------------------------------------
(* RequestBuffer and RequestAndDetachBuffer.  arg.flag is set for the       *)
(* latter, which takes the granted buffer out of the queue at once, in the  *)
(* same critical section.                                                   *)

Granted(a) == IF a.flag THEN "NONE" ELSE "REQUESTED"

(* AllocBuffer lets go of mutex_ around the allocation. *)
StartAlloc(t, a) ==
    /\ allocating' = TRUE
    /\ Park(t, "alloc", a)

(* ReuseBuffer: buffer s, just taken from a list, is granted as it is, or   *)
(* deleted and reallocated when its configuration is not the wanted one.    *)
(* A list never names a buffer that is not cached; the code relies on it.   *)
ReuseBuffer(t, s, a) ==
    \/ /\ s \in Cached
       /\ config[s] = a.cfg
       /\ state' = [state EXCEPT ![s] = Granted(a)]
       /\ config' = IF a.flag THEN [config EXCEPT ![s] = NULL] ELSE config
       /\ isDeleting' = IF a.flag THEN isDeleting \ {s} ELSE isDeleting
       /\ isPreAlloc' = isPreAlloc \ {s}
       /\ deletingList' = {}
       /\ Finish(t)
       /\ UNCHANGED allocating
    \/ /\ s \in Cached
       /\ config[s] # a.cfg
       /\ Delete({s})
       /\ StartAlloc(t, a)

PopFromFreeList(t, a) ==
    /\ CanPop(a.cfg)
    /\ freeList' = FreeAfterPop(a.cfg)
    /\ ReuseBuffer(t, freeList[PoppedAt(a.cfg)], a)
    /\ UNCHANGED dirtyList

(* ReuseBufferForNoBlockMode takes back the oldest frame nobody acquired.   *)
PopFromDirtyList_Newest(t, a) ==
    /\ dirtyList # <<>>
    /\ dirtyList' = Front(dirtyList)
    /\ ReuseBuffer(t, Last(dirtyList), a)
    /\ UNCHANGED freeList

PopFromDirtyList(t, a) ==
    /\ dirtyList # <<>>
    /\ dirtyList' = Tail(dirtyList)
    /\ ReuseBuffer(t, Head(dirtyList), a)
    /\ UNCHANGED freeList

NoBuffer(t) ==
    /\ Finish(t)
    /\ UNCHANGED <<elements, lists, deletingList, allocating>>

(* RequestBufferLocked, from the point where no allocation is in flight.    *)
(* A thread that would block on a queue without consumer returns at once.   *)
SelectBuffer(t, a) ==
    \/ /\ ~(priorityAlloc /\ Room)
       /\ PopFromFreeList(t, a)
    \/ /\ Room
       /\ priorityAlloc \/ ~CanPop(a.cfg)
       /\ StartAlloc(t, a)
       /\ UNCHANGED <<elements, lists, deletingList>>
    \/ /\ ~Room /\ ~CanPop(a.cfg) /\ noBlock
       /\ PopFromDirtyList(t, a) \/ (dirtyList = <<>> /\ NoBuffer(t))
    \/ /\ ~Room /\ ~CanPop(a.cfg) /\ ~noBlock
       /\ IF valid
          THEN /\ Park(t, "requestBlocked", a)
               /\ UNCHANGED <<elements, lists, deletingList, allocating>>
          ELSE NoBuffer(t)

RequestArg(t) == {ConfigArg(c, f, 0) :
                     c \in Configs \intersect calls[t],
                     f \in {b \in BOOLEAN : b => "RequestAndDetachBuffer" \in calls[t]}}

RequestBuffer(t) ==
    /\ Enters(t, "RequestBuffer")
    /\ valid /\ hasListener
    /\ \E a \in RequestArg(t) :
          IF allocating
          THEN /\ Park(t, "requestWaitAlloc", a)
               /\ UNCHANGED <<elements, lists, deletingList, allocating>>
          ELSE SelectBuffer(t, a)
    /\ UNCHANGED <<sizes, modes, last, notified>>

RequestAfterAlloc(t) ==
    /\ pc[t] = "requestWaitAlloc"
    /\ ~allocating
    /\ SelectBuffer(t, arg[t])
    /\ UNCHANGED <<sizes, modes, last, notified>>

(* ReuseBufferForBlockMode after its wait_for: the free list is tried once  *)
(* more, and nothing else is, whether or not another allocation is running. *)
AfterWait(t) ==
    \/ /\ valid
       /\ PopFromFreeList(t, arg[t])
    \/ /\ ~valid \/ ~CanPop(arg[t].cfg)
       /\ NoBuffer(t)

RequestWakes(t) ==
    /\ pc[t] = "requestBlocked"
    /\ t \in notified /\ WaitForCondition
    /\ AfterWait(t)
    /\ notified' = notified \ {t}
    /\ UNCHANGED <<sizes, modes, last>>

RequestSleepsAgain(t) ==
    /\ pc[t] = "requestBlocked"
    /\ t \in notified /\ ~WaitForCondition
    /\ notified' = notified \ {t}
    /\ UNCHANGED <<elements, lists, deletingList, sizes, allocating, modes, last, threads>>

RequestTimesOut(t) ==
    /\ pc[t] = "requestBlocked"
    /\ "Timeout" \in calls[t]
    /\ AfterWait(t)
    /\ notified' = notified \ {t}
    /\ UNCHANGED <<sizes, modes, last>>

(* AllocBuffer takes mutex_ again; the request then completes. *)
AllocSucceeds(t) ==
    /\ pc[t] = "alloc"
    /\ allocating' = FALSE
    /\ \/ arg[t].flag /\ UNCHANGED elements
       \/ ~arg[t].flag /\ \E s \in Unused : Insert(s, "REQUESTED", arg[t].cfg, FALSE)
    /\ deletingList' = {}
    /\ Finish(t)
    /\ UNCHANGED <<lists, sizes, modes, last, notified>>

(* Allocation fails for lack of memory, or of sequence numbers.             *)
AllocFails(t) ==
    /\ pc[t] = "alloc"
    /\ "AllocFails" \in calls[t] \/ Unused = {}
    /\ allocating' = FALSE
    /\ Finish(t)
    /\ UNCHANGED <<elements, lists, deletingList, sizes, modes, last, notified>>

-----------------------------------------------------------------------------
(* FlushBuffer checks the status, then the buffer, then the listener, and   *)
(* only then enqueues: four lock scopes.  The last one does not look at the *)
(* buffer's state again.                                                    *)

Owned == {"REQUESTED", "ATTACHED"}

FlushBuffer(t, s) ==
    /\ Enters(t, "FlushBuffer")
    /\ valid
    /\ Exclusive(t, s)
    /\ Park(t, "flushStatusOk", BufferArg(s, FALSE))
    /\ UNCHANGED <<elements, lists, deletingList, sizes, allocating, modes, last, notified>>

FlushChecksCache_StateIgnored(t) ==
    /\ pc[t] = "flushStatusOk"
    /\ Goto(t, "flushCacheOk") /\ UNCHANGED arg
    /\ UNCHANGED <<elements, lists, deletingList, sizes, allocating, modes, last, notified>>

FlushChecksCache(t) ==
    /\ pc[t] = "flushStatusOk"
    /\ IF state[arg[t].buf] \in Owned
       THEN Goto(t, "flushCacheOk") /\ UNCHANGED arg
       ELSE Finish(t)
    /\ UNCHANGED <<elements, lists, deletingList, sizes, allocating, modes, last, notified>>

FlushChecksListener(t) ==
    /\ pc[t] = "flushCacheOk"
    /\ Goto(t, IF hasListener THEN "flushListenerOk" ELSE "flushCancel")
    /\ UNCHANGED <<elements, lists, deletingList, sizes, allocating, modes, last, notified, arg>>

(* The tail of DoFlushBufferLocked. *)
Enqueue_AtFront(s) ==
    /\ SetState(s, "FLUSHED")
    /\ dirtyList' = <<s>> \o dirtyList
    /\ lastFlushed' = s
    /\ UNCHANGED <<freeList, deletingList, locked>>

Enqueue(s) ==
    /\ SetState(s, "FLUSHED")
    /\ dirtyList' = Append(dirtyList, s)
    /\ lastFlushed' = s
    /\ UNCHANGED <<freeList, deletingList, locked>>

(* DoFlushBufferLocked.  FlushCache may fail and leaves the queue alone.    *)
DoFlushBuffer(t) ==
    LET s == arg[t].buf
    IN  /\ pc[t] = "flushListenerOk"
        /\ \/ /\ s \in Cached \ isDeleting
              /\ Enqueue(s)
              /\ Finish(t)
           \/ /\ s \in isDeleting /\ ~allocating
              /\ DeleteBufferInCache(s)
              /\ Finish(t)
              /\ UNCHANGED last
           \/ /\ s \in isDeleting /\ allocating
              /\ Goto(t, "flushDelete")
              /\ UNCHANGED <<elements, lists, deletingList, last, arg>>
           \/ /\ s \notin Cached \/ (s \notin isDeleting /\ "FlushFails" \in calls[t])
              /\ Finish(t)
              /\ UNCHANGED <<elements, lists, deletingList, last>>
        /\ UNCHANGED <<sizes, allocating, modes, notified>>

FlushDeletes(t) ==
    /\ pc[t] = "flushDelete"
    /\ ~allocating
    /\ DeleteBufferInCache(arg[t].buf)
    /\ Finish(t)
    /\ UNCHANGED <<sizes, allocating, modes, last, notified>>

(* CancelBufferLocked frees a buffer the producer owns, marked or not.     *)
CancelBuffer(t, s) ==
    /\ Enters(t, "CancelBuffer")
    /\ Exclusive(t, s)
    /\ state[s] \in Owned
    /\ Free(s)
    /\ UNCHANGED <<sizes, allocating, modes, last, threads>>

(* FlushBuffer without a listener gives the buffer back. *)
FlushCancels(t) ==
    /\ pc[t] = "flushCancel"
    /\ \/ state[arg[t].buf] \in Owned /\ Free(arg[t].buf)
       \/ /\ state[arg[t].buf] \notin Owned
          /\ UNCHANGED <<elements, lists, deletingList, notified>>
    /\ Finish(t)
    /\ UNCHANGED <<sizes, allocating, modes, last>>

(* AttachAndFlushBuffer does both in one critical section; when the flush   *)
(* fails the attachment is taken back, and nothing has changed.             *)
AttachAndFlushBuffer(t, s) ==
    /\ Enters(t, "AttachAndFlushBuffer")
    /\ Exclusive(t, s)
    /\ valid /\ hasListener
    /\ state[s] = "NONE"
    /\ Used < queueSize
    /\ \E c \in Configs : Insert(s, "FLUSHED", c, FALSE)
    /\ dirtyList' = Append(dirtyList, s)
    /\ lastFlushed' = s
    /\ UNCHANGED <<freeList, deletingList, locked, sizes, allocating, modes, threads, notified>>

-----------------------------------------------------------------------------
(* The consumer's AcquireBuffer and ReleaseBuffer. *)

AcquireBuffer_Newest(t) ==
    /\ Enters(t, "AcquireBuffer")
    /\ dirtyList # <<>>
    /\ SetState(Last(dirtyList), "ACQUIRED")
    /\ dirtyList' = Front(dirtyList)
    /\ UNCHANGED <<freeList, deletingList, sizes, allocating, modes, last, threads, notified>>

AcquireBuffer(t) ==
    /\ Enters(t, "AcquireBuffer")
    /\ dirtyList # <<>>
    /\ SetState(Head(dirtyList), "ACQUIRED")
    /\ dirtyList' = Tail(dirtyList)
    /\ UNCHANGED <<freeList, deletingList, sizes, allocating, modes, last, threads, notified>>

(* ReleaseBufferLocked.  A buffer marked isDeleting is deleted instead of   *)
(* freed, after any allocation in flight.                                   *)
ReleaseUnlistened(t, s) ==
    /\ Enters(t, "ReleaseBuffer")
    /\ Exclusive(t, s)
    /\ state[s] \in {"ACQUIRED", "ATTACHED"}
    /\ \/ /\ s \notin isDeleting
          /\ Free(s)
          /\ UNCHANGED threads
       \/ /\ s \in isDeleting /\ ~allocating
          /\ DeleteBufferInCache(s)
          /\ notified' = NotifyBoth
          /\ UNCHANGED threads
       \/ /\ s \in isDeleting /\ allocating
          /\ SetState(s, "RELEASED")
          /\ Park(t, "releaseDelete", BufferArg(s, FALSE))
          /\ UNCHANGED <<lists, deletingList, notified>>
    /\ UNCHANGED <<sizes, allocating, modes, last>>

(* RequestBuffersForListenerLocked: with a listener for sequence numbers    *)
(* and fences on the connection, ReleaseBuffer requests every free buffer   *)
(* for it before it lets go of mutex_, configuration by configuration, each *)
(* until a request is refused: for a buffer the producer has not seen, that *)
(* the consumer attached, or while the producer's cache is to be cleaned.   *)
(* Refused buffers go back to the end of the list; their order is left out. *)
(* A request that finds a buffer empties deletingList_ into an answer       *)
(* nobody gets, refused or not.                                             *)
Wanted(F, C) == {i \in DOMAIN F : F[i] # locked /\ config[F[i]] \in C}

Grants(F, C) ==
    {P \in SUBSET Wanted(F, C) :
        \A i \in P : /\ F[i] \notin isPreAlloc
                     /\ \A j \in Wanted(F, C) : j < i /\ config[F[j]] = config[F[i]] => j \in P}

Orders(P) == Injection(1..Cardinality(P), P)

(* It is asked for buffers of C out of the free list F, after the release   *)
(* has freed R or deleted D.                                                *)
HandsOver(R, D, F, C) ==
    \E P \in Grants(F, C) :
        LET G == {F[i] : i \in P}
        IN  /\ state' = [u \in Buffers |-> IF u \in G THEN "REQUESTED"
                                           ELSE IF u \in D THEN "NONE"
                                           ELSE IF u \in R THEN "RELEASED" ELSE state[u]]
            /\ config' = [u \in Buffers |-> IF u \in D THEN NULL ELSE config[u]]
            /\ isDeleting' = isDeleting \ D
            /\ isPreAlloc' = isPreAlloc \ D
            /\ \E f \in Orders(DOMAIN F \ P) : freeList' = Pick(F, f)
            /\ deletingList' = IF Wanted(F, C) # {} THEN {}
                               ELSE deletingList \union ((D \intersect Cached) \ isPreAlloc)
            /\ UNCHANGED dirtyList

ReleaseToListener(t, s) ==
    /\ Enters(t, "ReleaseBuffer")
    /\ "ReleaseListener" \in calls[t] /\ valid /\ hasListener
    /\ Exclusive(t, s)
    /\ state[s] \in {"ACQUIRED", "ATTACHED"}
    /\ \/ /\ s \notin isDeleting /\ ~allocating
          /\ HandsOver({s}, {}, Append(freeList, s), Configs)
          /\ notified' = NotifyBoth
          /\ UNCHANGED threads
       \/ /\ s \in isDeleting /\ ~allocating
          /\ HandsOver({}, {s}, RemoveFirst(freeList, s), Configs)
          /\ notified' = NotifyBoth
          /\ UNCHANGED threads
       \/ /\ s \notin isDeleting /\ allocating
          /\ Free(s)
          /\ Park(t, "releaseAsks", NoArg)
    /\ UNCHANGED <<sizes, allocating, modes, last>>

(* Whether the connection has such a listener may change from call to call. *)
ReleaseBuffer(t, s) == ReleaseUnlistened(t, s) \/ ReleaseToListener(t, s)

ReleaseDeletes(t) ==
    LET s == arg[t].buf
    IN  /\ pc[t] = "releaseDelete"
        /\ ~allocating
        /\ \/ DeleteBufferInCache(s)
           \/ /\ "ReleaseListener" \in calls[t] /\ valid /\ hasListener
              /\ HandsOver({}, {s}, RemoveFirst(freeList, s), Configs)
        /\ notified' = NotifyBoth
        /\ Finish(t)
        /\ UNCHANGED <<sizes, allocating, modes, last>>

(* The first request waits for an allocation in flight, with the            *)
(* configurations that were free before; only the later ones look at the    *)
(* status and the listener again.                                           *)
ReleaseAsks(t) ==
    /\ pc[t] = "releaseAsks"
    /\ ~allocating
    /\ \E C \in SUBSET Configs :
          /\ C # {} /\ ((valid /\ hasListener) \/ \E c \in C : C = {c})
          /\ HandsOver({}, {}, freeList, C)
    /\ Finish(t)
    /\ UNCHANGED <<sizes, allocating, modes, last, notified>>

(* GetLastFlushedBuffer with needRecordSequence, and its counterpart.       *)
AcquireLastFlushedBuffer(t) ==
    /\ Enters(t, "AcquireLastFlushedBuffer")
    /\ locked = NULL
    /\ lastFlushed \in Cached
    /\ state[lastFlushed] # "REQUESTED"
    /\ locked' = lastFlushed
    /\ UNCHANGED <<elements, lists, deletingList, sizes, allocating, modes, lastFlushed,
                   threads, notified>>

ReleaseLastFlushedBuffer_Unnotified(t) ==
    /\ Enters(t, "ReleaseLastFlushedBuffer")
    /\ locked # NULL
    /\ locked' = NULL
    /\ UNCHANGED <<elements, lists, deletingList, sizes, allocating, modes, lastFlushed, threads,
                   notified>>

ReleaseLastFlushedBuffer(t) ==
    /\ Enters(t, "ReleaseLastFlushedBuffer")
    /\ locked # NULL
    /\ locked' = NULL
    /\ notified' = NotifyRequest
    /\ UNCHANGED <<elements, lists, deletingList, sizes, allocating, modes, lastFlushed, threads>>

-----------------------------------------------------------------------------
(* Buffers that enter and leave the queue from outside. *)

(* AttachBufferToQueueLocked by a producer or a consumer; the consumer's    *)
(* fills a slot it reserved when it detached.                               *)
FillSlot_Unguarded(invoker) ==
    reserve' = IF invoker = "Consumer" THEN reserve - 1 ELSE reserve

FillSlot(invoker) ==
    reserve' = IF invoker = "Consumer" /\ reserve > 0 THEN reserve - 1 ELSE reserve

AttachBufferToQueue_InCache(t, s, invoker) ==
    /\ Enters(t, invoker \o "AttachBufferToQueue")
    /\ Exclusive(t, s)
    /\ Used < queueSize
    /\ \E c \in Configs :
          Insert(s, IF invoker = "Producer" THEN "REQUESTED" ELSE "ACQUIRED", c, FALSE)
    /\ FillSlot(invoker)
    /\ UNCHANGED <<lists, deletingList, queueSize, maxQueueSize, allocating, modes, last,
                   threads, notified>>

AttachBufferToQueue(t, s, invoker) ==
    /\ Enters(t, invoker \o "AttachBufferToQueue")
    /\ Exclusive(t, s)
    /\ Used < queueSize
    /\ state[s] = "NONE"
    /\ \E c \in Configs :
          Insert(s, IF invoker = "Producer" THEN "REQUESTED" ELSE "ACQUIRED", c, FALSE)
    /\ FillSlot(invoker)
    /\ UNCHANGED <<lists, deletingList, queueSize, maxQueueSize, allocating, modes, last,
                   threads, notified>>

(* DetachBufferFromQueueLocked by a producer, and DetachBuffer, erase the   *)
(* element at once and tell nobody that a slot is free.                     *)
DetachBuffer(t, s) ==
    /\ Exclusive(t, s)
    /\ \/ Enters(t, "ProducerDetachBufferFromQueue") /\ state[s] = "REQUESTED"
       \/ Enters(t, "DetachBuffer") /\ state[s] \in {"REQUESTED", "ACQUIRED"}
    /\ Erase({s})
    /\ UNCHANGED <<lists, deletingList, sizes, allocating, modes, last, threads, notified>>

(* By a consumer it waits for an allocation in flight, and may reserve the  *)
(* slot it empties.                                                         *)
ReserveSlot(yes) == reserve' = IF yes THEN (reserve + 1) % WordSize ELSE reserve

ConsumerDetach(t, s, isReserveSlot) ==
    /\ Enters(t, "ConsumerDetachBufferFromQueue")
    /\ Exclusive(t, s)
    /\ state[s] = "ACQUIRED"
    /\ IF allocating
       THEN /\ Park(t, "detachDelete", BufferArg(s, isReserveSlot))
            /\ UNCHANGED <<elements, lists, deletingList, reserve>>
       ELSE /\ DeleteBufferInCache(s)
            /\ ReserveSlot(isReserveSlot)
            /\ UNCHANGED threads
    /\ UNCHANGED <<queueSize, maxQueueSize, allocating, modes, last, notified>>

DetachDeletes(t) ==
    /\ pc[t] = "detachDelete"
    /\ ~allocating
    /\ DeleteBufferInCache(arg[t].buf)
    /\ ReserveSlot(arg[t].flag)
    /\ Finish(t)
    /\ UNCHANGED <<queueSize, maxQueueSize, allocating, modes, last, notified>>

(* AttachBuffer: status and listener are checked first, under locks that    *)
(* are released again before the buffer is looked up.                       *)
AttachBuffer(t, s) ==
    /\ Enters(t, "AttachBuffer")
    /\ Exclusive(t, s)
    /\ valid /\ hasListener
    /\ Park(t, "attachChecked", BufferArg(s, FALSE))
    /\ UNCHANGED <<elements, lists, deletingList, sizes, allocating, modes, last, notified>>

(* AttachBufferUpdateStatus of a released buffer. *)
AttachReleased_StaysFree(s) ==
    /\ SetState(s, "ATTACHED")
    /\ UNCHANGED <<lists, deletingList>>

AttachReleased(s) ==
    /\ SetState(s, "ATTACHED")
    /\ freeList' = RemoveFirst(freeList, s)
    /\ UNCHANGED <<dirtyList, deletingList>>

(* usedSize - queueSize + 1: by how many buffers the queue is too full.     *)
Excess == Used - queueSize + 1

(* Into a full queue it replaces free and dirty buffers, as many as the     *)
(* queue is too full by.                                                    *)
AttachReplacing(n, s, c) ==
    /\ state' = [u \in Buffers |-> IF u = s THEN "ATTACHED"
                                   ELSE IF u \in Gone(n) THEN "NONE" ELSE state[u]]
    /\ config' = [u \in Buffers |-> IF u = s THEN c
                                    ELSE IF u \in Gone(n) THEN NULL ELSE config[u]]
    /\ isDeleting' = ((isDeleting \ Gone(n)) \union Marks(n)) \ {s}
    /\ isPreAlloc' = isPreAlloc \ (Gone(n) \union {s})
    /\ CutLists(n)

AttachLooksUp(t) ==
    LET s == arg[t].buf
    IN  /\ pc[t] = "attachChecked"
        /\ \/ /\ state[s] = "RELEASED"
              /\ AttachReleased(s)
              /\ Finish(t)
           \/ /\ state[s] \notin {"RELEASED", "NONE"}
              /\ Goto(t, "attachWait")
              /\ UNCHANGED <<elements, lists, deletingList, arg>>
           \/ /\ state[s] = "NONE" /\ Used < queueSize
              /\ \E c \in Configs : Insert(s, "ATTACHED", c, FALSE)
              /\ Finish(t)
              /\ UNCHANGED <<lists, deletingList>>
           \/ /\ state[s] = "NONE" /\ Used >= queueSize
              /\ Len(freeList) + Len(dirtyList) >= Excess
              /\ IF allocating
                 THEN /\ Park(t, "attachDelete", [arg[t] EXCEPT !.count = Excess])
                      /\ UNCHANGED <<elements, lists, deletingList>>
                 ELSE /\ \E c \in Configs : AttachReplacing(Excess, s, c)
                      /\ Finish(t)
           \/ /\ state[s] = "NONE" /\ Used >= queueSize
              /\ Len(freeList) + Len(dirtyList) < Excess
              /\ Finish(t)
              /\ UNCHANGED <<elements, lists, deletingList>>
        /\ UNCHANGED <<sizes, allocating, modes, last, notified>>

AttachDeletes(t) ==
    /\ pc[t] = "attachDelete"
    /\ ~allocating
    /\ \E c \in Configs : AttachReplacing(arg[t].count, arg[t].buf, c)
    /\ Finish(t)
    /\ UNCHANGED <<sizes, allocating, modes, last, notified>>

(* The wait of AttachBufferUpdateStatus ends, by a notification or a        *)
(* timeout.  It reads the element through an iterator taken before the      *)
(* wait; when the element is gone by then, whatever it reads it changes     *)
(* nothing that is still in the queue.                                      *)
AttachWakes(t) ==
    LET s == arg[t].buf
    IN  /\ pc[t] = "attachWait"
        /\ \/ t \in notified /\ state[s] = "RELEASED"
           \/ "Timeout" \in calls[t]
        /\ \/ state[s] = "RELEASED" /\ AttachReleased(s)
           \/ state[s] # "RELEASED" /\ UNCHANGED <<elements, lists, deletingList>>
        /\ Finish(t)
        /\ notified' = notified \ {t}
        /\ UNCHANGED <<sizes, allocating, modes, last>>

AttachSleepsAgain(t) ==
    /\ pc[t] = "attachWait"
    /\ t \in notified /\ state[arg[t].buf] # "RELEASED"
    /\ notified' = notified \ {t}
    /\ UNCHANGED <<elements, lists, deletingList, sizes, allocating, modes, last, threads>>

-----------------------------------------------------------------------------
(* Capacity and cleaning. *)

(* SetQueueSizeLocked, with the wanted size already cut to maxQueueSize_;   *)
(* a smaller size first deletes as many buffers as slots go.                *)
SetQueueSizeTo(t, n) ==
    \/ /\ n < reserve
       /\ UNCHANGED <<elements, lists, deletingList, queueSize, threads, notified>>
    \/ /\ n >= reserve /\ n >= queueSize
       /\ queueSize' = n
       /\ notified' = IF n > queueSize THEN NotifyRequest ELSE notified
       /\ UNCHANGED <<elements, lists, deletingList, threads>>
    \/ /\ n >= reserve /\ n < queueSize /\ ~allocating
       /\ DeleteBuffers(queueSize - n)
       /\ queueSize' = n
       /\ UNCHANGED <<threads, notified>>
    \/ /\ n >= reserve /\ n < queueSize /\ allocating
       /\ Park(t, "shrinkWait", SizeArg(queueSize - n, n))
       /\ UNCHANGED <<elements, lists, deletingList, queueSize, notified>>

SetQueueSize(t, n) ==
    /\ Enters(t, "SetQueueSize")
    /\ SetQueueSizeTo(t, IF maxQueueSize # 0 /\ n > maxQueueSize THEN maxQueueSize ELSE n)
    /\ UNCHANGED <<maxQueueSize, reserve, allocating, modes, last>>

SetMaxQueueSize(t, n) ==
    /\ Enters(t, "SetMaxQueueSize")
    /\ maxQueueSize' = n
    /\ \/ queueSize > n /\ SetQueueSizeTo(t, n)
       \/ /\ queueSize <= n
          /\ UNCHANGED <<elements, lists, deletingList, queueSize, threads, notified>>
    /\ UNCHANGED <<reserve, allocating, modes, last>>

(* The size is stored after the wait, whatever it has become meanwhile.     *)
ShrinkAfterAlloc(t) ==
    /\ pc[t] = "shrinkWait"
    /\ ~allocating
    /\ DeleteBuffers(arg[t].count)
    /\ queueSize' = arg[t].size
    /\ notified' = IF arg[t].size > queueSize THEN NotifyRequest ELSE notified
    /\ Finish(t)
    /\ UNCHANGED <<maxQueueSize, reserve, allocating, modes, last>>

(* ClearLocked and the notification after it: GoBackground, CleanCache and  *)
(* OnConsumerDied.  The two sequence numbers of `last' are not reset.       *)
Clear ==
    /\ Erase(Buffers)
    /\ freeList' = <<>> /\ dirtyList' = <<>> /\ deletingList' = {}
    /\ notified' = NotifyRequest

CleanCache(t) ==
    /\ Enters(t, "CleanCache")
    /\ IF allocating
       THEN /\ Park(t, "clearWait", NoArg)
            /\ UNCHANGED <<elements, lists, deletingList, notified>>
       ELSE Clear /\ UNCHANGED threads
    /\ UNCHANGED <<sizes, allocating, modes, last>>

ClearAfterAlloc(t) ==
    /\ pc[t] = "clearWait"
    /\ ~allocating
    /\ Clear
    /\ Finish(t)
    /\ UNCHANGED <<sizes, allocating, modes, last>>

(* The ways to list the positions of l whose buffer is in K, in order; there *)
(* is one.                                                                   *)
Picks(l, K) ==
    LET P == {i \in DOMAIN l : l[i] \in K}
    IN  {f \in [1..Cardinality(P) -> P] : /\ \A i, j \in DOMAIN f : i < j => f[i] < f[j]
                                         /\ \A p \in P : \E i \in DOMAIN f : f[i] = p}

(* CleanReleasedBuffersLocked frees the memory of the released buffers but  *)
(* the last flushed one and the one a client holds.                         *)
CleanReleased_KeptForgotten ==
    LET kept == {lastFlushed, locked}
    IN  /\ Erase(ToSet(freeList))
        /\ \E f \in Picks(freeList, kept) : freeList' = Pick(freeList, f)
        /\ notified' = NotifyRequest
        /\ UNCHANGED <<dirtyList, deletingList>>

CleanReleased ==
    LET kept == {lastFlushed, locked}
    IN  /\ Erase(ToSet(freeList) \ kept)
        /\ \E f \in Picks(freeList, kept) : freeList' = Pick(freeList, f)
        /\ notified' = NotifyRequest
        /\ UNCHANGED <<dirtyList, deletingList>>

CleanReleasedBuffers(t) ==
    /\ Enters(t, "CleanReleasedBuffers")
    /\ freeList # <<>>
    /\ IF allocating
       THEN /\ Park(t, "cleanWait", NoArg)
            /\ UNCHANGED <<elements, lists, deletingList, notified>>
       ELSE CleanReleased /\ UNCHANGED threads
    /\ UNCHANGED <<sizes, allocating, modes, last>>

CleanReleasedAfterAlloc(t) ==
    /\ pc[t] = "cleanWait"
    /\ ~allocating
    /\ CleanReleased
    /\ Finish(t)
    /\ UNCHANGED <<sizes, allocating, modes, last>>

(* CleanProducerBySeqNum drops the named buffers wherever they are. *)
CleanProducerBySeqNum_DirtyKept(t, S) ==
    /\ Enters(t, "CleanProducerBySeqNum")
    /\ Erase(S)
    /\ \E f \in Picks(freeList, Buffers \ S) : freeList' = Pick(freeList, f)
    /\ UNCHANGED <<dirtyList, deletingList, sizes, allocating, modes, last, threads, notified>>

CleanProducerBySeqNum(t, S) ==
    /\ Enters(t, "CleanProducerBySeqNum")
    /\ Erase(S)
    /\ \E f \in Picks(freeList, Buffers \ S) : freeList' = Pick(freeList, f)
    /\ \E f \in Picks(dirtyList, Buffers \ S) : dirtyList' = Pick(dirtyList, f)
    /\ UNCHANGED <<deletingList, sizes, allocating, modes, last, threads, notified>>

(* PreAllocBuffers counts the missing buffers, allocates them without the   *)
(* lock and without isAllocatingBuffer_, and adds those that still fit.     *)
PreAllocBuffers(t, n, c) ==
    LET room == (Slots - Used) % WordSize
        k    == IF n > room THEN room ELSE n
    IN  /\ Enters(t, "PreAllocBuffers")
        /\ k # 0
        /\ Park(t, "preAlloc", ConfigArg(c, FALSE, k))
        /\ UNCHANGED <<elements, lists, deletingList, sizes, allocating, modes, last, notified>>

Increasing(n, S) == {f \in [1..n -> S] : \A i, j \in 1..n : i < j => f[i] < f[j]}

PreAllocated(t) ==
    /\ pc[t] = "preAlloc"
    /\ \E n \in 0..arg[t].count :
          /\ n = 0 \/ Used + n <= Slots
          /\ \E f \in Increasing(n, Unused) :
                LET new == {f[i] : i \in 1..n}
                IN  /\ state' = [s \in Buffers |-> IF s \in new THEN "RELEASED" ELSE state[s]]
                    /\ config' = [s \in Buffers |-> IF s \in new THEN arg[t].cfg ELSE config[s]]
                    /\ isDeleting' = isDeleting \ new
                    /\ isPreAlloc' = isPreAlloc \union new
                    /\ freeList' = freeList \o f
    /\ Finish(t)
    /\ UNCHANGED <<dirtyList, deletingList, sizes, allocating, modes, last, notified>>

-----------------------------------------------------------------------------
(* Status, listener and modes. *)

SetStatus(t) ==
    /\ Enters(t, "SetStatus")
    /\ valid' \in BOOLEAN
    /\ notified' = NotifyRequest
    /\ UNCHANGED <<elements, lists, deletingList, sizes, allocating, hasListener, noBlock,
                   priorityAlloc, calls, last, threads>>

SetConsumerListener(t) ==
    /\ Enters(t, "RegisterConsumerListener")
    /\ hasListener' = ~hasListener
    /\ UNCHANGED <<elements, lists, deletingList, sizes, allocating, valid, noBlock,
                   priorityAlloc, calls, last, threads, notified>>

SetRequestBufferNoblockMode(t) ==
    /\ Enters(t, "SetRequestBufferNoblockMode")
    /\ noBlock' \in BOOLEAN
    /\ UNCHANGED <<elements, lists, deletingList, sizes, allocating, valid, hasListener,
                   priorityAlloc, calls, last, threads, notified>>

SetIsPriorityAlloc(t) ==
    /\ Enters(t, "SetIsPriorityAlloc")
    /\ priorityAlloc' \in BOOLEAN
    /\ UNCHANGED <<elements, lists, deletingList, sizes, allocating, valid, hasListener,
                   noBlock, calls, last, threads, notified>>

-----------------------------------------------------------------------------
ProducerCall(t) ==
    \/ RequestBuffer(t)
    \/ \E s \in Buffers :
          \/ FlushBuffer(t, s)
          \/ CancelBuffer(t, s)
          \/ AttachAndFlushBuffer(t, s)
          \/ AttachBufferToQueue(t, s, "Producer")
          \/ DetachBuffer(t, s)
          \/ AttachBuffer(t, s)
    \/ \E n \in 1..MaxSize, c \in Configs : PreAllocBuffers(t, n, c)

ConsumerCall(t) ==
    \/ AcquireBuffer(t)
    \/ \E s \in Buffers :
          \/ ReleaseBuffer(t, s)
          \/ AttachBufferToQueue(t, s, "Consumer")
          \/ \E isReserveSlot \in BOOLEAN : ConsumerDetach(t, s, isReserveSlot)

ControlCall(t) ==
    \/ AcquireLastFlushedBuffer(t)
    \/ ReleaseLastFlushedBuffer(t)
    \/ \E n \in 1..MaxSize : SetQueueSize(t, n) \/ SetMaxQueueSize(t, n)
    \/ CleanCache(t)
    \/ CleanReleasedBuffers(t)
    \/ \E S \in SUBSET Buffers : CleanProducerBySeqNum(t, S)
    \/ SetStatus(t)
    \/ SetConsumerListener(t)
    \/ SetRequestBufferNoblockMode(t)
    \/ SetIsPriorityAlloc(t)

(* What a thread does inside a call it has begun. *)
RequestStep(t) ==
    \/ RequestAfterAlloc(t)
    \/ RequestWakes(t)
    \/ RequestSleepsAgain(t)
    \/ RequestTimesOut(t)
    \/ AllocSucceeds(t)
    \/ AllocFails(t)

FlushStep(t) ==
    \/ FlushChecksCache(t)
    \/ FlushChecksListener(t)
    \/ DoFlushBuffer(t)
    \/ FlushCancels(t)
    \/ FlushDeletes(t)

AttachStep(t) ==
    \/ AttachLooksUp(t)
    \/ AttachWakes(t)
    \/ AttachSleepsAgain(t)
    \/ AttachDeletes(t)

WaiterStep(t) ==
    \/ ReleaseDeletes(t)
    \/ ReleaseAsks(t)
    \/ DetachDeletes(t)
    \/ ShrinkAfterAlloc(t)
    \/ ClearAfterAlloc(t)
    \/ CleanReleasedAfterAlloc(t)
    \/ PreAllocated(t)

Step(t) == RequestStep(t) \/ FlushStep(t) \/ AttachStep(t) \/ WaiterStep(t)

Next == \E t \in Thread : ProducerCall(t) \/ ConsumerCall(t) \/ ControlCall(t) \/ Step(t)

Spec == Init /\ [][Next]_vars
=============================================================================
