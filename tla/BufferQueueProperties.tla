------------------------ MODULE BufferQueueProperties ------------------------
(***************************************************************************)
(* What the buffer queue of BufferQueue.tla promises.                      *)
(***************************************************************************)
EXTENDS BufferQueue

ArgType == [buf : Buffers \union {NULL}, cfg : Configs \union {NULL}, flag : BOOLEAN,
            count : Nat, size : 0..MaxSize]

(* Where a thread is inside a call that names a buffer, and where it is in  *)
(* RequestBuffer, which names a configuration.                              *)
BufferCall == {"flushStatusOk", "flushCacheOk", "flushListenerOk", "flushCancel", "flushDelete",
               "releaseDelete", "detachDelete", "attachChecked", "attachWait", "attachDelete"}
RequestCall == {"requestWaitAlloc", "requestBlocked", "alloc"}

QueueTypes ==
    /\ state \in [Buffers -> BufferState \union {"NONE"}]
    /\ isDeleting \subseteq Buffers
    /\ isPreAlloc \subseteq Buffers
    /\ config \in [Buffers -> Configs \union {NULL}]
    /\ freeList \in Seq(Buffers)
    /\ dirtyList \in Seq(Buffers)
    /\ deletingList \subseteq Buffers

SettingTypes ==
    /\ queueSize \in 0..MaxSize
    /\ maxQueueSize \in 0..MaxSize
    /\ reserve \in 0..(WordSize - 1)
    /\ allocating \in BOOLEAN
    /\ valid \in BOOLEAN /\ hasListener \in BOOLEAN
    /\ noBlock \in BOOLEAN /\ priorityAlloc \in BOOLEAN
    /\ calls \in Mixes
    /\ lastFlushed \in Buffers \union {NULL}
    /\ locked \in Buffers \union {NULL}

(* A thread carries a buffer exactly while it is in a call that names one.  *)
CallOK(p, a) ==
    /\ p \in Location
    /\ a \in ArgType
    /\ p \in BufferCall <=> a.buf # NULL
    /\ p \in RequestCall => a.cfg # NULL

CallTypes ==
    /\ pc \in [Thread -> Location]
    /\ arg \in [Thread -> ArgType]
    /\ \A t \in Thread : CallOK(pc[t], arg[t])
    /\ notified \subseteq Thread

(* Every variable of the queue and of its callers keeps its type.  The      *)
(* reserve counter is a uint32_t that must not wrap below zero, and a       *)
(* thread inside a call that names a buffer carries that buffer             *)
(* (FlushBuffer, ReleaseBuffer, ...).                                       *)
TypeOK == QueueTypes /\ SettingTypes /\ CallTypes

(* What the threads of this queue never do: no call of S in any mix.        *)
NeverCalled(S) == \A m \in Mixes, t \in Thread : m[t] \intersect S = {}

-----------------------------------------------------------------------------
(* The two lists and the states of the elements tell the same story, even   *)
(* while calls are half done: a buffer is at most once in at most one list, *)
(* freeList_ holds released buffers and dirtyList_ exactly the flushed      *)
(* ones, and a released buffer is reachable for the next RequestBuffer      *)
(* unless a ReleaseBuffer is about to delete it.  A buffer that is in       *)
(* neither list is never handed out again: it is leaked.                    *)
BeingDeleted == {arg[t].buf : t \in {u \in Thread : pc[u] = "releaseDelete"}}

ListsMatchStates ==
    /\ IsInjective(freeList)
    /\ IsInjective(dirtyList)
    /\ \A s \in ToSet(freeList) : state[s] = "RELEASED"
    /\ \A s \in ToSet(dirtyList) : state[s] = "FLUSHED"
    /\ \A s \in Buffers :
          /\ state[s] = "RELEASED" => s \in ToSet(freeList) \union BeingDeleted
          /\ state[s] = "FLUSHED" => s \in ToSet(dirtyList)

(* A call that let go of mutex_ after it had checked its buffer finds the   *)
(* buffer as it left it, or gone, when it holds the lock again: FlushBuffer *)
(* before it enqueues, ReleaseBuffer, DetachBufferFromQueue and             *)
(* AttachBuffer before they delete.                                         *)
ChecksStillHold ==
    \A t \in Thread :
        LET s == arg[t].buf
        IN  /\ pc[t] \in {"flushCacheOk", "flushListenerOk", "flushCancel", "flushDelete"}
                 => state[s] \in Owned \union {"NONE"}
            /\ pc[t] = "releaseDelete"
                 => state[s] \in {"RELEASED", "ATTACHED", "NONE"} /\ s \notin ToSet(freeList)
            /\ pc[t] = "detachDelete" => state[s] \in {"ACQUIRED", "NONE"}
            /\ pc[t] = "attachDelete" => state[s] = "NONE"

(* Two calls name one buffer only if one of them is a blocked AttachBuffer. *)
OneCallPerBuffer ==
    \A t, u \in Thread :
        t # u /\ arg[t].buf = arg[u].buf /\ arg[t].buf # NULL
            => "attachWait" \in {pc[t], pc[u]}

(* Every step of the queue is a step of BufferLifecycle: a buffer changes   *)
(* hands only as the state machine allows, and frames stay in flush order.  *)
HolderOf(st) ==
    CASE st = "NONE" -> "nobody"
      [] st = "RELEASED" -> "queue"
      [] st \in {"REQUESTED", "ATTACHED"} -> "producer"
      [] st = "FLUSHED" -> "frames"
      [] st = "ACQUIRED" -> "consumer"

Lifecycle == INSTANCE BufferLifecycle
    WITH holder <- [s \in Buffers |-> HolderOf(state[s])], frames <- dirtyList

ImplementsLifecycle == Lifecycle!Spec

(* The queue never holds more buffers than it has slots, the one that is    *)
(* being allocated without the lock included: RequestBufferLocked decides   *)
(* on a size it read before AllocBuffer let go of mutex_.                   *)
InAlloc == {t \in Thread : pc[t] = "alloc"}

Capacity == Used + Cardinality(InAlloc) <= Slots

(* "isAllocatingBufferCon_ prevents concurrent buffer allocation"           *)
(* (buffer-queue-producer-consumer.md:43).  It does as long as no thread    *)
(* attaches buffers: a request that wakes from its wait for a free buffer   *)
(* does not look at isAllocatingBuffer_ again (ReuseBufferForBlockMode).    *)
OneAllocation == Cardinality(InAlloc) <= 1

(* A slot the consumer reserved when it detached a buffer stays empty until *)
(* it attaches one again, so the reservation never exceeds the queue.       *)
ReservedSlotsEmpty == Used + reserve <= queueSize

(* The protocol consumer_surface.h:503 asks for: the consumer attaches a    *)
(* buffer only to fill a slot it reserved.                                  *)
PairedConsumerCall(t) ==
    \/ AcquireBuffer(t)
    \/ \E s \in Buffers :
          \/ ReleaseBuffer(t, s)
          \/ reserve > 0 /\ AttachBufferToQueue(t, s, "Consumer")
          \/ \E isReserveSlot \in BOOLEAN : ConsumerDetach(t, s, isReserveSlot)

PairedNext ==
    \E t \in Thread : ProducerCall(t) \/ PairedConsumerCall(t) \/ ControlCall(t) \/ Step(t)

PairedSpec == Init /\ [][PairedNext]_vars

(* A RequestBuffer that could go on is not left asleep until its timeout:   *)
(* it was notified after its condition last became true.  Some calls make   *)
(* it true and notify nobody.  Those that detach buffers, drop them by      *)
(* number or shrink the queue make room, PreAllocBuffers adds free buffers, *)
(* AttachBuffer changes the size of the cache, and in no-block mode a       *)
(* request may take a frame away and fail to replace it.                    *)
SilentCalls == {"DetachBuffer", "ProducerDetachBufferFromQueue", "ConsumerDetachBufferFromQueue",
                "CleanProducerBySeqNum", "SetQueueSize", "SetMaxQueueSize", "PreAllocBuffers",
                "AttachBuffer", "SetRequestBufferNoblockMode"}

(* Nobody here makes a call of S.                                           *)
NoneCalls(S) == \A t \in Thread : calls[t] \intersect S = {}

AllNotified == \A t \in Thread : pc[t] = "requestBlocked" => t \in notified

BlockedAreNotified ==
    /\ ~valid => AllNotified
    /\ freeList # <<>> /\ freeList # <<locked>> /\ NoneCalls({"PreAllocBuffers"}) => AllNotified
    /\ Room /\ NoneCalls(SilentCalls) => AllNotified

(* A released buffer that a client still reads through                      *)
(* AcquireLastFlushedBuffer is neither granted to a producer nor freed.     *)
LockedBufferStays ==
    [][locked # NULL /\ locked' = locked /\ state[locked] = "RELEASED"
         => state'[locked] = "RELEASED"]_vars

(* When the queue is made smaller, every buffer beyond the new size is gone *)
(* or marked to be deleted when its holder gives it back, provided no mark  *)
(* of an earlier shrink is still open: a second shrink marks the same       *)
(* buffers again and counts them twice (DeleteBuffersLocked).               *)
ShrinkMarksExcess ==
    [][queueSize' < queueSize /\ isDeleting = {} /\ Used <= queueSize
         => Used' - Cardinality(isDeleting') <= queueSize']_vars

(* A frame that a flush put in the queue is not lost: frames leave          *)
(* dirtyList_ in order, and to the consumer only, except in no-block mode.  *)
FramesReachConsumer ==
    [][\A s \in Buffers : state[s] = "FLUSHED" /\ state'[s] # "FLUSHED"
         => s = Head(dirtyList) /\ (state'[s] = "ACQUIRED" \/ noBlock)]_vars

(* A request may overwrite a frame nobody acquired only in no-block mode,   *)
(* only the oldest one, and only when the queue has no other buffer to give *)
(* (ReuseBufferForNoBlockMode).  It takes the frame's buffer, or allocates  *)
(* another in its place.                                                    *)
Overwritten(s) ==
    /\ state[s] = "FLUSHED"
    /\ state'[s] = "REQUESTED" \/ (state'[s] = "NONE" /\ ~allocating /\ allocating')

OverwriteIsLastResort ==
    [][\A s \in Buffers : Overwritten(s)
         => noBlock /\ ~Room /\ ToSet(freeList) \subseteq {locked}
              /\ s = Head(dirtyList)]_vars

(* FlushBuffer validates the state it flushes from: a buffer becomes a      *)
(* frame only out of its producer's hands, or as it enters the queue.       *)
FlushFromOwner ==
    [][\A s \in Buffers : state'[s] = "FLUSHED" /\ state[s] # "FLUSHED"
         => state[s] \in Owned \union {"NONE"}]_vars

-----------------------------------------------------------------------------
(* Liveness.  Every thread goes on with a call it is in; the operating      *)
(* system schedules threads and the allocator returns.  The clients do      *)
(* their part: a producer thread keeps flushing what was requested, and a   *)
(* consumer keeps acquiring frames and releasing them.                      *)
FlushesOwned(t)     == \E s \in Buffers : state[s] \in Owned /\ FlushBuffer(t, s)
ReleasesAcquired(t) == \E s \in Buffers : ReleaseBuffer(t, s)

Fairness == \A t \in Thread : /\ WF_vars(Step(t))
                              /\ SF_vars(FlushesOwned(t))
                              /\ SF_vars(AcquireBuffer(t))
                              /\ SF_vars(ReleasesAcquired(t))

FairSpec == Spec /\ Fairness

(* A RequestBuffer that blocks is served without its timeout's help, as     *)
(* long as no other thread competes for the buffers.                        *)
BlockedIsServed ==
    \A t \in Thread : pc[t] = "requestBlocked" ~> pc[t] # "requestBlocked"

(* Every frame reaches the consumer in the end.                             *)
FramesAreConsumed ==
    \A s \in Buffers : state[s] = "FLUSHED" ~> state[s] = "ACQUIRED"
=============================================================================
