---------------------- MODULE BufferQueueCapacityProofs ----------------------
(***************************************************************************)
(* The buffer queue never outgrows its slots, and wakes those who wait.    *)
(*                                                                         *)
(* Capacity, OneAllocation and ReservedSlotsEmpty depend on each other.  A *)
(* RequestBuffer that wakes reallocates without looking whether another    *)
(* allocation is running; that there is none follows from the queue being  *)
(* full, once the buffer under allocation is counted.  And the size of the *)
(* queue is a difference of unsigned numbers, right only while the         *)
(* reservation does not exceed the queue.  Fits states the three together. *)
(***************************************************************************)
EXTENDS BufferQueueProofs, FiniteSetTheorems

(* The calls that add buffers without counting the one under allocation, or *)
(* the reserved slots, or that make the queue smaller than what it holds.   *)
GrowingCalls == {"AttachBuffer", "AttachAndFlushBuffer", "Producer" \o "AttachBufferToQueue",
                 "SetQueueSize", "SetMaxQueueSize", "PreAllocBuffers"}

(* The calls that take any buffer out of the queue, one that another thread *)
(* is detaching included; and the call that reserves a slot.                *)
CleaningCalls  == {"CleanCache", "CleanProducerBySeqNum"}
ReservingCalls == {"ConsumerDetachBufferFromQueue"}

(* Nobody cleans the queue while its consumer detaches buffers.             *)
NoCleaningWhileDetaching == NeverCalled(CleaningCalls) \/ NeverCalled(ReservingCalls)

(* isAllocatingBuffer_ is set while one thread is in AllocBuffer.           *)
AllocOK == \/ ~allocating /\ InAlloc = {}
           \/ allocating /\ \E t \in Thread : InAlloc = {t}

Pending == IF allocating THEN 1 ELSE 0

Fits == AllocOK /\ Used + reserve + Pending <= queueSize

(* A thread is where the calls it makes lead to.                            *)
CallMade(t) ==
    /\ pc[t] \in {"attachChecked", "attachWait", "attachDelete"} => "AttachBuffer" \in calls[t]
    /\ pc[t] = "shrinkWait" => "SetQueueSize" \in calls[t] \/ "SetMaxQueueSize" \in calls[t]
    /\ pc[t] = "preAlloc" => "PreAllocBuffers" \in calls[t]
    /\ pc[t] = "clearWait" => "CleanCache" \in calls[t]
    /\ pc[t] = "detachDelete" => "ConsumerDetachBufferFromQueue" \in calls[t]

(* What a consumer is detaching is still its own.                           *)
DetachHolds(t) == pc[t] = "detachDelete" => state[arg[t].buf] = "ACQUIRED"

CapInv == IInv /\ Fits /\ \A t \in Thread : CallMade(t) /\ DetachHolds(t)

-----------------------------------------------------------------------------
(* Counting. *)

(* bufferQueueSize_ - detachReserveSlotNum_ does not wrap.                  *)
LEMMA SlotsAre ==
    ASSUME SettingTypes, reserve <= queueSize
    PROVE  Slots = queueSize - reserve
BY SizeAssumption DEF SettingTypes, Slots

(* A cache that loses elements holds no more of them.                       *)
LEMMA UsedShrinks ==
    ASSUME QueueTypes, QueueTypes', Cached' \subseteq Cached
    PROVE  Used' \in Nat /\ Used \in Nat /\ Used' <= Used
<1>1. IsFiniteSet(Cached)
    BY FiniteBuffers DEF Cached
<1>2. Cardinality(Cached) \in Nat /\ Cardinality(Cached') \in Nat
    BY FiniteBuffers DEF Cached
<1>3. Cardinality(Cached') <= Cardinality(Cached)
    BY <1>1, FS_Subset
<1> QED BY <1>2, <1>3 DEF Used

(* An erased element makes room for one.                                    *)
LEMMA UsedOneLess ==
    ASSUME QueueTypes, NEW s \in Cached, Cached' = Cached \ {s}
    PROVE  Used' = Used - 1
<1>1. IsFiniteSet(Cached)
    BY FiniteBuffers DEF Cached
<1> QED BY <1>1, FS_RemoveElement DEF Used

(* An inserted element takes the room of one.                               *)
LEMMA UsedOneMore ==
    ASSUME QueueTypes, NEW s \in Buffers, state[s] = "NONE", Cached' = Cached \union {s}
    PROVE  Used' = Used + 1
<1>1. IsFiniteSet(Cached) /\ s \notin Cached
    BY FiniteBuffers DEF Cached
<1> QED BY <1>1, FS_AddElement DEF Used

(* What one step to state st does to the number of buffers.                 *)
LEMMA UsedAfter ==
    ASSUME QueueTypes, QueueTypes', NEW s \in Buffers, NEW st, state' = [state EXCEPT ![s] = st]
    PROVE  /\ state[s] # "NONE" /\ st # "NONE" => Used' = Used
           /\ state[s] # "NONE" /\ st = "NONE" => Used' = Used - 1
           /\ state[s] = "NONE" /\ st # "NONE" => Used' = Used + 1
<1>1. \A u \in Buffers : state'[u] = IF u = s THEN st ELSE state[u]
    BY DEF QueueTypes
<1>2. CASE state[s] # "NONE" /\ st # "NONE"
    <2>1. Cached' = Cached
        BY <1>1, <1>2 DEF Cached
    <2> QED BY <1>2, <2>1 DEF Used
<1>3. CASE state[s] # "NONE" /\ st = "NONE"
    <2>1. Cached' = Cached \ {s} /\ s \in Cached
        BY <1>1, <1>3 DEF Cached
    <2> QED BY <1>3, <2>1, UsedOneLess
<1>4. CASE state[s] = "NONE" /\ st # "NONE"
    <2>1. Cached' = Cached \union {s}
        BY <1>1, <1>4 DEF Cached
    <2> QED BY <1>4, <2>1, UsedOneMore
<1> QED BY <1>2, <1>3, <1>4

(* A step that adds no buffer, starts and ends no allocation and reserves   *)
(* nothing.                                                                 *)
LEMMA FitsStay ==
    ASSUME QueueTypes, QueueTypes', SettingTypes, Fits, NEW t \in Thread,
           Cached' \subseteq Cached,
           UNCHANGED <<queueSize, reserve, allocating>>,
           OnlyMoves(t), pc[t] # "alloc", pc'[t] # "alloc"
    PROVE  Fits'
<1>1. Used' \in Nat /\ Used \in Nat /\ Used' <= Used
    BY UsedShrinks
<1>2. InAlloc' = InAlloc
    BY DEF InAlloc, OnlyMoves
<1>3. AllocOK'
    BY <1>2 DEF Fits, AllocOK
<1>4. Pending' = Pending /\ Pending \in Nat
    BY DEF Pending
<1>5. reserve \in Nat /\ queueSize \in Nat
    BY SizeAssumption DEF SettingTypes
<1>6. Used + reserve + Pending <= queueSize
    BY DEF Fits
<1>7. Used' + reserve' + Pending' <= queueSize'
    BY <1>1, <1>4, <1>5, <1>6
<1> QED BY <1>3, <1>7 DEF Fits

-----------------------------------------------------------------------------
(* What a step of thread t must do besides. *)

(* It leaves a buffer that the consumer acquired alone, unless it may act   *)
(* on it, or the consumer does not detach buffers.                          *)
Spares(t) == \A s \in Buffers \ Mine(t) : state[s] = "ACQUIRED" => state'[s] = "ACQUIRED"

MoveOK(t) == OnlyMoves(t) /\ UNCHANGED calls /\ CallMade(t)' /\ DetachHolds(t)'

CapStep(t) == Fits' /\ (Spares(t) \/ NeverCalled(ReservingCalls)) /\ MoveOK(t)

Special == {"attachChecked", "attachWait", "attachDelete", "shrinkWait", "preAlloc", "clearWait",
            "detachDelete"}

(* A thread that ends its call, or goes to a point many calls share, is     *)
(* where its calls lead to.                                                 *)
LEMMA PlainMove ==
    ASSUME CallTypes, UNCHANGED calls, NEW t \in Thread,
           \/ UNCHANGED threads /\ pc[t] \notin Special
           \/ Finish(t)
           \/ \E l, a : l \notin Special /\ Park(t, l, a)
           \/ \E l : l \notin Special /\ Goto(t, l) /\ UNCHANGED arg
    PROVE  MoveOK(t) /\ pc'[t] \notin Special
BY DEF CallTypes, Finish, Park, Goto, threads, MoveOK, OnlyMoves, CallMade, DetachHolds, Special

(* A step that changes one buffer, which is not the consumer's or is t's    *)
(* own, spares what other threads detach.                                   *)
LEMMA SparesOne ==
    ASSUME QueueTypes, NEW t, NEW s \in Buffers, state[s] # "ACQUIRED" \/ s \in Mine(t),
           NEW st, state' = [state EXCEPT ![s] = st]
    PROVE  Spares(t)
BY DEF QueueTypes, Spares

(* So does a step that changes none.                                        *)
LEMMA SparesAll ==
    ASSUME NEW t, UNCHANGED state
    PROVE  Spares(t)
BY DEF Spares

(* What the lemmas below take from the invariant.                           *)
LEMMA CapParts ==
    ASSUME CapInv
    PROVE  /\ QueueTypes /\ SettingTypes /\ CallTypes /\ QueueOK /\ ChecksStillHold /\ Fits
           /\ Used \in Nat /\ queueSize \in Nat /\ reserve \in Nat
           /\ Slots = queueSize - reserve
<1>1. QueueTypes /\ SettingTypes /\ CallTypes /\ QueueOK /\ ChecksStillHold /\ Fits
    BY IInvParts DEF CapInv, IInv, TypeOK
<1>2. Used \in Nat /\ queueSize \in Nat /\ reserve \in Nat
    BY <1>1, UsedIsNat, SizeAssumption DEF SettingTypes
<1>3. reserve <= queueSize
    BY <1>1, <1>2 DEF Fits, Pending
<1> QED BY <1>1, <1>2, <1>3, SlotsAre

(* An allocation in flight leaves room: the buffer under allocation has a   *)
(* slot.                                                                    *)
LEMMA AllocLeavesRoom ==
    ASSUME CapInv, allocating
    PROVE  Room
<1>1. Used + reserve + 1 <= queueSize
    BY CapParts DEF Fits, Pending
<1> QED BY <1>1, CapParts DEF Room

-----------------------------------------------------------------------------
(* RequestBuffer. *)

(* An allocation starts in a slot that no other one needs.                  *)
LEMMA StartFits ==
    ASSUME CapInv, QueueTypes', NEW t \in Thread, NEW a, StartAlloc(t, a), ~allocating,
           Used' + reserve + 1 <= queueSize,
           UNCHANGED <<queueSize, reserve, calls>>
    PROVE  Fits' /\ MoveOK(t)
<1>1. CallTypes /\ Fits
    BY CapParts
<1>2. MoveOK(t) /\ pc'[t] = "alloc" /\ \A u \in Thread \ {t} : pc'[u] = pc[u]
    BY <1>1, PlainMove DEF StartAlloc, Park, Special, CallTypes
<1>3. InAlloc' = {t}
    BY <1>1, <1>2 DEF Fits, AllocOK, InAlloc
<1>4. AllocOK' /\ Pending' = 1
    BY <1>3 DEF AllocOK, StartAlloc, Pending
<1> QED BY <1>2, <1>4 DEF Fits

(* ReuseBuffer of a buffer that is cached.                                  *)
LEMMA ReuseFits ==
    ASSUME CapInv, QueueTypes', NEW t \in Thread, NEW a, NEW s \in Buffers, ReuseBuffer(t, s, a),
           state[s] # "ACQUIRED", config[s] # a.cfg => ~Room, pc[t] # "alloc",
           UNCHANGED <<queueSize, reserve, calls>>
    PROVE  CapStep(t)
<1>1. /\ QueueTypes /\ SettingTypes /\ CallTypes /\ Fits
      /\ Used \in Nat /\ queueSize \in Nat /\ reserve \in Nat
    BY CapParts
<1>2. s \in Cached /\ state[s] # "NONE"
    BY DEF ReuseBuffer, Cached
<1>3. CASE Finish(t) /\ UNCHANGED allocating /\ state' = [state EXCEPT ![s] = Granted(a)]
    <2>1. MoveOK(t) /\ OnlyMoves(t) /\ pc'[t] # "alloc"
        BY <1>1, <1>3, PlainMove DEF MoveOK, Finish, CallTypes
    <2>2. Cached' \subseteq Cached
        BY <1>1, <1>2, <1>3 DEF Cached, QueueTypes
    <2>3. Fits'
        BY <1>1, <1>3, <2>1, <2>2, FitsStay
    <2>4. Spares(t)
        BY <1>1, <1>3, SparesOne
    <2> QED BY <2>1, <2>3, <2>4 DEF CapStep
<1>4. CASE config[s] # a.cfg /\ Delete({s}) /\ StartAlloc(t, a)
    <2>1. state' = [state EXCEPT ![s] = "NONE"]
        BY <1>1, <1>4 DEF Delete, Erase, QueueTypes
    <2>2. Used' = Used - 1
        BY <1>1, <1>2, <2>1, UsedAfter
    <2>3. ~allocating
        BY <1>4, AllocLeavesRoom
    <2>4. Used + reserve <= queueSize
        BY <1>1, <2>3 DEF Fits, Pending
    <2>5. Used' + reserve + 1 <= queueSize
        BY <1>1, <2>2, <2>4
    <2>6. Fits' /\ MoveOK(t)
        BY <1>4, <2>3, <2>5, StartFits
    <2>7. Spares(t)
        BY <1>1, <2>1, SparesOne
    <2> QED BY <2>6, <2>7 DEF CapStep
<1> QED BY <1>3, <1>4 DEF ReuseBuffer

(* PopFromFreeListLocked gives a buffer of another configuration only when  *)
(* the queue has no room.                                                   *)
LEMMA PopOther ==
    ASSUME QueueTypes, NEW c, CanPop(c), config[freeList[PoppedAt(c)]] # c
    PROVE  ~Room
<1>1. CASE Matching(c) # {}
    <2>1. Matching(c) \in SUBSET Nat
        BY LenProperties DEF Matching, QueueTypes
    <2>2. PoppedAt(c) \in Matching(c)
        BY <1>1, <2>1, LeastExists DEF PoppedAt, MinOf
    <2> QED BY <2>2 DEF Matching
<1> QED BY <1>1 DEF CanPop

(* PopFromFreeListLocked grants a free buffer, or replaces it by the one it *)
(* allocates: the queue grows by neither.                                   *)
LEMMA PopFits ==
    ASSUME CapInv, QueueTypes', NEW t \in Thread, NEW a, PopFromFreeList(t, a), pc[t] # "alloc",
           UNCHANGED <<queueSize, reserve, calls>>
    PROVE  CapStep(t)
<1> DEFINE s == freeList[PoppedAt(a.cfg)]
<1>1. QueueTypes /\ QueueOK
    BY CapParts
<1>2. s \in FreeSet
    BY <1>1, PopLists DEF PopFromFreeList
<1>3. s \in Buffers /\ state[s] = "RELEASED"
    BY <1>1, <1>2 DEF QueueOK, In
<1>4. config[s] # a.cfg => ~Room
    BY <1>1, PopOther DEF PopFromFreeList
<1>5. ReuseBuffer(t, s, a)
    BY DEF PopFromFreeList
<1> HIDE DEF s
<1> QED BY <1>3, <1>4, <1>5, ReuseFits

(* A step that changes no buffer, no number and no allocation.              *)
LEMMA QuietFits ==
    ASSUME CapInv, QueueTypes', NEW t \in Thread, UNCHANGED state,
           UNCHANGED <<queueSize, reserve, allocating>>, MoveOK(t),
           pc[t] # "alloc", pc'[t] # "alloc"
    PROVE  CapStep(t)
<1>1. Cached' \subseteq Cached
    BY DEF Cached
<1>2. Fits'
    BY <1>1, CapParts, FitsStay DEF MoveOK
<1> QED BY <1>2, SparesAll DEF CapStep

(* RequestBufferLocked while no allocation is in flight, and what follows   *)
(* its wait.                                                                *)
LEMMA SelectFits ==
    ASSUME CapInv, QueueTypes', NEW t \in Thread, NEW a, pc[t] # "alloc",
           \/ SelectBuffer(t, a) /\ ~allocating
           \/ AfterWait(t) /\ a = arg[t],
           UNCHANGED <<queueSize, reserve, calls>>
    PROVE  CapStep(t)
<1>1. /\ QueueTypes /\ CallTypes /\ QueueOK
      /\ Used \in Nat /\ queueSize \in Nat /\ reserve \in Nat
      /\ Slots = queueSize - reserve
    BY CapParts
<1>2. CASE PopFromFreeList(t, a)
    BY <1>2, PopFits
<1>3. CASE Room /\ ~allocating /\ StartAlloc(t, a) /\ UNCHANGED elements
    <2>1. Used' = Used
        BY <1>3 DEF Used, Cached, elements
    <2>2. Used' + reserve + 1 <= queueSize
        BY <1>1, <1>3, <2>1 DEF Room
    <2> QED BY <1>3, <2>2, StartFits, SparesAll DEF CapStep, elements
<1>4. CASE ~Room /\ PopFromDirtyList(t, a)
    <2> DEFINE s == Head(dirtyList)
    <2>1. s \in In("FLUSHED")
        BY <1>1, <1>4, ListsTail DEF PopFromDirtyList, QueueOK
    <2>2. s \in Buffers /\ state[s] = "FLUSHED" /\ ReuseBuffer(t, s, a)
        BY <1>4, <2>1 DEF PopFromDirtyList, In
    <2> HIDE DEF s
    <2> QED BY <1>4, <2>2, ReuseFits
<1>5. CASE NoBuffer(t)
    <2>1. MoveOK(t) /\ pc'[t] # "alloc"
        BY <1>1, <1>5, PlainMove DEF NoBuffer, Finish, CallTypes
    <2> QED BY <1>5, <2>1, QuietFits DEF NoBuffer, elements
<1>6. CASE Park(t, "requestBlocked", a) /\ UNCHANGED <<elements, allocating>>
    <2>1. MoveOK(t) /\ pc'[t] # "alloc"
        BY <1>1, <1>6, PlainMove DEF Park, CallTypes, Special
    <2> QED BY <1>6, <2>1, QuietFits DEF elements
<1> QED BY <1>2, <1>3, <1>4, <1>5, <1>6 DEF SelectBuffer, AfterWait

(* AllocBuffer ends: its buffer takes the slot that was kept for it.        *)
LEMMA AllocFits ==
    ASSUME CapInv, QueueTypes', NEW t \in Thread, AllocSucceeds(t) \/ AllocFails(t)
    PROVE  CapStep(t)
<1>1. /\ QueueTypes /\ CallTypes /\ Fits
      /\ Used \in Nat /\ queueSize \in Nat /\ reserve \in Nat
    BY CapParts
<1>2. /\ pc[t] = "alloc" /\ ~allocating' /\ Finish(t)
      /\ UNCHANGED <<queueSize, reserve, calls>>
    BY DEF AllocSucceeds, AllocFails, sizes, modes
<1>3. MoveOK(t) /\ pc'[t] = "idle" /\ \A u \in Thread \ {t} : pc'[u] = pc[u]
    BY <1>1, <1>2, PlainMove DEF Finish, CallTypes
<1>4. allocating /\ InAlloc = {t}
    BY <1>1, <1>2 DEF Fits, AllocOK, InAlloc
<1>5. AllocOK' /\ Pending' = 0 /\ Used + reserve + 1 <= queueSize
    BY <1>1, <1>2, <1>3, <1>4 DEF Fits, AllocOK, InAlloc, Pending
<1>6. CASE UNCHANGED elements
    <2>1. Used' = Used
        BY <1>6 DEF Used, Cached, elements
    <2>2. Fits'
        BY <1>1, <1>2, <1>5, <2>1 DEF Fits
    <2> QED BY <1>3, <1>6, <2>2, SparesAll DEF CapStep, elements
<1>7. ASSUME NEW s \in Unused, Insert(s, "REQUESTED", arg[t].cfg, FALSE)
      PROVE  CapStep(t)
    <2> s \in Buffers /\ state[s] = "NONE"
        BY DEF Unused
    <2>1. PICK st : st # "NONE" /\ state' = [state EXCEPT ![s] = st]
        BY <1>7 DEF Insert
    <2>2. Used' = Used + 1
        BY <1>1, <2>1, UsedAfter
    <2>3. Fits'
        BY <1>1, <1>2, <1>5, <2>2 DEF Fits
    <2>4. Spares(t)
        BY <1>1, <2>1, SparesOne
    <2> QED BY <1>3, <2>3, <2>4 DEF CapStep
<1> QED BY <1>6, <1>7 DEF AllocSucceeds, AllocFails

(* Every step of RequestBuffer.                                             *)
LEMMA RequestFits ==
    ASSUME CapInv, QueueTypes', NEW t \in Thread, RequestBuffer(t) \/ RequestStep(t)
    PROVE  CapStep(t)
<1>1. CallTypes
    BY CapParts
<1>2. CASE RequestBuffer(t)
    <2>1. pc[t] # "alloc" /\ UNCHANGED <<queueSize, reserve, calls>>
        BY <1>2 DEF RequestBuffer, Enters, Idle, sizes, modes
    <2>2. ASSUME NEW a, SelectBuffer(t, a), ~allocating
          PROVE  CapStep(t)
        BY <2>1, <2>2, SelectFits
    <2>3. ASSUME NEW a, Park(t, "requestWaitAlloc", a), UNCHANGED <<elements, allocating>>
          PROVE  CapStep(t)
        <3>1. MoveOK(t) /\ pc'[t] # "alloc"
            BY <1>1, <2>1, <2>3, PlainMove DEF Park, CallTypes, Special
        <3> QED BY <2>1, <2>3, <3>1, QuietFits DEF elements
    <2> QED BY <1>2, <2>2, <2>3 DEF RequestBuffer
<1>3. CASE RequestAfterAlloc(t)
    BY <1>3, SelectFits DEF RequestAfterAlloc, sizes, modes
<1>4. CASE RequestWakes(t) \/ RequestTimesOut(t)
    BY <1>4, SelectFits DEF RequestWakes, RequestTimesOut, sizes, modes
<1>5. CASE RequestSleepsAgain(t)
    <2>1. MoveOK(t)
        BY <1>1, <1>5, PlainMove DEF RequestSleepsAgain, modes, Special
    <2> QED BY <1>5, <2>1, QuietFits DEF RequestSleepsAgain, elements, sizes, threads
<1> QED BY <1>2, <1>3, <1>4, <1>5, AllocFits DEF RequestStep

-----------------------------------------------------------------------------
(* The other calls. *)

(* A step that changes the hands of one buffer the queue knows, or lets it  *)
(* go.                                                                      *)
LEMMA OneFits ==
    ASSUME CapInv, QueueTypes', NEW t \in Thread, NEW s \in Buffers,
           state[s] # "ACQUIRED" \/ s \in Mine(t),
           NEW st, state' = [state EXCEPT ![s] = st], state[s] # "NONE" \/ st = "NONE",
           UNCHANGED <<queueSize, reserve, allocating>>, MoveOK(t),
           pc[t] # "alloc", pc'[t] # "alloc"
    PROVE  CapStep(t)
<1>1. QueueTypes
    BY CapParts
<1>2. Cached' \subseteq Cached
    BY <1>1 DEF Cached, QueueTypes
<1>3. Fits'
    BY <1>2, CapParts, FitsStay DEF MoveOK
<1>4. Spares(t)
    BY <1>1, SparesOne
<1> QED BY <1>3, <1>4 DEF CapStep

(* Every step of FlushBuffer.                                               *)
LEMMA FlushFits ==
    ASSUME CapInv, QueueTypes', NEW t \in Thread, FlushStep(t)
    PROVE  CapStep(t)
<1> DEFINE s == arg[t].buf
<1>1. QueueTypes /\ CallTypes
    BY CapParts
<1>2. /\ pc[t] \in {"flushStatusOk", "flushCacheOk", "flushListenerOk", "flushCancel", "flushDelete"}
      /\ UNCHANGED <<queueSize, reserve, allocating, calls>>
      /\ \/ Finish(t)
         \/ \E l \in {"flushCacheOk", "flushListenerOk", "flushCancel", "flushDelete"} :
               Goto(t, l) /\ UNCHANGED arg
    BY DEF FlushStep, FlushChecksCache, FlushChecksListener, DoFlushBuffer, FlushCancels,
           FlushDeletes, sizes, modes
<1>3. MoveOK(t) /\ pc'[t] # "alloc" /\ pc[t] # "alloc"
    <2>1. pc'[t] # "alloc"
        BY <1>1, <1>2 DEF Finish, Goto, CallTypes
    <2> QED BY <1>1, <1>2, <2>1, PlainMove DEF Special
<1>4. s \in Buffers /\ s \in Mine(t)
    BY <1>1, <1>2, InBufferCall, CarriedMine DEF BufferCall, CapInv
<1>5. CASE UNCHANGED elements
    BY <1>2, <1>3, <1>5, QuietFits DEF elements
<1>6. CASE Free(s) /\ state[s] \in Owned
    BY <1>2, <1>3, <1>4, <1>6, OneFits DEF Free, SetState, Owned
<1>7. CASE Enqueue(s) /\ s \in Cached
    BY <1>2, <1>3, <1>4, <1>7, OneFits DEF Enqueue, SetState, Cached
<1>8. CASE DeleteBufferInCache(s)
    <2>1. state' = [state EXCEPT ![s] = "NONE"]
        BY <1>1, <1>8 DEF DeleteBufferInCache, Delete, Erase, QueueTypes
    <2> QED BY <1>2, <1>3, <1>4, <2>1, OneFits
<1> QED BY <1>5, <1>6, <1>7, <1>8
        DEF FlushStep, FlushChecksCache, FlushChecksListener, DoFlushBuffer, FlushCancels,
            FlushDeletes

(* Erasing one buffer, from the cache and the free list.                    *)
LEMMA DeleteOne ==
    ASSUME QueueTypes, NEW s \in Buffers, DeleteBufferInCache(s) \/ Erase({s})
    PROVE  state' = [state EXCEPT ![s] = "NONE"]
BY DEF DeleteBufferInCache, Delete, Erase, QueueTypes

(* Deleting a buffer of one's own makes room.                               *)
LEMMA DeleteFits ==
    ASSUME CapInv, QueueTypes', NEW t \in Thread, NEW s \in Mine(t), s \in Buffers,
           DeleteBufferInCache(s) \/ Erase({s}),
           UNCHANGED <<queueSize, reserve, allocating>>, MoveOK(t),
           pc[t] # "alloc", pc'[t] # "alloc"
    PROVE  CapStep(t)
<1>1. PICK st : st = "NONE"
    OBVIOUS
<1>2. state' = [state EXCEPT ![s] = st]
    BY <1>1, CapParts, DeleteOne
<1> QED BY <1>1, <1>2, OneFits

(* The calls of a producer that hand over or drop a buffer of its own.      *)
LEMMA ProducerFits ==
    ASSUME CapInv, QueueTypes', SingleOwner, NeverCalled(GrowingCalls), NEW t \in Thread,
           ProducerCall(t), ~RequestBuffer(t)
    PROVE  CapStep(t)
<1>1. QueueTypes /\ CallTypes
    BY CapParts
<1>2. \A c \in GrowingCalls : ~Enters(t, c)
    BY CapParts DEF NeverCalled, Enters, SettingTypes
<1>3. \A s, n, c : /\ ~AttachBuffer(t, s) /\ ~AttachAndFlushBuffer(t, s)
                   /\ ~AttachBufferToQueue(t, s, "Producer")
                   /\ ~PreAllocBuffers(t, n, c)
    BY <1>2 DEF AttachBuffer, AttachAndFlushBuffer, AttachBufferToQueue, PreAllocBuffers, GrowingCalls
<1>4. ASSUME UNCHANGED <<threads, calls>>, pc[t] = "idle"
      PROVE  MoveOK(t) /\ pc'[t] # "alloc" /\ pc[t] # "alloc"
    BY <1>1, <1>4, PlainMove DEF threads, Special
<1>5. ASSUME NEW s \in Buffers, CancelBuffer(t, s)
      PROVE  CapStep(t)
    BY <1>4, <1>5, ExclusiveMine, OneFits
       DEF CancelBuffer, Free, SetState, Owned, Enters, Idle, sizes, modes
<1>6. ASSUME NEW s \in Buffers, DetachBuffer(t, s)
      PROVE  CapStep(t)
    BY <1>4, <1>6, ExclusiveMine, DeleteFits DEF DetachBuffer, Enters, Idle, sizes, modes
<1>7. ASSUME NEW s \in Buffers, FlushBuffer(t, s)
      PROVE  CapStep(t)
    <2>1. MoveOK(t) /\ pc'[t] # "alloc" /\ pc[t] # "alloc"
        BY <1>1, <1>7, PlainMove DEF FlushBuffer, Park, CallTypes, Enters, Idle, Special, modes
    <2> QED BY <1>7, <2>1, QuietFits DEF FlushBuffer, elements, sizes
<1> QED BY <1>3, <1>5, <1>6, <1>7 DEF ProducerCall

(* A detached buffer leaves one slot, which may be reserved.                *)
LEMMA DetachFits ==
    ASSUME CapInv, QueueTypes', NEW t \in Thread, NEW s \in Mine(t), s \in Buffers,
           state[s] = "ACQUIRED", DeleteBufferInCache(s), NEW f \in BOOLEAN, ReserveSlot(f),
           UNCHANGED <<queueSize, allocating>>, MoveOK(t), pc[t] # "alloc", pc'[t] # "alloc"
    PROVE  CapStep(t)
<1>1. /\ QueueTypes /\ SettingTypes /\ Fits
      /\ Used \in Nat /\ queueSize \in Nat /\ reserve \in Nat /\ Used' \in Nat
    BY CapParts, UsedShrinks, FiniteBuffers DEF Used, Cached
<1>2. PICK st : st = "NONE" /\ state' = [state EXCEPT ![s] = st]
    BY <1>1, DeleteOne
<1>3. Used' = Used - 1
    BY <1>1, <1>2, UsedAfter
<1>4. InAlloc' = InAlloc /\ AllocOK' /\ Pending' = Pending /\ Pending \in 0..1
    BY <1>1 DEF InAlloc, AllocOK, Fits, MoveOK, OnlyMoves, Pending
<1>5. Used + reserve + Pending <= queueSize
    BY <1>1 DEF Fits
<1>6. reserve + 1 \in Nat /\ reserve + 1 < WordSize
    BY <1>1, <1>3, <1>4, <1>5, SizeAssumption DEF SettingTypes
<1>7. reserve' \in {reserve, reserve + 1}
    BY <1>6, SizeAssumption DEF ReserveSlot
<1>8. Used' + reserve' + Pending' <= queueSize'
    BY <1>1, <1>3, <1>4, <1>5, <1>7
<1>9. Spares(t)
    BY <1>1, <1>2, SparesOne
<1> QED BY <1>4, <1>8, <1>9 DEF CapStep, Fits

(* Handing free buffers over adds none, and takes none from the consumer.   *)
LEMMA LendsFit ==
    ASSUME CapInv, QueueTypes', NEW t \in Thread, NEW R \in SUBSET Buffers, R \subseteq Mine(t),
           NEW D, D \subseteq Mine(t), \A u \in R : state[u] # "NONE",
           NEW G, Lends(R, D, G), UNCHANGED <<queueSize, reserve, allocating>>,
           MoveOK(t), pc[t] # "alloc", pc'[t] # "alloc"
    PROVE  CapStep(t)
<1>1. /\ \A u \in Buffers : state'[u] = IF u \in G THEN "REQUESTED"
                                       ELSE IF u \in D THEN "NONE"
                                       ELSE IF u \in R THEN "RELEASED" ELSE state[u]
      /\ G \subseteq FreeSet \union R
    BY DEF Lends, Lent
<1>2. \A u \in FreeSet : u \in Buffers /\ state[u] = "RELEASED"
    BY CapParts DEF QueueOK, In
<1>3. Cached' \subseteq Cached
    BY <1>1, <1>2 DEF Cached
<1>4. Spares(t)
    BY <1>1, <1>2 DEF Spares
<1>5. Fits'
    BY <1>3, CapParts, FitsStay DEF MoveOK
<1> QED BY <1>4, <1>5 DEF CapStep

(* Every step of the consumer's calls.  A buffer it attaches fills a slot   *)
(* that it reserved.                                                        *)
LEMMA ConsumerFits ==
    ASSUME CapInv, QueueTypes', SingleOwner, NEW t \in Thread,
           PairedConsumerCall(t) \/ ReleaseDeletes(t) \/ ReleaseAsks(t) \/ DetachDeletes(t)
    PROVE  CapStep(t)
<1>1. /\ QueueTypes /\ CallTypes /\ QueueOK /\ Fits
      /\ Used \in Nat /\ queueSize \in Nat /\ reserve \in Nat
    BY CapParts
<1>2. ASSUME UNCHANGED <<threads, calls>>, pc[t] = "idle"
      PROVE  MoveOK(t) /\ pc'[t] # "alloc" /\ pc[t] # "alloc"
    BY <1>1, <1>2, PlainMove DEF threads, Special
<1>3. CASE AcquireBuffer(t)
    <2> DEFINE u == Head(dirtyList)
    <2>1. u \in In("FLUSHED")
        BY <1>1, <1>3, ListsTail DEF AcquireBuffer, QueueOK
    <2>2. u \in Buffers /\ state[u] = "FLUSHED" /\ SetState(u, "ACQUIRED")
        BY <1>3, <2>1 DEF AcquireBuffer, In
    <2> HIDE DEF u
    <2> QED BY <1>2, <1>3, <2>2, OneFits DEF AcquireBuffer, SetState, Enters, Idle, sizes, modes
<1>4. ASSUME NEW s \in Buffers, ReleaseBuffer(t, s)
      PROVE  CapStep(t)
    <2>1. /\ s \in Mine(t) /\ state[s] # "NONE" /\ pc[t] = "idle"
          /\ UNCHANGED <<queueSize, reserve, allocating, calls>>
        BY <1>1, <1>4, ReleaseCases, ExclusiveMine DEF Enters, Idle, sizes, modes
    <2>2. CASE Free(s) /\ UNCHANGED threads
        BY <1>2, <2>1, <2>2, OneFits DEF Free, SetState
    <2>3. CASE DeleteBufferInCache(s) /\ UNCHANGED threads
        BY <1>2, <2>1, <2>3, DeleteFits
    <2>4. ASSUME SetState(s, "RELEASED"), NEW l \in {"releaseDelete", "releaseAsks"}, NEW a,
                 Park(t, l, a)
          PROVE  CapStep(t)
        <3>1. MoveOK(t) /\ pc'[t] # "alloc"
            BY <1>1, <2>1, <2>4, PlainMove DEF Park, CallTypes, Special
        <3> QED BY <2>1, <2>4, <3>1, OneFits DEF SetState
    <2>5. ASSUME NEW R \in {{}, {s}}, NEW D \in {{}, {s}}, \E G : Lends(R, D, G), UNCHANGED threads
          PROVE  CapStep(t)
        BY <1>2, <2>1, <2>5, LendsFit
    <2> QED BY <1>1, <1>4, <2>2, <2>3, <2>4, <2>5, ReleaseCases DEF Free
<1>5. ASSUME NEW s \in Buffers, reserve > 0, AttachBufferToQueue(t, s, "Consumer")
      PROVE  CapStep(t)
    <2>1. MoveOK(t) /\ pc'[t] # "alloc" /\ pc[t] # "alloc" /\ UNCHANGED threads
        BY <1>2, <1>5 DEF AttachBufferToQueue, Enters, Idle, modes
    <2>2. PICK st : st # "NONE" /\ state' = [state EXCEPT ![s] = st]
        BY <1>5 DEF AttachBufferToQueue, Insert
    <2>3. state[s] = "NONE" /\ reserve' = reserve - 1 /\ UNCHANGED <<queueSize, allocating>>
        BY <1>5 DEF AttachBufferToQueue, FillSlot
    <2>4. Used' = Used + 1
        BY <1>1, <2>2, <2>3, UsedAfter
    <2>5. AllocOK' /\ Pending' = Pending /\ Pending \in 0..1
        BY <1>1, <2>1, <2>3 DEF InAlloc, AllocOK, Fits, Pending, threads
    <2>6. Fits'
        BY <1>1, <2>3, <2>4, <2>5 DEF Fits
    <2>7. Spares(t)
        BY <1>1, <2>2, <2>3, SparesOne
    <2> QED BY <2>1, <2>6, <2>7 DEF CapStep
<1>6. ASSUME NEW s \in Buffers, NEW f \in BOOLEAN, ConsumerDetach(t, s, f)
      PROVE  CapStep(t)
    <2>1. /\ s \in Mine(t) /\ state[s] = "ACQUIRED" /\ pc[t] = "idle"
          /\ UNCHANGED <<queueSize, allocating, calls>>
        BY <1>6, ExclusiveMine DEF ConsumerDetach, Enters, Idle, modes
    <2>2. CASE allocating
        <3>1. /\ pc'[t] = "detachDelete" /\ arg'[t].buf = s /\ OnlyMoves(t)
              /\ UNCHANGED <<elements, reserve>>
            BY <1>1, <1>6, <2>2, ParkMoves DEF ConsumerDetach, BufferArg
        <3>2. MoveOK(t)
            BY <1>6, <2>1, <3>1 DEF MoveOK, CallMade, DetachHolds, ConsumerDetach, Enters, elements
        <3> QED BY <2>1, <3>1, <3>2, QuietFits DEF elements
    <2>3. CASE ~allocating
        BY <1>2, <1>6, <2>1, <2>3, DetachFits DEF ConsumerDetach
    <2> QED BY <2>2, <2>3
<1>7. CASE ReleaseDeletes(t)
    <2> DEFINE s == arg[t].buf
    <2>1. /\ s \in Buffers /\ s \in Mine(t) /\ Finish(t)
          /\ UNCHANGED <<queueSize, reserve, allocating, calls>> /\ pc[t] # "alloc"
          /\ DeleteBufferInCache(s) \/ \E G : Lends({}, {s}, G)
        BY <1>1, <1>7, ReleaseDeletesMeans, CarriedMine DEF BufferCall, CapInv, sizes, modes
    <2>2. MoveOK(t) /\ pc'[t] # "alloc"
        BY <1>1, <2>1, PlainMove DEF Finish, CallTypes
    <2>3. ASSUME NEW R \in {{}}, \E G : Lends(R, {s}, G)
          PROVE  CapStep(t)
        BY <2>1, <2>2, <2>3, LendsFit
    <2> QED BY <2>1, <2>2, <2>3, DeleteFits
<1>8. CASE ReleaseAsks(t)
    <2>1. Finish(t) /\ pc[t] # "alloc" /\ UNCHANGED <<queueSize, reserve, allocating, calls>>
        BY <1>8, ReleaseAsksMeans DEF CapInv, sizes, modes
    <2>2. MoveOK(t) /\ pc'[t] # "alloc"
        BY <1>1, <2>1, PlainMove DEF Finish, CallTypes
    <2>3. ASSUME NEW R \in {{}}, NEW D \in {{}}, \E G : Lends(R, D, G)
          PROVE  CapStep(t)
        BY <2>1, <2>2, <2>3, LendsFit
    <2> QED BY <1>8, <2>3, ReleaseAsksMeans DEF CapInv
<1>9. CASE DetachDeletes(t)
    <2> DEFINE s == arg[t].buf
    <2>1. /\ s \in Buffers /\ s \in Mine(t) /\ Finish(t) /\ DeleteBufferInCache(s)
          /\ UNCHANGED <<queueSize, allocating, calls>> /\ pc[t] # "alloc"
        BY <1>1, <1>9, InBufferCall, CarriedMine DEF DetachDeletes, BufferCall, CapInv, modes
    <2>2. MoveOK(t) /\ pc'[t] # "alloc"
        BY <1>1, <2>1, PlainMove DEF Finish, CallTypes
    <2>3. state[s] = "ACQUIRED" /\ arg[t].flag \in BOOLEAN
        BY <1>1, <1>9 DEF CapInv, DetachHolds, DetachDeletes, CallTypes, ArgType
    <2> QED BY <1>9, <2>1, <2>2, <2>3, DetachFits DEF DetachDeletes
<1> QED BY <1>3, <1>4, <1>5, <1>6, <1>7, <1>8, <1>9 DEF PairedConsumerCall

(* Every step that cleans the queue.                                        *)
LEMMA CleanFits ==
    ASSUME CapInv, QueueTypes', NoCleaningWhileDetaching, NEW t \in Thread,
           \/ CleanCache(t) \/ ClearAfterAlloc(t)
           \/ CleanReleasedBuffers(t) \/ CleanReleasedAfterAlloc(t)
           \/ \E S \in SUBSET Buffers : CleanProducerBySeqNum(t, S)
    PROVE  CapStep(t)
<1>1. /\ QueueTypes /\ CallTypes /\ SettingTypes /\ QueueOK /\ Fits
      /\ UNCHANGED <<queueSize, reserve, allocating, calls>>
      /\ pc[t] \in {"idle", "clearWait", "cleanWait"}
    BY CapParts DEF CleanCache, ClearAfterAlloc, CleanReleasedBuffers, CleanReleasedAfterAlloc,
                    CleanProducerBySeqNum, sizes, modes, Enters, Idle
<1>2. CASE CleanCache(t) \/ ClearAfterAlloc(t) \/ \E S \in SUBSET Buffers : CleanProducerBySeqNum(t, S)
    <2>1. "CleanCache" \in calls[t] \/ "CleanProducerBySeqNum" \in calls[t]
        BY <1>2 DEF CapInv, CallMade, CleanCache, ClearAfterAlloc, CleanProducerBySeqNum, Enters
    <2>2. ~NeverCalled(CleaningCalls)
        BY <1>1, <2>1 DEF NeverCalled, CleaningCalls, SettingTypes
    <2>3. NeverCalled(ReservingCalls)
        BY <2>2 DEF NoCleaningWhileDetaching
    <2>4. Cached' \subseteq Cached
        BY <1>2 DEF CleanCache, ClearAfterAlloc, CleanProducerBySeqNum, Clear, Erase, Cached, elements
    <2>5. MoveOK(t) /\ pc[t] # "alloc" /\ pc'[t] # "alloc"
        <3>1. CASE CleanCache(t) /\ allocating
            <4>1. pc'[t] = "clearWait" /\ OnlyMoves(t)
                BY <1>1, <3>1, ParkMoves DEF CleanCache
            <4> QED BY <1>1, <3>1, <4>1 DEF MoveOK, CallMade, DetachHolds, CleanCache, Enters
        <3>2. CASE UNCHANGED threads /\ pc[t] = "idle"
            BY <1>1, <3>2, PlainMove DEF threads, Special
        <3>3. CASE Finish(t)
            BY <1>1, <3>3, PlainMove DEF Finish, CallTypes
        <3> QED BY <1>2, <3>1, <3>2, <3>3
                DEF CleanCache, ClearAfterAlloc, CleanProducerBySeqNum, Enters, Idle
    <2> QED BY <1>1, <2>3, <2>4, <2>5, FitsStay DEF CapStep, MoveOK
<1>3. CASE CleanReleasedBuffers(t) \/ CleanReleasedAfterAlloc(t)
    <2>1. MoveOK(t) /\ pc[t] # "alloc" /\ pc'[t] # "alloc"
        <3>1. CASE Park(t, "cleanWait", NoArg)
            BY <1>1, <3>1, PlainMove DEF Park, CallTypes, Special
        <3>2. CASE UNCHANGED threads /\ pc[t] = "idle"
            BY <1>1, <3>2, PlainMove DEF threads, Special
        <3>3. CASE Finish(t)
            BY <1>1, <3>3, PlainMove DEF Finish, CallTypes
        <3> QED BY <1>3, <3>1, <3>2, <3>3
                DEF CleanReleasedBuffers, CleanReleasedAfterAlloc, Enters, Idle
    <2>2. CASE UNCHANGED elements
        BY <1>1, <2>1, <2>2, QuietFits DEF elements
    <2>3. CASE CleanReleased
        <3>1. Cached' \subseteq Cached
            BY <2>3 DEF CleanReleased, Erase, Cached
        <3>2. Spares(t)
            BY <1>1, <2>3 DEF CleanReleased, Erase, Spares, QueueOK, In, FreeSet
        <3> QED BY <1>1, <2>1, <3>1, <3>2, FitsStay DEF CapStep, MoveOK
    <2> QED BY <1>3, <2>2, <2>3 DEF CleanReleasedBuffers, CleanReleasedAfterAlloc
<1> QED BY <1>2, <1>3

(* Every call that steers the queue.                                        *)
LEMMA ControlFits ==
    ASSUME CapInv, QueueTypes', NeverCalled(GrowingCalls), NoCleaningWhileDetaching,
           NEW t \in Thread, ControlCall(t)
    PROVE  CapStep(t)
<1>1. CallTypes
    BY CapParts
<1>2. \A c \in GrowingCalls : ~Enters(t, c)
    BY CapParts DEF NeverCalled, Enters, SettingTypes
<1>3. \A n : ~SetQueueSize(t, n) /\ ~SetMaxQueueSize(t, n)
    BY <1>2 DEF SetQueueSize, SetMaxQueueSize, GrowingCalls
<1>4. CASE \/ AcquireLastFlushedBuffer(t) \/ ReleaseLastFlushedBuffer(t)
           \/ SetStatus(t) \/ SetConsumerListener(t)
           \/ SetRequestBufferNoblockMode(t) \/ SetIsPriorityAlloc(t)
    <2>1. /\ UNCHANGED <<state, queueSize, reserve, allocating, calls, threads>>
          /\ pc[t] = "idle"
        BY <1>4 DEF AcquireLastFlushedBuffer, ReleaseLastFlushedBuffer, SetStatus,
                    SetConsumerListener, SetRequestBufferNoblockMode, SetIsPriorityAlloc,
                    elements, sizes, modes, Enters, Idle
    <2>2. MoveOK(t) /\ pc[t] # "alloc" /\ pc'[t] # "alloc"
        BY <1>1, <2>1, PlainMove DEF threads, Special
    <2> QED BY <2>1, <2>2, QuietFits
<1> QED BY <1>3, <1>4, CleanFits DEF ControlCall

(* A step that fits keeps the whole invariant.                              *)
LEMMA CapStepKeeps ==
    ASSUME CapInv, IInv', NEW t \in Thread, CapStep(t)
    PROVE  CapInv'
<1> SUFFICES ASSUME NEW u \in Thread PROVE CallMade(u)' /\ DetachHolds(u)'
    BY DEF CapInv, CapStep
<1>1. CASE u = t
    BY <1>1 DEF CapStep, MoveOK
<1>2. CASE u # t
    <2>1. pc'[u] = pc[u] /\ arg'[u] = arg[u] /\ calls' = calls
        BY <1>2 DEF CapStep, MoveOK, OnlyMoves
    <2>2. CallMade(u)'
        BY <2>1 DEF CapInv, CallMade
    <2>3. CASE pc[u] = "detachDelete"
        <3>1. arg[u].buf \in Buffers /\ arg[u].buf \notin Mine(t)
            BY <1>2, <2>3, CapParts, InBufferCall DEF BufferCall, Mine
        <3>2. ~NeverCalled(ReservingCalls)
            BY <2>3, CapParts DEF CapInv, CallMade, NeverCalled, ReservingCalls, SettingTypes
        <3>3. state[arg[u].buf] = "ACQUIRED"
            BY <2>3 DEF CapInv, DetachHolds
        <3>4. state'[arg[u].buf] = "ACQUIRED"
            BY <3>1, <3>2, <3>3 DEF CapStep, Spares
        <3> QED BY <2>1, <2>2, <3>4 DEF DetachHolds
    <2> QED BY <2>1, <2>2, <2>3 DEF DetachHolds
<1> QED BY <1>1, <1>2

(* The new queue is empty.                                                  *)
LEMMA CapInvInit == Init => CapInv
<1> SUFFICES ASSUME Init PROVE CapInv
    OBVIOUS
<1>1. IInv
    BY IInvInit
<1>2. Cached = {} /\ Used = 0
    BY FS_EmptySet DEF Init, Cached, Used
<1>3. Fits
    BY <1>2, SizeAssumption DEF Init, Fits, AllocOK, InAlloc, Pending
<1> QED BY <1>1, <1>3 DEF CapInv, Init, CallMade, DetachHolds

(* No step of a queue used by the protocol overfills it.                    *)
LEMMA CapInvStep ==
    ASSUME SingleOwner, NeverCalled(GrowingCalls), NoCleaningWhileDetaching
    PROVE  CapInv /\ [PairedNext]_vars => CapInv'
<1> SUFFICES ASSUME CapInv, [PairedNext]_vars PROVE CapInv'
    OBVIOUS
<1>1. CASE UNCHANGED vars
    BY <1>1, IInvStep
       DEF CapInv, Fits, AllocOK, InAlloc, Pending, Used, Cached, CallMade, DetachHolds,
           vars, elements, sizes, modes, threads
<1>2. CASE PairedNext
    <2>1. PICK t \in Thread : \/ ProducerCall(t) \/ PairedConsumerCall(t)
                              \/ ControlCall(t) \/ Step(t)
        BY <1>2 DEF PairedNext
    <2>2. PairedConsumerCall(t) => ConsumerCall(t)
        BY DEF PairedConsumerCall, ConsumerCall
    <2>3. IInv' /\ QueueTypes'
        BY <2>1, <2>2, IInvStep DEF CapInv, Next, IInv, TypeOK
    <2>4. ~AttachStep(t) /\ ~ShrinkAfterAlloc(t) /\ ~PreAllocated(t)
        <3>1. \A c \in GrowingCalls : c \notin calls[t]
            BY CapParts DEF NeverCalled, SettingTypes
        <3> QED BY <3>1 DEF CapInv, CallMade, GrowingCalls, AttachStep, AttachLooksUp, AttachWakes,
                            AttachSleepsAgain, AttachDeletes, ShrinkAfterAlloc, PreAllocated
    <2>5. CapStep(t)
        BY <2>1, <2>3, <2>4, RequestFits, ProducerFits, FlushFits, ConsumerFits, ControlFits,
           CleanFits DEF Step, WaiterStep
    <2> QED BY <2>3, <2>5, CapStepKeeps
<1> QED BY <1>1, <1>2

-----------------------------------------------------------------------------
(* The queue never holds more buffers than it has slots, the one under      *)
(* allocation included (RequestBufferLocked, AllocBuffer).                  *)
THEOREM CapacityKept ==
    SingleOwner /\ NeverCalled(GrowingCalls) /\ NoCleaningWhileDetaching
        => (PairedSpec => []Capacity)
<1> SUFFICES ASSUME SingleOwner, NeverCalled(GrowingCalls), NoCleaningWhileDetaching
             PROVE  PairedSpec => []Capacity
    OBVIOUS
<1>1. CapInv => Capacity
    <2> SUFFICES ASSUME CapInv PROVE Capacity
        OBVIOUS
    <2>1. Cardinality(InAlloc) = Pending
        BY CapParts, FS_EmptySet, FS_Singleton DEF Fits, AllocOK, Pending
    <2> QED BY <2>1, CapParts DEF Capacity, Fits, Pending
<1> QED BY <1>1, CapInvInit, CapInvStep, PTL DEF PairedSpec

(* isAllocatingBufferCon_ prevents concurrent allocation, though a          *)
(* RequestBuffer that wakes does not look at it.                            *)
THEOREM AllocationsApart ==
    SingleOwner /\ NeverCalled(GrowingCalls) /\ NoCleaningWhileDetaching
        => (PairedSpec => []OneAllocation)
<1> SUFFICES ASSUME SingleOwner, NeverCalled(GrowingCalls), NoCleaningWhileDetaching
             PROVE  PairedSpec => []OneAllocation
    OBVIOUS
<1>1. CapInv => OneAllocation
    <2> SUFFICES ASSUME CapInv PROVE OneAllocation
        OBVIOUS
    <2>1. Cardinality(InAlloc) \in {0, 1}
        BY CapParts, FS_EmptySet, FS_Singleton DEF Fits, AllocOK
    <2> QED BY <2>1 DEF OneAllocation
<1> QED BY <1>1, CapInvInit, CapInvStep, PTL DEF PairedSpec

(* A slot reserved by DetachBufferFromQueue stays empty until               *)
(* AttachBufferToQueue fills it.                                            *)
THEOREM ReservationKept ==
    SingleOwner /\ NeverCalled(GrowingCalls) /\ NoCleaningWhileDetaching
        => (PairedSpec => []ReservedSlotsEmpty)
<1> SUFFICES ASSUME SingleOwner, NeverCalled(GrowingCalls), NoCleaningWhileDetaching
             PROVE  PairedSpec => []ReservedSlotsEmpty
    OBVIOUS
<1>1. CapInv => ReservedSlotsEmpty
    BY CapParts DEF Fits, Pending, ReservedSlotsEmpty
<1> QED BY <1>1, CapInvInit, CapInvStep, PTL DEF PairedSpec

-----------------------------------------------------------------------------
(***************************************************************************)
(* No RequestBuffer that could go on sleeps until its timeout.             *)
(*                                                                         *)
(* A thread parks only when there is neither room nor a buffer to take nor *)
(* a status to report, and goes back to sleep only then.  So it is enough  *)
(* that a step which makes one of the three true notifies, or finds that   *)
(* everybody has been notified: a request that takes a free buffer away,   *)
(* and so makes room, finds that.                                          *)
(***************************************************************************)
Poppable == freeList # <<>> /\ freeList # <<locked>>

(* Where nobody makes a silent call, requests block, no slot is reserved,   *)
(* and no buffer is marked for deletion.                                    *)
Plain == ~noBlock /\ reserve = 0 /\ isDeleting = {} /\ \A t \in Thread : pc[t] # "flushDelete"

WakeInv ==
    /\ IInv
    /\ BlockedAreNotified
    /\ NoneCalls(SilentCalls) => Plain
    /\ \A t \in Thread : CallMade(t)

(* What a step of thread t must do for that.                                *)
Signals ==
    \/ AllNotified'
    \/ (valid /\ ~Poppable /\ ~Room)'
    \/ /\ AllNotified => AllNotified'
       /\ valid => valid'
       /\ Poppable' /\ NoneCalls({"PreAllocBuffers"}) => Poppable
       /\ Room' /\ NoneCalls(SilentCalls) => Room \/ Poppable

MovesOn(t) == OnlyMoves(t) /\ UNCHANGED calls /\ CallMade(t)'

WakeStep(t) == MovesOn(t) /\ Signals /\ (NoneCalls(SilentCalls) => Plain')

(* PreAllocBuffers is one of the silent calls.                              *)
LEMMA NoneCallsMore == NoneCalls(SilentCalls) => NoneCalls({"PreAllocBuffers"})
BY DEF NoneCalls, SilentCalls

(* A step of that kind keeps the invariant.                                 *)
LEMMA WakeStepKeeps ==
    ASSUME WakeInv, IInv', NEW t \in Thread, WakeStep(t)
    PROVE  WakeInv'
<1>1. calls' = calls
    BY DEF WakeStep, MovesOn
<1>2. \A u \in Thread : CallMade(u)'
    <2> SUFFICES ASSUME NEW u \in Thread PROVE CallMade(u)'
        OBVIOUS
    <2>1. CASE u = t
        BY <2>1 DEF WakeStep, MovesOn
    <2>2. CASE u # t
        BY <1>1, <2>2 DEF WakeStep, MovesOn, OnlyMoves, WakeInv, CallMade
    <2> QED BY <2>1, <2>2
<1>3. \A S : NoneCalls(S)' <=> NoneCalls(S)
    BY <1>1 DEF NoneCalls
<1>4. BlockedAreNotified'
    <2>1. CASE AllNotified'
        BY <2>1 DEF BlockedAreNotified
    <2>2. CASE (valid /\ ~Poppable /\ ~Room)'
        BY <2>2 DEF BlockedAreNotified, Poppable
    <2>3. CASE /\ AllNotified => AllNotified'
               /\ valid => valid'
               /\ Poppable' /\ NoneCalls({"PreAllocBuffers"}) => Poppable
               /\ Room' /\ NoneCalls(SilentCalls) => Room \/ Poppable
        <3>1. /\ ~valid => AllNotified
              /\ Poppable /\ NoneCalls({"PreAllocBuffers"}) => AllNotified
              /\ Room /\ NoneCalls(SilentCalls) => AllNotified
            BY DEF WakeInv, BlockedAreNotified, Poppable
        <3>2. /\ ~valid' => AllNotified'
              /\ Poppable' /\ NoneCalls({"PreAllocBuffers"}) => AllNotified'
              /\ Room' /\ NoneCalls(SilentCalls) => AllNotified'
            BY <2>3, <3>1, NoneCallsMore
        <3>3. /\ NoneCalls({"PreAllocBuffers"})' <=> NoneCalls({"PreAllocBuffers"})
              /\ NoneCalls(SilentCalls)' <=> NoneCalls(SilentCalls)
            BY <1>1 DEF NoneCalls, SilentCalls
        <3> QED BY <3>2, <3>3 DEF BlockedAreNotified, Poppable
    <2> QED BY <2>1, <2>2, <2>3 DEF WakeStep, Signals
<1>5. NoneCalls(SilentCalls)' => Plain'
    <2>1. NoneCalls(SilentCalls)' <=> NoneCalls(SilentCalls)
        BY <1>1 DEF NoneCalls, SilentCalls
    <2> QED BY <2>1 DEF WakeStep
<1> QED BY <1>2, <1>4, <1>5 DEF WakeInv

-----------------------------------------------------------------------------
(* What there is to take, and who is told. *)

(* A list has an element other than k.                                      *)
LEMMA HasOther ==
    ASSUME NEW X, NEW l, Lists(l, X), NEW k
    PROVE  l # <<>> /\ l # <<k>> <=> \E s \in X : s # k
<1>1. /\ l \in Seq(X) /\ DOMAIN l = 1..Len(l) /\ Len(l) \in Nat
      /\ \A i \in 1..Len(l) : l[i] \in X
      /\ \A s \in X : \E i \in 1..Len(l) : l[i] = s
      /\ \A i, j \in 1..Len(l) : l[i] = l[j] => i = j
    BY LenProperties, ElementOfSeq, ListsMeans
<1>2. CASE l = <<>>
    <2>1. Len(l) = 0
        BY <1>2
    <2> QED BY <1>1, <1>2, <2>1
<1>3. CASE l = <<k>>
    <2>1. Len(l) = 1 /\ l[1] = k
        BY <1>3
    <2> QED BY <1>1, <1>3, <2>1
<1>4. CASE l # <<>> /\ l # <<k>>
    <2>1. Len(l) # 0
        BY <1>1, <1>4, EmptySeq
    <2>2. CASE l[1] # k
        BY <1>1, <1>4, <2>1, <2>2
    <2>3. CASE l[1] = k
        <3>1. Len(l) # 1
            BY <1>1, <1>4, <2>3, SeqEqual
        <3>2. 1 \in 1..Len(l) /\ 2 \in 1..Len(l)
            BY <1>1, <2>1, <3>1
        <3>3. l[2] # l[1]
            BY <1>1, <3>2
        <3> QED BY <1>1, <1>4, <2>3, <3>2, <3>3
    <2> QED BY <2>2, <2>3
<1> QED BY <1>2, <1>3, <1>4

(* The queue has a buffer to take as long as it has one that is not locked. *)
LEMMA StillPoppable ==
    ASSUME QueueOK, QueueOK', FreeSet' \subseteq FreeSet, locked' = locked, Poppable'
    PROVE  Poppable
<1>1. Poppable' <=> \E s \in FreeSet' : s # locked'
    BY HasOther DEF QueueOK, Poppable
<1>2. Poppable <=> \E s \in FreeSet : s # locked
    BY HasOther DEF QueueOK, Poppable
<1> QED BY <1>1, <1>2

(* What PopFromFreeListLocked takes is there to take.                       *)
LEMMA CanPopMeans ==
    ASSUME QueueTypes, NEW c, CanPop(c)
    PROVE  Poppable
<1>1. CASE Matching(c) # {}
    <2>1. PICK i \in DOMAIN freeList : freeList[i] # locked
        BY <1>1 DEF Matching
    <2>2. DOMAIN <<>> = {} /\ DOMAIN <<locked>> = {1} /\ <<locked>>[1] = locked
        OBVIOUS
    <2> QED BY <2>1, <2>2 DEF Poppable
<1> QED BY <1>1 DEF CanPop, Poppable

(* Who does not block keeps everybody notified.                             *)
LEMMA GoesOn ==
    ASSUME CallTypes, NEW t \in Thread,
           \/ UNCHANGED pc /\ notified \subseteq notified'
           \/ /\ \E l : l # "requestBlocked" /\ pc' = [pc EXCEPT ![t] = l]
              /\ notified \ {t} \subseteq notified'
    PROVE  AllNotified => AllNotified'
BY DEF CallTypes, AllNotified

(* notify_all on waitReqCon_.                                               *)
LEMMA NotifiesAll ==
    ASSUME CallTypes, NEW t \in Thread,
           UNCHANGED pc \/ \E l : l # "requestBlocked" /\ pc' = [pc EXCEPT ![t] = l],
           notified' \in {NotifyRequest, NotifyBoth}
    PROVE  AllNotified'
BY DEF CallTypes, AllNotified, NotifyRequest, NotifyBoth

-----------------------------------------------------------------------------
(* Three kinds of step. *)

(* The parts of the invariant the proofs use.                               *)
LEMMA WakeParts ==
    ASSUME WakeInv
    PROVE  /\ QueueTypes /\ SettingTypes /\ CallTypes /\ QueueOK
           /\ NoneCalls(SilentCalls) => Plain
BY IInvParts DEF WakeInv, IInv, TypeOK

(* What holds without silent calls goes on to hold when a step touches none *)
(* of it.                                                                   *)
LEMMA PlainStays ==
    ASSUME Plain, UNCHANGED <<noBlock, reserve>>, isDeleting' \subseteq isDeleting,
           NEW t \in Thread, OnlyMoves(t), pc'[t] # "flushDelete"
    PROVE  Plain'
BY DEF Plain, OnlyMoves

(* It notifies everybody.                                                   *)
LEMMA LoudStep ==
    ASSUME WakeInv, NEW t \in Thread, MovesOn(t), AllNotified',
           NoneCalls(SilentCalls) => /\ UNCHANGED <<noBlock, reserve>>
                                     /\ isDeleting' \subseteq isDeleting
                                     /\ pc'[t] # "flushDelete"
    PROVE  WakeStep(t)
BY WakeParts, PlainStays DEF WakeStep, Signals, MovesOn

(* It makes nothing true that a blocked thread waits for.                   *)
LEMMA CalmStep ==
    ASSUME WakeInv, IInv', NEW t \in Thread, MovesOn(t), AllNotified => AllNotified',
           UNCHANGED <<valid, locked>>,
           NoneCalls({"PreAllocBuffers"}) => FreeSet' \subseteq FreeSet,
           NoneCalls(SilentCalls) => /\ Cached \subseteq Cached'
                                     /\ UNCHANGED <<queueSize, noBlock, reserve>>
                                     /\ isDeleting' \subseteq isDeleting
                                     /\ pc'[t] # "flushDelete"
    PROVE  WakeStep(t)
<1>1. QueueTypes /\ SettingTypes /\ QueueOK /\ (NoneCalls(SilentCalls) => Plain)
    BY WakeParts
<1>2. QueueOK' /\ QueueTypes' /\ SettingTypes'
    <2>1. TypeOK' /\ ListsMatchStates'
        BY DEF IInv
    <2>2. QueueTypes' /\ SettingTypes'
        BY <2>1 DEF TypeOK
    <2>3. /\ freeList' \in Seq(Buffers) /\ dirtyList' \in Seq(Buffers)
          /\ ToSet(freeList') \subseteq Buffers /\ ToSet(dirtyList') \subseteq Buffers
          /\ IsInjective(freeList') <=> Lists(freeList', ToSet(freeList'))
          /\ IsInjective(dirtyList') <=> Lists(dirtyList', ToSet(dirtyList'))
        BY <2>2, InSeqToSet DEF QueueTypes
    <2>4. ToSet(dirtyList') = In("FLUSHED")'
        BY <2>1, <2>3 DEF ListsMatchStates, In
    <2> QED BY <2>1, <2>2, <2>3, <2>4 DEF ListsMatchStates, QueueOK, In, FreeSet
<1>3. Poppable' /\ NoneCalls({"PreAllocBuffers"}) => Poppable
    BY <1>1, <1>2, StillPoppable
<1>4. Room' /\ NoneCalls(SilentCalls) => Room
    <2> SUFFICES ASSUME NoneCalls(SilentCalls), Room' PROVE Room
        OBVIOUS
    <2>1. IsFiniteSet(Cached') /\ Used' \in Nat /\ Used \in Nat
        BY FiniteBuffers DEF Cached, Used
    <2>2. Used <= Used'
        BY <2>1, FS_Subset DEF Used
    <2>3. Slots' = Slots /\ Slots \in Int
        BY <1>1, SizeAssumption DEF Slots, SettingTypes
    <2> QED BY <2>1, <2>2, <2>3 DEF Room
<1>5. Signals
    BY <1>3, <1>4 DEF Signals
<1>6. NoneCalls(SilentCalls) => Plain'
    BY <1>1, PlainStays DEF MovesOn
<1> QED BY <1>5, <1>6 DEF WakeStep

(* It changes no buffer.                                                    *)
LEMMA QuietStep ==
    ASSUME WakeInv, IInv', NEW t \in Thread, MovesOn(t), AllNotified => AllNotified',
           UNCHANGED <<valid, locked, elements, lists>>,
           NoneCalls(SilentCalls) => /\ UNCHANGED <<queueSize, noBlock, reserve>>
                                     /\ pc'[t] # "flushDelete"
    PROVE  WakeStep(t)
<1>1. FreeSet' = FreeSet /\ Cached' = Cached /\ isDeleting' = isDeleting
    BY DEF FreeSet, Cached, elements, lists
<1> QED BY <1>1, CalmStep

(* It takes a free buffer, after which nothing is left or nobody sleeps.    *)
LEMMA TakingStep ==
    ASSUME WakeInv, NEW t \in Thread, MovesOn(t), AllNotified => AllNotified', Poppable,
           UNCHANGED <<valid, noBlock, reserve>>, isDeleting' \subseteq isDeleting,
           pc'[t] # "flushDelete"
    PROVE  WakeStep(t)
BY WakeParts, PlainStays DEF WakeStep, Signals, MovesOn

-----------------------------------------------------------------------------
(* RequestBuffer. *)

(* It gives away what it has taken, or starts an allocation in its place.   *)
LEMMA ReuseMoves ==
    ASSUME WakeInv, NEW t \in Thread, NEW s, NEW a, ReuseBuffer(t, s, a),
           UNCHANGED calls, notified \ {t} \subseteq notified'
    PROVE  /\ MovesOn(t) /\ (AllNotified => AllNotified')
           /\ isDeleting' \subseteq isDeleting /\ pc'[t] # "flushDelete"
<1>1. CallTypes
    BY WakeParts
<1>2. isDeleting' \subseteq isDeleting
    BY DEF ReuseBuffer, Delete, Erase
<1>3. PICK l \in {"idle", "alloc"} : pc' = [pc EXCEPT ![t] = l] /\ (Finish(t) \/ Park(t, l, a))
    BY DEF ReuseBuffer, StartAlloc, Park, Finish
<1>4. pc'[t] = l /\ (AllNotified => AllNotified')
    BY <1>1, <1>3, GoesOn DEF CallTypes
<1>5. MovesOn(t)
    BY <1>1, <1>3, PlainMove DEF MoveOK, MovesOn, Special
<1> QED BY <1>2, <1>3, <1>4, <1>5

(* RequestBufferLocked takes from the free list and fills the room it       *)
(* finds: it makes nobody's condition true.                                 *)
LEMMA SelectWakes ==
    ASSUME WakeInv, IInv', NEW t \in Thread, NEW a,
           SelectBuffer(t, a) \/ (AfterWait(t) /\ a = arg[t]),
           notified' \in {notified, notified \ {t}},
           UNCHANGED <<sizes, modes, last>>
    PROVE  WakeStep(t)
<1>1. /\ QueueTypes /\ SettingTypes /\ CallTypes /\ QueueOK
      /\ (NoneCalls(SilentCalls) => Plain)
      /\ UNCHANGED <<queueSize, reserve, valid, noBlock, calls, locked>>
      /\ notified \ {t} \subseteq notified'
    BY WakeParts DEF sizes, modes, last
<1>2. CASE PopFromFreeList(t, a)
    <2>1. Poppable
        BY <1>1, <1>2, CanPopMeans DEF PopFromFreeList
    <2> DEFINE s == freeList[PoppedAt(a.cfg)]
    <2>2. ReuseBuffer(t, s, a)
        BY <1>2 DEF PopFromFreeList
    <2> HIDE DEF s
    <2> QED BY <1>1, <2>1, <2>2, ReuseMoves, TakingStep
<1>3. CASE noBlock /\ PopFromDirtyList(t, a)
    <2> DEFINE s == Head(dirtyList)
    <2>1. ReuseBuffer(t, s, a) /\ freeList' = freeList
        BY <1>3 DEF PopFromDirtyList
    <2>2. ~NoneCalls(SilentCalls)
        BY <1>1, <1>3 DEF Plain
    <2>3. FreeSet' = FreeSet
        BY <2>1 DEF FreeSet
    <2> HIDE DEF s
    <2> QED BY <1>1, <2>1, <2>2, <2>3, ReuseMoves, CalmStep
<1>4. CASE /\ UNCHANGED <<elements, lists>>
           /\ \E l : l \notin Special \union {"requestBlocked", "flushDelete"} /\ (Finish(t) \/ Park(t, l, a))
    <2>1. PICK l : l \notin Special \union {"requestBlocked", "flushDelete"} /\ (Finish(t) \/ Park(t, l, a))
        BY <1>4
    <2>2. MovesOn(t)
        BY <1>1, <2>1, PlainMove DEF MoveOK, MovesOn
    <2>3. pc' = [pc EXCEPT ![t] = l] \/ pc' = [pc EXCEPT ![t] = "idle"]
        BY <2>1 DEF Finish, Park
    <2>4. (AllNotified => AllNotified') /\ pc'[t] # "flushDelete"
        BY <1>1, <2>1, <2>3, GoesOn DEF CallTypes
    <2> QED BY <1>1, <1>4, <2>2, <2>4, QuietStep
<1>5. CASE /\ ~Room /\ ~CanPop(a.cfg) /\ ~noBlock /\ valid
           /\ Park(t, "requestBlocked", a)
           /\ UNCHANGED <<elements, lists>>
    <2>1. MovesOn(t) /\ pc'[t] # "flushDelete"
        BY <1>1, <1>5, PlainMove DEF MoveOK, MovesOn, Special, Park, CallTypes
    <2>2. ~Poppable
        BY <1>5 DEF CanPop, Poppable
    <2>3. ~Poppable' /\ ~Room' /\ valid'
        BY <1>1, <1>5, <2>2 DEF Poppable, Room, Used, Cached, Slots, elements, lists
    <2>4. NoneCalls(SilentCalls) => Plain'
        BY <1>1, <1>5, <2>1, PlainStays DEF MovesOn, elements
    <2> QED BY <2>1, <2>3, <2>4 DEF WakeStep, Signals
<1>6. StartAlloc(t, a) => Park(t, "alloc", a)
    BY DEF StartAlloc
<1>7. "alloc" \notin Special \union {"requestBlocked", "flushDelete"}
    BY DEF Special
<1> QED BY <1>2, <1>3, <1>4, <1>5, <1>6, <1>7 DEF SelectBuffer, AfterWait, NoBuffer

(* So do all the steps of RequestBuffer; the one that wakes leaves the      *)
(* waiters.                                                                 *)
LEMMA RequestStepWakes ==
    ASSUME WakeInv, IInv', NEW t \in Thread, RequestBuffer(t) \/ RequestStep(t)
    PROVE  WakeStep(t)
<1>1. /\ QueueTypes /\ SettingTypes /\ CallTypes /\ QueueOK
      /\ (NoneCalls(SilentCalls) => Plain)
    BY WakeParts
<1>2. ASSUME NEW a, SelectBuffer(t, a), UNCHANGED <<sizes, modes, last, notified>>
      PROVE  WakeStep(t)
    BY <1>2, SelectWakes
<1>3. ASSUME NEW a, Park(t, "requestWaitAlloc", a),
             UNCHANGED <<elements, lists, sizes, modes, last, notified>>
      PROVE  WakeStep(t)
    <2>1. MovesOn(t) /\ pc'[t] # "flushDelete"
        BY <1>1, <1>3, PlainMove DEF MoveOK, MovesOn, Special, Park, CallTypes, modes
    <2>2. AllNotified => AllNotified'
        BY <1>1, <1>3, GoesOn DEF Park
    <2> QED BY <1>3, <2>1, <2>2, QuietStep DEF sizes, modes, last
<1>4. CASE RequestWakes(t) \/ RequestTimesOut(t)
    BY <1>4, SelectWakes DEF RequestWakes, RequestTimesOut
<1>5. CASE RequestSleepsAgain(t)
    <2>1. MovesOn(t)
        BY <1>1, <1>5, PlainMove DEF MoveOK, MovesOn, Special, RequestSleepsAgain, modes
    <2>2. valid' /\ ~Poppable' /\ ~Room'
        BY <1>5 DEF RequestSleepsAgain, WaitForCondition, Poppable, Room, Used, Cached, Slots,
                    elements, lists, sizes, modes, last
    <2>3. NoneCalls(SilentCalls) => Plain'
        BY <1>1, <1>5 DEF RequestSleepsAgain, Plain, elements, sizes, modes, threads
    <2> QED BY <2>1, <2>2, <2>3 DEF WakeStep, Signals
<1>6. CASE AllocSucceeds(t) \/ AllocFails(t)
    <2>1. MovesOn(t) /\ pc'[t] # "flushDelete" /\ (AllNotified => AllNotified')
        BY <1>1, <1>6, PlainMove, GoesOn
           DEF MoveOK, MovesOn, Finish, CallTypes, AllocSucceeds, AllocFails, modes
    <2>2. UNCHANGED <<lists, valid, locked, queueSize, noBlock, reserve>>
        BY <1>6 DEF AllocSucceeds, AllocFails, sizes, modes, last
    <2>3. Cached \subseteq Cached' /\ isDeleting' \subseteq isDeleting
        BY <1>1, <1>6 DEF AllocSucceeds, AllocFails, Insert, elements, Cached, QueueTypes
    <2>4. FreeSet' = FreeSet
        BY <2>2 DEF FreeSet, lists
    <2> QED BY <2>1, <2>2, <2>3, <2>4, CalmStep
<1> QED BY <1>2, <1>3, <1>4, <1>5, <1>6 DEF RequestBuffer, RequestStep, RequestAfterAlloc

-----------------------------------------------------------------------------
(* What the helpers leave in the free list. *)

(* Deleting or attaching a buffer adds none to the free list.               *)
LEMMA DeleteFrees ==
    ASSUME QueueOK, NEW s, DeleteBufferInCache(s) \/ AttachReleased(s) \/ UNCHANGED lists
    PROVE  FreeSet' \subseteq FreeSet
<1>1. freeList' = RemoveFirst(freeList, s) \/ freeList' = freeList
    BY DEF DeleteBufferInCache, AttachReleased, lists
<1>2. CASE freeList' = RemoveFirst(freeList, s)
    <2>1. Lists(freeList', FreeSet \ {s})
        BY <1>2, ListsRemoveFirst DEF QueueOK
    <2> QED BY <2>1, ListOf DEF FreeSet
<1> QED BY <1>1, <1>2 DEF FreeSet

(* Nor does DeleteBuffersLocked.                                            *)
LEMMA CutFrees ==
    ASSUME QueueTypes, QueueOK, NEW n \in Nat, CutLists(n)
    PROVE  FreeSet' \subseteq FreeSet
<1>1. FreeCut(n) \in 0..Len(freeList)
    BY CutTypes
<1>2. Lists(freeList', FreeSet \ ToSet(SubSeq(freeList, 1, FreeCut(n))))
    BY <1>1, ListsCut DEF CutLists, QueueOK
<1> QED BY <1>2, ListOf DEF FreeSet

(* Nor does cleaning.                                                       *)
LEMMA PickFrees ==
    ASSUME QueueOK, NEW K, \E f \in Picks(freeList, K) : freeList' = Pick(freeList, f)
    PROVE  FreeSet' \subseteq FreeSet
<1>1. Lists(freeList', FreeSet \intersect K)
    BY PickLists DEF QueueOK
<1> QED BY <1>1, ListOf DEF FreeSet

-----------------------------------------------------------------------------
(* The other calls. *)

(* A call that does not block moves only its own thread.                    *)
LEMMA PlainGoes ==
    ASSUME WakeInv, UNCHANGED calls, NEW t \in Thread,
           NEW l, l \notin Special \union {"requestBlocked"},
           \/ UNCHANGED threads /\ pc[t] \notin Special
           \/ Finish(t)
           \/ \E a : Park(t, l, a)
           \/ Goto(t, l) /\ UNCHANGED arg
    PROVE  /\ MovesOn(t)
           /\ UNCHANGED pc \/ \E m : m # "requestBlocked" /\ pc' = [pc EXCEPT ![t] = m]
           /\ pc'[t] \in {pc[t], "idle", l}
           /\ notified \subseteq notified' => (AllNotified => AllNotified')
           /\ notified' \in {NotifyRequest, NotifyBoth} => AllNotified'
<1>1. CallTypes
    BY WakeParts
<1>2. MovesOn(t)
    BY <1>1, PlainMove DEF MoveOK, MovesOn
<1>3. UNCHANGED pc \/ \E m : m # "requestBlocked" /\ pc' = [pc EXCEPT ![t] = m]
    BY DEF Finish, Park, Goto, threads
<1>4. pc'[t] \in {pc[t], "idle", l}
    BY <1>1 DEF Finish, Park, Goto, threads, CallTypes
<1>5. notified \subseteq notified' => (AllNotified => AllNotified')
    BY <1>1, <1>3, GoesOn
<1>6. notified' \in {NotifyRequest, NotifyBoth} => AllNotified'
    BY <1>1, <1>3, NotifiesAll
<1> QED BY <1>2, <1>3, <1>4, <1>5, <1>6

(* The steps of FlushBuffer free a buffer only by way of CancelBuffer,      *)
(* which notifies.                                                          *)
LEMMA FlushWakes ==
    ASSUME WakeInv, IInv', NEW t \in Thread, FlushStep(t)
    PROVE  WakeStep(t)
<1> DEFINE s == arg[t].buf
<1>1. QueueTypes /\ CallTypes /\ QueueOK /\ (NoneCalls(SilentCalls) => Plain)
    BY WakeParts
<1>2. /\ pc[t] \in {"flushStatusOk", "flushCacheOk", "flushListenerOk", "flushCancel", "flushDelete"}
      /\ UNCHANGED <<queueSize, reserve, valid, noBlock, calls>>
      /\ Finish(t) \/ \E l \in {"flushCacheOk", "flushListenerOk", "flushCancel", "flushDelete"} :
                          Goto(t, l) /\ UNCHANGED arg
    BY DEF FlushStep, FlushChecksCache, FlushChecksListener, DoFlushBuffer, FlushCancels,
           FlushDeletes, sizes, modes
<1>3. PICK l \in {"flushCacheOk", "flushListenerOk", "flushCancel", "flushDelete"} :
          Finish(t) \/ (Goto(t, l) /\ UNCHANGED arg)
    BY <1>2
<1>4. /\ MovesOn(t)
      /\ notified \subseteq notified' => (AllNotified => AllNotified')
      /\ notified' \in {NotifyRequest, NotifyBoth} => AllNotified'
    <2>1. l \notin Special \union {"requestBlocked"}
        BY <1>3 DEF Special
    <2> QED BY <1>2, <1>3, <2>1, PlainGoes
<1>5. s \in Buffers
    BY <1>1, <1>2, InBufferCall DEF BufferCall
<1>6. CASE Free(s)
    <2>1. Finish(t) /\ isDeleting' = isDeleting /\ AllNotified'
        BY <1>1, <1>2, <1>4, <1>6 DEF Free, SetState, FlushStep, FlushChecksCache,
             FlushChecksListener, DoFlushBuffer, FlushCancels, FlushDeletes, Goto, CallTypes,
             DeleteBufferInCache, Enqueue, lists, elements
    <2>2. pc'[t] # "flushDelete"
        BY <1>1, <2>1 DEF Finish, CallTypes
    <2> QED BY <1>2, <1>4, <2>1, <2>2, LoudStep
<1>7. CASE Enqueue(s) /\ s \in Cached /\ Finish(t) /\ notified' = notified
    <2>1. Cached \subseteq Cached' /\ isDeleting' = isDeleting /\ locked' = locked /\ FreeSet' = FreeSet
        BY <1>1, <1>7 DEF Enqueue, SetState, Cached, QueueTypes, FreeSet
    <2>2. pc'[t] # "flushDelete"
        BY <1>1, <1>7 DEF Finish, CallTypes
    <2> QED BY <1>2, <1>4, <1>7, <2>1, <2>2, CalmStep
<1>8. CASE /\ DeleteBufferInCache(s) /\ UNCHANGED <<last, notified>>
           /\ pc[t] = "flushDelete" \/ s \in isDeleting
    <2>1. ~NoneCalls(SilentCalls)
        BY <1>1, <1>8 DEF Plain
    <2>2. FreeSet' \subseteq FreeSet
        BY <1>1, <1>8, DeleteFrees
    <2> QED BY <1>2, <1>4, <1>8, <2>1, <2>2, CalmStep DEF last
<1>9. CASE /\ UNCHANGED <<elements, lists, last, notified>>
           /\ pc'[t] = "flushDelete" => isDeleting # {}
    BY <1>1, <1>2, <1>4, <1>9, QuietStep DEF Plain, last
<1> QED BY <1>1, <1>6, <1>7, <1>8, <1>9
        DEF FlushStep, FlushChecksCache, FlushChecksListener, DoFlushBuffer, FlushCancels,
            FlushDeletes, Finish, Goto, CallTypes

(* The producer's calls that free a buffer notify; the others free none.    *)
LEMMA ProducerWakes ==
    ASSUME WakeInv, IInv', NEW t \in Thread, ProducerCall(t), ~RequestBuffer(t)
    PROVE  WakeStep(t)
<1>1. QueueTypes /\ CallTypes /\ QueueOK /\ (NoneCalls(SilentCalls) => Plain)
    BY WakeParts
<1>2. ASSUME UNCHANGED <<threads, calls, notified>>, pc[t] = "idle"
      PROVE  MovesOn(t) /\ (AllNotified => AllNotified') /\ pc'[t] # "flushDelete"
    <2>1. pc[t] \notin Special /\ "idle" \notin Special \union {"requestBlocked"}
        BY <1>2 DEF Special
    <2> QED BY <1>2, <2>1, PlainGoes DEF threads
<1>3. ASSUME NEW s \in Buffers, CancelBuffer(t, s)
      PROVE  WakeStep(t)
    <2>1. pc[t] = "idle" /\ pc[t] \notin Special /\ "idle" \notin Special \union {"requestBlocked"}
        BY <1>3 DEF CancelBuffer, Enters, Idle, Special
    <2>2. MovesOn(t) /\ AllNotified' /\ pc'[t] # "flushDelete"
        BY <1>3, <2>1, PlainGoes DEF CancelBuffer, Free, modes, threads
    <2> QED BY <1>3, <2>2, LoudStep DEF CancelBuffer, Free, SetState, sizes, modes
<1>4. ASSUME NEW s \in Buffers, AttachAndFlushBuffer(t, s) \/ AttachBufferToQueue(t, s, "Producer")
      PROVE  WakeStep(t)
    <2>1. /\ pc[t] = "idle" /\ UNCHANGED <<threads, calls, notified, valid, locked, noBlock, queueSize>>
          /\ reserve' = reserve /\ freeList' = freeList
          /\ isDeleting' \subseteq isDeleting /\ Cached \subseteq Cached'
        BY <1>1, <1>4 DEF AttachAndFlushBuffer, AttachBufferToQueue, FillSlot, Insert, Enters, Idle,
                          sizes, modes, last, lists, Cached, QueueTypes
    <2> QED BY <1>2, <2>1, CalmStep DEF FreeSet
<1>5. ASSUME NEW s \in Buffers, DetachBuffer(t, s)
      PROVE  WakeStep(t)
    <2>1. pc[t] = "idle" /\ UNCHANGED <<threads, calls, notified, valid, locked, freeList>>
        BY <1>5 DEF DetachBuffer, Enters, Idle, modes, last, lists
    <2>2. ~NoneCalls(SilentCalls)
        BY <1>5 DEF DetachBuffer, Enters, NoneCalls, SilentCalls
    <2> QED BY <1>2, <2>1, <2>2, CalmStep DEF FreeSet
<1>6. ASSUME NEW s \in Buffers, FlushBuffer(t, s)
      PROVE  WakeStep(t)
    <2>1. PICK l : l = "flushStatusOk"
        OBVIOUS
    <2>2. l \notin Special \union {"requestBlocked"} /\ l # "flushDelete"
        BY <2>1 DEF Special
    <2>3. Park(t, l, BufferArg(s, FALSE)) /\ UNCHANGED <<calls, notified>> /\ pc[t] = "idle"
        BY <1>6, <2>1 DEF FlushBuffer, modes, Enters, Idle
    <2>4. MovesOn(t) /\ (AllNotified => AllNotified') /\ pc'[t] # "flushDelete"
        BY <2>2, <2>3, PlainGoes
    <2> QED BY <1>6, <2>4, QuietStep DEF FlushBuffer, sizes, modes, last
<1>7. CASE (\E n, c : PreAllocBuffers(t, n, c)) \/ (\E s : AttachBuffer(t, s))
    <2>0. \E a : Park(t, "preAlloc", a) \/ Park(t, "attachChecked", a)
        <3>1. ASSUME NEW n, NEW c, PreAllocBuffers(t, n, c)
              PROVE  \E a : Park(t, "preAlloc", a)
            BY <3>1 DEF PreAllocBuffers
        <3>2. ASSUME NEW s, AttachBuffer(t, s)
              PROVE  \E a : Park(t, "attachChecked", a)
            BY <3>2 DEF AttachBuffer
        <3> QED BY <1>7, <3>1, <3>2
    <2>1. PICK l, a : l \in {"preAlloc", "attachChecked"} /\ Park(t, l, a)
        BY <2>0
    <2>2. OnlyMoves(t) /\ pc'[t] = l /\ pc' = [pc EXCEPT ![t] = l] /\ l # "requestBlocked"
        BY <1>1, <2>1, ParkMoves DEF Park
    <2>3. /\ l = "preAlloc" => "PreAllocBuffers" \in calls[t]
          /\ l = "attachChecked" => "AttachBuffer" \in calls[t]
        <3>1. CASE \E n, c : PreAllocBuffers(t, n, c)
            BY <1>1, <2>2, <3>1 DEF PreAllocBuffers, Park, CallTypes, Enters
        <3>2. CASE \E s : AttachBuffer(t, s)
            BY <1>1, <2>2, <3>2 DEF AttachBuffer, Park, CallTypes, Enters
        <3> QED BY <1>7, <3>1, <3>2
    <2>4. UNCHANGED <<calls, notified, valid, locked, queueSize, noBlock, reserve, elements, lists>>
        BY <1>7 DEF PreAllocBuffers, AttachBuffer, sizes, modes, last
    <2>5. MovesOn(t)
        BY <2>1, <2>2, <2>3, <2>4 DEF MovesOn, CallMade
    <2>6. AllNotified => AllNotified'
        BY <1>1, <2>2, <2>4, GoesOn
    <2> QED BY <2>1, <2>2, <2>4, <2>5, <2>6, QuietStep
<1> QED BY <1>3, <1>4, <1>5, <1>6, <1>7 DEF ProducerCall

(* A call that completes at once.                                           *)
LEMMA AtOnceGoes ==
    ASSUME WakeInv, UNCHANGED <<threads, calls>>, NEW t \in Thread, pc[t] = "idle"
    PROVE  /\ MovesOn(t) /\ pc'[t] # "flushDelete"
           /\ notified \subseteq notified' => (AllNotified => AllNotified')
           /\ notified' \in {NotifyRequest, NotifyBoth} => AllNotified'
<1>1. PICK l : l = "idle"
    OBVIOUS
<1>2. l \notin Special \union {"requestBlocked"} /\ pc[t] \notin Special
    BY <1>1 DEF Special
<1> QED BY <1>2, PlainGoes DEF threads

(* A call, or the wait inside a call, that ends.                            *)
LEMMA FinishGoes ==
    ASSUME WakeInv, UNCHANGED calls, NEW t \in Thread, Finish(t)
    PROVE  /\ MovesOn(t) /\ pc'[t] # "flushDelete"
           /\ notified \ {t} \subseteq notified' => (AllNotified => AllNotified')
           /\ notified' \in {NotifyRequest, NotifyBoth} => AllNotified'
<1>1. CallTypes
    BY WakeParts
<1>2. PICK l : l = "idle"
    OBVIOUS
<1>3. l \notin Special \union {"requestBlocked"} /\ pc' = [pc EXCEPT ![t] = l]
    BY <1>2 DEF Special, Finish
<1>4. pc'[t] = "idle"
    BY <1>1 DEF Finish, CallTypes
<1> QED BY <1>1, <1>3, <1>4, PlainGoes, GoesOn

(* A call that waits, somewhere else than for a buffer to take.             *)
LEMMA ParkGoes ==
    ASSUME WakeInv, UNCHANGED <<calls, notified>>, NEW t \in Thread, NEW l, NEW a, Park(t, l, a),
           l \notin {"requestBlocked", "flushDelete"},
           /\ l \in {"attachChecked", "attachWait", "attachDelete"} => "AttachBuffer" \in calls[t]
           /\ l = "shrinkWait" => "SetQueueSize" \in calls[t] \/ "SetMaxQueueSize" \in calls[t]
           /\ l = "preAlloc" => "PreAllocBuffers" \in calls[t]
           /\ l = "clearWait" => "CleanCache" \in calls[t]
           /\ l = "detachDelete" => "ConsumerDetachBufferFromQueue" \in calls[t]
    PROVE  MovesOn(t) /\ pc'[t] # "flushDelete" /\ (AllNotified => AllNotified')
<1>1. CallTypes
    BY WakeParts
<1>2. OnlyMoves(t) /\ pc'[t] = l /\ pc' = [pc EXCEPT ![t] = l]
    BY <1>1, ParkMoves DEF Park
<1>3. MovesOn(t)
    BY <1>2 DEF MovesOn, CallMade
<1> QED BY <1>1, <1>2, <1>3, GoesOn

(* A step of a call that some thread makes and that may wake nobody.        *)
LEMMA SilentStep ==
    ASSUME WakeInv, IInv', NEW t \in Thread, MovesOn(t), AllNotified => AllNotified',
           UNCHANGED <<valid, locked>>, FreeSet' \subseteq FreeSet,
           NEW c \in SilentCalls, c \in calls[t]
    PROVE  WakeStep(t)
<1>1. ~NoneCalls(SilentCalls)
    BY DEF NoneCalls
<1> QED BY <1>1, CalmStep

(* ReleaseBuffer notifies; the other calls of the consumer free no buffer,  *)
(* and those that make room are silent calls.                               *)
LEMMA ConsumerWakes ==
    ASSUME WakeInv, IInv', NEW t \in Thread,
           ConsumerCall(t) \/ ReleaseDeletes(t) \/ ReleaseAsks(t) \/ DetachDeletes(t)
    PROVE  WakeStep(t)
<1>1. QueueTypes /\ CallTypes /\ QueueOK /\ (NoneCalls(SilentCalls) => Plain)
    BY WakeParts
<1>2. CASE AcquireBuffer(t)
    <2>1. /\ pc[t] = "idle" /\ freeList' = freeList /\ isDeleting' = isDeleting
          /\ UNCHANGED <<threads, calls, notified, valid, locked, noBlock, queueSize, reserve>>
        BY <1>2 DEF AcquireBuffer, SetState, Enters, Idle, sizes, modes, last
    <2>2. Cached \subseteq Cached'
        BY <1>1, <1>2 DEF AcquireBuffer, SetState, Cached, QueueTypes
    <2> QED BY <2>1, <2>2, AtOnceGoes, CalmStep DEF FreeSet
<1>3. ASSUME NEW s \in Buffers, ReleaseBuffer(t, s)
      PROVE  WakeStep(t)
    <2>1. pc[t] = "idle" /\ UNCHANGED <<calls, valid, locked, noBlock, queueSize, reserve>>
        BY <1>1, <1>3, ReleaseCases DEF Enters, Idle, sizes, modes, last
    <2>2. isDeleting' \subseteq isDeleting
        BY <1>1, <1>3, ReleaseCases
           DEF Free, SetState, DeleteBufferInCache, Delete, Erase, Lends, Lent
    <2>3. CASE UNCHANGED threads /\ notified' = NotifyBoth
        BY <2>1, <2>2, <2>3, AtOnceGoes, LoudStep
    <2>4. CASE /\ SetState(s, "RELEASED") /\ state[s] # "NONE"
               /\ Park(t, "releaseDelete", BufferArg(s, FALSE))
               /\ UNCHANGED <<lists, notified>>
        <3>1. PICK l : l = "releaseDelete"
            OBVIOUS
        <3>2. Park(t, l, BufferArg(s, FALSE)) /\ l \notin Special \union {"requestBlocked", "flushDelete"}
            BY <2>4, <3>1 DEF Special
        <3>3. MovesOn(t) /\ pc'[t] # "flushDelete" /\ (AllNotified => AllNotified')
            BY <2>1, <2>4, <3>2, ParkGoes DEF Special
        <3>4. Cached \subseteq Cached' /\ FreeSet' = FreeSet
            BY <1>1, <2>4 DEF SetState, Cached, QueueTypes, FreeSet, lists
        <3> QED BY <2>1, <2>2, <3>3, <3>4, CalmStep
    <2>5. CASE Park(t, "releaseAsks", NoArg) /\ notified' = NotifyBoth
        <3>1. PICK l : l = "releaseAsks"
            OBVIOUS
        <3>2. Park(t, l, NoArg) /\ l \notin Special \union {"requestBlocked", "flushDelete"}
            BY <2>5, <3>1 DEF Special
        <3>3. MovesOn(t) /\ AllNotified' /\ pc'[t] # "flushDelete"
            BY <2>1, <2>5, <3>2, PlainGoes DEF Special
        <3> QED BY <2>1, <2>2, <3>3, LoudStep
    <2> QED BY <1>1, <1>3, <2>3, <2>4, <2>5, ReleaseCases DEF Free
<1>4. ASSUME NEW s \in Buffers, AttachBufferToQueue(t, s, "Consumer")
      PROVE  WakeStep(t)
    <2>1. /\ pc[t] = "idle" /\ UNCHANGED <<threads, calls, notified, valid, locked, noBlock, queueSize>>
          /\ reserve = 0 => reserve' = reserve
          /\ freeList' = freeList /\ isDeleting' \subseteq isDeleting /\ Cached \subseteq Cached'
        BY <1>1, <1>4 DEF AttachBufferToQueue, FillSlot, Insert, Enters, Idle,
                          sizes, modes, last, lists, Cached, QueueTypes
    <2> QED BY <1>1, <2>1, AtOnceGoes, CalmStep DEF FreeSet, Plain
<1>5. ASSUME NEW s \in Buffers, NEW f, ConsumerDetach(t, s, f)
      PROVE  WakeStep(t)
    <2> DEFINE c == "ConsumerDetachBufferFromQueue"
    <2>1. /\ pc[t] = "idle" /\ UNCHANGED <<calls, notified, valid, locked>>
          /\ c \in calls[t] /\ c \in SilentCalls
          /\ FreeSet' \subseteq FreeSet
        BY <1>1, <1>5, DeleteFrees DEF ConsumerDetach, Enters, Idle, modes, last, SilentCalls, FreeSet, lists
    <2>2. CASE Park(t, "detachDelete", BufferArg(s, f))
        <3>1. PICK l : l = "detachDelete"
            OBVIOUS
        <3>2. MovesOn(t) /\ (AllNotified => AllNotified')
            BY <2>1, <2>2, <3>1, ParkGoes
        <3> HIDE DEF c
        <3> QED BY <2>1, <3>2, SilentStep
    <2>3. CASE UNCHANGED threads
        <3>1. MovesOn(t) /\ (AllNotified => AllNotified')
            BY <2>1, <2>3, AtOnceGoes
        <3> HIDE DEF c
        <3> QED BY <2>1, <3>1, SilentStep
    <2> QED BY <1>5, <2>2, <2>3 DEF ConsumerDetach
<1>6. CASE ReleaseDeletes(t)
    <2>1. /\ Finish(t) /\ notified' = NotifyBoth /\ isDeleting' \subseteq isDeleting
          /\ UNCHANGED <<calls, noBlock, reserve>>
        BY <1>6, ReleaseDeletesMeans
           DEF WakeInv, DeleteBufferInCache, Delete, Erase, Lends, Lent, sizes, modes
    <2> QED BY <2>1, FinishGoes, LoudStep
<1>7. CASE ReleaseAsks(t)
    <2>1. Finish(t) /\ UNCHANGED <<calls, notified, valid, locked, queueSize, noBlock, reserve>>
        BY <1>7, ReleaseAsksMeans DEF WakeInv, sizes, modes, last
    <2>2. PICK R, D, G : R = {} /\ D = {} /\ Lends(R, D, G)
        BY <1>7, ReleaseAsksMeans DEF WakeInv
    <2>3. /\ \A u \in Buffers : state'[u] = IF u \in G THEN "REQUESTED" ELSE state[u]
          /\ isDeleting' = isDeleting
        BY <2>2 DEF Lends, Lent
    <2>4. Cached \subseteq Cached'
        BY <2>3 DEF Cached
    <2>5. FreeSet' \subseteq FreeSet
        BY <2>2, ListOf DEF Lends, FreeSet
    <2> QED BY <2>1, <2>3, <2>4, <2>5, FinishGoes, CalmStep
<1>8. CASE DetachDeletes(t)
    <2> DEFINE c == "ConsumerDetachBufferFromQueue"
    <2>1. /\ Finish(t) /\ UNCHANGED <<calls, notified, valid, locked>>
          /\ c \in calls[t] /\ c \in SilentCalls
          /\ FreeSet' \subseteq FreeSet
        BY <1>1, <1>8, DeleteFrees DEF DetachDeletes, WakeInv, CallMade, SilentCalls, modes, last
    <2>2. MovesOn(t) /\ (AllNotified => AllNotified')
        BY <2>1, FinishGoes
    <2> HIDE DEF c
    <2> QED BY <2>1, <2>2, SilentStep
<1> QED BY <1>2, <1>3, <1>4, <1>5, <1>6, <1>7, <1>8 DEF ConsumerCall

(* AttachBuffer only ever takes from the free list.                         *)
LEMMA AttachWakesNobody ==
    ASSUME WakeInv, IInv', NEW t \in Thread, AttachStep(t)
    PROVE  WakeStep(t)
<1> DEFINE s == arg[t].buf
           c == "AttachBuffer"
<1>1. QueueTypes /\ SettingTypes /\ CallTypes /\ QueueOK
    BY WakeParts
<1>2. /\ pc[t] \in {"attachChecked", "attachWait", "attachDelete"}
      /\ UNCHANGED <<calls, valid, locked>>
    BY DEF AttachStep, AttachLooksUp, AttachWakes, AttachSleepsAgain, AttachDeletes, modes, last
<1>3. c \in calls[t] /\ c \in SilentCalls
    BY <1>2 DEF WakeInv, CallMade, SilentCalls
<1>4. FreeSet' \subseteq FreeSet
    <2>1. ASSUME NEW n \in Nat, NEW k, AttachReplacing(n, s, k)
          PROVE  FreeSet' \subseteq FreeSet
        BY <1>1, <2>1, CutFrees DEF AttachReplacing
    <2>2. CASE UNCHANGED lists \/ AttachReleased(s)
        BY <1>1, <2>2, DeleteFrees
    <2>3. CASE Used >= queueSize /\ \E k \in Configs : AttachReplacing(Excess, s, k)
        <3> DEFINE n == Excess
        <3>1. n \in Nat
            BY <1>1, <2>3, UsedIsNat, SizeAssumption DEF Excess, SettingTypes
        <3>2. PICK k \in Configs : AttachReplacing(n, s, k)
            BY <2>3
        <3> HIDE DEF n, s
        <3> QED BY <2>1, <3>1, <3>2
    <2>4. CASE AttachDeletes(t)
        <3>1. arg[t].count \in Nat
            BY <1>1 DEF CallTypes, ArgType
        <3> QED BY <2>1, <2>4, <3>1 DEF AttachDeletes
    <2> QED BY <2>2, <2>3, <2>4
            DEF AttachStep, AttachLooksUp, AttachWakes, AttachSleepsAgain, lists
<1>5. MovesOn(t) /\ (AllNotified => AllNotified')
    <2>1. CASE Finish(t) /\ notified' \in {notified, notified \ {t}}
        BY <1>2, <2>1, FinishGoes
    <2>2. CASE notified' = notified /\ \E l \in {"attachWait", "attachDelete"} : \E a : Park(t, l, a)
        BY <1>2, <1>3, <2>2, ParkGoes
    <2>3. CASE Goto(t, "attachWait") /\ UNCHANGED <<arg, notified>>
        <3>1. OnlyMoves(t) /\ pc'[t] = "attachWait"
            BY <1>1, <2>3, GotoMoves
        <3>2. AllNotified => AllNotified'
            BY <1>1, <2>3, GoesOn DEF Goto
        <3> QED BY <1>2, <1>3, <3>1, <3>2 DEF MovesOn, CallMade
    <2>4. CASE UNCHANGED threads /\ notified' = notified \ {t} /\ pc[t] = "attachWait"
        <3>1. OnlyMoves(t) /\ CallMade(t)'
            BY <1>2, <2>4 DEF OnlyMoves, CallMade, WakeInv, threads
        <3> QED BY <1>2, <2>4, <3>1 DEF MovesOn, AllNotified, threads
    <2> QED BY <2>1, <2>2, <2>3, <2>4
            DEF AttachStep, AttachLooksUp, AttachWakes, AttachSleepsAgain, AttachDeletes
<1> HIDE DEF c
<1> QED BY <1>2, <1>3, <1>4, <1>5, SilentStep

(* Resizing: what is deleted is nothing that a blocked request could take.  *)
LEMMA ResizeWakes ==
    ASSUME WakeInv, IInv', NEW t \in Thread,
           \/ \E n \in 1..MaxSize : SetQueueSize(t, n) \/ SetMaxQueueSize(t, n)
           \/ ShrinkAfterAlloc(t)
    PROVE  WakeStep(t)
<1>1. QueueTypes /\ SettingTypes /\ CallTypes /\ QueueOK
    BY WakeParts
<1>2. PICK c \in {"SetQueueSize", "SetMaxQueueSize"} :
          c \in calls[t] /\ (ShrinkAfterAlloc(t) \/ Enters(t, c))
    BY DEF SetQueueSize, SetMaxQueueSize, ShrinkAfterAlloc, WakeInv, CallMade, Enters
<1>3. c \in SilentCalls
    BY <1>2 DEF SilentCalls
<1>4. UNCHANGED <<valid, locked, calls>>
    BY DEF SetQueueSize, SetMaxQueueSize, ShrinkAfterAlloc, modes, last
<1>5. ASSUME NEW n \in Nat, DeleteBuffers(n)
      PROVE  FreeSet' \subseteq FreeSet
    BY <1>1, <1>5, CutFrees DEF DeleteBuffers
<1>6. CASE ShrinkAfterAlloc(t)
    <2>1. arg[t].count \in Nat
        BY <1>1 DEF CallTypes, ArgType
    <2>2. FreeSet' \subseteq FreeSet
        BY <1>5, <1>6, <2>1 DEF ShrinkAfterAlloc
    <2>3. Finish(t) /\ notified \ {t} \subseteq notified'
        BY <1>6 DEF ShrinkAfterAlloc, NotifyRequest
    <2>4. MovesOn(t) /\ (AllNotified => AllNotified')
        BY <1>4, <2>3, FinishGoes
    <2> QED BY <1>2, <1>3, <1>4, <2>2, <2>4, SilentStep
<1>7. ASSUME NEW n \in Nat, SetQueueSizeTo(t, n), pc[t] = "idle"
      PROVE  WakeStep(t)
    <2>1. FreeSet' \subseteq FreeSet
        <3>1. CASE n < queueSize /\ DeleteBuffers(queueSize - n)
            <4>1. queueSize - n \in Nat
                BY <1>1, <3>1, SizeAssumption DEF SettingTypes
            <4> QED BY <1>5, <3>1, <4>1
        <3>2. CASE UNCHANGED lists
            BY <3>2 DEF FreeSet, lists
        <3> QED BY <1>7, <3>1, <3>2 DEF SetQueueSizeTo
    <2>2. CASE UNCHANGED threads /\ notified \subseteq notified'
        <3>1. MovesOn(t) /\ (AllNotified => AllNotified')
            BY <1>4, <1>7, <2>2, AtOnceGoes
        <3> QED BY <1>2, <1>3, <1>4, <2>1, <3>1, SilentStep
    <2>3. CASE Park(t, "shrinkWait", SizeArg(queueSize - n, n)) /\ notified' = notified
        <3>1. PICK l : l = "shrinkWait"
            OBVIOUS
        <3>2. Park(t, l, SizeArg(queueSize - n, n)) /\ UNCHANGED <<calls, notified>>
            BY <1>4, <2>3, <3>1
        <3>3. /\ l \notin {"requestBlocked", "flushDelete", "preAlloc", "clearWait", "detachDelete"}
              /\ l \notin {"attachChecked", "attachWait", "attachDelete"}
              /\ "SetQueueSize" \in calls[t] \/ "SetMaxQueueSize" \in calls[t]
            BY <1>2, <3>1
        <3>4. MovesOn(t) /\ (AllNotified => AllNotified')
            BY <3>2, <3>3, ParkGoes
        <3> QED BY <1>2, <1>3, <1>4, <2>1, <3>4, SilentStep
    <2>4. n > queueSize => notified \subseteq NotifyRequest
        BY DEF NotifyRequest
    <2> QED BY <1>7, <2>2, <2>3, <2>4 DEF SetQueueSizeTo
<1>8. ASSUME NEW n \in 1..MaxSize, SetQueueSize(t, n) \/ SetMaxQueueSize(t, n)
      PROVE  WakeStep(t)
    <2>1. pc[t] = "idle"
        BY <1>8 DEF SetQueueSize, SetMaxQueueSize, Enters, Idle
    <2>2. n \in Nat /\ maxQueueSize \in Nat
        BY <1>1, SizeAssumption DEF SettingTypes
    <2>3. CASE SetQueueSizeTo(t, n) \/ SetQueueSizeTo(t, maxQueueSize)
        BY <1>7, <2>1, <2>2, <2>3
    <2>4. CASE UNCHANGED <<lists, threads, notified>>
        <3>1. MovesOn(t) /\ (AllNotified => AllNotified')
            BY <1>4, <2>1, <2>4, AtOnceGoes
        <3>2. FreeSet' \subseteq FreeSet
            BY <2>4 DEF FreeSet, lists
        <3> QED BY <1>2, <1>3, <1>4, <3>1, <3>2, SilentStep
    <2> QED BY <1>8, <2>3, <2>4 DEF SetQueueSize, SetMaxQueueSize
<1> QED BY <1>6, <1>8

(* Cleaning notifies, but by sequence number.                               *)
LEMMA CleaningWakes ==
    ASSUME WakeInv, IInv', NEW t \in Thread,
           \/ CleanCache(t) \/ ClearAfterAlloc(t)
           \/ CleanReleasedBuffers(t) \/ CleanReleasedAfterAlloc(t)
           \/ \E S \in SUBSET Buffers : CleanProducerBySeqNum(t, S)
    PROVE  WakeStep(t)
<1>1. QueueTypes /\ CallTypes /\ QueueOK
    BY WakeParts
<1>2. /\ UNCHANGED <<valid, locked, calls, noBlock, reserve, queueSize>>
      /\ pc[t] \in {"idle", "clearWait", "cleanWait"}
    BY DEF CleanCache, ClearAfterAlloc, CleanReleasedBuffers, CleanReleasedAfterAlloc,
           CleanProducerBySeqNum, sizes, modes, last, Enters, Idle
<1>3. CASE /\ Clear \/ CleanReleased
           /\ (UNCHANGED threads /\ pc[t] = "idle") \/ Finish(t)
    <2>1. notified' = NotifyRequest /\ isDeleting' \subseteq isDeleting
        BY <1>3 DEF Clear, CleanReleased, Erase
    <2>2. MovesOn(t) /\ pc'[t] # "flushDelete" /\ AllNotified'
        BY <1>2, <1>3, <2>1, AtOnceGoes, FinishGoes
    <2> QED BY <1>2, <2>1, <2>2, LoudStep
<1>4. ASSUME NEW l \in {"clearWait", "cleanWait"}, Park(t, l, NoArg),
             l = "clearWait" => "CleanCache" \in calls[t],
             UNCHANGED <<elements, lists, notified>>
      PROVE  WakeStep(t)
    <2>1. /\ l \notin {"requestBlocked", "flushDelete", "preAlloc", "shrinkWait", "detachDelete"}
          /\ l \notin {"attachChecked", "attachWait", "attachDelete"}
        OBVIOUS
    <2>2. MovesOn(t) /\ pc'[t] # "flushDelete" /\ (AllNotified => AllNotified')
        BY <1>2, <1>4, <2>1, ParkGoes
    <2> QED BY <1>2, <1>4, <2>2, QuietStep
<1>5. ASSUME NEW S \in SUBSET Buffers, CleanProducerBySeqNum(t, S)
      PROVE  WakeStep(t)
    <2> DEFINE c == "CleanProducerBySeqNum"
    <2>1. /\ pc[t] = "idle" /\ UNCHANGED <<threads, notified>>
          /\ c \in calls[t] /\ c \in SilentCalls
        BY <1>5 DEF CleanProducerBySeqNum, Enters, Idle, SilentCalls
    <2>2. FreeSet' \subseteq FreeSet
        BY <1>1, <1>5, PickFrees DEF CleanProducerBySeqNum
    <2>3. MovesOn(t) /\ (AllNotified => AllNotified')
        BY <1>2, <2>1, AtOnceGoes
    <2> HIDE DEF c
    <2> QED BY <1>2, <2>1, <2>2, <2>3, SilentStep
<1>6. CleanCache(t) => (Clear /\ UNCHANGED threads /\ pc[t] = "idle")
                       \/ ("CleanCache" \in calls[t] /\ Park(t, "clearWait", NoArg)
                           /\ UNCHANGED <<elements, lists, notified>>)
    BY DEF CleanCache, Enters, Idle
<1>7. CleanReleasedBuffers(t) => (CleanReleased /\ UNCHANGED threads /\ pc[t] = "idle")
                       \/ (Park(t, "cleanWait", NoArg) /\ UNCHANGED <<elements, lists, notified>>)
    BY DEF CleanReleasedBuffers, Enters, Idle
<1>8. ClearAfterAlloc(t) => Clear /\ Finish(t)
    BY DEF ClearAfterAlloc
<1>9. CleanReleasedAfterAlloc(t) => CleanReleased /\ Finish(t)
    BY DEF CleanReleasedAfterAlloc
<1> QED BY <1>3, <1>4, <1>5, <1>6, <1>7, <1>8, <1>9

(* The rest: a client that locks the last flushed buffer takes it from      *)
(* those who wait, and notifies when it gives it back.                      *)
LEMMA SettingWakes ==
    ASSUME WakeInv, IInv', NEW t \in Thread,
           \/ AcquireLastFlushedBuffer(t) \/ ReleaseLastFlushedBuffer(t)
           \/ SetStatus(t) \/ SetConsumerListener(t)
           \/ SetRequestBufferNoblockMode(t) \/ SetIsPriorityAlloc(t)
    PROVE  WakeStep(t)
<1>1. QueueTypes /\ SettingTypes /\ QueueOK /\ (NoneCalls(SilentCalls) => Plain)
    BY WakeParts
<1>2. /\ UNCHANGED <<elements, lists, threads, calls, queueSize, reserve>> /\ pc[t] = "idle"
      /\ isDeleting' = isDeleting
    BY DEF AcquireLastFlushedBuffer, ReleaseLastFlushedBuffer, SetStatus, SetConsumerListener,
           SetRequestBufferNoblockMode, SetIsPriorityAlloc, Enters, Idle, sizes, modes, elements
<1>3. /\ MovesOn(t) /\ pc'[t] # "flushDelete"
      /\ notified' = notified => (AllNotified => AllNotified')
      /\ notified' = NotifyRequest => AllNotified'
    BY <1>2, AtOnceGoes
<1>4. CASE AcquireLastFlushedBuffer(t)
    <2>1. /\ locked = NULL /\ UNCHANGED <<valid, noBlock, notified>>
        BY <1>4 DEF AcquireLastFlushedBuffer, modes
    <2>2. Poppable' => Poppable
        <3>1. NULL \notin Buffers
            BY NullAssumption
        <3>2. freeList' = freeList /\ freeList \in Seq(Buffers)
            BY <1>1, <1>2 DEF lists, QueueTypes
        <3>3. freeList # <<NULL>>
            <4> SUFFICES ASSUME freeList = <<NULL>> PROVE FALSE
                OBVIOUS
            <4>1. Len(freeList) = 1 /\ freeList[1] = NULL
                OBVIOUS
            <4>2. freeList[1] \in Buffers
                BY <3>2, <4>1, ElementOfSeq
            <4> QED BY <3>1, <4>1, <4>2
        <3> QED BY <2>1, <3>2, <3>3 DEF Poppable
    <2>3. Room' => Room
        BY <1>2 DEF Room, Used, Cached, Slots, elements
    <2>4. NoneCalls(SilentCalls) => Plain'
        BY <1>1, <1>2, <1>3, <2>1, PlainStays DEF MovesOn
    <2> QED BY <1>3, <2>1, <2>2, <2>3, <2>4 DEF WakeStep, Signals
<1>5. CASE ReleaseLastFlushedBuffer(t) \/ SetStatus(t)
    <2>1. notified' = NotifyRequest /\ noBlock' = noBlock
        BY <1>5 DEF ReleaseLastFlushedBuffer, SetStatus, modes
    <2> QED BY <1>2, <1>3, <2>1, LoudStep
<1>6. CASE SetConsumerListener(t) \/ SetIsPriorityAlloc(t)
    <2>1. UNCHANGED <<notified, noBlock, valid, locked>>
        BY <1>6 DEF SetConsumerListener, SetIsPriorityAlloc, last
    <2> QED BY <1>2, <1>3, <2>1, QuietStep
<1>7. CASE SetRequestBufferNoblockMode(t)
    <2> DEFINE c == "SetRequestBufferNoblockMode"
    <2>1. UNCHANGED <<notified, valid, locked>> /\ c \in calls[t] /\ c \in SilentCalls
        BY <1>7 DEF SetRequestBufferNoblockMode, last, Enters, SilentCalls
    <2>2. FreeSet' \subseteq FreeSet
        BY <1>2 DEF FreeSet, lists
    <2> HIDE DEF c
    <2> QED BY <1>3, <2>1, <2>2, SilentStep
<1> QED BY <1>4, <1>5, <1>6, <1>7

(* PreAllocBuffers adds free buffers and notifies nobody.                   *)
LEMMA PreAllocatedWakes ==
    ASSUME WakeInv, IInv', NEW t \in Thread, PreAllocated(t)
    PROVE  WakeStep(t)
<1>1. "PreAllocBuffers" \in calls[t]
    BY DEF PreAllocated, WakeInv, CallMade
<1>2. ~NoneCalls({"PreAllocBuffers"}) /\ ~NoneCalls(SilentCalls)
    BY <1>1 DEF NoneCalls, SilentCalls
<1>3. UNCHANGED <<calls, valid, locked, notified>> /\ Finish(t)
    BY DEF PreAllocated, modes, last
<1>4. MovesOn(t) /\ (AllNotified => AllNotified')
    BY <1>3, FinishGoes
<1> QED BY <1>2, <1>3, <1>4, CalmStep

-----------------------------------------------------------------------------
(* Nobody sleeps at the start.                                              *)
LEMMA WakeInvInit == Init => WakeInv
BY IInvInit, SizeAssumption
   DEF Init, WakeInv, BlockedAreNotified, AllNotified, Plain, CallMade

(* Every step signals what it makes true.                                   *)
LEMMA WakeInvStep ==
    ASSUME SingleOwner
    PROVE  WakeInv /\ [Next]_vars => WakeInv'
<1> SUFFICES ASSUME WakeInv, [Next]_vars PROVE WakeInv'
    OBVIOUS
<1>1. IInv'
    BY IInvStep DEF WakeInv
<1>2. CASE UNCHANGED vars
    BY <1>1, <1>2
       DEF WakeInv, BlockedAreNotified, AllNotified, NoneCalls, Plain, CallMade, Room, Used, Cached,
           Slots, vars, elements, lists, sizes, modes, last, threads
<1>3. CASE Next
    <2>1. PICK t \in Thread : ProducerCall(t) \/ ConsumerCall(t) \/ ControlCall(t) \/ Step(t)
        BY <1>3 DEF Next
    <2>2. WakeStep(t)
        BY <1>1, <2>1, RequestStepWakes, ProducerWakes, FlushWakes, ConsumerWakes, AttachWakesNobody,
           ResizeWakes, CleaningWakes, SettingWakes, PreAllocatedWakes
           DEF ControlCall, Step, WaiterStep
    <2> QED BY <1>1, <2>2, WakeStepKeeps
<1> QED BY <1>2, <1>3

(* A RequestBuffer that waits on waitReqCon_ and could go on has been       *)
(* notified since it could: CancelBuffer, ReleaseBuffer, a failed flush,    *)
(* ReleaseLastFlushedBuffer and SetStatus notify, and a request that makes  *)
(* room by taking a free buffer finds everybody awake.                      *)
THEOREM NobodyOversleeps == SingleOwner => (Spec => []BlockedAreNotified)
<1> SUFFICES ASSUME SingleOwner PROVE Spec => []BlockedAreNotified
    OBVIOUS
<1>1. WakeInv => BlockedAreNotified
    BY DEF WakeInv
<1> QED BY <1>1, WakeInvInit, WakeInvStep, PTL DEF Spec
=============================================================================
