-------------------------- MODULE BufferQueueProofs --------------------------
(***************************************************************************)
(* Theorems about the buffer queue, for every set of threads, buffers and  *)
(* configurations, every size, and every assignment of calls to threads.   *)
(***************************************************************************)
EXTENDS BufferQueueProperties, ListLemmas

(* Sets of buffers are finite, so the code's sizes are natural numbers.     *)
LEMMA FiniteBuffers ==
    ASSUME NEW S \in SUBSET Buffers
    PROVE  IsFiniteSet(S) /\ Cardinality(S) \in Nat
BY BuffersAssumption, FS_Subset, FS_CardinalityType

(* The size of bufferQueueCache_ is a natural number.                       *)
LEMMA UsedIsNat == Used \in Nat
BY FiniteBuffers DEF Used, Cached

-----------------------------------------------------------------------------
(* What the helpers that change the queue do to its types. *)

(* PopFromFreeListLocked takes an existing position and leaves a list of    *)
(* buffers.                                                                 *)
LEMMA PopTypes ==
    ASSUME QueueTypes, NEW c, CanPop(c)
    PROVE  /\ PoppedAt(c) \in 1..Len(freeList)
           /\ FreeAfterPop(c) \in Seq(Buffers)
<1>1. freeList \in Seq(Buffers) /\ Len(freeList) \in Nat /\ DOMAIN freeList = 1..Len(freeList)
    BY LenProperties DEF QueueTypes
<1>2. CASE Matching(c) # {}
    <2>1. Matching(c) \in SUBSET Nat /\ Matching(c) \subseteq 1..Len(freeList)
        BY <1>1 DEF Matching
    <2>2. MinOf(Matching(c)) \in Matching(c)
        <3>1. \E x \in Matching(c) : \A y \in Matching(c) : x <= y
            BY <2>1, <1>2, LeastExists
        <3> QED BY <3>1 DEF MinOf
    <2>3. PoppedAt(c) \in 1..Len(freeList)
        BY <1>2, <2>1, <2>2 DEF PoppedAt
    <2>4. FreeAfterPop(c) = RemoveAt(freeList, PoppedAt(c))
        BY <1>2 DEF FreeAfterPop
    <2> QED BY <1>1, <2>3, <2>4, RemoveAtInSeq
<1>3. CASE Matching(c) = {}
    <2>1. freeList # <<>> /\ freeList # <<locked>>
        BY <1>3 DEF CanPop
    <2>2. Len(freeList) >= 1 /\ Head(freeList) = freeList[1] /\ freeList[1] \in Buffers
        BY <2>1, <1>1, EmptySeq, ElementOfSeq
    <2>3. CASE Head(freeList) = locked
        <3>1. Len(freeList) >= 2
            <4>1. SUFFICES ASSUME Len(freeList) = 1 PROVE FALSE
                BY <1>1, <2>2
            <4>2. <<locked>> \in Seq(Buffers) /\ Len(<<locked>>) = 1 /\ <<locked>>[1] = locked
                BY <2>2, <2>3
            <4>3. freeList = <<locked>>
                BY <1>1, <2>2, <2>3, <4>1, <4>2, SeqEqual
            <4> QED BY <4>3, <2>1
        <3> DEFINE n == 2
        <3>2. SubSeq(freeList, n + 1, Len(freeList)) \in Seq(Buffers)
            <4>1. n \in 0..Len(freeList)
                BY <1>1, <3>1
            <4> HIDE DEF n
            <4> QED BY <1>1, <4>1, CutInSeq
        <3>3. locked \in Buffers /\ n + 1 = 3
            BY <2>2, <2>3
        <3>4. Append(SubSeq(freeList, 3, Len(freeList)), locked) \in Seq(Buffers)
            BY <3>2, <3>3, AppendProperties
        <3> QED BY <1>1, <1>3, <2>3, <3>1, <3>4 DEF PoppedAt, FreeAfterPop
    <2>4. CASE Head(freeList) # locked
        <3>1. PoppedAt(c) = 1 /\ FreeAfterPop(c) = RemoveAt(freeList, PoppedAt(c))
            BY <1>3, <2>4 DEF PoppedAt, FreeAfterPop
        <3>2. PoppedAt(c) \in 1..Len(freeList)
            BY <1>1, <2>2, <3>1
        <3> QED BY <1>1, <3>1, <3>2, RemoveAtInSeq
    <2> QED BY <2>3, <2>4
<1> QED BY <1>2, <1>3

(* freeList_.remove leaves a list of buffers.                               *)
LEMMA RemoveFirstTypes ==
    ASSUME QueueTypes, NEW s
    PROVE  RemoveFirst(freeList, s) \in Seq(Buffers)
BY RemoveFirstIsRemoveAt, RemoveAtInSeq DEF QueueTypes

(* DeleteBufferInCache keeps the types of elements and lists.               *)
LEMMA DeleteTypes ==
    ASSUME QueueTypes, NEW s, DeleteBufferInCache(s)
    PROVE  QueueTypes'
<1>1. freeList' \in Seq(Buffers)
    BY RemoveFirstTypes DEF DeleteBufferInCache, QueueTypes
<1> QED BY <1>1 DEF DeleteBufferInCache, Delete, Erase, QueueTypes, Cached

(* What DeleteBuffersLocked cuts off the two lists lies within them.        *)
LEMMA CutTypes ==
    ASSUME QueueTypes, NEW n \in Nat
    PROVE  /\ FreeCut(n) \in 0..Len(freeList) /\ DirtyCut(n) \in 0..Len(dirtyList)
           /\ FreeCut(n) <= n
           /\ Gone(n) \subseteq Buffers
           /\ SubSeq(freeList, FreeCut(n) + 1, Len(freeList)) \in Seq(Buffers)
           /\ SubSeq(dirtyList, DirtyCut(n) + 1, Len(dirtyList)) \in Seq(Buffers)
<1>1. freeList \in Seq(Buffers) /\ dirtyList \in Seq(Buffers)
    BY DEF QueueTypes
<1>2. Len(freeList) \in Nat /\ Len(dirtyList) \in Nat
    BY <1>1, LenProperties
<1>3. FreeCut(n) \in 0..Len(freeList) /\ FreeCut(n) <= n
    BY <1>2 DEF FreeCut, AtMost
<1>4. DirtyCut(n) \in 0..Len(dirtyList)
    BY <1>2, <1>3 DEF DirtyCut, AtMost
<1>5. /\ ToSet(SubSeq(freeList, 1, FreeCut(n))) = {freeList[i] : i \in 1..FreeCut(n)}
      /\ ToSet(SubSeq(dirtyList, 1, DirtyCut(n))) = {dirtyList[i] : i \in 1..DirtyCut(n)}
    BY <1>1, <1>3, <1>4, PrefixInSeq
<1>6. /\ \A i \in 1..FreeCut(n) : freeList[i] \in Buffers
      /\ \A i \in 1..DirtyCut(n) : dirtyList[i] \in Buffers
    BY <1>1, <1>2, <1>3, <1>4, ElementOfSeq
<1>7. Gone(n) \subseteq Buffers
    BY <1>5, <1>6 DEF Gone
<1> QED BY <1>1, <1>3, <1>4, <1>7, CutInSeq

(* DeleteBuffersLocked keeps the types of elements and lists.               *)
LEMMA DeleteBuffersTypes ==
    ASSUME QueueTypes, NEW n \in Nat, DeleteBuffers(n)
    PROVE  QueueTypes'
<1>1. freeList' \in Seq(Buffers) /\ dirtyList' \in Seq(Buffers) /\ Gone(n) \subseteq Buffers
    BY CutTypes DEF DeleteBuffers, CutLists
<1>2. Marks(n) \subseteq Buffers
    BY DEF Marks, FirstOf, Cached
<1> QED BY <1>1, <1>2 DEF DeleteBuffers, CutLists, QueueTypes

(* So does an AttachBuffer into a full queue.                               *)
LEMMA AttachReplacingTypes ==
    ASSUME QueueTypes, NEW n \in Nat, NEW s \in Buffers, NEW c \in Configs,
           AttachReplacing(n, s, c)
    PROVE  QueueTypes'
<1>1. freeList' \in Seq(Buffers) /\ dirtyList' \in Seq(Buffers) /\ Gone(n) \subseteq Buffers
    BY CutTypes DEF AttachReplacing, CutLists
<1>2. Marks(n) \subseteq Buffers
    BY DEF Marks, FirstOf, Cached
<1>3. state' \in [Buffers -> BufferState \union {"NONE"}]
    BY DEF AttachReplacing, QueueTypes, BufferState
<1>4. config' \in [Buffers -> Configs \union {NULL}]
    BY DEF AttachReplacing, QueueTypes
<1> QED BY <1>1, <1>2, <1>3, <1>4 DEF AttachReplacing, CutLists, QueueTypes

(* Giving a buffer back keeps the types.                                    *)
LEMMA FreeTypes ==
    ASSUME QueueTypes, NEW s \in Buffers, Free(s)
    PROVE  QueueTypes'
<1>1. freeList' \in Seq(Buffers)
    BY AppendProperties DEF Free, QueueTypes
<1> QED BY <1>1 DEF Free, SetState, QueueTypes, BufferState

(* Enqueueing a frame keeps the types.                                      *)
LEMMA EnqueueTypes ==
    ASSUME QueueTypes, NEW s \in Buffers, Enqueue(s)
    PROVE  QueueTypes'
<1>1. dirtyList' \in Seq(Buffers)
    BY AppendProperties DEF Enqueue, QueueTypes
<1> QED BY <1>1 DEF Enqueue, SetState, QueueTypes, BufferState

(* Attaching a released buffer keeps the types.                             *)
LEMMA AttachReleasedTypes ==
    ASSUME QueueTypes, NEW s \in Buffers, AttachReleased(s)
    PROVE  QueueTypes'
<1>1. freeList' \in Seq(Buffers)
    BY RemoveFirstTypes DEF AttachReleased
<1> QED BY <1>1 DEF AttachReleased, SetState, QueueTypes, BufferState

(* A new element keeps the types.                                           *)
LEMMA InsertTypes ==
    ASSUME QueueTypes, NEW s \in Buffers, NEW st \in BufferState, NEW c \in Configs,
           NEW pre \in BOOLEAN, Insert(s, st, c, pre),
           UNCHANGED lists, deletingList' \subseteq deletingList
    PROVE  QueueTypes'
BY DEF Insert, QueueTypes, lists

(* Erasing elements keeps the types, when the new lists are lists of        *)
(* buffers.                                                                 *)
LEMMA EraseTypes ==
    ASSUME QueueTypes, NEW S \in SUBSET Buffers, Erase(S),
           freeList' \in Seq(Buffers), dirtyList' \in Seq(Buffers), deletingList' \subseteq deletingList
    PROVE  QueueTypes'
BY DEF Erase, QueueTypes

(* A step that leaves elements and lists alone keeps their types.           *)
LEMMA SameQueueTypes ==
    ASSUME QueueTypes, UNCHANGED <<elements, lists, deletingList>>
    PROVE  QueueTypes'
BY DEF elements, lists, QueueTypes

(* A step that leaves the settings alone keeps their types.                 *)
LEMMA SameSettingTypes ==
    ASSUME SettingTypes, UNCHANGED <<sizes, allocating, modes, last>>
    PROVE  SettingTypes'
BY DEF sizes, modes, last, SettingTypes

(* What the helpers that move a thread do to its types. *)

(* A thread that has finished its call carries nothing.                     *)
LEMMA NoArgOK == CallOK("idle", NoArg)
BY NullAssumption, SizeAssumption DEF CallOK, NoArg, ArgType, Location, BufferCall, RequestCall

(* A call that waits without a buffer of its own carries nothing.           *)
LEMMA NoArgLocations == \A l \in {"clearWait", "cleanWait", "releaseAsks"} : CallOK(l, NoArg)
BY NullAssumption, SizeAssumption DEF CallOK, NoArg, ArgType, Location, BufferCall, RequestCall

(* A thread that moves to a point with fitting arguments keeps the calls'   *)
(* types.                                                                   *)
LEMMA MoveTypes ==
    ASSUME CallTypes, NEW t \in Thread, NEW l, NEW a, CallOK(l, a),
           pc' = [pc EXCEPT ![t] = l], arg' = [arg EXCEPT ![t] = a],
           notified' \subseteq Thread
    PROVE  CallTypes'
<1>1. pc' \in [Thread -> Location] /\ arg' \in [Thread -> ArgType]
    BY DEF CallTypes, CallOK
<1>2. \A u \in Thread : CallOK(pc'[u], arg'[u])
    BY DEF CallTypes
<1> QED BY <1>1, <1>2 DEF CallTypes

(* Finishing a call keeps the calls' types.                                 *)
LEMMA FinishTypes ==
    ASSUME CallTypes, NEW t \in Thread, Finish(t), notified' \subseteq Thread
    PROVE  CallTypes'
BY NoArgOK, MoveTypes DEF Finish

(* Parking a thread with fitting arguments keeps the calls' types.          *)
LEMMA ParkTypes ==
    ASSUME CallTypes, NEW t \in Thread, NEW l, NEW a, CallOK(l, a), Park(t, l, a),
           notified' \subseteq Thread
    PROVE  CallTypes'
BY MoveTypes DEF Park

(* Going on with the same, still fitting arguments keeps the calls' types.  *)
LEMMA GotoTypes ==
    ASSUME CallTypes, NEW t \in Thread, NEW l, CallOK(l, arg[t]), Goto(t, l), UNCHANGED arg,
           notified' \subseteq Thread
    PROVE  CallTypes'
<1>1. arg' = [arg EXCEPT ![t] = arg[t]]
    BY DEF CallTypes
<1> QED BY <1>1, MoveTypes DEF Goto

(* A step of no thread keeps the calls' types, whoever it wakes.            *)
LEMMA SameCallTypes ==
    ASSUME CallTypes, UNCHANGED threads, notified' \subseteq Thread
    PROVE  CallTypes'
BY DEF threads, CallTypes

(* notify_all wakes threads only.                                           *)
LEMMA NotifyTypes ==
    ASSUME CallTypes
    PROVE  NotifyRequest \subseteq Thread /\ NotifyBoth \subseteq Thread
BY DEF CallTypes, NotifyRequest, NotifyBoth

-----------------------------------------------------------------------------
(* RequestBuffer. *)

RequestOK(a) == a \in ArgType /\ a.buf = NULL /\ a.cfg # NULL

(* What RequestBuffer carries names a configuration and no buffer.          *)
LEMMA RequestArgOK ==
    ASSUME NEW t, NEW a \in RequestArg(t)
    PROVE  RequestOK(a)
BY NullAssumption, SizeAssumption DEF RequestArg, RequestOK, ArgType, ConfigArg

(* Such arguments fit every point inside RequestBuffer.                     *)
LEMMA RequestLocations ==
    ASSUME NEW a, RequestOK(a), NEW l \in RequestCall
    PROVE  CallOK(l, a)
BY DEF RequestOK, CallOK, RequestCall, BufferCall, Location

(* A thread inside RequestBuffer carries such arguments.                    *)
LEMMA RequestingOK ==
    ASSUME CallTypes, NEW t \in Thread, pc[t] \in RequestCall
    PROVE  RequestOK(arg[t])
BY DEF CallTypes, CallOK, RequestOK, RequestCall, BufferCall

(* ReuseBuffer keeps the types, granting or reallocating.                   *)
LEMMA ReuseTypes ==
    ASSUME QueueTypes, CallTypes, allocating \in BOOLEAN,
           NEW t \in Thread, NEW a, RequestOK(a), NEW s, ReuseBuffer(t, s, a),
           freeList' \in Seq(Buffers), dirtyList' \in Seq(Buffers), notified' \subseteq Thread
    PROVE  QueueTypes' /\ CallTypes' /\ allocating' \in BOOLEAN
<1>1. CASE /\ s \in Cached
           /\ config[s] = a.cfg
           /\ state' = [state EXCEPT ![s] = Granted(a)]
           /\ config' = IF a.flag THEN [config EXCEPT ![s] = NULL] ELSE config
           /\ isDeleting' = IF a.flag THEN isDeleting \ {s} ELSE isDeleting
           /\ isPreAlloc' = isPreAlloc \ {s}
           /\ deletingList' = {}
           /\ Finish(t)
           /\ UNCHANGED allocating
    <2>1. CallTypes' /\ allocating' \in BOOLEAN
        BY <1>1, FinishTypes
    <2>2. state' \in [Buffers -> BufferState \union {"NONE"}]
        BY <1>1 DEF QueueTypes, BufferState, Granted
    <2>3. config' \in [Buffers -> Configs \union {NULL}]
        BY <1>1 DEF QueueTypes
    <2> QED BY <1>1, <2>1, <2>2, <2>3 DEF QueueTypes
<1>2. CASE s \in Cached /\ config[s] # a.cfg /\ Delete({s}) /\ StartAlloc(t, a)
    <2>1. CallOK("alloc", a)
        BY RequestLocations DEF RequestCall
    <2>2. CallTypes' /\ allocating' \in BOOLEAN
        BY <1>2, <2>1, ParkTypes DEF StartAlloc
    <2>3. QueueTypes'
        BY <1>2 DEF Delete, Erase, QueueTypes, Cached
    <2> QED BY <2>2, <2>3
<1> QED BY <1>1, <1>2 DEF ReuseBuffer

(* A request served from the free list keeps the types.                     *)
LEMMA PopFreeTypes ==
    ASSUME QueueTypes, CallTypes, allocating \in BOOLEAN,
           NEW t \in Thread, NEW a, RequestOK(a), PopFromFreeList(t, a), notified' \subseteq Thread
    PROVE  QueueTypes' /\ CallTypes' /\ allocating' \in BOOLEAN
<1>1. freeList' \in Seq(Buffers) /\ dirtyList' \in Seq(Buffers)
    BY PopTypes DEF PopFromFreeList, QueueTypes
<1> QED BY <1>1, ReuseTypes DEF PopFromFreeList

(* A request that takes a frame back keeps the types.                       *)
LEMMA PopDirtyTypes ==
    ASSUME QueueTypes, CallTypes, allocating \in BOOLEAN,
           NEW t \in Thread, NEW a, RequestOK(a), PopFromDirtyList(t, a), notified' \subseteq Thread
    PROVE  QueueTypes' /\ CallTypes' /\ allocating' \in BOOLEAN
<1>1. freeList' \in Seq(Buffers) /\ dirtyList' \in Seq(Buffers)
    BY HeadTailProperties DEF PopFromDirtyList, QueueTypes
<1> QED BY <1>1, ReuseTypes DEF PopFromDirtyList

(* A request that returns without a buffer keeps the types.                 *)
LEMMA NoBufferTypes ==
    ASSUME QueueTypes, CallTypes, allocating \in BOOLEAN, NEW t \in Thread, NoBuffer(t),
           notified' \subseteq Thread
    PROVE  QueueTypes' /\ CallTypes' /\ allocating' \in BOOLEAN
BY FinishTypes, SameQueueTypes DEF NoBuffer

(* RequestBufferLocked keeps the types, on each of its branches.            *)
LEMMA SelectTypes ==
    ASSUME QueueTypes, CallTypes, allocating \in BOOLEAN,
           NEW t \in Thread, NEW a, RequestOK(a), SelectBuffer(t, a), notified' \subseteq Thread
    PROVE  QueueTypes' /\ CallTypes' /\ allocating' \in BOOLEAN
<1>1. CASE PopFromFreeList(t, a)
    BY <1>1, PopFreeTypes
<1>2. CASE StartAlloc(t, a) /\ UNCHANGED <<elements, lists, deletingList>>
    <2>1. CallOK("alloc", a)
        BY RequestLocations DEF RequestCall
    <2> QED BY <1>2, <2>1, ParkTypes, SameQueueTypes DEF StartAlloc
<1>3. CASE PopFromDirtyList(t, a)
    BY <1>3, PopDirtyTypes
<1>4. CASE NoBuffer(t)
    BY <1>4, NoBufferTypes
<1>5. CASE /\ Park(t, "requestBlocked", a)
           /\ UNCHANGED <<elements, lists, deletingList, allocating>>
    <2>1. CallOK("requestBlocked", a)
        BY RequestLocations DEF RequestCall
    <2> QED BY <1>5, <2>1, ParkTypes, SameQueueTypes
<1> QED BY <1>1, <1>2, <1>3, <1>4, <1>5 DEF SelectBuffer

(* So does what ReuseBufferForBlockMode does after its wait.                *)
LEMMA AfterWaitTypes ==
    ASSUME QueueTypes, CallTypes, allocating \in BOOLEAN,
           NEW t \in Thread, RequestOK(arg[t]), AfterWait(t), notified' \subseteq Thread
    PROVE  QueueTypes' /\ CallTypes' /\ allocating' \in BOOLEAN
BY PopFreeTypes, NoBufferTypes DEF AfterWait

(* Every setting but isAllocatingBuffer_ stays.                             *)
LEMMA AllocatingTypes ==
    ASSUME SettingTypes, UNCHANGED <<sizes, modes, last>>, allocating' \in BOOLEAN
    PROVE  SettingTypes'
BY DEF SettingTypes, sizes, modes, last

(* Every step of RequestBuffer keeps TypeOK.                                *)
LEMMA RequestTypes ==
    ASSUME TypeOK, NEW t \in Thread, RequestBuffer(t) \/ RequestStep(t)
    PROVE  TypeOK'
<1>1. QueueTypes /\ SettingTypes /\ CallTypes /\ allocating \in BOOLEAN
    BY DEF TypeOK, SettingTypes
<1>2. notified \subseteq Thread /\ notified \ {t} \subseteq Thread
    BY <1>1 DEF CallTypes
<1>3. CASE RequestBuffer(t)
    <2>1. PICK a \in RequestArg(t) :
             IF allocating
             THEN /\ Park(t, "requestWaitAlloc", a)
                  /\ UNCHANGED <<elements, lists, deletingList, allocating>>
             ELSE SelectBuffer(t, a)
        BY <1>3 DEF RequestBuffer
    <2>2. RequestOK(a) /\ CallOK("requestWaitAlloc", a)
        BY RequestArgOK, RequestLocations DEF RequestCall
    <2>3. UNCHANGED <<sizes, modes, last, notified>>
        BY <1>3 DEF RequestBuffer
    <2>4. QueueTypes' /\ CallTypes' /\ allocating' \in BOOLEAN
        BY <1>1, <1>2, <2>1, <2>2, <2>3, SelectTypes, ParkTypes, SameQueueTypes
    <2> QED BY <1>1, <2>3, <2>4, AllocatingTypes DEF TypeOK
<1>4. CASE RequestAfterAlloc(t)
    <2>1. RequestOK(arg[t])
        BY <1>1, <1>4, RequestingOK DEF RequestAfterAlloc, RequestCall
    <2>2. QueueTypes' /\ CallTypes' /\ allocating' \in BOOLEAN
        BY <1>1, <1>2, <1>4, <2>1, SelectTypes DEF RequestAfterAlloc
    <2> QED BY <1>1, <1>4, <2>2, AllocatingTypes DEF TypeOK, RequestAfterAlloc
<1>5. CASE RequestWakes(t) \/ RequestTimesOut(t)
    <2>1. RequestOK(arg[t])
        BY <1>1, <1>5, RequestingOK DEF RequestWakes, RequestTimesOut, RequestCall
    <2>2. AfterWait(t) /\ notified' \subseteq Thread /\ UNCHANGED <<sizes, modes, last>>
        BY <1>2, <1>5 DEF RequestWakes, RequestTimesOut
    <2>3. QueueTypes' /\ CallTypes' /\ allocating' \in BOOLEAN
        BY <1>1, <2>1, <2>2, AfterWaitTypes
    <2> QED BY <1>1, <2>2, <2>3, AllocatingTypes DEF TypeOK
<1>6. CASE RequestSleepsAgain(t)
    BY <1>1, <1>2, <1>6, SameQueueTypes, SameSettingTypes, SameCallTypes
       DEF TypeOK, RequestSleepsAgain
<1>7. CASE AllocSucceeds(t)
    <2>1. CallTypes' /\ allocating' \in BOOLEAN /\ UNCHANGED <<lists, sizes, modes, last>>
        BY <1>1, <1>2, <1>7, FinishTypes DEF AllocSucceeds
    <2>2. QueueTypes'
        <3>1. CASE UNCHANGED elements
            BY <1>1, <1>7, <3>1 DEF AllocSucceeds, QueueTypes, elements, lists
        <3>2. CASE \E s \in Unused : Insert(s, "REQUESTED", arg[t].cfg, FALSE)
            <4>1. PICK s \in Unused : Insert(s, "REQUESTED", arg[t].cfg, FALSE)
                BY <3>2
            <4>2. s \in Buffers /\ "REQUESTED" \in BufferState /\ arg[t].cfg \in Configs
                <5>1. RequestOK(arg[t])
                    BY <1>1, <1>7, RequestingOK DEF AllocSucceeds, RequestCall
                <5> QED BY <5>1 DEF RequestOK, ArgType, Unused, BufferState
            <4> QED BY <1>1, <1>7, <4>1, <4>2, InsertTypes DEF AllocSucceeds
        <3> QED BY <1>7, <3>1, <3>2 DEF AllocSucceeds
    <2> QED BY <1>1, <2>1, <2>2, AllocatingTypes DEF TypeOK
<1>8. CASE AllocFails(t)
    <2>1. CallTypes' /\ allocating' \in BOOLEAN
        BY <1>1, <1>2, <1>8, FinishTypes DEF AllocFails
    <2> QED BY <1>1, <1>8, <2>1, SameQueueTypes, AllocatingTypes DEF TypeOK, AllocFails
<1> QED BY <1>3, <1>4, <1>5, <1>6, <1>7, <1>8 DEF RequestStep

-----------------------------------------------------------------------------
(* FlushBuffer, CancelBuffer, AttachAndFlushBuffer. *)

(* An argument with a buffer fits every point of a call that names one.     *)
LEMMA BufferLocations ==
    ASSUME NEW s \in Buffers, NEW f \in BOOLEAN, NEW l \in BufferCall
    PROVE  CallOK(l, BufferArg(s, f))
BY NullAssumption, SizeAssumption
   DEF CallOK, BufferArg, ArgType, BufferCall, RequestCall, Location

(* A thread at such a point carries a buffer, and may go on to the others.  *)
LEMMA InBufferCall ==
    ASSUME CallTypes, NEW t \in Thread, pc[t] \in BufferCall
    PROVE  /\ arg[t].buf \in Buffers
           /\ arg[t] \in ArgType
           /\ \A l \in BufferCall : CallOK(l, arg[t])
BY DEF CallTypes, CallOK, ArgType, BufferCall, RequestCall, Location

(* Every later step of FlushBuffer keeps TypeOK.                            *)
LEMMA FlushTypes ==
    ASSUME TypeOK, NEW t \in Thread, FlushStep(t)
    PROVE  TypeOK'
<1>1. QueueTypes /\ SettingTypes /\ CallTypes
    BY DEF TypeOK
<1>2. notified \subseteq Thread /\ NotifyBoth \subseteq Thread
    BY <1>1, NotifyTypes DEF CallTypes
<1>3. CASE FlushChecksCache(t)
    <2>1. CallOK("flushCacheOk", arg[t])
        BY <1>1, <1>3, InBufferCall DEF FlushChecksCache, BufferCall
    <2>2. CallTypes'
        BY <1>1, <1>2, <1>3, <2>1, GotoTypes, FinishTypes DEF FlushChecksCache
    <2> QED BY <1>1, <1>3, <2>2, SameQueueTypes, SameSettingTypes DEF TypeOK, FlushChecksCache
<1>4. CASE FlushChecksListener(t)
    <2>1. CallOK("flushListenerOk", arg[t]) /\ CallOK("flushCancel", arg[t])
        BY <1>1, <1>4, InBufferCall DEF FlushChecksListener, BufferCall
    <2>2. CallTypes'
        BY <1>1, <1>2, <1>4, <2>1, GotoTypes DEF FlushChecksListener
    <2> QED BY <1>1, <1>4, <2>2, SameQueueTypes, SameSettingTypes DEF TypeOK, FlushChecksListener
<1>5. CASE DoFlushBuffer(t)
    <2> DEFINE s == arg[t].buf
    <2>1. s \in Buffers /\ CallOK("flushDelete", arg[t])
        BY <1>1, <1>5, InBufferCall DEF DoFlushBuffer, BufferCall
    <2>2. notified' \subseteq Thread /\ UNCHANGED <<sizes, allocating, modes>>
        BY <1>2, <1>5 DEF DoFlushBuffer
    <2>3. CASE Enqueue(s) /\ Finish(t)
        <3>1. QueueTypes' /\ CallTypes'
            BY <1>1, <2>1, <2>2, <2>3, EnqueueTypes, FinishTypes
        <3>2. SettingTypes'
            BY <1>1, <2>1, <2>2, <2>3 DEF SettingTypes, Enqueue, sizes, modes
        <3> QED BY <3>1, <3>2 DEF TypeOK
    <2>4. CASE DeleteBufferInCache(s) /\ Finish(t) /\ UNCHANGED last
        BY <1>1, <2>2, <2>4, DeleteTypes, FinishTypes, SameSettingTypes DEF TypeOK
    <2>5. CASE /\ Goto(t, "flushDelete")
               /\ UNCHANGED <<elements, lists, deletingList, last, arg>>
        BY <1>1, <2>1, <2>2, <2>5, GotoTypes, SameQueueTypes, SameSettingTypes DEF TypeOK
    <2>6. CASE Finish(t) /\ UNCHANGED <<elements, lists, deletingList, last>>
        BY <1>1, <2>2, <2>6, FinishTypes, SameQueueTypes, SameSettingTypes DEF TypeOK
    <2> QED BY <1>5, <2>3, <2>4, <2>5, <2>6 DEF DoFlushBuffer
<1>6. CASE FlushCancels(t)
    <2>1. arg[t].buf \in Buffers
        BY <1>1, <1>6, InBufferCall DEF FlushCancels, BufferCall
    <2>2. QueueTypes' /\ notified' \subseteq Thread
        BY <1>1, <1>2, <1>6, <2>1, FreeTypes, SameQueueTypes DEF FlushCancels, Free
    <2> QED BY <1>1, <1>6, <2>2, FinishTypes, SameSettingTypes DEF TypeOK, FlushCancels
<1>7. CASE FlushDeletes(t)
    BY <1>1, <1>2, <1>7, DeleteTypes, FinishTypes, SameSettingTypes DEF TypeOK, FlushDeletes
<1> QED BY <1>3, <1>4, <1>5, <1>6, <1>7 DEF FlushStep

(* So do the calls FlushBuffer, CancelBuffer and AttachAndFlushBuffer.      *)
LEMMA FlushCallTypes ==
    ASSUME TypeOK, NEW t \in Thread, NEW s \in Buffers,
           FlushBuffer(t, s) \/ CancelBuffer(t, s) \/ AttachAndFlushBuffer(t, s)
    PROVE  TypeOK'
<1>1. QueueTypes /\ SettingTypes /\ CallTypes
    BY DEF TypeOK
<1>2. notified \subseteq Thread /\ NotifyBoth \subseteq Thread
    BY <1>1, NotifyTypes DEF CallTypes
<1>3. CASE FlushBuffer(t, s)
    <2>1. CallOK("flushStatusOk", BufferArg(s, FALSE))
        BY BufferLocations DEF BufferCall
    <2> QED BY <1>1, <1>2, <1>3, <2>1, ParkTypes, SameQueueTypes, SameSettingTypes
            DEF TypeOK, FlushBuffer
<1>4. CASE CancelBuffer(t, s)
    BY <1>1, <1>2, <1>4, FreeTypes, SameCallTypes, SameSettingTypes DEF TypeOK, CancelBuffer, Free
<1>5. CASE AttachAndFlushBuffer(t, s)
    <2>1. PICK c \in Configs : Insert(s, "FLUSHED", c, FALSE)
        BY <1>5 DEF AttachAndFlushBuffer
    <2>2. dirtyList' \in Seq(Buffers)
        BY <1>1, <1>5, AppendProperties DEF AttachAndFlushBuffer, QueueTypes
    <2>3. QueueTypes'
        BY <1>1, <1>5, <2>1, <2>2 DEF QueueTypes, Insert, AttachAndFlushBuffer, BufferState
    <2>4. SettingTypes'
        BY <1>1, <1>5 DEF SettingTypes, AttachAndFlushBuffer, sizes, modes
    <2> QED BY <1>1, <1>2, <1>5, <2>3, <2>4, SameCallTypes DEF TypeOK, AttachAndFlushBuffer
<1> QED BY <1>3, <1>4, <1>5

-----------------------------------------------------------------------------
(* What ReleaseBuffer hands a listener. *)

(* The buffers of F at the positions in P, in any order.                    *)
LEMMA OrderTypes ==
    ASSUME NEW F \in Seq(Buffers), NEW P \in SUBSET DOMAIN F, NEW f \in Orders(P)
    PROVE  /\ Pick(F, f) \in Seq(Buffers)
           /\ IsInjective(F) => Lists(Pick(F, f), {F[i] : i \in P})
<1> DEFINE k == Cardinality(P)
           r == Pick(F, f)
           Y == {F[i] : i \in P}
<1>1. DOMAIN F = 1..Len(F) /\ Len(F) \in Nat /\ \A i \in 1..Len(F) : F[i] \in Buffers
    BY LenProperties, ElementOfSeq
<1>2. IsFiniteSet(P) /\ k \in Nat
    <2>1. P \in SUBSET (1..Len(F)) /\ IsFiniteSet(1..Len(F))
        BY <1>1, FS_Interval
    <2> QED BY <2>1, FS_Subset, FS_CardinalityType
<1>3. f \in Injection(1..k, P) /\ f \in [1..k -> P]
    BY DEF Orders, Injection
<1>4. f \in Surjection(1..k, P)
    <2>1. Cardinality(1..k) = k
        BY <1>2, FS_Interval
    <2> QED BY <1>2, <1>3, <2>1, FS_Injection
<1>5. /\ \A i, j \in 1..k : f[i] = f[j] => i = j
      /\ \A p \in P : \E i \in 1..k : f[i] = p
    BY <1>3, <1>4 DEF Injection, Surjection, IsInjective
<1>6. r = [i \in 1..k |-> F[f[i]]]
    BY <1>3 DEF Pick
<1>7. \A i \in 1..k : f[i] \in P /\ f[i] \in 1..Len(F)
    BY <1>1, <1>3
<1> HIDE DEF k, r
<1>8. r \in [1..k -> Y] /\ Y \subseteq Buffers
    BY <1>1, <1>6, <1>7
<1>9. r \in Seq(Y) /\ r \in Seq(Buffers) /\ Len(r) = k
    <2>1. r \in Seq(Y)
        BY <1>2, <1>8, SeqDef
    <2>2. DOMAIN r = 1..k /\ DOMAIN r = 1..Len(r) /\ Len(r) \in Nat
        BY <1>8, <2>1, LenProperties
    <2>3. r \in Seq(Buffers)
        BY <1>8, <2>1, SeqMonotonic
    <2> QED BY <1>2, <2>1, <2>2, <2>3
<1>10. ASSUME IsInjective(F)
       PROVE  Lists(r, Y)
    <2>1. \A i, j \in 1..Len(F) : F[i] = F[j] => i = j
        BY <1>1, <1>10 DEF IsInjective
    <2>2. \A i, j \in 1..Len(r) : r[i] = r[j] => i = j
        <3> SUFFICES ASSUME NEW i \in 1..Len(r), NEW j \in 1..Len(r), r[i] = r[j]
                     PROVE  i = j
            OBVIOUS
        <3>1. i \in 1..k /\ j \in 1..k /\ F[f[i]] = F[f[j]]
            BY <1>6, <1>9
        <3>2. f[i] = f[j]
            BY <3>1, <2>1, <1>7
        <3> QED BY <3>1, <3>2, <1>5
    <2>3. \A y \in Y : \E i \in 1..Len(r) : r[i] = y
        <3> SUFFICES ASSUME NEW p \in P
                     PROVE  \E i \in 1..Len(r) : r[i] = F[p]
            OBVIOUS
        <3>1. PICK i \in 1..k : f[i] = p
            BY <1>5
        <3> QED BY <3>1, <1>6, <1>9
    <2> HIDE DEF Y
    <2> QED BY <1>9, <2>2, <2>3, ListsMeans
<1> QED BY <1>9, <1>10 DEF r

(* After the release has freed R or deleted D, the buffers G go to the      *)
(* listener.                                                                *)
Lent(R, D, G) ==
    /\ state' = [u \in Buffers |-> IF u \in G THEN "REQUESTED"
                                   ELSE IF u \in D THEN "NONE"
                                   ELSE IF u \in R THEN "RELEASED" ELSE state[u]]
    /\ config' = [u \in Buffers |-> IF u \in D THEN NULL ELSE config[u]]
    /\ isDeleting' = isDeleting \ D
    /\ isPreAlloc' = isPreAlloc \ D
    /\ deletingList' \in {{}, deletingList \union ((D \intersect Cached) \ isPreAlloc)}
    /\ G \intersect isPreAlloc = {} /\ locked \notin G
    /\ freeList' \in Seq(Buffers)
    /\ UNCHANGED dirtyList

(* RequestBuffersForListenerLocked takes buffers out of the free list F, not *)
(* the locked one and none the producer has not seen, and loses no other.   *)
LEMMA HandsOverLends ==
    ASSUME NEW F \in Seq(Buffers), NEW R, NEW D, NEW C, HandsOver(R, D, F, C)
    PROVE  \E G \in SUBSET ToSet(F) :
              /\ Lent(R, D, G)
              /\ \A u \in G : config[u] \in C
              /\ G # {} => deletingList' = {}
              /\ IsInjective(F) => Lists(freeList', ToSet(F) \ G)
<1>1. PICK P \in Grants(F, C) :
        LET G == {F[i] : i \in P}
        IN  /\ state' = [u \in Buffers |-> IF u \in G THEN "REQUESTED"
                                           ELSE IF u \in D THEN "NONE"
                                           ELSE IF u \in R THEN "RELEASED" ELSE state[u]]
            /\ config' = [u \in Buffers |-> IF u \in D THEN NULL ELSE config[u]]
            /\ isDeleting' = isDeleting \ D
            /\ isPreAlloc' = isPreAlloc \ D
            /\ \E f \in Orders(DOMAIN F \ P) : freeList' = Pick(F, f)
            /\ deletingList' = IF Wanted(F, C) # {} THEN {}
                               ELSE deletingList \union ((D \intersect Cached) \ isPreAlloc)
            /\ UNCHANGED dirtyList
    BY Zenon DEF HandsOver
<1> DEFINE G == {F[i] : i \in P}
           Q == DOMAIN F \ P
<1>2. P \subseteq Wanted(F, C) /\ P \subseteq DOMAIN F /\ \A i \in P : F[i] \notin isPreAlloc
    BY DEF Grants, Wanted
<1>3. PICK f \in Orders(Q) : freeList' = Pick(F, f)
    BY <1>1
<1>4. freeList' \in Seq(Buffers) /\ (IsInjective(F) => Lists(freeList', {F[i] : i \in Q}))
    <2>1. Q \in SUBSET DOMAIN F
        OBVIOUS
    <2> HIDE DEF Q
    <2> QED BY <1>3, <2>1, OrderTypes
<1>5. G \in SUBSET ToSet(F)
    BY <1>2 DEF ToSet
<1>6. IsInjective(F) => {F[i] : i \in Q} = ToSet(F) \ G
    BY <1>2 DEF ToSet, IsInjective
<1>7. \A u \in G : config[u] \in C /\ u # locked /\ u \notin isPreAlloc
    BY <1>2 DEF Wanted
<1>8. deletingList' \in {{}, deletingList \union ((D \intersect Cached) \ isPreAlloc)}
    BY <1>1
<1>9. G # {} => deletingList' = {}
    BY <1>1, <1>2
<1>10. Lent(R, D, G)
    BY <1>1, <1>4, <1>7, <1>8 DEF Lent
<1> QED BY <1>4, <1>5, <1>6, <1>7, <1>9, <1>10

(* The lists it is asked for: the free list with the buffer it releases, or *)
(* without the one it deletes.                                              *)
LEMMA ListedTypes ==
    ASSUME QueueTypes, NEW s \in Buffers
    PROVE  Append(freeList, s) \in Seq(Buffers) /\ RemoveFirst(freeList, s) \in Seq(Buffers)
BY RemoveFirstTypes, AppendProperties DEF QueueTypes

(* Handing buffers over keeps the types.                                    *)
LEMMA LentTypes ==
    ASSUME QueueTypes, NEW R, NEW D, NEW G, Lent(R, D, G)
    PROVE  QueueTypes'
BY DEF Lent, QueueTypes, BufferState, Cached

(* What ReleaseBuffer does, once it has found the buffer in its place.      *)
LEMMA ReleaseMeans ==
    ASSUME NEW t, NEW s, ReleaseBuffer(t, s)
    PROVE  /\ Enters(t, "ReleaseBuffer") /\ Exclusive(t, s)
           /\ state[s] \in {"ACQUIRED", "ATTACHED"}
           /\ UNCHANGED <<sizes, allocating, modes, last>>
           /\ \/ s \notin isDeleting /\ Free(s) /\ UNCHANGED threads
              \/ s \in isDeleting /\ DeleteBufferInCache(s) /\ notified' = NotifyBoth /\ UNCHANGED threads
              \/ /\ s \in isDeleting /\ allocating
                 /\ SetState(s, "RELEASED")
                 /\ Park(t, "releaseDelete", BufferArg(s, FALSE))
                 /\ UNCHANGED <<lists, deletingList, notified>>
              \/ /\ s \notin isDeleting
                 /\ HandsOver({s}, {}, Append(freeList, s), Configs)
                 /\ notified' = NotifyBoth /\ UNCHANGED threads
              \/ /\ s \in isDeleting
                 /\ HandsOver({}, {s}, RemoveFirst(freeList, s), Configs)
                 /\ notified' = NotifyBoth /\ UNCHANGED threads
              \/ /\ s \notin isDeleting /\ allocating
                 /\ Free(s) /\ Park(t, "releaseAsks", NoArg)
BY Zenon DEF ReleaseBuffer, ReleaseUnlistened, ReleaseToListener

-----------------------------------------------------------------------------
(* The consumer's calls. *)

(* Acquiring, releasing and the last-flushed lock keep TypeOK.              *)
LEMMA ConsumerTypes ==
    ASSUME TypeOK, NEW t \in Thread,
           \/ AcquireBuffer(t)
           \/ \E s \in Buffers : ReleaseBuffer(t, s)
           \/ ReleaseDeletes(t) \/ ReleaseAsks(t)
           \/ AcquireLastFlushedBuffer(t)
           \/ ReleaseLastFlushedBuffer(t)
    PROVE  TypeOK'
<1>1. QueueTypes /\ SettingTypes /\ CallTypes
    BY DEF TypeOK
<1>2. notified \subseteq Thread /\ NotifyBoth \subseteq Thread /\ NotifyRequest \subseteq Thread
    BY <1>1, NotifyTypes DEF CallTypes
<1>3. CASE AcquireBuffer(t)
    <2>1. dirtyList' \in Seq(Buffers)
        BY <1>1, <1>3, HeadTailProperties DEF AcquireBuffer, QueueTypes
    <2>2. QueueTypes'
        BY <1>1, <1>3, <2>1 DEF AcquireBuffer, SetState, QueueTypes, BufferState
    <2> QED BY <1>1, <1>2, <1>3, <2>2, SameCallTypes, SameSettingTypes DEF TypeOK, AcquireBuffer
<1>4. ASSUME NEW s \in Buffers, ReleaseBuffer(t, s)
      PROVE  TypeOK'
    <2>1. SettingTypes'
        BY <1>1, <1>4, ReleaseMeans, SameSettingTypes
    <2>2. CASE Free(s) /\ UNCHANGED threads
        BY <1>1, <1>2, <2>1, <2>2, FreeTypes, SameCallTypes DEF TypeOK, Free
    <2>3. CASE DeleteBufferInCache(s) /\ notified' = NotifyBoth /\ UNCHANGED threads
        BY <1>1, <1>2, <2>1, <2>3, DeleteTypes, SameCallTypes DEF TypeOK
    <2>4. CASE /\ SetState(s, "RELEASED")
               /\ Park(t, "releaseDelete", BufferArg(s, FALSE))
               /\ UNCHANGED <<lists, deletingList, notified>>
        <3>1. CallTypes'
            BY <1>1, <1>2, <2>4, BufferLocations, ParkTypes DEF BufferCall
        <3>2. QueueTypes'
            BY <1>1, <2>4 DEF SetState, QueueTypes, BufferState, lists
        <3> QED BY <2>1, <3>1, <3>2 DEF TypeOK
    <2>5. ASSUME NEW R, NEW D, NEW F \in Seq(Buffers), NEW C, HandsOver(R, D, F, C),
                 notified' = NotifyBoth, UNCHANGED threads
          PROVE  TypeOK'
        BY <1>1, <1>2, <2>1, <2>5, HandsOverLends, LentTypes, SameCallTypes DEF TypeOK
    <2>6. CASE Free(s) /\ Park(t, "releaseAsks", NoArg)
        <3>1. CallTypes'
            BY <1>1, <1>2, <2>6, NoArgLocations, ParkTypes DEF Free
        <3> QED BY <1>1, <2>1, <2>6, <3>1, FreeTypes DEF TypeOK
    <2>7. Append(freeList, s) \in Seq(Buffers) /\ RemoveFirst(freeList, s) \in Seq(Buffers)
        BY <1>1, ListedTypes
    <2> QED BY <1>4, <2>2, <2>3, <2>4, <2>5, <2>6, <2>7, ReleaseMeans
<1>5. CASE ReleaseDeletes(t) \/ ReleaseAsks(t)
    <2>1. CallTypes' /\ SettingTypes'
        BY <1>1, <1>2, <1>5, FinishTypes, SameSettingTypes DEF ReleaseDeletes, ReleaseAsks
    <2>2. CASE DeleteBufferInCache(arg[t].buf)
        BY <1>1, <2>1, <2>2, DeleteTypes DEF TypeOK
    <2>3. ASSUME NEW R, NEW D, NEW F \in Seq(Buffers), NEW C, HandsOver(R, D, F, C)
          PROVE  TypeOK'
        BY <1>1, <2>1, <2>3, HandsOverLends, LentTypes DEF TypeOK
    <2>4. freeList \in Seq(Buffers) /\ RemoveFirst(freeList, arg[t].buf) \in Seq(Buffers)
        BY <1>1, RemoveFirstTypes DEF QueueTypes
    <2> QED BY <1>5, <2>2, <2>3, <2>4 DEF ReleaseDeletes, ReleaseAsks
<1>6. CASE AcquireLastFlushedBuffer(t)
    <2>1. SettingTypes'
        BY <1>1, <1>6 DEF AcquireLastFlushedBuffer, SettingTypes, sizes, modes
    <2> QED BY <1>1, <1>2, <1>6, <2>1, SameQueueTypes, SameCallTypes
            DEF TypeOK, AcquireLastFlushedBuffer
<1>7. CASE ReleaseLastFlushedBuffer(t)
    <2>1. SettingTypes'
        BY <1>1, <1>7 DEF ReleaseLastFlushedBuffer, SettingTypes, sizes, modes
    <2> QED BY <1>1, <1>2, <1>7, <2>1, SameQueueTypes, SameCallTypes
            DEF TypeOK, ReleaseLastFlushedBuffer
<1> QED BY <1>3, <1>4, <1>5, <1>6, <1>7

-----------------------------------------------------------------------------
(* Buffers that enter and leave the queue from outside. *)

(* detachReserveSlotNum_ never wraps when an attach fills a slot.           *)
LEMMA FillSlotTypes ==
    ASSUME SettingTypes, NEW invoker, FillSlot(invoker)
    PROVE  reserve' \in 0..(WordSize - 1)
BY SizeAssumption DEF SettingTypes, FillSlot

(* Nor does a detach that reserves one take it out of uint32_t.             *)
LEMMA ReserveSlotTypes ==
    ASSUME SettingTypes, NEW yes, ReserveSlot(yes)
    PROVE  reserve' \in 0..(WordSize - 1)
<1>1. (reserve + 1) % WordSize \in 0..(WordSize - 1)
    BY SizeAssumption DEF SettingTypes
<1> QED BY <1>1 DEF SettingTypes, ReserveSlot

(* A step that changes only the reservation keeps the settings' types.      *)
LEMMA ReserveTypes ==
    ASSUME SettingTypes, reserve' \in 0..(WordSize - 1),
           UNCHANGED <<queueSize, maxQueueSize, allocating, modes, last>>
    PROVE  SettingTypes'
BY DEF SettingTypes, modes, last

(* AttachBufferToQueue and the detaching calls keep TypeOK.                 *)
LEMMA DetachTypes ==
    ASSUME TypeOK, NEW t \in Thread, NEW s \in Buffers,
           \/ \E invoker \in {"Producer", "Consumer"} : AttachBufferToQueue(t, s, invoker)
           \/ DetachBuffer(t, s)
           \/ \E isReserveSlot \in BOOLEAN : ConsumerDetach(t, s, isReserveSlot)
           \/ DetachDeletes(t)
    PROVE  TypeOK'
<1>1. QueueTypes /\ SettingTypes /\ CallTypes
    BY DEF TypeOK
<1>2. notified \subseteq Thread
    BY <1>1 DEF CallTypes
<1>3. ASSUME NEW invoker \in {"Producer", "Consumer"}, AttachBufferToQueue(t, s, invoker)
      PROVE  TypeOK'
    <2> DEFINE st == IF invoker = "Producer" THEN "REQUESTED" ELSE "ACQUIRED"
    <2>1. PICK c \in Configs : Insert(s, st, c, FALSE)
        BY <1>3 DEF AttachBufferToQueue
    <2>2. st \in BufferState
        BY DEF BufferState
    <2> HIDE DEF st
    <2>3. QueueTypes'
        BY <1>1, <1>3, <2>1, <2>2, InsertTypes DEF AttachBufferToQueue
    <2>4. SettingTypes'
        BY <1>1, <1>3, FillSlotTypes, ReserveTypes DEF AttachBufferToQueue
    <2> QED BY <1>1, <1>2, <1>3, <2>3, <2>4, SameCallTypes DEF TypeOK, AttachBufferToQueue
<1>4. CASE DetachBuffer(t, s)
    <2>1. QueueTypes'
        BY <1>1, <1>4 DEF DetachBuffer, Erase, QueueTypes, lists
    <2> QED BY <1>1, <1>2, <1>4, <2>1, SameCallTypes, SameSettingTypes DEF TypeOK, DetachBuffer
<1>5. ASSUME NEW isReserveSlot \in BOOLEAN, ConsumerDetach(t, s, isReserveSlot)
      PROVE  TypeOK'
    <2>1. UNCHANGED <<queueSize, maxQueueSize, allocating, modes, last, notified>>
        BY <1>5 DEF ConsumerDetach
    <2>2. CASE /\ Park(t, "detachDelete", BufferArg(s, isReserveSlot))
               /\ UNCHANGED <<elements, lists, deletingList, reserve>>
        <3>1. CallTypes'
            BY <1>1, <1>2, <2>1, <2>2, BufferLocations, ParkTypes DEF BufferCall
        <3>2. SettingTypes'
            BY <1>1, <2>1, <2>2, ReserveTypes DEF SettingTypes
        <3> QED BY <1>1, <2>2, <3>1, <3>2, SameQueueTypes DEF TypeOK
    <2>3. CASE DeleteBufferInCache(s) /\ ReserveSlot(isReserveSlot) /\ UNCHANGED threads
        <3>1. SettingTypes'
            BY <1>1, <2>1, <2>3, ReserveSlotTypes, ReserveTypes
        <3> QED BY <1>1, <1>2, <2>1, <2>3, <3>1, DeleteTypes, SameCallTypes DEF TypeOK
    <2> QED BY <1>5, <2>2, <2>3 DEF ConsumerDetach
<1>6. CASE DetachDeletes(t)
    <2>1. SettingTypes'
        BY <1>1, <1>6, ReserveSlotTypes, ReserveTypes DEF DetachDeletes
    <2> QED BY <1>1, <1>2, <1>6, <2>1, DeleteTypes, FinishTypes DEF TypeOK, DetachDeletes
<1> QED BY <1>3, <1>4, <1>5, <1>6

(* Every step of AttachBuffer keeps TypeOK.                                 *)
LEMMA AttachTypes ==
    ASSUME TypeOK, NEW t \in Thread,
           AttachStep(t) \/ \E s \in Buffers : AttachBuffer(t, s)
    PROVE  TypeOK'
<1>1. QueueTypes /\ SettingTypes /\ CallTypes
    BY DEF TypeOK
<1>2. notified \subseteq Thread /\ notified \ {t} \subseteq Thread
    BY <1>1 DEF CallTypes
<1>3. ASSUME NEW s \in Buffers, AttachBuffer(t, s)
      PROVE  TypeOK'
    <2>1. CallOK("attachChecked", BufferArg(s, FALSE))
        BY BufferLocations DEF BufferCall
    <2> QED BY <1>1, <1>2, <1>3, <2>1, ParkTypes, SameQueueTypes, SameSettingTypes
            DEF TypeOK, AttachBuffer
<1>4. CASE AttachLooksUp(t)
    <2> DEFINE s == arg[t].buf
    <2>1. /\ s \in Buffers /\ arg[t] \in ArgType
          /\ CallOK("attachWait", arg[t]) /\ CallOK("attachDelete", arg[t])
        BY <1>1, <1>4, InBufferCall DEF AttachLooksUp, BufferCall
    <2>2. SettingTypes' /\ notified' \subseteq Thread
        BY <1>1, <1>2, <1>4, SameSettingTypes DEF AttachLooksUp
    <2>3. CASE AttachReleased(s) /\ Finish(t)
        BY <1>1, <2>1, <2>2, <2>3, AttachReleasedTypes, FinishTypes DEF TypeOK
    <2>4. CASE Goto(t, "attachWait") /\ UNCHANGED <<elements, lists, deletingList, arg>>
        BY <1>1, <2>1, <2>2, <2>4, GotoTypes, SameQueueTypes DEF TypeOK
    <2>5. CASE /\ \E c \in Configs : Insert(s, "ATTACHED", c, FALSE)
               /\ Finish(t) /\ UNCHANGED <<lists, deletingList>>
        <3>1. PICK c \in Configs : Insert(s, "ATTACHED", c, FALSE)
            BY <2>5
        <3>2. QueueTypes'
            BY <1>1, <2>1, <2>5, <3>1, InsertTypes DEF BufferState
        <3> QED BY <1>1, <2>2, <2>5, <3>2, FinishTypes DEF TypeOK
    <2>6. CASE /\ Used >= queueSize
               /\ IF allocating
                  THEN /\ Park(t, "attachDelete", [arg[t] EXCEPT !.count = Excess])
                       /\ UNCHANGED <<elements, lists, deletingList>>
                  ELSE /\ \E c \in Configs : AttachReplacing(Excess, s, c)
                       /\ Finish(t)
        <3>1. Excess \in Nat
            BY <1>1, <2>6, UsedIsNat, SizeAssumption DEF Excess, SettingTypes
        <3>2. CASE /\ Park(t, "attachDelete", [arg[t] EXCEPT !.count = Excess])
                   /\ UNCHANGED <<elements, lists, deletingList>>
            <4>1. CallOK("attachDelete", [arg[t] EXCEPT !.count = Excess])
                <5> DEFINE a == [arg[t] EXCEPT !.count = Excess]
                <5>1. a \in ArgType /\ a.buf = arg[t].buf /\ a.cfg = arg[t].cfg
                    BY <2>1, <3>1 DEF ArgType
                <5>2. \A b \in ArgType : b.buf # NULL => CallOK("attachDelete", b)
                    BY DEF CallOK, BufferCall, RequestCall, Location
                <5>3. arg[t].buf # NULL
                    BY <2>1, NullAssumption
                <5> HIDE DEF a
                <5>4. CallOK("attachDelete", a)
                    BY <5>1, <5>2, <5>3
                <5> QED BY <5>4 DEF a
            <4> QED BY <1>1, <2>2, <3>2, <4>1, ParkTypes, SameQueueTypes DEF TypeOK
        <3>3. CASE (\E c \in Configs : AttachReplacing(Excess, s, c)) /\ Finish(t)
            <4>1. QueueTypes'
                BY <1>1, <2>1, <3>1, <3>3, AttachReplacingTypes
            <4> QED BY <1>1, <2>2, <3>3, <4>1, FinishTypes DEF TypeOK
        <3> QED BY <2>6, <3>2, <3>3
    <2>7. CASE Finish(t) /\ UNCHANGED <<elements, lists, deletingList>>
        BY <1>1, <2>2, <2>7, FinishTypes, SameQueueTypes DEF TypeOK
    <2> QED BY <1>4, <2>3, <2>4, <2>5, <2>6, <2>7 DEF AttachLooksUp
<1>5. CASE AttachDeletes(t)
    <2>1. arg[t].buf \in Buffers /\ arg[t].count \in Nat
        BY <1>1, <1>5, InBufferCall DEF AttachDeletes, BufferCall, ArgType
    <2>2. QueueTypes'
        BY <1>1, <1>5, <2>1, AttachReplacingTypes DEF AttachDeletes
    <2> QED BY <1>1, <1>2, <1>5, <2>2, FinishTypes, SameSettingTypes DEF TypeOK, AttachDeletes
<1>6. CASE AttachWakes(t)
    <2>1. arg[t].buf \in Buffers
        BY <1>1, <1>6, InBufferCall DEF AttachWakes, BufferCall
    <2>2. QueueTypes'
        BY <1>1, <1>6, <2>1, AttachReleasedTypes, SameQueueTypes DEF AttachWakes
    <2> QED BY <1>1, <1>2, <1>6, <2>2, FinishTypes, SameSettingTypes DEF TypeOK, AttachWakes
<1>7. CASE AttachSleepsAgain(t)
    BY <1>1, <1>2, <1>7, SameQueueTypes, SameSettingTypes, SameCallTypes
       DEF TypeOK, AttachSleepsAgain
<1> QED BY <1>3, <1>4, <1>5, <1>6, <1>7 DEF AttachStep

-----------------------------------------------------------------------------
(* Capacity, cleaning, modes. *)

(* A waiting SetQueueSize carries sizes.                                    *)
LEMMA SizeLocations ==
    ASSUME NEW n \in Nat, NEW z \in 0..MaxSize
    PROVE  CallOK("shrinkWait", SizeArg(n, z))
BY SizeAssumption DEF CallOK, SizeArg, ArgType, BufferCall, RequestCall, Location

(* SetQueueSizeLocked keeps the types and stays within MaxSize.             *)
LEMMA SetSizeTypes ==
    ASSUME QueueTypes, CallTypes, SettingTypes, NEW t \in Thread, NEW n \in 0..MaxSize,
           SetQueueSizeTo(t, n)
    PROVE  QueueTypes' /\ CallTypes' /\ queueSize' \in 0..MaxSize
<1>1. /\ notified \subseteq Thread /\ NotifyRequest \subseteq Thread
      /\ queueSize \in 0..MaxSize /\ n \in Int /\ queueSize \in Int
    BY NotifyTypes, SizeAssumption DEF CallTypes, SettingTypes
<1>2. CASE UNCHANGED <<elements, lists, deletingList, queueSize, threads, notified>>
    BY <1>1, <1>2, SameQueueTypes, SameCallTypes
<1>3. CASE /\ queueSize' = n
           /\ notified' = IF n > queueSize THEN NotifyRequest ELSE notified
           /\ UNCHANGED <<elements, lists, deletingList, threads>>
    BY <1>1, <1>3, SameQueueTypes, SameCallTypes
<1>4. CASE /\ n < queueSize
           /\ DeleteBuffers(queueSize - n)
           /\ queueSize' = n
           /\ UNCHANGED <<threads, notified>>
    <2>1. queueSize - n \in Nat
        BY <1>1, <1>4
    <2> QED BY <1>1, <1>4, <2>1, DeleteBuffersTypes, SameCallTypes
<1>5. CASE /\ n < queueSize
           /\ Park(t, "shrinkWait", SizeArg(queueSize - n, n))
           /\ UNCHANGED <<elements, lists, deletingList, queueSize, notified>>
    <2>1. queueSize - n \in Nat
        BY <1>1, <1>5
    <2> QED BY <1>1, <1>5, <2>1, SizeLocations, ParkTypes, SameQueueTypes
<1> QED BY <1>2, <1>3, <1>4, <1>5 DEF SetQueueSizeTo

(* Every step of SetQueueSize and SetMaxQueueSize keeps TypeOK.             *)
LEMMA ResizeTypes ==
    ASSUME TypeOK, NEW t \in Thread,
           \/ \E n \in 1..MaxSize : SetQueueSize(t, n) \/ SetMaxQueueSize(t, n)
           \/ ShrinkAfterAlloc(t)
    PROVE  TypeOK'
<1>1. QueueTypes /\ SettingTypes /\ CallTypes
    BY DEF TypeOK
<1>2. ASSUME NEW n \in 1..MaxSize, SetQueueSize(t, n)
      PROVE  TypeOK'
    <2> DEFINE m == IF maxQueueSize # 0 /\ n > maxQueueSize THEN maxQueueSize ELSE n
    <2>1. m \in 0..MaxSize /\ SetQueueSizeTo(t, m)
        BY <1>1, <1>2, SizeAssumption DEF SetQueueSize, SettingTypes
    <2> HIDE DEF m
    <2>2. QueueTypes' /\ CallTypes' /\ queueSize' \in 0..MaxSize
        BY <1>1, <2>1, SetSizeTypes
    <2>3. SettingTypes'
        BY <1>1, <1>2, <2>2 DEF SettingTypes, SetQueueSize, modes, last
    <2> QED BY <2>2, <2>3 DEF TypeOK
<1>3. ASSUME NEW n \in 1..MaxSize, SetMaxQueueSize(t, n)
      PROVE  TypeOK'
    <2>1. n \in 0..MaxSize
        BY SizeAssumption
    <2>2. QueueTypes' /\ CallTypes' /\ queueSize' \in 0..MaxSize
        <3>1. CASE SetQueueSizeTo(t, n)
            BY <1>1, <2>1, <3>1, SetSizeTypes
        <3>2. CASE UNCHANGED <<elements, lists, deletingList, queueSize, threads, notified>>
            BY <1>1, <3>2, SameQueueTypes, SameCallTypes DEF SettingTypes, CallTypes
        <3> QED BY <1>3, <3>1, <3>2 DEF SetMaxQueueSize
    <2>3. SettingTypes'
        BY <1>1, <1>3, <2>1, <2>2 DEF SettingTypes, SetMaxQueueSize, modes, last
    <2> QED BY <2>2, <2>3 DEF TypeOK
<1>4. CASE ShrinkAfterAlloc(t)
    <2>1. arg[t].count \in Nat /\ arg[t].size \in 0..MaxSize
        BY <1>1 DEF CallTypes, ArgType
    <2>2. QueueTypes' /\ notified' \subseteq Thread
        BY <1>1, <1>4, <2>1, DeleteBuffersTypes, NotifyTypes DEF ShrinkAfterAlloc, CallTypes
    <2>3. CallTypes'
        BY <1>1, <1>4, <2>2, FinishTypes DEF ShrinkAfterAlloc
    <2>4. SettingTypes'
        BY <1>1, <1>4, <2>1 DEF SettingTypes, ShrinkAfterAlloc, modes, last
    <2> QED BY <2>2, <2>3, <2>4 DEF TypeOK
<1> QED BY <1>2, <1>3, <1>4

(* A selection from a list of buffers is a list of buffers.                 *)
LEMMA PickTypes ==
    ASSUME NEW l \in Seq(Buffers), NEW K, NEW f \in Picks(l, K)
    PROVE  Pick(l, f) \in Seq(Buffers)
<1> DEFINE P == {i \in DOMAIN l : l[i] \in K}
           k == Cardinality(P)
<1>1. DOMAIN l = 1..Len(l) /\ Len(l) \in Nat /\ \A i \in 1..Len(l) : l[i] \in Buffers
    BY LenProperties, ElementOfSeq
<1>2. k \in Nat
    <2>1. P \in SUBSET (1..Len(l)) /\ IsFiniteSet(1..Len(l))
        BY <1>1, FS_Interval
    <2> QED BY <2>1, FS_Subset, FS_CardinalityType
<1>3. f \in [1..k -> P]
    BY DEF Picks
<1>4. Pick(l, f) \in [1..k -> Buffers]
    BY <1>1, <1>3 DEF Pick
<1> QED BY <1>2, <1>4, SeqDef

(* ClearLocked keeps the types.                                             *)
LEMMA ClearTypes ==
    ASSUME QueueTypes, Clear
    PROVE  QueueTypes'
BY EmptySeq, EraseTypes DEF Clear

(* CleanReleasedBuffersLocked keeps the types.                              *)
LEMMA CleanReleasedTypes ==
    ASSUME QueueTypes, CleanReleased
    PROVE  QueueTypes'
<1>1. freeList \in Seq(Buffers) /\ dirtyList \in Seq(Buffers)
    BY DEF QueueTypes
<1>2. freeList' \in Seq(Buffers)
    BY <1>1, PickTypes DEF CleanReleased
<1>3. ToSet(freeList) \ {lastFlushed, locked} \in SUBSET Buffers
    BY <1>1, LenProperties, ElementOfSeq DEF ToSet
<1> QED BY <1>1, <1>2, <1>3, EraseTypes DEF CleanReleased

(* Every step of the cleaning calls keeps TypeOK.                           *)
LEMMA CleanTypes ==
    ASSUME TypeOK, NEW t \in Thread,
           \/ CleanCache(t)
           \/ ClearAfterAlloc(t)
           \/ CleanReleasedBuffers(t)
           \/ CleanReleasedAfterAlloc(t)
           \/ \E S \in SUBSET Buffers : CleanProducerBySeqNum(t, S)
    PROVE  TypeOK'
<1>1. QueueTypes /\ SettingTypes /\ CallTypes
    BY DEF TypeOK
<1>2. notified \subseteq Thread /\ NotifyRequest \subseteq Thread
    BY <1>1, NotifyTypes DEF CallTypes
<1>3. CASE CleanCache(t)
    <2>1. CASE /\ Park(t, "clearWait", NoArg)
               /\ UNCHANGED <<elements, lists, deletingList, notified>>
        BY <1>1, <1>2, <1>3, <2>1, NoArgLocations, ParkTypes, SameQueueTypes, SameSettingTypes
           DEF TypeOK, CleanCache
    <2>2. CASE Clear /\ UNCHANGED threads
        <3>1. CallTypes'
            BY <1>1, <1>2, <2>2, SameCallTypes DEF Clear
        <3> QED BY <1>1, <1>3, <2>2, <3>1, ClearTypes, SameSettingTypes DEF TypeOK, CleanCache
    <2> QED BY <1>3, <2>1, <2>2 DEF CleanCache
<1>4. CASE ClearAfterAlloc(t)
    <2>1. CallTypes'
        BY <1>1, <1>2, <1>4, FinishTypes DEF ClearAfterAlloc, Clear
    <2> QED BY <1>1, <1>4, <2>1, ClearTypes, SameSettingTypes DEF TypeOK, ClearAfterAlloc
<1>5. CASE CleanReleasedBuffers(t)
    <2>1. CASE /\ Park(t, "cleanWait", NoArg)
               /\ UNCHANGED <<elements, lists, deletingList, notified>>
        BY <1>1, <1>2, <1>5, <2>1, NoArgLocations, ParkTypes, SameQueueTypes, SameSettingTypes
           DEF TypeOK, CleanReleasedBuffers
    <2>2. CASE CleanReleased /\ UNCHANGED threads
        <3>1. CallTypes'
            BY <1>1, <1>2, <2>2, SameCallTypes DEF CleanReleased
        <3> QED BY <1>1, <1>5, <2>2, <3>1, CleanReleasedTypes, SameSettingTypes
                DEF TypeOK, CleanReleasedBuffers
    <2> QED BY <1>5, <2>1, <2>2 DEF CleanReleasedBuffers
<1>6. CASE CleanReleasedAfterAlloc(t)
    <2>1. CallTypes'
        BY <1>1, <1>2, <1>6, FinishTypes DEF CleanReleasedAfterAlloc, CleanReleased
    <2> QED BY <1>1, <1>6, <2>1, CleanReleasedTypes, SameSettingTypes
            DEF TypeOK, CleanReleasedAfterAlloc
<1>7. ASSUME NEW S \in SUBSET Buffers, CleanProducerBySeqNum(t, S)
      PROVE  TypeOK'
    <2>1. freeList' \in Seq(Buffers) /\ dirtyList' \in Seq(Buffers)
        BY <1>1, <1>7, PickTypes DEF CleanProducerBySeqNum, QueueTypes
    <2>2. QueueTypes'
        BY <1>1, <1>7, <2>1, EraseTypes DEF CleanProducerBySeqNum
    <2> QED BY <1>1, <1>2, <1>7, <2>2, SameCallTypes, SameSettingTypes
            DEF TypeOK, CleanProducerBySeqNum
<1> QED BY <1>3, <1>4, <1>5, <1>6, <1>7

(* bufferQueueSize_ - detachReserveSlotNum_ is a natural number, wrapped or *)
(* not.                                                                     *)
LEMMA SlotsIsNat ==
    ASSUME SettingTypes
    PROVE  Slots \in Nat
BY SizeAssumption DEF Slots, SettingTypes

(* Both steps of PreAllocBuffers keep TypeOK.                               *)
LEMMA PreAllocTypes ==
    ASSUME TypeOK, NEW t \in Thread,
           \/ \E n \in 1..MaxSize, c \in Configs : PreAllocBuffers(t, n, c)
           \/ PreAllocated(t)
    PROVE  TypeOK'
<1>1. QueueTypes /\ SettingTypes /\ CallTypes
    BY DEF TypeOK
<1>2. notified \subseteq Thread
    BY <1>1 DEF CallTypes
<1>3. ASSUME NEW n \in 1..MaxSize, NEW c \in Configs, PreAllocBuffers(t, n, c)
      PROVE  TypeOK'
    <2> DEFINE room == (Slots - Used) % WordSize
               k == IF n > room THEN room ELSE n
    <2>1. k \in Nat
        BY <1>1, SlotsIsNat, UsedIsNat, SizeAssumption
    <2>2. Park(t, "preAlloc", ConfigArg(c, FALSE, k))
        BY <1>3 DEF PreAllocBuffers
    <2>3. CallOK("preAlloc", ConfigArg(c, FALSE, k))
        <3> HIDE DEF k
        <3> QED BY <2>1, NullAssumption, SizeAssumption
                DEF CallOK, ConfigArg, ArgType, Location, BufferCall, RequestCall
    <2>4. CallTypes'
        BY <1>1, <1>2, <1>3, <2>2, <2>3, ParkTypes DEF PreAllocBuffers
    <2> QED BY <1>1, <1>3, <2>4, SameQueueTypes, SameSettingTypes DEF TypeOK, PreAllocBuffers
<1>4. CASE PreAllocated(t)
    <2>1. PICK n \in 0..arg[t].count : \E f \in Increasing(n, Unused) :
              LET new == {f[i] : i \in 1..n}
              IN  /\ state' = [s \in Buffers |-> IF s \in new THEN "RELEASED" ELSE state[s]]
                  /\ config' = [s \in Buffers |-> IF s \in new THEN arg[t].cfg ELSE config[s]]
                  /\ isDeleting' = isDeleting \ new
                  /\ isPreAlloc' = isPreAlloc \union new
                  /\ freeList' = freeList \o f
        BY <1>4 DEF PreAllocated
    <2>2. PICK f \in Increasing(n, Unused) :
              LET new == {f[i] : i \in 1..n}
              IN  /\ state' = [s \in Buffers |-> IF s \in new THEN "RELEASED" ELSE state[s]]
                  /\ config' = [s \in Buffers |-> IF s \in new THEN arg[t].cfg ELSE config[s]]
                  /\ isDeleting' = isDeleting \ new
                  /\ isPreAlloc' = isPreAlloc \union new
                  /\ freeList' = freeList \o f
        BY <2>1
    <2>3. arg[t].cfg \in Configs \union {NULL} /\ n \in Nat
        BY <1>1 DEF CallTypes, ArgType
    <2>4. f \in [1..n -> Buffers]
        BY DEF Increasing, Unused
    <2>5. f \in Seq(Buffers)
        BY <2>3, <2>4, SeqDef
    <2>6. freeList' \in Seq(Buffers)
        BY <1>1, <2>2, <2>5, ConcatProperties DEF QueueTypes
    <2>7. {f[i] : i \in 1..n} \subseteq Buffers
        BY <2>4
    <2>8. QueueTypes'
        BY <1>1, <1>4, <2>2, <2>3, <2>6, <2>7 DEF QueueTypes, PreAllocated, BufferState
    <2> QED BY <1>1, <1>2, <1>4, <2>8, FinishTypes, SameSettingTypes DEF TypeOK, PreAllocated
<1> QED BY <1>3, <1>4

(* Changes of status, listener and modes keep TypeOK.                       *)
LEMMA ModeTypes ==
    ASSUME TypeOK, NEW t \in Thread,
           \/ SetStatus(t)
           \/ SetConsumerListener(t)
           \/ SetRequestBufferNoblockMode(t)
           \/ SetIsPriorityAlloc(t)
    PROVE  TypeOK'
<1>1. QueueTypes /\ SettingTypes /\ CallTypes
    BY DEF TypeOK
<1>2. /\ UNCHANGED <<elements, lists, deletingList, sizes, allocating, calls, last, threads>>
      /\ valid' \in BOOLEAN /\ hasListener' \in BOOLEAN
      /\ noBlock' \in BOOLEAN /\ priorityAlloc' \in BOOLEAN
    BY <1>1 DEF SetStatus, SetConsumerListener, SetRequestBufferNoblockMode, SetIsPriorityAlloc,
                SettingTypes
<1>3. notified' \subseteq Thread
    BY <1>1, NotifyTypes DEF CallTypes, SetStatus, SetConsumerListener,
                             SetRequestBufferNoblockMode, SetIsPriorityAlloc
<1>4. SettingTypes'
    BY <1>1, <1>2 DEF SettingTypes, sizes, last
<1> QED BY <1>1, <1>2, <1>3, <1>4, SameQueueTypes, SameCallTypes DEF TypeOK

-----------------------------------------------------------------------------
(* Every step of every call keeps the types.                                *)
LEMMA TypeStep ==
    ASSUME TypeOK, [Next]_vars
    PROVE  TypeOK'
<1>1. CASE UNCHANGED vars
    <2>1. UNCHANGED <<elements, lists, deletingList, sizes, allocating, modes, last, threads, notified>>
        BY <1>1 DEF vars
    <2>2. notified' \subseteq Thread
        BY <2>1 DEF TypeOK, CallTypes
    <2> QED BY <2>1, <2>2, SameQueueTypes, SameSettingTypes, SameCallTypes DEF TypeOK
<1>2. ASSUME NEW t \in Thread, ProducerCall(t)
      PROVE  TypeOK'
    BY <1>2, RequestTypes, FlushCallTypes, DetachTypes, AttachTypes, PreAllocTypes
       DEF ProducerCall
<1>3. ASSUME NEW t \in Thread, ConsumerCall(t)
      PROVE  TypeOK'
    BY <1>3, ConsumerTypes, DetachTypes DEF ConsumerCall
<1>4. ASSUME NEW t \in Thread, ControlCall(t)
      PROVE  TypeOK'
    BY <1>4, ConsumerTypes, ResizeTypes, CleanTypes, ModeTypes DEF ControlCall
<1>5. ASSUME NEW t \in Thread, Step(t)
      PROVE  TypeOK'
    <2>1. CASE RequestStep(t) \/ FlushStep(t) \/ AttachStep(t)
        BY <2>1, RequestTypes, FlushTypes, AttachTypes
    <2>2. CASE ReleaseDeletes(t) \/ ReleaseAsks(t) \/ ShrinkAfterAlloc(t) \/ ClearAfterAlloc(t)
        BY <2>2, ConsumerTypes, ResizeTypes, CleanTypes
    <2>3. CASE CleanReleasedAfterAlloc(t) \/ PreAllocated(t)
        BY <2>3, CleanTypes, PreAllocTypes
    <2>4. CASE DetachDeletes(t)
        <3>1. PICK s \in Buffers : TRUE
            BY <2>4, InBufferCall DEF TypeOK, DetachDeletes, BufferCall
        <3> QED BY <2>4, <3>1, DetachTypes
    <2> QED BY <1>5, <2>1, <2>2, <2>3, <2>4 DEF Step, WaiterStep
<1> QED BY <1>1, <1>2, <1>3, <1>4, <1>5 DEF Next

(* A new queue has the types.                                               *)
LEMMA TypeInit ==
    ASSUME Init
    PROVE  TypeOK
<1>1. QueueTypes
    BY EmptySeq DEF Init, QueueTypes
<1>2. SettingTypes
    <2>1. InitSize \in 0..MaxSize /\ 0 \in 0..MaxSize /\ 0 \in 0..(WordSize - 1)
        BY SizeAssumption
    <2>2. queueSize \in 0..MaxSize /\ maxQueueSize \in 0..MaxSize /\ reserve \in 0..(WordSize - 1)
        BY <2>1 DEF Init
    <2>3. /\ allocating \in BOOLEAN /\ valid \in BOOLEAN /\ hasListener \in BOOLEAN
          /\ noBlock \in BOOLEAN /\ priorityAlloc \in BOOLEAN
        BY Zenon DEF Init
    <2> QED BY <2>2, <2>3, Zenon DEF Init, SettingTypes
<1>3. "idle" \in Location /\ NoArg \in ArgType
    BY NoArgOK DEF CallOK
<1>4. CallTypes
    BY <1>3, NoArgOK DEF Init, CallTypes
<1> QED BY <1>1, <1>2, <1>4 DEF TypeOK

(* Every variable keeps its type in every behaviour: in particular the      *)
(* reservation counter never wraps below zero and a call never loses the    *)
(* buffer it was made for (FlushBuffer, AttachBuffer, ...).                 *)
THEOREM TypeCorrect == Spec => []TypeOK
<1>1. Init => TypeOK
    BY TypeInit
<1>2. TypeOK /\ [Next]_vars => TypeOK'
    BY TypeStep
<1> QED BY <1>1, <1>2, PTL DEF Spec

-----------------------------------------------------------------------------
(* The lists of the buffer queue and the states of its buffers agree, in    *)
(* every behaviour in which the calls naming one buffer do not overlap.     *)
(*                                                                         *)
(* ListsMatchStates is not inductive alone: a call that waits for an        *)
(* allocation, or stands between two lock scopes, acts later on what it     *)
(* checked before.  ChecksStillHold says that the check still holds, and    *)
(* OneCallPerBuffer why.  The three together with TypeOK are inductive.     *)

IInv == TypeOK /\ ListsMatchStates /\ ChecksStillHold /\ OneCallPerBuffer

In(st)  == {s \in Buffers : state[s] = st}
FreeSet == ToSet(freeList)

(* The part of ListsMatchStates that does not look at the threads.          *)
QueueOK ==
    /\ Lists(freeList, FreeSet)
    /\ Lists(dirtyList, In("FLUSHED"))
    /\ FreeSet \subseteq In("RELEASED")

(* The buffers no other call is about to act on.                            *)
Mine(t) == {s \in Buffers : \A u \in Thread \ {t} : arg[u].buf = s => pc[u] = "attachWait"}

(* How a step of thread t may change a buffer: it may erase any, but gives  *)
(* another state only to its own, to free ones and to frames, or attaches a *)
(* released one; and a released buffer is in the free list or t is going to *)
(* delete it, unless another thread was.                                    *)
Change(t) ==
    \A s \in Buffers :
        /\ s \in FreeSet' => s \in FreeSet \union Mine(t)
        /\ \/ state'[s] \in {state[s], "NONE"}
           \/ s \in Mine(t) \union FreeSet
           \/ state[s] = "FLUSHED"
           \/ state[s] = "RELEASED" /\ state'[s] = "ATTACHED"
        /\ state'[s] = "RELEASED" =>
              \/ s \in FreeSet'
              \/ state[s] = "RELEASED" /\ s \notin FreeSet
              \/ pc'[t] = "releaseDelete" /\ arg'[t].buf = s

(* A list of buffers without repetition lists exactly its elements.         *)
LEMMA InSeqToSet ==
    ASSUME NEW l \in Seq(Buffers)
    PROVE  ToSet(l) \subseteq Buffers /\ (IsInjective(l) <=> Lists(l, ToSet(l)))
<1>1. DOMAIN l = 1..Len(l) /\ Len(l) \in Nat /\ \A i \in 1..Len(l) : l[i] \in Buffers
    BY LenProperties, ElementOfSeq
<1>2. l \in [1..Len(l) -> ToSet(l)]
    <2>1. l \in [1..Len(l) -> Buffers]
        BY LenProperties
    <2> QED BY <1>1, <2>1 DEF ToSet
<1>3. l \in Seq(ToSet(l))
    BY <1>1, <1>2, SeqDef
<1> QED BY <1>1, <1>3 DEF ToSet, Lists

(* ListsMatchStates, as the part about the queue and the part about         *)
(* threads.                                                                 *)
LEMMA ListsMatchMeans ==
    ASSUME QueueTypes
    PROVE  ListsMatchStates <=> QueueOK /\ In("RELEASED") \subseteq FreeSet \union BeingDeleted
<1>1. /\ freeList \in Seq(Buffers) /\ dirtyList \in Seq(Buffers)
      /\ ToSet(freeList) \subseteq Buffers /\ ToSet(dirtyList) \subseteq Buffers
    BY InSeqToSet DEF QueueTypes
<1>2. /\ IsInjective(freeList) <=> Lists(freeList, FreeSet)
      /\ IsInjective(dirtyList) <=> Lists(dirtyList, ToSet(dirtyList))
    BY <1>1, InSeqToSet DEF FreeSet
<1>3. Lists(dirtyList, In("FLUSHED")) => ToSet(dirtyList) = In("FLUSHED")
    BY DEF Lists
<1>4. CASE ListsMatchStates
    <2>1. ToSet(dirtyList) = In("FLUSHED")
        BY <1>1, <1>4 DEF ListsMatchStates, In
    <2> QED BY <1>1, <1>2, <1>4, <2>1 DEF ListsMatchStates, QueueOK, In, FreeSet
<1>5. CASE QueueOK /\ In("RELEASED") \subseteq FreeSet \union BeingDeleted
    <2>1. ToSet(dirtyList) = In("FLUSHED")
        BY <1>3, <1>5 DEF QueueOK
    <2> QED BY <1>1, <1>2, <1>5, <2>1 DEF ListsMatchStates, QueueOK, In, FreeSet
<1> QED BY <1>4, <1>5

-----------------------------------------------------------------------------
(* The argument common to all actions. *)

ChecksOf(t) ==
    LET s == arg[t].buf
    IN  /\ pc[t] \in {"flushCacheOk", "flushListenerOk", "flushCancel", "flushDelete"}
             => state[s] \in Owned \union {"NONE"}
        /\ pc[t] = "releaseDelete"
             => state[s] \in {"RELEASED", "ATTACHED", "NONE"} /\ s \notin ToSet(freeList)
        /\ pc[t] = "detachDelete" => state[s] \in {"ACQUIRED", "NONE"}
        /\ pc[t] = "attachDelete" => state[s] = "NONE"

OnlyMoves(t) == \A u \in Thread \ {t} : pc'[u] = pc[u] /\ arg'[u] = arg[u]

(* A step of t leaves valid what another thread has checked.                *)
LEMMA OthersChecks ==
    ASSUME TypeOK, QueueOK, ChecksStillHold, NEW t \in Thread, NEW u \in Thread \ {t},
           Change(t), pc'[u] = pc[u], arg'[u] = arg[u]
    PROVE  ChecksOf(u)'
<1> DEFINE s == arg[u].buf
<1>1. CASE pc[u] \notin {"flushCacheOk", "flushListenerOk", "flushCancel", "flushDelete",
                         "releaseDelete", "detachDelete", "attachDelete"}
    BY <1>1 DEF ChecksOf
<1>2. CASE pc[u] \in {"flushCacheOk", "flushListenerOk", "flushCancel", "flushDelete",
                      "releaseDelete", "detachDelete", "attachDelete"}
    <2>1. s \in Buffers /\ pc[u] # "attachWait"
        BY <1>2, InBufferCall DEF TypeOK, BufferCall
    <2>2. s \notin Mine(t)
        BY <2>1 DEF Mine
    <2>3. /\ s \in FreeSet' => s \in FreeSet
          /\ \/ state'[s] \in {state[s], "NONE"}
             \/ s \in FreeSet
             \/ state[s] = "FLUSHED"
             \/ state[s] = "RELEASED" /\ state'[s] = "ATTACHED"
        BY <2>1, <2>2 DEF Change
    <2>4. s \in FreeSet => state[s] = "RELEASED"
        BY DEF QueueOK, In
    <2>5. CASE pc[u] \in {"flushCacheOk", "flushListenerOk", "flushCancel", "flushDelete"}
        BY <2>3, <2>4, <2>5 DEF ChecksOf, ChecksStillHold, Owned
    <2>6. CASE pc[u] = "releaseDelete"
        BY <2>3, <2>4, <2>6 DEF ChecksOf, ChecksStillHold, FreeSet
    <2>7. CASE pc[u] \in {"detachDelete", "attachDelete"}
        BY <2>3, <2>4, <2>7 DEF ChecksOf, ChecksStillHold
    <2> QED BY <1>2, <2>5, <2>6, <2>7
<1> QED BY <1>1, <1>2

(* A step of t that changes the queue only as Change allows, keeps the      *)
(* lists right and leaves its own check valid keeps the whole invariant.    *)
LEMMA StepPreserves ==
    ASSUME IInv, TypeOK', NEW t \in Thread,
           QueueOK', Change(t), OnlyMoves(t), ChecksOf(t)',
           arg'[t].buf \in Mine(t) \union {NULL},
           pc[t] = "releaseDelete" => state'[arg[t].buf] # "RELEASED"
    PROVE  IInv'
<1>1. QueueOK /\ In("RELEASED") \subseteq FreeSet \union BeingDeleted
    BY ListsMatchMeans DEF IInv, TypeOK
<1>2. ChecksStillHold'
    <2>1. \A u \in Thread : ChecksOf(u)'
        BY <1>1, OthersChecks DEF IInv, OnlyMoves
    <2> QED BY <2>1 DEF ChecksStillHold, ChecksOf
<1>3. OneCallPerBuffer'
    <2> SUFFICES ASSUME NEW u \in Thread, NEW v \in Thread,
                        u # v, arg'[u].buf = arg'[v].buf, arg'[u].buf # NULL
                 PROVE  "attachWait" \in {pc'[u], pc'[v]}
        BY DEF OneCallPerBuffer
    <2>1. CASE u # t /\ v # t
        BY <2>1 DEF OnlyMoves, OneCallPerBuffer, IInv
    <2>2. CASE u = t
        BY <2>2 DEF OnlyMoves, Mine
    <2>3. CASE v = t
        BY <2>3 DEF OnlyMoves, Mine
    <2> QED BY <2>1, <2>2, <2>3
<1>4. In("RELEASED")' \subseteq (FreeSet \union BeingDeleted)'
    <2> SUFFICES ASSUME NEW s \in Buffers, state'[s] = "RELEASED", s \notin FreeSet'
                 PROVE  s \in BeingDeleted'
        BY DEF In
    <2>1. CASE pc'[t] = "releaseDelete" /\ arg'[t].buf = s
        BY <2>1 DEF BeingDeleted
    <2>2. CASE state[s] = "RELEASED" /\ s \notin FreeSet
        <3>1. PICK u \in Thread : pc[u] = "releaseDelete" /\ arg[u].buf = s
            BY <1>1, <2>2 DEF In, BeingDeleted
        <3>2. u # t
            BY <3>1
        <3> QED BY <3>1, <3>2 DEF OnlyMoves, BeingDeleted
    <2> QED BY <2>1, <2>2 DEF Change
<1>5. ListsMatchStates'
    <2>1. QueueTypes'
        BY DEF TypeOK
    <2>2. /\ freeList' \in Seq(Buffers) /\ dirtyList' \in Seq(Buffers)
          /\ ToSet(freeList') \subseteq Buffers /\ ToSet(dirtyList') \subseteq Buffers
        BY <2>1, InSeqToSet DEF QueueTypes
    <2>3. /\ IsInjective(freeList') <=> Lists(freeList', FreeSet')
          /\ IsInjective(dirtyList') <=> Lists(dirtyList', ToSet(dirtyList'))
        BY <2>2, InSeqToSet DEF FreeSet
    <2>4. ToSet(dirtyList') = In("FLUSHED")'
        BY DEF QueueOK, Lists
    <2> QED BY <1>4, <2>2, <2>3, <2>4 DEF ListsMatchStates, QueueOK, In, FreeSet
<1> QED BY <1>2, <1>3, <1>5 DEF IInv

-----------------------------------------------------------------------------
(* What the helpers that change the queue do to its lists. *)

(* A list of X has the elements X.                                          *)
LEMMA ListOf ==
    ASSUME NEW l, NEW X, Lists(l, X)
    PROVE  ToSet(l) = X /\ Lists(l, ToSet(l))
BY DEF Lists

(* A step that leaves elements and lists alone.                             *)
LEMMA SameQueue ==
    ASSUME QueueOK, NEW t, UNCHANGED <<elements, lists>>
    PROVE  QueueOK' /\ Change(t)
<1>1. UNCHANGED <<state, freeList, dirtyList>>
    BY DEF elements, lists
<1>2. QueueOK'
    BY <1>1 DEF QueueOK, FreeSet, In
<1>3. Change(t)
    BY <1>1 DEF Change, FreeSet
<1> QED BY <1>2, <1>3

(* DeleteBufferInCache of a buffer that is no frame.                        *)
LEMMA DeleteQueue ==
    ASSUME QueueTypes, QueueOK, NEW t, NEW s \in Buffers, state[s] # "FLUSHED",
           DeleteBufferInCache(s)
    PROVE  QueueOK' /\ Change(t) /\ state'[s] = "NONE"
<1>1. state' = [u \in Buffers |-> IF u = s THEN "NONE" ELSE state[u]] /\ dirtyList' = dirtyList
    BY DEF DeleteBufferInCache, Delete, Erase
<1>2. Lists(freeList', FreeSet \ {s})
    <2>1. CASE s \in Cached
        BY <2>1, ListsRemoveFirst DEF QueueOK, DeleteBufferInCache
    <2>2. CASE s \notin Cached
        <3>1. s \notin FreeSet
            BY <2>2 DEF QueueOK, In, Cached
        <3>2. FreeSet \ {s} = FreeSet /\ freeList' = freeList
            BY <2>2, <3>1 DEF DeleteBufferInCache
        <3> QED BY <3>2 DEF QueueOK
    <2> QED BY <2>1, <2>2
<1>3. FreeSet' = FreeSet \ {s} /\ Lists(freeList', FreeSet')
    BY <1>2, ListOf DEF FreeSet
<1>4. In("FLUSHED")' = In("FLUSHED") /\ FreeSet' \subseteq In("RELEASED")'
    BY <1>1, <1>3 DEF In, QueueOK
<1>5. QueueOK'
    BY <1>1, <1>3, <1>4 DEF QueueOK
<1>6. Change(t)
    BY <1>1, <1>3 DEF Change
<1> QED BY <1>1, <1>5, <1>6

(* Giving back a buffer that is in no list.                                 *)
LEMMA FreeQueue ==
    ASSUME QueueTypes, QueueOK, NEW t, NEW s \in Mine(t),
           state[s] \notin {"RELEASED", "FLUSHED"}, Free(s)
    PROVE  QueueOK' /\ Change(t)
<1>1. s \in Buffers /\ s \notin FreeSet
    BY DEF Mine, QueueOK, In
<1>2. /\ state' = [state EXCEPT ![s] = "RELEASED"]
      /\ freeList' = Append(freeList, s) /\ dirtyList' = dirtyList
    BY DEF Free, SetState
<1>3. FreeSet' = FreeSet \union {s} /\ Lists(freeList', FreeSet')
    BY <1>1, <1>2, ListsAppend, ListOf DEF FreeSet, QueueOK
<1>4. In("FLUSHED")' = In("FLUSHED") /\ FreeSet' \subseteq In("RELEASED")'
    BY <1>1, <1>2, <1>3 DEF In, QueueOK, QueueTypes
<1>5. QueueOK'
    BY <1>2, <1>3, <1>4 DEF QueueOK
<1>6. Change(t)
    BY <1>1, <1>2, <1>3 DEF Change, QueueTypes
<1> QED BY <1>5, <1>6

(* Enqueueing a buffer that is in no list.                                  *)
LEMMA EnqueueQueue ==
    ASSUME QueueTypes, QueueOK, NEW t, NEW s \in Mine(t),
           state[s] \notin {"RELEASED", "FLUSHED"},
           state' = [state EXCEPT ![s] = "FLUSHED"], dirtyList' = Append(dirtyList, s),
           UNCHANGED freeList
    PROVE  QueueOK' /\ Change(t)
<1>1. s \in Buffers /\ s \notin FreeSet /\ s \notin In("FLUSHED")
    BY DEF Mine, QueueOK, In
<1>2. FreeSet' = FreeSet
    BY DEF FreeSet
<1>3. In("FLUSHED")' = In("FLUSHED") \union {s} /\ FreeSet' \subseteq In("RELEASED")'
    BY <1>1, <1>2 DEF In, QueueOK, QueueTypes
<1>4. Lists(dirtyList', In("FLUSHED")')
    BY <1>1, <1>3, ListsAppend DEF QueueOK
<1>5. QueueOK'
    BY <1>2, <1>3, <1>4 DEF QueueOK
<1>6. Change(t)
    BY <1>1, <1>2 DEF Change, QueueTypes
<1> QED BY <1>5, <1>6

(* A buffer that is in neither list gets a state that keeps it out of both. *)
LEMMA PlaceQueue ==
    ASSUME QueueTypes, QueueOK, NEW t, NEW s \in Mine(t),
           state[s] \notin {"RELEASED", "FLUSHED"}, NEW st, st \notin {"RELEASED", "FLUSHED"},
           state' = [state EXCEPT ![s] = st], UNCHANGED lists
    PROVE  QueueOK' /\ Change(t)
<1>1. s \in Buffers /\ s \notin FreeSet /\ UNCHANGED <<freeList, dirtyList>>
    BY DEF Mine, QueueOK, In, lists
<1>2. FreeSet' = FreeSet
    BY <1>1 DEF FreeSet
<1>3. In("FLUSHED")' = In("FLUSHED") /\ FreeSet' \subseteq In("RELEASED")'
    BY <1>1, <1>2 DEF In, QueueOK, QueueTypes
<1>4. QueueOK'
    BY <1>1, <1>2, <1>3 DEF QueueOK
<1>5. Change(t)
    BY <1>1, <1>2 DEF Change, QueueTypes
<1> QED BY <1>4, <1>5

(* The oldest frame leaves dirtyList_ for another state.                    *)
LEMMA DequeueQueue ==
    ASSUME QueueTypes, QueueOK, NEW t, dirtyList # <<>>,
           dirtyList' = Tail(dirtyList), UNCHANGED freeList,
           NEW st, st \notin {"RELEASED", "FLUSHED"},
           state' = [state EXCEPT ![Head(dirtyList)] = st]
    PROVE  QueueOK' /\ Change(t)
<1> DEFINE s == Head(dirtyList)
<1>1. s \in In("FLUSHED") /\ Lists(dirtyList', In("FLUSHED") \ {s})
    BY ListsTail DEF QueueOK
<1>2. s \in Buffers /\ state[s] = "FLUSHED" /\ s \notin FreeSet /\ FreeSet' = FreeSet
    BY <1>1 DEF In, QueueOK, FreeSet
<1> HIDE DEF s
<1>3. state' = [state EXCEPT ![s] = st]
    BY DEF s
<1>4. In("FLUSHED")' = In("FLUSHED") \ {s} /\ FreeSet' \subseteq In("RELEASED")'
    BY <1>2, <1>3 DEF In, QueueOK, QueueTypes
<1>5. QueueOK'
    BY <1>1, <1>2, <1>4 DEF QueueOK, FreeSet
<1>6. Change(t)
    BY <1>2, <1>3 DEF Change, QueueTypes
<1> QED BY <1>5, <1>6

(* The list ReleaseBuffer hands buffers out of names every buffer that is   *)
(* free by then.                                                            *)
LEMMA ListedOnce ==
    ASSUME QueueTypes, QueueOK
    PROVE  /\ Lists(freeList, (FreeSet \union {}) \ {})
           /\ \A s \in Buffers : s \notin FreeSet => Lists(Append(freeList, s), (FreeSet \union {s}) \ {})
           /\ \A s \in Buffers : Lists(RemoveFirst(freeList, s), (FreeSet \union {}) \ {s})
<1>1. /\ (FreeSet \union {}) \ {} = FreeSet
      /\ \A s \in Buffers : (FreeSet \union {s}) \ {} = FreeSet \union {s}
      /\ \A s \in Buffers : (FreeSet \union {}) \ {s} = FreeSet \ {s}
    OBVIOUS
<1> QED BY <1>1, ListsAppend, ListsRemoveFirst DEF QueueOK

(* The buffers G go from those that are free by then to the listener, and   *)
(* the others stay free.                                                    *)
Lends(R, D, G) ==
    /\ Lent(R, D, G)
    /\ G \subseteq (FreeSet \union R) \ D
    /\ Lists(freeList', ((FreeSet \union R) \ D) \ G)
    /\ G # {} => deletingList' = {}

(* Asked for buffers of such a list, the queue lends some of them.          *)
LEMMA SomeAreLent ==
    ASSUME QueueTypes, QueueOK, NEW R \in SUBSET Buffers, NEW D,
           NEW F, Lists(F, (FreeSet \union R) \ D), NEW C, HandsOver(R, D, F, C)
    PROVE  \E G : Lends(R, D, G) /\ \A u \in G : config[u] \in C
<1> DEFINE X == (FreeSet \union R) \ D
<1>1. X \subseteq Buffers
    BY DEF QueueOK, In
<1>2. F \in Seq(Buffers) /\ IsInjective(F) /\ ToSet(F) = X
    <2>1. F \in Seq(X) /\ IsInjective(F) /\ ToSet(F) = X
        BY DEF Lists
    <2> HIDE DEF X
    <2> QED BY <1>1, <2>1, SeqMonotonic
<1>3. PICK G \in SUBSET ToSet(F) :
          /\ Lent(R, D, G)
          /\ \A u \in G : config[u] \in C
          /\ G # {} => deletingList' = {}
          /\ IsInjective(F) => Lists(freeList', ToSet(F) \ G)
    BY <1>2, HandsOverLends
<1> QED BY <1>2, <1>3 DEF Lends

(* Lending free buffers takes them out of the free list, and no other.      *)
LEMMA LendsQueue ==
    ASSUME QueueTypes, QueueOK, NEW t, NEW R \in SUBSET Mine(t), NEW D \in SUBSET Buffers,
           NEW G, Lends(R, D, G),
           \A u \in R : state[u] \notin {"RELEASED", "FLUSHED"},
           \A u \in D : state[u] # "FLUSHED"
    PROVE  QueueOK' /\ Change(t) /\ \A u \in D : state'[u] = "NONE"
<1> DEFINE X == (FreeSet \union R) \ D
<1>1. R \subseteq Buffers /\ X \subseteq Buffers /\ G \subseteq X
    BY DEF Mine, QueueOK, In, Lends
<1>2. /\ state' = [u \in Buffers |-> IF u \in G THEN "REQUESTED"
                                     ELSE IF u \in D THEN "NONE"
                                     ELSE IF u \in R THEN "RELEASED" ELSE state[u]]
      /\ dirtyList' = dirtyList
    BY DEF Lent, Lends
<1>3. FreeSet' = X \ G /\ Lists(freeList', FreeSet')
    BY ListOf DEF FreeSet, Lends
<1>4. \A u \in FreeSet : state[u] = "RELEASED"
    BY DEF QueueOK, In
<1>5. In("FLUSHED")' = In("FLUSHED") /\ FreeSet' \subseteq In("RELEASED")'
    <2>1. In("FLUSHED")' = In("FLUSHED")
        BY <1>1, <1>2, <1>4 DEF In
    <2>2. \A u \in X \ G : u \in Buffers /\ state'[u] = "RELEASED"
        BY <1>1, <1>2, <1>4
    <2> QED BY <1>3, <2>1, <2>2 DEF In
<1>6. QueueOK'
    BY <1>2, <1>3, <1>5 DEF QueueOK
<1>7. Change(t)
    <2> SUFFICES ASSUME NEW s \in Buffers
                 PROVE  /\ s \in FreeSet' => s \in FreeSet \union Mine(t)
                        /\ state'[s] \in {state[s], "NONE"} \/ s \in Mine(t) \union FreeSet
                        /\ state'[s] = "RELEASED" =>
                              s \in FreeSet' \/ (state[s] = "RELEASED" /\ s \notin FreeSet)
        BY DEF Change
    <2>1. CASE s \in G
        BY <1>1, <1>2, <1>3, <2>1
    <2>2. CASE s \notin G
        BY <1>1, <1>2, <1>3, <2>2
    <2> QED BY <2>1, <2>2
<1> QED BY <1>1, <1>2, <1>6, <1>7

(* Attaching a released buffer takes it out of the free list.               *)
LEMMA AttachReleasedQueue ==
    ASSUME QueueTypes, QueueOK, NEW t, NEW s \in Buffers, state[s] = "RELEASED",
           AttachReleased(s)
    PROVE  QueueOK' /\ Change(t)
<1>1. /\ state' = [state EXCEPT ![s] = "ATTACHED"]
      /\ freeList' = RemoveFirst(freeList, s) /\ dirtyList' = dirtyList
    BY DEF AttachReleased, SetState
<1>2. FreeSet' = FreeSet \ {s} /\ Lists(freeList', FreeSet')
    BY <1>1, ListsRemoveFirst, ListOf DEF FreeSet, QueueOK
<1>3. In("FLUSHED")' = In("FLUSHED") /\ FreeSet' \subseteq In("RELEASED")'
    BY <1>1, <1>2 DEF In, QueueOK, QueueTypes
<1>4. QueueOK'
    BY <1>1, <1>2, <1>3 DEF QueueOK
<1>5. Change(t)
    BY <1>1, <1>2 DEF Change, QueueTypes
<1> QED BY <1>4, <1>5

(* PopFromFreeListLocked takes one buffer out of the free list and loses    *)
(* none, even when it moves the locked one to the end.                      *)
LEMMA PopLists ==
    ASSUME QueueTypes, QueueOK, NEW c, CanPop(c)
    PROVE  /\ freeList[PoppedAt(c)] \in FreeSet
           /\ Lists(FreeAfterPop(c), FreeSet \ {freeList[PoppedAt(c)]})
<1> DEFINE l == freeList
           X == FreeSet
           n == 2
<1>1. Lists(l, X) /\ l \in Seq(X) /\ Len(l) \in Nat /\ DOMAIN l = 1..Len(l)
    BY LenProperties DEF QueueOK, Lists
<1>2. PoppedAt(c) \in 1..Len(l)
    BY PopTypes
<1>3. l[PoppedAt(c)] \in X
    BY <1>1, <1>2, ElementOfSeq
<1>4. CASE FreeAfterPop(c) = RemoveAt(l, PoppedAt(c))
    <2> HIDE DEF X
    <2>1. Lists(RemoveAt(l, PoppedAt(c)), X \ {l[PoppedAt(c)]})
        BY <1>1, <1>2, ListsRemoveAt
    <2> QED BY <1>3, <1>4, <2>1 DEF X
<1>5. CASE Matching(c) = {} /\ Head(l) = locked
    <2>1. PoppedAt(c) = n /\ FreeAfterPop(c) = Append(SubSeq(l, n + 1, Len(l)), l[1])
        <3>1. l # <<>>
            BY <1>5 DEF CanPop
        <3>2. Head(l) = l[1]
            BY <1>1, <3>1, EmptySeq
        <3> QED BY <1>5, <3>2 DEF PoppedAt, FreeAfterPop
    <2>2. n \in 0..Len(l) /\ 1 \in 1..Len(l) /\ 2 \in 1..Len(l)
        BY <1>1, <1>2, <2>1
    <2>3. l[1] \in X /\ l[2] \in X /\ l[1] # l[2]
        BY <1>1, <2>2, ElementOfSeq, ListsMeans
    <2>4. {l[i] : i \in 1..n} = {l[1], l[2]}
        OBVIOUS
    <2> HIDE DEF n, X
    <2>5. Lists(SubSeq(l, n + 1, Len(l)), X \ ToSet(SubSeq(l, 1, n)))
        BY <1>1, <2>2, ListsCut
    <2>6. ToSet(SubSeq(l, 1, n)) = {l[1], l[2]}
        BY <1>1, <2>2, <2>4, PrefixInSeq
    <2>7. Lists(Append(SubSeq(l, n + 1, Len(l)), l[1]), (X \ {l[1], l[2]}) \union {l[1]})
        BY <2>5, <2>6, ListsAppend
    <2>8. (X \ {l[1], l[2]}) \union {l[1]} = X \ {l[2]}
        BY <2>3
    <2>9. l[PoppedAt(c)] = l[2]
        BY <2>1 DEF n
    <2> QED BY <1>3, <2>1, <2>7, <2>8, <2>9 DEF X
<1> QED BY <1>4, <1>5 DEF FreeAfterPop

(* A buffer that has just left its list is granted, or erased.              *)
LEMMA GrantQueue ==
    ASSUME QueueTypes, QueueOK, NEW t, NEW a, NEW s, ReuseBuffer(t, s, a)
    PROVE  \/ s \in Buffers /\ state' = [state EXCEPT ![s] = "REQUESTED"]
           \/ s \in Buffers /\ state' = [state EXCEPT ![s] = "NONE"]
BY DEF ReuseBuffer, Granted, Delete, Erase, QueueTypes, Cached

(* A request served from the free list.                                     *)
LEMMA PopFreeQueue ==
    ASSUME QueueTypes, QueueOK, NEW t, NEW a, PopFromFreeList(t, a)
    PROVE  QueueOK' /\ Change(t)
<1> DEFINE s == freeList[PoppedAt(a.cfg)]
<1>1. s \in FreeSet /\ Lists(freeList', FreeSet \ {s}) /\ dirtyList' = dirtyList
    BY PopLists DEF PopFromFreeList
<1>2. \/ s \in Buffers /\ state' = [state EXCEPT ![s] = "REQUESTED"]
      \/ s \in Buffers /\ state' = [state EXCEPT ![s] = "NONE"]
    BY GrantQueue DEF PopFromFreeList
<1> HIDE DEF s
<1>3. FreeSet' = FreeSet \ {s} /\ Lists(freeList', FreeSet') /\ state[s] = "RELEASED"
    BY <1>1, ListOf DEF FreeSet, QueueOK, In
<1>4. In("FLUSHED")' = In("FLUSHED") /\ FreeSet' \subseteq In("RELEASED")'
    BY <1>2, <1>3 DEF In, QueueOK, QueueTypes
<1>5. QueueOK'
    BY <1>1, <1>3, <1>4 DEF QueueOK
<1>6. Change(t)
    BY <1>1, <1>2, <1>3 DEF Change, QueueTypes
<1> QED BY <1>5, <1>6

(* A request that takes the oldest frame back.                              *)
LEMMA PopDirtyQueue ==
    ASSUME QueueTypes, QueueOK, NEW t, NEW a, PopFromDirtyList(t, a)
    PROVE  QueueOK' /\ Change(t)
<1> DEFINE s == Head(dirtyList)
<1>1. /\ dirtyList # <<>> /\ dirtyList' = Tail(dirtyList) /\ freeList' = freeList
      /\ ReuseBuffer(t, s, a)
    BY DEF PopFromDirtyList
<1>2. PICK st \in {"REQUESTED", "NONE"} : state' = [state EXCEPT ![s] = st]
    BY <1>1, GrantQueue
<1>3. st \notin {"RELEASED", "FLUSHED"}
    OBVIOUS
<1> QED BY <1>1, <1>2, <1>3, DequeueQueue

(* A request, on each of its branches.                                      *)
LEMMA SelectQueue ==
    ASSUME QueueTypes, QueueOK, NEW t, NEW a, SelectBuffer(t, a) \/ (AfterWait(t) /\ a = arg[t])
    PROVE  QueueOK' /\ Change(t)
<1>1. CASE PopFromFreeList(t, a)
    BY <1>1, PopFreeQueue
<1>2. CASE PopFromDirtyList(t, a)
    BY <1>2, PopDirtyQueue
<1>3. CASE UNCHANGED <<elements, lists>>
    BY <1>3, SameQueue
<1> QED BY <1>1, <1>2, <1>3 DEF SelectBuffer, AfterWait, NoBuffer

(* Both lists are cut at their heads, and what is cut off is erased.        *)
LEMMA CutQueue ==
    ASSUME QueueTypes, QueueOK, NEW t, NEW n \in Nat, CutLists(n),
           NEW A \in SUBSET Mine(t), A \intersect (In("RELEASED") \union In("FLUSHED")) = {},
           NEW st, st \notin {"RELEASED", "FLUSHED"},
           state' = [u \in Buffers |-> IF u \in A THEN st
                                       ELSE IF u \in Gone(n) THEN "NONE" ELSE state[u]]
    PROVE  QueueOK' /\ Change(t)
<1> DEFINE f == ToSet(SubSeq(freeList, 1, FreeCut(n)))
           d == ToSet(SubSeq(dirtyList, 1, DirtyCut(n)))
<1>1. FreeCut(n) \in 0..Len(freeList) /\ DirtyCut(n) \in 0..Len(dirtyList)
    BY CutTypes
<1>2. Lists(freeList', FreeSet \ f) /\ Lists(dirtyList', In("FLUSHED") \ d)
    BY <1>1, ListsCut DEF CutLists, QueueOK
<1>3. f \subseteq FreeSet /\ d \subseteq In("FLUSHED")
    <2>1. Lists(freeList, FreeSet) /\ Lists(dirtyList, In("FLUSHED"))
        BY DEF QueueOK
    <2>2. /\ freeList \in Seq(FreeSet) /\ dirtyList \in Seq(In("FLUSHED"))
          /\ Len(freeList) \in Nat /\ Len(dirtyList) \in Nat
        BY <2>1, LenProperties DEF Lists
    <2>3. /\ f = {freeList[i] : i \in 1..FreeCut(n)}
          /\ d = {dirtyList[i] : i \in 1..DirtyCut(n)}
        BY <1>1, <2>2, PrefixInSeq
    <2>4. /\ \A i \in 1..FreeCut(n) : freeList[i] \in FreeSet
          /\ \A i \in 1..DirtyCut(n) : dirtyList[i] \in In("FLUSHED")
        BY <1>1, <2>2, ElementOfSeq
    <2> QED BY <2>3, <2>4
<1>4. Gone(n) = f \union d
    BY DEF Gone
<1> HIDE DEF f, d
<1>5. A \subseteq Buffers
    BY DEF Mine
<1>6. FreeSet' = FreeSet \ f /\ Lists(freeList', FreeSet')
    BY <1>2, ListOf DEF FreeSet
<1>7. In("FLUSHED")' = In("FLUSHED") \ d
    BY <1>3, <1>4, <1>5 DEF In, QueueOK
<1>8. FreeSet' \subseteq In("RELEASED")'
    BY <1>3, <1>4, <1>5, <1>6 DEF In, QueueOK
<1>9. QueueOK'
    BY <1>2, <1>6, <1>7, <1>8 DEF QueueOK
<1>10. Change(t)
    BY <1>3, <1>4, <1>6 DEF Change, QueueOK, In
<1> QED BY <1>9, <1>10

(* DeleteBuffersLocked.                                                     *)
LEMMA DeleteBuffersQueue ==
    ASSUME QueueTypes, QueueOK, NEW t, NEW n \in Nat, DeleteBuffers(n)
    PROVE  QueueOK' /\ Change(t)
<1> DEFINE A  == {}
           st == "NONE"
<1>1. A \in SUBSET Mine(t) /\ A \intersect (In("RELEASED") \union In("FLUSHED")) = {}
    OBVIOUS
<1>2. st \notin {"RELEASED", "FLUSHED"}
    OBVIOUS
<1>3. state' = [u \in Buffers |-> IF u \in A THEN st
                                  ELSE IF u \in Gone(n) THEN "NONE" ELSE state[u]]
    BY DEF DeleteBuffers
<1>4. CutLists(n)
    BY DEF DeleteBuffers
<1> HIDE DEF A, st
<1> QED BY <1>1, <1>2, <1>3, <1>4, CutQueue

(* AttachBuffer into a full queue.                                          *)
LEMMA AttachReplacingQueue ==
    ASSUME QueueTypes, QueueOK, NEW t, NEW n \in Nat, NEW s \in Mine(t), state[s] = "NONE",
           NEW c, AttachReplacing(n, s, c)
    PROVE  QueueOK' /\ Change(t)
<1> DEFINE A  == {s}
           st == "ATTACHED"
<1>1. A \in SUBSET Mine(t) /\ A \intersect (In("RELEASED") \union In("FLUSHED")) = {}
    BY DEF In
<1>2. st \notin {"RELEASED", "FLUSHED"}
    OBVIOUS
<1>3. state' = [u \in Buffers |-> IF u \in A THEN st
                                  ELSE IF u \in Gone(n) THEN "NONE" ELSE state[u]]
    BY DEF AttachReplacing
<1>4. CutLists(n)
    BY DEF AttachReplacing
<1> HIDE DEF A, st
<1> QED BY <1>1, <1>2, <1>3, <1>4, CutQueue

(* What is left of a list when only the elements in K are kept.             *)
LEMMA PickLists ==
    ASSUME NEW X, NEW l, Lists(l, X), NEW K, NEW f \in Picks(l, K)
    PROVE  Lists(Pick(l, f), X \intersect K)
<1> DEFINE P == {i \in DOMAIN l : l[i] \in K}
           k == Cardinality(P)
           r == Pick(l, f)
           Y == X \intersect K
<1>1. /\ l \in Seq(X) /\ DOMAIN l = 1..Len(l) /\ Len(l) \in Nat
      /\ \A i \in 1..Len(l) : l[i] \in X
    BY LenProperties, ElementOfSeq DEF Lists
<1>2. k \in Nat
    <2>1. P \in SUBSET (1..Len(l)) /\ IsFiniteSet(1..Len(l))
        BY <1>1, FS_Interval
    <2> QED BY <2>1, FS_Subset, FS_CardinalityType
<1>3. /\ f \in [1..k -> P]
      /\ \A i, j \in 1..k : i < j => f[i] < f[j]
      /\ \A p \in P : \E i \in 1..k : f[i] = p
    BY DEF Picks
<1>4. r = [i \in 1..k |-> l[f[i]]]
    BY <1>3 DEF Pick
<1>5. \A i, j \in 1..Len(l) : l[i] = l[j] => i = j
    BY ListsMeans
<1>6. \A i \in 1..k : f[i] \in 1..Len(l) /\ l[f[i]] \in K
    BY <1>1, <1>3
<1> HIDE DEF k, r
<1>7. r \in [1..k -> Y]
    BY <1>1, <1>4, <1>6
<1>8. r \in Seq(Y) /\ Len(r) = k
    <2>1. r \in Seq(Y)
        BY <1>2, <1>7, SeqDef
    <2>2. DOMAIN r = 1..k /\ DOMAIN r = 1..Len(r) /\ Len(r) \in Nat
        BY <1>7, <2>1, LenProperties
    <2> QED BY <1>2, <2>1, <2>2
<1>9. ASSUME NEW i \in 1..Len(r), NEW j \in 1..Len(r), r[i] = r[j]
      PROVE  i = j
    <2>1. i \in 1..k /\ j \in 1..k /\ l[f[i]] = l[f[j]]
        BY <1>4, <1>8, <1>9
    <2>2. f[i] = f[j] /\ f[i] \in Nat /\ f[j] \in Nat
        BY <2>1, <1>1, <1>5, <1>6
    <2>3. ~ (i < j) /\ ~ (j < i)
        BY <2>1, <2>2, <1>3
    <2> QED BY <2>1, <2>3, <1>2
<1>10. ASSUME NEW x \in Y
       PROVE  \E i \in 1..Len(r) : r[i] = x
    <2>1. PICK p \in 1..Len(l) : l[p] = x
        BY ListsMeans
    <2>2. p \in P
        BY <1>1, <2>1
    <2>3. PICK i \in 1..k : f[i] = p
        BY <1>3, <2>2
    <2> QED BY <1>4, <1>8, <2>1, <2>3
<1>11. Lists(r, Y)
    BY <1>8, <1>9, <1>10, ListsMeans
<1> QED BY <1>11 DEF r

(* The buffers PreAllocBuffers adds, in order, are a list without           *)
(* repetition.                                                              *)
LEMMA IncreasingLists ==
    ASSUME NEW n \in Nat, NEW S \in SUBSET Buffers, NEW f \in Increasing(n, S)
    PROVE  Lists(f, {f[i] : i \in 1..n})
<1> DEFINE Y == {f[i] : i \in 1..n}
<1>1. f \in [1..n -> S] /\ \A i, j \in 1..n : i < j => f[i] < f[j]
    BY DEF Increasing
<1>2. f \in [1..n -> Y]
    BY <1>1
<1>3. f \in Seq(Y) /\ Len(f) = n
    <2>1. f \in Seq(Y)
        BY <1>2, SeqDef
    <2>2. DOMAIN f = 1..n /\ DOMAIN f = 1..Len(f) /\ Len(f) \in Nat
        BY <1>2, <2>1, LenProperties
    <2> QED BY <2>1, <2>2
<1>4. ASSUME NEW i \in 1..Len(f), NEW j \in 1..Len(f), f[i] = f[j]
      PROVE  i = j
    <2>1. i \in 1..n /\ j \in 1..n /\ f[i] \in Nat
        BY <1>1, <1>3, BuffersAssumption
    <2>2. ~ (i < j) /\ ~ (j < i)
        BY <1>1, <1>4, <2>1
    <2> QED BY <2>1, <2>2
<1> QED BY <1>3, <1>4, ListsMeans

(* Buffers are erased wherever they are.                                    *)
LEMMA EraseQueue ==
    ASSUME QueueTypes, QueueOK, NEW t, NEW S, Erase(S),
           Lists(freeList', FreeSet \ S), Lists(dirtyList', In("FLUSHED") \ S)
    PROVE  QueueOK' /\ Change(t)
<1>1. state' = [s \in Buffers |-> IF s \in S THEN "NONE" ELSE state[s]]
    BY DEF Erase
<1>2. FreeSet' = FreeSet \ S /\ Lists(freeList', FreeSet')
    BY ListOf DEF FreeSet
<1>3. In("FLUSHED")' = In("FLUSHED") \ S /\ FreeSet' \subseteq In("RELEASED")'
    BY <1>1, <1>2 DEF In, QueueOK
<1>4. QueueOK'
    BY <1>2, <1>3 DEF QueueOK
<1>5. Change(t)
    BY <1>1, <1>2 DEF Change
<1> QED BY <1>4, <1>5

(* ClearLocked empties elements and lists alike.                            *)
LEMMA ClearQueue ==
    ASSUME QueueTypes, QueueOK, NEW t, Clear
    PROVE  QueueOK' /\ Change(t)
<1>1. Erase(Buffers) /\ freeList' = <<>> /\ dirtyList' = <<>>
    BY DEF Clear
<1>2. FreeSet \ Buffers = {} /\ In("FLUSHED") \ Buffers = {}
    BY DEF QueueOK, In
<1>3. Lists(<<>>, {})
    BY EmptySeq DEF Lists, IsInjective, ToSet
<1> QED BY <1>1, <1>2, <1>3, EraseQueue

(* CleanReleasedBuffersLocked keeps in the list what it keeps in the map.   *)
LEMMA CleanReleasedQueue ==
    ASSUME QueueTypes, QueueOK, NEW t, CleanReleased
    PROVE  QueueOK' /\ Change(t)
<1> DEFINE K == {lastFlushed, locked}
           S == FreeSet \ K
<1>1. Erase(S) /\ dirtyList' = dirtyList /\ \E f \in Picks(freeList, K) : freeList' = Pick(freeList, f)
    BY DEF CleanReleased, FreeSet
<1>2. Lists(freeList', FreeSet \intersect K)
    <2> HIDE DEF K
    <2> QED BY <1>1, PickLists DEF QueueOK
<1>3. FreeSet \ S = FreeSet \intersect K /\ In("FLUSHED") \ S = In("FLUSHED")
    BY DEF QueueOK, In
<1>4. Lists(freeList', FreeSet \ S) /\ Lists(dirtyList', In("FLUSHED") \ S)
    BY <1>1, <1>2, <1>3 DEF QueueOK
<1> HIDE DEF S
<1> QED BY <1>1, <1>4, EraseQueue

(* CleanProducerBySeqNum cuts both lists with the map.                      *)
LEMMA CleanSeqNumQueue ==
    ASSUME QueueTypes, QueueOK, NEW t, NEW S \in SUBSET Buffers, CleanProducerBySeqNum(t, S)
    PROVE  QueueOK' /\ Change(t)
<1> DEFINE K == Buffers \ S
<1>1. /\ Erase(S)
      /\ \E f \in Picks(freeList, K) : freeList' = Pick(freeList, f)
      /\ \E f \in Picks(dirtyList, K) : dirtyList' = Pick(dirtyList, f)
    BY DEF CleanProducerBySeqNum
<1>2. Lists(freeList', FreeSet \intersect K) /\ Lists(dirtyList', In("FLUSHED") \intersect K)
    <2> HIDE DEF K
    <2> QED BY <1>1, PickLists DEF QueueOK
<1>3. FreeSet \intersect K = FreeSet \ S /\ In("FLUSHED") \intersect K = In("FLUSHED") \ S
    BY DEF QueueOK, In
<1> QED BY <1>1, <1>2, <1>3, EraseQueue

(* PreAllocBuffers adds released buffers, all of them to the free list.     *)
LEMMA PreAllocQueue ==
    ASSUME QueueTypes, QueueOK, CallTypes, NEW t \in Thread, PreAllocated(t)
    PROVE  QueueOK' /\ Change(t)
<1>1. PICK n \in 0..arg[t].count : \E f \in Increasing(n, Unused) :
          /\ state' = [s \in Buffers |-> IF s \in {f[i] : i \in 1..n} THEN "RELEASED" ELSE state[s]]
          /\ freeList' = freeList \o f
    BY DEF PreAllocated
<1>2. PICK f \in Increasing(n, Unused) :
          /\ state' = [s \in Buffers |-> IF s \in {f[i] : i \in 1..n} THEN "RELEASED" ELSE state[s]]
          /\ freeList' = freeList \o f
    BY <1>1
<1> DEFINE N == {f[i] : i \in 1..n}
<1>3. n \in Nat /\ dirtyList' = dirtyList
    BY DEF CallTypes, ArgType, PreAllocated
<1>4. N \subseteq Unused /\ Unused \subseteq Buffers
    BY DEF Increasing, Unused
<1>5. Lists(f, N)
    BY <1>3, <1>4, IncreasingLists
<1>6. state' = [s \in Buffers |-> IF s \in N THEN "RELEASED" ELSE state[s]]
    BY <1>2
<1> HIDE DEF N
<1>7. \A s \in N : state[s] = "NONE" /\ s \in Mine(t) /\ s \in Buffers
    BY <1>4 DEF Unused, Mine
<1>8. Lists(freeList', FreeSet \union N)
    <2>1. FreeSet \intersect N = {}
        BY <1>7 DEF QueueOK, In
    <2> QED BY <1>2, <1>5, <2>1, ListsConcat DEF QueueOK
<1>9. FreeSet' = FreeSet \union N /\ Lists(freeList', FreeSet')
    BY <1>8, ListOf DEF FreeSet
<1>10. In("FLUSHED")' = In("FLUSHED") /\ FreeSet' \subseteq In("RELEASED")'
    BY <1>6, <1>7, <1>9 DEF In, QueueOK
<1>11. QueueOK'
    BY <1>3, <1>9, <1>10 DEF QueueOK
<1>12. Change(t)
    BY <1>6, <1>7, <1>9 DEF Change
<1> QED BY <1>11, <1>12

-----------------------------------------------------------------------------
(* How the threads move. *)

(* With one owner per buffer, a call may act on a buffer it enters with.    *)
LEMMA ExclusiveMine ==
    ASSUME SingleOwner, NEW t, NEW s \in Buffers, Exclusive(t, s)
    PROVE  s \in Mine(t)
BY DEF Exclusive, Mine

(* A call inside may act on the buffer it carries.                          *)
LEMMA CarriedMine ==
    ASSUME IInv, NEW t \in Thread, pc[t] \in BufferCall \ {"attachWait"}
    PROVE  arg[t].buf \in Mine(t)
<1>1. arg[t].buf \in Buffers /\ arg[t].buf # NULL
    BY InBufferCall, NullAssumption DEF IInv, TypeOK
<1>2. \A u \in Thread \ {t} : arg[u].buf = arg[t].buf => pc[u] = "attachWait"
    BY <1>1 DEF IInv, OneCallPerBuffer
<1> QED BY <1>1, <1>2 DEF Mine

(* Finishing a call moves no other thread and leaves nothing to check.      *)
LEMMA FinishMoves ==
    ASSUME CallTypes, NEW t \in Thread, Finish(t)
    PROVE  OnlyMoves(t) /\ ChecksOf(t)' /\ arg'[t].buf = NULL
<1>1. pc'[t] = "idle" /\ arg'[t] = NoArg /\ OnlyMoves(t)
    BY DEF CallTypes, Finish, OnlyMoves
<1> QED BY <1>1 DEF ChecksOf, NoArg

(* Parking a thread moves no other.                                         *)
LEMMA ParkMoves ==
    ASSUME CallTypes, NEW t \in Thread, NEW l, NEW a, Park(t, l, a)
    PROVE  OnlyMoves(t) /\ pc'[t] = l /\ arg'[t] = a
BY DEF CallTypes, Park, OnlyMoves

(* Going on with a call moves no other thread.                              *)
LEMMA GotoMoves ==
    ASSUME CallTypes, NEW t \in Thread, NEW l, Goto(t, l), UNCHANGED arg
    PROVE  OnlyMoves(t) /\ pc'[t] = l /\ arg'[t] = arg[t]
BY DEF CallTypes, Goto, OnlyMoves

(* A call that completes at once moves no thread.                           *)
LEMMA StayMoves ==
    ASSUME CallTypes, NEW t \in Thread, UNCHANGED threads, pc[t] = "idle"
    PROVE  OnlyMoves(t) /\ ChecksOf(t)' /\ arg'[t].buf = NULL
<1>1. pc' = pc /\ arg' = arg /\ arg[t].buf = NULL
    BY DEF CallTypes, CallOK, BufferCall, threads
<1> QED BY <1>1 DEF OnlyMoves, ChecksOf

(* What the lemmas about the queue take from the invariant.                 *)
LEMMA IInvParts ==
    ASSUME IInv
    PROVE  QueueTypes /\ CallTypes /\ QueueOK
BY ListsMatchMeans DEF IInv, TypeOK

(* ReleaseBuffer, case by case.                                             *)
LEMMA ReleaseCases ==
    ASSUME QueueTypes, QueueOK, NEW t, NEW s \in Buffers, ReleaseBuffer(t, s)
    PROVE  /\ Enters(t, "ReleaseBuffer") /\ Exclusive(t, s)
           /\ state[s] \in {"ACQUIRED", "ATTACHED"} /\ s \notin FreeSet
           /\ UNCHANGED <<sizes, allocating, modes, last>>
           /\ \/ s \notin isDeleting /\ Free(s) /\ UNCHANGED threads
              \/ s \in isDeleting /\ DeleteBufferInCache(s) /\ notified' = NotifyBoth /\ UNCHANGED threads
              \/ /\ s \in isDeleting /\ allocating
                 /\ SetState(s, "RELEASED")
                 /\ Park(t, "releaseDelete", BufferArg(s, FALSE))
                 /\ UNCHANGED <<lists, deletingList, notified>>
              \/ /\ s \notin isDeleting /\ \E G : Lends({s}, {}, G)
                 /\ notified' = NotifyBoth /\ UNCHANGED threads
              \/ /\ s \in isDeleting /\ \E G : Lends({}, {s}, G)
                 /\ notified' = NotifyBoth /\ UNCHANGED threads
              \/ /\ s \notin isDeleting /\ allocating
                 /\ Free(s) /\ Park(t, "releaseAsks", NoArg)
<1> DEFINE e == {}
           S == {s}
<1>1. state[s] \in {"ACQUIRED", "ATTACHED"}
    BY ReleaseMeans
<1>2. s \notin FreeSet
    BY <1>1 DEF QueueOK, In
<1>3. /\ Lists(Append(freeList, s), (FreeSet \union S) \ e)
      /\ Lists(RemoveFirst(freeList, s), (FreeSet \union e) \ S)
    BY <1>2, ListedOnce
<1>4. S \in SUBSET Buffers /\ e \in SUBSET Buffers
    OBVIOUS
<1> HIDE DEF e, S
<1>5. HandsOver(S, e, Append(freeList, s), Configs) => \E G : Lends(S, e, G)
    BY <1>3, <1>4, SomeAreLent
<1>6. HandsOver(e, S, RemoveFirst(freeList, s), Configs) => \E G : Lends(e, S, G)
    BY <1>3, <1>4, SomeAreLent
<1> QED BY <1>1, <1>2, <1>5, <1>6, ReleaseMeans DEF e, S

(* ReleaseBuffer when an allocation it waited for has ended: the buffer it  *)
(* carries is deleted, and others may be lent.                              *)
LEMMA ReleaseDeletesMeans ==
    ASSUME IInv, NEW t \in Thread, ReleaseDeletes(t)
    PROVE  /\ pc[t] = "releaseDelete" /\ ~allocating /\ Finish(t) /\ notified' = NotifyBoth
           /\ UNCHANGED <<sizes, allocating, modes, last>>
           /\ arg[t].buf \in Buffers /\ arg[t].buf \notin FreeSet
           /\ state[arg[t].buf] \in {"RELEASED", "ATTACHED", "NONE"} /\ state[arg[t].buf] # "FLUSHED"
           /\ DeleteBufferInCache(arg[t].buf) \/ \E G : Lends({}, {arg[t].buf}, G)
<1>1. QueueTypes /\ CallTypes /\ QueueOK
    BY IInvParts
<1> DEFINE s == arg[t].buf
           e == {}
           S == {s}
<1>2. pc[t] = "releaseDelete" /\ s \in Buffers
    BY <1>1, InBufferCall DEF ReleaseDeletes, BufferCall
<1>3. state[s] \in {"RELEASED", "ATTACHED", "NONE"} /\ s \notin FreeSet
    BY <1>2 DEF IInv, ChecksStillHold, FreeSet
<1>4. Lists(RemoveFirst(freeList, s), (FreeSet \union e) \ S) /\ e \in SUBSET Buffers
    BY <1>1, <1>2, ListedOnce
<1>5. DeleteBufferInCache(s) \/ HandsOver(e, S, RemoveFirst(freeList, s), Configs)
    BY Zenon DEF ReleaseDeletes
<1> HIDE DEF e, S
<1>6. DeleteBufferInCache(s) \/ \E G : Lends(e, S, G)
    BY <1>1, <1>4, <1>5, SomeAreLent
<1> QED BY <1>2, <1>3, <1>6 DEF ReleaseDeletes, e, S

(* ReleaseBuffer when it may at last ask for buffers: some are lent.        *)
LEMMA ReleaseAsksMeans ==
    ASSUME IInv, NEW t \in Thread, ReleaseAsks(t)
    PROVE  /\ pc[t] = "releaseAsks" /\ ~allocating /\ Finish(t)
           /\ UNCHANGED <<sizes, allocating, modes, last, notified>>
           /\ \E G : Lends({}, {}, G)
<1>1. QueueTypes /\ CallTypes /\ QueueOK
    BY IInvParts
<1>2. PICK C : HandsOver({}, {}, freeList, C)
    BY DEF ReleaseAsks
<1> DEFINE e == {}
<1>3. Lists(freeList, (FreeSet \union e) \ e) /\ e \in SUBSET Buffers /\ HandsOver(e, e, freeList, C)
    BY <1>1, <1>2, ListedOnce
<1> HIDE DEF e
<1>4. \E G : Lends(e, e, G)
    BY <1>1, <1>3, SomeAreLent
<1> QED BY <1>4 DEF ReleaseAsks, e

(* Going back to sleep keeps the invariant.                                 *)
LEMMA SleepPreserves ==
    ASSUME IInv, TypeOK', UNCHANGED <<elements, lists, threads>>
    PROVE  IInv'
BY DEF IInv, ListsMatchStates, ChecksStillHold, OneCallPerBuffer, BeingDeleted,
       elements, lists, threads

-----------------------------------------------------------------------------
(* One lemma per family of actions. *)

(* Every step of RequestBuffer keeps the invariant.                         *)
LEMMA RequestPreserves ==
    ASSUME IInv, TypeOK', NEW t \in Thread, RequestBuffer(t) \/ RequestStep(t)
    PROVE  IInv'
<1>1. QueueTypes /\ CallTypes /\ QueueOK
    BY IInvParts
<1>2. ASSUME NEW a, RequestOK(a), SelectBuffer(t, a) \/ (AfterWait(t) /\ a = arg[t])
      PROVE  OnlyMoves(t) /\ ChecksOf(t)' /\ arg'[t].buf = NULL
    <2>1. \/ Finish(t)
          \/ Park(t, "alloc", a) \/ Park(t, "requestBlocked", a)
        BY <1>2 DEF SelectBuffer, AfterWait, PopFromFreeList, PopFromDirtyList, ReuseBuffer,
                    StartAlloc, NoBuffer
    <2>2. CASE Finish(t)
        BY <1>1, <2>2, FinishMoves
    <2>3. CASE Park(t, "alloc", a) \/ Park(t, "requestBlocked", a)
        <3>1. OnlyMoves(t) /\ pc'[t] \in {"alloc", "requestBlocked"} /\ arg'[t] = a
            BY <1>1, <2>3, ParkMoves
        <3> QED BY <1>2, <3>1 DEF RequestOK, ChecksOf
    <2> QED BY <2>1, <2>2, <2>3
<1>3. ASSUME NEW a, RequestOK(a), SelectBuffer(t, a) \/ (AfterWait(t) /\ a = arg[t]),
             pc[t] # "releaseDelete"
      PROVE  IInv'
    <2>1. QueueOK' /\ Change(t)
        BY <1>1, <1>3, SelectQueue
    <2> QED BY <1>2, <1>3, <2>1, StepPreserves
<1>4. CASE RequestBuffer(t)
    <2>1. PICK a \in RequestArg(t) :
             IF allocating
             THEN /\ Park(t, "requestWaitAlloc", a)
                  /\ UNCHANGED <<elements, lists, deletingList, allocating>>
             ELSE SelectBuffer(t, a)
        BY <1>4 DEF RequestBuffer
    <2>2. RequestOK(a) /\ pc[t] # "releaseDelete"
        BY <1>4, RequestArgOK DEF RequestBuffer, Enters, Idle
    <2>3. CASE SelectBuffer(t, a)
        BY <2>2, <2>3, <1>3
    <2>4. CASE Park(t, "requestWaitAlloc", a) /\ UNCHANGED <<elements, lists>>
        <3>1. OnlyMoves(t) /\ pc'[t] = "requestWaitAlloc" /\ arg'[t] = a
            BY <1>1, <2>4, ParkMoves
        <3>2. ChecksOf(t)' /\ arg'[t].buf = NULL
            BY <2>2, <3>1 DEF RequestOK, ChecksOf
        <3>3. QueueOK' /\ Change(t)
            BY <1>1, <2>4, SameQueue
        <3> QED BY <2>2, <3>1, <3>2, <3>3, StepPreserves
    <2> QED BY <2>1, <2>3, <2>4
<1>5. CASE RequestAfterAlloc(t) \/ RequestWakes(t) \/ RequestTimesOut(t)
    <2>1. pc[t] \in RequestCall /\ pc[t] # "releaseDelete"
        BY <1>5 DEF RequestAfterAlloc, RequestWakes, RequestTimesOut, RequestCall
    <2>2. RequestOK(arg[t])
        BY <1>1, <2>1, RequestingOK
    <2>3. SelectBuffer(t, arg[t]) \/ AfterWait(t)
        BY <1>5 DEF RequestAfterAlloc, RequestWakes, RequestTimesOut
    <2> QED BY <1>3, <2>1, <2>2, <2>3
<1>6. CASE RequestSleepsAgain(t)
    BY <1>6, SleepPreserves DEF RequestSleepsAgain
<1>7. CASE AllocSucceeds(t) \/ AllocFails(t)
    <2>1. Finish(t) /\ UNCHANGED lists /\ pc[t] # "releaseDelete"
        BY <1>7 DEF AllocSucceeds, AllocFails
    <2>2. QueueOK' /\ Change(t)
        <3>1. CASE UNCHANGED elements
            BY <1>1, <2>1, <3>1, SameQueue
        <3>2. CASE \E s \in Unused : Insert(s, "REQUESTED", arg[t].cfg, FALSE)
            <4>1. PICK s \in Unused : Insert(s, "REQUESTED", arg[t].cfg, FALSE)
                BY <3>2
            <4> DEFINE st == "REQUESTED"
            <4>2. s \in Mine(t) /\ state[s] = "NONE" /\ state' = [state EXCEPT ![s] = st]
                BY <4>1 DEF Unused, Mine, Insert
            <4>3. st \notin {"RELEASED", "FLUSHED"} /\ state[s] \notin {"RELEASED", "FLUSHED"}
                BY <4>2
            <4> HIDE DEF st
            <4> QED BY <1>1, <2>1, <4>2, <4>3, PlaceQueue
        <3> QED BY <1>7, <3>1, <3>2 DEF AllocSucceeds, AllocFails
    <2> QED BY <1>1, <2>1, <2>2, FinishMoves, StepPreserves
<1> QED BY <1>4, <1>5, <1>6, <1>7 DEF RequestStep

(* Every later step of FlushBuffer keeps the invariant.                     *)
LEMMA FlushPreserves ==
    ASSUME IInv, TypeOK', NEW t \in Thread, FlushStep(t)
    PROVE  IInv'
<1>1. QueueTypes /\ CallTypes /\ QueueOK
    BY IInvParts
<1> DEFINE s == arg[t].buf
<1>2. s \in Mine(t) /\ s \in Buffers /\ pc[t] # "releaseDelete"
    <2>1. pc[t] \in BufferCall \ {"attachWait", "releaseDelete"}
        BY DEF FlushStep, FlushChecksCache, FlushChecksListener, DoFlushBuffer, FlushCancels,
               FlushDeletes, BufferCall
    <2> QED BY <2>1, CarriedMine DEF Mine
<1>3. ASSUME QueueOK', Change(t), Finish(t)
      PROVE  IInv'
    BY <1>1, <1>2, <1>3, FinishMoves, StepPreserves
<1>4. ASSUME UNCHANGED <<elements, lists, arg>>, NEW l, Goto(t, l),
             l \in {"flushCacheOk", "flushListenerOk", "flushCancel", "flushDelete"},
             state[s] \in Owned \union {"NONE"}
      PROVE  IInv'
    <2>1. QueueOK' /\ Change(t)
        BY <1>1, <1>4, SameQueue
    <2>2. OnlyMoves(t) /\ pc'[t] = l /\ arg'[t] = arg[t]
        BY <1>1, <1>4, GotoMoves
    <2>3. ChecksOf(t)'
        BY <1>4, <2>2 DEF ChecksOf, elements, lists
    <2> QED BY <1>2, <2>1, <2>2, <2>3, StepPreserves
<1>5. pc[t] \in {"flushCacheOk", "flushListenerOk", "flushCancel", "flushDelete"}
         => state[s] \in Owned \union {"NONE"}
    BY DEF IInv, ChecksStillHold
<1>6. CASE FlushChecksCache(t)
    <2>1. CASE state[s] \in Owned /\ Goto(t, "flushCacheOk") /\ UNCHANGED arg
        BY <1>4, <1>6, <2>1 DEF FlushChecksCache
    <2>2. CASE Finish(t)
        BY <1>1, <1>3, <1>6, <2>2, SameQueue DEF FlushChecksCache
    <2> QED BY <1>6, <2>1, <2>2 DEF FlushChecksCache
<1>7. CASE FlushChecksListener(t)
    <2> DEFINE l == IF hasListener THEN "flushListenerOk" ELSE "flushCancel"
    <2>1. /\ UNCHANGED <<elements, lists, arg>> /\ Goto(t, l)
          /\ l \in {"flushCacheOk", "flushListenerOk", "flushCancel", "flushDelete"}
        BY <1>7 DEF FlushChecksListener
    <2> HIDE DEF l
    <2> QED BY <1>4, <1>5, <1>7, <2>1 DEF FlushChecksListener
<1>8. CASE DoFlushBuffer(t)
    <2>1. state[s] \in {"REQUESTED", "ATTACHED", "NONE"}
        BY <1>5, <1>8 DEF DoFlushBuffer, Owned
    <2>2. CASE s \in Cached /\ Enqueue(s) /\ Finish(t)
        BY <1>1, <1>2, <1>3, <2>1, <2>2, EnqueueQueue DEF Enqueue, SetState
    <2>3. CASE DeleteBufferInCache(s) /\ Finish(t)
        BY <1>1, <1>2, <1>3, <2>1, <2>3, DeleteQueue
    <2>4. CASE /\ Goto(t, "flushDelete")
               /\ UNCHANGED <<elements, lists, deletingList, last, arg>>
        BY <1>4, <2>1, <2>4 DEF Owned
    <2>5. CASE Finish(t) /\ UNCHANGED <<elements, lists, deletingList, last>>
        BY <1>1, <1>3, <2>5, SameQueue
    <2> QED BY <1>8, <2>2, <2>3, <2>4, <2>5 DEF DoFlushBuffer
<1>9. CASE FlushCancels(t)
    <2>1. CASE state[s] \in Owned /\ Free(s)
        BY <1>1, <1>2, <1>3, <1>9, <2>1, FreeQueue DEF FlushCancels, Owned
    <2>2. CASE UNCHANGED <<elements, lists>>
        BY <1>1, <1>3, <1>9, <2>2, SameQueue DEF FlushCancels
    <2> QED BY <1>9, <2>1, <2>2 DEF FlushCancels
<1>10. CASE FlushDeletes(t)
    <2>1. state[s] # "FLUSHED"
        BY <1>5, <1>10 DEF FlushDeletes, Owned
    <2> QED BY <1>1, <1>2, <1>3, <1>10, <2>1, DeleteQueue DEF FlushDeletes
<1> QED BY <1>6, <1>7, <1>8, <1>9, <1>10 DEF FlushStep

(* A call that does all its work in one critical section.                   *)
LEMMA AtOncePreserves ==
    ASSUME IInv, TypeOK', NEW t \in Thread, pc[t] = "idle", UNCHANGED threads,
           QueueOK', Change(t)
    PROVE  IInv'
BY IInvParts, StayMoves, StepPreserves

(* A step that ends its call.                                               *)
LEMMA FinishPreserves ==
    ASSUME IInv, TypeOK', NEW t \in Thread, Finish(t), QueueOK', Change(t),
           pc[t] = "releaseDelete" => state'[arg[t].buf] # "RELEASED"
    PROVE  IInv'
BY IInvParts, FinishMoves, StepPreserves

(* A call that stops at a point where it has checked nothing of its buffer. *)
LEMMA WaitPreserves ==
    ASSUME IInv, TypeOK', NEW t \in Thread, pc[t] = "idle", NEW l, NEW a, Park(t, l, a),
           l \in {"flushStatusOk", "attachChecked", "shrinkWait", "clearWait", "cleanWait", "preAlloc"},
           a.buf \in Mine(t) \union {NULL}, UNCHANGED <<elements, lists>>
    PROVE  IInv'
<1>1. CallTypes /\ QueueOK
    BY IInvParts
<1>2. OnlyMoves(t) /\ pc'[t] = l /\ arg'[t] = a
    BY <1>1, ParkMoves
<1>3. ChecksOf(t)'
    BY <1>2 DEF ChecksOf
<1>4. QueueOK' /\ Change(t)
    BY <1>1, SameQueue
<1> QED BY <1>2, <1>3, <1>4, StepPreserves

(* FlushBuffer's start, CancelBuffer and AttachAndFlushBuffer keep it.      *)
LEMMA FlushCallPreserves ==
    ASSUME SingleOwner, IInv, TypeOK', NEW t \in Thread, NEW s \in Buffers,
           FlushBuffer(t, s) \/ CancelBuffer(t, s) \/ AttachAndFlushBuffer(t, s)
    PROVE  IInv'
<1>1. QueueTypes /\ CallTypes /\ QueueOK
    BY IInvParts
<1>2. s \in Mine(t) /\ pc[t] = "idle"
    BY ExclusiveMine DEF FlushBuffer, CancelBuffer, AttachAndFlushBuffer, Enters, Idle
<1>3. CASE FlushBuffer(t, s)
    <2> DEFINE a == BufferArg(s, FALSE)
    <2>1. Park(t, "flushStatusOk", a) /\ UNCHANGED <<elements, lists>> /\ a.buf = s
        BY <1>3 DEF FlushBuffer, BufferArg
    <2> HIDE DEF a
    <2> QED BY <1>2, <2>1, WaitPreserves
<1>4. CASE CancelBuffer(t, s)
    <2>1. state[s] \notin {"RELEASED", "FLUSHED"} /\ Free(s) /\ UNCHANGED threads
        BY <1>4 DEF CancelBuffer, Owned
    <2> QED BY <1>1, <1>2, <2>1, FreeQueue, AtOncePreserves
<1>5. CASE AttachAndFlushBuffer(t, s)
    <2>1. /\ state[s] \notin {"RELEASED", "FLUSHED"} /\ UNCHANGED <<freeList, threads>>
          /\ state' = [state EXCEPT ![s] = "FLUSHED"] /\ dirtyList' = Append(dirtyList, s)
        BY <1>5 DEF AttachAndFlushBuffer, Insert
    <2> QED BY <1>1, <1>2, <2>1, EnqueueQueue, AtOncePreserves
<1> QED BY <1>3, <1>4, <1>5

(* Acquiring, releasing and the last-flushed lock keep the invariant.       *)
LEMMA ConsumerPreserves ==
    ASSUME SingleOwner, IInv, TypeOK', NEW t \in Thread,
           \/ AcquireBuffer(t)
           \/ \E s \in Buffers : ReleaseBuffer(t, s)
           \/ ReleaseDeletes(t) \/ ReleaseAsks(t)
           \/ AcquireLastFlushedBuffer(t)
           \/ ReleaseLastFlushedBuffer(t)
    PROVE  IInv'
<1>1. QueueTypes /\ CallTypes /\ QueueOK
    BY IInvParts
<1>2. CASE AcquireBuffer(t)
    <2> DEFINE st == "ACQUIRED"
    <2>1. /\ dirtyList # <<>> /\ dirtyList' = Tail(dirtyList) /\ UNCHANGED <<freeList, threads>>
          /\ state' = [state EXCEPT ![Head(dirtyList)] = st] /\ pc[t] = "idle"
          /\ st \notin {"RELEASED", "FLUSHED"}
        BY <1>2 DEF AcquireBuffer, SetState, Enters, Idle
    <2> HIDE DEF st
    <2>2. QueueOK' /\ Change(t)
        BY <1>1, <2>1, DequeueQueue
    <2> QED BY <2>1, <2>2, AtOncePreserves
<1>3. ASSUME NEW s \in Buffers, ReleaseBuffer(t, s)
      PROVE  IInv'
    <2>1. s \in Mine(t) /\ pc[t] = "idle" /\ state[s] \notin {"RELEASED", "FLUSHED"}
        BY <1>1, <1>3, ReleaseCases, ExclusiveMine DEF Enters, Idle
    <2>2. CASE Free(s) /\ UNCHANGED threads
        BY <1>1, <2>1, <2>2, FreeQueue, AtOncePreserves
    <2>3. CASE DeleteBufferInCache(s) /\ UNCHANGED threads
        BY <1>1, <2>1, <2>3, DeleteQueue, AtOncePreserves
    <2>4. CASE /\ SetState(s, "RELEASED")
               /\ Park(t, "releaseDelete", BufferArg(s, FALSE))
               /\ UNCHANGED <<lists, deletingList, notified>>
        <3>1. /\ OnlyMoves(t) /\ pc'[t] = "releaseDelete" /\ arg'[t] = BufferArg(s, FALSE)
              /\ arg'[t].buf = s
            BY <1>1, <2>4, ParkMoves DEF BufferArg
        <3>2. /\ state' = [state EXCEPT ![s] = "RELEASED"] /\ UNCHANGED <<freeList, dirtyList>>
              /\ state'[s] = "RELEASED" /\ s \notin FreeSet
            BY <1>1, <2>1, <2>4 DEF SetState, lists, QueueOK, In, QueueTypes
        <3>3. QueueOK'
            <4>1. FreeSet' = FreeSet
                BY <3>2 DEF FreeSet
            <4>2. In("FLUSHED")' = In("FLUSHED") /\ FreeSet' \subseteq In("RELEASED")'
                BY <1>1, <2>1, <3>2, <4>1 DEF In, QueueOK, QueueTypes
            <4> QED BY <1>1, <3>2, <4>1, <4>2 DEF QueueOK
        <3>4. Change(t)
            BY <1>1, <2>1, <3>1, <3>2 DEF Change, FreeSet, QueueTypes
        <3>5. ChecksOf(t)'
            BY <3>1, <3>2 DEF ChecksOf, FreeSet
        <3> QED BY <2>1, <3>1, <3>3, <3>4, <3>5, StepPreserves
    <2>5. CASE UNCHANGED threads /\ \E G : Lends({s}, {}, G) \/ Lends({}, {s}, G)
        <3>1. PICK R \in SUBSET {s}, D \in SUBSET {s} : \E G : Lends(R, D, G)
            BY <2>5
        <3>2. /\ R \in SUBSET Mine(t) /\ \A u \in R : state[u] \notin {"RELEASED", "FLUSHED"}
              /\ D \in SUBSET Buffers /\ \A u \in D : state[u] # "FLUSHED"
            BY <2>1
        <3>3. QueueOK' /\ Change(t)
            BY <1>1, <3>1, <3>2, LendsQueue
        <3> QED BY <2>1, <2>5, <3>3, AtOncePreserves
    <2>6. CASE Free(s) /\ Park(t, "releaseAsks", NoArg)
        <3>1. QueueOK' /\ Change(t)
            BY <1>1, <2>1, <2>6, FreeQueue
        <3>2. OnlyMoves(t) /\ pc'[t] = "releaseAsks" /\ arg'[t] = NoArg /\ arg'[t].buf = NULL
            BY <1>1, <2>6, ParkMoves DEF NoArg
        <3>3. ChecksOf(t)'
            BY <3>2 DEF ChecksOf
        <3> QED BY <2>1, <3>1, <3>2, <3>3, StepPreserves
    <2> QED BY <1>1, <1>3, <2>2, <2>3, <2>4, <2>5, <2>6, ReleaseCases
<1>4. CASE ReleaseDeletes(t)
    <2> DEFINE s == arg[t].buf
    <2>1. /\ s \in Buffers /\ pc[t] = "releaseDelete" /\ Finish(t) /\ state[s] # "FLUSHED"
          /\ DeleteBufferInCache(s) \/ \E G : Lends({}, {s}, G)
        BY <1>4, ReleaseDeletesMeans
    <2>2. QueueOK' /\ Change(t) /\ state'[s] = "NONE"
        <3>1. CASE DeleteBufferInCache(s)
            BY <1>1, <2>1, <3>1, DeleteQueue
        <3>2. CASE \E G : Lends({}, {s}, G)
            <4> DEFINE R == {}
                       D == {s}
            <4>1. /\ R \in SUBSET Mine(t) /\ \A u \in R : state[u] \notin {"RELEASED", "FLUSHED"}
                  /\ D \in SUBSET Buffers /\ \A u \in D : state[u] # "FLUSHED"
                  /\ s \in D /\ \E G : Lends(R, D, G)
                BY <2>1, <3>2
            <4> HIDE DEF R, D
            <4> QED BY <1>1, <4>1, LendsQueue
        <3> QED BY <2>1, <3>1, <3>2
    <2> QED BY <2>1, <2>2, FinishPreserves
<1>5. CASE ReleaseAsks(t)
    <2> DEFINE R == {}
               D == {}
    <2>1. pc[t] = "releaseAsks" /\ Finish(t) /\ \E G : Lends(R, D, G)
        BY <1>5, ReleaseAsksMeans
    <2>2. /\ R \in SUBSET Mine(t) /\ \A u \in R : state[u] \notin {"RELEASED", "FLUSHED"}
          /\ D \in SUBSET Buffers /\ \A u \in D : state[u] # "FLUSHED"
        OBVIOUS
    <2> HIDE DEF R, D
    <2>3. QueueOK' /\ Change(t)
        BY <1>1, <2>1, <2>2, LendsQueue
    <2> QED BY <2>1, <2>3, FinishPreserves
<1>6. CASE AcquireLastFlushedBuffer(t) \/ ReleaseLastFlushedBuffer(t)
    BY <1>6, SleepPreserves DEF AcquireLastFlushedBuffer, ReleaseLastFlushedBuffer
<1> QED BY <1>2, <1>3, <1>4, <1>5, <1>6

(* AttachBufferToQueue and the detaching calls keep the invariant.          *)
LEMMA DetachPreserves ==
    ASSUME SingleOwner, IInv, TypeOK', NEW t \in Thread, NEW s \in Buffers,
           \/ \E invoker \in {"Producer", "Consumer"} : AttachBufferToQueue(t, s, invoker)
           \/ DetachBuffer(t, s)
           \/ \E isReserveSlot \in BOOLEAN : ConsumerDetach(t, s, isReserveSlot)
    PROVE  IInv'
<1>1. QueueTypes /\ CallTypes /\ QueueOK
    BY IInvParts
<1>2. s \in Mine(t) /\ pc[t] = "idle"
    BY ExclusiveMine DEF AttachBufferToQueue, DetachBuffer, ConsumerDetach, Enters, Idle
<1>3. ASSUME NEW invoker \in {"Producer", "Consumer"}, AttachBufferToQueue(t, s, invoker)
      PROVE  IInv'
    <2> DEFINE st == IF invoker = "Producer" THEN "REQUESTED" ELSE "ACQUIRED"
    <2>1. /\ state' = [state EXCEPT ![s] = st] /\ state[s] \notin {"RELEASED", "FLUSHED"}
          /\ UNCHANGED <<lists, threads>> /\ st \notin {"RELEASED", "FLUSHED"}
        BY <1>3 DEF AttachBufferToQueue, Insert
    <2> HIDE DEF st
    <2>2. QueueOK' /\ Change(t)
        BY <1>1, <1>2, <2>1, PlaceQueue
    <2> QED BY <1>2, <2>1, <2>2, AtOncePreserves
<1>4. CASE DetachBuffer(t, s)
    <2> DEFINE st == "NONE"
    <2>1. /\ state' = [state EXCEPT ![s] = st] /\ state[s] \notin {"RELEASED", "FLUSHED"}
          /\ UNCHANGED <<lists, threads>> /\ st \notin {"RELEASED", "FLUSHED"}
        BY <1>1, <1>4 DEF DetachBuffer, Erase, QueueTypes
    <2> HIDE DEF st
    <2>2. QueueOK' /\ Change(t)
        BY <1>1, <1>2, <2>1, PlaceQueue
    <2> QED BY <1>2, <2>1, <2>2, AtOncePreserves
<1>5. ASSUME NEW isReserveSlot \in BOOLEAN, ConsumerDetach(t, s, isReserveSlot)
      PROVE  IInv'
    <2>1. state[s] = "ACQUIRED"
        BY <1>5 DEF ConsumerDetach
    <2>2. CASE /\ Park(t, "detachDelete", BufferArg(s, isReserveSlot))
               /\ UNCHANGED <<elements, lists, deletingList, reserve>>
        <3>1. OnlyMoves(t) /\ pc'[t] = "detachDelete" /\ arg'[t].buf = s
            BY <1>1, <2>2, ParkMoves DEF BufferArg
        <3>2. ChecksOf(t)'
            BY <2>1, <2>2, <3>1 DEF ChecksOf, elements
        <3>3. QueueOK' /\ Change(t)
            BY <1>1, <2>2, SameQueue
        <3> QED BY <1>2, <3>1, <3>2, <3>3, StepPreserves
    <2>3. CASE DeleteBufferInCache(s) /\ UNCHANGED threads
        BY <1>1, <1>2, <2>1, <2>3, DeleteQueue, AtOncePreserves
    <2> QED BY <1>5, <2>2, <2>3 DEF ConsumerDetach
<1> QED BY <1>3, <1>4, <1>5

(* So does the consumer's detach after its wait.                            *)
LEMMA DetachDeletesPreserves ==
    ASSUME IInv, TypeOK', NEW t \in Thread, DetachDeletes(t)
    PROVE  IInv'
<1> DEFINE s == arg[t].buf
<1>1. QueueTypes /\ CallTypes /\ QueueOK
    BY IInvParts
<1>2. s \in Buffers /\ pc[t] = "detachDelete" /\ DeleteBufferInCache(s) /\ Finish(t)
    BY <1>1, InBufferCall DEF DetachDeletes, BufferCall
<1>3. state[s] # "FLUSHED"
    BY <1>2 DEF IInv, ChecksStillHold
<1>4. QueueOK' /\ Change(t)
    BY <1>1, <1>2, <1>3, DeleteQueue
<1> QED BY <1>2, <1>4, FinishPreserves

(* Every step of AttachBuffer keeps the invariant.                          *)
LEMMA AttachPreserves ==
    ASSUME SingleOwner, IInv, TypeOK', NEW t \in Thread,
           AttachStep(t) \/ \E s \in Buffers : AttachBuffer(t, s)
    PROVE  IInv'
<1> DEFINE s == arg[t].buf
<1>1. QueueTypes /\ CallTypes /\ SettingTypes /\ QueueOK
    BY IInvParts DEF IInv, TypeOK
<1>2. ASSUME NEW b \in Buffers, AttachBuffer(t, b)
      PROVE  IInv'
    <2> DEFINE a == BufferArg(b, FALSE)
               l == "attachChecked"
    <2>1. Park(t, l, a) /\ UNCHANGED <<elements, lists>> /\ a.buf = b /\ pc[t] = "idle"
        BY <1>2 DEF AttachBuffer, BufferArg, Enters, Idle
    <2>2. b \in Mine(t)
        BY <1>2, ExclusiveMine DEF AttachBuffer
    <2>3. l \in {"flushStatusOk", "attachChecked", "shrinkWait", "clearWait", "cleanWait", "preAlloc"}
        OBVIOUS
    <2> HIDE DEF a, l
    <2> QED BY <2>1, <2>2, <2>3, WaitPreserves
<1>3. ASSUME NEW n \in Nat, NEW c, s \in Mine(t), state[s] = "NONE",
             AttachReplacing(n, s, c), Finish(t), pc[t] # "releaseDelete"
      PROVE  IInv'
    <2>1. QueueOK' /\ Change(t)
        BY <1>1, <1>3, AttachReplacingQueue
    <2> QED BY <1>3, <2>1, FinishPreserves
<1>4. CASE AttachLooksUp(t)
    <2>1. pc[t] = "attachChecked" /\ pc[t] \in BufferCall \ {"attachWait"}
        BY <1>4 DEF AttachLooksUp, BufferCall
    <2>2. s \in Buffers /\ s \in Mine(t)
        BY <2>1, CarriedMine DEF Mine
    <2>3. CASE state[s] = "RELEASED" /\ AttachReleased(s) /\ Finish(t)
        <3>1. QueueOK' /\ Change(t)
            BY <1>1, <2>2, <2>3, AttachReleasedQueue
        <3> QED BY <2>1, <2>3, <3>1, FinishPreserves
    <2>4. CASE Goto(t, "attachWait") /\ UNCHANGED <<elements, lists, deletingList, arg>>
        <3>1. OnlyMoves(t) /\ pc'[t] = "attachWait" /\ arg'[t] = arg[t]
            BY <1>1, <2>4, GotoMoves
        <3>2. ChecksOf(t)'
            BY <3>1 DEF ChecksOf
        <3>3. QueueOK' /\ Change(t)
            BY <1>1, <2>4, SameQueue
        <3> QED BY <2>1, <2>2, <3>1, <3>2, <3>3, StepPreserves
    <2>5. CASE /\ state[s] = "NONE" /\ \E c \in Configs : Insert(s, "ATTACHED", c, FALSE)
               /\ Finish(t) /\ UNCHANGED <<lists, deletingList>>
        <3> DEFINE st == "ATTACHED"
        <3>1. /\ state' = [state EXCEPT ![s] = st] /\ st \notin {"RELEASED", "FLUSHED"}
              /\ state[s] \notin {"RELEASED", "FLUSHED"}
            BY <2>5 DEF Insert
        <3> HIDE DEF st
        <3>2. QueueOK' /\ Change(t)
            BY <1>1, <2>2, <2>5, <3>1, PlaceQueue
        <3> QED BY <2>1, <2>5, <3>2, FinishPreserves
    <2>6. CASE /\ state[s] = "NONE" /\ Used >= queueSize
               /\ IF allocating
                  THEN /\ Park(t, "attachDelete", [arg[t] EXCEPT !.count = Excess])
                       /\ UNCHANGED <<elements, lists, deletingList>>
                  ELSE /\ \E c \in Configs : AttachReplacing(Excess, s, c)
                       /\ Finish(t)
        <3>1. CASE /\ Park(t, "attachDelete", [arg[t] EXCEPT !.count = Excess])
                   /\ UNCHANGED <<elements, lists, deletingList>>
            <4>1. OnlyMoves(t) /\ pc'[t] = "attachDelete" /\ arg'[t] = [arg[t] EXCEPT !.count = Excess]
                BY <1>1, <3>1, ParkMoves
            <4>2. arg'[t].buf = s
                BY <1>1, <4>1 DEF CallTypes, ArgType
            <4>3. ChecksOf(t)'
                BY <2>6, <3>1, <4>1, <4>2 DEF ChecksOf, elements
            <4>4. QueueOK' /\ Change(t)
                BY <1>1, <3>1, SameQueue
            <4> QED BY <2>1, <2>2, <4>1, <4>2, <4>3, <4>4, StepPreserves
        <3>2. CASE (\E c \in Configs : AttachReplacing(Excess, s, c)) /\ Finish(t)
            <4> DEFINE n == Excess
            <4>1. n \in Nat
                BY <1>1, <2>6, UsedIsNat, SizeAssumption DEF Excess, SettingTypes
            <4>2. PICK c \in Configs : AttachReplacing(n, s, c)
                BY <3>2
            <4> HIDE DEF n, s
            <4> QED BY <1>3, <2>1, <2>2, <2>6, <3>2, <4>1, <4>2
        <3> QED BY <2>6, <3>1, <3>2
    <2>7. CASE Finish(t) /\ UNCHANGED <<elements, lists, deletingList>>
        BY <1>1, <2>1, <2>7, SameQueue, FinishPreserves
    <2> QED BY <1>4, <2>3, <2>4, <2>5, <2>6, <2>7 DEF AttachLooksUp
<1>5. CASE AttachDeletes(t)
    <2>1. pc[t] = "attachDelete" /\ pc[t] \in BufferCall \ {"attachWait"} /\ Finish(t)
        BY <1>5 DEF AttachDeletes, BufferCall
    <2>2. s \in Mine(t) /\ state[s] = "NONE" /\ arg[t].count \in Nat
        BY <1>1, <2>1, CarriedMine DEF IInv, ChecksStillHold, CallTypes, ArgType
    <2>3. PICK c \in Configs : AttachReplacing(arg[t].count, s, c)
        BY <1>5 DEF AttachDeletes
    <2> QED BY <1>3, <2>1, <2>2, <2>3
<1>6. CASE AttachWakes(t)
    <2>1. s \in Buffers /\ pc[t] = "attachWait" /\ Finish(t)
        BY <1>1, <1>6, InBufferCall DEF AttachWakes, BufferCall
    <2>2. QueueOK' /\ Change(t)
        <3>1. CASE state[s] = "RELEASED" /\ AttachReleased(s)
            BY <1>1, <2>1, <3>1, AttachReleasedQueue
        <3>2. CASE UNCHANGED <<elements, lists>>
            BY <1>1, <3>2, SameQueue
        <3> QED BY <1>6, <3>1, <3>2 DEF AttachWakes
    <2> QED BY <2>1, <2>2, FinishPreserves
<1>7. CASE AttachSleepsAgain(t)
    BY <1>7, SleepPreserves DEF AttachSleepsAgain
<1> QED BY <1>2, <1>4, <1>5, <1>6, <1>7 DEF AttachStep

(* SetQueueSizeLocked keeps the invariant.                                  *)
LEMMA SetSizePreserves ==
    ASSUME IInv, TypeOK', NEW t \in Thread, NEW n \in 0..MaxSize, pc[t] = "idle",
           SetQueueSizeTo(t, n)
    PROVE  IInv'
<1>1. QueueTypes /\ CallTypes /\ QueueOK /\ queueSize \in Int /\ n \in Int
    BY IInvParts, SizeAssumption DEF IInv, TypeOK, SettingTypes
<1>2. CASE UNCHANGED <<elements, lists, deletingList, threads>>
    BY <1>2, SleepPreserves
<1>3. CASE n < queueSize /\ DeleteBuffers(queueSize - n) /\ UNCHANGED <<threads, notified>>
    <2> DEFINE m == queueSize - n
    <2>1. m \in Nat
        BY <1>1, <1>3
    <2>2. DeleteBuffers(m)
        BY <1>3
    <2> HIDE DEF m
    <2>3. QueueOK' /\ Change(t)
        BY <1>1, <2>1, <2>2, DeleteBuffersQueue
    <2> QED BY <1>3, <2>3, AtOncePreserves
<1>4. CASE /\ Park(t, "shrinkWait", SizeArg(queueSize - n, n))
           /\ UNCHANGED <<elements, lists, deletingList, queueSize, notified>>
    <2> DEFINE a == SizeArg(queueSize - n, n)
               l == "shrinkWait"
    <2>1. /\ Park(t, l, a) /\ UNCHANGED <<elements, lists>> /\ a.buf = NULL
          /\ l \in {"flushStatusOk", "attachChecked", "shrinkWait", "clearWait", "cleanWait", "preAlloc"}
        BY <1>4 DEF SizeArg
    <2> HIDE DEF a, l
    <2> QED BY <2>1, WaitPreserves
<1> QED BY <1>2, <1>3, <1>4 DEF SetQueueSizeTo

(* Every step of SetQueueSize and SetMaxQueueSize keeps the invariant.      *)
LEMMA ResizePreserves ==
    ASSUME IInv, TypeOK', NEW t \in Thread,
           \/ \E n \in 1..MaxSize : SetQueueSize(t, n) \/ SetMaxQueueSize(t, n)
           \/ ShrinkAfterAlloc(t)
    PROVE  IInv'
<1>1. QueueTypes /\ CallTypes /\ SettingTypes /\ QueueOK
    BY IInvParts DEF IInv, TypeOK
<1>2. ASSUME NEW n \in 1..MaxSize, SetQueueSize(t, n)
      PROVE  IInv'
    <2> DEFINE m == IF maxQueueSize # 0 /\ n > maxQueueSize THEN maxQueueSize ELSE n
    <2>1. m \in 0..MaxSize /\ SetQueueSizeTo(t, m) /\ pc[t] = "idle"
        BY <1>1, <1>2, SizeAssumption DEF SetQueueSize, SettingTypes, Enters, Idle
    <2> HIDE DEF m
    <2> QED BY <2>1, SetSizePreserves
<1>3. ASSUME NEW n \in 1..MaxSize, SetMaxQueueSize(t, n)
      PROVE  IInv'
    <2>1. n \in 0..MaxSize /\ pc[t] = "idle"
        BY <1>3, SizeAssumption DEF SetMaxQueueSize, Enters, Idle
    <2>2. CASE SetQueueSizeTo(t, n)
        BY <2>1, <2>2, SetSizePreserves
    <2>3. CASE UNCHANGED <<elements, lists, threads>>
        BY <2>3, SleepPreserves
    <2> QED BY <1>3, <2>2, <2>3 DEF SetMaxQueueSize
<1>4. CASE ShrinkAfterAlloc(t)
    <2>1. arg[t].count \in Nat
        BY <1>1 DEF CallTypes, ArgType
    <2>2. DeleteBuffers(arg[t].count) /\ Finish(t) /\ pc[t] # "releaseDelete"
        BY <1>4 DEF ShrinkAfterAlloc
    <2>3. QueueOK' /\ Change(t)
        BY <1>1, <2>1, <2>2, DeleteBuffersQueue
    <2> QED BY <2>2, <2>3, FinishPreserves
<1> QED BY <1>2, <1>3, <1>4

(* Every step of the cleaning calls keeps the invariant.                    *)
LEMMA CleanPreserves ==
    ASSUME IInv, TypeOK', NEW t \in Thread,
           \/ CleanCache(t)
           \/ ClearAfterAlloc(t)
           \/ CleanReleasedBuffers(t)
           \/ CleanReleasedAfterAlloc(t)
           \/ \E S \in SUBSET Buffers : CleanProducerBySeqNum(t, S)
    PROVE  IInv'
<1>1. QueueTypes /\ CallTypes /\ QueueOK
    BY IInvParts
<1>2. Clear \/ CleanReleased => QueueOK' /\ Change(t)
    BY <1>1, ClearQueue, CleanReleasedQueue
<1>3. ASSUME NEW l, Park(t, l, NoArg), UNCHANGED <<elements, lists>>, pc[t] = "idle",
             l \in {"flushStatusOk", "attachChecked", "shrinkWait", "clearWait", "cleanWait", "preAlloc"}
      PROVE  IInv'
    <2> DEFINE a == NoArg
    <2>1. Park(t, l, a) /\ a.buf = NULL
        BY <1>3 DEF NoArg
    <2> HIDE DEF a
    <2> QED BY <1>3, <2>1, WaitPreserves
<1>4. ASSUME Clear \/ CleanReleased, UNCHANGED threads, pc[t] = "idle"
      PROVE  IInv'
    BY <1>2, <1>4, AtOncePreserves
<1>5. CASE CleanCache(t)
    <2>1. pc[t] = "idle"
        BY <1>5 DEF CleanCache, Enters, Idle
    <2> QED BY <1>3, <1>4, <1>5, <2>1 DEF CleanCache
<1>6. CASE CleanReleasedBuffers(t)
    <2>1. pc[t] = "idle"
        BY <1>6 DEF CleanReleasedBuffers, Enters, Idle
    <2> QED BY <1>3, <1>4, <1>6, <2>1 DEF CleanReleasedBuffers
<1>7. CASE ClearAfterAlloc(t) \/ CleanReleasedAfterAlloc(t)
    <2>1. (Clear \/ CleanReleased) /\ Finish(t) /\ pc[t] # "releaseDelete"
        BY <1>7 DEF ClearAfterAlloc, CleanReleasedAfterAlloc
    <2> QED BY <1>2, <2>1, FinishPreserves
<1>8. ASSUME NEW S \in SUBSET Buffers, CleanProducerBySeqNum(t, S)
      PROVE  IInv'
    <2>1. pc[t] = "idle" /\ UNCHANGED threads
        BY <1>8 DEF CleanProducerBySeqNum, Enters, Idle
    <2>2. QueueOK' /\ Change(t)
        BY <1>1, <1>8, CleanSeqNumQueue
    <2> QED BY <2>1, <2>2, AtOncePreserves
<1> QED BY <1>5, <1>6, <1>7, <1>8

(* Both steps of PreAllocBuffers keep the invariant.                        *)
LEMMA PreAllocPreserves ==
    ASSUME IInv, TypeOK', NEW t \in Thread,
           \/ \E n \in 1..MaxSize, c \in Configs : PreAllocBuffers(t, n, c)
           \/ PreAllocated(t)
    PROVE  IInv'
<1>1. QueueTypes /\ CallTypes /\ QueueOK
    BY IInvParts
<1>2. ASSUME NEW n \in 1..MaxSize, NEW c \in Configs, PreAllocBuffers(t, n, c)
      PROVE  IInv'
    <2> DEFINE room == (Slots - Used) % WordSize
               k == IF n > room THEN room ELSE n
               a == ConfigArg(c, FALSE, k)
               l == "preAlloc"
    <2>1. /\ Park(t, l, a) /\ UNCHANGED <<elements, lists>> /\ pc[t] = "idle" /\ a.buf = NULL
          /\ l \in {"flushStatusOk", "attachChecked", "shrinkWait", "clearWait", "cleanWait", "preAlloc"}
        BY <1>2 DEF PreAllocBuffers, ConfigArg, Enters, Idle
    <2> HIDE DEF a, l
    <2> QED BY <2>1, WaitPreserves
<1>3. CASE PreAllocated(t)
    <2>1. QueueOK' /\ Change(t) /\ Finish(t) /\ pc[t] # "releaseDelete"
        BY <1>1, <1>3, PreAllocQueue DEF PreAllocated
    <2> QED BY <2>1, FinishPreserves
<1> QED BY <1>2, <1>3

(* Changes of status, listener and modes keep the invariant.                *)
LEMMA ModePreserves ==
    ASSUME IInv, TypeOK', NEW t \in Thread,
           \/ SetStatus(t)
           \/ SetConsumerListener(t)
           \/ SetRequestBufferNoblockMode(t)
           \/ SetIsPriorityAlloc(t)
    PROVE  IInv'
BY SleepPreserves DEF SetStatus, SetConsumerListener, SetRequestBufferNoblockMode, SetIsPriorityAlloc

-----------------------------------------------------------------------------
(* A new queue satisfies the invariant.                                     *)
LEMMA IInvInit ==
    ASSUME Init
    PROVE  IInv
<1>1. TypeOK
    BY TypeInit
<1>2. ToSet(<<>>) = {} /\ IsInjective(<<>>)
    BY EmptySeq DEF IsInjective, ToSet
<1>3. ListsMatchStates
    BY <1>2 DEF Init, ListsMatchStates
<1>4. ChecksStillHold
    BY DEF Init, ChecksStillHold
<1>5. OneCallPerBuffer
    BY DEF Init, OneCallPerBuffer, NoArg
<1> QED BY <1>1, <1>3, <1>4, <1>5 DEF IInv

(* Every step keeps the invariant, when buffers have one owner at a time.   *)
LEMMA IInvStep ==
    ASSUME SingleOwner, IInv, [Next]_vars
    PROVE  IInv'
<1>1. TypeOK'
    BY TypeStep DEF IInv
<1>2. CASE UNCHANGED vars
    BY <1>1, <1>2, SleepPreserves DEF vars
<1>3. ASSUME NEW t \in Thread, ProducerCall(t)
      PROVE  IInv'
    <2>1. CASE \E s \in Buffers : FlushBuffer(t, s) \/ CancelBuffer(t, s) \/ AttachAndFlushBuffer(t, s)
        BY <1>1, <2>1, FlushCallPreserves
    <2>2. CASE \E s \in Buffers : AttachBufferToQueue(t, s, "Producer") \/ DetachBuffer(t, s)
        BY <1>1, <2>2, DetachPreserves
    <2> QED BY <1>1, <1>3, <2>1, <2>2, RequestPreserves, AttachPreserves, PreAllocPreserves
            DEF ProducerCall
<1>4. ASSUME NEW t \in Thread, ConsumerCall(t)
      PROVE  IInv'
    BY <1>1, <1>4, ConsumerPreserves, DetachPreserves DEF ConsumerCall
<1>5. ASSUME NEW t \in Thread, ControlCall(t)
      PROVE  IInv'
    BY <1>1, <1>5, ConsumerPreserves, ResizePreserves, CleanPreserves, ModePreserves DEF ControlCall
<1>6. ASSUME NEW t \in Thread, Step(t)
      PROVE  IInv'
    <2>1. CASE RequestStep(t) \/ FlushStep(t) \/ AttachStep(t)
        BY <1>1, <2>1, RequestPreserves, FlushPreserves, AttachPreserves
    <2>2. CASE ReleaseDeletes(t) \/ ReleaseAsks(t) \/ DetachDeletes(t) \/ ShrinkAfterAlloc(t)
        BY <1>1, <2>2, ConsumerPreserves, DetachDeletesPreserves, ResizePreserves
    <2>3. CASE ClearAfterAlloc(t) \/ CleanReleasedAfterAlloc(t) \/ PreAllocated(t)
        BY <1>1, <2>3, CleanPreserves, PreAllocPreserves
    <2> QED BY <1>6, <2>1, <2>2, <2>3 DEF Step, WaiterStep
<1> QED BY <1>2, <1>3, <1>4, <1>5, <1>6 DEF Next

(* freeList_, dirtyList_ and the states of the elements agree in every      *)
(* reachable state, between the lock scopes of half-done calls included:    *)
(* no buffer is lost and none is handed out twice, when the calls naming    *)
(* one buffer do not overlap.                                               *)
THEOREM ListsCorrect == SingleOwner => (Spec => []ListsMatchStates)
<1> SUFFICES ASSUME SingleOwner PROVE Spec => []ListsMatchStates
    OBVIOUS
<1>1. Init => IInv
    BY IInvInit
<1>2. IInv /\ [Next]_vars => IInv'
    BY IInvStep
<1>3. IInv => ListsMatchStates
    BY DEF IInv
<1> QED BY <1>1, <1>2, <1>3, PTL DEF Spec

(* What a call checked before it let go of mutex_ still holds when it goes  *)
(* on: FlushBuffer enqueues only a buffer its producer owns, and no call    *)
(* deletes a buffer that has meanwhile been given to someone.               *)
THEOREM ChecksCorrect == SingleOwner => (Spec => []ChecksStillHold)
<1> SUFFICES ASSUME SingleOwner PROVE Spec => []ChecksStillHold
    OBVIOUS
<1>1. Init => IInv
    BY IInvInit
<1>2. IInv /\ [Next]_vars => IInv'
    BY IInvStep
<1>3. IInv => ChecksStillHold
    BY DEF IInv
<1> QED BY <1>1, <1>2, <1>3, PTL DEF Spec
==============================================================================
