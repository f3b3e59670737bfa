------------------------ MODULE ProducerSessionProofs ------------------------
(***************************************************************************)
(* The producers' sessions, for any number of surfaces, threads, buffers   *)
(* and configurations.                                                     *)
(*                                                                         *)
(* The queue inside a session takes the steps of BufferQueue and one more: *)
(* UpdateReuseBufferState may revive an erased element.  Where nobody goes *)
(* to the background, or the process the producer is told of stays alive,  *)
(* it does not happen, and the queue keeps what it promises alone.  The    *)
(* caches need more: a cache that is not empty is the connected process's  *)
(* or on its way out, what it holds the queue knows or has told, and an    *)
(* entry whose number a new buffer took is on its way out, or the next     *)
(* grant of that number brings the buffer itself.                          *)
(***************************************************************************)
EXTENDS ProducerSession, BufferQueueStepProofs

(* A step of the session is a step of the queue, or what follows the wait   *)
(* of SetProducerCacheCleanFlagLocked.                                      *)
LEMMA SessionSteps ==
    ASSUME [SessionNext]_sessionVars
    PROVE  [Next]_vars \/ \E t \in Thread : SetProducerCacheCleanFlagLocked(t)
<1>1. CASE UNCHANGED vars
    BY <1>1
<1>2. ASSUME NEW t \in Thread, Cleans(t), ~UNCHANGED vars
      PROVE  Next
    <2>1. \/ CleanCache(t) \/ ClearAfterAlloc(t)
          \/ CleanReleasedBuffers(t) \/ CleanReleasedAfterAlloc(t)
        BY <1>2 DEF Cleans, ClientCleanCache, ServerCleans, CleansUnder, ClientCleaned,
                    ClientFrees, ServerFrees, ServerFreesAfterAlloc, ClientFreed
    <2> QED BY <2>1 DEF Next, ControlCall, Step, WaiterStep
<1>3. ASSUME NEW t \in Thread, Connects(t), ~UNCHANGED vars
      PROVE  SetProducerCacheCleanFlagLocked(t)
    BY <1>3 DEF Connects, ClientDisconnect, ServerDisconnects, ClientDisconnected, ClientConnect,
                ServerConnectsOnly, ClientConnected, SetStrictly, ClientBackground, ServerBackground
<1>4. ASSUME NEW t \in Thread, Requests(t), ~UNCHANGED vars
      PROVE  Next
    <2>1. RequestBuffer(t)
        BY <1>4 DEF Requests, ClientRequest, ServerConnects, QueueRequest, ClientGranted,
                    ClientFailed, ClientNoConsumer
    <2> QED BY <2>1 DEF Next, ProducerCall
<1>5. ASSUME NEW t \in Thread, GoesOn(t)
      PROVE  Next
    BY <1>5 DEF GoesOn, Next, Step
<1>6. ASSUME NEW t \in Thread, ConsumerCalls(t), ~UNCHANGED vars
      PROVE  Next
    <2>1. FALSE \in BOOLEAN
        OBVIOUS
    <2> QED BY <1>6, <2>1 DEF ConsumerCalls, ReleaseBuffer, Next, ConsumerCall
<1>7. ASSUME NEW t \in Thread, OwnerCalls(t)
      PROVE  Next
    <2>1. 1 \in 1..MaxSize
        BY SizeAssumption
    <2>2. CASE SetStatus(t)
        BY <2>2 DEF Next, ControlCall
    <2>3. CASE \E c \in Configs : PreAllocBuffers(t, 1, c)
        BY <2>1, <2>3 DEF Next, ProducerCall
    <2>4. CASE \E S \in SUBSET Buffers : CleanProducerBySeqNum(t, S)
        BY <2>4 DEF Next, ControlCall
    <2> QED BY <1>7, <2>2, <2>3, <2>4 DEF OwnerCalls
<1>8. ASSUME NEW t \in Thread, NEW s \in Buffers, ClientReturns(t, s)
      PROVE  Next
    BY <1>8 DEF ClientReturns, Next, ProducerCall
<1>9. ASSUME NEW t \in Thread, NEW p,
             ReplyLost(t) \/ OnRemoteDied(t, p) \/ (\E b \in BOOLEAN : OwnerCleans(t, b)) \/ Dies(p)
      PROVE  UNCHANGED vars
    BY <1>9 DEF ReplyLost, OnRemoteDied, OwnerCleans, Dies
<1>10. (\E p \in Process : Dies(p)) \/ NobodyLeft => UNCHANGED vars
    BY DEF Dies, NobodyLeft, sessionVars
<1>11. UNCHANGED sessionVars => UNCHANGED vars
    BY DEF sessionVars
<1> QED BY <1>1, <1>2, <1>3, <1>4, <1>5, <1>6, <1>7, <1>8, <1>9, <1>10, <1>11 DEF SessionNext

-----------------------------------------------------------------------------
(* Types. *)

CallPlace == {"none", "connect", "queue", "flagWait", "granted", "refused", "failed",
              "noConsumer", "clean", "cleaning", "cleaned", "disconnect", "disconnecting",
              "disconnected", "connectOnly", "connected", "background", "setFlag", "flagToo",
              "free", "freeing", "freed", "burying", "goingBackground"}

CallType == [at : CallPlace, seq : Buffers \union {NULL}, full : BOOLEAN,
             del : SUBSET Buffers, realloc : BOOLEAN]

SessionTypes ==
    /\ cache \in [Surface -> SUBSET Buffers]
    /\ stale \in [Surface -> SUBSET Buffers]
    /\ call \in [Thread -> CallType]

(* Reviving an element keeps the types of the queue.                        *)
LEMMA ReviveTypes ==
    ASSUME TypeOK, NEW t \in Thread, SetProducerCacheCleanFlagLocked(t)
    PROVE  TypeOK'
<1>1. UNCHANGED <<isDeleting, isPreAlloc, config, lists, deletingList, sizes, allocating, modes,
                  last, threads, notified>>
    BY DEF SetProducerCacheCleanFlagLocked
<1>2. state' \in [Buffers -> BufferState \union {"NONE"}]
    <2>1. "RELEASED" \in BufferState
        BY DEF BufferState
    <2> QED BY <2>1 DEF SetProducerCacheCleanFlagLocked, TypeOK, QueueTypes
<1>3. QueueTypes'
    BY <1>1, <1>2 DEF TypeOK, QueueTypes, lists
<1>4. SettingTypes' /\ CallTypes'
    <2>1. notified' \subseteq Thread
        BY <1>1 DEF TypeOK, CallTypes
    <2> QED BY <1>1, <2>1, SameSettingTypes, SameCallTypes DEF TypeOK
<1> QED BY <1>3, <1>4 DEF TypeOK

(* Every step of the session keeps the types of the queue.                  *)
LEMMA SessionKeepsQueueTypes ==
    ASSUME TypeOK, [SessionNext]_sessionVars
    PROVE  TypeOK'
BY SessionSteps, TypeStep, ReviveTypes

(* The values a call takes.                                                 *)
LEMMA CallValues ==
    /\ NoCall \in CallType
    /\ \A at \in CallPlace : CallAt(at) \in CallType
    /\ NoCall.at = "none" /\ \A at : CallAt(at).at = at
BY NullAssumption DEF NoCall, CallAt, CallType, CallPlace

-----------------------------------------------------------------------------
(* What the calls of the queue mean to a session. *)

AttachCall == {"attachChecked", "attachWait", "attachDelete"}

(* The step grants no buffer; one that comes is allocated ahead and marked, *)
(* or the head of the dirty list; a mark goes only with its buffer.         *)
Tame(t) ==
    /\ \A s \in Buffers : state[s] = "NONE" /\ state'[s] # "NONE" =>
          (pc[t] = "preAlloc" /\ s \in isPreAlloc') \/ AcquireBuffer(t)
    /\ \A s \in Buffers : state'[s] = "REQUESTED" => state[s] = "REQUESTED"
    /\ \A s \in isPreAlloc' \ isPreAlloc : state'[s] = "RELEASED"
    /\ \A s \in isPreAlloc \ isPreAlloc' : state'[s] = "NONE"

(* The step hands free buffers to the listener: none comes, and none the    *)
(* producer has not been sent goes to it.                                   *)
HandsOut(t) ==
    /\ \A s \in Buffers : state[s] = "NONE" /\ state'[s] # "NONE" => s \in ToSet(freeList)
    /\ \A s \in GrantedBy(t) : s \notin isPreAlloc
    /\ isPreAlloc' \subseteq isPreAlloc
    /\ \A s \in isPreAlloc \ isPreAlloc' : state'[s] = "NONE"

(* Where a step of thread t, outside RequestBuffer, may lead it.            *)
Moves(t) ==
    /\ \A u \in Thread \ {t} : pc'[u] = pc[u]
    /\ calls' = calls
    /\ pc'[t] \notin AttachCall \union RequestCall
    /\ pc'[t] = "preAlloc" => "PreAllocBuffers" \in calls[t]

(* A step that leaves the elements alone is tame.                           *)
LEMMA SameTame ==
    ASSUME NEW t, UNCHANGED elements
    PROVE  Tame(t)
BY DEF Tame, elements

(* So is one that erases some,                                              *)
LEMMA EraseTame ==
    ASSUME TypeOK, NEW t, NEW S, Erase(S)
    PROVE  Tame(t)
BY DEF Tame, Erase, TypeOK, QueueTypes

(* deletes one,                                                             *)
LEMMA DeleteTame ==
    ASSUME TypeOK, NEW t, NEW s, DeleteBufferInCache(s)
    PROVE  Tame(t)
BY EraseTame DEF DeleteBufferInCache, Delete

(* or gives a buffer of the queue another state than requested.             *)
LEMMA SetStateTame ==
    ASSUME TypeOK, NEW t, NEW s, state[s] # "NONE", NEW st, st # "REQUESTED", SetState(s, st)
    PROVE  Tame(t)
BY DEF Tame, SetState, TypeOK, QueueTypes

(* A buffer its owner gives back.                                           *)
LEMMA FreeTame ==
    ASSUME TypeOK, NEW t, NEW s, state[s] # "NONE", Free(s)
    PROVE  Tame(t)
<1>1. PICK st : st = "RELEASED"
    OBVIOUS
<1> QED BY <1>1, SetStateTame DEF Free

(* RequestBuffersForListenerLocked grants buffers of the free list, or the  *)
(* one just released.                                                       *)
LEMMA ListenerHandsOut ==
    ASSUME TypeOK, NEW t, NEW R, NEW D, NEW C, NEW X \in SUBSET Buffers, NEW F \in Seq(X),
           HandsOver(R, D, F, C), R \subseteq X,
           \A u \in X : state[u] # "NONE" \/ u \in ToSet(freeList)
    PROVE  HandsOut(t)
<1>1. F \in Seq(Buffers) /\ ToSet(F) \subseteq X
    <2>1. DOMAIN F = 1..Len(F) /\ F \in [1..Len(F) -> X] /\ Len(F) \in Nat
        BY LenProperties
    <2> QED BY <2>1, SeqDef DEF ToSet
<1>2. PICK G \in SUBSET ToSet(F) : Lent(R, D, G)
    BY <1>1, HandsOverLends
<1>3. isPreAlloc \subseteq Buffers
    BY DEF TypeOK, QueueTypes
<1>4. \A s \in Buffers : state[s] = "NONE" /\ state'[s] # "NONE" => s \in ToSet(freeList)
    BY <1>1, <1>2 DEF Lent
<1>5. \A s \in GrantedBy(t) : s \notin isPreAlloc
    BY <1>2 DEF Lent, GrantedBy
<1>6. isPreAlloc' \subseteq isPreAlloc /\ \A s \in isPreAlloc \ isPreAlloc' : state'[s] = "NONE"
    BY <1>2, <1>3 DEF Lent
<1> QED BY <1>4, <1>5, <1>6 DEF HandsOut

(* The lists it is asked for hold what was free, and the buffer released.   *)
LEMMA ListsOfTheFree ==
    ASSUME TypeOK
    PROVE  /\ ToSet(freeList) \subseteq Buffers
           /\ freeList \in Seq(ToSet(freeList))
           /\ \A s : /\ RemoveFirst(freeList, s) \in Seq(ToSet(freeList))
                     /\ RemoveFirst(freeList, s) \in Seq(ToSet(freeList) \union {s})
                     /\ Append(freeList, s) \in Seq(ToSet(freeList) \union {s})
<1> DEFINE X == ToSet(freeList)
<1>1. freeList \in Seq(Buffers)
    BY DEF TypeOK, QueueTypes
<1>2. X \subseteq Buffers /\ freeList \in Seq(X)
    <2>1. DOMAIN freeList = 1..Len(freeList) /\ Len(freeList) \in Nat
          /\ freeList \in [1..Len(freeList) -> Buffers]
        BY <1>1, LenProperties
    <2>2. freeList \in [1..Len(freeList) -> X]
        BY <2>1 DEF ToSet
    <2>3. X \subseteq Buffers
        BY <2>1 DEF ToSet
    <2> QED BY <2>1, <2>2, <2>3, SeqDef
<1>3. ASSUME NEW s
      PROVE  /\ RemoveFirst(freeList, s) \in Seq(X)
             /\ RemoveFirst(freeList, s) \in Seq(X \union {s})
             /\ Append(freeList, s) \in Seq(X \union {s})
    <2> HIDE DEF X
    <2>1. freeList \in Seq(X \union {s})
        BY <1>2, LenProperties, SeqDef
    <2>2. RemoveFirst(freeList, s) \in Seq(X)
        BY <1>2, RemoveFirstIsRemoveAt, RemoveAtInSeq
    <2>3. RemoveFirst(freeList, s) \in Seq(X \union {s})
        BY <2>1, RemoveFirstIsRemoveAt, RemoveAtInSeq
    <2> QED BY <2>1, <2>2, <2>3, AppendProperties
<1> QED BY <1>2, <1>3

(* A call that ends leads its thread outside.                               *)
LEMMA FinishAt ==
    ASSUME TypeOK, NEW t \in Thread, Finish(t), UNCHANGED calls
    PROVE  Moves(t)
<1>1. pc' = [pc EXCEPT ![t] = "idle"] /\ pc \in [Thread -> Location]
    BY DEF Finish, TypeOK, CallTypes
<1> QED BY <1>1 DEF Moves, AttachCall, RequestCall

(* A call that completes at once leaves it there.                           *)
LEMMA StayAt ==
    ASSUME TypeOK, NEW t \in Thread, UNCHANGED <<pc, calls>>,
           pc[t] \notin AttachCall \union RequestCall, pc[t] # "preAlloc"
    PROVE  Moves(t)
BY DEF Moves

(* A call that goes on outside RequestBuffer.                               *)
LEMMA GoAt ==
    ASSUME TypeOK, NEW t \in Thread, NEW l, pc' = [pc EXCEPT ![t] = l], UNCHANGED calls,
           l \notin AttachCall \union RequestCall, l # "preAlloc"
    PROVE  Moves(t)
BY DEF Moves, TypeOK, CallTypes

(* A thread that enters the queue comes from outside.                       *)
LEMMA IdleIsOutside ==
    ASSUME NEW t, Idle(t)
    PROVE  pc[t] \notin AttachCall \union RequestCall /\ pc[t] # "preAlloc"
BY DEF Idle, AttachCall, RequestCall

(* The calls of a producer and of a consumer, and those of the queue's own  *)
(* process, in a session.                                                   *)
LEMMA EntryEffects ==
    ASSUME TypeOK, NEW t \in Thread,
           \/ \E s \in Buffers : \/ FlushBuffer(t, s) \/ CancelBuffer(t, s)
                                 \/ ReleaseUnlistened(t, s) \/ ConsumerDetach(t, s, FALSE)
           \/ AcquireBuffer(t) \/ CleanCache(t) \/ CleanReleasedBuffers(t) \/ SetStatus(t)
           \/ \E S \in SUBSET Buffers : CleanProducerBySeqNum(t, S)
           \/ \E c \in Configs : PreAllocBuffers(t, 1, c)
    PROVE  Tame(t) /\ Moves(t)
<1>1. Idle(t)
    BY DEF FlushBuffer, CancelBuffer, ReleaseUnlistened, ConsumerDetach, AcquireBuffer, CleanCache,
           CleanReleasedBuffers, SetStatus, CleanProducerBySeqNum, PreAllocBuffers, Enters
<1>2. CASE \E s \in Buffers : FlushBuffer(t, s)
    BY <1>2, SameTame, GoAt DEF FlushBuffer, Park, modes, AttachCall, RequestCall
<1>3. ASSUME NEW s \in Buffers, CancelBuffer(t, s)
      PROVE  Tame(t) /\ Moves(t)
    BY <1>1, <1>3, FreeTame, StayAt, IdleIsOutside DEF CancelBuffer, Owned, threads, modes
<1>4. ASSUME NEW s \in Buffers, ReleaseUnlistened(t, s)
      PROVE  Tame(t) /\ Moves(t)
    <2>1. CASE SetState(s, "RELEASED") /\ Park(t, "releaseDelete", BufferArg(s, FALSE))
        <3>1. PICK st : st = "RELEASED"
            OBVIOUS
        <3> QED BY <1>4, <2>1, <3>1, SetStateTame, GoAt
                DEF ReleaseUnlistened, Park, modes, AttachCall, RequestCall
    <2>2. CASE UNCHANGED threads /\ (Free(s) \/ DeleteBufferInCache(s))
        BY <1>1, <1>4, <2>2, FreeTame, DeleteTame, StayAt, IdleIsOutside
           DEF ReleaseUnlistened, threads, modes
    <2> QED BY <1>4, <2>1, <2>2 DEF ReleaseUnlistened
<1>5. ASSUME NEW s \in Buffers, ConsumerDetach(t, s, FALSE)
      PROVE  Tame(t) /\ Moves(t)
    <2>1. CASE UNCHANGED elements /\ Park(t, "detachDelete", BufferArg(s, FALSE))
        BY <1>5, <2>1, SameTame, GoAt DEF ConsumerDetach, Park, modes, AttachCall, RequestCall
    <2>2. CASE UNCHANGED threads /\ DeleteBufferInCache(s)
        BY <1>1, <1>5, <2>2, DeleteTame, StayAt, IdleIsOutside DEF ConsumerDetach, threads, modes
    <2> QED BY <1>5, <2>1, <2>2 DEF ConsumerDetach
<1>6. CASE AcquireBuffer(t)
    <2>1. Tame(t)
        BY <1>6 DEF AcquireBuffer, SetState, Tame, TypeOK, QueueTypes
    <2> QED BY <1>1, <1>6, <2>1, StayAt, IdleIsOutside DEF AcquireBuffer, threads, modes
<1>7. CASE CleanCache(t) \/ CleanReleasedBuffers(t)
    <2>1. CASE UNCHANGED elements /\ (Park(t, "clearWait", NoArg) \/ Park(t, "cleanWait", NoArg))
        BY <1>7, <2>1, SameTame, GoAt
           DEF CleanCache, CleanReleasedBuffers, Park, modes, AttachCall, RequestCall
    <2>2. CASE UNCHANGED threads /\ (Clear \/ CleanReleased)
        BY <1>1, <1>7, <2>2, EraseTame, StayAt, IdleIsOutside
           DEF CleanCache, CleanReleasedBuffers, Clear, CleanReleased, threads, modes
    <2> QED BY <1>7, <2>1, <2>2 DEF CleanCache, CleanReleasedBuffers
<1>8. CASE SetStatus(t)
    BY <1>1, <1>8, SameTame, StayAt, IdleIsOutside DEF SetStatus, threads
<1>9. CASE \E S \in SUBSET Buffers : CleanProducerBySeqNum(t, S)
    BY <1>1, <1>9, EraseTame, StayAt, IdleIsOutside DEF CleanProducerBySeqNum, threads, modes
<1>10. CASE \E c \in Configs : PreAllocBuffers(t, 1, c)
    <2>1. /\ UNCHANGED elements /\ calls' = calls /\ "PreAllocBuffers" \in calls[t]
          /\ pc' = [pc EXCEPT ![t] = "preAlloc"]
        BY <1>10 DEF PreAllocBuffers, Enters, Park, modes
    <2> QED BY <2>1, SameTame DEF Moves, TypeOK, CallTypes, AttachCall, RequestCall
<1> QED BY <1>2, <1>3, <1>4, <1>5, <1>6, <1>7, <1>8, <1>9, <1>10

(* A release with a listener on the connection.                             *)
LEMMA ListenerEffects ==
    ASSUME TypeOK, NEW t \in Thread, NEW s \in Buffers, ReleaseToListener(t, s)
    PROVE  (Tame(t) \/ HandsOut(t)) /\ Moves(t)
<1>1. Idle(t) /\ state[s] # "NONE" /\ UNCHANGED modes
    BY DEF ReleaseToListener, Enters
<1>2. CASE Free(s) /\ Park(t, "releaseAsks", NoArg)
    BY <1>1, <1>2, FreeTame, GoAt DEF Park, modes, AttachCall, RequestCall
<1>3. ASSUME UNCHANGED threads
      PROVE  Moves(t)
    BY <1>1, <1>3, StayAt, IdleIsOutside DEF threads, modes
<1> DEFINE X == ToSet(freeList) \union {s}
           e == {}
           S == {s}
<1>4. /\ X \in SUBSET Buffers /\ e \subseteq X /\ S \subseteq X
      /\ \A u \in X : state[u] # "NONE" \/ u \in ToSet(freeList)
      /\ Append(freeList, s) \in Seq(X) /\ RemoveFirst(freeList, s) \in Seq(X)
    BY <1>1, ListsOfTheFree
<1>5. \/ Free(s) /\ Park(t, "releaseAsks", NoArg)
      \/ UNCHANGED threads /\ HandsOver(S, e, Append(freeList, s), Configs)
      \/ UNCHANGED threads /\ HandsOver(e, S, RemoveFirst(freeList, s), Configs)
    BY DEF ReleaseToListener
<1> HIDE DEF X, e, S
<1>6. CASE HandsOver(S, e, Append(freeList, s), Configs)
    BY <1>2, <1>3, <1>4, <1>5, <1>6, ListenerHandsOut
<1>7. CASE HandsOver(e, S, RemoveFirst(freeList, s), Configs)
    BY <1>2, <1>3, <1>4, <1>5, <1>7, ListenerHandsOut
<1> QED BY <1>2, <1>5, <1>6, <1>7

(* A consumer attaches a buffer the queue did not have, as its own.         *)
LEMMA AttachEffect ==
    ASSUME TypeOK, NEW t \in Thread, NEW s \in Buffers, AttachBufferToQueue(t, s, "Consumer")
    PROVE  /\ Moves(t)
           /\ state[s] = "NONE" /\ state' = [state EXCEPT ![s] = "ACQUIRED"]
           /\ isPreAlloc' = isPreAlloc \ {s}
<1>1. Idle(t) /\ state[s] = "NONE" /\ UNCHANGED <<threads, modes>>
    BY DEF AttachBufferToQueue, Enters
<1>2. state' = [state EXCEPT ![s] = "ACQUIRED"] /\ isPreAlloc' = isPreAlloc \ {s}
    BY DEF AttachBufferToQueue, Insert
<1>3. Moves(t)
    BY <1>1, StayAt, IdleIsOutside DEF threads, modes
<1> QED BY <1>1, <1>2, <1>3

(* What a thread does inside a call, RequestBuffer and AttachBuffer apart.  *)
LEMMA StepEffects ==
    ASSUME TypeOK, NEW t \in Thread, FlushStep(t) \/ WaiterStep(t)
    PROVE  /\ Tame(t) \/ (HandsOut(t) /\ pc[t] \in {"releaseDelete", "releaseAsks"})
           /\ Moves(t)
<1> DEFINE s == arg[t].buf
<1>1. CASE FlushStep(t)
    <2>1. Moves(t)
        BY <1>1, FinishAt, GoAt
           DEF FlushStep, FlushChecksCache, FlushChecksListener, DoFlushBuffer, FlushCancels,
               FlushDeletes, Goto, modes, AttachCall, RequestCall
    <2>2. CASE UNCHANGED elements \/ DeleteBufferInCache(s)
        BY <2>1, <2>2, SameTame, DeleteTame
    <2>3. CASE state[s] \in Owned /\ Free(s)
        BY <2>1, <2>3, FreeTame DEF Owned
    <2>4. CASE DoFlushBuffer(t) /\ s \in Cached /\ Enqueue(s)
        <3>1. PICK st : st = "FLUSHED"
            OBVIOUS
        <3>2. Tame(t)
            BY <2>4, <3>1, SetStateTame DEF Enqueue, Cached
        <3> QED BY <2>1, <3>2
    <2> QED BY <1>1, <2>2, <2>3, <2>4
            DEF FlushStep, FlushChecksCache, FlushChecksListener, DoFlushBuffer, FlushCancels,
                FlushDeletes
<1>2. CASE ReleaseDeletes(t) \/ ReleaseAsks(t) \/ DetachDeletes(t)
    <2>1. Moves(t)
        BY <1>2, FinishAt DEF ReleaseDeletes, ReleaseAsks, DetachDeletes, modes
    <2>2. CASE DeleteBufferInCache(s)
        BY <2>1, <2>2, DeleteTame
    <2> DEFINE X == ToSet(freeList)
               e == {}
               S == {s}
    <2>3. X \in SUBSET Buffers /\ freeList \in Seq(X) /\ e \subseteq X
        BY ListsOfTheFree
    <2>4. CASE pc[t] = "releaseDelete" /\ HandsOver({}, {s}, RemoveFirst(freeList, s), Configs)
        <3>1. s \in Buffers
            BY <2>4, InBufferCall DEF TypeOK, BufferCall
        <3>2. RemoveFirst(freeList, s) \in Seq(X) /\ HandsOver(e, S, RemoveFirst(freeList, s), Configs)
            BY <2>4, <3>1, ListsOfTheFree
        <3> HIDE DEF X, e, S
        <3>3. \A u \in X : state[u] # "NONE" \/ u \in ToSet(freeList)
            BY DEF X
        <3> QED BY <2>1, <2>3, <2>4, <3>2, <3>3, ListenerHandsOut
    <2>5. ASSUME NEW C, pc[t] = "releaseAsks", HandsOver(e, e, freeList, C)
          PROVE  HandsOut(t)
        <3> HIDE DEF X, e
        <3>1. \A u \in X : state[u] # "NONE" \/ u \in ToSet(freeList)
            BY DEF X
        <3> QED BY <2>3, <2>5, <3>1, ListenerHandsOut
    <2> QED BY <1>2, <2>1, <2>2, <2>4, <2>5 DEF ReleaseDeletes, ReleaseAsks, DetachDeletes
<1>3. CASE ClearAfterAlloc(t) \/ CleanReleasedAfterAlloc(t)
    BY <1>3, EraseTame, FinishAt
       DEF ClearAfterAlloc, CleanReleasedAfterAlloc, Clear, CleanReleased, modes
<1>4. CASE ShrinkAfterAlloc(t)
    <2>1. Tame(t)
        BY <1>4 DEF ShrinkAfterAlloc, DeleteBuffers, Tame, TypeOK, QueueTypes
    <2> QED BY <1>4, <2>1, FinishAt DEF ShrinkAfterAlloc, modes
<1>5. CASE PreAllocated(t)
    <2>1. PICK new \in SUBSET Buffers :
              /\ state' = [u \in Buffers |-> IF u \in new THEN "RELEASED" ELSE state[u]]
              /\ isPreAlloc' = isPreAlloc \union new
        <3>1. PICK n \in 0..arg[t].count : \E f \in Increasing(n, Unused) :
                  /\ state' = [u \in Buffers |->
                                 IF u \in {f[i] : i \in 1..n} THEN "RELEASED" ELSE state[u]]
                  /\ isPreAlloc' = isPreAlloc \union {f[i] : i \in 1..n}
            BY <1>5 DEF PreAllocated
        <3>2. PICK f \in Increasing(n, Unused) :
                  /\ state' = [u \in Buffers |->
                                 IF u \in {f[i] : i \in 1..n} THEN "RELEASED" ELSE state[u]]
                  /\ isPreAlloc' = isPreAlloc \union {f[i] : i \in 1..n}
            BY <3>1
        <3>3. {f[i] : i \in 1..n} \subseteq Buffers
            <4>1. f \in [1..n -> Unused]
                BY <3>2 DEF Increasing
            <4> QED BY <4>1 DEF Unused
        <3> QED BY <3>2, <3>3
    <2>2. pc[t] = "preAlloc" /\ Moves(t)
        BY <1>5, FinishAt DEF PreAllocated, modes
    <2>3. Tame(t)
        BY <2>1, <2>2 DEF Tame, TypeOK, QueueTypes
    <2> QED BY <2>2, <2>3
<1> QED BY <1>1, <1>2, <1>3, <1>4, <1>5 DEF WaiterStep

(* A buffer allocated ahead has not been granted.                           *)
PreAllocIsFree == \A s \in isPreAlloc : state[s] # "REQUESTED"

(* A call of RequestBuffer ends with buffer s: a buffer of the queue, or one *)
(* just allocated.                                                          *)
Gives(t, s) ==
    /\ pc'[t] = "idle"
    /\ state[s] # "REQUESTED" /\ state' = [state EXCEPT ![s] = "REQUESTED"]
    /\ isPreAlloc' = isPreAlloc \ {s}
    /\ state[s] = "NONE" => pc[t] = "alloc"

Asks(t) ==
    /\ \A u \in Thread \ {t} : pc'[u] = pc[u]
    /\ calls' = calls
    /\ pc'[t] \in RequestCall \union {"idle"}
    /\ Tame(t) \/ \E s \in Buffers : Gives(t, s)

(* A buffer taken from a list.                                              *)
LEMMA ReuseAsks ==
    ASSUME TypeOK, PreAllocIsFree, NEW t \in Thread, NEW s, NEW a, ReuseBuffer(t, s, a),
           UNCHANGED calls
    PROVE  Asks(t)
<1>1. s \in Buffers /\ state[s] # "NONE"
    BY DEF ReuseBuffer, Cached
<1>2. CASE config[s] = a.cfg
    <2>1. /\ state' = [state EXCEPT ![s] = Granted(a)] /\ isPreAlloc' = isPreAlloc \ {s}
          /\ Finish(t)
        BY <1>2 DEF ReuseBuffer
    <2>2. pc' = [pc EXCEPT ![t] = "idle"] /\ pc \in [Thread -> Location]
        BY <2>1 DEF Finish, TypeOK, CallTypes
    <2>3. CASE Granted(a) = "NONE"
        <3>1. Tame(t)
            BY <2>1, <2>3 DEF Tame, TypeOK, QueueTypes
        <3> QED BY <2>2, <3>1 DEF Asks
    <2>4. CASE Granted(a) = "REQUESTED" /\ state[s] = "REQUESTED"
        <3>1. s \notin isPreAlloc
            BY <2>4 DEF PreAllocIsFree
        <3>2. UNCHANGED <<state, isPreAlloc>>
            BY <2>1, <2>4, <3>1 DEF TypeOK, QueueTypes
        <3>3. Tame(t)
            BY <3>2 DEF Tame
        <3> QED BY <2>2, <3>3 DEF Asks
    <2>5. CASE Granted(a) = "REQUESTED" /\ state[s] # "REQUESTED"
        <3>1. Gives(t, s)
            BY <1>1, <2>1, <2>2, <2>5 DEF Gives
        <3> QED BY <1>1, <2>2, <3>1 DEF Asks
    <2> QED BY <2>3, <2>4, <2>5 DEF Granted
<1>3. CASE config[s] # a.cfg
    <2>1. Erase({s}) /\ pc' = [pc EXCEPT ![t] = "alloc"] /\ pc \in [Thread -> Location]
        BY <1>3 DEF ReuseBuffer, Delete, StartAlloc, Park, TypeOK, CallTypes
    <2> QED BY <2>1, EraseTame DEF Asks, RequestCall
<1> QED BY <1>2, <1>3

(* A pass over the lists, AllocBuffer or the wait leaves an asking thread a *)
(* request that asks.                                                       *)
LEMMA SelectAsks ==
    ASSUME TypeOK, PreAllocIsFree, NEW t \in Thread, NEW a,
           SelectBuffer(t, a) \/ NoBuffer(t) \/ PopFromFreeList(t, a), UNCHANGED calls
    PROVE  Asks(t)
<1>1. pc \in [Thread -> Location]
    BY DEF TypeOK, CallTypes
<1>2. CASE PopFromFreeList(t, a) \/ PopFromDirtyList(t, a)
    BY <1>2, ReuseAsks DEF PopFromFreeList, PopFromDirtyList
<1>3. CASE UNCHANGED elements /\ StartAlloc(t, a)
    BY <1>1, <1>3, SameTame DEF StartAlloc, Park, Asks, RequestCall
<1>4. CASE UNCHANGED elements /\ Park(t, "requestBlocked", a)
    BY <1>1, <1>4, SameTame DEF Park, Asks, RequestCall
<1>5. CASE NoBuffer(t)
    BY <1>1, <1>5, SameTame DEF NoBuffer, Finish, Asks
<1> QED BY <1>2, <1>3, <1>4, <1>5 DEF SelectBuffer

(* What RequestBuffer does to the elements, and where it leads its thread.  *)
LEMMA RequestEffects ==
    ASSUME TypeOK, PreAllocIsFree, NEW t \in Thread, RequestBuffer(t) \/ RequestStep(t)
    PROVE  Asks(t)
<1>1. pc \in [Thread -> Location]
    BY DEF TypeOK, CallTypes
<1>2. CASE RequestBuffer(t)
    <2>1. PICK a : \/ SelectBuffer(t, a)
                   \/ Park(t, "requestWaitAlloc", a) /\ UNCHANGED elements
        BY <1>2 DEF RequestBuffer
    <2>2. UNCHANGED calls
        BY <1>2 DEF RequestBuffer, modes
    <2> QED BY <1>1, <2>1, <2>2, SelectAsks, SameTame DEF Park, Asks, RequestCall
<1>3. CASE RequestAfterAlloc(t)
    BY <1>3, SelectAsks DEF RequestAfterAlloc, modes
<1>4. CASE RequestWakes(t) \/ RequestTimesOut(t)
    BY <1>4, SelectAsks DEF RequestWakes, RequestTimesOut, AfterWait, modes
<1>5. CASE RequestSleepsAgain(t)
    BY <1>5, SameTame DEF RequestSleepsAgain, threads, modes, Asks, RequestCall
<1>6. CASE AllocSucceeds(t)
    <2>1. pc' = [pc EXCEPT ![t] = "idle"] /\ calls' = calls /\ pc[t] = "alloc"
        BY <1>6 DEF AllocSucceeds, Finish, modes
    <2>2. CASE UNCHANGED elements
        BY <1>1, <2>1, <2>2, SameTame DEF Asks
    <2>3. CASE \E s \in Unused : Insert(s, "REQUESTED", arg[t].cfg, FALSE)
        <3>1. PICK s \in Unused : Insert(s, "REQUESTED", arg[t].cfg, FALSE)
            BY <2>3
        <3>2. Gives(t, s) /\ s \in Buffers
            BY <1>1, <2>1, <3>1 DEF Gives, Insert, Unused
        <3> QED BY <1>1, <2>1, <3>2 DEF Asks
    <2> QED BY <1>6, <2>2, <2>3 DEF AllocSucceeds
<1>7. CASE AllocFails(t)
    BY <1>1, <1>7, SameTame DEF AllocFails, Finish, modes, Asks
<1> QED BY <1>2, <1>3, <1>4, <1>5, <1>6, <1>7 DEF RequestStep

-----------------------------------------------------------------------------
(* What a thread's step means to the session: to the calls and to the        *)
(* connection, and to the caches and the buffers they name.                 *)

HoldingAt == {"granted", "flagWait"}
ServedAt  == HoldingAt \union {"queue"}
LeavingAt == {"disconnecting", "disconnected"}
ConnectingAt == {"connect", "connectOnly"}

(* The surface has given up its connection and has not emptied its cache.   *)
Leaving(f) == \E t \in Thread : Caller(t) = f /\ call[t].at \in LeavingAt

(* Where a thread is inside the queue, and whose calls take the mutex.      *)
Places == \A t \in Thread :
    /\ call[t].at \in LockedAt => Caller(t) \in Surface
    /\ pc[t] \in RequestCall => At(t, "queue")
    /\ pc[t] \notin AttachCall
    /\ pc[t] = "preAlloc" => "PreAllocBuffers" \in calls[t]

Connection(t) ==
    \/ connected' = connected
    \/ connected \in {NULL, Pid(t)} /\ connected' = Pid(t) /\ call[t].at \in ConnectingAt
    \/ connected = Pid(t) /\ connected' = NULL
         /\ call[t].at \in LockedAt /\ call'[t].at \in LeavingAt

MovesOn(t) ==
    /\ \A u \in Thread \ {t} : pc'[u] = pc[u]
    /\ calls' = calls
    /\ pc'[t] \in RequestCall => call'[t].at = "queue"
    /\ pc'[t] \notin AttachCall
    /\ pc'[t] = "preAlloc" => "PreAllocBuffers" \in calls[t]

Control(t) ==
    /\ call' \in [Thread -> CallType] /\ \A u \in Thread \ {t} : call'[u] = call[u]
    /\ UNCHANGED <<dead, token, notices>>
    /\ call'[t].at \in LockedAt /\ call[t].at \notin LockedAt =>
          Caller(t) \in Surface /\ ~MutexHeld(Caller(t))
    /\ call'[t].at \in ServedAt =>
          connected' = Pid(t) \/ (connected' = connected /\ call[t].at \in ServedAt)
    /\ Connection(t)
    /\ MovesOn(t)

(* The step leaves the buffers alone, and grants nothing.                   *)
Quiet(t) ==
    /\ UNCHANGED <<state, isPreAlloc, deletingList, attachFlag, cleared>>
    /\ cache' \in [Surface -> SUBSET Buffers] /\ stale' \in [Surface -> SUBSET Buffers]
    /\ \A f \in Surface :
          \/ cache'[f] = cache[f] /\ stale'[f] = stale[f]
          \/ cache'[f] = {} /\ stale'[f] = {}
          \/ \E D \in SUBSET Buffers : cache'[f] = cache[f] \ D /\ stale'[f] = stale[f] \ D
    /\ call'[t].at \notin HoldingAt
    /\ call[t].at \in HoldingAt => Pid(t) \in dead
    /\ call[t].at \in LeavingAt =>
          call'[t].at \in LeavingAt \/ cache'[Caller(t)] = {} \/ Pid(t) \in dead

(* The thread leaves the queue alone; it is not in a request.               *)
LEMMA TalkMovesOn ==
    ASSUME Places, NEW t \in Thread, UNCHANGED vars, call[t].at # "queue" \/ Idle(t)
    PROVE  MovesOn(t)
<1>1. pc[t] \notin RequestCall
    BY DEF Places, At, Idle, RequestCall
<1> QED BY <1>1 DEF MovesOn, Places, vars, threads, modes

(* The values of a call.                                                    *)
LEMMA CallOfThread ==
    ASSUME SessionTypes, NEW t \in Thread
    PROVE  /\ call \in [Thread -> CallType]
           /\ call[t].at \in CallPlace /\ call[t].seq \in Buffers \union {NULL}
           /\ call[t].full \in BOOLEAN /\ call[t].del \in SUBSET Buffers
           /\ call[t].realloc \in BOOLEAN
BY DEF SessionTypes, CallType

(* A call that goes to another place, carrying what it carries.             *)
LEMMA GoType ==
    ASSUME SessionTypes, NEW t \in Thread, NEW at \in CallPlace, Go(t, at)
    PROVE  /\ call' \in [Thread -> CallType] /\ \A u \in Thread \ {t} : call'[u] = call[u]
           /\ call'[t] = [call[t] EXCEPT !.at = at] /\ call'[t].at = at
<1>1. call \in [Thread -> CallType] /\ call[t] \in CallType
    BY DEF SessionTypes
<1>2. [call[t] EXCEPT !.at = at] \in CallType
    BY <1>1 DEF CallType
<1>3. call' = [call EXCEPT ![t] = [call[t] EXCEPT !.at = at]]
    BY DEF Go
<1>4. [call[t] EXCEPT !.at = at].at = at
    BY <1>1 DEF CallType
<1> QED BY <1>1, <1>2, <1>3, <1>4

(* One that ends, or starts anew.                                           *)
LEMMA NewCallType ==
    ASSUME SessionTypes, NEW t \in Thread, NEW c \in CallType, call' = [call EXCEPT ![t] = c]
    PROVE  /\ call' \in [Thread -> CallType] /\ \A u \in Thread \ {t} : call'[u] = call[u]
           /\ call'[t] = c
BY DEF SessionTypes

(* The steps that only send a message, or read one.                         *)
LEMMA TalkControl ==
    ASSUME SessionTypes, Places, NEW t \in Thread, NEW at \in CallPlace,
           UNCHANGED <<vars, connected, dead, token, notices>>,
           call[t].at # "queue" \/ Idle(t),
           at \notin ServedAt,
           at \in LockedAt => call[t].at \in LockedAt \/ (Caller(t) \in Surface /\ ~MutexHeld(Caller(t))),
           Go(t, at) \/ call' = [call EXCEPT ![t] = CallAt(at)]
               \/ (at = "none" /\ Done(t))
    PROVE  Control(t) /\ call'[t].at = at
<1>1. /\ call' \in [Thread -> CallType] /\ \A u \in Thread \ {t} : call'[u] = call[u]
      /\ call'[t].at = at
    <2>1. CASE Go(t, at)
        BY <2>1, GoType
    <2>2. CASE call' = [call EXCEPT ![t] = CallAt(at)]
        <3>1. CallAt(at) \in CallType /\ CallAt(at).at = at
            BY CallValues
        <3> QED BY <2>2, <3>1, NewCallType
    <2>3. CASE at = "none" /\ Done(t)
        BY <2>3, CallValues, NewCallType DEF Done
    <2> QED BY <2>1, <2>2, <2>3
<1>2. MovesOn(t)
    BY TalkMovesOn
<1> QED BY <1>1, <1>2 DEF Control, Connection

(* Those that leave the caches alone.                                       *)
LEMMA TalkQuiet ==
    ASSUME SessionTypes, Places, NEW t \in Thread, NEW at \in CallPlace,
           UNCHANGED <<vars, cache, stale, attachFlag, cleared, connected, dead, token, notices>>,
           call[t].at # "queue" \/ Idle(t),
           at \notin ServedAt,
           at \in LockedAt => call[t].at \in LockedAt \/ (Caller(t) \in Surface /\ ~MutexHeld(Caller(t))),
           call[t].at \notin HoldingAt \/ Pid(t) \in dead,
           call[t].at \notin LeavingAt \/ Pid(t) \in dead \/ at \in LeavingAt,
           Go(t, at) \/ call' = [call EXCEPT ![t] = CallAt(at)]
               \/ (at = "none" /\ Done(t))
    PROVE  Control(t) /\ Quiet(t)
<1>1. Control(t) /\ call'[t].at = at
    BY TalkControl
<1> QED BY <1>1 DEF Quiet, vars, elements, SessionTypes, ServedAt

(* The messages a client sends.                                             *)
LEMMA BeginsQuiet ==
    ASSUME SessionTypes, Places, NEW t \in Thread,
           \/ ClientRequest(t) \/ ClientCleanCache(t) \/ ClientDisconnect(t) \/ ClientConnect(t)
           \/ ClientFrees(t) \/ \E b \in BOOLEAN : OwnerCleans(t, b)
    PROVE  Control(t) /\ Quiet(t)
<1> USE DEF CallPlace
<1>1. call[t].at = "none" /\ Idle(t)
    BY DEF ClientRequest, ClientCleanCache, ClientDisconnect, ClientConnect, ClientFrees,
           OwnerCleans, BeginsLocked, Begins, At
<1>2. UNCHANGED <<vars, cache, stale, attachFlag, cleared, connected, dead, token, notices>>
    BY DEF ClientRequest, ClientCleanCache, ClientDisconnect, ClientConnect, ClientFrees,
           OwnerCleans, clientVars, serverVars, resendVars
<1>3. PICK at \in CallPlace :
          /\ at \notin ServedAt \union LeavingAt
          /\ at \in LockedAt => Caller(t) \in Surface /\ ~MutexHeld(Caller(t))
          /\ Go(t, at) \/ call' = [call EXCEPT ![t] = CallAt(at)]
    <2>1. CASE ClientRequest(t)
        <3> WITNESS "connect" \in CallPlace
        <3> QED BY <2>1 DEF ClientRequest, BeginsLocked, Begins, ServedAt, HoldingAt, LeavingAt
    <2>2. CASE ClientCleanCache(t)
        <3> WITNESS "clean" \in CallPlace
        <3> QED BY <2>2 DEF ClientCleanCache, BeginsLocked, Begins, ServedAt, HoldingAt, LeavingAt
    <2>3. CASE ClientDisconnect(t)
        <3> WITNESS "disconnect" \in CallPlace
        <3> QED BY <2>3 DEF ClientDisconnect, BeginsLocked, Begins, ServedAt, HoldingAt, LeavingAt
    <2>4. CASE ClientConnect(t)
        <3> WITNESS "connectOnly" \in CallPlace
        <3> QED BY <2>4 DEF ClientConnect, BeginsLocked, Begins, ServedAt, HoldingAt, LeavingAt
    <2>5. CASE ClientFrees(t)
        <3> WITNESS "free" \in CallPlace
        <3> QED BY <2>5 DEF ClientFrees, ServedAt, HoldingAt, LeavingAt, LockedAt
    <2>6. CASE \E b \in BOOLEAN : OwnerCleans(t, b)
        <3>1. CASE Go(t, "goingBackground")
            <4> WITNESS "goingBackground" \in CallPlace
            <4> QED BY <3>1 DEF ServedAt, HoldingAt, LeavingAt, LockedAt
        <3>2. CASE Go(t, "burying")
            <4> WITNESS "burying" \in CallPlace
            <4> QED BY <3>2 DEF ServedAt, HoldingAt, LeavingAt, LockedAt
        <3> QED BY <2>6, <3>1, <3>2 DEF OwnerCleans
    <2> QED BY <2>1, <2>2, <2>3, <2>4, <2>5, <2>6
<1> HIDE DEF CallPlace
<1> QED BY <1>1, <1>2, <1>3, TalkQuiet DEF HoldingAt, LeavingAt

(* The replies a client reads, a grant apart, that leave its cache as it is, *)
(* and those that are lost.                                                 *)
LEMMA ReadsQuiet ==
    ASSUME SessionTypes, Places, NEW t \in Thread,
           ClientFailed(t) \/ ClientNoConsumer(t) \/ ClientConnected(t) \/ ReplyLost(t)
    PROVE  Control(t) /\ Quiet(t)
<1>1. /\ call[t].at # "queue"
      /\ call[t].at \notin HoldingAt \/ Pid(t) \in dead
      /\ call[t].at \notin LeavingAt \/ Pid(t) \in dead
    BY DEF ClientFailed, ClientNoConsumer, ClientConnected, ReplyLost, CallerReads, At, ReplyAt,
           HoldingAt, LeavingAt
<1>2. UNCHANGED <<vars, cache, stale, attachFlag, cleared, connected, dead, token, notices>>
    BY DEF ClientFailed, ClientNoConsumer, ClientConnected, ReplyLost, clientVars, serverVars,
           resendVars
<1>3. CASE Done(t)
    <2>1. "none" \in CallPlace /\ "none" \notin ServedAt \union LockedAt
        BY DEF CallPlace, ServedAt, HoldingAt, LockedAt
    <2> QED BY <1>1, <1>2, <1>3, <2>1, TalkQuiet
<1>4. CASE ClientNoConsumer(t)
    <2>1. call' = [call EXCEPT ![t] = CallAt("clean")] /\ call[t].at \in LockedAt
        BY <1>4 DEF ClientNoConsumer, CallerReads, At, LockedAt
    <2>2. "clean" \in CallPlace /\ "clean" \notin ServedAt
        BY DEF CallPlace, ServedAt, HoldingAt
    <2> QED BY <1>1, <1>2, <2>1, <2>2, TalkQuiet
<1> QED BY <1>3, <1>4 DEF ClientFailed, ClientConnected, ReplyLost

(* What the server does with a message, when neither the connection nor the *)
(* queue changes.                                                           *)
LEMMA ServesQuiet ==
    ASSUME SessionTypes, Places, NEW t \in Thread,
           \/ ServerCleans(t) \/ ServerBackground(t)
           \/ ServerFrees(t) /\ UNCHANGED vars /\ Done(t) /\ UNCHANGED <<stale, cleared>>
           \/ At(t, "queue") /\ Idle(t) /\ Go(t, "noConsumer")
                /\ UNCHANGED <<vars, stale, resendVars, cleared, cache, serverVars, dead>>
           \/ SetProducerCacheCleanFlagLocked(t) /\ ~At(t, "flagWait")
    PROVE  Control(t) /\ Quiet(t)
<1> USE DEF CallPlace
<1>1. /\ call[t].at # "queue" \/ Idle(t)
      /\ call[t].at \notin HoldingAt /\ call[t].at \notin LeavingAt
    BY DEF ServerCleans, ServerBackground, ServerFrees, SetProducerCacheCleanFlagLocked, At,
           HoldingAt, LeavingAt
<1>2. UNCHANGED <<vars, cache, stale, attachFlag, cleared, connected, dead, token, notices>>
    <2>1. CASE SetProducerCacheCleanFlagLocked(t) /\ ~At(t, "flagWait")
        BY <2>1 DEF SetProducerCacheCleanFlagLocked, clientVars, serverVars, vars, elements
    <2>2. CASE ServerFrees(t) /\ UNCHANGED vars /\ UNCHANGED <<stale, cleared>>
        BY <2>2 DEF ServerFrees, serverVars, resendVars
    <2> QED BY <2>1, <2>2 DEF ServerCleans, ServerBackground, clientVars, serverVars, resendVars
<1>3. PICK at \in CallPlace :
          /\ at \notin ServedAt
          /\ at \in LockedAt => call[t].at \in LockedAt
          /\ Go(t, at) \/ (at = "none" /\ Done(t))
    <2>1. CASE Done(t)
        <3> WITNESS "none" \in CallPlace
        <3> QED BY <2>1 DEF ServedAt, HoldingAt, LockedAt
    <2>2. CASE ServerCleans(t)
        <3>1. CASE Go(t, "cleaning")
            <4> WITNESS "cleaning" \in CallPlace
            <4> QED BY <2>2, <3>1 DEF ServerCleans, At, ServedAt, HoldingAt, LockedAt
        <3>2. CASE Go(t, "cleaned")
            <4> WITNESS "cleaned" \in CallPlace
            <4> QED BY <2>2, <3>2 DEF ServerCleans, At, ServedAt, HoldingAt, LockedAt
        <3> QED BY <2>2, <3>1, <3>2 DEF ServerCleans
    <2>3. CASE Go(t, "setFlag")
        <3> WITNESS "setFlag" \in CallPlace
        <3> QED BY <2>3 DEF ServedAt, HoldingAt, LockedAt
    <2>4. CASE At(t, "queue") /\ Go(t, "noConsumer")
        <3> WITNESS "noConsumer" \in CallPlace
        <3> QED BY <2>4 DEF At, ServedAt, HoldingAt, LockedAt
    <2> QED BY <2>1, <2>2, <2>3, <2>4 DEF ServerBackground, SetProducerCacheCleanFlagLocked
<1> HIDE DEF CallPlace
<1> QED BY <1>1, <1>2, <1>3, TalkQuiet

(* The server grants the connection, refuses it, or takes it back.          *)
LEMMA ConnectsQuiet ==
    ASSUME SessionTypes, Places, NEW t \in Thread,
           ServerConnects(t) \/ ServerConnectsOnly(t) \/ ServerDisconnects(t)
    PROVE  Control(t) /\ Quiet(t)
<1> USE DEF CallPlace
<1>1. /\ call[t].at \in {"connect", "connectOnly", "disconnect"}
      /\ UNCHANGED <<vars, cache, stale, attachFlag, cleared, dead, token, notices>>
    BY DEF ServerConnects, ServerConnectsOnly, ServerDisconnects, At, clientVars, resendVars
<1>2. PICK at \in CallPlace :
          /\ at \in LockedAt \ HoldingAt
          /\ Go(t, at)
          /\ \/ connected' = connected /\ at # "queue"
             \/ connected \in {NULL, Pid(t)} /\ connected' = Pid(t) /\ call[t].at \in ConnectingAt
             \/ connected = Pid(t) /\ connected' = NULL /\ at = "disconnecting"
    <2>1. CASE ServerConnects(t) /\ MayConnect(t)
        <3> WITNESS "queue" \in CallPlace
        <3> QED BY <2>1 DEF ServerConnects, MayConnect, At, LockedAt, HoldingAt, ConnectingAt
    <2>2. CASE ServerConnectsOnly(t) /\ MayConnect(t)
        <3> WITNESS "connected" \in CallPlace
        <3> QED BY <2>2 DEF ServerConnectsOnly, MayConnect, At, LockedAt, HoldingAt, ConnectingAt
    <2>3. CASE ServerDisconnects(t) /\ CheckConnect(t)
        <3> WITNESS "disconnecting" \in CallPlace
        <3> QED BY <2>3 DEF ServerDisconnects, CheckConnect, LockedAt, HoldingAt
    <2>4. CASE (ServerConnects(t) \/ ServerConnectsOnly(t)) /\ ~MayConnect(t)
        <3> WITNESS "refused" \in CallPlace
        <3> QED BY <2>4 DEF ServerConnects, ServerConnectsOnly, LockedAt, HoldingAt
    <2>5. CASE ServerDisconnects(t) /\ ~CheckConnect(t)
        <3> WITNESS "cleaned" \in CallPlace
        <3> QED BY <2>5 DEF ServerDisconnects, LockedAt, HoldingAt
    <2> QED BY <2>1, <2>2, <2>3, <2>4, <2>5
<1> HIDE DEF CallPlace
<1>3. /\ call' \in [Thread -> CallType] /\ \A u \in Thread \ {t} : call'[u] = call[u]
      /\ call'[t].at = at
    BY <1>2, GoType
<1>4. MovesOn(t)
    BY <1>1, TalkMovesOn
<1>5. Control(t)
    <2>1. Connection(t)
        BY <1>1, <1>2, <1>3 DEF Connection, LockedAt, LeavingAt
    <2>2. call[t].at \in LockedAt
        BY <1>1 DEF LockedAt
    <2>3. call'[t].at \in ServedAt => connected' = Pid(t)
        BY <1>2, <1>3 DEF ServedAt
    <2> QED BY <1>1, <1>3, <1>4, <2>1, <2>2, <2>3 DEF Control
<1>6. Quiet(t)
    BY <1>1, <1>2, <1>3 DEF Quiet, vars, elements, SessionTypes, HoldingAt, LeavingAt
<1> QED BY <1>5, <1>6

(* A client whose cache loses entries, or everything.                       *)
LEMMA EmptiesQuiet ==
    ASSUME SessionTypes, Places, NEW t \in Thread,
           ClientCleaned(t) \/ ClientDisconnected(t) \/ ClientBackground(t) \/ ClientFreed(t)
    PROVE  Control(t) /\ Quiet(t)
<1>1. /\ UNCHANGED <<vars, attachFlag, cleared, connected, dead, token, notices>>
      /\ call[t].at \in {"cleaned", "disconnected", "none", "freed"}
    BY DEF ClientCleaned, ClientDisconnected, ClientBackground, ClientFreed, CallerReads,
           BeginsLocked, Begins, At, serverVars, resendVars
<1>2. PICK at \in CallPlace :
          /\ at \notin ServedAt \union LockedAt
          /\ Go(t, at) \/ (at = "none" /\ Done(t))
    <2> USE DEF CallPlace
    <2>1. CASE ClientBackground(t)
        <3> WITNESS "background" \in CallPlace
        <3> QED BY <2>1 DEF ClientBackground, ServedAt, HoldingAt, LockedAt
    <2>2. CASE ClientCleaned(t) \/ ClientDisconnected(t) \/ ClientFreed(t)
        <3> WITNESS "none" \in CallPlace
        <3> QED BY <2>2 DEF ClientCleaned, ClientDisconnected, ClientFreed, ServedAt, HoldingAt,
                            LockedAt
    <2> QED BY <2>1, <2>2
<1>3. Control(t) /\ call'[t].at = at
    BY <1>1, <1>2, TalkControl
<1>4. /\ cache \in [Surface -> SUBSET Buffers] /\ stale \in [Surface -> SUBSET Buffers]
      /\ call[t].del \in SUBSET Buffers
    BY CallOfThread DEF SessionTypes
<1>5. CASE ClientFreed(t)
    <2>1. /\ cache' = [cache EXCEPT ![Caller(t)] = cache[Caller(t)] \ call[t].del]
          /\ stale' = [stale EXCEPT ![Caller(t)] = stale[Caller(t)] \ call[t].del]
        BY <1>5 DEF ClientFreed
    <2>2. call[t].at = "freed"
        BY <1>5 DEF ClientFreed, CallerReads, At
    <2> QED BY <1>1, <1>2, <1>3, <1>4, <2>1, <2>2
            DEF Quiet, vars, elements, HoldingAt, LeavingAt, ServedAt
<1>6. CASE ClientCleaned(t) \/ ClientDisconnected(t) \/ ClientBackground(t)
    <2>1. Empties(Caller(t))
        BY <1>6 DEF ClientCleaned, ClientDisconnected, ClientBackground
    <2>2. call[t].at \in LeavingAt => Caller(t) \in Surface
        BY DEF Places, LeavingAt, LockedAt
    <2> QED BY <1>1, <1>2, <1>3, <1>4, <2>1, <2>2
            DEF Quiet, Empties, vars, elements, HoldingAt, LeavingAt, ServedAt
<1> QED BY <1>5, <1>6 DEF ClientCleaned, ClientDisconnected, ClientBackground

(* ConnectStrictly and DisconnectStrictly touch nothing the caches are      *)
(* about.                                                                   *)
LEMMA StrictlyQuiet ==
    ASSUME SessionTypes, Places, NEW t \in Thread, NEW yes, SetStrictly(t, yes)
    PROVE  Control(t) /\ Quiet(t)
<1>1. /\ UNCHANGED <<vars, cache, stale, call, attachFlag, cleared, connected, dead, token, notices>>
      /\ call[t].at = "none"
    BY DEF SetStrictly, BeginsLocked, Begins, At, clientVars, resendVars
<1>2. MovesOn(t)
    BY <1>1, TalkMovesOn
<1> QED BY <1>1, <1>2 DEF Control, Connection, Quiet, SessionTypes, vars, elements, HoldingAt,
                          LeavingAt, ServedAt

-----------------------------------------------------------------------------
(* The steps of the queue. *)

Granting(t) == \E s \in Buffers :
    /\ GrantedBy(t) = {s} /\ Gives(t, s)
    /\ At(t, "queue")
    /\ call'[t].at \in HoldingAt /\ call'[t].seq = s /\ call'[t].del = deletingList
    /\ SentWhole(t, s) => call'[t].full
    /\ call'[t].at = "flagWait" => call'[t].full /\ allocating'
    /\ attachFlag' = attachFlag \ {s}

Plainly(t) ==
    /\ GrantedBy(t) = {} /\ Tame(t)
    /\ call'[t].at \notin HoldingAt
    /\ attachFlag \subseteq attachFlag' \/ "ConsumerDetachBufferFromQueue" \in calls[t]

Attaching(t) == \E s \in Buffers :
    /\ GrantedBy(t) = {} /\ Idle(t)
    /\ state[s] = "NONE" /\ state' = [state EXCEPT ![s] = "ACQUIRED"]
    /\ isPreAlloc' = isPreAlloc \ {s}
    /\ call'[t].at \notin HoldingAt
    /\ attachFlag' = attachFlag \union {s}

LendsOut(t) ==
    /\ HandsOut(t)
    /\ GrantedBy(t) \intersect attachFlag = {} /\ attachFlag \subseteq attachFlag'

Lending(t) == LendsOut(t) /\ ~At(t, "queue") /\ call'[t].at \notin HoldingAt

QueueStep(t) ==
    /\ cache' = cache
    /\ stale' = [f \in Surface |-> stale[f] \union (cache[f] \intersect Fresh(t))]
    /\ Drops(t)
    /\ call[t].at \notin HoldingAt
    /\ call[t].at \in LeavingAt => call'[t].at \in LeavingAt
    /\ Granting(t) \/ Plainly(t) \/ Attaching(t) \/ Lending(t)

(* A tame step grants nothing.                                              *)
LEMMA TameGrantsNone ==
    ASSUME NEW t, Tame(t)
    PROVE  GrantedBy(t) = {}
BY DEF Tame, GrantedBy

(* The reply to RequestBuffer carries what the queue granted.               *)
LEMMA AnswerStep ==
    ASSUME TypeOK, SessionTypes, NEW t \in Thread, Asks(t), Answer(t), At(t, "queue")
    PROVE  /\ call' \in [Thread -> CallType] /\ \A u \in Thread \ {t} : call'[u] = call[u]
           /\ Granting(t) \/ Plainly(t)
           /\ call'[t].at \notin LockedAt => call[t].at \in LockedAt
           /\ pc'[t] # "idle" => call'[t].at = "queue"
<1>1. call \in [Thread -> CallType] /\ call[t] \in CallType /\ call[t].at = "queue"
    BY DEF SessionTypes, At
<1>2. call[t].at \in LockedAt /\ "queue" \notin HoldingAt
    BY <1>1 DEF LockedAt, HoldingAt
<1>3. CASE pc'[t] # "idle"
    <2>1. PICK b \in BOOLEAN : call' = [call EXCEPT ![t] = [call[t] EXCEPT !.realloc = b]]
        <3>1. (call[t].realloc \/ Reallocates(t)) \in BOOLEAN
            OBVIOUS
        <3>2. call' = [call EXCEPT ![t] =
                          [call[t] EXCEPT !.realloc = call[t].realloc \/ Reallocates(t)]]
            BY <1>3 DEF Answer
        <3> QED BY <3>1, <3>2
    <2>2. [call[t] EXCEPT !.realloc = b] \in CallType
        BY <1>1, <2>1 DEF CallType
    <2>3. call'[t].at = "queue"
        BY <1>1, <2>1, <2>2 DEF CallType
    <2>4. Tame(t)
        BY <1>3 DEF Asks, Gives
    <2>5. attachFlag' = attachFlag
        BY <1>3 DEF Answer, resendVars
    <2>6. Plainly(t)
        BY <1>2, <2>3, <2>4, <2>5, TameGrantsNone DEF Plainly
    <2> QED BY <1>1, <1>2, <2>1, <2>2, <2>3, <2>6
<1>4. CASE pc'[t] = "idle" /\ GrantedBy(t) = {}
    <2>1. PICK at \in {"failed", "noConsumer"} : call' = [call EXCEPT ![t] = CallAt(at)]
        BY <1>4 DEF Answer
    <2>2. CallAt(at) \in CallType /\ CallAt(at).at = at /\ at \notin HoldingAt
        BY <2>1, CallValues DEF CallPlace, HoldingAt
    <2>3. \A s \in Buffers : ~Gives(t, s)
        <3>1. SUFFICES ASSUME NEW s \in Buffers, Gives(t, s) PROVE FALSE
            OBVIOUS
        <3>2. s \in GrantedBy(t)
            BY <3>1 DEF Gives, GrantedBy, TypeOK, QueueTypes
        <3> QED BY <1>4, <3>2
    <2>4. attachFlag' = attachFlag
        BY <1>4 DEF Answer, resendVars
    <2>5. Plainly(t)
        BY <1>1, <1>4, <2>1, <2>2, <2>3, <2>4 DEF Plainly, Asks
    <2> QED BY <1>1, <1>2, <1>4, <2>1, <2>2, <2>5
<1>5. CASE pc'[t] = "idle" /\ GrantedBy(t) # {}
    <2>1. PICK s \in GrantedBy(t) :
              /\ call' = [call EXCEPT ![t] =
                            [at |-> IF WaitsForFlag(t, s) THEN "flagWait" ELSE "granted",
                             seq |-> s, full |-> SentWhole(t, s), del |-> deletingList,
                             realloc |-> FALSE]]
              /\ Resend(t, s)
        BY <1>5 DEF Answer
    <2>2. s \in Buffers /\ Gives(t, s) /\ GrantedBy(t) = {s}
        <3>1. PICK u \in Buffers : Gives(t, u)
            BY <1>5, TameGrantsNone DEF Asks
        <3>2. GrantedBy(t) = {u}
            BY <3>1 DEF Gives, GrantedBy, TypeOK, QueueTypes
        <3> QED BY <2>1, <3>1, <3>2
    <2>3. PICK at \in {"flagWait", "granted"}, full \in BOOLEAN :
              /\ call' = [call EXCEPT ![t] = [at |-> at, seq |-> s, full |-> full,
                                              del |-> deletingList, realloc |-> FALSE]]
              /\ SentWhole(t, s) => full
              /\ at = "flagWait" => full /\ allocating'
        <3>1. SentWhole(t, s) \in BOOLEAN
            BY DEF SentWhole
        <3>2. WaitsForFlag(t, s) => SentWhole(t, s) /\ allocating'
            BY DEF WaitsForFlag, SentWhole
        <3>3. CASE WaitsForFlag(t, s)
            <4> WITNESS "flagWait" \in {"flagWait", "granted"}, SentWhole(t, s) \in BOOLEAN
            <4> QED BY <2>1, <3>2, <3>3
        <3>4. CASE ~WaitsForFlag(t, s)
            <4> WITNESS "granted" \in {"flagWait", "granted"}, SentWhole(t, s) \in BOOLEAN
            <4> QED BY <2>1, <3>4
        <3> QED BY <3>3, <3>4
    <2>4. [at |-> at, seq |-> s, full |-> full, del |-> deletingList, realloc |-> FALSE] \in CallType
        BY <2>2, <2>3 DEF CallType, CallPlace, TypeOK, QueueTypes
    <2>5. /\ call'[t].at = at /\ call'[t].seq = s /\ call'[t].full = full
          /\ call'[t].del = deletingList
        BY <1>1, <2>3
    <2>6. attachFlag' = attachFlag \ {s}
        BY <2>1 DEF Resend
    <2>7. Granting(t)
        BY <2>2, <2>3, <2>5, <2>6 DEF Granting, HoldingAt
    <2> QED BY <1>1, <1>2, <1>5, <2>3, <2>4, <2>7
<1> QED BY <1>3, <1>4, <1>5

(* Fresh numbers come from an allocation only.                              *)
LEMMA NoFresh ==
    ASSUME NEW t, Idle(t)
    PROVE  Fresh(t) = {}
BY DEF Idle, Fresh

(* A call of RequestBuffer inside the queue.                                *)
LEMMA RequestKind ==
    ASSUME TypeOK, PreAllocIsFree, SessionTypes, Places, NEW t \in Thread,
           At(t, "queue"), RequestBuffer(t) \/ RequestStep(t), Answer(t), Tracks(t),
           UNCHANGED <<cache, serverVars, dead>>
    PROVE  Control(t) /\ QueueStep(t)
<1>1. Asks(t)
    BY RequestEffects
<1>2. /\ call' \in [Thread -> CallType] /\ \A u \in Thread \ {t} : call'[u] = call[u]
      /\ Granting(t) \/ Plainly(t)
      /\ pc'[t] # "idle" => call'[t].at = "queue"
    BY <1>1, AnswerStep
<1>3. call[t].at \in LockedAt /\ call[t].at \in ServedAt \ (HoldingAt \union LeavingAt)
    BY DEF At, LockedAt, ServedAt, HoldingAt, LeavingAt
<1>4. MovesOn(t)
    BY <1>1, <1>2 DEF Asks, MovesOn, RequestCall, AttachCall
<1>5. Control(t)
    BY <1>2, <1>3, <1>4 DEF Control, Connection, serverVars
<1>6. QueueStep(t)
    BY <1>2, <1>3 DEF QueueStep, Tracks
<1> QED BY <1>5, <1>6

(* What any other call of the queue means, when the client's call goes to a *)
(* place where it holds no buffer.                                          *)
LEMMA PlainKind ==
    ASSUME SessionTypes, Places, NEW t \in Thread,
           Tame(t) \/ (LendsOut(t) /\ ~At(t, "queue")), Moves(t),
           call' \in [Thread -> CallType], \A u \in Thread \ {t} : call'[u] = call[u],
           call'[t].at \in LockedAt => call[t].at \in LockedAt,
           call'[t].at \notin ServedAt, call[t].at \notin HoldingAt,
           call[t].at \in LeavingAt => call'[t].at \in LeavingAt,
           UNCHANGED <<cache, serverVars, dead>>,
           stale' = [f \in Surface |-> stale[f] \union (cache[f] \intersect Fresh(t))],
           Drops(t),
           attachFlag \subseteq attachFlag' \/ "ConsumerDetachBufferFromQueue" \in calls[t]
    PROVE  Control(t) /\ QueueStep(t)
<1>1. Tame(t) => GrantedBy(t) = {}
    BY TameGrantsNone
<1>2. Control(t)
    BY DEF Control, Connection, serverVars, Moves, MovesOn
<1>3. QueueStep(t)
    BY <1>1 DEF QueueStep, Plainly, Lending, ServedAt
<1> QED BY <1>2, <1>3

(* What Tracks says, as the two facts the steps of the queue are sorted by. *)
LEMMA TracksStale ==
    ASSUME NEW t, Tracks(t)
    PROVE  /\ stale' = [f \in Surface |-> stale[f] \union (cache[f] \intersect Fresh(t))]
           /\ Drops(t)
BY DEF Tracks

(* Cleaning the queue on behalf of a call.                                  *)
LEMMA CleansKind ==
    ASSUME TypeOK, SessionTypes, Places, NEW t \in Thread,
           \/ CleansUnder(t, "cleaning", "cleaned") \/ CleansUnder(t, "disconnecting", "disconnected")
           \/ CleansUnder(t, "burying", "none") \/ CleansUnder(t, "goingBackground", "flagToo")
    PROVE  Control(t) /\ QueueStep(t)
<1>1. PICK at \in CallPlace, next \in CallPlace :
          /\ CleansUnder(t, at, next)
          /\ next \notin ServedAt /\ at \notin ServedAt
          /\ next \in LockedAt => at \in LockedAt
          /\ at \in LeavingAt => next \in LeavingAt
    <2> USE DEF CallPlace, ServedAt, HoldingAt, LockedAt, LeavingAt
    <2>1. CASE CleansUnder(t, "cleaning", "cleaned")
        <3> WITNESS "cleaning" \in CallPlace, "cleaned" \in CallPlace
        <3> QED BY <2>1
    <2>2. CASE CleansUnder(t, "disconnecting", "disconnected")
        <3> WITNESS "disconnecting" \in CallPlace, "disconnected" \in CallPlace
        <3> QED BY <2>2
    <2>3. CASE CleansUnder(t, "burying", "none")
        <3> WITNESS "burying" \in CallPlace, "none" \in CallPlace
        <3> QED BY <2>3
    <2>4. CASE CleansUnder(t, "goingBackground", "flagToo")
        <3> WITNESS "goingBackground" \in CallPlace, "flagToo" \in CallPlace
        <3> QED BY <2>4
    <2> QED BY <2>1, <2>2, <2>3, <2>4
<1>2. Tame(t) /\ Moves(t)
    <2>1. CASE CleanCache(t)
        BY <2>1, EntryEffects
    <2>2. CASE ClearAfterAlloc(t)
        BY <2>2, StepEffects DEF WaiterStep, ClearAfterAlloc
    <2> QED BY <1>1, <2>1, <2>2 DEF CleansUnder
<1>3. /\ call' \in [Thread -> CallType] /\ \A u \in Thread \ {t} : call'[u] = call[u]
      /\ call'[t].at \in {at, next}
    <2>1. CASE Go(t, next)
        BY <2>1, GoType
    <2>2. CASE UNCHANGED call
        BY <1>1, <2>2 DEF SessionTypes, CleansUnder, At
    <2> QED BY <1>1, <2>1, <2>2 DEF CleansUnder
<1>4. call[t].at = at /\ Tracks(t) /\ UNCHANGED <<cache, serverVars, dead, attachFlag>>
    BY <1>1 DEF CleansUnder, At, resendVars
<1> QED BY <1>1, <1>2, <1>3, <1>4, TracksStale, PlainKind DEF ServedAt

(* CleanReleasedBuffers on behalf of a client.                              *)
LEMMA FreesKind ==
    ASSUME TypeOK, SessionTypes, Places, NEW t \in Thread,
           \/ ServerFrees(t) /\ ~Done(t)
           \/ ServerFreesAfterAlloc(t)
    PROVE  Control(t) /\ QueueStep(t)
<1>1. /\ At(t, "free") \/ At(t, "freeing")
      /\ CleanReleasedBuffers(t) \/ CleanReleasedAfterAlloc(t)
      /\ Tracks(t) /\ UNCHANGED <<cache, serverVars, dead, attachFlag>>
    BY DEF ServerFrees, ServerFreesAfterAlloc, resendVars
<1>2. PICK at \in {"freed", "freeing"} :
          call' = [call EXCEPT ![t].at = at, ![t].del = Silently(t)]
    BY DEF ServerFrees, ServerFreesAfterAlloc
<1>3. Silently(t) \in SUBSET Buffers
    BY DEF Silently, TypeOK, QueueTypes
<1>4. call' \in [Thread -> CallType] /\ call'[t].at = at /\ \A u \in Thread \ {t} : call'[u] = call[u]
    <2>1. call \in [Thread -> CallType] /\ call[t] \in CallType
        BY DEF SessionTypes
    <2> DEFINE c == [call[t] EXCEPT !.at = at, !.del = Silently(t)]
    <2>2. c \in CallType /\ c.at = at
        BY <1>2, <1>3, <2>1 DEF CallType, CallPlace
    <2>3. call' = [call EXCEPT ![t] = c]
        BY <1>2, <2>1
    <2> HIDE DEF c
    <2> QED BY <2>1, <2>2, <2>3
<1>5. Tame(t) /\ Moves(t)
    BY <1>1, EntryEffects, StepEffects DEF WaiterStep, CleanReleasedAfterAlloc
<1>6. /\ call'[t].at \notin LockedAt \union ServedAt
      /\ call[t].at \notin HoldingAt \union LeavingAt
    BY <1>1, <1>2, <1>4 DEF At, LockedAt, ServedAt, HoldingAt, LeavingAt
<1> QED BY <1>1, <1>4, <1>5, <1>6, TracksStale, PlainKind

(* The calls of a thread that serves no client.                             *)
LEMMA OutsideKind ==
    ASSUME SessionTypes, Places, NEW t \in Thread, At(t, "none"), UNCHANGED call,
           Tame(t) \/ LendsOut(t), Moves(t), UNCHANGED <<cache, serverVars, dead>>,
           stale' = [f \in Surface |-> stale[f] \union (cache[f] \intersect Fresh(t))],
           Drops(t),
           attachFlag \subseteq attachFlag' \/ "ConsumerDetachBufferFromQueue" \in calls[t]
    PROVE  Control(t) /\ QueueStep(t)
<1>1. call' \in [Thread -> CallType] /\ \A u \in Thread \ {t} : call'[u] = call[u]
    BY DEF SessionTypes
<1>2. call[t].at \notin HoldingAt \union LeavingAt \union LockedAt \union ServedAt /\ ~At(t, "queue")
    BY DEF At, HoldingAt, LeavingAt, LockedAt, ServedAt
<1> QED BY <1>1, <1>2, PlainKind

(* FlushBuffer and CancelBuffer are steps of the queue on the client's      *)
(* behalf.                                                                  *)
LEMMA ReturnsKind ==
    ASSUME TypeOK, SessionTypes, Places, NEW t \in Thread, NEW s \in Buffers, ClientReturns(t, s)
    PROVE  Control(t) /\ QueueStep(t)
<1>1. /\ FlushBuffer(t, s) \/ CancelBuffer(t, s)
      /\ Idle(t) /\ At(t, "none")
      /\ UNCHANGED <<cache, stale, call, serverVars, dead, attachFlag>> /\ Drops(t)
    BY DEF ClientReturns, Begins, resendVars
<1>2. stale' = [f \in Surface |-> stale[f] \union (cache[f] \intersect Fresh(t))]
    BY <1>1, NoFresh DEF SessionTypes
<1>3. Tame(t) /\ Moves(t)
    BY <1>1, EntryEffects
<1> QED BY <1>1, <1>2, <1>3, OutsideKind

(* So are SetStatus, PreAllocBuffers and CleanProducerBySeqNum of the       *)
(* queue's owner,                                                           *)
LEMMA OwnerKind ==
    ASSUME TypeOK, SessionTypes, Places, NEW t \in Thread, OwnerCalls(t)
    PROVE  Control(t) /\ QueueStep(t)
<1>1. /\ \/ SetStatus(t)
         \/ \E c \in Configs : PreAllocBuffers(t, 1, c)
         \/ \E S \in SUBSET Buffers : CleanProducerBySeqNum(t, S)
      /\ At(t, "none") /\ Tracks(t)
      /\ UNCHANGED <<cache, call, serverVars, dead, attachFlag>>
    BY DEF OwnerCalls, resendVars
<1>2. Tame(t) /\ Moves(t)
    BY <1>1, EntryEffects
<1> QED BY <1>1, <1>2, TracksStale, OutsideKind

(* the calls of the consumer, its attaching and detaching included,         *)
LEMMA ConsumerKind ==
    ASSUME TypeOK, SessionTypes, Places, NEW t \in Thread, ConsumerCalls(t)
    PROVE  Control(t) /\ QueueStep(t)
<1>1. /\ At(t, "none") /\ Tracks(t) /\ UNCHANGED <<cache, call, serverVars, dead>>
    BY DEF ConsumerCalls
<1>2. CASE /\ AcquireBuffer(t) \/ \E s \in Buffers : ReleaseUnlistened(t, s)
           /\ UNCHANGED attachFlag
    <2>1. Tame(t) /\ Moves(t)
        BY <1>2, EntryEffects
    <2> QED BY <1>1, <1>2, <2>1, TracksStale, OutsideKind
<1>6. ASSUME NEW s \in Buffers, ReleaseToListener(t, s), ServesListener(t), UNCHANGED attachFlag
      PROVE  Control(t) /\ QueueStep(t)
    <2>1. (Tame(t) \/ LendsOut(t)) /\ Moves(t)
        BY <1>6, ListenerEffects DEF ServesListener, LendsOut
    <2> QED BY <1>1, <1>6, <2>1, TracksStale, OutsideKind
<1>7. ASSUME NEW s \in Buffers, Enters(t, "ConsumerAttachBufferToQueue"), UNCHANGED vars,
             attachFlag' = attachFlag \union {s}
      PROVE  Control(t) /\ QueueStep(t)
    <2>1. Idle(t)
        BY <1>7 DEF Enters
    <2>2. Tame(t) /\ Moves(t)
        BY <1>7, <2>1, SameTame, IdleIsOutside DEF Moves, vars, threads, modes
    <2>3. attachFlag \subseteq attachFlag'
        BY <1>7
    <2> QED BY <1>1, <2>2, <2>3, TracksStale, OutsideKind
<1>3. ASSUME NEW s \in Buffers, ConsumerDetach(t, s, FALSE), attachFlag' = attachFlag \ {s}
      PROVE  Control(t) /\ QueueStep(t)
    <2>1. Tame(t) /\ Moves(t)
        BY <1>3, EntryEffects
    <2>2. "ConsumerDetachBufferFromQueue" \in calls[t]
        BY <1>3 DEF ConsumerDetach, Enters
    <2> QED BY <1>1, <2>1, <2>2, TracksStale, OutsideKind
<1>4. ASSUME NEW s \in Buffers, Enters(t, "ConsumerDetachBufferFromQueue"), UNCHANGED vars,
             attachFlag' = attachFlag \ {s}
      PROVE  Control(t) /\ QueueStep(t)
    <2>1. Idle(t) /\ "ConsumerDetachBufferFromQueue" \in calls[t]
        BY <1>4 DEF Enters
    <2>2. Tame(t) /\ Moves(t)
        BY <1>4, <2>1, SameTame, IdleIsOutside DEF Moves, vars, threads, modes
    <2> QED BY <1>1, <2>1, <2>2, TracksStale, OutsideKind
<1>5. ASSUME NEW s \in Buffers, AttachBufferToQueue(t, s, "Consumer"),
             attachFlag' = attachFlag \union {s}
      PROVE  Control(t) /\ QueueStep(t)
    <2>1. /\ Moves(t)
          /\ state[s] = "NONE" /\ state' = [state EXCEPT ![s] = "ACQUIRED"]
          /\ isPreAlloc' = isPreAlloc \ {s}
        BY <1>5, AttachEffect
    <2>2. GrantedBy(t) = {}
        BY <2>1 DEF GrantedBy, TypeOK, QueueTypes
    <2>3. /\ call' \in [Thread -> CallType] /\ \A u \in Thread \ {t} : call'[u] = call[u]
          /\ call'[t] = call[t]
        BY <1>1 DEF SessionTypes
    <2>4. call[t].at \notin HoldingAt \union LeavingAt \union LockedAt \union ServedAt
        BY <1>1 DEF At, HoldingAt, LeavingAt, LockedAt, ServedAt
    <2>5. Idle(t)
        BY <1>5 DEF AttachBufferToQueue, Enters
    <2>6. Attaching(t)
        BY <1>5, <2>1, <2>2, <2>3, <2>4, <2>5 DEF Attaching
    <2>7. QueueStep(t)
        BY <1>1, <2>4, <2>6, TracksStale DEF QueueStep
    <2>8. Control(t)
        BY <1>1, <2>1, <2>3, <2>4 DEF Control, Connection, Moves, MovesOn, serverVars
    <2> QED BY <2>7, <2>8
<1> QED BY <1>2, <1>3, <1>4, <1>5, <1>6, <1>7 DEF ConsumerCalls

(* and every later step of a call of the queue: after its wait or its       *)
(* allocation.                                                              *)
LEMMA GoesOnKind ==
    ASSUME TypeOK, PreAllocIsFree, SessionTypes, Places, NEW t \in Thread, GoesOn(t)
    PROVE  Control(t) /\ QueueStep(t)
<1>1. Tracks(t) /\ UNCHANGED <<cache, serverVars, dead>>
    BY DEF GoesOn
<1>2. CASE At(t, "queue") /\ RequestStep(t) /\ Answer(t)
    BY <1>1, <1>2, RequestKind
<1>3. CASE At(t, "none") /\ Step(t) /\ ServesListener(t) /\ UNCHANGED <<call, resendVars>>
    <2>1. pc[t] \notin RequestCall /\ pc[t] \notin AttachCall
        BY <1>3 DEF Places, At
    <2>2. FlushStep(t) \/ WaiterStep(t)
        BY <1>3, <2>1 DEF Step, RequestStep, AttachStep, RequestAfterAlloc, RequestWakes,
               RequestSleepsAgain, RequestTimesOut, AllocSucceeds, AllocFails, AttachLooksUp,
               AttachWakes, AttachSleepsAgain, AttachDeletes, RequestCall, AttachCall
    <2>3. (Tame(t) \/ LendsOut(t)) /\ Moves(t)
        BY <1>3, <2>2, StepEffects DEF ServesListener, LendsOut, resendVars
    <2> QED BY <1>1, <1>3, <2>3, TracksStale, OutsideKind DEF resendVars
<1> QED BY <1>2, <1>3 DEF GoesOn

-----------------------------------------------------------------------------
(* Every step of the session, by what it means. *)

Revives(t) == SetProducerCacheCleanFlagLocked(t) /\ At(t, "flagWait")

StepKind(t) == Control(t) /\ (Quiet(t) \/ QueueStep(t) \/ ClientGranted(t) \/ Revives(t))

(* A client that reads its grant moves its own call and no connection.      *)
LEMMA GrantedControl ==
    ASSUME SessionTypes, Places, NEW t \in Thread, ClientGranted(t)
    PROVE  Control(t)
<1>1. /\ UNCHANGED <<vars, connected, dead, token, notices>> /\ Done(t)
      /\ call[t].at = "granted"
    BY DEF ClientGranted, CallerReads, At, serverVars
<1>2. "none" \in CallPlace /\ "none" \notin ServedAt \union LockedAt
    BY DEF CallPlace, ServedAt, HoldingAt, LockedAt
<1> QED BY <1>1, <1>2, TalkControl

(* A call that ends the wait of UpdateReuseBufferState brings its grant     *)
(* back.                                                                    *)
LEMMA RevivesControl ==
    ASSUME SessionTypes, Places, NEW t \in Thread, Revives(t)
    PROVE  Control(t) /\ call'[t] = [call[t] EXCEPT !.at = "granted"]
<1>1. /\ UNCHANGED <<threads, modes, connected, dead, token, notices>>
      /\ Go(t, "granted") /\ call[t].at = "flagWait"
    BY DEF Revives, SetProducerCacheCleanFlagLocked, At, serverVars
<1>2. /\ call' \in [Thread -> CallType] /\ \A u \in Thread \ {t} : call'[u] = call[u]
      /\ call'[t] = [call[t] EXCEPT !.at = "granted"] /\ call'[t].at = "granted"
    <2>1. "granted" \in CallPlace
        BY DEF CallPlace
    <2> QED BY <1>1, <2>1, GoType
<1>3. MovesOn(t)
    <2>1. pc[t] \notin RequestCall
        BY <1>1 DEF Places, At
    <2> QED BY <1>1, <2>1 DEF Places, MovesOn, threads, modes
<1> QED BY <1>1, <1>2, <1>3 DEF Control, Connection, LockedAt, ServedAt, HoldingAt

(* What a step of the session is.                                           *)
LEMMA StepKinds ==
    ASSUME TypeOK, PreAllocIsFree, SessionTypes, Places, [SessionNext]_sessionVars
    PROVE  \/ UNCHANGED sessionVars
           \/ \E p \in Process : Dies(p)
           \/ \E t \in Thread : \E p \in Process : OnRemoteDied(t, p)
           \/ \E t \in Thread : StepKind(t)
<1>1. ASSUME NEW t \in Thread, Requests(t)
      PROVE  StepKind(t)
    <2>1. CASE QueueRequest(t)
        <3>1. CASE ~valid /\ Go(t, "noConsumer") /\ UNCHANGED <<vars, stale, hands, resendVars, cleared>>
            BY <2>1, <3>1, ServesQuiet DEF QueueRequest, StepKind
        <3>2. CASE RequestBuffer(t) /\ Answer(t) /\ Tracks(t)
            BY <2>1, <3>2, RequestKind DEF QueueRequest, StepKind
        <3> QED BY <2>1, <3>1, <3>2 DEF QueueRequest
    <2>2. CASE ClientRequest(t)
        BY <2>2, BeginsQuiet DEF StepKind
    <2>3. CASE ServerConnects(t)
        BY <2>3, ConnectsQuiet DEF StepKind
    <2>4. CASE ClientGranted(t)
        BY <2>4, GrantedControl DEF StepKind
    <2>5. CASE ClientFailed(t) \/ ClientNoConsumer(t)
        BY <2>5, ReadsQuiet DEF StepKind
    <2> QED BY <1>1, <2>1, <2>2, <2>3, <2>4, <2>5 DEF Requests
<1>2. ASSUME NEW t \in Thread, Cleans(t)
      PROVE  StepKind(t)
    <2>1. CASE ClientCleanCache(t) \/ ClientFrees(t)
        BY <2>1, BeginsQuiet DEF StepKind
    <2>2. CASE ServerCleans(t)
        BY <2>2, ServesQuiet DEF StepKind
    <2>3. CASE ClientCleaned(t) \/ ClientFreed(t)
        BY <2>3, EmptiesQuiet DEF StepKind
    <2>4. CASE (ServerFrees(t) /\ ~Done(t)) \/ ServerFreesAfterAlloc(t)
        BY <2>4, FreesKind DEF StepKind
    <2>5. CASE ServerFrees(t) /\ Done(t)
        <3>1. CASE UNCHANGED <<vars, stale, hands, cleared>>
            BY <2>5, <3>1, ServesQuiet DEF StepKind
        <3>2. CASE call' = [call EXCEPT ![t].at = IF pc'[t] = "idle" THEN "freed" ELSE "freeing",
                                        ![t].del = Silently(t)]
            <4>1. PICK at \in {"freed", "freeing"} :
                      call' = [call EXCEPT ![t] = [call[t] EXCEPT !.at = at, !.del = Silently(t)]]
                BY <3>2
            <4>2. call[t] \in CallType /\ call \in [Thread -> CallType]
                BY DEF SessionTypes
            <4>3. [call[t] EXCEPT !.at = at, !.del = Silently(t)].at = at
                BY <4>2 DEF CallType
            <4>4. call'[t].at = at /\ call'[t].at = "none"
                BY <2>5, <4>1, <4>2, <4>3, CallValues DEF Done
            <4> QED BY <4>4
        <3> QED BY <2>5, <3>1, <3>2 DEF ServerFrees
    <2>6. CASE \/ CleansUnder(t, "cleaning", "cleaned") \/ CleansUnder(t, "disconnecting", "disconnected")
               \/ CleansUnder(t, "burying", "none") \/ CleansUnder(t, "goingBackground", "flagToo")
        BY <2>6, CleansKind DEF StepKind
    <2> QED BY <1>2, <2>1, <2>2, <2>3, <2>4, <2>5, <2>6 DEF Cleans
<1>3. ASSUME NEW t \in Thread, Connects(t)
      PROVE  StepKind(t)
    <2>1. CASE ClientDisconnect(t) \/ ClientConnect(t)
        BY <2>1, BeginsQuiet DEF StepKind
    <2>2. CASE ServerDisconnects(t) \/ ServerConnectsOnly(t)
        BY <2>2, ConnectsQuiet DEF StepKind
    <2>3. CASE ClientDisconnected(t) \/ ClientBackground(t)
        BY <2>3, EmptiesQuiet DEF StepKind
    <2>4. CASE ClientConnected(t)
        BY <2>4, ReadsQuiet DEF StepKind
    <2>5. CASE \E yes \in BOOLEAN : SetStrictly(t, yes)
        BY <2>5, StrictlyQuiet DEF StepKind
    <2>6. CASE ServerBackground(t)
        BY <2>6, ServesQuiet DEF StepKind
    <2>7. CASE SetProducerCacheCleanFlagLocked(t)
        BY <2>7, ServesQuiet, RevivesControl DEF StepKind, Revives
    <2> QED BY <1>3, <2>1, <2>2, <2>3, <2>4, <2>5, <2>6, <2>7 DEF Connects
<1>4. ASSUME NEW t \in Thread, GoesOn(t)
      PROVE  StepKind(t)
    BY <1>4, GoesOnKind DEF StepKind
<1>5. ASSUME NEW t \in Thread, ReplyLost(t)
      PROVE  StepKind(t)
    BY <1>5, ReadsQuiet DEF StepKind
<1>6. ASSUME NEW t \in Thread, NEW s \in Buffers, ClientReturns(t, s)
      PROVE  StepKind(t)
    BY <1>6, ReturnsKind DEF StepKind
<1>7. ASSUME NEW t \in Thread, ConsumerCalls(t) \/ OwnerCalls(t)
      PROVE  StepKind(t)
    BY <1>7, ConsumerKind, OwnerKind DEF StepKind
<1>8. ASSUME NEW t \in Thread, \E background \in BOOLEAN : OwnerCleans(t, background)
      PROVE  StepKind(t)
    BY <1>8, BeginsQuiet DEF StepKind
<1>9. NobodyLeft => UNCHANGED sessionVars
    BY DEF NobodyLeft
<1> QED BY <1>1, <1>2, <1>3, <1>4, <1>5, <1>6, <1>7, <1>8, <1>9 DEF SessionNext

-----------------------------------------------------------------------------
(* The connection and the caches. *)

(* No two surfaces share a process.                                         *)
OneSurfaceEach == \A f, g \in Surface : ProcessOf[f] = ProcessOf[g] => f = g

(* A surface serves one call at a time under its mutex.                     *)
MutexOnce == \A t, u \in Thread :
    Caller(t) = Caller(u) /\ call[t].at \in LockedAt /\ call[u].at \in LockedAt => t = u

(* A request that is served, or granted, is the connected process's.        *)
Served == \A t \in Thread : call[t].at \in ServedAt => connected = Pid(t)

(* The same of the processes that live: what a dead one asked for may still  *)
(* be served when its death has been reported and another is connected.     *)
LivesServed ==
    \A t \in Thread : call[t].at \in ServedAt /\ Pid(t) \notin dead => connected = Pid(t)

(* What a granted call carries.                                             *)
Carried == \A t \in Thread :
    /\ call[t].at \in HoldingAt => call[t].seq \in Buffers
    /\ At(t, "flagWait") => call[t].full

(* A cache that is not empty is the connected process's, or its surface has *)
(* left and is about to empty it.  The dead have none.                      *)
CachesConnected == \A f \in Surface :
    /\ cache[f] # {} => connected = ProcessOf[f] \/ Leaving(f)
    /\ stale[f] \subseteq cache[f]
    /\ ProcessOf[f] \in dead => cache[f] = {}

(* Only the process the producer is told of is reported dead.               *)
Reported == notices \subseteq dead \intersect {token}

(* A buffer marked as allocated ahead has not been granted since.           *)
MarksFree == \A s \in Buffers : s \in isPreAlloc => state[s] # "REQUESTED"

(* The process the producer is told of stays alive.                         *)
ProducerLives == token \notin dead

BaseInv == TypeOK /\ SessionTypes /\ Places /\ MutexOnce /\ Carried /\ MarksFree

SessionInv == BaseInv /\ Served /\ CachesConnected /\ Reported

(* A marked buffer is free, as the allocation's own proofs ask.             *)
LEMMA MarksPreAlloc == TypeOK /\ MarksFree => PreAllocIsFree
BY DEF MarksFree, PreAllocIsFree, TypeOK, QueueTypes

(* mutex_ of a surface: a call enters it only while no other call of the    *)
(* surface has it.                                                          *)
LEMMA MutexStep ==
    ASSUME MutexOnce, NEW t \in Thread, Control(t)
    PROVE  MutexOnce'
<1>1. \A u \in Thread \ {t} : call'[u] = call[u]
    BY DEF Control
<1>2. ASSUME NEW u \in Thread, u # t, Caller(u) = Caller(t), call[u].at \in LockedAt,
             call'[t].at \in LockedAt
      PROVE  FALSE
    <2>1. call[t].at \notin LockedAt
        BY <1>2 DEF MutexOnce
    <2> QED BY <1>2, <2>1 DEF Control, MutexHeld, Caller
<1> QED BY <1>1, <1>2 DEF MutexOnce, Caller

(* A thread is in the queue only at the places of its call that say so.     *)
LEMMA PlacesStep ==
    ASSUME Places, NEW t \in Thread, Control(t)
    PROVE  Places'
BY DEF Places, Control, MovesOn, At, Caller

(* Nobody else's connection is taken from a call that is served.            *)
LEMMA OthersServed ==
    ASSUME OneSurfaceEach, Places, MutexOnce, NEW t \in Thread, Connection(t),
           NEW u \in Thread \ {t}, call[u].at \in ServedAt, connected = Pid(u)
    PROVE  connected' = Pid(u)
<1>1. call[u].at \in LockedAt /\ Caller(u) \in Surface
    BY DEF Places, ServedAt, HoldingAt, LockedAt
<1>2. Pid(u) # NULL
    BY <1>1, SurfaceAssumption DEF Pid, Caller
<1>3. CASE connected = Pid(t) /\ connected' = NULL /\ call[t].at \in LockedAt
    <2>1. Caller(t) \in Surface
        BY <1>3 DEF Places
    <2>2. Caller(t) = Caller(u)
        BY <1>1, <1>2, <1>3, <2>1 DEF OneSurfaceEach, Pid, Caller
    <2> QED BY <1>1, <1>3, <2>2 DEF MutexOnce
<1> QED BY <1>2, <1>3 DEF Connection

(* The calls being served stay those of the connected process.              *)
LEMMA ServedStep ==
    ASSUME OneSurfaceEach, Places, MutexOnce, Served, NEW t \in Thread, StepKind(t)
    PROVE  Served'
<1>1. Control(t) /\ Connection(t)
    BY DEF StepKind, Control
<1>2. ASSUME NEW u \in Thread \ {t}, call'[u].at \in ServedAt
      PROVE  connected' = Pid(u)
    <2>1. call'[u] = call[u]
        BY <1>1 DEF Control
    <2> QED BY <1>1, <1>2, <2>1, OthersServed DEF Served
<1>3. call'[t].at \in ServedAt => connected' = Pid(t)
    BY <1>1 DEF Control, Served
<1>4. \A u \in Thread : Pid(u)' = Pid(u)
    BY DEF Pid
<1> QED BY <1>2, <1>3, <1>4 DEF Served

(* So do those of the living.                                               *)
LEMMA LivesServedStep ==
    ASSUME OneSurfaceEach, Places, MutexOnce, LivesServed, NEW t \in Thread, StepKind(t)
    PROVE  LivesServed'
<1>1. Control(t) /\ Connection(t) /\ dead' = dead
    BY DEF StepKind, Control
<1>2. ASSUME NEW u \in Thread \ {t}, call'[u].at \in ServedAt, Pid(u) \notin dead
      PROVE  connected' = Pid(u)
    <2>1. call'[u] = call[u]
        BY <1>1 DEF Control
    <2> QED BY <1>1, <1>2, <2>1, OthersServed DEF LivesServed
<1>3. call'[t].at \in ServedAt /\ Pid(t) \notin dead => connected' = Pid(t)
    BY <1>1 DEF Control, LivesServed
<1>4. \A u \in Thread : Pid(u)' = Pid(u)
    BY DEF Pid
<1> QED BY <1>1, <1>2, <1>3, <1>4 DEF LivesServed

(* A grant on its way carries a buffer, and one about to wait carries it    *)
(* whole.                                                                   *)
LEMMA CarriedStep ==
    ASSUME SessionTypes, Places, Carried, NEW t \in Thread, StepKind(t)
    PROVE  Carried'
<1>1. \A u \in Thread \ {t} : call'[u] = call[u]
    BY DEF StepKind, Control
<1>2. /\ call'[t].at \in HoldingAt => call'[t].seq \in Buffers
      /\ call'[t].at = "flagWait" => call'[t].full
    <2>1. CASE Quiet(t)
        BY <2>1 DEF Quiet, HoldingAt
    <2>2. CASE QueueStep(t)
        BY <2>2 DEF QueueStep, Granting, Plainly, Attaching, Lending, HoldingAt
    <2>3. CASE ClientGranted(t)
        <3>1. call'[t] = NoCall
            BY <2>3 DEF ClientGranted, Done, SessionTypes
        <3> QED BY <3>1, CallValues DEF HoldingAt
    <2>4. CASE Revives(t)
        <3>1. call'[t] = [call[t] EXCEPT !.at = "granted"] /\ call[t] \in CallType
            BY <2>4, RevivesControl DEF SessionTypes
        <3>2. call'[t].seq = call[t].seq /\ call'[t].at = "granted"
            BY <3>1 DEF CallType
        <3>3. call[t].at = "flagWait"
            BY <2>4 DEF Revives, At
        <3> QED BY <3>2, <3>3 DEF Carried, HoldingAt
    <2> QED BY <2>1, <2>2, <2>3, <2>4 DEF StepKind
<1> QED BY <1>1, <1>2 DEF Carried, At

(* What a grant leaves in the cache of the client that reads it.            *)
LEMMA GrantedCaches ==
    ASSUME SessionTypes, Places, Carried, NEW t \in Thread, ClientGranted(t)
    PROVE  /\ call[t].at = "granted" /\ Caller(t) \in Surface /\ Pid(t) \notin dead
           /\ call[t].seq \in Buffers
           /\ cache' \in [Surface -> SUBSET Buffers] /\ stale' \in [Surface -> SUBSET Buffers]
           /\ \A f \in Surface \ {Caller(t)} : cache'[f] = cache[f] /\ stale'[f] = stale[f]
           /\ cache'[Caller(t)] = Filled(t) \ call[t].del
           /\ stale'[Caller(t)] = (stale[Caller(t)] \ Renewed(t)) \intersect (Filled(t) \ call[t].del)
           /\ Filled(t) \subseteq cache[Caller(t)] \union Cached \union {call[t].seq}
           /\ UNCHANGED <<vars, connected, attachFlag, cleared>>
<1>1. call[t].at = "granted" /\ Pid(t) \notin dead
    BY DEF ClientGranted, CallerReads, At
<1>2. Caller(t) \in Surface /\ call[t].seq \in Buffers
    BY <1>1 DEF Places, Carried, LockedAt, HoldingAt
<1>3. /\ cache' = [cache EXCEPT ![Caller(t)] = Forget(t, Filled(t))]
      /\ stale' = [stale EXCEPT ![Caller(t)] =
                      (stale[Caller(t)] \ Renewed(t)) \intersect Forget(t, Filled(t))]
      /\ UNCHANGED <<vars, connected, attachFlag, cleared>>
    BY DEF ClientGranted, serverVars, resendVars
<1>4. Filled(t) \subseteq cache[Caller(t)] \union Cached \union {call[t].seq}
    BY DEF Filled, Synced
<1>5. cache \in [Surface -> SUBSET Buffers] /\ stale \in [Surface -> SUBSET Buffers]
    BY DEF SessionTypes
<1>6. Filled(t) \in SUBSET Buffers
    BY <1>2, <1>4, <1>5 DEF Cached
<1> QED BY <1>1, <1>2, <1>3, <1>4, <1>5, <1>6 DEF Forget

(* A surface that has left stays so until its cache is empty.               *)
LEMMA LeavingKept ==
    ASSUME SessionTypes, CachesConnected, NEW t \in Thread, StepKind(t), NEW f \in Surface, Leaving(f),
           cache'[f] # {}
    PROVE  Leaving(f)'
<1>1. PICK w \in Thread : Caller(w) = f /\ call[w].at \in LeavingAt
    BY DEF Leaving
<1>2. CASE w # t
    BY <1>1, <1>2 DEF StepKind, Control, Leaving, Caller
<1>3. CASE w = t
    <2>1. CASE Quiet(t)
        <3>1. Pid(t) \notin dead
            <4>1. Pid(t) \in dead => cache[f] = {}
                BY <1>1, <1>3 DEF CachesConnected, Pid, Caller
            <4> QED BY <2>1, <4>1 DEF Quiet
        <3> QED BY <1>1, <1>3, <2>1, <3>1 DEF Quiet, Leaving, Caller
    <2>2. CASE QueueStep(t)
        BY <1>1, <1>3, <2>2 DEF QueueStep, Leaving, Caller
    <2>3. CASE ClientGranted(t) \/ Revives(t)
        BY <1>1, <1>3, <2>3 DEF ClientGranted, Revives, CallerReads, At, LeavingAt
    <2> QED BY <2>1, <2>2, <2>3 DEF StepKind
<1> QED BY <1>2, <1>3

(* Types, and how the caches change.                                        *)
LEMMA CacheChanges ==
    ASSUME SessionTypes, Places, Carried, NEW t \in Thread, StepKind(t)
    PROVE  /\ SessionTypes'
           /\ \A f \in Surface :
                 /\ stale[f] \subseteq cache[f] => stale'[f] \subseteq cache'[f]
                 /\ cache[f] = {} => cache'[f] = {} \/ (ClientGranted(t) /\ f = Caller(t))
<1>1. call' \in [Thread -> CallType]
    BY DEF StepKind, Control
<1>2. cache \in [Surface -> SUBSET Buffers] /\ stale \in [Surface -> SUBSET Buffers]
    BY DEF SessionTypes
<1>3. CASE Quiet(t)
    BY <1>1, <1>2, <1>3 DEF Quiet, SessionTypes
<1>4. CASE QueueStep(t)
    BY <1>1, <1>2, <1>4 DEF QueueStep, SessionTypes
<1>5. CASE ClientGranted(t)
    BY <1>1, <1>5, GrantedCaches DEF SessionTypes
<1>6. CASE Revives(t)
    <2>1. UNCHANGED <<cache, stale>>
        BY <1>6 DEF Revives, SetProducerCacheCleanFlagLocked, clientVars
    <2> QED BY <1>1, <1>2, <2>1 DEF SessionTypes
<1> QED BY <1>3, <1>4, <1>5, <1>6 DEF StepKind

(* A cache that is not empty stays the connected process's, or its surface  *)
(* is leaving.                                                              *)
LEMMA CachesStep ==
    ASSUME OneSurfaceEach, SessionTypes, Places, Carried, LivesServed, CachesConnected,
           NEW t \in Thread, StepKind(t)
    PROVE  CachesConnected'
<1>1. Control(t) /\ Connection(t) /\ dead' = dead
    BY DEF StepKind, Control
<1>3. \A f \in Surface :
          /\ stale'[f] \subseteq cache'[f]
          /\ cache[f] = {} => cache'[f] = {} \/ (ClientGranted(t) /\ f = Caller(t))
    BY CacheChanges DEF CachesConnected
<1>4. ASSUME NEW f \in Surface, cache'[f] # {}
      PROVE  connected' = ProcessOf[f] \/ Leaving(f)'
    <2>1. CASE Leaving(f)
        BY <1>4, <2>1, LeavingKept
    <2>2. CASE connected = ProcessOf[f]
        <3>1. ProcessOf[f] # NULL
            BY SurfaceAssumption
        <3>2. CASE connected = Pid(t) /\ connected' = NULL /\ call[t].at \in LockedAt
                   /\ call'[t].at \in LeavingAt
            <4>1. Caller(t) = f
                BY <2>2, <3>2 DEF OneSurfaceEach, Places, Pid, Caller
            <4> QED BY <3>2, <4>1 DEF Leaving, Caller
        <3> QED BY <1>1, <2>2, <3>1, <3>2 DEF Connection
    <2>3. CASE cache[f] = {}
        <3>1. ClientGranted(t) /\ f = Caller(t)
            BY <1>3, <1>4, <2>3
        <3> QED BY <3>1, GrantedCaches DEF LivesServed, ServedAt, HoldingAt, Pid, Caller
    <2> QED BY <2>1, <2>2, <2>3 DEF CachesConnected
<1>5. ASSUME NEW f \in Surface, ProcessOf[f] \in dead
      PROVE  cache'[f] = {}
    <2>1. cache[f] = {}
        BY <1>5 DEF CachesConnected
    <2>2. ~(ClientGranted(t) /\ f = Caller(t))
        BY <1>5, GrantedCaches DEF Pid, Caller
    <2> QED BY <1>3, <2>1, <2>2
<1> QED BY <1>1, <1>3, <1>4, <1>5 DEF CachesConnected

(* Marks are put on free buffers and taken off before they are granted.     *)
LEMMA MarksStep ==
    ASSUME TypeOK, MarksFree, Carried, NEW t \in Thread, StepKind(t)
    PROVE  MarksFree'
<1>1. state \in [Buffers -> BufferState \union {"NONE"}] /\ isPreAlloc \subseteq Buffers
    BY DEF TypeOK, QueueTypes
<1>2. CASE UNCHANGED <<state, isPreAlloc, attachFlag>>
    BY <1>2 DEF MarksFree
<1>3. CASE Revives(t)
    <2>1. /\ call[t].seq \in Buffers
          /\ state' = [state EXCEPT ![call[t].seq] =
                          IF state[call[t].seq] = "NONE" THEN "RELEASED" ELSE state[call[t].seq]]
          /\ UNCHANGED <<isPreAlloc, attachFlag>>
        BY <1>3 DEF Revives, SetProducerCacheCleanFlagLocked, Carried, At, HoldingAt
    <2> QED BY <1>1, <2>1 DEF MarksFree
<1>4. CASE QueueStep(t)
    <2>1. CASE Granting(t)
        <3>1. PICK s \in Buffers : /\ state' = [state EXCEPT ![s] = "REQUESTED"]
                                   /\ isPreAlloc' = isPreAlloc \ {s}
                                   /\ attachFlag' = attachFlag \ {s}
            BY <2>1 DEF Granting, Gives
        <3> QED BY <1>1, <3>1 DEF MarksFree
    <2>2. CASE Plainly(t)
        <3>1. Tame(t)
            BY <2>2 DEF Plainly
        <3>2. ASSUME NEW s \in Buffers, s \in isPreAlloc', state'[s] = "REQUESTED"
              PROVE  FALSE
            BY <3>1, <3>2 DEF Tame, MarksFree
        <3> QED BY <3>2 DEF MarksFree
    <2>3. CASE Attaching(t)
        BY <1>1, <2>3 DEF Attaching, MarksFree
    <2>4. CASE Lending(t)
        BY <2>4 DEF Lending, LendsOut, HandsOut, GrantedBy, MarksFree
    <2> QED BY <1>4, <2>1, <2>2, <2>3, <2>4 DEF QueueStep
<1>5. Quiet(t) \/ ClientGranted(t) => UNCHANGED <<state, isPreAlloc, attachFlag>>
    BY DEF Quiet, ClientGranted, vars, elements, resendVars
<1> QED BY <1>2, <1>3, <1>4, <1>5 DEF StepKind

(* A death empties the caches of the process.                               *)
LEMMA DiesKeeps ==
    ASSUME BaseInv, NEW p, Dies(p)
    PROVE  /\ BaseInv'
           /\ Served => Served'
           /\ LivesServed => LivesServed'
           /\ CachesConnected => CachesConnected'
           /\ Reported => Reported'
<1>1. /\ UNCHANGED <<vars, call, connected, token, attachFlag>>
      /\ dead' = dead \union {p} /\ notices' = IF token = p THEN notices \union {p} ELSE notices
      /\ cache' = [f \in Surface |-> IF ProcessOf[f] = p THEN {} ELSE cache[f]]
      /\ stale' = [f \in Surface |-> IF ProcessOf[f] = p THEN {} ELSE stale[f]]
    BY DEF Dies, Bereft, resendVars
<1>2. /\ cache \in [Surface -> SUBSET Buffers] /\ stale \in [Surface -> SUBSET Buffers]
      /\ call \in [Thread -> CallType]
    BY DEF BaseInv, SessionTypes
<1>3. TypeOK' /\ SessionTypes'
    <2>1. TypeOK'
        BY <1>1, TypeStep DEF BaseInv
    <2>2. SessionTypes'
        BY <1>1, <1>2 DEF SessionTypes
    <2> QED BY <2>1, <2>2
<1>4. Places' /\ MutexOnce' /\ Carried' /\ MarksFree'
    BY <1>1 DEF BaseInv, Places, MutexOnce, Carried, MarksFree, vars, elements, threads,
                modes, At, Pid, Caller
<1>8. (Served => Served') /\ (LivesServed => LivesServed')
    BY <1>1 DEF Served, LivesServed, Pid, Caller
<1>5. \A f : Leaving(f)' <=> Leaving(f)
    BY <1>1 DEF Leaving, Caller
<1>6. CachesConnected => CachesConnected'
    BY <1>1, <1>2, <1>5 DEF CachesConnected
<1>7. Reported => Reported'
    BY <1>1 DEF Reported
<1> QED BY <1>3, <1>4, <1>6, <1>7, <1>8 DEF BaseInv

(* A notice of a death sets a thread of the server to work.                 *)
LEMMA DiedKeeps ==
    ASSUME BaseInv, NEW t \in Thread, NEW p, OnRemoteDied(t, p)
    PROVE  BaseInv'
<1>1. /\ UNCHANGED <<vars, cache, stale, attachFlag>>
      /\ At(t, "none")
      /\ Go(t, "burying") \/ UNCHANGED call
    BY DEF OnRemoteDied, clientVars, resendVars
<1>2. TypeOK'
    BY <1>1, TypeStep DEF BaseInv
<1>3. /\ call' \in [Thread -> CallType]
      /\ \A u \in Thread : call'[u] = call[u] \/ (u = t /\ call'[u].at = "burying")
    <2>1. CASE UNCHANGED call
        BY <2>1 DEF BaseInv, SessionTypes
    <2>2. CASE Go(t, "burying")
        <3>1. "burying" \in CallPlace
            BY DEF CallPlace
        <3> QED BY <2>2, <3>1, GoType DEF BaseInv
    <2> QED BY <1>1, <2>1, <2>2
<1>4. SessionTypes'
    BY <1>1, <1>3 DEF BaseInv, SessionTypes
<1>5. "burying" \notin LockedAt \union HoldingAt
    BY DEF LockedAt, HoldingAt
<1>6. \A u \in Thread : pc[u] \in RequestCall => call'[u].at = "queue"
    BY <1>1, <1>3 DEF BaseInv, Places, At
<1>7. Places'
    BY <1>1, <1>3, <1>5, <1>6 DEF BaseInv, Places, vars, threads, modes, At, Caller
<1>8. MutexOnce' /\ Carried' /\ MarksFree'
    BY <1>1, <1>3, <1>5 DEF BaseInv, MutexOnce, Carried, MarksFree, vars, elements, At, Caller,
                            HoldingAt
<1> QED BY <1>2, <1>4, <1>7, <1>8 DEF BaseInv

(* A stuttering step of the session keeps each part of the invariant.       *)
LEMMA RestKeeps ==
    ASSUME BaseInv, UNCHANGED sessionVars
    PROVE  /\ BaseInv'
           /\ Served => Served'
           /\ LivesServed => LivesServed'
           /\ CachesConnected => CachesConnected'
           /\ Reported => Reported'
<1>1. UNCHANGED <<vars, cache, stale, call, connected, token, notices, dead, attachFlag>>
    BY DEF sessionVars, clientVars, serverVars, resendVars
<1>2. TypeOK'
    BY <1>1, TypeStep DEF BaseInv
<1>3. BaseInv'
    BY <1>1, <1>2 DEF BaseInv, SessionTypes, Places, MutexOnce, Carried, MarksFree, vars, elements,
                      threads, modes, At, Caller
<1>4. \A f : Leaving(f)' <=> Leaving(f)
    BY <1>1 DEF Leaving, Caller
<1> QED BY <1>1, <1>3, <1>4 DEF Served, LivesServed, CachesConnected, Reported, Pid, Caller

(* With nobody to report, nobody is disconnected for another's death.       *)
LEMMA NobodyReported ==
    ASSUME Reported, ProducerLives, NEW t, NEW p, OnRemoteDied(t, p)
    PROVE  FALSE
BY DEF Reported, OnRemoteDied, ProducerLives

(* A session starts with nobody connected and every cache empty.            *)
LEMMA SessionInvInit ==
    ASSUME SessionInit
    PROVE  SessionInv
<1>1. TypeOK
    BY TypeInit DEF SessionInit
<1>2. call = [t \in Thread |-> NoCall] /\ \A t \in Thread : call[t].at = "none"
    BY CallValues DEF SessionInit
<1>3. SessionTypes
    BY <1>2, CallValues DEF SessionInit, SessionTypes
<1>4. Places
    BY <1>2 DEF SessionInit, Init, Places, LockedAt, RequestCall, AttachCall
<1>5. MutexOnce /\ Carried /\ Served
    BY <1>2 DEF MutexOnce, Carried, Served, LockedAt, ServedAt, HoldingAt, At
<1>6. CachesConnected /\ Reported /\ MarksFree
    BY DEF SessionInit, Init, CachesConnected, Reported, MarksFree
<1> QED BY <1>1, <1>3, <1>4, <1>5, <1>6 DEF SessionInv, BaseInv

(* Every step of the session is of a kind sorted above, or a death, or its  *)
(* report.                                                                  *)
LEMMA SessionKinds ==
    ASSUME BaseInv, [SessionNext]_sessionVars
    PROVE  \/ UNCHANGED sessionVars
           \/ \E p \in Process : Dies(p)
           \/ \E t \in Thread : \E p \in Process : OnRemoteDied(t, p)
           \/ \E t \in Thread : StepKind(t)
BY StepKinds, MarksPreAlloc DEF BaseInv

(* The part of the invariant that no death disturbs.                        *)
LEMMA BaseInvStep ==
    ASSUME BaseInv, [SessionNext]_sessionVars
    PROVE  BaseInv'
<1>1. TypeOK'
    BY SessionKeepsQueueTypes DEF BaseInv
<1>2. ASSUME NEW t \in Thread, StepKind(t)
      PROVE  BaseInv'
    <2>1. MutexOnce' /\ Places'
        BY <1>2, MutexStep, PlacesStep DEF BaseInv, StepKind
    <2>2. Carried' /\ SessionTypes' /\ MarksFree'
        BY <1>2, CarriedStep, CacheChanges, MarksStep DEF BaseInv
    <2> QED BY <1>1, <2>1, <2>2 DEF BaseInv
<1> QED BY <1>2, SessionKinds, DiesKeeps, DiedKeeps, RestKeeps

(* The whole, as long as the process whose death the producer is told of    *)
(* lives.                                                                   *)
LEMMA SessionInvStep ==
    ASSUME OneSurfaceEach, SessionInv, ProducerLives, [SessionNext]_sessionVars
    PROVE  SessionInv'
<1>1. BaseInv /\ BaseInv'
    BY BaseInvStep DEF SessionInv
<1>2. ASSUME NEW t \in Thread, StepKind(t)
      PROVE  SessionInv'
    <2>1. Served' /\ CachesConnected'
        <3>1. LivesServed
            BY DEF SessionInv, Served, LivesServed
        <3> QED BY <1>2, <3>1, ServedStep, CachesStep DEF SessionInv, BaseInv
    <2>2. Reported'
        BY <1>2 DEF SessionInv, StepKind, Control, Reported
    <2> QED BY <1>1, <2>1, <2>2 DEF SessionInv
<1> QED BY <1>1, <1>2, SessionKinds, DiesKeeps, RestKeeps, NobodyReported DEF SessionInv

(* So it is an invariant of every behaviour in which that process lives.    *)
LEMMA SessionInvAlways ==
    ASSUME OneSurfaceEach
    PROVE  SessionSpec /\ []ProducerLives => []SessionInv
<1>1. SessionInit => SessionInv
    BY SessionInvInit
<1>2. SessionInv /\ ProducerLives /\ [SessionNext]_sessionVars => SessionInv'
    BY SessionInvStep
<1> QED BY <1>1, <1>2, PTL DEF SessionSpec

(* All that live are one process.                                           *)
OneLives == \A f, g \in Surface :
    ProcessOf[f] \notin dead /\ ProcessOf[g] \notin dead => ProcessOf[f] = ProcessOf[g]

DeadHoldNothing == \A f \in Surface : ProcessOf[f] \in dead => cache[f] = {}

(* What holds through deaths, too.                                          *)
HeldInv ==
    /\ BaseInv /\ notices \subseteq dead /\ DeadHoldNothing
    /\ OneLives \/ (LivesServed /\ CachesConnected)

(* While the report of a death is under way nobody else is connected, or    *)
(* only one process lives, and none can follow it.                          *)
ReportsInTime == \A p \in notices : connected \in {NULL, p} \/ OneLives

(* The dead are given nothing.                                              *)
LEMMA DeadStep ==
    ASSUME BaseInv, DeadHoldNothing, NEW t \in Thread, StepKind(t)
    PROVE  DeadHoldNothing'
<1>1. dead' = dead
    BY DEF StepKind, Control
<1> SUFFICES ASSUME NEW f \in Surface, ProcessOf[f] \in dead
             PROVE  cache'[f] = {}
    BY <1>1 DEF DeadHoldNothing
<1>2. cache[f] = {}
    BY DEF DeadHoldNothing
<1>3. cache'[f] = {} \/ (ClientGranted(t) /\ f = Caller(t))
    BY <1>2, CacheChanges DEF BaseInv
<1>4. ~(ClientGranted(t) /\ f = Caller(t))
    BY GrantedCaches DEF BaseInv, Pid, Caller
<1> QED BY <1>3, <1>4

(* The report of a death disconnects nobody who lives, if it is in time.    *)
LEMMA BuriedHeld ==
    ASSUME BaseInv, LivesServed, CachesConnected, notices \subseteq dead,
           NEW t \in Thread, NEW p, OnRemoteDied(t, p), connected \in {NULL, p}
    PROVE  LivesServed' /\ CachesConnected'
<1>1. /\ p \in dead /\ connected' = NULL
      /\ UNCHANGED <<cache, stale, dead>>
      /\ At(t, "none")
      /\ Go(t, "burying") \/ UNCHANGED call
    BY DEF OnRemoteDied, clientVars
<1>3. \A u \in Thread : call'[u] = call[u] \/ (u = t /\ call'[u].at = "burying")
    <2>1. CASE Go(t, "burying")
        <3>1. "burying" \in CallPlace
            BY DEF CallPlace
        <3> QED BY <2>1, <3>1, GoType DEF BaseInv
    <2> QED BY <1>1, <2>1
<1>4. \A f \in Surface : connected = ProcessOf[f] => cache[f] = {}
    BY <1>1, SurfaceAssumption DEF CachesConnected
<1>5. LivesServed'
    <2> SUFFICES ASSUME NEW u \in Thread, call'[u].at \in ServedAt, Pid(u) \notin dead
                 PROVE  FALSE
        BY <1>1 DEF LivesServed, Pid, Caller
    <2>1. call[u].at \in ServedAt
        BY <1>3 DEF ServedAt, HoldingAt
    <2>2. connected = Pid(u)
        BY <2>1 DEF LivesServed
    <2>3. Pid(u) # NULL
        BY <2>1, SurfaceAssumption DEF BaseInv, Places, ServedAt, HoldingAt, LockedAt, Pid, Caller
    <2> QED BY <1>1, <2>2, <2>3
<1>6. CachesConnected'
    <2>1. \A f \in Surface : Leaving(f) => Leaving(f)'
        BY <1>1, <1>3 DEF Leaving, LeavingAt, At, Caller
    <2> QED BY <1>1, <1>4, <2>1 DEF CachesConnected
<1> QED BY <1>5, <1>6

(* Each step keeps it.                                                      *)
LEMMA HeldInvStep ==
    ASSUME OneSurfaceEach, HeldInv, ReportsInTime, [SessionNext]_sessionVars
    PROVE  HeldInv'
<1>1. BaseInv /\ BaseInv' /\ DeadHoldNothing /\ notices \subseteq dead
    BY BaseInvStep DEF HeldInv
<1>2. ASSUME NEW t \in Thread, StepKind(t)
      PROVE  HeldInv'
    <2>1. notices' = notices /\ dead' = dead
        BY <1>2 DEF StepKind, Control
    <2>2. DeadHoldNothing'
        BY <1>1, <1>2, DeadStep
    <2>3. CASE OneLives
        BY <1>1, <2>1, <2>2, <2>3 DEF HeldInv, OneLives
    <2>4. CASE LivesServed /\ CachesConnected
        <3>1. LivesServed' /\ CachesConnected'
            BY <1>1, <1>2, <2>4, LivesServedStep, CachesStep DEF BaseInv
        <3> QED BY <1>1, <2>1, <2>2, <3>1 DEF HeldInv
    <2> QED BY <2>3, <2>4 DEF HeldInv
<1>3. ASSUME NEW p \in Process, Dies(p)
      PROVE  HeldInv'
    <2>1. /\ dead' = dead \union {p} /\ notices' \subseteq dead'
          /\ cache' = [f \in Surface |-> IF ProcessOf[f] = p THEN {} ELSE cache[f]]
        BY <1>1, <1>3 DEF Dies, Bereft
    <2>2. DeadHoldNothing'
        BY <1>1, <2>1 DEF DeadHoldNothing
    <2>3. CASE OneLives
        <3>1. OneLives'
            BY <2>1, <2>3 DEF OneLives
        <3> QED BY <1>1, <2>1, <2>2, <3>1 DEF HeldInv
    <2>4. CASE LivesServed /\ CachesConnected
        <3>1. LivesServed' /\ CachesConnected'
            BY <1>1, <1>3, <2>4, DiesKeeps
        <3> QED BY <1>1, <2>1, <2>2, <3>1 DEF HeldInv
    <2> QED BY <2>3, <2>4 DEF HeldInv
<1>4. ASSUME NEW t \in Thread, NEW p \in Process, OnRemoteDied(t, p)
      PROVE  HeldInv'
    <2>1. p \in notices /\ notices' \subseteq dead /\ UNCHANGED <<cache, dead>>
        BY <1>1, <1>4 DEF OnRemoteDied, clientVars
    <2>2. DeadHoldNothing'
        BY <1>1, <2>1 DEF DeadHoldNothing
    <2>3. CASE OneLives
        BY <1>1, <2>1, <2>2, <2>3 DEF HeldInv, OneLives
    <2>4. CASE ~OneLives
        <3>1. connected \in {NULL, p}
            BY <2>1, <2>4 DEF ReportsInTime
        <3>2. LivesServed' /\ CachesConnected'
            BY <1>1, <1>4, <2>4, <3>1, BuriedHeld DEF HeldInv
        <3> QED BY <1>1, <2>1, <2>2, <3>2 DEF HeldInv
    <2> QED BY <2>3, <2>4
<1>5. CASE UNCHANGED sessionVars
    <2>1. UNCHANGED <<notices, dead, cache>>
        BY <1>5 DEF sessionVars, serverVars, clientVars
    <2>2. DeadHoldNothing' /\ (OneLives => OneLives')
        BY <1>1, <2>1 DEF DeadHoldNothing, OneLives
    <2>3. LivesServed /\ CachesConnected => LivesServed' /\ CachesConnected'
        BY <1>1, <1>5, RestKeeps
    <2> QED BY <1>1, <2>1, <2>2, <2>3 DEF HeldInv
<1> QED BY <1>1, <1>2, <1>3, <1>4, <1>5, SessionKinds

(***************************************************************************)
(* One process at a time is served: two processes never hold the same      *)
(* live buffer in their caches, once the cleans are over                   *)
(* (BufferQueueProducer::CheckConnectLocked, CleanCache, Disconnect and    *)
(* OnBufferProducerRemoteDied).  Processes may die, and what they asked for  *)
(* may go on in the server; but the report of a death must find nobody else *)
(* connected, for it disconnects whoever is, unless only one process lives. *)
(***************************************************************************)
THEOREM OneProcessAtATime ==
    OneSurfaceEach => (SessionSpec /\ []ReportsInTime => []OneProcessHolds)
<1> SUFFICES ASSUME OneSurfaceEach
             PROVE  SessionSpec /\ []ReportsInTime => []OneProcessHolds
    OBVIOUS
<1>1. HeldInv => OneProcessHolds
    <2> SUFFICES ASSUME HeldInv, \A t \in Thread : ~Cleaning(t), NEW f \in Surface,
                        NEW g \in Surface, ProcessOf[f] # ProcessOf[g]
                 PROVE  Current(f) \intersect Current(g) = {}
        BY DEF OneProcessHolds
    <2>1. CASE OneLives
        BY <2>1 DEF HeldInv, OneLives, DeadHoldNothing, Current
    <2>2. CASE CachesConnected
        <3>1. ~Leaving(f) /\ ~Leaving(g)
            BY DEF Leaving, LeavingAt, Cleaning
        <3>2. cache[f] = {} \/ cache[g] = {}
            BY <2>2, <3>1 DEF CachesConnected
        <3> QED BY <3>2 DEF Current
    <2> QED BY <2>1, <2>2 DEF HeldInv
<1>2. SessionInit => HeldInv
    <2>1. SessionInit => SessionInv /\ notices = {}
        BY SessionInvInit DEF SessionInit
    <2> QED BY <2>1 DEF SessionInv, HeldInv, Served, LivesServed, CachesConnected, DeadHoldNothing
<1>3. HeldInv /\ ReportsInTime /\ [SessionNext]_sessionVars => HeldInv'
    BY HeldInvStep
<1> QED BY <1>1, <1>2, <1>3, PTL DEF SessionSpec

-----------------------------------------------------------------------------
(* What the caches hold is known. *)

(* The numbers the queue has, or has told of, or dropped in a clean.        *)
Known == Cached \union deletingList \union cleared

(* A reply on its way to the surface names the number as deleted.           *)
Told(f, s) == \E t \in Thread :
    Caller(t) = f /\ call[t].at \in HoldingAt /\ s \in call[t].del

CachesKnown ==
    /\ \A t \in Thread : call[t].at \in HoldingAt => call[t].seq \in Known
    /\ \A f \in Surface : connected = ProcessOf[f] =>
          \A s \in cache[f] : s \in Known \/ Told(f, s)

(* A step of the queue forgets a number only into the reply it sends.       *)
LEMMA KnownKept ==
    ASSUME TypeOK, NEW t \in Thread, QueueStep(t), NEW s \in Buffers, s \in Known, s \notin Known'
    PROVE  Granting(t) /\ s \in call'[t].del
<1>1. cleared' = (cleared \union Silently(t)) \ Fresh(t) /\ s \notin cleared'
    BY DEF QueueStep, Drops, Known
<1>2. state'[s] = "NONE" /\ s \notin deletingList'
    BY DEF Known, Cached
<1>3. s \notin Fresh(t)
    BY <1>2 DEF Fresh
<1>4. s \notin Silently(t) /\ s \notin cleared
    BY <1>1, <1>3
<1>5. s \in deletingList /\ GrantedBy(t) # {} /\ At(t, "queue")
    BY <1>2, <1>4 DEF Silently, Known, Cached
<1> QED BY <1>5 DEF QueueStep, Granting, Plainly, Attaching, Lending

(* A surface that becomes connected has an empty cache.                     *)
LEMMA NewlyConnected ==
    ASSUME OneSurfaceEach, SessionInv, NEW t \in Thread, StepKind(t), NEW f \in Surface,
           connected' = ProcessOf[f], connected # ProcessOf[f]
    PROVE  cache'[f] = {}
<1>1. connected = NULL /\ connected' = Pid(t) /\ call[t].at \in ConnectingAt
    BY SurfaceAssumption DEF StepKind, Control, Connection
<1>2. call[t].at \in LockedAt /\ Caller(t) = f
    BY <1>1 DEF SessionInv, BaseInv, Places, OneSurfaceEach, Pid, Caller, ConnectingAt, LockedAt
<1>3. ~Leaving(f)
    BY <1>1, <1>2 DEF SessionInv, BaseInv, MutexOnce, Leaving, LeavingAt, LockedAt, ConnectingAt
<1>4. cache[f] = {}
    BY <1>3 DEF SessionInv, CachesConnected
<1>5. ~ClientGranted(t) /\ ~Revives(t)
    BY <1>1 DEF ClientGranted, Revives, CallerReads, At, ConnectingAt
<1> QED BY <1>4, <1>5 DEF StepKind, Quiet, QueueStep

(* A grant is served to the connected surface, and it is the only call that *)
(* holds one.                                                               *)
LEMMA GrantIsAlone ==
    ASSUME OneSurfaceEach, SessionInv, NEW t \in Thread, call[t].at \in ServedAt,
           NEW u \in Thread, call[u].at \in ServedAt
    PROVE  u = t
<1>1. call[t].at \in LockedAt /\ call[u].at \in LockedAt
    BY DEF ServedAt, HoldingAt, LockedAt
<1>2. Caller(t) = Caller(u)
    BY <1>1 DEF SessionInv, BaseInv, Served, Places, OneSurfaceEach, Pid, Caller
<1> QED BY <1>1, <1>2 DEF SessionInv, BaseInv, MutexOnce

(* What a step leaves in a cache the queue still knows, or the next reply   *)
(* deletes.                                                                 *)
LEMMA KnownStep ==
    ASSUME OneSurfaceEach, SessionInv, CachesKnown, NEW t \in Thread, StepKind(t)
    PROVE  CachesKnown'
<1> USE DEF SessionInv, BaseInv
<1>1. /\ \A u \in Thread \ {t} : call'[u] = call[u]
      /\ cache \in [Surface -> SUBSET Buffers]
    BY DEF StepKind, Control, SessionTypes
<1>2. CASE Quiet(t)
    <2>1. Known' = Known
        BY <1>2 DEF Quiet, Known, Cached
    <2>2. ASSUME NEW f \in Surface, connected' = ProcessOf[f], NEW s \in cache'[f]
          PROVE  s \in Known' \/ Told(f, s)'
        <3>1. connected = ProcessOf[f]
            BY <2>2, NewlyConnected
        <3>2. s \in cache[f]
            BY <1>2, <2>2 DEF Quiet
        <3>3. CASE Told(f, s)
            <4>1. PICK w \in Thread : Caller(w) = f /\ call[w].at \in HoldingAt /\ s \in call[w].del
                BY <3>3 DEF Told
            <4>2. w # t
                BY <1>2, <3>2, <4>1 DEF Quiet, CachesConnected, Pid, Caller
            <4> QED BY <1>1, <4>1, <4>2 DEF Told, Caller
        <3> QED BY <2>1, <3>1, <3>2, <3>3 DEF CachesKnown
    <2>3. \A u \in Thread : call'[u].at \in HoldingAt => call'[u].seq \in Known'
        BY <1>1, <1>2, <2>1 DEF Quiet, CachesKnown
    <2> QED BY <2>2, <2>3 DEF CachesKnown
<1>3. CASE QueueStep(t)
    <2>1. call[t].at \notin HoldingAt /\ cache' = cache
        BY <1>3 DEF QueueStep
    <2>2. Granting(t) => call[t].at \in ServedAt /\ connected = Pid(t)
        BY DEF Granting, At, ServedAt, Served
    <2>3. ASSUME NEW u \in Thread, call'[u].at \in HoldingAt
          PROVE  call'[u].seq \in Known'
        <3>1. CASE u = t
            BY <1>3, <2>3, <3>1 DEF QueueStep, Granting, Plainly, Attaching, Lending, Gives, Known, Cached,
                                   TypeOK, QueueTypes
        <3>2. CASE u # t
            <4>1. call'[u] = call[u] /\ call[u].seq \in Known /\ call[u].seq \in Buffers
                BY <1>1, <2>3, <3>2 DEF CachesKnown, Carried
            <4>2. ~Granting(t)
                BY <2>2, <2>3, <3>2, <4>1, GrantIsAlone DEF ServedAt
            <4> QED BY <1>3, <4>1, <4>2, KnownKept
        <3> QED BY <3>1, <3>2
    <2>4. ASSUME NEW f \in Surface, connected' = ProcessOf[f], NEW s \in cache'[f]
          PROVE  s \in Known' \/ Told(f, s)'
        <3>1. connected = ProcessOf[f] /\ s \in cache[f] /\ s \in Buffers
            BY <1>1, <2>1, <2>4, NewlyConnected
        <3>2. CASE Told(f, s)
            <4>1. PICK w \in Thread : Caller(w) = f /\ call[w].at \in HoldingAt /\ s \in call[w].del
                BY <3>2 DEF Told
            <4> QED BY <1>1, <2>1, <4>1 DEF Told, Caller
        <3>3. CASE s \in Known /\ s \notin Known'
            <4>1. Granting(t) /\ s \in call'[t].del
                BY <1>3, <3>1, <3>3, KnownKept
            <4>2. Caller(t) = f
                BY <2>2, <3>1, <4>1 DEF OneSurfaceEach, Places, ServedAt, HoldingAt, LockedAt, Pid,
                                        Caller
            <4>3. call'[t].at \in HoldingAt
                BY <4>1 DEF Granting
            <4> QED BY <4>1, <4>2, <4>3 DEF Told, Caller
        <3> QED BY <3>1, <3>2, <3>3 DEF CachesKnown
    <2> QED BY <2>3, <2>4 DEF CachesKnown
<1>4. CASE ClientGranted(t)
    <2>1. /\ Known' = Known /\ connected' = connected /\ connected = Pid(t)
          /\ Caller(t) \in Surface /\ call[t].at \in HoldingAt
          /\ Filled(t) \subseteq cache[Caller(t)] \union Cached \union {call[t].seq}
          /\ cache'[Caller(t)] = Filled(t) \ call[t].del
        BY <1>4, GrantedCaches DEF Known, Cached, vars, elements, HoldingAt, Served, ServedAt
    <2>2. call'[t].at \notin HoldingAt
        <3>1. call'[t] = NoCall
            BY <1>4 DEF ClientGranted, Done, SessionTypes
        <3> QED BY <3>1, CallValues DEF HoldingAt
    <2>3. \A u \in Thread : call'[u].at \in HoldingAt => call'[u].seq \in Known'
        BY <1>1, <2>1, <2>2 DEF CachesKnown
    <2>4. ASSUME NEW f \in Surface, connected' = ProcessOf[f], NEW s \in cache'[f]
          PROVE  s \in Known'
        <3>1. f = Caller(t)
            BY <2>1, <2>4 DEF OneSurfaceEach, Pid, Caller
        <3>2. CASE s \in cache[f]
            <4>1. ~Told(f, s)
                <5>1. SUFFICES ASSUME Told(f, s) PROVE FALSE
                    OBVIOUS
                <5>2. PICK w \in Thread : call[w].at \in HoldingAt /\ s \in call[w].del
                    BY <5>1 DEF Told
                <5>3. w = t
                    BY <2>1, <5>2, GrantIsAlone DEF ServedAt
                <5> QED BY <2>1, <2>4, <3>1, <5>2, <5>3
            <4> QED BY <2>1, <2>4, <3>2, <4>1 DEF CachesKnown
        <3>3. CASE s \in Cached \union {call[t].seq}
            BY <2>1, <3>3 DEF CachesKnown, Known
        <3> QED BY <2>1, <2>4, <3>1, <3>2, <3>3
    <2> QED BY <2>3, <2>4 DEF CachesKnown
<1>5. CASE Revives(t)
    <2>1. /\ UNCHANGED <<cache, deletingList, cleared, connected>>
          /\ call[t].at = "flagWait" /\ call[t].seq \in Buffers
          /\ state' = [state EXCEPT ![call[t].seq] =
                          IF state[call[t].seq] = "NONE" THEN "RELEASED" ELSE state[call[t].seq]]
        BY <1>5 DEF Revives, SetProducerCacheCleanFlagLocked, At, Carried, HoldingAt, clientVars,
                    serverVars
    <2>2. Known \subseteq Known'
        BY <2>1 DEF Known, Cached, TypeOK, QueueTypes
    <2>3. /\ call'[t].at \in HoldingAt /\ call'[t].seq = call[t].seq /\ call'[t].del = call[t].del
          /\ call[t].at \in HoldingAt
        <3>1. call'[t] = [call[t] EXCEPT !.at = "granted"] /\ call[t] \in CallType
            BY <1>5, RevivesControl DEF SessionTypes
        <3> QED BY <2>1, <3>1 DEF CallType, HoldingAt
    <2>4. \A f, s : Told(f, s) => Told(f, s)'
        BY <1>1, <2>3 DEF Told, Caller
    <2> QED BY <1>1, <2>1, <2>2, <2>3, <2>4 DEF CachesKnown
<1> QED BY <1>2, <1>3, <1>4, <1>5 DEF StepKind

(* A death only empties the dead process's caches.                          *)
LEMMA KnownOnDeath ==
    ASSUME SessionInv, CachesKnown, NEW p, Dies(p)
    PROVE  CachesKnown'
<1>1. /\ UNCHANGED <<vars, call, connected, cleared>>
      /\ \A f \in Surface : cache'[f] \subseteq cache[f]
    BY DEF Dies, Bereft, resendVars
<1>2. Known' = Known /\ \A f, s : Told(f, s)' <=> Told(f, s)
    BY <1>1 DEF Known, Cached, vars, elements, Told, Caller
<1> QED BY <1>1, <1>2 DEF CachesKnown

(* A stuttering step leaves caches and queue alone.                         *)
LEMMA KnownAtRest ==
    ASSUME CachesKnown, UNCHANGED sessionVars
    PROVE  CachesKnown'
<1>1. UNCHANGED <<cache, call, connected, cleared, state, deletingList>>
    BY DEF sessionVars, clientVars, serverVars, vars, elements
<1>2. Known' = Known /\ \A f, s : Told(f, s)' <=> Told(f, s)
    BY <1>1 DEF Known, Cached, Told, Caller
<1> QED BY <1>1, <1>2 DEF CachesKnown

(* So every step of the session keeps the caches known.                     *)
LEMMA KnownInvStep ==
    ASSUME OneSurfaceEach, SessionInv, CachesKnown, ProducerLives, [SessionNext]_sessionVars
    PROVE  CachesKnown'
<1>1. \/ UNCHANGED sessionVars
      \/ \E p \in Process : Dies(p)
      \/ \E t \in Thread : StepKind(t)
    BY SessionKinds, NobodyReported DEF SessionInv
<1> QED BY <1>1, KnownStep, KnownOnDeath, KnownAtRest

(* The client hears of every buffer the queue deletes: what the connected   *)
(* surface's cache holds the queue has, or deletingList_ or a reply on its  *)
(* way names, or a clean of the whole queue or a request on behalf of the   *)
(* listener dropped without a word.                                         *)
THEOREM ClientHearsOfDeletions ==
    OneSurfaceEach => (SessionSpec /\ []ProducerLives => []DeletionsReachClient)
<1> SUFFICES ASSUME OneSurfaceEach
             PROVE  SessionSpec /\ []ProducerLives => []DeletionsReachClient
    OBVIOUS
<1>1. SessionInit => CachesKnown
    <2> SUFFICES ASSUME SessionInit PROVE CachesKnown
        OBVIOUS
    <2>1. \A t \in Thread : call[t].at = "none"
        BY CallValues DEF SessionInit
    <2> QED BY <2>1 DEF SessionInit, CachesKnown, HoldingAt
<1>2. SessionInv /\ ProducerLives /\ CachesKnown /\ [SessionNext]_sessionVars => CachesKnown'
    BY KnownInvStep
<1>3. CachesKnown => DeletionsReachClient
    BY DEF CachesKnown, DeletionsReachClient, Told, Known
<1> QED BY <1>1, <1>2, <1>3, SessionInvAlways, PTL DEF SessionSpec

-----------------------------------------------------------------------------
(* The queue inside a session where nobody goes to the background. *)

HidingAt == {"background", "setFlag", "flagWait"}

(* producerCacheClean_ is not set, and no call is about to set it or waits   *)
(* to take it back.                                                         *)
FlagOff == ~cleanFlag /\ \A t \in Thread : call[t].at \notin HidingAt

NobodyHides == NoneCalls({"GoBackground"})

(* A call that goes to another place, or starts anew.                       *)
LEMMA FlagStays ==
    ASSUME SessionTypes, FlagOff, NEW t \in Thread, NEW at, at \notin HidingAt,
           \/ call' = call
           \/ Go(t, at)
           \/ \E c \in CallType : c.at = at /\ call' = [call EXCEPT ![t] = c],
           UNCHANGED resendVars \/ UNCHANGED cleanFlag \/ ~cleanFlag'
    PROVE  FlagOff'
<1>1. call \in [Thread -> CallType]
    BY DEF SessionTypes
<1>2. Go(t, at) => \A u \in Thread : call'[u].at = IF u = t THEN at ELSE call[u].at
    BY <1>1 DEF Go, CallType
<1>3. ~cleanFlag'
    BY DEF FlagOff, resendVars
<1> QED BY <1>1, <1>2, <1>3 DEF FlagOff

(* The reply to a request is sent at once.                                  *)
LEMMA AnswerFlag ==
    ASSUME TypeOK, SessionTypes, FlagOff, NEW t \in Thread, At(t, "queue"), Answer(t)
    PROVE  FlagOff'
<1>1. call \in [Thread -> CallType] /\ call[t] \in CallType /\ call[t].at = "queue"
    BY DEF SessionTypes, At
<1>2. CASE pc'[t] # "idle"
    <2>1. call' = [call EXCEPT ![t] = [call[t] EXCEPT !.realloc = call[t].realloc \/ Reallocates(t)]]
          /\ cleanFlag' = cleanFlag
        BY <1>2 DEF Answer, resendVars
    <2>2. call'[t].at = "queue" /\ \A u \in Thread \ {t} : call'[u] = call[u]
        BY <1>1, <2>1 DEF CallType
    <2> QED BY <2>1, <2>2 DEF FlagOff, HidingAt
<1>3. CASE pc'[t] = "idle" /\ GrantedBy(t) = {}
    <2>1. PICK at \in {"failed", "noConsumer"} : call' = [call EXCEPT ![t] = CallAt(at)]
        BY <1>3 DEF Answer
    <2>2. cleanFlag' = cleanFlag
        BY <1>3 DEF Answer, resendVars
    <2>3. call'[t].at = at /\ \A u \in Thread \ {t} : call'[u] = call[u]
        BY <1>1, <2>1, CallValues
    <2> QED BY <2>1, <2>2, <2>3 DEF FlagOff, HidingAt
<1>4. CASE pc'[t] = "idle" /\ GrantedBy(t) # {}
    <2>1. PICK s \in GrantedBy(t) :
              /\ call' = [call EXCEPT ![t] =
                            [at |-> IF WaitsForFlag(t, s) THEN "flagWait" ELSE "granted",
                             seq |-> s, full |-> SentWhole(t, s), del |-> deletingList,
                             realloc |-> FALSE]]
              /\ Resend(t, s)
        BY <1>4 DEF Answer
    <2>2. ~WaitsForFlag(t, s) /\ ~cleanFlag'
        BY <2>1 DEF WaitsForFlag, Resend, FlagOff
    <2>3. call'[t].at = "granted" /\ \A u \in Thread \ {t} : call'[u] = call[u]
        BY <1>1, <2>1, <2>2
    <2> QED BY <2>2, <2>3 DEF FlagOff, HidingAt
<1> QED BY <1>2, <1>3, <1>4

(* Without GoBackground producerCacheClean_ stays FALSE.                    *)
LEMMA FlagStep ==
    ASSUME BaseInv, FlagOff, NobodyHides, [SessionNext]_sessionVars
    PROVE  FlagOff'
<1> USE DEF BaseInv
<1>1. ASSUME NEW t \in Thread, Requests(t)
      PROVE  FlagOff'
    <2>1. CASE QueueRequest(t)
        <3>1. CASE Answer(t)
            BY <2>1, <3>1, AnswerFlag DEF QueueRequest
        <3>2. CASE Go(t, "noConsumer") /\ UNCHANGED resendVars
            BY <3>2, FlagStays DEF HidingAt
        <3> QED BY <2>1, <3>1, <3>2 DEF QueueRequest
    <2>2. CASE ClientRequest(t) \/ ClientNoConsumer(t)
        <3>1. PICK at \in {"connect", "clean"} :
                  call' = [call EXCEPT ![t] = CallAt(at)] /\ UNCHANGED resendVars
            BY <2>2 DEF ClientRequest, ClientNoConsumer
        <3>2. CallAt(at) \in CallType /\ CallAt(at).at = at
            BY <3>1, CallValues DEF CallPlace
        <3>3. at \notin HidingAt
            BY <3>1 DEF HidingAt
        <3> QED BY <3>1, <3>2, <3>3, FlagStays
    <2>3. CASE ServerConnects(t)
        BY <2>3, FlagStays DEF ServerConnects, HidingAt
    <2>4. CASE ClientGranted(t) \/ ClientFailed(t)
        BY <2>4, FlagStays, CallValues DEF ClientGranted, ClientFailed, Done, HidingAt
    <2> QED BY <1>1, <2>1, <2>2, <2>3, <2>4 DEF Requests
<1>2. ASSUME NEW t \in Thread, Cleans(t)
      PROVE  FlagOff'
    <2>1. CASE ClientCleanCache(t) \/ ClientFrees(t) \/ ServerCleans(t)
        BY <2>1, FlagStays DEF ClientCleanCache, ClientFrees, ServerCleans, HidingAt
    <2>2. CASE ClientCleaned(t) \/ ClientFreed(t)
        BY <2>2, FlagStays, CallValues DEF ClientCleaned, ClientFreed, Done, HidingAt
    <2>3. CASE \/ CleansUnder(t, "cleaning", "cleaned") \/ CleansUnder(t, "disconnecting", "disconnected")
               \/ CleansUnder(t, "burying", "none") \/ CleansUnder(t, "goingBackground", "flagToo")
        <3>1. PICK next \in {"cleaned", "disconnected", "none", "flagToo"} :
                  (Go(t, next) \/ UNCHANGED call) /\ UNCHANGED resendVars
            BY <2>3 DEF CleansUnder
        <3>2. next \notin HidingAt
            BY <3>1 DEF HidingAt
        <3> QED BY <3>1, <3>2, FlagStays
    <2>4. CASE ServerFrees(t) \/ ServerFreesAfterAlloc(t)
        <3>1. UNCHANGED resendVars
            BY <2>4 DEF ServerFrees, ServerFreesAfterAlloc
        <3>2. CASE Done(t)
            BY <3>1, <3>2, FlagStays, CallValues DEF Done, HidingAt
        <3>3. CASE \E at \in {"freed", "freeing"} :
                      call' = [call EXCEPT ![t].at = at, ![t].del = Silently(t)]
            <4>1. PICK at \in {"freed", "freeing"} :
                      call' = [call EXCEPT ![t].at = at, ![t].del = Silently(t)]
                BY <3>3
            <4>2. call \in [Thread -> CallType] /\ call[t] \in CallType
                BY DEF SessionTypes
            <4>3. call'[t].at = at /\ \A u \in Thread \ {t} : call'[u] = call[u]
                BY <4>1, <4>2 DEF CallType
            <4> QED BY <3>1, <4>1, <4>3 DEF FlagOff, HidingAt, resendVars
        <3> QED BY <2>4, <3>2, <3>3 DEF ServerFrees, ServerFreesAfterAlloc
    <2> QED BY <1>2, <2>1, <2>2, <2>3, <2>4 DEF Cleans
<1>3. ASSUME NEW t \in Thread, Connects(t)
      PROVE  FlagOff'
    <2>1. CASE \/ ClientDisconnect(t) \/ ServerDisconnects(t) \/ ClientConnect(t)
               \/ ServerConnectsOnly(t)
        BY <2>1, FlagStays DEF ClientDisconnect, ServerDisconnects, ClientConnect,
                               ServerConnectsOnly, HidingAt
    <2>2. CASE ClientDisconnected(t) \/ ClientConnected(t)
        BY <2>2, FlagStays, CallValues DEF ClientDisconnected, ClientConnected, Done, HidingAt
    <2>3. CASE \E yes \in BOOLEAN : SetStrictly(t, yes)
        <3>1. UNCHANGED <<call, resendVars>>
            BY <2>3 DEF SetStrictly
        <3> QED BY <3>1 DEF FlagOff, resendVars
    <2>4. ~ClientBackground(t)
        BY DEF ClientBackground, BeginsLocked, Begins, NobodyHides, NoneCalls
    <2>5. ~ServerBackground(t)
        BY DEF ServerBackground, At, FlagOff, HidingAt
    <2>6. CASE SetProducerCacheCleanFlagLocked(t)
        <3>1. ~At(t, "setFlag") /\ ~At(t, "flagWait")
            BY DEF At, FlagOff, HidingAt
        <3>2. ~cleanFlag' /\ Done(t)
            BY <2>6, <3>1 DEF SetProducerCacheCleanFlagLocked
        <3> QED BY <3>2, FlagStays, CallValues DEF Done, HidingAt
    <2> QED BY <1>3, <2>1, <2>2, <2>3, <2>4, <2>5, <2>6 DEF Connects
<1>4. ASSUME NEW t \in Thread, GoesOn(t)
      PROVE  FlagOff'
    <2>1. CASE At(t, "queue") /\ Answer(t)
        BY <2>1, AnswerFlag
    <2>2. CASE UNCHANGED <<call, resendVars>>
        BY <2>2 DEF FlagOff, resendVars
    <2> QED BY <1>4, <2>1, <2>2 DEF GoesOn
<1>5. ASSUME NEW t \in Thread, NEW p, ReplyLost(t) \/ OnRemoteDied(t, p)
      PROVE  FlagOff'
    BY <1>5, FlagStays, CallValues DEF ReplyLost, OnRemoteDied, Done, HidingAt
<1>6. ASSUME NEW t \in Thread, \E background \in BOOLEAN : OwnerCleans(t, background)
      PROVE  FlagOff'
    <2>1. PICK at \in {"goingBackground", "burying"} : Go(t, at) /\ UNCHANGED resendVars
        BY <1>6 DEF OwnerCleans
    <2>2. at \notin HidingAt
        BY <2>1 DEF HidingAt
    <2> QED BY <2>1, <2>2, FlagStays
<1>7. ASSUME NEW t \in Thread,
             (\E s \in Buffers : ClientReturns(t, s)) \/ ConsumerCalls(t) \/ OwnerCalls(t)
      PROVE  FlagOff'
    <2>1. (\E s \in Buffers : ClientReturns(t, s)) => UNCHANGED <<call, cleanFlag>>
        BY DEF ClientReturns, resendVars
    <2>2. ConsumerCalls(t) \/ OwnerCalls(t) => UNCHANGED <<call, cleanFlag>>
        BY DEF ConsumerCalls, OwnerCalls, resendVars
    <2> QED BY <1>7, <2>1, <2>2 DEF FlagOff
<1>8. (\E p \in Process : Dies(p)) \/ NobodyLeft \/ UNCHANGED sessionVars
        => UNCHANGED <<call, cleanFlag>>
    BY DEF Dies, NobodyLeft, sessionVars, resendVars
<1>9. UNCHANGED <<call, cleanFlag>> => FlagOff'
    BY DEF FlagOff
<1> QED BY <1>1, <1>2, <1>3, <1>4, <1>5, <1>6, <1>7, <1>8, <1>9 DEF SessionNext

(* No grant waits in UpdateReuseBufferState for another allocation.         *)
Unwaited == \A t \in Thread : ~At(t, "flagWait")

(* The flag off, none does.                                                 *)
LEMMA OffUnwaited == FlagOff => Unwaited
BY DEF FlagOff, Unwaited, At, HidingAt

(* Where none does the queue takes its own steps only.                      *)
LEMMA QueueStepsOnly ==
    ASSUME Unwaited, [SessionNext]_sessionVars
    PROVE  [Next]_vars
<1>1. ASSUME NEW t \in Thread, SetProducerCacheCleanFlagLocked(t)
      PROVE  UNCHANGED vars
    <2>1. ~At(t, "flagWait")
        BY DEF Unwaited
    <2> QED BY <1>1, <2>1 DEF SetProducerCacheCleanFlagLocked, vars, elements
<1> QED BY <1>1, SessionSteps

(* What the threads may do never changes.                                   *)
LEMMA CallsKept ==
    ASSUME BaseInv, [SessionNext]_sessionVars
    PROVE  calls' = calls
<1>1. ASSUME NEW t \in Thread, StepKind(t)
      PROVE  calls' = calls
    BY <1>1 DEF StepKind, Control, MovesOn
<1>2. ASSUME UNCHANGED vars
      PROVE  calls' = calls
    BY <1>2 DEF vars, modes
<1>3. /\ UNCHANGED sessionVars => UNCHANGED vars
      /\ \A p \in Process : Dies(p) => UNCHANGED vars
      /\ \A t \in Thread, p \in Process : OnRemoteDied(t, p) => UNCHANGED vars
    BY DEF sessionVars, Dies, OnRemoteDied
<1> QED BY <1>1, <1>2, <1>3, SessionKinds

(* Where each buffer has one owner and nobody goes to the background, the   *)
(* queue keeps the invariant it has of itself.                              *)
QueueSafe == SingleOwner /\ NobodyHides => FlagOff /\ IInv

SafeInv == BaseInv /\ QueueSafe

(* It does at the start. *)
LEMMA SafeInvInit ==
    ASSUME SessionInit
    PROVE  SafeInv
<1>1. FlagOff
    BY CallValues DEF SessionInit, FlagOff, HidingAt
<1>2. IInv
    BY IInvInit DEF SessionInit
<1> QED BY <1>1, <1>2, SessionInvInit DEF SafeInv, QueueSafe, SessionInv

(* Every step keeps it. *)
LEMMA SafeInvStep ==
    ASSUME SafeInv, [SessionNext]_sessionVars
    PROVE  SafeInv'
<1>1. BaseInv' /\ calls' = calls
    BY BaseInvStep, CallsKept DEF SafeInv
<1>2. ASSUME SingleOwner, NobodyHides
      PROVE  FlagOff' /\ IInv'
    BY <1>2, FlagStep, OffUnwaited, QueueStepsOnly, IInvStep DEF SafeInv, QueueSafe
<1> QED BY <1>1, <1>2 DEF SafeInv, QueueSafe, NobodyHides, NoneCalls

(* Hence it always holds. *)
LEMMA SafeInvAlways == SessionSpec => []SafeInv
BY SafeInvInit, SafeInvStep, PTL DEF SessionSpec

-----------------------------------------------------------------------------
(* With one process alive the flag is never waited for. *)

(* isAllocatingBuffer_ is set only while a RequestBuffer allocates.         *)
AllocTold == allocating => \E t \in Thread : pc[t] = "alloc"

AllocHeld(t) ==
    /\ \A u \in Thread \ {t} : pc'[u] = pc[u]
    /\ ~allocating' \/ pc'[t] = "alloc" \/ (allocating' = allocating /\ pc[t] # "alloc")

(* A step that moves no other thread, and does not touch the mark.          *)
LEMMA MarkHeld ==
    ASSUME TypeOK, NEW t \in Thread, UNCHANGED allocating, pc[t] # "alloc",
           UNCHANGED pc \/ \E l : pc' = [pc EXCEPT ![t] = l]
    PROVE  AllocHeld(t)
BY DEF AllocHeld, TypeOK, CallTypes

(* RequestBufferLocked and what follows a wait in it.                       *)
LEMMA SelectHeld ==
    ASSUME TypeOK, NEW t \in Thread, NEW a, pc[t] # "alloc",
           SelectBuffer(t, a) \/ PopFromFreeList(t, a) \/ NoBuffer(t)
    PROVE  AllocHeld(t)
<1>1. CASE \E l : pc' = [pc EXCEPT ![t] = l] /\ UNCHANGED allocating
    BY <1>1, MarkHeld
<1>2. CASE StartAlloc(t, a)
    BY <1>2 DEF StartAlloc, Park, AllocHeld, TypeOK, CallTypes
<1>3. ASSUME NEW s, ReuseBuffer(t, s, a)
      PROVE  AllocHeld(t)
    BY <1>1, <1>2, <1>3 DEF ReuseBuffer, Finish
<1>4. /\ NoBuffer(t) => AllocHeld(t)
      /\ (Park(t, "requestBlocked", a) /\ UNCHANGED allocating) => AllocHeld(t)
    BY <1>1 DEF NoBuffer, Finish, Park
<1>5. PopFromFreeList(t, a) \/ PopFromDirtyList(t, a) => AllocHeld(t)
    BY <1>3 DEF PopFromFreeList, PopFromDirtyList
<1>6. CASE SelectBuffer(t, a)
    BY <1>2, <1>4, <1>5, <1>6 DEF SelectBuffer
<1> QED BY <1>4, <1>5, <1>6

(* Every step of RequestBuffer.                                             *)
LEMMA RequestHeld ==
    ASSUME TypeOK, NEW t \in Thread, RequestBuffer(t) \/ RequestStep(t)
    PROVE  AllocHeld(t)
<1>1. CASE RequestBuffer(t)
    <2>1. pc[t] # "alloc"
        BY <1>1 DEF RequestBuffer, Enters, Idle
    <2>2. ASSUME NEW a, Park(t, "requestWaitAlloc", a), UNCHANGED allocating
          PROVE  AllocHeld(t)
        BY <2>1, <2>2, MarkHeld DEF Park
    <2> QED BY <1>1, <2>1, <2>2, SelectHeld DEF RequestBuffer
<1>2. CASE RequestAfterAlloc(t) \/ RequestWakes(t) \/ RequestTimesOut(t)
    <2>1. pc[t] # "alloc"
        BY <1>2 DEF RequestAfterAlloc, RequestWakes, RequestTimesOut
    <2>2. SelectBuffer(t, arg[t]) \/ PopFromFreeList(t, arg[t]) \/ NoBuffer(t)
        BY <1>2 DEF RequestAfterAlloc, RequestWakes, RequestTimesOut, AfterWait
    <2> QED BY <2>1, <2>2, SelectHeld
<1>3. CASE RequestSleepsAgain(t)
    BY <1>3, MarkHeld DEF RequestSleepsAgain, threads
<1>4. CASE AllocSucceeds(t) \/ AllocFails(t)
    BY <1>4 DEF AllocSucceeds, AllocFails, Finish, AllocHeld, TypeOK, CallTypes
<1> QED BY <1>1, <1>2, <1>3, <1>4 DEF RequestStep

(* Every call of the queue.                                                 *)
LEMMA CallHeld ==
    ASSUME TypeOK, NEW t \in Thread, ProducerCall(t) \/ ConsumerCall(t) \/ ControlCall(t)
    PROVE  AllocHeld(t)
<1>1. CASE RequestBuffer(t)
    BY <1>1, RequestHeld
<1>2. CASE ~RequestBuffer(t)
    <2>1. Idle(t) /\ UNCHANGED allocating
        BY <1>2 DEF ProducerCall, ConsumerCall, ControlCall, FlushBuffer, CancelBuffer,
              AttachAndFlushBuffer, AttachBufferToQueue, DetachBuffer, AttachBuffer,
              PreAllocBuffers, AcquireBuffer, ReleaseBuffer, ReleaseUnlistened,
              ReleaseToListener, ConsumerDetach,
              AcquireLastFlushedBuffer, ReleaseLastFlushedBuffer, SetQueueSize, SetMaxQueueSize,
              CleanCache, CleanReleasedBuffers, CleanProducerBySeqNum, SetStatus,
              SetConsumerListener, SetRequestBufferNoblockMode, SetIsPriorityAlloc, Enters
    <2>2. UNCHANGED pc \/ \E l : pc' = [pc EXCEPT ![t] = l]
        BY <1>2 DEF ProducerCall, ConsumerCall, ControlCall, FlushBuffer, CancelBuffer,
              AttachAndFlushBuffer, AttachBufferToQueue, DetachBuffer, AttachBuffer,
              PreAllocBuffers, AcquireBuffer, ReleaseBuffer, ReleaseUnlistened,
              ReleaseToListener, ConsumerDetach,
              AcquireLastFlushedBuffer, ReleaseLastFlushedBuffer, SetQueueSize, SetMaxQueueSize,
              SetQueueSizeTo, CleanCache, CleanReleasedBuffers, CleanProducerBySeqNum, SetStatus,
              SetConsumerListener, SetRequestBufferNoblockMode, SetIsPriorityAlloc, threads, Park
    <2> QED BY <2>1, <2>2, MarkHeld DEF Idle
<1> QED BY <1>1, <1>2

(* Every step inside a call.                                                *)
LEMMA InnerHeld ==
    ASSUME TypeOK, NEW t \in Thread, FlushStep(t) \/ AttachStep(t) \/ WaiterStep(t)
    PROVE  AllocHeld(t)
<1>1. UNCHANGED allocating /\ pc[t] # "alloc"
    BY DEF FlushStep, FlushChecksCache, FlushChecksListener, DoFlushBuffer, FlushCancels,
           FlushDeletes, AttachStep, AttachLooksUp, AttachWakes, AttachSleepsAgain, AttachDeletes,
           WaiterStep, ReleaseDeletes, ReleaseAsks, DetachDeletes, ShrinkAfterAlloc, ClearAfterAlloc,
           CleanReleasedAfterAlloc, PreAllocated
<1>2. UNCHANGED pc \/ \E l : pc' = [pc EXCEPT ![t] = l]
    BY DEF FlushStep, FlushChecksCache, FlushChecksListener, DoFlushBuffer, FlushCancels,
           FlushDeletes, AttachStep, AttachLooksUp, AttachWakes, AttachSleepsAgain, AttachDeletes,
           WaiterStep, ReleaseDeletes, ReleaseAsks, DetachDeletes, ShrinkAfterAlloc, ClearAfterAlloc,
           CleanReleasedAfterAlloc, PreAllocated, threads, Finish, Goto, Park
<1> QED BY <1>1, <1>2, MarkHeld

(* A step of the session keeps the mark told.                               *)
LEMMA AllocToldStep ==
    ASSUME TypeOK, AllocTold, [SessionNext]_sessionVars
    PROVE  AllocTold'
<1>1. ASSUME NEW t \in Thread, AllocHeld(t)
      PROVE  AllocTold'
    <2>1. CASE ~allocating' \/ pc'[t] = "alloc"
        BY <2>1 DEF AllocTold
    <2>2. CASE allocating' = allocating /\ pc[t] # "alloc" /\ allocating
        <3>1. PICK u \in Thread : pc[u] = "alloc"
            BY <2>2 DEF AllocTold
        <3>2. pc'[u] = "alloc"
            BY <1>1, <2>2, <3>1 DEF AllocHeld
        <3> QED BY <3>2 DEF AllocTold
    <2> QED BY <1>1, <2>1, <2>2 DEF AllocHeld
<1>2. ASSUME Next
      PROVE  AllocTold'
    BY <1>1, <1>2, CallHeld, RequestHeld, InnerHeld DEF Next, Step
<1>3. ASSUME UNCHANGED <<allocating, pc>>
      PROVE  AllocTold'
    BY <1>3 DEF AllocTold
<1>4. ASSUME UNCHANGED vars \/ \E t \in Thread : SetProducerCacheCleanFlagLocked(t)
      PROVE  AllocTold'
    BY <1>3, <1>4 DEF vars, threads, SetProducerCacheCleanFlagLocked
<1> QED BY <1>2, <1>4, SessionSteps

(* The only request served allocates alone: a grant finds no allocation in  *)
(* flight to wait for.                                                      *)
LEMMA UnwaitedStep ==
    ASSUME OneSurfaceEach, SessionInv, AllocTold, Unwaited, [SessionNext]_sessionVars,
           NEW t \in Thread, StepKind(t)
    PROVE  Unwaited'
<1> USE DEF SessionInv, BaseInv
<1>1. \A u \in Thread \ {t} : call'[u] = call[u]
    BY DEF StepKind, Control
<1>2. ASSUME call'[t].at = "flagWait", Granting(t)
      PROVE  FALSE
    <2>1. allocating' /\ pc'[t] = "idle" /\ At(t, "queue")
        BY <1>2 DEF Granting, Gives
    <2>2. PICK u \in Thread : pc'[u] = "alloc"
        BY <2>1, AllocToldStep DEF AllocTold
    <2>3. u # t /\ call'[u].at = "queue"
        BY <2>1, <2>2, PlacesStep DEF StepKind, Places, RequestCall, At
    <2>4. call[u].at \in ServedAt /\ call[t].at \in ServedAt
        BY <1>1, <2>1, <2>3 DEF ServedAt, At
    <2> QED BY <2>3, <2>4, GrantIsAlone
<1>3. call'[t].at # "flagWait"
    <2>1. CASE Quiet(t)
        BY <2>1 DEF Quiet, HoldingAt
    <2>2. CASE QueueStep(t)
        BY <1>2, <2>2 DEF QueueStep, Plainly, Attaching, Lending, HoldingAt
    <2>3. CASE ClientGranted(t)
        <3>1. call'[t] = NoCall
            BY <2>3 DEF ClientGranted, Done, SessionTypes
        <3> QED BY <3>1, CallValues
    <2>4. CASE Revives(t)
        BY <2>4 DEF Revives, Unwaited
    <2> QED BY <2>1, <2>2, <2>3, <2>4 DEF StepKind
<1> QED BY <1>1, <1>3 DEF Unwaited, At

(* What holds while the process the producer is told of lives.              *)
AliveInv == SessionInv /\ AllocTold /\ Unwaited /\ (SingleOwner => IInv)

(* It holds at the start. *)
LEMMA AliveInvInit ==
    ASSUME SessionInit
    PROVE  AliveInv
<1>1. Unwaited
    BY CallValues DEF SessionInit, Unwaited, At
<1>2. AllocTold /\ IInv
    BY IInvInit DEF SessionInit, Init, AllocTold
<1> QED BY <1>1, <1>2, SessionInvInit DEF AliveInv

(* Every step keeps it. *)
LEMMA AliveInvStep ==
    ASSUME OneSurfaceEach, AliveInv, ProducerLives, [SessionNext]_sessionVars
    PROVE  AliveInv'
<1>1. SessionInv' /\ AllocTold'
    BY SessionInvStep, AllocToldStep DEF AliveInv, SessionInv, BaseInv
<1>2. Unwaited'
    <2>1. ASSUME UNCHANGED call
          PROVE  Unwaited'
        BY <2>1 DEF AliveInv, Unwaited, At
    <2>2. /\ UNCHANGED sessionVars => UNCHANGED call
          /\ \A p \in Process : Dies(p) => UNCHANGED call
        BY DEF sessionVars, Dies
    <2>3. \A t \in Thread, p \in Process : ~OnRemoteDied(t, p)
        BY NobodyReported DEF AliveInv, SessionInv
    <2> QED BY <2>1, <2>2, <2>3, SessionKinds, UnwaitedStep DEF AliveInv, SessionInv
<1>3. SingleOwner => IInv'
    BY QueueStepsOnly, IInvStep DEF AliveInv
<1> QED BY <1>1, <1>2, <1>3 DEF AliveInv

(* Hence it always holds. *)
LEMMA AliveInvAlways ==
    ASSUME OneSurfaceEach
    PROVE  SessionSpec /\ []ProducerLives => []AliveInv
<1>1. SessionInit => AliveInv
    BY AliveInvInit
<1>2. AliveInv /\ ProducerLives /\ [SessionNext]_sessionVars => AliveInv'
    BY AliveInvStep
<1> QED BY <1>1, <1>2, PTL DEF SessionSpec

(* Inside a session the queue keeps its lists and states in step: where     *)
(* nobody calls GoBackground, and where the process the producer is told of *)
(* lives, whatever is called.                                               *)
THEOREM SessionListsCorrect ==
    SingleOwner =>
        /\ SessionSpec /\ []NobodyHides => []ListsMatchStates
        /\ OneSurfaceEach => (SessionSpec /\ []ProducerLives => []ListsMatchStates)
<1> SUFFICES ASSUME SingleOwner
             PROVE  /\ SessionSpec /\ []NobodyHides => []ListsMatchStates
                    /\ OneSurfaceEach => (SessionSpec /\ []ProducerLives => []ListsMatchStates)
    OBVIOUS
<1>1. SafeInv /\ NobodyHides => ListsMatchStates
    BY DEF SafeInv, QueueSafe, IInv
<1>2. AliveInv => ListsMatchStates
    BY DEF AliveInv, IInv
<1>3. SessionSpec /\ []NobodyHides => []ListsMatchStates
    BY <1>1, SafeInvAlways, PTL
<1>4. ASSUME OneSurfaceEach
      PROVE  SessionSpec /\ []ProducerLives => []ListsMatchStates
    <2>1. SessionSpec /\ []ProducerLives => []AliveInv
        BY <1>4, AliveInvAlways
    <2> QED BY <1>2, <2>1, PTL
<1> QED BY <1>3, <1>4

(* And it implements BufferLifecycle there.                                 *)
THEOREM SessionImplementsLifecycle ==
    SingleOwner =>
        /\ SessionSpec /\ []NobodyHides => ImplementsLifecycle
        /\ OneSurfaceEach => (SessionSpec /\ []ProducerLives => ImplementsLifecycle)
<1> SUFFICES ASSUME SingleOwner
             PROVE  /\ SessionSpec /\ []NobodyHides => ImplementsLifecycle
                    /\ OneSurfaceEach => (SessionSpec /\ []ProducerLives => ImplementsLifecycle)
    OBVIOUS
<1>1. SessionInit => Lifecycle!Init
    BY InitMaps DEF SessionInit
<1>2. IInv /\ Unwaited /\ [SessionNext]_sessionVars => [Lifecycle!Next]_(Lifecycle!vars)
    BY QueueStepsOnly, StepMaps DEF Mapped
<1>3. SafeInv /\ NobodyHides => IInv /\ Unwaited
    BY OffUnwaited DEF SafeInv, QueueSafe
<1>4. AliveInv => IInv /\ Unwaited
    BY DEF AliveInv
<1>5. SessionSpec /\ []NobodyHides => ImplementsLifecycle
    BY <1>1, <1>2, <1>3, SafeInvAlways, PTL DEF SessionSpec, ImplementsLifecycle, Lifecycle!Spec
<1>6. ASSUME OneSurfaceEach
      PROVE  SessionSpec /\ []ProducerLives => ImplementsLifecycle
    <2>1. SessionSpec /\ []ProducerLives => []AliveInv
        BY <1>6, AliveInvAlways
    <2> QED BY <1>1, <1>2, <1>4, <2>1, PTL DEF SessionSpec, ImplementsLifecycle, Lifecycle!Spec
<1> QED BY <1>5, <1>6

-----------------------------------------------------------------------------
(* No grant hands out a stale entry. *)

(* A consumer detaches no buffer where some are allocated ahead: detaching  *)
(* takes the mark off a buffer that may not have been sent.                 *)
PreAllocApart ==
    NoneCalls({"PreAllocBuffers"}) \/ NoneCalls({"ConsumerDetachBufferFromQueue"})

(* The buffer itself is on its way to the surface.                          *)
InFlight(f, s) == \E t \in Thread :
    Caller(t) = f /\ call[t].at \in HoldingAt /\ call[t].seq = s /\ call[t].full

(* The next grant of the number, if any, brings the buffer itself.          *)
Resent(s) ==
    /\ ~NoneCalls({"PreAllocBuffers"}) /\ state[s] # "REQUESTED"
    /\ s \in isPreAlloc \union attachFlag \/ state[s] = "NONE"

(* A stale entry is about to be thrown away, or to be replaced.             *)
StaleOnWay == \A f \in Surface : \A s \in stale[f] :
    Leaving(f) \/ InFlight(f, s) \/ Resent(s)

(* What a consumer acquires the queue has.                                  *)
LEMMA AcquiresCached ==
    ASSUME IInv, NEW t, AcquireBuffer(t), NEW s \in Buffers, state[s] = "NONE"
    PROVE  state'[s] = "NONE"
<1>1. Lists(dirtyList, In("FLUSHED")) /\ dirtyList # <<>> /\ state \in [Buffers -> BufferState \union {"NONE"}]
    BY IInvParts DEF QueueOK, AcquireBuffer, IInv, TypeOK, QueueTypes
<1>2. Head(dirtyList) \in In("FLUSHED")
    BY <1>1, ListsMeans
<1>3. Head(dirtyList) # s
    BY <1>2 DEF In
<1>4. state' = [state EXCEPT ![Head(dirtyList)] = "ACQUIRED"]
    BY DEF AcquireBuffer, SetState
<1> QED BY <1>1, <1>3, <1>4

(* So it has what is free.                                                  *)
LEMMA FreeIsCached ==
    ASSUME IInv, NEW s \in ToSet(freeList)
    PROVE  state[s] # "NONE"
BY IInvParts DEF QueueOK, FreeSet, In

(* A number that will be resent stays so until it is granted.               *)
LEMMA ResentKept ==
    ASSUME AliveInv, IInv, PreAllocApart, NEW t \in Thread, Control(t), QueueStep(t),
           NEW s \in Buffers, Resent(s), s \notin GrantedBy(t)
    PROVE  Resent(s)'
<1>1. /\ state \in [Buffers -> BufferState \union {"NONE"}] /\ isPreAlloc \subseteq Buffers
      /\ calls' = calls
    BY DEF AliveInv, SessionInv, BaseInv, TypeOK, QueueTypes, Control, MovesOn
<1>2. /\ ~NoneCalls({"PreAllocBuffers"})' /\ ~NoneCalls({"PreAllocBuffers"})
      /\ NoneCalls({"ConsumerDetachBufferFromQueue"})
    BY <1>1 DEF Resent, NoneCalls, PreAllocApart
<1>3. s \in isPreAlloc \union attachFlag \/ state[s] = "NONE"
    BY DEF Resent
<1>7. state'[s] # "REQUESTED"
    BY DEF Resent, GrantedBy
<1>4. CASE Plainly(t)
    <2>1. Tame(t) /\ attachFlag \subseteq attachFlag'
        BY <1>2, <1>4 DEF Plainly, NoneCalls
    <2>2. CASE state[s] = "NONE" /\ state'[s] # "NONE"
        <3>1. ~AcquireBuffer(t)
            BY <2>2, AcquiresCached
        <3>2. s \in isPreAlloc'
            BY <2>1, <2>2, <3>1 DEF Tame
        <3> QED BY <1>2, <1>7, <3>2 DEF Resent
    <2>3. CASE s \in isPreAlloc /\ s \notin isPreAlloc'
        <3>1. state'[s] = "NONE"
            BY <2>1, <2>3 DEF Tame
        <3> QED BY <1>2, <1>7, <3>1 DEF Resent
    <2> QED BY <1>2, <1>3, <1>7, <2>1, <2>2, <2>3 DEF Resent
<1>5. CASE Granting(t)
    <2>1. PICK g \in Buffers : /\ GrantedBy(t) = {g}
                               /\ state' = [state EXCEPT ![g] = "REQUESTED"]
                               /\ isPreAlloc' = isPreAlloc \ {g}
                               /\ attachFlag' = attachFlag \ {g}
        BY <1>5 DEF Granting, Gives
    <2>2. g # s
        BY <2>1
    <2> QED BY <1>1, <1>2, <1>3, <1>7, <2>1, <2>2 DEF Resent
<1>6. CASE Attaching(t)
    <2>1. PICK g \in Buffers : /\ state' = [state EXCEPT ![g] = "ACQUIRED"]
                               /\ isPreAlloc' = isPreAlloc \ {g}
                               /\ attachFlag' = attachFlag \union {g}
        BY <1>6 DEF Attaching
    <2> QED BY <1>1, <1>2, <1>3, <1>7, <2>1 DEF Resent
<1>8. CASE Lending(t)
    <2>1. HandsOut(t) /\ attachFlag \subseteq attachFlag'
        BY <1>8 DEF Lending, LendsOut
    <2>2. state[s] = "NONE" => state'[s] = "NONE"
        BY <2>1, FreeIsCached DEF HandsOut
    <2>3. s \in isPreAlloc => s \in isPreAlloc' \/ state'[s] = "NONE"
        BY <2>1 DEF HandsOut
    <2> QED BY <1>2, <1>3, <1>7, <2>1, <2>2, <2>3 DEF Resent
<1> QED BY <1>4, <1>5, <1>6, <1>8 DEF QueueStep

(* A number granted to a surface that may not know the buffer is sent whole. *)
LEMMA GrantedWhole ==
    ASSUME OneSurfaceEach, AliveInv, IInv, NEW t \in Thread, Control(t), QueueStep(t),
           NEW s \in GrantedBy(t), s \in Fresh(t) \/ Resent(s),
           NEW f \in Surface, cache[f] # {}, ~Leaving(f)
    PROVE  InFlight(f, s)'
<1> USE DEF AliveInv, SessionInv, BaseInv
<1>4. ~Lending(t)
    <2>1. SUFFICES ASSUME Lending(t) PROVE FALSE
        OBVIOUS
    <2>2. s \notin isPreAlloc \union attachFlag
        BY <2>1 DEF Lending, LendsOut, HandsOut
    <2>3. s \in Buffers /\ state[s] = "NONE" /\ state'[s] # "NONE"
        BY <2>2 DEF Resent, Fresh, GrantedBy
    <2> QED BY <2>1, <2>3, FreeIsCached DEF Lending, LendsOut, HandsOut
<1>1. /\ GrantedBy(t) = {s} /\ Gives(t, s) /\ At(t, "queue")
      /\ call'[t].at \in HoldingAt /\ call'[t].seq = s
      /\ SentWhole(t, s) => call'[t].full
    BY <1>4 DEF QueueStep, Granting, Plainly, Attaching
<1>2. SentWhole(t, s)
    <2>1. CASE s \in Fresh(t)
        BY <2>1 DEF SentWhole, NeverSent
    <2>2. CASE state[s] = "NONE"
        <3>1. pc[t] = "alloc" /\ s \in Buffers /\ state'[s] = "REQUESTED"
            BY <1>1, <2>2 DEF Gives, GrantedBy
        <3>2. s \in Fresh(t)
            BY <2>2, <3>1 DEF Fresh
        <3> QED BY <3>2 DEF SentWhole, NeverSent
    <2>3. CASE s \in isPreAlloc \union attachFlag
        BY <2>3 DEF SentWhole, NeverSent
    <2> QED BY <2>1, <2>2, <2>3 DEF Resent
<1>3. Caller(t) = f
    <2>1. connected = ProcessOf[f]
        BY DEF CachesConnected
    <2>2. connected = Pid(t) /\ Caller(t) \in Surface
        BY <1>1 DEF Served, Places, At, ServedAt, LockedAt
    <2> QED BY <2>1, <2>2 DEF OneSurfaceEach, Pid, Caller
<1> QED BY <1>1, <1>2, <1>3 DEF InFlight, Caller

(* A buffer on its way stays so until it is read.                           *)
LEMMA FlightKept ==
    ASSUME AliveInv, NEW t \in Thread, StepKind(t), NEW f \in Surface,
           NEW s \in stale'[f], stale[f] # {}, InFlight(f, s)
    PROVE  InFlight(f, s)'
<1> USE DEF AliveInv, SessionInv, BaseInv
<1>1. PICK u \in Thread : Caller(u) = f /\ call[u].at \in HoldingAt /\ call[u].seq = s /\ call[u].full
    BY DEF InFlight
<1>2. CASE u # t
    BY <1>1, <1>2 DEF StepKind, Control, InFlight, Caller
<1>3. CASE u = t
    <2>1. ~Quiet(t)
        <3>1. Pid(t) \notin dead
            BY <1>1, <1>3 DEF CachesConnected, Pid, Caller
        <3> QED BY <1>1, <1>3, <3>1 DEF Quiet
    <2>2. ~QueueStep(t)
        BY <1>1, <1>3 DEF QueueStep
    <2>3. ~ClientGranted(t)
        <3>1. SUFFICES ASSUME ClientGranted(t) PROVE FALSE
            OBVIOUS
        <3>2. s \notin Renewed(t)
            BY <1>1, <1>3, <3>1, GrantedCaches
        <3> QED BY <1>1, <1>3, <3>2 DEF Renewed
    <2>4. ~Revives(t)
        BY DEF Revives, Unwaited
    <2> QED BY <2>1, <2>2, <2>3, <2>4 DEF StepKind
<1> QED BY <1>2, <1>3

(* Every step of a thread keeps the stale entries on their way.             *)
LEMMA StaleStep ==
    ASSUME OneSurfaceEach, AliveInv, IInv, PreAllocApart, StaleOnWay, NEW t \in Thread, StepKind(t)
    PROVE  StaleOnWay'
<1> USE DEF AliveInv, SessionInv, BaseInv
<1> SUFFICES ASSUME NEW f \in Surface, NEW s \in stale'[f], ~Leaving(f)'
             PROVE  InFlight(f, s)' \/ Resent(s)'
    BY DEF StaleOnWay
<1>1. /\ stale'[f] \subseteq cache'[f] /\ s \in Buffers
    BY CacheChanges DEF CachesConnected, SessionTypes
<1>2. ~Leaving(f)
    BY <1>1, LeavingKept
<1>3. CASE s \in stale[f]
    <2>1. cache[f] # {}
        BY <1>3 DEF CachesConnected
    <2>2. CASE InFlight(f, s)
        BY <1>3, <2>2, FlightKept
    <2>3. CASE Resent(s) /\ QueueStep(t)
        <3>1. CASE s \in GrantedBy(t)
            BY <1>2, <2>1, <2>3, <3>1, GrantedWhole DEF StepKind
        <3>2. CASE s \notin GrantedBy(t)
            BY <1>1, <2>3, <3>2, ResentKept DEF StepKind
        <3> QED BY <3>1, <3>2
    <2>4. CASE Resent(s) /\ (Quiet(t) \/ ClientGranted(t))
        <3>1. UNCHANGED <<state, isPreAlloc, attachFlag, calls>>
            BY <2>4 DEF Quiet, ClientGranted, vars, elements, modes, resendVars, StepKind, Control,
                        MovesOn
        <3> QED BY <2>4, <3>1 DEF Resent, NoneCalls
    <2>5. ~Revives(t)
        BY DEF Revives, Unwaited
    <2> QED BY <1>2, <1>3, <2>2, <2>3, <2>4, <2>5 DEF StaleOnWay, StepKind
<1>4. CASE s \notin stale[f]
    <2>1. QueueStep(t) /\ s \in cache[f] \intersect Fresh(t)
        <3>1. CASE Quiet(t)
            BY <1>4, <3>1 DEF Quiet
        <3>2. CASE ClientGranted(t)
            BY <1>4, <3>2, GrantedCaches
        <3>3. CASE QueueStep(t)
            BY <1>4, <3>3 DEF QueueStep
        <3>4. ~Revives(t)
            BY DEF Revives, Unwaited
        <3> QED BY <3>1, <3>2, <3>3, <3>4 DEF StepKind
    <2>2. ~Idle(t) /\ state[s] = "NONE" /\ state'[s] # "NONE"
        BY <2>1, NoFresh DEF Fresh
    <2>3. CASE s \in GrantedBy(t)
        BY <1>2, <2>1, <2>3, GrantedWhole DEF StepKind
    <2>4. CASE s \notin GrantedBy(t)
        <3>1. ~Granting(t)
            <4>1. SUFFICES ASSUME Granting(t) PROVE FALSE
                OBVIOUS
            <4>2. PICK g \in Buffers : GrantedBy(t) = {g} /\ state' = [state EXCEPT ![g] = "REQUESTED"]
                BY <4>1 DEF Granting, Gives
            <4> QED BY <2>2, <2>4, <4>2 DEF TypeOK, QueueTypes
        <3>5. ~Lending(t)
            BY <1>1, <2>2, FreeIsCached DEF Lending, LendsOut, HandsOut
        <3>2. Plainly(t)
            BY <2>1, <2>2, <3>1, <3>5 DEF QueueStep, Attaching
        <3>3. pc[t] = "preAlloc" /\ s \in isPreAlloc'
            BY <2>2, <3>2, <1>1 DEF Plainly, Tame, AcquireBuffer, Enters
        <3>4. ~NoneCalls({"PreAllocBuffers"})'
            BY <3>3 DEF Places, NoneCalls, StepKind, Control, MovesOn
        <3>6. state'[s] # "REQUESTED"
            BY <1>1, <2>2, <2>4 DEF GrantedBy
        <3> QED BY <3>3, <3>4, <3>6 DEF Resent
    <2> QED BY <2>3, <2>4
<1> QED BY <1>3, <1>4

(* A death keeps them too. *)
LEMMA StaleOnDeath ==
    ASSUME StaleOnWay, NEW p, Dies(p)
    PROVE  StaleOnWay'
<1>1. /\ UNCHANGED <<vars, call, attachFlag>>
      /\ \A f \in Surface : stale'[f] \subseteq stale[f]
    BY DEF Dies, Bereft, resendVars
<1>2. \A f, s : /\ Leaving(f)' <=> Leaving(f)
                /\ InFlight(f, s)' <=> InFlight(f, s)
                /\ Resent(s)' <=> Resent(s)
    BY <1>1 DEF Leaving, InFlight, Resent, NoneCalls, Caller, vars, elements, modes
<1> QED BY <1>1, <1>2 DEF StaleOnWay

(* And a step that changes nothing. *)
LEMMA StaleAtRest ==
    ASSUME StaleOnWay, UNCHANGED sessionVars
    PROVE  StaleOnWay'
<1>1. UNCHANGED <<stale, call, attachFlag, state, isPreAlloc, calls>>
    BY DEF sessionVars, clientVars, resendVars, vars, elements, modes
<1>2. \A f, s : /\ Leaving(f)' <=> Leaving(f)
                /\ InFlight(f, s)' <=> InFlight(f, s)
                /\ Resent(s)' <=> Resent(s)
    BY <1>1 DEF Leaving, InFlight, Resent, NoneCalls, Caller
<1> QED BY <1>1, <1>2 DEF StaleOnWay

(* Hence so does every step. *)
LEMMA StaleInvStep ==
    ASSUME SingleOwner, OneSurfaceEach, AliveInv, PreAllocApart, StaleOnWay, ProducerLives,
           [SessionNext]_sessionVars
    PROVE  StaleOnWay'
<1>1. \/ UNCHANGED sessionVars
      \/ \E p \in Process : Dies(p)
      \/ \E t \in Thread : StepKind(t)
    BY SessionKinds, NobodyReported DEF AliveInv, SessionInv
<1>2. IInv
    BY DEF AliveInv
<1> QED BY <1>1, <1>2, StaleStep, StaleOnDeath, StaleAtRest

(* A grant a live client is about to read finds its buffer.                 *)
LEMMA GrantFinds ==
    ASSUME AliveInv, StaleOnWay, NEW t \in Thread, At(t, "granted"),
           state[call[t].seq] = "REQUESTED"
    PROVE  /\ call[t].seq \in Filled(t)
           /\ call[t].seq \notin stale[Caller(t)] \/ call[t].seq \in Renewed(t)
<1> USE DEF AliveInv, SessionInv, BaseInv
<1> DEFINE s == call[t].seq
           f == Caller(t)
<1>1. s \in Buffers /\ f \in Surface /\ call[t].at \in LockedAt \intersect HoldingAt
    BY DEF Carried, Places, At, HoldingAt, LockedAt
<1>2. s \in Cached
    BY <1>1 DEF Cached
<1>3. s \in Filled(t)
    BY <1>2 DEF Filled, Synced, Misses
<1>4. ASSUME s \in stale[f]
      PROVE  s \in Renewed(t)
    <2>1. ~Leaving(f)
        BY <1>1 DEF Leaving, LeavingAt, LockedAt, HoldingAt, MutexOnce, Caller
    <2>2. ~Resent(s)
        BY DEF Resent
    <2>3. PICK u \in Thread : Caller(u) = f /\ call[u].at \in HoldingAt /\ call[u].seq = s /\ call[u].full
        BY <1>1, <1>4, <2>1, <2>2 DEF StaleOnWay, InFlight
    <2>4. u = t
        BY <1>1, <2>3 DEF MutexOnce, HoldingAt, LockedAt
    <2> QED BY <2>3, <2>4 DEF Renewed
<1> QED BY <1>3, <1>4

(* RequestBuffer hands the application the buffer the queue granted, and    *)
(* not an older one of the same number that the cache still holds.          *)
THEOREM GrantsUsable ==
    SingleOwner /\ OneSurfaceEach =>
        (SessionSpec /\ []ProducerLives /\ []PreAllocApart => []GrantIsUsable)
<1> SUFFICES ASSUME SingleOwner, OneSurfaceEach
             PROVE  SessionSpec /\ []ProducerLives /\ []PreAllocApart => []GrantIsUsable
    OBVIOUS
<1>1. SessionInit => StaleOnWay
    BY DEF SessionInit, StaleOnWay
<1>2. AliveInv /\ ProducerLives /\ PreAllocApart /\ StaleOnWay /\ [SessionNext]_sessionVars
        => StaleOnWay'
    BY StaleInvStep
<1>3. AliveInv /\ StaleOnWay => GrantIsUsable
    BY GrantFinds DEF GrantIsUsable
<1>4. SessionSpec /\ []ProducerLives => []AliveInv
    BY AliveInvAlways
<1> QED BY <1>1, <1>2, <1>3, <1>4, PTL DEF SessionSpec
=============================================================================
