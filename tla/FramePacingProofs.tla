-------------------------- MODULE FramePacingProofs --------------------------
(***************************************************************************)
(* What AcquireBuffer with an expected present timestamp does with the     *)
(* frames it drops and the frame it returns, for any number of threads,    *)
(* buffers, timestamps and drop levels.                                    *)
(***************************************************************************)
EXTENDS FramePacing, BufferQueueStepProofs

-----------------------------------------------------------------------------
(* The buffers in the consumer's hands. *)

(* No buffer becomes ACQUIRED.                                              *)
TakesNothing == \A s \in Buffers : state'[s] = "ACQUIRED" => state[s] = "ACQUIRED"

(* A request makes a buffer REQUESTED or takes it out of the queue, and     *)
(* touches no other (ReuseBuffer).                                          *)
LEMMA SelectTakesNothing ==
    ASSUME QueueTypes, NEW t, NEW a, SelectBuffer(t, a) \/ (AfterWait(t) /\ a = arg[t])
    PROVE  TakesNothing
<1>1. ASSUME NEW s, ReuseBuffer(t, s, a)
      PROVE  TakesNothing
    BY <1>1 DEF ReuseBuffer, Delete, Erase, Granted, TakesNothing, QueueTypes
<1>2. CASE UNCHANGED elements
    BY <1>2 DEF TakesNothing, elements
<1> QED BY <1>1, <1>2 DEF SelectBuffer, AfterWait, PopFromFreeList, PopFromDirtyList, NoBuffer

(* Handing free buffers over leaves the consumer no more than it had.       *)
LEMMA LentTakesNothing ==
    ASSUME NEW F \in Seq(Buffers), NEW R, NEW D, NEW C, HandsOver(R, D, F, C)
    PROVE  \A u \in Buffers : state'[u] = "ACQUIRED" => state[u] = "ACQUIRED" /\ u \notin R \union D
<1>1. PICK G : Lent(R, D, G)
    BY HandsOverLends
<1> QED BY <1>1 DEF Lent

(* A release takes its buffer out of the consumer's hands and puts none     *)
(* into them.                                                               *)
LEMMA ReleaseTakes ==
    ASSUME QueueTypes, NEW t, NEW s \in Buffers, ReleaseBuffer(t, s)
    PROVE  \A u \in Buffers : state'[u] = "ACQUIRED" => state[u] = "ACQUIRED" /\ u # s
<1>1. CASE \/ HandsOver({s}, {}, Append(freeList, s), Configs)
           \/ HandsOver({}, {s}, RemoveFirst(freeList, s), Configs)
    <2>1. /\ HandsOver({s}, {}, Append(freeList, s), Configs)
                => \A u \in Buffers : state'[u] = "ACQUIRED" => state[u] = "ACQUIRED" /\ u \notin {s} \union {}
          /\ HandsOver({}, {s}, RemoveFirst(freeList, s), Configs)
                => \A u \in Buffers : state'[u] = "ACQUIRED" => state[u] = "ACQUIRED" /\ u \notin {} \union {s}
        BY ListedTypes, LentTakesNothing
    <2> QED BY <1>1, <2>1
<1>2. CASE Free(s) \/ SetState(s, "RELEASED") \/ DeleteBufferInCache(s)
    BY <1>2 DEF Free, SetState, DeleteBufferInCache, Delete, Erase, QueueTypes
<1> QED BY <1>1, <1>2, ReleaseMeans

(* The producer's and the control calls and what follows inside any call    *)
(* put no buffer into the consumer's hands: that is left to AcquireBuffer   *)
(* and to a consumer's AttachBufferToQueue.                                 *)
LEMMA OnlyAcquiresTake ==
    ASSUME TypeOK, NEW t \in Thread, ProducerCall(t) \/ ControlCall(t) \/ Step(t)
    PROVE  TakesNothing
<1> USE DEF TypeOK, QueueTypes, elements, lists, TakesNothing
<1>1. CASE UNCHANGED elements
    BY <1>1
<1>2. ASSUME NEW s \in Buffers,
             DeleteBufferInCache(s) \/ Free(s) \/ SetState(s, "RELEASED") \/ AttachReleased(s)
      PROVE  TakesNothing
    BY <1>2 DEF DeleteBufferInCache, Delete, Erase, Free, SetState, AttachReleased
<1>3. CASE Clear \/ CleanReleased \/ \E n \in Int : DeleteBuffers(n)
    BY <1>3 DEF Clear, CleanReleased, DeleteBuffers, Erase
<1>4. CASE ProducerCall(t)
    <2>1. ASSUME NEW s \in Buffers, AttachBufferToQueue(t, s, "Producer")
          PROVE  TakesNothing
        BY <2>1 DEF AttachBufferToQueue, Insert
    <2>2. ASSUME NEW s \in Buffers,
                 FlushBuffer(t, s) \/ AttachBuffer(t, s) \/ CancelBuffer(t, s)
          PROVE  TakesNothing
        BY <1>1, <1>2, <2>2 DEF FlushBuffer, AttachBuffer, CancelBuffer
    <2>3. ASSUME NEW s \in Buffers, AttachAndFlushBuffer(t, s) \/ DetachBuffer(t, s)
          PROVE  TakesNothing
        BY <2>3 DEF AttachAndFlushBuffer, DetachBuffer, Insert, Erase
    <2>4. CASE \E n \in 1..MaxSize, c \in Configs : PreAllocBuffers(t, n, c)
        BY <1>1, <2>4 DEF PreAllocBuffers
    <2>5. CASE RequestBuffer(t)
        BY <1>1, <2>5, SelectTakesNothing DEF RequestBuffer
    <2> QED BY <1>4, <2>1, <2>2, <2>3, <2>4, <2>5 DEF ProducerCall
<1>5. CASE ControlCall(t)
    <2>1. ASSUME NEW n \in Int, SetQueueSizeTo(t, n)
          PROVE  TakesNothing
        <3>1. queueSize - n \in Int
            BY <2>1, SizeAssumption DEF SettingTypes
        <3> QED BY <1>1, <1>3, <2>1, <3>1 DEF SetQueueSizeTo
    <2>2. ASSUME NEW n \in 1..MaxSize, SetQueueSize(t, n) \/ SetMaxQueueSize(t, n)
          PROVE  TakesNothing
        <3>1. n \in Int /\ maxQueueSize \in Int
            BY <2>2, SizeAssumption DEF SettingTypes
        <3> QED BY <1>1, <2>1, <2>2, <3>1 DEF SetQueueSize, SetMaxQueueSize
    <2>3. CASE CleanCache(t) \/ CleanReleasedBuffers(t)
        BY <1>1, <1>3, <2>3 DEF CleanCache, CleanReleasedBuffers
    <2>4. CASE \E S \in SUBSET Buffers : CleanProducerBySeqNum(t, S)
        BY <2>4 DEF CleanProducerBySeqNum, Erase
    <2>5. CASE \/ AcquireLastFlushedBuffer(t) \/ ReleaseLastFlushedBuffer(t)
               \/ SetStatus(t) \/ SetConsumerListener(t)
               \/ SetRequestBufferNoblockMode(t) \/ SetIsPriorityAlloc(t)
        BY <1>1, <2>5 DEF AcquireLastFlushedBuffer, ReleaseLastFlushedBuffer, SetStatus,
                          SetConsumerListener, SetRequestBufferNoblockMode, SetIsPriorityAlloc
    <2> QED BY <1>5, <2>2, <2>3, <2>4, <2>5 DEF ControlCall
<1>6. CASE Step(t)
    <2> DEFINE s == arg[t].buf
    <2>1. ASSUME pc[t] \in BufferCall
          PROVE  s \in Buffers
        BY <2>1, InBufferCall
    <2>2. CASE FlushStep(t)
        <3>1. s \in Buffers
            BY <2>1, <2>2 DEF FlushStep, FlushChecksCache, FlushChecksListener, DoFlushBuffer,
                              FlushCancels, FlushDeletes, BufferCall
        <3>2. CASE DoFlushBuffer(t) /\ Enqueue(s)
            BY <3>1, <3>2 DEF DoFlushBuffer, Enqueue, SetState
        <3> QED BY <1>1, <1>2, <2>2, <3>1, <3>2
                DEF FlushStep, FlushChecksCache, FlushChecksListener, DoFlushBuffer, FlushCancels,
                    FlushDeletes
    <2>3. CASE AttachStep(t)
        <3>1. s \in Buffers
            BY <2>1, <2>3 DEF AttachStep, AttachLooksUp, AttachWakes, AttachSleepsAgain,
                              AttachDeletes, BufferCall
        <3>2. ASSUME NEW n, NEW c, AttachReplacing(n, s, c)
              PROVE  TakesNothing
            BY <3>2 DEF AttachReplacing
        <3>3. ASSUME NEW c, Insert(s, "ATTACHED", c, FALSE)
              PROVE  TakesNothing
            BY <3>3 DEF Insert
        <3> QED BY <1>1, <1>2, <2>3, <3>1, <3>2, <3>3
                DEF AttachStep, AttachLooksUp, AttachWakes, AttachSleepsAgain, AttachDeletes
    <2>4. CASE ReleaseDeletes(t) \/ ReleaseAsks(t) \/ DetachDeletes(t)
        <3>1. ReleaseDeletes(t) \/ DetachDeletes(t) => s \in Buffers
            BY <2>1 DEF ReleaseDeletes, DetachDeletes, BufferCall
        <3>2. freeList \in Seq(Buffers) /\ (s \in Buffers => RemoveFirst(freeList, s) \in Seq(Buffers))
            BY ListedTypes
        <3>3. ASSUME NEW D, NEW F \in Seq(Buffers), NEW C, HandsOver({}, D, F, C)
              PROVE  TakesNothing
            BY <3>3, LentTakesNothing
        <3> QED BY <1>2, <2>4, <3>1, <3>2, <3>3 DEF ReleaseDeletes, ReleaseAsks, DetachDeletes
    <2>5. CASE ShrinkAfterAlloc(t) \/ ClearAfterAlloc(t) \/ CleanReleasedAfterAlloc(t)
        <3>1. arg[t].count \in Int
            BY DEF CallTypes, ArgType
        <3> QED BY <1>3, <2>5, <3>1 DEF ShrinkAfterAlloc, ClearAfterAlloc, CleanReleasedAfterAlloc
    <2>6. CASE PreAllocated(t)
        BY <2>6 DEF PreAllocated
    <2>7. CASE RequestAfterAlloc(t) \/ RequestWakes(t) \/ RequestTimesOut(t)
        BY <2>7, SelectTakesNothing DEF RequestAfterAlloc, RequestWakes, RequestTimesOut
    <2>8. CASE AllocSucceeds(t) \/ AllocFails(t) \/ RequestSleepsAgain(t)
        BY <2>8 DEF AllocSucceeds, AllocFails, RequestSleepsAgain, Insert, Unused
    <2> QED BY <1>6, <2>2, <2>3, <2>4, <2>5, <2>6, <2>7, <2>8 DEF Step, RequestStep, WaiterStep
<1> QED BY <1>4, <1>5, <1>6

-----------------------------------------------------------------------------
(* The types of a timed call. *)

TimedCall == [at : {"none", "dropLevel", "dropTime"}, expect : Time \union {0}, auto : BOOLEAN,
              drops : Seq(Buffers)]

(* A thread that is in no timed AcquireBuffer drops nothing.                *)
PaceTypes ==
    /\ call \in [Thread -> TimedCall]
    /\ \A t \in Thread : call[t].at = "none" => call[t].drops = <<>>
    /\ dropLevel \in Nat

PaceInv == TypeOK /\ PaceTypes /\ DroppedAreReleased

(* What DropFirstDirtyBuffer and DropBuffersByLevel cut off dirtyList_.     *)
LEMMA OldestTypes ==
    ASSUME QueueTypes, NEW n \in 0..Len(dirtyList)
    PROVE  /\ Oldest(n) \in Seq(Buffers)
           /\ SubSeq(dirtyList, n + 1, Len(dirtyList)) \in Seq(Buffers)
           /\ n = 0 => Oldest(n) = <<>>
<1>1. dirtyList \in Seq(Buffers) /\ Len(dirtyList) \in Nat
    BY LenProperties DEF QueueTypes
<1>2. \A i \in 1..n : dirtyList[i] \in Buffers
    BY <1>1, ElementOfSeq
<1>3. Oldest(n) \in Seq(Buffers) /\ (n = 0 => Len(Oldest(n)) = 0)
    BY <1>1, <1>2, SubSeqProperties DEF Oldest
<1> QED BY <1>1, <1>3, CutInSeq, EmptySeq

(* Dropping the oldest frames keeps the queue's types.                      *)
LEMMA DropTypes ==
    ASSUME TypeOK, NEW n \in 0..Len(dirtyList), DropOldest(n)
    PROVE  TypeOK'
<1>1. QueueTypes'
    BY OldestTypes DEF TypeOK, DropOldest, QueueTypes, BufferState
<1>2. SettingTypes' /\ CallTypes'
    <2>1. UNCHANGED <<sizes, allocating, modes, last, threads, notified>>
        BY DEF DropOldest
    <2>2. SettingTypes'
        BY <2>1, SameSettingTypes DEF TypeOK
    <2>3. notified' \subseteq Thread
        BY <2>1 DEF TypeOK, CallTypes
    <2> QED BY <2>1, <2>2, <2>3, SameCallTypes DEF TypeOK
<1> QED BY <1>1, <1>2 DEF TypeOK

(* How many frames lie beyond the drop level.                               *)
LEMMA LevelInList ==
    ASSUME QueueTypes, dropLevel \in Nat
    PROVE  BeyondLevel \in 0..Len(dirtyList)
<1>1. Len(dirtyList) \in Nat
    BY LenProperties DEF QueueTypes
<1> QED BY <1>1 DEF BeyondLevel

(* The frames DropFirstDirtyBuffer drops end before the last one, and the   *)
(* frame that supersedes them is due.                                       *)
LEMMA SupersededInList ==
    ASSUME QueueTypes, dirtyList # <<>>, NEW a, NEW n, n = Max({0} \union Superseded(a))
    PROVE  /\ n \in 0..(Len(dirtyList) - 1)
           /\ n # 0 => Due(stamp[dirtyList[n + 1]], a)
<1> DEFINE m == Len(dirtyList)
           T == {0} \union Superseded(a)
           U == {k \in Nat : m - k \in T}
<1>1. m \in Nat \ {0}
    BY LenProperties, EmptySeq DEF QueueTypes
<1> HIDE DEF m
<1>2. T \subseteq 0..(m - 1)
    BY <1>1 DEF Superseded, m
<1>3. n \in T
    <2>1. m \in U
        BY <1>1
    <2>2. PICK k \in U : \A j \in U : k <= j
        BY <2>1, LeastExists, Zenon
    <2>3. ASSUME NEW y \in T
          PROVE  m - k >= y
        <3>1. y \in Nat /\ m - y \in Nat /\ m - (m - y) = y
            BY <1>1, <1>2
        <3>2. k \in Nat /\ k <= m - y
            BY <2>2, <3>1
        <3> QED BY <1>1, <3>1, <3>2
    <2>4. m - k \in T
        BY <2>2
    <2>5. n = CHOOSE x \in T : \A y \in T : x >= y
        BY DEF Max
    <2> HIDE DEF T, U
    <2> QED BY <2>3, <2>4, <2>5
<1>4. ASSUME n # 0
      PROVE  Due(stamp[dirtyList[n + 1]], a)
    <2>1. n \in Superseded(a) /\ n + 1 \in 1..n + 1
        BY <1>1, <1>2, <1>3, <1>4
    <2> QED BY <2>1 DEF Superseded
<1> QED BY <1>2, <1>3, <1>4 DEF m

-----------------------------------------------------------------------------
(* No dropped buffer is forgotten. *)

(* A timed call as its steps change it.                                     *)
LEMMA TimedCallTypes ==
    ASSUME PaceTypes, NEW t \in Thread, NEW c \in TimedCall, c.at = "none" => c.drops = <<>>,
           call' = [call EXCEPT ![t] = c], UNCHANGED dropLevel
    PROVE  PaceTypes'
BY DEF PaceTypes

(* No call.                                                                 *)
LEMMA NoCallTypes == NoCall \in TimedCall /\ NoCall.at = "none" /\ NoCall.drops = <<>>
BY EmptySeq DEF NoCall, TimedCall

(* Dropped frames become ACQUIRED, and nothing else changes hands.          *)
LEMMA DropTakes ==
    ASSUME QueueTypes, NEW n, DropOldest(n)
    PROVE  \A s \in Buffers : state'[s] = "ACQUIRED" => state[s] = "ACQUIRED" \/ s \in ToSet(Oldest(n))
BY DEF DropOldest, QueueTypes

(* AcquireBuffer drops frames beyond the level: they are its call's.        *)
LEMMA TimedAcquirePaces ==
    ASSUME PaceInv, NEW t \in Thread, NEW expect \in Time, NEW auto \in BOOLEAN,
           TimedAcquire(t, expect, auto)
    PROVE  PaceInv'
<1> DEFINE n == BeyondLevel
           c == [at |-> "dropLevel", expect |-> expect, auto |-> auto, drops |-> Oldest(n)]
<1>1. n \in 0..Len(dirtyList) /\ QueueTypes
    BY LevelInList DEF PaceInv, PaceTypes, TypeOK
<1>2. /\ DropOldest(n) /\ call' = [call EXCEPT ![t] = c] /\ call[t].at = "none"
      /\ UNCHANGED <<dropLevel, held>>
    BY DEF TimedAcquire, InCall
<1> HIDE DEF n
<1>3. c \in TimedCall /\ c.at # "none" /\ c.drops = Oldest(n)
    BY <1>1, OldestTypes DEF TimedCall
<1>4. TypeOK' /\ PaceTypes'
    <2> HIDE DEF c
    <2> QED BY <1>1, <1>2, <1>3, DropTypes, TimedCallTypes DEF PaceInv
<1>5. DroppedAreReleased'
    <2> SUFFICES ASSUME NEW s \in Buffers, state'[s] = "ACQUIRED"
                 PROVE  s \in held' \/ \E u \in Thread : s \in ToSet(call'[u].drops)
        BY DEF DroppedAreReleased
    <2>1. call'[t].drops = Oldest(n) /\ \A u \in Thread \ {t} : call'[u] = call[u]
        BY <1>2, <1>3 DEF PaceInv, PaceTypes
    <2>2. ToSet(call[t].drops) = {}
        BY <1>2, EmptySeq DEF PaceInv, PaceTypes, ToSet
    <2>3. state[s] = "ACQUIRED" \/ s \in ToSet(Oldest(n))
        BY <1>1, <1>2, DropTakes
    <2> QED BY <1>2, <2>1, <2>2, <2>3, Zenon DEF PaceInv, DroppedAreReleased
<1> QED BY <1>4, <1>5 DEF PaceInv

(* ReleaseDropBuffers gives the next dropped buffer back; no buffer that is *)
(* still ACQUIRED leaves the call.                                          *)
LEMMA ReleaseDroppedPaces ==
    ASSUME PaceInv, NEW t \in Thread, ReleaseDropped(t)
    PROVE  PaceInv'
<1> DEFINE d == call[t].drops
           s == Head(d)
           c == [call[t] EXCEPT !.drops = Tail(d)]
<1>1. d \in Seq(Buffers) /\ d # <<>> /\ call[t] \in TimedCall /\ call[t].at # "none"
    BY DEF PaceInv, PaceTypes, TimedCall, ReleaseDropped
<1>2. s \in Buffers /\ Tail(d) \in Seq(Buffers) /\ ToSet(d) \subseteq {s} \union ToSet(Tail(d))
    <2>1. /\ Len(d) \in Nat \ {0} /\ DOMAIN d = 1..Len(d) /\ s = d[1] /\ s \in Buffers
          /\ Tail(d) \in Seq(Buffers) /\ DOMAIN Tail(d) = 1..(Len(d) - 1)
          /\ \A i \in 1..(Len(d) - 1) : Tail(d)[i] = d[i + 1]
        BY <1>1, HeadTailProperties, LenProperties, EmptySeq
    <2> HIDE DEF d
    <2>2. ASSUME NEW i \in 1..Len(d), i # 1
          PROVE  d[i] \in ToSet(Tail(d))
        <3>1. i - 1 \in 1..(Len(d) - 1) /\ (i - 1) + 1 = i
            BY <2>1, <2>2
        <3>2. Tail(d)[i - 1] = d[i]
            BY <2>1, <3>1
        <3> QED BY <2>1, <3>1, <3>2 DEF ToSet
    <2> QED BY <2>1, <2>2 DEF ToSet
<1>3. c \in TimedCall /\ c.at = call[t].at /\ c.drops = Tail(d)
    BY <1>1, <1>2 DEF TimedCall
<1>4. call' = [call EXCEPT ![t] = c] /\ UNCHANGED <<dropLevel, held>>
    BY DEF ReleaseDropped, PaceInv, PaceTypes
<1>5. ReleaseBuffer(t, s) \/ (UNCHANGED vars /\ state[s] # "ACQUIRED")
    BY DEF ReleaseDropped
<1> HIDE DEF d, s, c
<1>6. PaceTypes'
    BY <1>1, <1>3, <1>4, TimedCallTypes DEF PaceInv
<1>7. TypeOK'
    <2>1. [Next]_vars
        BY <1>2, <1>5 DEF Next, ConsumerCall
    <2> QED BY <2>1, TypeStep DEF PaceInv
<1>8. \A u \in Buffers : state'[u] = "ACQUIRED" => state[u] = "ACQUIRED" /\ u # s
    <2>1. CASE ReleaseBuffer(t, s)
        BY <1>2, <2>1, ReleaseTakes DEF PaceInv, TypeOK
    <2> QED BY <1>5, <2>1 DEF vars, elements
<1>9. DroppedAreReleased'
    <2> SUFFICES ASSUME NEW u \in Buffers, state'[u] = "ACQUIRED"
                 PROVE  u \in held' \/ \E v \in Thread : u \in ToSet(call'[v].drops)
        BY DEF DroppedAreReleased
    <2>1. call'[t].drops = Tail(d) /\ \A v \in Thread \ {t} : call'[v] = call[v]
        BY <1>3, <1>4 DEF PaceInv, PaceTypes
    <2>2. u # s /\ (u \in held \/ \E v \in Thread : u \in ToSet(call[v].drops))
        BY <1>8 DEF PaceInv, DroppedAreReleased
    <2>3. u \in ToSet(d) => u \in ToSet(Tail(d))
        BY <1>2, <2>2
    <2> QED BY <1>4, <2>1, <2>2, <2>3, Zenon DEF d
<1> QED BY <1>6, <1>7, <1>9 DEF PaceInv

(* Dropping by time either returns without having dropped anything, or      *)
(* keeps what it dropped: the frame that superseded them is due, and a due  *)
(* frame is ready.                                                          *)
LEMMA SelectFramePaces ==
    ASSUME PaceInv, NEW t \in Thread, SelectFrame(t)
    PROVE  PaceInv'
<1> DEFINE a == call[t]
           n == Max({0} \union Superseded(a))
           c == [call[t] EXCEPT !.at = "dropTime", !.drops = Oldest(n)]
<1>1. /\ QueueTypes /\ a \in TimedCall /\ a.at = "dropLevel" /\ a.drops = <<>> /\ ToSet(a.drops) = {}
      /\ UNCHANGED <<dropLevel, held>>
    BY EmptySeq DEF SelectFrame, InCall, PaceInv, TypeOK, PaceTypes, ToSet
<1>2. ASSUME Return(t), \A s \in Buffers : state'[s] = "ACQUIRED" => state[s] = "ACQUIRED"
      PROVE  PaceTypes' /\ DroppedAreReleased'
    <2>1. PaceTypes'
        BY <1>1, <1>2, NoCallTypes, TimedCallTypes DEF Return, PaceInv
    <2>2. \A u \in Thread \ {t} : call'[u] = call[u]
        BY <1>2 DEF Return, PaceInv, PaceTypes
    <2> QED BY <1>1, <1>2, <2>1, <2>2, Zenon DEF PaceInv, DroppedAreReleased
<1>3. CASE dirtyList = <<>> \/ ~Ready(stamp[Head(dirtyList)], a.expect)
    <2>1. Return(t) /\ UNCHANGED vars
        BY <1>3 DEF SelectFrame
    <2> QED BY <1>2, <2>1, TypeStep DEF PaceInv, vars, elements
<1>4. CASE dirtyList # <<>> /\ Ready(stamp[Head(dirtyList)], a.expect)
    <2>1. /\ DropOldest(n)
          /\ \/ Ready(stamp[dirtyList[n + 1]], a.expect) /\ Continue(t, "dropTime", n)
             \/ ~Ready(stamp[dirtyList[n + 1]], a.expect) /\ Return(t)
        BY <1>4 DEF SelectFrame
    <2>2. /\ n \in 0..Len(dirtyList)
          /\ n # 0 => Due(stamp[dirtyList[n + 1]], a)
        <3>1. Len(dirtyList) \in Nat
            BY <1>1, LenProperties DEF QueueTypes
        <3>2. n \in 0..(Len(dirtyList) - 1) /\ (n # 0 => Due(stamp[dirtyList[n + 1]], a))
            BY <1>1, <1>4, SupersededInList
        <3> HIDE DEF n
        <3> QED BY <3>1, <3>2
    <2> HIDE DEF n
    <2>3. TypeOK'
        BY <2>1, <2>2, DropTypes DEF PaceInv
    <2>4. \A s \in Buffers : state'[s] = "ACQUIRED" => state[s] = "ACQUIRED" \/ s \in ToSet(Oldest(n))
        BY <1>1, <2>1, DropTakes
    <2>5. CASE Continue(t, "dropTime", n)
        <3>1. c \in TimedCall /\ c.at # "none" /\ c.drops = Oldest(n)
            BY <1>1, <2>2, OldestTypes DEF TimedCall
        <3>2. call' = [call EXCEPT ![t] = c]
            BY <2>5 DEF Continue, PaceInv, PaceTypes
        <3> HIDE DEF c
        <3>3. PaceTypes'
            BY <1>1, <3>1, <3>2, TimedCallTypes DEF PaceInv
        <3>4. call'[t].drops = Oldest(n) /\ \A u \in Thread \ {t} : call'[u] = call[u]
            BY <3>1, <3>2 DEF PaceInv, PaceTypes
        <3>5. DroppedAreReleased'
            BY <1>1, <2>4, <3>4, Zenon DEF PaceInv, DroppedAreReleased
        <3> QED BY <2>3, <3>3, <3>5 DEF PaceInv
    <2>6. CASE ~Ready(stamp[dirtyList[n + 1]], a.expect) /\ Return(t)
        <3>1. n = 0
            BY <2>2, <2>6 DEF Ready, IsPresentTimestampReady, Due
        <3>2. ToSet(Oldest(n)) = {}
            BY <1>1, <2>2, <3>1, OldestTypes, EmptySeq DEF ToSet
        <3> QED BY <1>2, <2>3, <2>4, <2>6, <3>2 DEF PaceInv
    <2> QED BY <2>1, <2>5, <2>6
<1> QED BY <1>3, <1>4

(* The third lock scope takes the front frame for the client; the call has  *)
(* released everything it dropped before it returns.                        *)
LEMMA AcquireSelectedPaces ==
    ASSUME PaceInv, NEW t \in Thread, AcquireSelected(t)
    PROVE  PaceInv'
<1>1. /\ QueueTypes /\ call[t].drops = <<>> /\ ToSet(call[t].drops) = {}
      /\ call' = [call EXCEPT ![t] = NoCall] /\ UNCHANGED dropLevel
      /\ \/ UNCHANGED <<vars, held>>
         \/ dirtyList # <<>> /\ AcquireBuffer(t) /\ held' = held \union {Head(dirtyList)}
    BY EmptySeq DEF AcquireSelected, Return, PaceInv, TypeOK, ToSet
<1>2. TypeOK' /\ PaceTypes'
    <2>1. [Next]_vars
        BY <1>1 DEF Next, ConsumerCall
    <2> QED BY <1>1, <2>1, TypeStep, NoCallTypes, TimedCallTypes DEF PaceInv
<1>3. /\ held \subseteq held'
      /\ \A s \in Buffers : state'[s] = "ACQUIRED" => state[s] = "ACQUIRED" \/ s \in held'
    BY <1>1 DEF AcquireBuffer, SetState, QueueTypes, vars, elements
<1>4. \A u \in Thread \ {t} : call'[u] = call[u]
    BY <1>1 DEF PaceInv, PaceTypes
<1> QED BY <1>1, <1>2, <1>3, <1>4, Zenon DEF PaceInv, DroppedAreReleased

(* Any other call of the queue: what AcquireBuffer takes the client holds,  *)
(* what the client releases is no longer ACQUIRED.                          *)
LEMMA OtherCallPaces ==
    ASSUME PaceInv, NEW t \in Thread, OtherCall(t) \/ GoOn(t)
    PROVE  PaceInv'
<1>1. QueueTypes /\ TypeOK /\ UNCHANGED <<dropLevel, call>>
    BY DEF PaceInv, TypeOK, OtherCall, GoOn
<1>2. PaceTypes'
    BY <1>1 DEF PaceInv, PaceTypes
<1>3. SUFFICES ASSUME [Next]_vars,
                      \A s \in Buffers : state'[s] = "ACQUIRED" =>
                          (state[s] = "ACQUIRED" /\ (s \in held => s \in held')) \/ s \in held'
               PROVE  PaceInv'
    <2>1. CASE PlainAcquire(t)
        BY <1>1, <1>3, <2>1 DEF PlainAcquire, AcquireBuffer, SetState, QueueTypes, Next, ConsumerCall
    <2>2. ASSUME NEW s \in Buffers, PlainRelease(t, s)
          PROVE  PaceInv'
        <3>1. \A u \in Buffers : state'[u] = "ACQUIRED" => state[u] = "ACQUIRED" /\ u # s
            BY <1>1, <2>2, ReleaseTakes DEF PlainRelease
        <3> QED BY <1>3, <2>2, <3>1 DEF PlainRelease, Next, ConsumerCall
    <2>3. CASE (ProducerCall(t) \/ ControlCall(t) \/ Step(t)) /\ UNCHANGED held
        BY <1>1, <1>3, <2>3, OnlyAcquiresTake DEF TakesNothing, Next
    <2> QED BY <2>1, <2>2, <2>3 DEF OtherCall, GoOn
<1>4. TypeOK'
    BY <1>1, <1>3, TypeStep
<1>5. DroppedAreReleased'
    BY <1>1, <1>3 DEF PaceInv, DroppedAreReleased
<1> QED BY <1>2, <1>4, <1>5 DEF PaceInv

(* A new queue holds no buffer.                                             *)
LEMMA PaceInit ==
    ASSUME PacedInit
    PROVE  PaceInv
<1>1. TypeOK
    BY TypeInit DEF PacedInit
<1>2. PaceTypes
    BY NoCallTypes DEF PacedInit, PaceTypes
<1>3. DroppedAreReleased
    BY DEF PacedInit, Init, DroppedAreReleased
<1> QED BY <1>1, <1>2, <1>3 DEF PaceInv

(* Every step of the paced queue keeps the invariant.                       *)
LEMMA PaceStep ==
    ASSUME PaceInv, [PacedNext]_pacedVars
    PROVE  PaceInv'
<1>1. CASE UNCHANGED pacedVars
    <2>1. UNCHANGED vars /\ UNCHANGED <<call, dropLevel, held, state>>
        BY <1>1 DEF pacedVars, paceVars, vars, elements
    <2> QED BY <2>1, TypeStep DEF PaceInv, PaceTypes, DroppedAreReleased
<1>2. ASSUME NEW t \in Thread, NEW level \in 0..MaxSize - 1, SetDropFrameLevel(t, level)
      PROVE  PaceInv'
    <2>1. UNCHANGED vars /\ UNCHANGED <<call, held, state>> /\ dropLevel' \in Nat
        BY <1>2 DEF SetDropFrameLevel, vars, elements
    <2> QED BY <2>1, TypeStep DEF PaceInv, PaceTypes, DroppedAreReleased
<1> QED BY <1>1, <1>2, TimedAcquirePaces, ReleaseDroppedPaces, SelectFramePaces,
           AcquireSelectedPaces, OtherCallPaces DEF PacedNext

(* A buffer AcquireBuffer drops, by level or by time, is released again     *)
(* whatever the call returns and whatever the other threads do meanwhile:   *)
(* no buffer is ACQUIRED that neither the client holds nor a call is about  *)
(* to release.                                                              *)
THEOREM DropsComeBack == PacedSpec => []DroppedAreReleased
<1>1. PacedInit => PaceInv
    BY PaceInit
<1>2. PaceInv /\ [PacedNext]_pacedVars => PaceInv'
    BY PaceStep
<1>3. PaceInv => DroppedAreReleased
    BY DEF PaceInv
<1> QED BY <1>1, <1>2, <1>3, PTL DEF PacedSpec

-----------------------------------------------------------------------------
(* A queue that keeps what the timed AcquireBuffer has selected: it is      *)
(* neither resized nor cleaned, does not take frames back for the producer, *)
(* and one thread acquires.                                                 *)

UnsettlingCalls == DroppingCalls \union {"SetRequestBufferNoblockMode", "DetachBuffer"}

OneConsumer ==
    \A m \in Mixes, t, u \in Thread :
        "TimedAcquire" \in m[t] /\ m[u] \intersect {"TimedAcquire", "AcquireBuffer"} # {} => t = u

Settled == NeverCalled(UnsettlingCalls) /\ OneConsumer

(* The consumer's buffers stay with it, no thread begins to detach one, and *)
(* the modes stay.                                                          *)
HandsStay ==
    /\ \A s \in Buffers : state[s] = "ACQUIRED" => state'[s] = "ACQUIRED"
    /\ \A u \in Thread : pc'[u] = "detachDelete" => pc[u] = "detachDelete"
    /\ noBlock' = noBlock /\ calls' = calls

(* A thread that moves on anywhere but to that point.                       *)
LEMMA MovesElsewhere ==
    ASSUME CallTypes, NEW t \in Thread, NEW l, l # "detachDelete",
           UNCHANGED pc \/ pc' = [pc EXCEPT ![t] = l]
    PROVE  \A u \in Thread : pc'[u] = "detachDelete" => pc[u] = "detachDelete"
BY DEF CallTypes

(* A request takes free buffers and frames only.                            *)
LEMMA SelectLeavesHands ==
    ASSUME IInv, NEW t \in Thread, NEW a,
           SelectBuffer(t, a) \/ (AfterWait(t) /\ a = arg[t])
    PROVE  /\ \A s \in Buffers : state[s] = "ACQUIRED" => state'[s] = "ACQUIRED"
           /\ \A u \in Thread : pc'[u] = "detachDelete" => pc[u] = "detachDelete"
<1>1. QueueTypes /\ CallTypes /\ QueueOK
    BY IInvParts
<1>2. ASSUME NEW s, s \in FreeSet \union In("FLUSHED"), ReuseBuffer(t, s, a)
      PROVE  \A u \in Buffers : state[u] = "ACQUIRED" => state'[u] = "ACQUIRED"
    <2>1. s \in Buffers /\ state[s] # "ACQUIRED"
        BY <1>1, <1>2 DEF QueueOK, In
    <2> QED BY <1>1, <1>2, <2>1 DEF ReuseBuffer, Delete, Erase, QueueTypes
<1>3. ASSUME CanPop(a.cfg)
      PROVE  freeList[PoppedAt(a.cfg)] \in FreeSet
    <2>1. PoppedAt(a.cfg) \in DOMAIN freeList
        BY <1>1, <1>3, PopTypes, LenProperties DEF QueueTypes
    <2> QED BY <2>1 DEF FreeSet, ToSet
<1>4. ASSUME dirtyList # <<>>
      PROVE  Head(dirtyList) \in In("FLUSHED")
    BY <1>1, <1>4, ListsTail DEF QueueOK
<1>5. \A s \in Buffers : state[s] = "ACQUIRED" => state'[s] = "ACQUIRED"
    BY <1>2, <1>3, <1>4
       DEF SelectBuffer, AfterWait, PopFromFreeList, PopFromDirtyList, NoBuffer, elements
<1>6. StartAlloc(t, a) \/ Park(t, "requestBlocked", a) \/ Finish(t)
    BY DEF SelectBuffer, AfterWait, PopFromFreeList, PopFromDirtyList, ReuseBuffer, NoBuffer
<1>7. \E l \in {"alloc", "requestBlocked", "idle"} : pc' = [pc EXCEPT ![t] = l]
    BY <1>6 DEF StartAlloc, Park, Finish
<1> QED BY <1>1, <1>5, <1>7, MovesElsewhere

(* The producer's calls other than DetachBuffer act on buffers that are not *)
(* the consumer's.                                                          *)
LEMMA ProducerLeavesHands ==
    ASSUME IInv, NeverCalled(UnsettlingCalls), NEW t \in Thread, ProducerCall(t)
    PROVE  HandsStay
<1>1. QueueTypes /\ CallTypes /\ noBlock \in BOOLEAN
    BY DEF IInv, TypeOK, SettingTypes
<1>2. ~Enters(t, "AttachBuffer") /\ ~Enters(t, "DetachBuffer")
    BY NeverEnters DEF IInv, TypeOK, SettingTypes, UnsettlingCalls, DroppingCalls
<1>3. ASSUME NEW s \in Buffers, state[s] # "ACQUIRED", UNCHANGED <<pc, modes>>,
             NEW st, state' = [state EXCEPT ![s] = st]
      PROVE  HandsStay
    BY <1>1, <1>3 DEF HandsStay, modes, QueueTypes
<1>4. ASSUME UNCHANGED <<state, modes>>,
             NEW l, l # "detachDelete", pc' = [pc EXCEPT ![t] = l]
      PROVE  HandsStay
    BY <1>1, <1>4, MovesElsewhere DEF HandsStay, modes
<1>5. CASE RequestBuffer(t)
    <2>1. UNCHANGED modes
        BY <1>5 DEF RequestBuffer
    <2>2. CASE \E a \in RequestArg(t) : SelectBuffer(t, a)
        BY <2>1, <2>2, SelectLeavesHands DEF HandsStay, modes
    <2>3. CASE \E a \in RequestArg(t) : Park(t, "requestWaitAlloc", a) /\ UNCHANGED elements
        BY <1>4, <2>1, <2>3 DEF Park, elements
    <2> QED BY <1>5, <2>2, <2>3 DEF RequestBuffer
<1>6. ASSUME NEW s \in Buffers, FlushBuffer(t, s)
      PROVE  HandsStay
    BY <1>4, <1>6 DEF FlushBuffer, Park, elements
<1>7. ASSUME NEW n, NEW c, PreAllocBuffers(t, n, c)
      PROVE  HandsStay
    BY <1>4, <1>7 DEF PreAllocBuffers, Park, elements
<1>8. ASSUME NEW s \in Buffers,
             \/ CancelBuffer(t, s) \/ AttachAndFlushBuffer(t, s)
             \/ AttachBufferToQueue(t, s, "Producer")
      PROVE  HandsStay
    BY <1>3, <1>8 DEF CancelBuffer, Free, SetState, AttachAndFlushBuffer, AttachBufferToQueue, Insert,
                      threads, Owned
<1>9. ASSUME NEW s \in Buffers, DetachBuffer(t, s)
      PROVE  HandsStay
    <2>1. state' = [state EXCEPT ![s] = "NONE"] /\ state[s] = "REQUESTED" /\ UNCHANGED <<pc, modes>>
        BY <1>1, <1>2, <1>9 DEF DetachBuffer, Erase, QueueTypes, threads
    <2> QED BY <1>3, <2>1
<1> QED BY <1>2, <1>5, <1>6, <1>7, <1>8, <1>9 DEF ProducerCall, AttachBuffer

(* The control calls that are left act on free buffers only.                *)
LEMMA ControlLeavesHands ==
    ASSUME IInv, NeverCalled(UnsettlingCalls), NEW t \in Thread, ControlCall(t)
    PROVE  HandsStay
<1>1. QueueTypes /\ CallTypes /\ \A s \in ToSet(freeList) : state[s] = "RELEASED"
    BY DEF IInv, TypeOK, ListsMatchStates
<1>2. \A c \in UnsettlingCalls : ~Enters(t, c)
    BY NeverEnters DEF IInv, TypeOK, SettingTypes
<1>3. /\ \A n : ~SetQueueSize(t, n) /\ ~SetMaxQueueSize(t, n)
      /\ \A S : ~CleanProducerBySeqNum(t, S)
      /\ ~CleanCache(t) /\ ~SetRequestBufferNoblockMode(t)
    BY <1>2 DEF SetQueueSize, SetMaxQueueSize, CleanProducerBySeqNum, CleanCache,
                SetRequestBufferNoblockMode, DroppingCalls, UnsettlingCalls
<1>4. CASE UNCHANGED <<state, pc, noBlock, calls>>
    BY <1>4 DEF HandsStay
<1>5. CASE CleanReleasedBuffers(t)
    <2>1. CASE allocating
        BY <1>1, <1>5, <2>1, MovesElsewhere DEF CleanReleasedBuffers, Park, elements, modes, HandsStay
    <2>2. CASE ~allocating
        BY <1>1, <1>5, <2>2 DEF CleanReleasedBuffers, CleanReleased, Erase, threads, modes, HandsStay
    <2> QED BY <2>1, <2>2
<1>6. CASE \/ AcquireLastFlushedBuffer(t) \/ ReleaseLastFlushedBuffer(t)
           \/ SetStatus(t) \/ SetConsumerListener(t) \/ SetIsPriorityAlloc(t)
    BY <1>4, <1>6 DEF AcquireLastFlushedBuffer, ReleaseLastFlushedBuffer, SetStatus,
                      SetConsumerListener, SetIsPriorityAlloc, elements, threads, modes
<1> QED BY <1>3, <1>5, <1>6 DEF ControlCall

(* Nor does a call that goes on disturb the consumer, unless it detaches.   *)
LEMMA StepLeavesHands ==
    ASSUME IInv, NothingDropped, NEW t \in Thread, pc[t] # "detachDelete", Step(t)
    PROVE  HandsStay
<1>1. QueueTypes /\ CallTypes /\ ChecksStillHold /\ isDeleting = {}
      /\ \A s \in ToSet(freeList) : state[s] = "RELEASED"
    BY DEF IInv, TypeOK, ListsMatchStates, NothingDropped
<1>2. pc[t] \notin DroppingAt
    BY DEF NothingDropped
<1>3. UNCHANGED modes
    BY DEF Step, RequestStep, FlushStep, AttachStep, WaiterStep, RequestAfterAlloc, RequestWakes,
           RequestSleepsAgain, RequestTimesOut, AllocSucceeds, AllocFails, FlushChecksCache,
           FlushChecksListener, DoFlushBuffer, FlushCancels, FlushDeletes, AttachLooksUp, AttachWakes,
           AttachSleepsAgain, AttachDeletes, ReleaseDeletes, ReleaseAsks, DetachDeletes, ShrinkAfterAlloc,
           ClearAfterAlloc, CleanReleasedAfterAlloc, PreAllocated
<1>4. SUFFICES /\ \A s \in Buffers : state[s] = "ACQUIRED" => state'[s] = "ACQUIRED"
               /\ UNCHANGED pc \/ (\E l : l # "detachDelete" /\ pc' = [pc EXCEPT ![t] = l])
                     \/ \A u \in Thread : pc'[u] = "detachDelete" => pc[u] = "detachDelete"
    BY <1>1, <1>3, MovesElsewhere DEF HandsStay, modes
<1>5. CASE RequestAfterAlloc(t) \/ RequestWakes(t) \/ RequestTimesOut(t)
    BY <1>5, SelectLeavesHands DEF RequestAfterAlloc, RequestWakes, RequestTimesOut
<1>6. CASE AllocSucceeds(t) \/ AllocFails(t) \/ RequestSleepsAgain(t)
    BY <1>1, <1>6 DEF AllocSucceeds, AllocFails, RequestSleepsAgain, Insert, Unused, Finish, elements,
                      threads, QueueTypes
<1>7. CASE FlushStep(t)
    <2> DEFINE s == arg[t].buf
    <2>1. s \in Buffers
        BY <1>7, InBufferCall, <1>1
           DEF FlushStep, FlushChecksCache, FlushChecksListener, DoFlushBuffer, FlushCancels,
               FlushDeletes, BufferCall
    <2>2. \E l : l # "detachDelete" /\ pc' = [pc EXCEPT ![t] = l]
        BY <1>7 DEF FlushStep, FlushChecksCache, FlushChecksListener, DoFlushBuffer, FlushCancels,
                    FlushDeletes, Goto, Finish
    <2>3. CASE DoFlushBuffer(t)
        <3>1. state[s] # "ACQUIRED"
            BY <1>1, <2>3 DEF DoFlushBuffer, ChecksStillHold, Owned
        <3> QED BY <1>1, <2>1, <2>2, <2>3, <3>1
                DEF DoFlushBuffer, Enqueue, SetState, elements, QueueTypes
    <2>4. CASE FlushCancels(t)
        BY <1>1, <2>1, <2>2, <2>4 DEF FlushCancels, Free, SetState, elements, QueueTypes, Owned
    <2>5. CASE FlushChecksCache(t) \/ FlushChecksListener(t)
        BY <2>2, <2>5 DEF FlushChecksCache, FlushChecksListener, elements
    <2> QED BY <1>2, <1>7, <2>3, <2>4, <2>5 DEF FlushStep, FlushDeletes, DroppingAt
<1>8. ~AttachStep(t)
    BY <1>2 DEF AttachStep, AttachLooksUp, AttachWakes, AttachSleepsAgain, AttachDeletes, DroppingAt
<1>9. CASE CleanReleasedAfterAlloc(t)
    BY <1>1, <1>9 DEF CleanReleasedAfterAlloc, CleanReleased, Erase, Finish
<1>10. CASE PreAllocated(t)
    BY <1>10 DEF PreAllocated, Increasing, Unused, Finish
<1>11. CASE ReleaseAsks(t)
    <2>1. PICK G : Lends({}, {}, G)
        BY <1>11, ReleaseAsksMeans
    <2>2. /\ \A s \in Buffers : state'[s] = IF s \in G THEN "REQUESTED" ELSE state[s]
          /\ G \subseteq FreeSet
        BY <2>1 DEF Lends, Lent
    <2> QED BY <1>1, <1>11, <2>2 DEF ReleaseAsks, Finish, FreeSet
<1> QED BY <1>2, <1>5, <1>6, <1>7, <1>8, <1>9, <1>10, <1>11
        DEF Step, RequestStep, WaiterStep, ReleaseDeletes, DetachDeletes, ShrinkAfterAlloc,
            ClearAfterAlloc, DroppingAt

(* A release gives back the one buffer; of the others free ones may go to   *)
(* the producer.                                                            *)
LEMMA ReleaseLeavesHands ==
    ASSUME IInv, NothingDropped, NEW t \in Thread, NEW s \in Buffers, ReleaseBuffer(t, s)
    PROVE  /\ \A u \in Buffers \ {s} : state'[u] = state[u] \/ (state[u] = "RELEASED" /\ state'[u] = "REQUESTED")
           /\ state'[s] # "ACQUIRED" /\ UNCHANGED <<noBlock, calls, dirtyList>>
           /\ UNCHANGED pc \/ pc' = [pc EXCEPT ![t] = "releaseAsks"]
<1>1. QueueTypes /\ QueueOK /\ s \notin isDeleting
    BY IInvParts DEF NothingDropped
<1>2. UNCHANGED <<noBlock, calls>> /\ (UNCHANGED pc \/ pc' = [pc EXCEPT ![t] = "releaseAsks"])
    BY <1>1, ReleaseCases DEF modes, threads, Park
<1>3. CASE Free(s)
    BY <1>1, <1>2, <1>3 DEF Free, SetState, QueueTypes
<1>4. CASE \E G : Lends({s}, {}, G)
    <2>1. PICK G : Lends({s}, {}, G)
        BY <1>4
    <2>2. /\ \A u \in Buffers : state'[u] = IF u \in G THEN "REQUESTED"
                                           ELSE IF u = s THEN "RELEASED" ELSE state[u]
          /\ G \subseteq FreeSet \union {s} /\ UNCHANGED dirtyList
        BY <2>1 DEF Lends, Lent
    <2> QED BY <1>1, <1>2, <2>2 DEF QueueOK, In
<1> QED BY <1>1, <1>3, <1>4, ReleaseCases

-----------------------------------------------------------------------------
(* The front frame stays in front as long as no frame leaves: what          *)
(* BufferLifecycle allows a step then is to append to the frames.           *)
LEMMA FrontStays ==
    ASSUME IInv, Mapped, dirtyList # <<>>,
           \A s \in Buffers : state[s] = "FLUSHED" => state'[s] = "FLUSHED"
    PROVE  /\ dirtyList' # <<>> /\ Head(dirtyList') = Head(dirtyList)
           /\ Head(dirtyList) \in Buffers /\ state[Head(dirtyList)] = "FLUSHED"
<1> DEFINE m == Len(dirtyList)
           h == Head(dirtyList)
<1>1. /\ QueueTypes /\ dirtyList \in Seq(Buffers) /\ DOMAIN dirtyList = 1..m /\ m \in Nat \ {0}
      /\ h = dirtyList[1]
      /\ \A i \in 1..m : dirtyList[i] \in Buffers /\ state[dirtyList[i]] = "FLUSHED"
    <2>1. QueueTypes /\ dirtyList \in Seq(Buffers) /\ Lists(dirtyList, In("FLUSHED"))
        BY IInvParts DEF QueueTypes, QueueOK
    <2>2. dirtyList \in Seq(In("FLUSHED"))
        BY <2>1 DEF Lists
    <2>3. \A i \in 1..m : dirtyList[i] \in In("FLUSHED")
        BY <2>2, ElementOfSeq
    <2> QED BY <2>1, <2>3, LenProperties, EmptySeq, HeadTailProperties DEF In
<1>2. h \in Buffers /\ state[h] = "FLUSHED"
    BY <1>1
<1>3. \A i \in 1..m : HolderOf(state'[dirtyList[i]]) = "frames"
    BY <1>1 DEF HolderOf
<1> HIDE DEF m
<1>4. CASE UNCHANGED dirtyList
    BY <1>2, <1>4
<1>5. ASSUME NEW s \in Buffers, dirtyList' = Append(dirtyList, s)
      PROVE  dirtyList' # <<>> /\ Head(dirtyList') = h
    <2>1. Len(Append(dirtyList, s)) = m + 1 /\ Append(dirtyList, s)[1] = dirtyList[1]
          /\ Append(dirtyList, s) \in Seq(Buffers)
        BY <1>1, AppendProperties DEF m
    <2>2. Append(dirtyList, s) # <<>>
        BY <1>1, <2>1, EmptySeq
    <2> QED BY <1>1, <1>5, <2>1, <2>2, HeadTailProperties
<1>6. ASSUME NEW S \in SUBSET Buffers, Lifecycle!FramesWithout(S), 1 \in 1..m => dirtyList[1] \notin S
      PROVE  dirtyList' # <<>> /\ Head(dirtyList') = h
    <2>1. PICK f \in [DOMAIN dirtyList' -> DOMAIN dirtyList] :
              /\ \A i, j \in DOMAIN dirtyList' : i < j => f[i] < f[j]
              /\ \A i \in DOMAIN dirtyList' : dirtyList'[i] = dirtyList[f[i]]
              /\ \A p \in DOMAIN dirtyList :
                    dirtyList[p] \notin S <=> \E i \in DOMAIN dirtyList' : f[i] = p
        BY <1>6 DEF Lifecycle!FramesWithout
    <2>2. dirtyList' \in Seq(Buffers)
        BY <1>6 DEF Lifecycle!FramesWithout
    <2>3. 1 \in 1..m
        BY <1>1
    <2>4. PICK i \in DOMAIN dirtyList' : f[i] = 1
        BY <1>1, <1>6, <2>1, <2>3
    <2>5. DOMAIN dirtyList' = 1..Len(dirtyList') /\ Len(dirtyList') \in Nat
        BY <2>2, LenProperties
    <2>6. i = 1
        <3>1. i \in Nat /\ 1 <= i /\ 1 \in DOMAIN dirtyList'
            BY <2>4, <2>5
        <3>2. f[1] \in 1..m
            BY <1>1, <2>1, <3>1
        <3>3. 1 < i => f[1] < 1
            BY <2>1, <2>4, <3>1
        <3> QED BY <1>1, <3>1, <3>2, <3>3
    <2>7. dirtyList' # <<>> /\ Head(dirtyList') = dirtyList'[1]
        BY <2>2, <2>4, <2>5, EmptySeq, HeadTailProperties
    <2> QED BY <1>1, <2>1, <2>4, <2>6, <2>7
<1>7. UNCHANGED dirtyList
      \/ (\E s \in Buffers : dirtyList' = Append(dirtyList, s))
      \/ \E S \in SUBSET Buffers :
            Lifecycle!FramesWithout(S) /\ (1 \in 1..m => dirtyList[1] \notin S)
    <2> DEFINE holds == [s \in Buffers |-> HolderOf(state[s])]
    <2>1. \A s \in Buffers : holds'[s] = HolderOf(state'[s])
        OBVIOUS
    <2>2. 1 \in 1..m /\ h = dirtyList[1]
        BY <1>1
    <2>3. CASE UNCHANGED Lifecycle!vars
        BY <2>3 DEF Lifecycle!vars
    <2>4. ASSUME NEW s \in Buffers, NEW from, NEW to, to # "frames", s = h,
                 Lifecycle!Move(s, from, to)
          PROVE  FALSE
        <3>1. holds'[s] = to
            BY <2>4 DEF Lifecycle!Move
        <3> QED BY <1>3, <2>1, <2>2, <2>4, <3>1
    <2>5. ASSUME NEW s \in Buffers,
                 Lifecycle!Lend(s) \/ Lifecycle!Take(s)
          PROVE  UNCHANGED dirtyList
        BY <2>4, <2>5 DEF Lifecycle!Lend, Lifecycle!Take
    <2>6. ASSUME NEW s \in Buffers, Lifecycle!Submit(s)
          PROVE  dirtyList' = Append(dirtyList, s)
        BY <2>6 DEF Lifecycle!Submit
    <2>7. ASSUME NEW s \in Buffers, Lifecycle!Return(s)
          PROVE  UNCHANGED dirtyList
        BY <2>7 DEF Lifecycle!Return
    <2>8. ASSUME NEW S \in SUBSET Buffers, Lifecycle!Adopt(S)
          PROVE  UNCHANGED dirtyList
        BY <2>8 DEF Lifecycle!Adopt
    <2>9. ASSUME NEW S \in SUBSET Buffers, Lifecycle!Forget(S)
          PROVE  Lifecycle!FramesWithout(S) /\ dirtyList[1] \notin S
        <3>1. PICK A \in {{}} \union {{s} : s \in {u \in Buffers : holds[u] = "nobody"}} :
                  holds' = [s \in Buffers |-> IF s \in A THEN "producer"
                                              ELSE IF s \in S THEN "nobody" ELSE holds[s]]
            BY <2>9 DEF Lifecycle!Forget
        <3>2. holds'[h] = "frames"
            BY <1>2, <1>3, <2>1, <2>2
        <3> QED BY <1>2, <2>2, <2>9, <3>1, <3>2 DEF Lifecycle!Forget
    <2>10. ASSUME NEW R, NEW D, NEW G, Lifecycle!LendUnasked(R, D, G)
           PROVE  UNCHANGED dirtyList
        BY <2>10 DEF Lifecycle!LendUnasked
    <2> QED BY <2>3, <2>5, <2>6, <2>7, <2>8, <2>9, <2>10 DEF Mapped, Lifecycle!Next
<1> QED BY <1>2, <1>4, <1>5, <1>6, <1>7

(* Dropping frames keeps lists and states together: no call has checked a   *)
(* buffer that is a frame.                                                  *)
LEMMA DropKeepsQueue ==
    ASSUME IInv, NothingDropped, NEW n \in 0..Len(dirtyList), DropOldest(n)
    PROVE  IInv' /\ NothingDropped'
<1> DEFINE G == ToSet(Oldest(n))
<1>1. /\ QueueTypes /\ CallTypes /\ QueueOK
      /\ UNCHANGED <<isDeleting, freeList, threads>>
      /\ \A s \in Buffers : state'[s] = IF s \in G THEN "ACQUIRED" ELSE state[s]
    BY IInvParts DEF DropOldest, lists
<1>2. G \subseteq In("FLUSHED")
    <2>1. dirtyList \in Seq(In("FLUSHED")) /\ Len(dirtyList) \in Nat
        BY <1>1, LenProperties DEF QueueOK, Lists
    <2>2. G = {dirtyList[i] : i \in 1..n}
        BY <2>1, PrefixInSeq DEF Oldest
    <2>3. \A i \in 1..n : dirtyList[i] \in In("FLUSHED")
        BY <2>1, ElementOfSeq
    <2> QED BY <2>2, <2>3
<1>3. TypeOK'
    BY DropTypes DEF IInv
<1> HIDE DEF G
<1>4. QueueOK'
    <2>1. In("FLUSHED")' = In("FLUSHED") \ G
        BY <1>1, <1>2 DEF In
    <2>2. FreeSet' = FreeSet
        BY <1>1 DEF FreeSet
    <2>3. Lists(dirtyList', In("FLUSHED") \ G)
        BY <1>1, ListsCut DEF QueueOK, DropOldest, Oldest, G
    <2>4. FreeSet \subseteq In("RELEASED")'
        BY <1>1, <1>2 DEF QueueOK, In
    <2> QED BY <1>1, <2>1, <2>2, <2>3, <2>4 DEF QueueOK
<1>5. ListsMatchStates'
    <2>1. ListsMatchStates /\ BeingDeleted' = BeingDeleted /\ FreeSet' = FreeSet
        BY <1>1 DEF IInv, BeingDeleted, threads, FreeSet
    <2>2. \A s \in Buffers : state'[s] = "RELEASED" => state[s] = "RELEASED"
        BY <1>1
    <2>3. \A s \in Buffers : state'[s] = "RELEASED" => s \in FreeSet' \union BeingDeleted'
        BY <2>1, <2>2 DEF ListsMatchStates, FreeSet
    <2>4. IsInjective(dirtyList') /\ ToSet(dirtyList') = In("FLUSHED")'
        <3>1. dirtyList' \in Seq(Buffers) /\ Lists(dirtyList', In("FLUSHED")')
            BY <1>3, <1>4 DEF TypeOK, QueueTypes, QueueOK
        <3>2. ToSet(dirtyList') = In("FLUSHED")'
            BY <3>1 DEF Lists
        <3> QED BY <3>1, <3>2, InSeqToSet
    <2>5. IsInjective(freeList') /\ \A s \in ToSet(freeList') : state'[s] = "RELEASED"
        BY <1>1, <1>4, <2>1 DEF ListsMatchStates, QueueOK, FreeSet, In
    <2> QED BY <2>3, <2>4, <2>5 DEF ListsMatchStates, FreeSet, In
<1>6. ChecksStillHold'
    <2>1. \A t \in Thread : pc[t] \in BufferCall => arg[t].buf \in Buffers
        BY <1>1, InBufferCall
    <2>2. \A t \in Thread : pc[t] \in BufferCall =>
              (state'[arg[t].buf] = state[arg[t].buf] \/ state[arg[t].buf] = "FLUSHED")
        BY <1>1, <1>2, <2>1 DEF In
    <2> QED BY <1>1, <2>2 DEF IInv, ChecksStillHold, threads, BufferCall, Owned
<1>7. OneCallPerBuffer' /\ NothingDropped'
    BY <1>1 DEF IInv, OneCallPerBuffer, NothingDropped, threads
<1> QED BY <1>3, <1>5, <1>6, <1>7 DEF IInv

-----------------------------------------------------------------------------
(* From its second lock scope on, the timed AcquireBuffer has a ready frame *)
(* in front. *)

QueueKept ==
    /\ IInv /\ NothingDropped
    /\ ~noBlock
    /\ \A t \in Thread : pc[t] # "detachDelete"

StampTypes == stamp \in [Buffers -> [time : Nat, isAuto : BOOLEAN]]

CallsTimed == \A t \in Thread : call[t].at # "none" => "TimedAcquire" \in calls[t]

ReadyInFront(t) == dirtyList # <<>> /\ Ready(stamp[Head(dirtyList)], call[t].expect)

AtFront == \A t \in Thread : call[t].at = "dropTime" => ReadyInFront(t)

(* What a call has dropped is ACQUIRED, each buffer once, and none of it is *)
(* the client's; what the client holds is ACQUIRED.                         *)
DropsApart(d) == /\ Lists(d, ToSet(d))
                 /\ \A s \in ToSet(d) : state[s] = "ACQUIRED" /\ s \notin held

HandsApart ==
    /\ \A s \in held : s \in Buffers /\ state[s] = "ACQUIRED"
    /\ \A t \in Thread : DropsApart(call[t].drops)

SelectInv ==
    /\ QueueKept
    /\ PaceTypes /\ StampTypes
    /\ CallsTimed
    /\ AtFront
    /\ HandsApart

(* The producer's and the control calls, and what goes on inside a call.    *)
LEMMA QuietStep ==
    ASSUME SingleOwner, Settled, QueueKept, NEW t \in Thread,
           ProducerCall(t) \/ ControlCall(t) \/ Step(t)
    PROVE  /\ QueueKept' /\ HandsStay
           /\ \A s \in Buffers : state[s] = "FLUSHED" => state'[s] = "FLUSHED"
<1>1. Next /\ [Next]_vars /\ NeverCalled(UnsettlingCalls) /\ NeverCalled(DroppingCalls)
    BY DEF Next, Settled, NeverCalled, UnsettlingCalls
<1>2. HandsStay
    BY <1>1, ProducerLeavesHands, ControlLeavesHands, StepLeavesHands DEF QueueKept
<1>3. Kept /\ IInv'
    BY <1>1, StepKeeps, IInvStep DEF QueueKept
<1>4. TakesNothing
    BY OnlyAcquiresTake DEF QueueKept, IInv
<1>5. QueueKept'
    BY <1>2, <1>3 DEF QueueKept, HandsStay, Kept
<1>6. \A s \in Buffers : state[s] = "FLUSHED" => state'[s] = "FLUSHED"
    BY <1>3, <1>4 DEF QueueKept, Kept, FrameStays, TakesNothing
<1> QED BY <1>2, <1>5, <1>6

(* The consumer's two plain calls.                                          *)
LEMMA ConsumerStep ==
    ASSUME SingleOwner, Settled, QueueKept, NEW t \in Thread,
           AcquireBuffer(t) \/ \E s \in Buffers : ReleaseBuffer(t, s)
    PROVE  QueueKept' /\ calls' = calls
<1>1. Next /\ [Next]_vars /\ NeverCalled(DroppingCalls)
    BY DEF Next, ConsumerCall, Settled, NeverCalled, UnsettlingCalls
<1>2. Kept /\ IInv'
    BY <1>1, StepKeeps, IInvStep DEF QueueKept
<1>3. UNCHANGED <<noBlock, calls>> /\ (UNCHANGED pc \/ pc' = [pc EXCEPT ![t] = "releaseAsks"])
    <2>1. CASE AcquireBuffer(t)
        BY <2>1 DEF AcquireBuffer, threads, modes
    <2> QED BY <2>1, ReleaseLeavesHands DEF QueueKept
<1>4. \A u \in Thread : pc'[u] # "detachDelete"
    BY <1>3 DEF QueueKept, IInv, TypeOK, CallTypes
<1> QED BY <1>2, <1>3, <1>4 DEF QueueKept, Kept

(* StampFrames gives stamps to new frames and keeps those of the others.    *)
LEMMA StampStep ==
    ASSUME StampTypes, StampFrames
    PROVE  /\ StampTypes'
           /\ \A s \in Buffers : state[s] = "FLUSHED" /\ state'[s] = "FLUSHED" => stamp'[s] = stamp[s]
<1>1. \A p \in Stamps : p \in [time : Nat, isAuto : BOOLEAN]
    <2>1. MaxTime \in Nat /\ Time \subseteq Nat /\ 0..MaxTime \subseteq Nat /\ -1..MaxTime \subseteq Int
        BY TimeAssumption DEF Time
    <2>2. ASSUME NEW d \in -1..MaxTime, NEW ui \in 0..MaxTime, NEW now \in Time
          PROVE  SetDesiredPresentTimestampAndUiTimestamp(d, ui, now)
                     \in [time : Nat, isAuto : BOOLEAN]
        <3>1. d \in Int /\ (d > 0 => d \in Nat) /\ ui \in Nat /\ now \in Nat
            BY <2>1, <2>2
        <3> QED BY <3>1 DEF SetDesiredPresentTimestampAndUiTimestamp
    <2> QED BY <2>2 DEF Stamps
<1>2. NoStamp \in [time : Nat, isAuto : BOOLEAN]
    BY DEF NoStamp
<1>3. PICK new \in [NewFrames -> Stamps] :
          stamp' = [s \in Buffers |-> IF s \in NewFrames THEN new[s]
                                      ELSE IF state'[s] = "FLUSHED" THEN stamp[s] ELSE NoStamp]
    BY DEF StampFrames
<1> QED BY <1>1, <1>2, <1>3 DEF StampTypes, NewFrames

(* Only one thread acquires.                                                *)
LEMMA OneTimed ==
    ASSUME SelectInv, Settled, NEW t \in Thread, NEW u \in Thread, call[t].at # "none",
           calls[u] \intersect {"TimedAcquire", "AcquireBuffer"} # {}
    PROVE  t = u
BY DEF SelectInv, Settled, OneConsumer, CallsTimed, QueueKept, IInv, TypeOK, SettingTypes

(* A step of the queue that is none of the consumer's acquires leaves the   *)
(* selected frame in front.                                                 *)
LEMMA SelectionStays ==
    ASSUME SelectInv, [Next]_vars, SingleOwner, StampFrames,
           \A s \in Buffers : state[s] = "FLUSHED" => state'[s] = "FLUSHED",
           \A t \in Thread : call'[t].at = call[t].at /\ call'[t].expect = call[t].expect
    PROVE  AtFront'
<1>1. IInv /\ Mapped /\ StampTypes
    BY StepMaps DEF SelectInv, QueueKept
<1> SUFFICES ASSUME NEW t \in Thread, call'[t].at = "dropTime"
             PROVE  ReadyInFront(t)'
    BY DEF AtFront
<1>2. dirtyList # <<>> /\ Ready(stamp[Head(dirtyList)], call[t].expect)
    BY DEF SelectInv, AtFront, ReadyInFront
<1>3. /\ dirtyList' # <<>> /\ Head(dirtyList') = Head(dirtyList)
      /\ Head(dirtyList) \in Buffers /\ state[Head(dirtyList)] = "FLUSHED"
    BY <1>1, <1>2, FrontStays
<1>4. stamp'[Head(dirtyList)] = stamp[Head(dirtyList)]
    BY <1>1, <1>3, StampStep
<1> QED BY <1>2, <1>3, <1>4 DEF ReadyInFront

(* Steps that change no timed call and nothing in the consumer's hands.     *)
LEMMA QuietSelects ==
    ASSUME SingleOwner, Settled, SelectInv, NEW t \in Thread, StampFrames,
           ProducerCall(t) \/ ControlCall(t) \/ Step(t), UNCHANGED <<dropLevel, call, held>>
    PROVE  SelectInv'
<1>1. /\ QueueKept' /\ HandsStay
      /\ \A s \in Buffers : state[s] = "FLUSHED" => state'[s] = "FLUSHED"
    BY QuietStep DEF SelectInv
<1>2. PaceTypes' /\ StampTypes' /\ CallsTimed'
    BY <1>1, StampStep DEF SelectInv, PaceTypes, CallsTimed, HandsStay
<1>3. AtFront'
    BY <1>1, SelectionStays DEF Next
<1>4. HandsApart'
    <2>1. \A u \in Thread : ToSet(call[u].drops) \subseteq Buffers
        BY InSeqToSet DEF SelectInv, PaceTypes, TimedCall
    <2> QED BY <1>1, <2>1 DEF SelectInv, HandsApart, DropsApart, HandsStay
<1> QED BY <1>1, <1>2, <1>3, <1>4 DEF SelectInv

(* The client releases a buffer it holds.                                   *)
LEMMA ReleaseSelects ==
    ASSUME SingleOwner, Settled, SelectInv, NEW t \in Thread, NEW s \in Buffers, StampFrames,
           PlainRelease(t, s), UNCHANGED <<dropLevel, call>>
    PROVE  SelectInv'
<1>1. /\ QueueKept' /\ calls' = calls
      /\ \A u \in Buffers \ {s} : state'[u] = state[u] \/ (state[u] = "RELEASED" /\ state'[u] = "REQUESTED")
      /\ s \in held /\ held' = held \ {s} /\ state[s] = "ACQUIRED"
    BY ConsumerStep, ReleaseLeavesHands DEF SelectInv, QueueKept, PlainRelease, HandsApart
<1>2. PaceTypes' /\ StampTypes' /\ CallsTimed'
    BY <1>1, StampStep DEF SelectInv, PaceTypes, CallsTimed
<1>3. AtFront'
    BY <1>1, SelectionStays DEF Next, ConsumerCall, PlainRelease
<1>4. HandsApart'
    <2>1. \A u \in Thread : ToSet(call[u].drops) \subseteq Buffers
        BY InSeqToSet DEF SelectInv, PaceTypes, TimedCall
    <2> QED BY <1>1, <2>1 DEF SelectInv, HandsApart, DropsApart
<1> QED BY <1>1, <1>2, <1>3, <1>4 DEF SelectInv

(* AcquireBuffer takes the front frame.                                     *)
LEMMA FrontTaken ==
    ASSUME IInv, NEW t \in Thread, AcquireBuffer(t)
    PROVE  /\ Head(dirtyList) \in Buffers /\ state[Head(dirtyList)] = "FLUSHED"
           /\ \A s \in Buffers :
                 state'[s] = IF s = Head(dirtyList) THEN "ACQUIRED" ELSE state[s]
<1> DEFINE h == Head(dirtyList)
<1>1. QueueTypes /\ QueueOK /\ dirtyList # <<>> /\ state' = [state EXCEPT ![h] = "ACQUIRED"]
    BY IInvParts DEF AcquireBuffer, SetState
<1>2. h \in In("FLUSHED")
    BY <1>1, ListsTail DEF QueueOK
<1> HIDE DEF h
<1>3. h \in Buffers /\ state[h] = "FLUSHED"
    BY <1>2 DEF In
<1>4. \A s \in Buffers : state'[s] = IF s = h THEN "ACQUIRED" ELSE state[s]
    BY <1>1 DEF QueueTypes
<1> QED BY <1>3, <1>4 DEF h

(* The client, or the third lock scope, takes it: no other thread has       *)
(* selected a frame.                                                        *)
LEMMA AcquireSelects ==
    ASSUME SingleOwner, Settled, SelectInv, NEW t \in Thread, StampFrames,
           AcquireBuffer(t), held' = held \union {Head(dirtyList)},
           UNCHANGED call \/ (Return(t) /\ call[t].drops = <<>>), call[t].at = "none" \/ Return(t),
           UNCHANGED dropLevel
    PROVE  SelectInv'
<1> DEFINE h == Head(dirtyList)
<1>1. /\ QueueKept' /\ calls' = calls
      /\ h \in Buffers /\ state[h] = "FLUSHED"
      /\ \A s \in Buffers : state'[s] = IF s = h THEN "ACQUIRED" ELSE state[s]
    BY ConsumerStep, FrontTaken DEF SelectInv, QueueKept
<1>2. /\ PaceTypes'
      /\ \A u \in Thread \ {t} : call'[u] = call[u]
      /\ call'[t].at = "none" /\ call'[t].drops = <<>>
    BY NoCallTypes, TimedCallTypes DEF SelectInv, Return, PaceTypes
<1>3. StampTypes' /\ CallsTimed'
    BY <1>1, <1>2, StampStep DEF SelectInv, CallsTimed
<1>4. AtFront'
    <2>1. calls[t] \intersect {"TimedAcquire", "AcquireBuffer"} # {}
        BY DEF AcquireBuffer, Enters
    <2>2. \A u \in Thread : call'[u].at # "dropTime"
        BY <1>2, <2>1, OneTimed
    <2> QED BY <2>2 DEF AtFront
<1> HIDE DEF h
<1>5. HandsApart'
    <2>1. held' = held \union {h}
        BY DEF h
    <2>2. \A u \in Thread : ToSet(call[u].drops) \subseteq Buffers
        BY InSeqToSet DEF SelectInv, PaceTypes, TimedCall
    <2>3. \A u \in Thread \ {t} : DropsApart(call[u].drops)'
        BY <1>1, <1>2, <2>1, <2>2 DEF SelectInv, HandsApart, DropsApart
    <2>4. DropsApart(call[t].drops)'
        <3>1. Lists(<<>>, ToSet(<<>>)) /\ ToSet(<<>>) = {}
            BY EmptySeq DEF Lists, ToSet, IsInjective
        <3> QED BY <1>2, <3>1 DEF DropsApart
    <2>5. \A s \in held' : s \in Buffers /\ state'[s] = "ACQUIRED"
        BY <1>1, <2>1 DEF SelectInv, HandsApart
    <2> QED BY <2>3, <2>4, <2>5 DEF HandsApart
<1> QED BY <1>1, <1>2, <1>3, <1>4, <1>5 DEF SelectInv

(* The dropped frames are frames, each once.                                *)
LEMMA OldestApart ==
    ASSUME IInv, NEW n \in 0..Len(dirtyList)
    PROVE  /\ Lists(Oldest(n), ToSet(Oldest(n)))
           /\ \A s \in ToSet(Oldest(n)) : s \in Buffers /\ state[s] = "FLUSHED"
<1>1. /\ dirtyList \in Seq(Buffers) /\ dirtyList \in Seq(In("FLUSHED")) /\ Len(dirtyList) \in Nat
      /\ \A i, j \in 1..Len(dirtyList) : dirtyList[i] = dirtyList[j] => i = j
    BY IInvParts, ListsMeans, LenProperties DEF QueueTypes, QueueOK
<1>2. /\ Oldest(n) \in Seq(Buffers) /\ Len(Oldest(n)) = n
      /\ \A i \in 1..n : Oldest(n)[i] = dirtyList[i]
    <2>1. \A i \in 1..n : dirtyList[i] \in Buffers
        BY <1>1, ElementOfSeq
    <2> QED BY <1>1, <2>1, SubSeqProperties DEF Oldest
<1>3. IsInjective(Oldest(n))
    <2>1. DOMAIN Oldest(n) = 1..n
        BY <1>2, LenProperties
    <2> QED BY <1>1, <1>2, <2>1 DEF IsInjective
<1>4. \A s \in ToSet(Oldest(n)) : s \in In("FLUSHED")
    <2>1. ToSet(Oldest(n)) = {dirtyList[i] : i \in 1..n}
        BY <1>1, PrefixInSeq DEF Oldest
    <2>2. \A i \in 1..n : dirtyList[i] \in In("FLUSHED")
        BY <1>1, ElementOfSeq
    <2> QED BY <2>1, <2>2
<1> QED BY <1>2, <1>3, <1>4, InSeqToSet DEF In

(* A lock scope of the timed AcquireBuffer that drops n frames, for the     *)
(* call c that goes on.                                                     *)
LEMMA DropSelects ==
    ASSUME SingleOwner, Settled, SelectInv, NEW t \in Thread, StampFrames,
           NEW n \in 0..Len(dirtyList), DropOldest(n), call[t].drops = <<>>,
           NEW c \in TimedCall, call' = [call EXCEPT ![t] = c],
           c.drops = Oldest(n) \/ (c.drops = <<>> /\ n = 0),
           c.at = "none" => c.drops = <<>>,
           "TimedAcquire" \in calls[t],
           c.at = "dropTime" => ReadyInFront(t)',
           UNCHANGED <<dropLevel, held>>
    PROVE  SelectInv'
<1> DEFINE d == Oldest(n)
<1>1. /\ QueueTypes /\ IInv
      /\ \A s \in Buffers : state'[s] = IF s \in ToSet(d) THEN "ACQUIRED" ELSE state[s]
      /\ UNCHANGED <<pc, noBlock, calls>>
    BY DEF SelectInv, QueueKept, IInv, TypeOK, DropOldest, threads, modes
<1>2. QueueKept'
    BY <1>1, DropKeepsQueue DEF SelectInv, QueueKept
<1>3. PaceTypes'
    BY TimedCallTypes DEF SelectInv
<1>4. call'[t] = c /\ \A u \in Thread \ {t} : call'[u] = call[u]
    BY DEF SelectInv, PaceTypes
<1>5. StampTypes' /\ CallsTimed'
    BY <1>1, <1>4, StampStep DEF SelectInv, CallsTimed
<1>6. AtFront'
    <2>1. calls[t] \intersect {"TimedAcquire", "AcquireBuffer"} # {}
        OBVIOUS
    <2>2. \A u \in Thread \ {t} : call'[u].at # "dropTime"
        BY <1>4, <2>1, OneTimed
    <2> QED BY <1>4, <2>2 DEF AtFront
<1>7. /\ Lists(d, ToSet(d)) /\ \A s \in ToSet(d) : s \in Buffers /\ state[s] = "FLUSHED"
      /\ Lists(<<>>, ToSet(<<>>)) /\ ToSet(<<>>) = {}
    <2>1. Lists(d, ToSet(d)) /\ \A s \in ToSet(d) : s \in Buffers /\ state[s] = "FLUSHED"
        BY <1>1, OldestApart
    <2>2. Lists(<<>>, ToSet(<<>>)) /\ ToSet(<<>>) = {}
        BY EmptySeq DEF Lists, ToSet, IsInjective
    <2> QED BY <2>1, <2>2
<1> HIDE DEF d
<1>8. HandsApart'
    <2>1. \A u \in Thread : ToSet(call[u].drops) \subseteq Buffers
        BY InSeqToSet DEF SelectInv, PaceTypes, TimedCall
    <2>2. \A s \in held : s \in Buffers /\ state[s] = "ACQUIRED"
        BY DEF SelectInv, HandsApart
    <2>3. \A u \in Thread \ {t} : DropsApart(call[u].drops)'
        BY <1>1, <1>4, <2>1 DEF SelectInv, HandsApart, DropsApart
    <2>4. c.drops = d \/ c.drops = <<>>
        BY DEF d
    <2>5. DropsApart(call[t].drops)'
        BY <1>1, <1>4, <1>7, <2>2, <2>4 DEF DropsApart
    <2>6. \A s \in held' : s \in Buffers /\ state'[s] = "ACQUIRED"
        BY <1>1, <2>2
    <2> QED BY <2>3, <2>5, <2>6 DEF HandsApart
<1> QED BY <1>2, <1>3, <1>5, <1>6, <1>8 DEF SelectInv

(* The first lock scope selects nothing.                                    *)
LEMMA TimedAcquireSelects ==
    ASSUME SingleOwner, Settled, SelectInv, NEW t \in Thread, NEW expect \in Time,
           NEW auto \in BOOLEAN, TimedAcquire(t, expect, auto), StampFrames
    PROVE  SelectInv'
<1> DEFINE n == BeyondLevel
           c == [at |-> "dropLevel", expect |-> expect, auto |-> auto, drops |-> Oldest(n)]
<1>1. QueueTypes /\ n \in 0..Len(dirtyList)
    BY LevelInList DEF SelectInv, QueueKept, IInv, TypeOK, PaceTypes
<1>2. /\ DropOldest(n) /\ call' = [call EXCEPT ![t] = c] /\ UNCHANGED <<dropLevel, held>>
      /\ call[t].drops = <<>> /\ "TimedAcquire" \in calls[t]
    BY DEF TimedAcquire, InCall, SelectInv, PaceTypes
<1> HIDE DEF n
<1>3. c \in TimedCall /\ c.at = "dropLevel" /\ c.drops = Oldest(n)
    BY <1>1, OldestTypes DEF TimedCall
<1> HIDE DEF c
<1> QED BY <1>1, <1>2, <1>3, DropSelects

(* The second one leaves a ready frame in front, or ends the call having    *)
(* dropped nothing.                                                         *)
LEMMA SelectFrameSelects ==
    ASSUME SingleOwner, Settled, SelectInv, NEW t \in Thread, SelectFrame(t), StampFrames
    PROVE  SelectInv'
<1> DEFINE a == call[t]
           n == Max({0} \union Superseded(a))
           c == [call[t] EXCEPT !.at = "dropTime", !.drops = Oldest(n)]
<1>1. /\ QueueTypes /\ IInv /\ a \in TimedCall /\ a.at = "dropLevel" /\ a.drops = <<>>
      /\ "TimedAcquire" \in calls[t] /\ UNCHANGED <<dropLevel, held>>
      /\ dirtyList \in Seq(Buffers) /\ Len(dirtyList) \in Nat
    BY LenProperties DEF SelectFrame, InCall, SelectInv, QueueKept, IInv, TypeOK, QueueTypes,
                         PaceTypes, CallsTimed
<1>2. ASSUME Return(t), DropOldest(0)
      PROVE  SelectInv'
    <2>1. 0 \in 0..Len(dirtyList)
        BY <1>1
    <2> QED BY <1>1, <1>2, <2>1, NoCallTypes, DropSelects DEF Return
<1>3. CASE dirtyList = <<>> \/ ~Ready(stamp[Head(dirtyList)], a.expect)
    <2>1. Return(t) /\ UNCHANGED vars
        BY <1>3 DEF SelectFrame
    <2>2. ToSet(Oldest(0)) = {}
        BY <1>1, OldestTypes, EmptySeq DEF ToSet
    <2>3. SubSeq(dirtyList, 0 + 1, Len(dirtyList)) = dirtyList
        <3>1. 0 \in 0..Len(dirtyList)
            BY <1>1
        <3>2. /\ SubSeq(dirtyList, 0 + 1, Len(dirtyList)) \in Seq(Buffers)
              /\ Len(SubSeq(dirtyList, 0 + 1, Len(dirtyList))) = Len(dirtyList) - 0
              /\ \A i \in 1..(Len(dirtyList) - 0) :
                    SubSeq(dirtyList, 0 + 1, Len(dirtyList))[i] = dirtyList[0 + i]
            BY <1>1, <3>1, CutInSeq
        <3> DEFINE l == SubSeq(dirtyList, 0 + 1, Len(dirtyList))
        <3>3. l \in Seq(Buffers) /\ Len(l) = Len(dirtyList)
              /\ \A i \in 1..Len(dirtyList) : l[i] = dirtyList[i]
            BY <1>1, <3>2
        <3> HIDE DEF l
        <3>4. l = dirtyList
            BY <1>1, <3>3, SeqEqual
        <3> QED BY <3>4 DEF l
    <2>4. state' = [s \in Buffers |-> IF s \in ToSet(Oldest(0)) THEN "ACQUIRED" ELSE state[s]]
        BY <1>1, <2>1, <2>2 DEF vars, elements, QueueTypes
    <2>5. DropOldest(0)
        BY <2>1, <2>3, <2>4 DEF DropOldest, vars, elements, lists
    <2> QED BY <1>2, <2>1, <2>5
<1>4. CASE dirtyList # <<>> /\ Ready(stamp[Head(dirtyList)], a.expect)
    <2>1. /\ DropOldest(n)
          /\ \/ Ready(stamp[dirtyList[n + 1]], a.expect) /\ Continue(t, "dropTime", n)
             \/ ~Ready(stamp[dirtyList[n + 1]], a.expect) /\ Return(t)
        BY <1>4 DEF SelectFrame
    <2>2. n \in 0..(Len(dirtyList) - 1) /\ (n # 0 => Due(stamp[dirtyList[n + 1]], a))
        BY <1>1, <1>4, SupersededInList
    <2> HIDE DEF n
    <2>3. n \in 0..Len(dirtyList) /\ n + 1 \in 1..Len(dirtyList) /\ Len(dirtyList) - n \in Nat \ {0}
        BY <1>1, <2>2
    <2>4. CASE ~Ready(stamp[dirtyList[n + 1]], a.expect) /\ Return(t)
        <3>1. n = 0
            BY <2>2, <2>4 DEF Ready, IsPresentTimestampReady, Due
        <3> QED BY <1>2, <2>1, <2>4, <3>1
    <2>5. CASE Ready(stamp[dirtyList[n + 1]], a.expect) /\ Continue(t, "dropTime", n)
        <3>1. c \in TimedCall /\ c.at = "dropTime" /\ c.drops = Oldest(n) /\ c.expect = a.expect
            BY <1>1, <2>3, OldestTypes DEF TimedCall
        <3>2. call' = [call EXCEPT ![t] = c]
            BY <2>5 DEF Continue, SelectInv, PaceTypes
        <3> HIDE DEF c
        <3>3. ReadyInFront(t)'
            <4> DEFINE g == dirtyList[n + 1]
            <4>1. dirtyList' # <<>> /\ Head(dirtyList') = g
                <5>1. /\ dirtyList' \in Seq(Buffers) /\ Len(dirtyList') = Len(dirtyList) - n
                      /\ \A i \in 1..(Len(dirtyList) - n) : dirtyList'[i] = dirtyList[n + i]
                    BY <1>1, <2>1, <2>3, CutInSeq DEF DropOldest
                <5>2. dirtyList' # <<>>
                    BY <2>3, <5>1, EmptySeq
                <5>3. 1 \in 1..(Len(dirtyList) - n)
                    BY <2>3
                <5> QED BY <5>1, <5>2, <5>3, HeadTailProperties
            <4>2. g \in Buffers /\ state[g] = "FLUSHED" /\ state'[g] = "FLUSHED"
                <5>1. /\ \A i \in 1..Len(dirtyList) : dirtyList[i] \in In("FLUSHED")
                      /\ \A i, j \in 1..Len(dirtyList) : dirtyList[i] = dirtyList[j] => i = j
                    BY <1>1, IInvParts, ListsMeans, ElementOfSeq DEF QueueOK
                <5>2. ToSet(Oldest(n)) = {dirtyList[i] : i \in 1..n}
                    BY <1>1, <2>3, PrefixInSeq DEF Oldest
                <5>3. \A i \in 1..n : i \in 1..Len(dirtyList) /\ i # n + 1
                    BY <1>1, <2>3
                <5>4. g \in In("FLUSHED") /\ g \notin ToSet(Oldest(n))
                    BY <2>3, <5>1, <5>2, <5>3
                <5> QED BY <2>1, <5>4 DEF In, DropOldest
            <4>3. stamp'[g] = stamp[g]
                BY <4>2, StampStep DEF SelectInv
            <4>4. call'[t].expect = a.expect
                BY <3>1, <3>2 DEF SelectInv, PaceTypes
            <4> QED BY <2>5, <4>1, <4>3, <4>4 DEF ReadyInFront
        <3> QED BY <1>1, <2>1, <2>3, <3>1, <3>2, <3>3, DropSelects
    <2> QED BY <2>1, <2>4, <2>5
<1> QED BY <1>3, <1>4

(* ReleaseDropBuffers gives back the next of the dropped buffers, which the *)
(* client does not hold.                                                    *)
LEMMA ReleaseDroppedSelects ==
    ASSUME SingleOwner, Settled, SelectInv, NEW t \in Thread, ReleaseDropped(t), StampFrames
    PROVE  SelectInv'
<1> DEFINE d == call[t].drops
           s == Head(d)
           c == [call[t] EXCEPT !.drops = Tail(d)]
<1>1. /\ d \in Seq(Buffers) /\ d # <<>> /\ call[t] \in TimedCall /\ call[t].at # "none"
      /\ DropsApart(d) /\ call' = [call EXCEPT ![t] = c] /\ UNCHANGED <<dropLevel, held>>
    BY DEF SelectInv, PaceTypes, TimedCall, ReleaseDropped, HandsApart
<1>2. /\ s \in ToSet(d) /\ Lists(Tail(d), ToSet(d) \ {s}) /\ ToSet(Tail(d)) = ToSet(d) \ {s}
      /\ s \in Buffers /\ Tail(d) \in Seq(Buffers)
    <2>1. s \in ToSet(d) /\ Lists(Tail(d), ToSet(d) \ {s})
        BY <1>1, ListsTail DEF DropsApart
    <2> QED BY <1>1, <2>1, HeadTailProperties DEF Lists
<1>3. c \in TimedCall /\ c.at = call[t].at /\ c.expect = call[t].expect /\ c.drops = Tail(d)
    BY <1>1, <1>2 DEF TimedCall
<1>4. state[s] = "ACQUIRED" /\ s \notin held /\ ReleaseBuffer(t, s)
    BY <1>1, <1>2 DEF DropsApart, ReleaseDropped
<1>5. /\ QueueKept' /\ calls' = calls
      /\ \A u \in Buffers \ {s} : state'[u] = state[u] \/ (state[u] = "RELEASED" /\ state'[u] = "REQUESTED")
    BY <1>2, <1>4, ConsumerStep, ReleaseLeavesHands DEF SelectInv, QueueKept
<1> HIDE DEF d, s, c
<1>6. PaceTypes'
    BY <1>1, <1>3, TimedCallTypes DEF SelectInv
<1>7. /\ \A u \in Thread : call'[u].at = call[u].at /\ call'[u].expect = call[u].expect
      /\ \A u \in Thread \ {t} : call'[u] = call[u]
      /\ call'[t].drops = Tail(d)
    BY <1>1, <1>3 DEF SelectInv, PaceTypes
<1>8. StampTypes' /\ CallsTimed'
    BY <1>5, <1>7, StampStep DEF SelectInv, CallsTimed
<1>9. AtFront'
    <2>1. [Next]_vars
        BY <1>2, <1>4 DEF Next, ConsumerCall
    <2>2. \A u \in Buffers : state[u] = "FLUSHED" => state'[u] = "FLUSHED"
        BY <1>4, <1>5
    <2> QED BY <1>7, <2>1, <2>2, SelectionStays
<1>10. HandsApart'
    <2>1. \A u \in Thread : ToSet(call[u].drops) \subseteq Buffers
        BY InSeqToSet DEF SelectInv, PaceTypes, TimedCall
    <2>2. \A u \in held : u \in Buffers /\ state[u] = "ACQUIRED"
        BY DEF SelectInv, HandsApart
    <2>3. ASSUME NEW u \in Thread \ {t}
          PROVE  DropsApart(call[u].drops)'
        <3>1. calls[u] \intersect {"TimedAcquire", "AcquireBuffer"} = {}
            BY <1>1, OneTimed
        <3>2. call[u].drops = <<>>
            BY <3>1 DEF SelectInv, PaceTypes, CallsTimed
        <3>3. Lists(<<>>, ToSet(<<>>)) /\ ToSet(<<>>) = {}
            BY EmptySeq DEF Lists, ToSet, IsInjective
        <3> QED BY <1>7, <3>2, <3>3 DEF DropsApart
    <2>4. DropsApart(call[t].drops)'
        <3>1. \A u \in ToSet(d) \ {s} : state'[u] = "ACQUIRED" /\ u \notin held'
            BY <1>1, <1>5, <2>1 DEF DropsApart, d
        <3> QED BY <1>2, <1>7, <3>1 DEF DropsApart
    <2> QED BY <1>1, <1>4, <1>5, <2>2, <2>3, <2>4 DEF HandsApart
<1> QED BY <1>5, <1>6, <1>8, <1>9, <1>10 DEF SelectInv

(* A new queue has selected nothing.                                        *)
LEMMA SelectInit ==
    ASSUME PacedInit
    PROVE  SelectInv
<1>1. QueueKept
    BY IInvInit, NothingDroppedInit DEF PacedInit, QueueKept, Init
<1>2. PaceTypes /\ StampTypes /\ CallsTimed /\ AtFront
    BY NoCallTypes DEF PacedInit, PaceTypes, StampTypes, NoStamp, CallsTimed, AtFront
<1>3. HandsApart
    <2>1. \A t \in Thread : call[t].drops = <<>>
        BY NoCallTypes DEF PacedInit
    <2>2. Lists(<<>>, ToSet(<<>>)) /\ ToSet(<<>>) = {}
        BY EmptySeq DEF Lists, ToSet, IsInjective
    <2>3. held = {}
        BY DEF PacedInit
    <2> QED BY <2>1, <2>2, <2>3 DEF HandsApart, DropsApart
<1> QED BY <1>1, <1>2, <1>3 DEF SelectInv

(* Every step of the paced queue keeps the invariant.                       *)
LEMMA SelectStep ==
    ASSUME SingleOwner, Settled, SelectInv, [PacedNext]_pacedVars
    PROVE  SelectInv'
<1>1. ASSUME UNCHANGED <<vars, stamp, call, held>>, dropLevel' \in Nat
      PROVE  SelectInv'
    <2>1. UNCHANGED <<state, pc, noBlock, calls, dirtyList, isDeleting>>
        BY <1>1 DEF vars, elements, lists, threads, modes
    <2>2. QueueKept'
        BY <1>1, <2>1, IInvStep DEF SelectInv, QueueKept, NothingDropped
    <2> QED BY <1>1, <2>1, <2>2 DEF SelectInv, PaceTypes, StampTypes, CallsTimed, AtFront,
               ReadyInFront, HandsApart, DropsApart
<1>2. CASE UNCHANGED pacedVars
    BY <1>1, <1>2 DEF pacedVars, paceVars, SelectInv, PaceTypes
<1>3. ASSUME NEW t \in Thread, NEW level \in 0..MaxSize - 1, SetDropFrameLevel(t, level)
      PROVE  SelectInv'
    BY <1>1, <1>3 DEF SetDropFrameLevel
<1>4. ASSUME NEW t \in Thread, OtherCall(t), StampFrames
      PROVE  SelectInv'
    <2>1. call[t].at = "none" /\ UNCHANGED <<dropLevel, call>>
        BY <1>4 DEF OtherCall
    <2>2. CASE PlainAcquire(t)
        <3>1. AcquireBuffer(t) /\ held' = held \union {Head(dirtyList)}
            BY <2>2 DEF PlainAcquire
        <3>2. /\ UNCHANGED call \/ (Return(t) /\ call[t].drops = <<>>)
              /\ call[t].at = "none" \/ Return(t)
              /\ UNCHANGED dropLevel
            BY <2>1
        <3> QED BY <1>4, <3>1, <3>2, AcquireSelects, Zenon
    <2>3. ASSUME NEW s \in Buffers, PlainRelease(t, s)
          PROVE  SelectInv'
        BY <1>4, <2>1, <2>3, ReleaseSelects
    <2>4. CASE (ProducerCall(t) \/ ControlCall(t)) /\ UNCHANGED held
        BY <1>4, <2>1, <2>4, QuietSelects
    <2> QED BY <1>4, <2>2, <2>3, <2>4 DEF OtherCall
<1>5. ASSUME NEW t \in Thread, GoOn(t), StampFrames
      PROVE  SelectInv'
    BY <1>5, QuietSelects DEF GoOn
<1>6. ASSUME NEW t \in Thread, AcquireSelected(t), StampFrames
      PROVE  SelectInv'
    BY <1>6, AcquireSelects DEF AcquireSelected, InCall, SelectInv, AtFront, ReadyInFront
<1> QED BY <1>2, <1>3, <1>4, <1>5, <1>6, TimedAcquireSelects, SelectFrameSelects,
           ReleaseDroppedSelects DEF PacedNext

-----------------------------------------------------------------------------
(* What a step may hand to the client: the front frame, through a plain     *)
(* AcquireBuffer or the third lock scope.                                   *)
LEMMA OnlyFrontIsHanded ==
    ASSUME SelectInv, Settled, PacedNext, NEW t \in Thread, InCall(t, "dropTime"),
           NEW s, s \in held' \ held
    PROVE  s = Head(dirtyList)
<1> QED BY DEF PacedNext, TimedAcquire, ReleaseDropped, SelectFrame, AcquireSelected, OtherCall,
               PlainAcquire, PlainRelease, GoOn, SetDropFrameLevel

(* A timed AcquireBuffer returns no frame that is ahead of its time, in a   *)
(* queue with one acquiring thread that is neither resized nor cleaned and  *)
(* takes no frames back: the frame the second lock scope found ready is     *)
(* still in front when the third takes it.                                  *)
THEOREM FramesAreInTime ==
    SingleOwner /\ Settled => (PacedSpec => NeverTooEarly)
<1> SUFFICES ASSUME SingleOwner, Settled PROVE PacedSpec => NeverTooEarly
    OBVIOUS
<1>1. PacedInit => SelectInv
    BY SelectInit
<1>2. SelectInv /\ [PacedNext]_pacedVars => SelectInv'
    BY SelectStep
<1>3. ASSUME SelectInv, PacedNext, NEW t \in Thread, NEW s \in Buffers,
             InCall(t, "dropTime"), s \in held' \ held
      PROVE  ~TooEarly(stamp[s], call[t].expect)
    <2>1. s = Head(dirtyList)
        BY <1>3, OnlyFrontIsHanded
    <2>2. Ready(stamp[s], call[t].expect)
        BY <1>3, <2>1 DEF SelectInv, AtFront, ReadyInFront, InCall
    <2>3. stamp[s].time \in Nat /\ call[t].expect \in Nat /\ OneSecond \in Nat
        BY <1>3, TimeAssumption DEF SelectInv, StampTypes, PaceTypes, TimedCall, Time
    <2> QED BY <2>2, <2>3 DEF Ready, IsPresentTimestampReady, TooEarly
<1>4. SelectInv /\ [PacedNext]_pacedVars
         => [\A t \in Thread, s \in Buffers :
                InCall(t, "dropTime") /\ s \in held' \ held
                   => ~TooEarly(stamp[s], call[t].expect)]_pacedVars
    BY <1>3
<1> QED BY <1>1, <1>2, <1>4, PTL DEF PacedSpec, NeverTooEarly

(* In such a queue a timed AcquireBuffer that got past its check of the     *)
(* front frame returns a frame: it skips none for nothing.                  *)
THEOREM SelectedComesBack ==
    SingleOwner /\ Settled => (PacedSpec => SelectedIsReturned)
<1> SUFFICES ASSUME SingleOwner, Settled PROVE PacedSpec => SelectedIsReturned
    OBVIOUS
<1>1. PacedInit => SelectInv
    BY SelectInit
<1>2. SelectInv /\ [PacedNext]_pacedVars => SelectInv'
    BY SelectStep
<1>3. ASSUME SelectInv, PacedNext, NEW t \in Thread, call[t].at = "dropTime", call'[t].at = "none"
      PROVE  held' # held
    <2>1. AcquireSelected(t)
        <3>1. call \in [Thread -> TimedCall]
            BY <1>3 DEF SelectInv, PaceTypes
        <3>2. call'[t] # call[t]
            BY <1>3
        <3>3. ASSUME NEW u \in Thread, u # t,
                     NEW c, call' = [call EXCEPT ![u] = c]
              PROVE  FALSE
            BY <3>1, <3>2, <3>3
        <3>4. ASSUME NEW u \in Thread, NEW expect, NEW auto, TimedAcquire(u, expect, auto)
              PROVE  FALSE
            BY <1>3, <3>1, <3>3, <3>4 DEF TimedAcquire, InCall
        <3>5. ASSUME NEW u \in Thread, ReleaseDropped(u)
              PROVE  FALSE
            <4>1. call' = [call EXCEPT ![u] = [call[u] EXCEPT !.drops = Tail(call[u].drops)]]
                BY <3>1, <3>5 DEF ReleaseDropped
            <4>2. u = t
                BY <3>1, <3>2, <4>1
            <4>3. call'[t].at = call[t].at
                BY <3>1, <4>1, <4>2 DEF TimedCall
            <4> QED BY <1>3, <4>3
        <3>6. ASSUME NEW u \in Thread, SelectFrame(u)
              PROVE  FALSE
            <4>1. call[u].at = "dropLevel" /\ \E c : call' = [call EXCEPT ![u] = c]
                BY <3>1, <3>6 DEF SelectFrame, InCall, Return, Continue
            <4> QED BY <1>3, <3>3, <4>1
        <3>7. ASSUME NEW u \in Thread, AcquireSelected(u)
              PROVE  u = t
            BY <3>3, <3>7 DEF AcquireSelected, Return
        <3> QED BY <1>3, <3>2, <3>4, <3>5, <3>6, <3>7 DEF PacedNext, OtherCall, GoOn, SetDropFrameLevel
    <2>2. AcquireBuffer(t) /\ held' = held \union {Head(dirtyList)}
        BY <1>3, <2>1 DEF AcquireSelected, SelectInv, AtFront, ReadyInFront
    <2>3. state[Head(dirtyList)] = "FLUSHED"
        BY <1>3, <2>2, FrontTaken DEF SelectInv, QueueKept
    <2>4. Head(dirtyList) \notin held
        BY <1>3, <2>3 DEF SelectInv, HandsApart
    <2> QED BY <2>2, <2>4
<1>4. SelectInv /\ [PacedNext]_pacedVars
         => [\A t \in Thread : call[t].at = "dropTime" /\ call'[t].at = "none"
                => held' # held]_pacedVars
    BY <1>3
<1> QED BY <1>1, <1>2, <1>4, PTL DEF PacedSpec, SelectedIsReturned
=============================================================================
