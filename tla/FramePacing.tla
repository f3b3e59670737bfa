----------------------------- MODULE FramePacing -----------------------------
(***************************************************************************)
(* Acquiring frames by time: AcquireBuffer with an expected present        *)
(* timestamp, over the queue of BufferQueue.tla.  The call runs in three   *)
(* lock scopes.  The first drops frames beyond dropFrameLevel_, the second *)
(* drops frames that a later due frame supersedes and decides whether the  *)
(* front frame is ready, the third is the plain AcquireBuffer; between     *)
(* them the dropped buffers go through ReleaseBuffer one by one, each in a *)
(* lock scope of its own.                                                  *)
(***************************************************************************)
EXTENDS BufferQueueProperties

CONSTANTS
    MaxTime,      \* bound: timestamps are 1..MaxTime
    OneSecond     \* ONE_SECOND_TIMESTAMP

ASSUME TimeAssumption == MaxTime \in Nat \ {0} /\ OneSecond \in Nat

VARIABLES
    stamp,        \* stamp[s]: desiredPresentTimestamp and isAutoTimestamp of frame s
    dropLevel,    \* dropFrameLevel_
    call,         \* call[t]: the timed AcquireBuffer thread t is in
    held          \* the buffers AcquireBuffer has handed to the consumer's client

paceVars  == <<stamp, dropLevel, call, held>>
pacedVars == <<vars, paceVars>>

Time == 1..MaxTime

(* No frame, and no timed call.                                             *)
NoStamp == [time |-> 0, isAuto |-> FALSE]
NoCall  == [at |-> "none", expect |-> 0, auto |-> FALSE, drops |-> <<>>]

PacedInit ==
    /\ Init
    /\ stamp = [s \in Buffers |-> NoStamp]
    /\ dropLevel = 0
    /\ call = [t \in Thread |-> NoCall]
    /\ held = {}

-----------------------------------------------------------------------------
(* The timestamp a flush gives its frame: what the producer wishes, else    *)
(* the frame's own timestamp, else the time of the flush.                   *)
SetDesiredPresentTimestampAndUiTimestamp(desired, ui, now) ==
    IF desired > 0 THEN [time |-> desired, isAuto |-> FALSE]
    ELSE IF desired = 0 /\ ui > 0 THEN [time |-> ui, isAuto |-> FALSE]
    ELSE [time |-> now, isAuto |-> TRUE]

Stamps == {SetDesiredPresentTimestampAndUiTimestamp(d, ui, now) :
              d \in -1..MaxTime, ui \in 0..MaxTime, now \in Time}

(* Timestamps of buffers outside dirtyList_ are never read: forgotten here. *)
NewFrames == {s \in Buffers : state[s] # "FLUSHED" /\ state'[s] = "FLUSHED"}

StampFrames ==
    \E new \in [NewFrames -> Stamps] :
        stamp' = [s \in Buffers |-> IF s \in NewFrames THEN new[s]
                                    ELSE IF state'[s] = "FLUSHED" THEN stamp[s] ELSE NoStamp]

(* A frame up to a second ahead of its time is not ready; one further ahead *)
(* is taken for a wrong timestamp and shown at once.                        *)
IsPresentTimestampReady_AtOneSecond(p, expect) ==
    p.time <= expect \/ p.time - OneSecond >= expect

IsPresentTimestampReady(p, expect) ==
    p.time <= expect \/ p.time - OneSecond > expect

Ready(p, expect) == p.isAuto \/ IsPresentTimestampReady(p, expect)

(* A frame whose time has come; one with an automatic timestamp counts only *)
(* when the caller asks for it.                                             *)
Due(p, a) == (p.isAuto => a.auto) /\ p.time <= a.expect

(* DropFirstDirtyBuffer's loop: the front frame goes as long as it and the  *)
(* one behind it are due.                                                   *)
Superseded_FrontOnly(a) ==
    {i \in 1..Len(dirtyList) - 1 : \A j \in 1..i : Due(stamp[dirtyList[j]], a)}

Superseded(a) ==
    {i \in 1..Len(dirtyList) - 1 : \A j \in 1..i + 1 : Due(stamp[dirtyList[j]], a)}

(* DropBuffersByLevel: how many frames lie before the newest dropLevel.     *)
BeyondLevel == IF dropLevel > 0 /\ Len(dirtyList) > dropLevel
               THEN Len(dirtyList) - dropLevel ELSE 0

(* The n oldest frames leave dirtyList_, to be released.                    *)
Oldest(n) == SubSeq(dirtyList, 1, n)

DropOldest_OneTooMany(n) ==
    /\ state' = [s \in Buffers |-> IF s \in ToSet(Oldest(n + 1)) THEN "ACQUIRED" ELSE state[s]]
    /\ dirtyList' = SubSeq(dirtyList, n + 2, Len(dirtyList))
    /\ UNCHANGED <<isDeleting, isPreAlloc, config, freeList, deletingList, sizes, allocating,
                   modes, last, threads, notified>>

DropOldest(n) ==
    /\ state' = [s \in Buffers |-> IF s \in ToSet(Oldest(n)) THEN "ACQUIRED" ELSE state[s]]
    /\ dirtyList' = SubSeq(dirtyList, n + 1, Len(dirtyList))
    /\ UNCHANGED <<isDeleting, isPreAlloc, config, freeList, deletingList, sizes, allocating,
                   modes, last, threads, notified>>

InCall(t, where) == Idle(t) /\ call[t].at = where
Return(t)        == call' = [call EXCEPT ![t] = NoCall]
Continue(t, where, n) ==
    call' = [call EXCEPT ![t].at = where, ![t].drops = Oldest(n)]

(* The first lock scope.                                                    *)
TimedAcquire(t, expect, auto) ==
    /\ InCall(t, "none")
    /\ "TimedAcquire" \in calls[t]
    /\ dirtyList # <<>>
    /\ DropOldest(BeyondLevel)
    /\ call' = [call EXCEPT ![t] = [at |-> "dropLevel", expect |-> expect, auto |-> auto,
                                    drops |-> Oldest(BeyondLevel)]]
    /\ UNCHANGED <<dropLevel, held>>

(* ReleaseDropBuffers, one buffer at a time; a failing release is logged.   *)
ReleaseDropped(t) ==
    /\ call[t].at # "none" /\ Idle(t) /\ call[t].drops # <<>>
    /\ LET s == Head(call[t].drops)
       IN  IF state[s] \in {"ACQUIRED", "ATTACHED"} THEN ReleaseBuffer(t, s) ELSE UNCHANGED vars
    /\ call' = [call EXCEPT ![t].drops = Tail(@)]
    /\ UNCHANGED <<dropLevel, held>>

(* The second lock scope.  When it returns without a frame, it does so      *)
(* without releasing what it dropped.                                       *)
SelectFrame(t) ==
    LET a == call[t]
        front == stamp[Head(dirtyList)]
        n == Max({0} \union Superseded(a))
        next == stamp[dirtyList[n + 1]]
    IN  /\ InCall(t, "dropLevel") /\ a.drops = <<>>
        /\ IF dirtyList = <<>> \/ ~Ready(front, a.expect)
           THEN Return(t) /\ UNCHANGED vars
           ELSE /\ DropOldest(n)
                /\ IF Ready(next, a.expect) THEN Continue(t, "dropTime", n) ELSE Return(t)
        /\ UNCHANGED <<dropLevel, held>>

(* The third: whatever is at the front by now is the frame.                 *)
AcquireSelected(t) ==
    /\ InCall(t, "dropTime") /\ call[t].drops = <<>>
    /\ IF dirtyList = <<>>
       THEN UNCHANGED <<vars, held>>
       ELSE AcquireBuffer(t) /\ held' = held \union {Head(dirtyList)}
    /\ Return(t)
    /\ UNCHANGED dropLevel

SetDropFrameLevel(t, level) ==
    /\ InCall(t, "none")
    /\ "SetDropFrameLevel" \in calls[t]
    /\ dropLevel' = level
    /\ UNCHANGED <<vars, stamp, call, held>>

(* Any other call of the queue.  The client releases what it was handed.    *)
PlainAcquire(t) == AcquireBuffer(t) /\ held' = held \union {Head(dirtyList)}
PlainRelease(t, s) == s \in held /\ ReleaseBuffer(t, s) /\ held' = held \ {s}

OtherCall(t) ==
    /\ call[t].at = "none"
    /\ \/ PlainAcquire(t)
       \/ \E s \in Buffers : PlainRelease(t, s)
       \/ (ProducerCall(t) \/ ControlCall(t)) /\ UNCHANGED held
    /\ UNCHANGED <<dropLevel, call>>

GoOn(t) == Step(t) /\ UNCHANGED <<dropLevel, call, held>>

PacedNext ==
    \E t \in Thread :
        \/ /\ \/ \E expect \in Time, auto \in BOOLEAN : TimedAcquire(t, expect, auto)
              \/ ReleaseDropped(t)
              \/ SelectFrame(t)
              \/ AcquireSelected(t)
              \/ OtherCall(t)
              \/ GoOn(t)
           /\ StampFrames
        \/ \E level \in 0..MaxSize - 1 : SetDropFrameLevel(t, level)

PacedSpec == PacedInit /\ [][PacedNext]_pacedVars

-----------------------------------------------------------------------------
(* A buffer dropped by level or by time is on its way back to the queue as  *)
(* long as it is not back: whatever AcquireBuffer returns, it leaves no     *)
(* buffer ACQUIRED that no client holds.  A buffer lost this way would      *)
(* never be lent to the producer again.                                     *)
DroppedAreReleased ==
    \A s \in Buffers : state[s] = "ACQUIRED" =>
        s \in held \/ \E t \in Thread : s \in ToSet(call[t].drops)

(* "The buffer should wait until desiredPresentTimestamp is reached before  *)
(* being consumed and displayed" (buffer_queue.h:62): a timed AcquireBuffer *)
(* never returns a frame whose wished time is still ahead, unless it is     *)
(* more than a second ahead.                                                *)
TooEarly(p, expect) == ~p.isAuto /\ expect < p.time /\ p.time <= expect + OneSecond

NeverTooEarly ==
    [][\A t \in Thread, s \in Buffers :
          InCall(t, "dropTime") /\ s \in held' \ held
             => ~TooEarly(stamp[s], call[t].expect)]_pacedVars

(* "If multiple buffers reach desiredPresentTimestamp, the earlier buffer   *)
(* should be dropped" (buffer_queue.h:63), and only in favour of a later    *)
(* one: a timed AcquireBuffer that got past its check of the front frame    *)
(* does not return without a frame, or a frame would be skipped for none.   *)
SelectedIsReturned ==
    [][\A t \in Thread :
          call[t].at = "dropTime" /\ call'[t].at = "none" => held' # held]_pacedVars
=============================================================================
