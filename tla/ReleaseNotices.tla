---------------------------- MODULE ReleaseNotices ----------------------------
(***************************************************************************)
(* Buffers handed out without being asked for.  A producer may register a  *)
(* listener "with sequence and fence": ReleaseBuffer then requests every    *)
(* free buffer on the listener's behalf while it holds mutex_, and hands    *)
(* them to the listener after it let go of it; a buffer the listener        *)
(* refuses is cancelled.  Within one process the refusal comes back; to     *)
(* another process the notice is sent TF_ASYNC and its outcome is lost.     *)
(*                                                                         *)
(* The producer stays connected, its listener's process is the one that is *)
(* connected, and all buffers have one configuration.  Allocation does not *)
(* let go of the lock here: BufferQueue.tla is about that.                  *)
(***************************************************************************)
EXTENDS Naturals, Sequences, SequencesExt

CONSTANTS
    Buffer,         \* sequence numbers
    Releaser,       \* consumer threads that release buffers
    MaxListeners    \* bound: listeners registered in a behaviour

ASSUME ListenersAssumption == MaxListeners \in Nat

VARIABLES
    remote,         \* the producer lives in another process than the queue
    state,          \* state[b] in bufferQueueCache_, "NONE": not there
    freeBuffers,    \* freeList_
    queueListener,  \* producerListener_, a number, 0: none
    withSequence,   \* isOnReleaseBufferWithSequenceAndFence_
    pidKnown,       \* listenerSeqAndFenceCallingPid_ is the connected process's
    kindOf,         \* kindOf[l]: what function listener l still has
    appFunc,        \* funcWithSequenceAndFence_ of the surface is there
    inCache,        \* bufferProducerCache_ of the surface
    registering,    \* how far RegisterReleaseListener or its opposite has got
    releasing,      \* releasing[c]: ReleaseBuffer of thread c after mutex_
    notices,        \* asynchronous notices under way
    held,           \* held[b]: how many times the application has b
    astray          \* history: buffers whose notice met a moment the code leaves open

releaseVars == <<remote, state, freeBuffers, queueListener, withSequence, pidKnown, kindOf, appFunc,
                 inCache, registering, releasing, notices, held, astray>>
clientVars  == <<kindOf, appFunc, inCache>>
listenVars  == <<queueListener, withSequence, pidKnown, registering>>

NoListener == 0
NotReleasing == [at |-> "idle", withSeq |-> FALSE, todo |-> <<>>, listener |-> NoListener]

ReleaseInit ==
    /\ remote \in BOOLEAN
    /\ state = [b \in Buffer |-> "NONE"]
    /\ freeBuffers = <<>>
    /\ queueListener = NoListener /\ withSequence = FALSE /\ pidKnown = FALSE
    /\ kindOf = <<>>
    /\ appFunc = FALSE
    /\ inCache = {}
    /\ registering = "no"
    /\ releasing = [c \in Releaser |-> NotReleasing]
    /\ notices = <<>>
    /\ held = [b \in Buffer |-> 0]
    /\ astray = {}

-----------------------------------------------------------------------------
(* CancelBufferLocked: what is not the producer's stays as it is.           *)
CancelsHanded(b) ==
    IF state[b] = "REQUESTED"
       THEN /\ state' = [state EXCEPT ![b] = "RELEASED"]
            /\ freeBuffers' = Append(freeBuffers, b)
       ELSE UNCHANGED <<state, freeBuffers>>

Noted == {notices[i].b : i \in DOMAIN notices} \union UNION {ToSet(releasing[c].todo) : c \in Releaser}

(* The application asks for a buffer itself: the first free one, or a new.  *)
AppRequests(b) ==
    /\ IF freeBuffers # <<>> THEN b = Head(freeBuffers) /\ freeBuffers' = Tail(freeBuffers)
                             ELSE state[b] = "NONE" /\ b \notin Noted /\ UNCHANGED freeBuffers
    /\ state' = [state EXCEPT ![b] = "REQUESTED"]
    /\ held' = [held EXCEPT ![b] = @ + 1]
    /\ inCache' = inCache \union {b}
    /\ UNCHANGED <<remote, kindOf, appFunc, releasing, notices, astray, listenVars>>

AppFlushes(b) ==
    /\ held[b] > 0
    /\ held' = [held EXCEPT ![b] = @ - 1]
    /\ state' = IF state[b] = "REQUESTED" THEN [state EXCEPT ![b] = "FLUSHED"] ELSE state
    /\ UNCHANGED <<remote, freeBuffers, releasing, notices, astray, listenVars, clientVars>>

AppCancels(b) ==
    /\ held[b] > 0
    /\ held' = [held EXCEPT ![b] = @ - 1]
    /\ CancelsHanded(b)
    /\ UNCHANGED <<remote, releasing, notices, astray, listenVars, clientVars>>

ConsumerAcquires(b) ==
    /\ state[b] = "FLUSHED"
    /\ state' = [state EXCEPT ![b] = "ACQUIRED"]
    /\ UNCHANGED <<remote, freeBuffers, releasing, notices, held, astray, listenVars, clientVars>>

(* The surface's CleanCache empties its cache, then the queue's.            *)
ClientCleans ==
    /\ inCache # {}
    /\ inCache' = {}
    /\ UNCHANGED <<remote, state, freeBuffers, kindOf, appFunc, releasing, notices, held, astray, listenVars>>

QueueCleans ==
    /\ inCache = {}
    /\ state' = [b \in Buffer |-> "NONE"]
    /\ freeBuffers' = <<>>
    /\ held' = [b \in Buffer |-> 0]
    /\ astray' = astray \intersect Noted
    /\ UNCHANGED <<remote, releasing, notices, listenVars, clientVars>>

-----------------------------------------------------------------------------
(* ReleaseBuffer, with mutex_ held.                                         *)
RequestBuffersForListener_LeftFree(free) ==     \* the buffers stay in freeList_ as well
    /\ state' = [b \in Buffer |-> IF b \in ToSet(free) THEN "REQUESTED" ELSE state[b]]
    /\ freeBuffers' = free
RequestBuffersForListener(free) ==
    /\ state' = [b \in Buffer |-> IF b \in ToSet(free) THEN "REQUESTED" ELSE state[b]]
    /\ freeBuffers' = <<>>

ForListener == withSequence /\ pidKnown

ReleasesBuffer(c, b) ==
    /\ releasing[c] = NotReleasing
    /\ state[b] = "ACQUIRED"
    /\ LET free == Append(freeBuffers, b) IN
       /\ IF ForListener THEN RequestBuffersForListener(free)
             ELSE /\ state' = [state EXCEPT ![b] = "RELEASED"]
                  /\ freeBuffers' = free
       /\ releasing' = [releasing EXCEPT ![c] =
             [at |-> "released", withSeq |-> ForListener, listener |-> NoListener,
              todo |-> IF ForListener THEN free ELSE <<>>]]
    /\ UNCHANGED <<remote, notices, held, astray, listenVars, clientVars>>

Goes(c, r) == releasing' = [releasing EXCEPT ![c] = r]
Next1(r)   == IF Len(r.todo) = 1 THEN NotReleasing ELSE [r EXCEPT !.at = "notifying", !.todo = Tail(@)]

(* ListenerBufferReleasedCb samples the listener under its own mutex.  If   *)
(* it has gone, what was requested for it is in nobody's hands.             *)
SamplesListener(c) ==
    /\ releasing[c].at = "released" /\ registering # "pidLeft"
    /\ IF queueListener # NoListener /\ releasing[c].withSeq
          THEN Goes(c, [releasing[c] EXCEPT !.at = "notifying", !.listener = queueListener]) /\ UNCHANGED astray
          ELSE Goes(c, NotReleasing) /\ astray' = astray \union ToSet(releasing[c].todo)
    /\ UNCHANGED <<remote, state, freeBuffers, notices, held, listenVars, clientVars>>

Buf(c) == Head(releasing[c].todo)

(* OnBufferReleasedWithSequenceAndFence of a listener in another process:   *)
(* the request is sent, or the sending fails.                               *)
SendsNotice(c, sent) ==
    /\ releasing[c].at = "notifying" /\ remote
    /\ IF sent THEN /\ notices' = Append(notices, [b |-> Buf(c), l |-> releasing[c].listener])
                    /\ Goes(c, Next1(releasing[c]))
               ELSE Goes(c, [releasing[c] EXCEPT !.at = "refused"]) /\ UNCHANGED notices
    /\ UNCHANGED <<remote, state, freeBuffers, held, astray, listenVars, clientVars>>

(* What the listener and then the surface make of a buffer.                 *)
NoticeOutcomes(b, l) ==
    IF kindOf[l] # "sequence" \/ b \notin inCache THEN {"refused"}
    ELSE IF ~appFunc THEN {"cancelled"}
    ELSE {"taken", "refused"}

CallsListener(c, outcome) ==
    /\ releasing[c].at = "notifying" /\ ~remote
    /\ outcome \in NoticeOutcomes(Buf(c), releasing[c].listener)
    /\ Goes(c, IF outcome = "taken" THEN Next1(releasing[c]) ELSE [releasing[c] EXCEPT !.at = outcome])
    /\ held' = IF outcome = "taken" THEN [held EXCEPT ![Buf(c)] = @ + 1] ELSE held
    /\ UNCHANGED <<remote, state, freeBuffers, notices, astray, listenVars, clientVars>>

(* A surface without a function cancels the buffer and reports an error all *)
(* the same: the queue will cancel it once more, whoever has it by then.    *)
SurfaceCancels(c) ==
    /\ releasing[c].at = "cancelled"
    /\ CancelsHanded(Buf(c))
    /\ Goes(c, [releasing[c] EXCEPT !.at = "refused"])
    /\ astray' = astray \union {Buf(c)}
    /\ UNCHANGED <<remote, notices, held, listenVars, clientVars>>

QueueCancels_Forgets(c) ==      \* an error is only logged
    /\ releasing[c].at = "refused"
    /\ Goes(c, Next1(releasing[c]))
    /\ UNCHANGED <<remote, state, freeBuffers, notices, held, astray, listenVars, clientVars>>
QueueCancels(c) ==
    /\ releasing[c].at = "refused"
    /\ CancelsHanded(Buf(c))
    /\ Goes(c, Next1(releasing[c]))
    /\ UNCHANGED <<remote, notices, held, astray, listenVars, clientVars>>

(* In the other process, later.  A refusal reaches nobody.                  *)
NoticeArrives(outcome) ==
    /\ notices # <<>>
    /\ LET b == Head(notices).b IN
       /\ outcome \in NoticeOutcomes(b, Head(notices).l)
       /\ held' = IF outcome = "taken" THEN [held EXCEPT ![b] = @ + 1] ELSE held
       /\ IF outcome = "cancelled" THEN CancelsHanded(b) ELSE UNCHANGED <<state, freeBuffers>>
       /\ astray' = IF outcome = "refused" THEN astray \union {b} ELSE astray
    /\ notices' = Tail(notices)
    /\ UNCHANGED <<remote, releasing, listenVars, clientVars>>

-----------------------------------------------------------------------------
(* RegisterReleaseListener: the surface, the pid under mutex_, the listener *)
(* under its own mutex.  A listener that is replaced keeps its function.    *)
StartsRegister(kind) ==
    /\ registering = "no" /\ Len(kindOf) < MaxListeners
    /\ kindOf' = Append(kindOf, kind)
    /\ appFunc' = (appFunc \/ kind = "sequence")
    /\ registering' = "pid"
    /\ UNCHANGED <<remote, state, freeBuffers, queueListener, withSequence, pidKnown, inCache,
                   releasing, notices, held, astray>>

SetListenerSeqAndFenceCallingPid ==
    /\ registering = "pid"
    /\ pidKnown' = (Last(kindOf) = "sequence")
    /\ registering' = "listener"
    /\ UNCHANGED <<remote, state, freeBuffers, queueListener, withSequence, releasing, notices, held,
                   astray, clientVars>>

RegisterProducerReleaseListener ==
    /\ registering = "listener"
    /\ queueListener' = Len(kindOf)
    /\ withSequence' = (Last(kindOf) = "sequence")
    /\ registering' = "no"
    /\ UNCHANGED <<remote, state, freeBuffers, pidKnown, releasing, notices, held, astray, clientVars>>

(* UnRegisterReleaseListener resets the last listener's function first; the *)
(* queue keeps the listener's mutex while it waits for mutex_.              *)
StartsUnregister ==
    /\ registering = "no" /\ kindOf # <<>>
    /\ kindOf' = [kindOf EXCEPT ![Len(kindOf)] = "reset"]
    /\ appFunc' = FALSE
    /\ registering' = "unregister"
    /\ UNCHANGED <<remote, state, freeBuffers, queueListener, withSequence, pidKnown, inCache,
                   releasing, notices, held, astray>>

UnRegisterProducerReleaseListener ==
    /\ registering = "unregister"
    /\ queueListener' = NoListener
    /\ withSequence' = FALSE
    /\ registering' = "pidLeft"
    /\ UNCHANGED <<remote, state, freeBuffers, pidKnown, releasing, notices, held, astray, clientVars>>

ClearsPid ==
    /\ registering = "pidLeft"
    /\ pidKnown' = FALSE
    /\ registering' = "no"
    /\ UNCHANGED <<remote, state, freeBuffers, queueListener, withSequence, releasing, notices, held,
                   astray, clientVars>>

ReleaseNext ==
    \/ \E b \in Buffer : AppRequests(b) \/ AppFlushes(b) \/ AppCancels(b) \/ ConsumerAcquires(b)
    \/ ClientCleans \/ QueueCleans
    \/ \E c \in Releaser :
          \/ \E b \in Buffer : ReleasesBuffer(c, b)
          \/ SamplesListener(c)
          \/ \E sent \in BOOLEAN : SendsNotice(c, sent)
          \/ \E outcome \in {"taken", "refused", "cancelled"} : CallsListener(c, outcome)
          \/ SurfaceCancels(c) \/ QueueCancels(c)
    \/ \E outcome \in {"taken", "refused", "cancelled"} : NoticeArrives(outcome)
    \/ \E kind \in {"sequence", "plain"} : StartsRegister(kind)
    \/ SetListenerSeqAndFenceCallingPid \/ RegisterProducerReleaseListener
    \/ StartsUnregister \/ UnRegisterProducerReleaseListener \/ ClearsPid

ReleaseSpec == ReleaseInit /\ [][ReleaseNext]_releaseVars

-----------------------------------------------------------------------------
(* A buffer the release handed to the listener has one user: it is not free *)
(* while the application holds it or its notice is under way, and nobody is *)
(* handed it a second time, however releases, refusals, requests of the     *)
(* application and registrations interleave; except for a buffer that a     *)
(* surface without a function cancelled while the queue would do so too.    *)
UnderWay(b) ==
    \/ \E i \in DOMAIN notices : notices[i].b = b
    \/ \E c \in Releaser : b \in ToSet(releasing[c].todo)

HandedOnce ==
    \A b \in Buffer \ astray :
        /\ held[b] <= 1
        /\ held[b] = 1 => state[b] = "REQUESTED" /\ ~UnderWay(b)
        /\ b \in ToSet(freeBuffers) => state[b] = "RELEASED"

(* A buffer that is out to the producer is with the application or on its   *)
(* way there, so that it comes back one day: a refused buffer is free       *)
(* again; except when the listener was taken away between the request and   *)
(* the notice, or refused in another process (ListenerBufferReleasedCb).    *)
NoneForgotten ==
    \A b \in Buffer \ astray : state[b] = "REQUESTED" => held[b] = 1 \/ UnderWay(b)
=============================================================================
