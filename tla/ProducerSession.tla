--------------------------- MODULE ProducerSession ---------------------------
(***************************************************************************)
(* The producers' side of the queue across processes: each ProducerSurface *)
(* with its cache of buffers, the connection BufferQueueProducer grants to *)
(* one process at a time, the death of that process, and the flag that     *)
(* makes the queue send every buffer anew.                                 *)
(*                                                                         *)
(* A client's call is a message to the server, the server's critical       *)
(* sections, which are those of BufferQueue.tla, and a reply the client    *)
(* reads.  The thread that serves the call stands for the client's thread  *)
(* too.  A call keeps ProducerSurface::mutex_ from its first step to its   *)
(* last where the code does.                                               *)
(***************************************************************************)
EXTENDS BufferQueueProperties

CONSTANTS
    Surface,      \* the ProducerSurface objects
    ProcessOf,    \* ProcessOf[f]: the process surface f lives in
    SurfaceOf     \* SurfaceOf[t]: the surface thread t calls through; NULL: none

Process == {ProcessOf[f] : f \in Surface}

ASSUME SurfaceAssumption ==
    /\ NULL \notin Surface
    /\ SurfaceOf \in [Thread -> Surface \union {NULL}]
    /\ DOMAIN ProcessOf = Surface /\ NULL \notin {ProcessOf[f] : f \in Surface}

VARIABLES
    cache,        \* cache[f]: bufferProducerCache_
    stale,        \* stale[f]: the cached entries whose number a new buffer took
    hands,        \* hands[f]: the buffers RequestBuffer has given to the application
    offline,      \* offline[f]: isDisconnected_ of the surface
    call,         \* call[t]: the client's call thread t works on
    connected,    \* connectedPid_: a process, or NULL
    strict,       \* isDisconnectStrictly_
    token,        \* token_: the process whose death the producer is told of
    dead,         \* the processes that have died
    notices,      \* deaths the binder driver has yet to report
    cleanFlag,    \* producerCacheClean_
    cleanList,    \* producerCacheList_, as a set
    attachFlag,   \* the buffers whose ConsumerAttachBufferFlag is set
    cleared       \* the numbers whose buffers the queue dropped without a word

clientVars  == <<cache, stale, hands, offline>>
serverVars  == <<connected, strict, token, notices>>
resendVars  == <<cleanFlag, cleanList, attachFlag>>
sessionVars == <<vars, clientVars, call, serverVars, dead, resendVars, cleared>>

(* What a call of the client is doing, and what it carries: the granted     *)
(* buffer, whether the reply holds the buffer itself, the deleted buffers   *)
(* the reply names, and whether the grant deletes a buffer for a new one.   *)
NoCall     == [at |-> "none", seq |-> NULL, full |-> FALSE, del |-> {}, realloc |-> FALSE]
CallAt(at) == [NoCall EXCEPT !.at = at]

(* Steps of a call at which the server is still to act, and at which the    *)
(* client is to read a reply; those at which the surface's mutex_ is held.  *)
ReplyAt == {"granted", "refused", "failed", "noConsumer", "cleaned", "disconnected", "connected",
            "freed"}
LockedAt == {"connect", "queue", "flagWait", "granted", "refused", "failed", "noConsumer",
             "clean", "cleaning", "cleaned", "disconnect", "disconnecting", "disconnected",
             "connectOnly", "connected"}

SessionInit ==
    /\ Init
    /\ cache = [f \in Surface |-> {}] /\ stale = [f \in Surface |-> {}]
    /\ hands = [f \in Surface |-> {}] /\ offline = [f \in Surface |-> TRUE]
    /\ call = [t \in Thread |-> NoCall]
    /\ connected = NULL /\ strict = FALSE /\ dead = {} /\ notices = {}
    /\ token \in Process
    /\ cleanFlag = FALSE /\ cleanList = {} /\ attachFlag = {} /\ cleared = {}

-----------------------------------------------------------------------------
Caller(t) == SurfaceOf[t]
Pid(t)    == ProcessOf[SurfaceOf[t]]
At(t, at) == call[t].at = at
Go(t, at) == call' = [call EXCEPT ![t].at = at]
Done(t)   == call' = [call EXCEPT ![t] = NoCall]

MutexHeld(f) == \E t \in Thread : SurfaceOf[t] = f /\ call[t].at \in LockedAt

(* A live client thread that is between two calls begins one.               *)
Begins(t, op) ==
    /\ op \in calls[t]
    /\ Idle(t) /\ At(t, "none")
    /\ Caller(t) \in Surface /\ Pid(t) \notin dead

BeginsLocked(t, op) == Begins(t, op) /\ ~MutexHeld(Caller(t))

CallerReads(t, at) == At(t, at) /\ Idle(t) /\ Pid(t) \notin dead

(* CheckConnectLocked, and the checks of Connect.                           *)
CheckConnect(t) == connected = Pid(t)

MayConnect_AnyProcess(t) == ~strict

MayConnect(t) == connected \in {NULL, Pid(t)} /\ ~strict

-----------------------------------------------------------------------------
(* What the queue's own steps mean for the clients.                         *)

(* New buffers in this step.  The numbers are handed out round robin from   *)
(* 2^16: none comes back while a reply is under way, but a cache may hold   *)
(* an entry that long.  A buffer of that number an application still holds  *)
(* the queue dropped long ago, and would refuse it.                         *)
Fresh(t) == IF pc[t] \in {"alloc", "preAlloc"}
            THEN {s \in Buffers : state[s] = "NONE" /\ state'[s] # "NONE"} ELSE {}

NumbersNotInUse(t) ==
    \A s \in Fresh(t), u \in Thread : call[u].seq # s

(* The buffer this step grants to the caller.                               *)
GrantedBy(t) == {s \in Buffers : state[s] # "REQUESTED" /\ state'[s] = "REQUESTED"}

(* Dropped without telling the producer: what does not join deletingList_,  *)
(* and what a clean, or a request on the listener's behalf, takes off it.   *)
(* The reply to the producer's own request takes the whole list along.      *)
Silently(t) ==
    {s \in Buffers : state[s] # "NONE" /\ state'[s] = "NONE" /\ s \notin deletingList'}
        \union (IF At(t, "queue") /\ GrantedBy(t) # {} THEN {} ELSE deletingList \ deletingList')

Drops(t) == cleared' = (cleared \union Silently(t)) \ Fresh(t)

Tracks(t) ==
    /\ NumbersNotInUse(t)
    /\ stale' = [f \in Surface |-> stale[f] \union (cache[f] \intersect Fresh(t))]
    /\ hands' = [f \in Surface |-> hands[f] \ Fresh(t)]
    /\ Drops(t)

(* A buffer is sent itself when the client cannot know it: it is new, the   *)
(* cache is to be filled again, or nobody sent it before.                   *)
NeverSent(t, s) == s \in Fresh(t) \/ s \in isPreAlloc

SentWhole(t, s) == NeverSent(t, s) \/ cleanFlag \/ s \in attachFlag

(* The step deletes a buffer to allocate one with the new configuration.    *)
Reallocates(t) == pc'[t] = "alloc" /\ \E s \in Buffers : state[s] # "NONE" /\ state'[s] = "NONE"

(* UpdateReuseBufferState with producerCacheClean_: the flag goes when all  *)
(* cached buffers have been sent, after any allocation in flight.           *)
Listed(t, s) == cleanList \union {s}
Reused(t, s) == s \notin Fresh(t) \/ call[t].realloc

Resend(t, s) ==
    LET counts == cleanFlag /\ Reused(t, s)
        all == {u \in Buffers : state'[u] # "NONE"} \subseteq Listed(t, s)
    IN  /\ attachFlag' = attachFlag \ {s}
        /\ cleanFlag' = (cleanFlag /\ ~(counts /\ all /\ ~allocating'))
        /\ cleanList' = IF ~counts THEN cleanList
                        ELSE IF all /\ ~allocating' THEN {} ELSE Listed(t, s)

WaitsForFlag(t, s) ==
    /\ cleanFlag /\ Reused(t, s) /\ allocating'
    /\ {u \in Buffers : state'[u] # "NONE"} \subseteq Listed(t, s)

(* The reply to RequestBuffer, when a step of the queue ends the call.      *)
Answer(t) ==
    \/ /\ pc'[t] # "idle"
       /\ call' = [call EXCEPT ![t].realloc = @ \/ Reallocates(t)]
       /\ UNCHANGED resendVars
    \/ /\ pc'[t] = "idle" /\ GrantedBy(t) = {}
       /\ call' = [call EXCEPT ![t] = CallAt(IF valid THEN "failed" ELSE "noConsumer")]
       /\ UNCHANGED resendVars
    \/ /\ pc'[t] = "idle"
       /\ \E s \in GrantedBy(t) :
             /\ call' = [call EXCEPT ![t] =
                           [at |-> IF WaitsForFlag(t, s) THEN "flagWait" ELSE "granted",
                            seq |-> s, full |-> SentWhole(t, s), del |-> deletingList,
                            realloc |-> FALSE]]
             /\ Resend(t, s)

-----------------------------------------------------------------------------
(* RequestBuffer.                                                           *)
ClientRequest(t) ==
    /\ BeginsLocked(t, "RequestBuffer")
    /\ call' = [call EXCEPT ![t] = CallAt("connect")]
    /\ UNCHANGED <<vars, clientVars, serverVars, dead, resendVars, cleared>>

(* BufferQueueProducer::Connect, first thing in every RequestBuffer.        *)
ServerConnects(t) ==
    /\ At(t, "connect")
    /\ IF MayConnect(t)
       THEN connected' = Pid(t) /\ Go(t, "queue")
       ELSE Go(t, "refused") /\ UNCHANGED connected
    /\ UNCHANGED <<vars, clientVars, strict, token, notices, dead, resendVars, cleared>>

QueueRequest(t) ==
    /\ At(t, "queue") /\ Idle(t)
    /\ \/ RequestBuffer(t) /\ Answer(t) /\ Tracks(t)
       \/ /\ ~valid
          /\ Go(t, "noConsumer")
          /\ UNCHANGED <<vars, stale, hands, resendVars, cleared>>
    /\ UNCHANGED <<cache, offline, serverVars, dead>>

(* AddCacheLocked: a buffer that came without its body is looked up in the  *)
(* cache, and fetched with all others of the queue when it is not there.    *)
(* The deleted buffers leave the cache last.                                *)
Synced_Never(c) == {}

Synced(c) == Cached

Misses(t) == ~call[t].full /\ call[t].seq \notin cache[Caller(t)]

(* What the cache holds before the deleted buffers leave it.                *)
Filled(t) ==
    IF call[t].full THEN cache[Caller(t)] \union {call[t].seq}
    ELSE IF Misses(t) THEN cache[Caller(t)] \union Synced(call[t])
    ELSE cache[Caller(t)]

(* The entries just received are the queue's own.                           *)
Renewed(t) == IF call[t].full THEN {call[t].seq} ELSE IF Misses(t) THEN Synced(call[t]) ELSE {}

Forget_Undeleted(t, c) == c

Forget(t, c) == c \ call[t].del

ClientGranted(t) ==
    LET f == Caller(t)
        s == call[t].seq
    IN  /\ CallerReads(t, "granted")
        /\ cache' = [cache EXCEPT ![f] = Forget(t, Filled(t))]
        /\ stale' = [stale EXCEPT ![f] = (@ \ Renewed(t)) \intersect Forget(t, Filled(t))]
        /\ hands' = [hands EXCEPT ![f] = IF s \in Filled(t) THEN @ \union {s} ELSE @]
        /\ offline' = [offline EXCEPT ![f] = FALSE]
        /\ Done(t)
        /\ UNCHANGED <<vars, serverVars, dead, resendVars, cleared>>

(* A failed request: the surface notes that the server is connected when it *)
(* got that far.                                                            *)
ClientFailed(t) ==
    /\ CallerReads(t, "failed") \/ CallerReads(t, "refused")
    /\ offline' = [offline EXCEPT ![Caller(t)] = @ /\ At(t, "refused")]
    /\ Done(t)
    /\ UNCHANGED <<vars, cache, stale, hands, serverVars, dead, resendVars, cleared>>

(* GSERROR_NO_CONSUMER: CleanCacheLocked(false).                            *)
ClientNoConsumer(t) ==
    /\ CallerReads(t, "noConsumer")
    /\ offline' = [offline EXCEPT ![Caller(t)] = FALSE]
    /\ call' = [call EXCEPT ![t] = CallAt("clean")]
    /\ UNCHANGED <<vars, cache, stale, hands, serverVars, dead, resendVars, cleared>>

-----------------------------------------------------------------------------
(* CleanCache, Disconnect and Connect.                                      *)
Empties(f) == /\ cache' = [cache EXCEPT ![f] = {}]
              /\ stale' = [stale EXCEPT ![f] = {}]

ClientCleanCache(t) ==
    /\ BeginsLocked(t, "ClientCleanCache")
    /\ Go(t, "clean")
    /\ UNCHANGED <<vars, clientVars, serverVars, dead, resendVars, cleared>>

(* The server checks the connection, then empties the queue.                *)
ServerCleans(t) ==
    /\ At(t, "clean")
    /\ Go(t, IF CheckConnect(t) THEN "cleaning" ELSE "cleaned")
    /\ UNCHANGED <<vars, clientVars, serverVars, dead, resendVars, cleared>>

(* CleanCache of the queue on behalf of a call, for as long as it waits.    *)
CleansUnder(t, at, next) ==
    /\ At(t, at)
    /\ \/ Idle(t) /\ CleanCache(t)
       \/ ClearAfterAlloc(t)
    /\ IF pc'[t] = "idle" THEN Go(t, next) ELSE UNCHANGED call
    /\ Tracks(t)
    /\ UNCHANGED <<cache, offline, serverVars, dead, resendVars>>

(* The cache goes whatever the server said.                                 *)
ClientCleaned(t) ==
    /\ CallerReads(t, "cleaned")
    /\ Empties(Caller(t))
    /\ Done(t)
    /\ UNCHANGED <<vars, hands, offline, serverVars, dead, resendVars, cleared>>

ClientDisconnect(t) ==
    /\ BeginsLocked(t, "Disconnect")
    /\ ~offline[Caller(t)]
    /\ Go(t, "disconnect")
    /\ UNCHANGED <<vars, clientVars, serverVars, dead, resendVars, cleared>>

ServerDisconnects(t) ==
    /\ At(t, "disconnect")
    /\ IF CheckConnect(t)
       THEN connected' = NULL /\ Go(t, "disconnecting")
       ELSE Go(t, "cleaned") /\ UNCHANGED connected
    /\ UNCHANGED <<vars, clientVars, strict, token, notices, dead, resendVars, cleared>>

ClientDisconnected(t) ==
    /\ CallerReads(t, "disconnected")
    /\ offline' = [offline EXCEPT ![Caller(t)] = TRUE]
    /\ Empties(Caller(t))
    /\ Done(t)
    /\ UNCHANGED <<vars, hands, serverVars, dead, resendVars, cleared>>

ClientConnect(t) ==
    /\ BeginsLocked(t, "Connect")
    /\ offline[Caller(t)]
    /\ Go(t, "connectOnly")
    /\ UNCHANGED <<vars, clientVars, serverVars, dead, resendVars, cleared>>

ServerConnectsOnly(t) ==
    /\ At(t, "connectOnly")
    /\ IF MayConnect(t)
       THEN connected' = Pid(t) /\ Go(t, "connected")
       ELSE Go(t, "refused") /\ UNCHANGED connected
    /\ UNCHANGED <<vars, clientVars, strict, token, notices, dead, resendVars, cleared>>

ClientConnected(t) ==
    /\ CallerReads(t, "connected")
    /\ offline' = [offline EXCEPT ![Caller(t)] = FALSE]
    /\ Done(t)
    /\ UNCHANGED <<vars, cache, stale, hands, serverVars, dead, resendVars, cleared>>

(* ConnectStrictly and DisconnectStrictly only set the server's flag.       *)
SetStrictly(t, yes) ==
    /\ BeginsLocked(t, IF yes THEN "DisconnectStrictly" ELSE "ConnectStrictly")
    /\ strict' = yes
    /\ UNCHANGED <<vars, clientVars, call, connected, token, notices, dead, resendVars, cleared>>

-----------------------------------------------------------------------------
(* GoBackground: the surface empties its cache, and lets go of its mutex    *)
(* before the server makes the queue send every buffer again.               *)
ClientBackground(t) ==
    /\ BeginsLocked(t, "GoBackground")
    /\ Empties(Caller(t))
    /\ Go(t, "background")
    /\ UNCHANGED <<vars, hands, offline, serverVars, dead, resendVars, cleared>>

ServerBackground(t) ==
    /\ At(t, "background")
    /\ IF CheckConnect(t) THEN Go(t, "setFlag") ELSE Done(t)
    /\ UNCHANGED <<vars, clientVars, serverVars, dead, resendVars, cleared>>

(* SetProducerCacheCleanFlagLocked waits for an allocation in flight with    *)
(* mutex_ released.  It is called to set the flag, by a consumer going      *)
(* background to take it back, and by UpdateReuseBufferState, which then    *)
(* writes the element through operator[]: that makes an empty one when a    *)
(* clean has erased it meanwhile.                                           *)
SetProducerCacheCleanFlagLocked(t) ==
    /\ call[t].at \in {"setFlag", "flagToo", "flagWait"} /\ ~allocating
    /\ cleanFlag' = At(t, "setFlag") /\ cleanList' = {}
    /\ IF At(t, "flagWait")
       THEN /\ Go(t, "granted")
            /\ state' = [state EXCEPT ![call[t].seq] = IF @ = "NONE" THEN "RELEASED" ELSE @]
       ELSE Done(t) /\ UNCHANGED state
    /\ UNCHANGED <<isDeleting, isPreAlloc, config, lists, deletingList, sizes, allocating, modes,
                   last, threads, notified, clientVars, serverVars, dead, attachFlag, cleared>>

(* CleanReleasedBuffers: the freed buffers leave the cache afterwards.      *)
ClientFrees(t) ==
    /\ Begins(t, "ClientCleanReleased")
    /\ Go(t, "free")
    /\ UNCHANGED <<vars, clientVars, serverVars, dead, resendVars, cleared>>

ServerFrees(t) ==
    /\ At(t, "free") /\ Idle(t)
    /\ IF CheckConnect(t) /\ freeList # <<>>
       THEN /\ CleanReleasedBuffers(t)
            /\ call' = [call EXCEPT ![t].at = IF pc'[t] = "idle" THEN "freed" ELSE "freeing",
                                    ![t].del = Silently(t)]
            /\ Tracks(t)
       ELSE Done(t) /\ UNCHANGED <<vars, stale, hands, cleared>>
    /\ UNCHANGED <<cache, offline, serverVars, dead, resendVars>>

ServerFreesAfterAlloc(t) ==
    /\ At(t, "freeing")
    /\ CleanReleasedAfterAlloc(t)
    /\ call' = [call EXCEPT ![t].at = "freed", ![t].del = Silently(t)]
    /\ Tracks(t)
    /\ UNCHANGED <<cache, offline, serverVars, dead, resendVars>>

ClientFreed(t) ==
    LET f == Caller(t)
    IN  /\ CallerReads(t, "freed")
        /\ ~MutexHeld(f)
        /\ cache' = [cache EXCEPT ![f] = @ \ call[t].del]
        /\ stale' = [stale EXCEPT ![f] = @ \ call[t].del]
        /\ Done(t)
        /\ UNCHANGED <<vars, hands, offline, serverVars, dead, resendVars, cleared>>

-----------------------------------------------------------------------------
(* FlushBuffer and CancelBuffer of a buffer the application holds.  They do *)
(* not ask who is connected; a flush is refused after DisconnectStrictly.   *)
ClientReturns(t, s) ==
    /\ Caller(t) \in Surface /\ s \in hands[Caller(t)]
    /\ \/ Begins(t, "FlushBuffer") /\ ~strict /\ FlushBuffer(t, s)
       \/ Begins(t, "CancelBuffer") /\ CancelBuffer(t, s)
    /\ hands' = [hands EXCEPT ![Caller(t)] = @ \ {s}]
    /\ Drops(t)
    /\ UNCHANGED <<cache, stale, offline, call, serverVars, dead, resendVars>>

-----------------------------------------------------------------------------
(* A producer's process dies.  What it had sent is still carried out; what  *)
(* is on the way back is lost.                                              *)
Bereft(var, p) == [f \in Surface |-> IF ProcessOf[f] = p THEN {} ELSE var[f]]

Dies(p) ==
    /\ \E t \in Thread : "Dies" \in calls[t]
    /\ p \notin dead
    /\ dead' = dead \union {p}
    /\ notices' = IF token = p THEN notices \union {p} ELSE notices
    /\ cache' = Bereft(cache, p) /\ stale' = Bereft(stale, p) /\ hands' = Bereft(hands, p)
    /\ UNCHANGED <<vars, offline, call, connected, strict, token, resendVars, cleared>>

(* With every producer dead and nothing left to do the system rests.        *)
NobodyLeft == dead = Process /\ UNCHANGED sessionVars

ReplyLost(t) ==
    /\ call[t].at \in ReplyAt /\ Pid(t) \in dead
    /\ Done(t)
    /\ UNCHANGED <<vars, clientVars, serverVars, dead, resendVars, cleared>>

(* OnRemoteDied and OnBufferProducerRemoteDied: whoever is connected is     *)
(* disconnected, then the queue is emptied.                                 *)
OnRemoteDied(t, p) ==
    /\ "Dies" \in calls[t] /\ Idle(t) /\ At(t, "none")
    /\ p \in notices
    /\ notices' = notices \ {p}
    /\ connected' = NULL
    /\ IF connected # NULL THEN Go(t, "burying") ELSE UNCHANGED call
    /\ UNCHANGED <<vars, clientVars, strict, token, dead, resendVars, cleared>>

-----------------------------------------------------------------------------
(* The queue's own process.                                                 *)

(* What RequestBuffersForListenerLocked requests: nothing while the cache   *)
(* is to be filled again, and no buffer the producer would have to be sent. *)
(* Only the connected process has the listener, which nobody asks again     *)
(* after the wait of the first request.  The buffers stay requested here:   *)
(* ReleaseNotices has what becomes of them.                                 *)
ServesListener(t) ==
    GrantedBy(t) # {} =>
        /\ ~cleanFlag /\ GrantedBy(t) \intersect attachFlag = {}
        /\ connected # NULL \/ pc[t] = "releaseAsks"

(* The consumer's buffers carry a flag the consumer sets before it attaches *)
(* them and takes off before it detaches them, whether or not it can.  It   *)
(* may attach any buffer; one whose number a cache holds is the same.       *)
ConsumerCalls(t) ==
    /\ Caller(t) = NULL /\ At(t, "none")
    /\ \/ AcquireBuffer(t) /\ UNCHANGED attachFlag
       \/ \E s \in Buffers :
             \/ ReleaseUnlistened(t, s) /\ UNCHANGED attachFlag
             \/ connected # NULL /\ ReleaseToListener(t, s) /\ ServesListener(t)
                /\ UNCHANGED attachFlag
             \/ AttachBufferToQueue(t, s, "Consumer") /\ attachFlag' = attachFlag \union {s}
             \/ /\ Enters(t, "ConsumerAttachBufferToQueue")
                /\ state[s] # "NONE" \/ Used >= queueSize
                /\ attachFlag' = attachFlag \union {s}
                /\ UNCHANGED vars
             \/ ConsumerDetach(t, s, FALSE) /\ attachFlag' = attachFlag \ {s}
             \/ /\ Enters(t, "ConsumerDetachBufferFromQueue")
                /\ state[s] \notin {"NONE", "ACQUIRED"}
                /\ attachFlag' = attachFlag \ {s}
                /\ UNCHANGED vars
    /\ Tracks(t)
    /\ UNCHANGED <<cache, offline, call, serverVars, dead, cleanFlag, cleanList>>

(* The consumer's CleanCache and GoBackground and its death, which clear    *)
(* the queue; GoBackground takes the flag back too.                         *)
OwnerCalls(t) ==
    /\ Caller(t) = NULL /\ At(t, "none")
    /\ \/ SetStatus(t)
       \/ \E c \in Configs : PreAllocBuffers(t, 1, c)
       \/ \E S \in SUBSET Buffers : CleanProducerBySeqNum(t, S)
    /\ Tracks(t)
    /\ UNCHANGED <<cache, offline, call, serverVars, dead, resendVars>>

OwnerCleans(t, background) ==
    /\ "OwnerClean" \in calls[t] /\ Idle(t) /\ At(t, "none")
    /\ Go(t, IF background THEN "goingBackground" ELSE "burying")
    /\ UNCHANGED <<vars, clientVars, serverVars, dead, resendVars, cleared>>

-----------------------------------------------------------------------------
(* A call that is inside the queue goes on.                                 *)
GoesOn(t) ==
    /\ \/ At(t, "queue") /\ RequestStep(t) /\ Answer(t)
       \/ At(t, "none") /\ Step(t) /\ ServesListener(t) /\ UNCHANGED <<call, resendVars>>
    /\ Tracks(t)
    /\ UNCHANGED <<cache, offline, serverVars, dead>>

Requests(t) == \/ ClientRequest(t)  \/ ServerConnects(t) \/ QueueRequest(t)
               \/ ClientGranted(t)  \/ ClientFailed(t)   \/ ClientNoConsumer(t)

Cleans(t) == \/ ClientCleanCache(t) \/ ServerCleans(t)
             \/ CleansUnder(t, "cleaning", "cleaned")
             \/ CleansUnder(t, "disconnecting", "disconnected")
             \/ CleansUnder(t, "burying", "none")
             \/ CleansUnder(t, "goingBackground", "flagToo")
             \/ ClientCleaned(t)
             \/ ClientFrees(t)      \/ ServerFrees(t) \/ ServerFreesAfterAlloc(t) \/ ClientFreed(t)

Connects(t) == \/ ClientDisconnect(t) \/ ServerDisconnects(t)  \/ ClientDisconnected(t)
               \/ ClientConnect(t)    \/ ServerConnectsOnly(t) \/ ClientConnected(t)
               \/ \E yes \in BOOLEAN : SetStrictly(t, yes)
               \/ ClientBackground(t) \/ ServerBackground(t)   \/ SetProducerCacheCleanFlagLocked(t)

SessionNext ==
    \/ NobodyLeft
    \/ \E p \in Process : Dies(p)
    \/ \E t \in Thread :
          \/ Requests(t) \/ Cleans(t) \/ Connects(t) \/ GoesOn(t) \/ ReplyLost(t)
          \/ \E s \in Buffers : ClientReturns(t, s)
          \/ \E p \in Process : OnRemoteDied(t, p)
          \/ ConsumerCalls(t) \/ OwnerCalls(t)
          \/ \E background \in BOOLEAN : OwnerCleans(t, background)

SessionSpec == SessionInit /\ [][SessionNext]_sessionVars

-----------------------------------------------------------------------------
(* "When the IPC returns an empty buffer, look in the local cache or        *)
(* synchronise": RequestBuffer never hands the application another buffer   *)
(* than the one the queue granted, and none only when the queue has dropped *)
(* that buffer since.  The cache may hold an old buffer of the same number, *)
(* may have been emptied while the reply was under way, or may have lost    *)
(* the entry to a deletion the queue had recorded before it.                *)
GrantIsUsable ==
    \A t \in Thread :
        At(t, "granted") /\ Pid(t) \notin dead /\ state[call[t].seq] = "REQUESTED" =>
            /\ call[t].seq \in Filled(t)
            /\ call[t].seq \notin stale[Caller(t)] \/ call[t].seq \in Renewed(t)

(* A buffer the queue deleted does not stay in the cache of the connected   *)
(* surface unannounced: the number is on deletingList_ or in a reply on its *)
(* way.  Two things drop a number without a word: a clean of the whole      *)
(* queue, of which no producer but the one that asked for it is told, and   *)
(* the request on behalf of the listener in ReleaseBuffer, which empties    *)
(* deletingList_ into an answer nobody reads.  Nor does a surface learn of  *)
(* what another surface of its process was told.                            *)
Sole(f) ==
    \A t \in Thread :
        calls[t] # {} /\ Caller(t) \in Surface /\ ProcessOf[Caller(t)] = ProcessOf[f]
            => Caller(t) = f

DeletionsReachClient ==
    \A f \in Surface :
        connected = ProcessOf[f] /\ Sole(f) =>
            cache[f] \subseteq
                Cached \union deletingList \union cleared \union UNION {call[t].del : t \in Thread}

(* A queue serves one process at a time: no two processes hold the same     *)
(* live buffer in their caches.  The connection passes on when its process  *)
(* lets go of it or dies, before the queue is emptied; while a clean is     *)
(* under way the next process can be granted what the last one still holds. *)
Cleaning(t) == \/ call[t].at \in {"disconnecting", "disconnected", "cleaning", "cleaned", "burying"}
               \/ pc[t] = "clearWait"

Current(f) == (cache[f] \ stale[f]) \intersect Cached

OneProcessHolds ==
    (\A t \in Thread : ~Cleaning(t)) =>
        \A f, g \in Surface :
            ProcessOf[f] # ProcessOf[g] => Current(f) \intersect Current(g) = {}

=============================================================================
