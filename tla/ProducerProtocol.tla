-------------------------- MODULE ProducerProtocol --------------------------
(***************************************************************************)
(* The producer's calls as messages: what BufferClientProducer writes into *)
(* a request, what the stub in BufferQueueProducer takes out of it, what   *)
(* the stub puts into the reply and what the client reads.  The calls back *)
(* to the producer's listeners travel the same way.  Each side has tables  *)
(* of its own, translated from its own file.  Messages get lost, the stub  *)
(* refuses some, the server refuses some, and three results are cached.    *)
(* A cast is an asynchronous call: it is sent and returns at once.  The     *)
(* listener's calls go from the queue to the producer's process.           *)
(***************************************************************************)
EXTENDS ParcelFormats, MethodTables, SequencesExt

CONSTANTS
    Client,        \* the client's threads
    MethodMixes,   \* for each thread the methods it calls with which shapes
    Shapes,        \* the shapes of the data
    Transforms,    \* the transforms SetTransform is called with
    Losses,        \* whether transactions may fail
    ConsumerSets   \* the mixes beside which the consumer calls SetTransform

ASSUME ShapeAssumption == Shapes \subseteq [given : BOOLEAN, fd : BOOLEAN, n : Nat, extra : Nat]

VARIABLES
    msg,              \* msg[t]: the call of thread t
    serverUp,         \* the server's process lives
    lastTransform,    \* lastSetTransformType_ of the client; BUTT: unknown
    serverTransform,  \* transform_ of the queue
    doubted,          \* history: a SetTransform got lost, or two overlapped
    known,            \* which of name_ and uniqueId_ the client has cached
    methods           \* methods[t]: what thread t calls in this behaviour

protocolVars ==
    <<msg, serverUp, lastTransform, serverTransform, doubted, known, methods>>

BUTT == "BUTT"

NoMsg == [m |-> "none", sh |-> "none", arg |-> BUTT, at |-> "idle", served |-> "no",
          lost |-> FALSE, result |-> "none"]

-----------------------------------------------------------------------------
(* The client's side: the fields it writes, those it reads after the status *)
(* GSERROR_OK and after another, and where the status is.                   *)
Does(writes)         == [writes |-> writes, ok |-> <<>>, err |-> <<>>, form |-> "status"]
Asks(writes, reads)  == [writes |-> writes, ok |-> reads, err |-> <<>>, form |-> "status"]
Reads(reads)         == [writes |-> <<>>, ok |-> reads, err |-> <<>>, form |-> "value"]
Casts(writes)        == [writes |-> writes, ok |-> <<>>, err |-> <<>>, form |-> "cast"]

Grant == <<"buffer", "u64?", "bedata", "fence", "seqs">>
Frame == <<"bedata", "fence", "flush">>

RequestCalls(sh) ==
    [RequestBuffer          |-> [Asks(<<"config">>, Grant) EXCEPT !.err = <<"bool">>],
     RequestBuffers         |-> [Asks(<<"u32", "config">>, <<"u32">> \o Times(sh.n, Grant))
                                   EXCEPT !.err = <<"bool">>]]

FlushedCalls ==
    [GetLastFlushedBuffer   |-> Asks(<<"bool">>, <<"buffer", "bufconfig", "fence", "matrix">>)]

FlushCalls(sh) ==
    [GetProducerInitInfo    |-> [writes |-> <<"obj", "str">> \o Optional(sh.given, <<"obj">>),
                                 ok |-> <<"i32", "i32", "u64", "str", "bool", "str", "u64", "i32">>,
                                 err |-> <<"i32", "i32", "u64", "str", "bool", "str", "u64", "i32">>,
                                 form |-> "last"],
     CancelBuffer           |-> Does(<<"u32", "bedata">>),
     FlushBuffer            |-> Does(<<"u32", "bedata", "fence", "flush">>),
     FlushBuffers           |-> Does(<<"seqs">> \o Times(sh.n, Frame))]

AttachCalls ==
    [AttachBufferToQueue    |-> Does(<<"buffer", "bufconfig">>),
     DetachBufferFromQueue  |-> Does(<<"buffer">>),
     AttachBuffer           |-> Does(<<"buffer", "i32">>),
     RegisterReleaseListener         |-> Does(<<"obj", "bool">>),
     RegisterPropertyListener        |-> Does(<<"obj", "u64">>),
     UnRegisterPropertyListener      |-> Does(<<"u64">>),
     RegisterReleaseListenerBackup   |-> Does(<<"obj">>),
     UnRegisterReleaseListener       |-> Does(<<>>),
     UnRegisterReleaseListenerBackup |-> Does(<<>>)]

QueueCalls ==
    [GetQueueSize           |-> Reads(<<"u32">>),
     SetQueueSize           |-> Does(<<"u32">>),
     GetName                |-> Asks(<<>>, <<"str">>),
     GetUniqueId            |-> Reads(<<"u64">>),
     GetNameAndUniqueId     |-> Asks(<<>>, <<"str", "u64">>),
     GetDefaultWidth        |-> Reads(<<"i32">>),
     GetDefaultHeight       |-> Reads(<<"i32">>),
     SetDefaultUsage        |-> Does(<<"u64">>)]

ConnectionCalls ==
    [GetDefaultUsage        |-> Reads(<<"u64">>),
     CleanCache             |-> Asks(<<"bool">>, <<"u32">>),
     GoBackground           |-> Does(<<>>),
     SetTransform           |-> Does(<<"u32">>),
     Connect                |-> Does(<<>>),
     Disconnect             |-> Asks(<<>>, <<"u32">>),
     ConnectStrictly        |-> Does(<<>>),
     DisconnectStrictly     |-> Does(<<>>),
     SetScalingMode         |-> Does(<<"u32", "i32">>),
     SetScalingModeV2       |-> Does(<<"i32">>),
     SetVideoDimensionType  |-> Does(<<"i32">>),
     GetVideoDimensionType  |-> Asks(<<>>, <<"i32">>)]

AttributeCalls ==
    [SetBufferHold          |-> Does(<<"bool">>),
     SetBufferReallocFlag   |-> Does(<<"bool">>),
     SetBufferName          |-> Does(<<"str">>),
     SetMetaData            |-> Does(<<"u32", "hdr">>),
     SetMetaDataSet         |-> Does(<<"u32", "u32", "hdrset">>),
     SetTunnelHandle        |-> Does(<<"tunnel">>),
     SetTunnelLayerInfo     |-> Does(<<"u32", "u64">>),
     GetPresentTimestamp    |-> Asks(<<"u32", "u32">>, <<"i64">>),
     GetTransform           |-> Asks(<<>>, <<"u32">>),
     SetTransformHint       |-> Does(<<"u32", "u64">>)]

SourceCalls ==
    [SetSurfaceSourceType       |-> Does(<<"u32">>),
     GetSurfaceSourceType       |-> Asks(<<>>, <<"u32">>),
     SetSurfaceAppFrameworkType |-> Does(<<"str">>),
     GetSurfaceAppFrameworkType |-> Asks(<<>>, <<"str">>),
     SetHdrWhitePointBrightness |-> Does(<<"f32">>),
     SetSdrWhitePointBrightness |-> Does(<<"f32">>),
     AcquireLastFlushedBuffer   |-> Asks(<<"bool">>, <<"buffer", "bufconfig", "fence", "matrix">>),
     ReleaseLastFlushedBuffer   |-> Does(<<"u32">>),
     SetGlobalAlpha             |-> Does(<<"i32">>),
     SetRequestBufferNoblockMode |-> Does(<<"bool">>),
     RequestAndDetachBuffer     |-> [Asks(<<"config">>, Grant) EXCEPT !.err = <<"bool">>],
     AttachAndFlushBuffer       |-> Does(<<"buffer", "bufconfig">> \o Frame \o <<"bool">>)]

LastCalls(sh) ==
    [GetCycleBuffersNumber  |-> Asks(<<>>, <<"u32">>),
     SetCycleBuffersNumber  |-> Does(<<"u32">>),
     SetFrameGravity        |-> Does(<<"i32">>),
     SetFixedRotation       |-> Does(<<"i32">>),
     PreAllocBuffers        |-> Casts(<<"config", "u32">>),
     SetLppShareFd          |-> Does(<<"fd", "bool">>),
     SetAlphaType           |-> Does(<<"i32">>),
     SyncProducerCache      |-> Reads(<<"u32">> \o Times(sh.n, <<"buffer">>)),
     SetSingleBufferMode    |-> Does(<<"i32">>),
     CleanReleasedBuffers   |-> Asks(<<>>, <<"seqs">>)]

ListenerCalls ==
    [OnBufferReleased                     |-> Casts(<<>>),
     OnBufferReleasedWithFence            |-> Casts(<<"buffer", "fence?">>),
     OnBufferReleasedWithSequenceAndFence |-> Casts(<<"u32", "fence?">>),
     OnPropertyChange                     |-> Casts(<<"property">>),
     OnLayerStateChanged                  |-> Casts(<<"u32">>)]

(* Messages of other services that carry the same formats.                  *)
CarrierCalls == [CarryWholeBuffer |-> Casts(<<"whole">>), CarryAllocInfo |-> Casts(<<"verify">>)]

-----------------------------------------------------------------------------
(* The stub's side: the fields it reads, those it writes after the status   *)
(* GSERROR_OK and after another, where the status is, and whether it fails  *)
(* the transaction as well when the status is an error, which hides it.     *)
Takes(takes)         == [takes |-> takes, ok |-> <<>>, err |-> <<>>, form |-> "status",
                         hides |-> FALSE]
Gives(takes, gives)  == [Takes(takes) EXCEPT !.ok = gives]
Values(gives)        == [Gives(<<>>, gives) EXCEPT !.form = "value"]
Hides(takes, gives)  == [Gives(takes, gives) EXCEPT !.hides = TRUE]
Silent(takes)        == [Takes(takes) EXCEPT !.form = "cast"]

Granted == <<"buffer", "u64?", "bedata", "fence", "seqs">>
Flushed == <<"bedata", "fence", "flush">>

RequestStubs(sh) ==
    [RequestBuffer          |-> [Gives(<<"config">>, Granted) EXCEPT !.err = <<"bool">>],
     RequestBuffers         |-> [Gives(<<"u32", "config">>, <<"u32">> \o Times(sh.n, Granted))
                                   EXCEPT !.err = <<"bool">>],
     GetProducerInitInfo    |-> [Takes(<<"obj", "str", "obj">>) EXCEPT
                                   !.ok  = <<"i32", "i32", "u64", "str", "bool", "str", "u64", "i32">>,
                                   !.err = <<"i32", "i32", "u64", "str", "bool", "str", "u64", "i32">>,
                                   !.form = "last"]]

FlushStubs(sh) ==
    [CancelBuffer           |-> Takes(<<"u32", "bedata">>),
     FlushBuffer            |-> Takes(<<"u32", "bedata", "fence", "flush">>),
     FlushBuffers           |-> Takes(<<"seqs">> \o Times(sh.n, Flushed)),
     GetLastFlushedBuffer   |-> Gives(<<"bool">>, <<"buffer", "bufconfig", "fence", "matrix">>)]

AttachStubs ==
    [AttachBufferToQueue    |-> Takes(<<"buffer", "bufconfig">>),
     DetachBufferFromQueue  |-> Takes(<<"buffer">>),
     AttachBuffer           |-> Takes(<<"buffer", "i32">>),
     GetQueueSize           |-> Values(<<"i32">>),
     SetQueueSize           |-> Takes(<<"u32">>),
     GetName                |-> Gives(<<>>, <<"str">>),
     GetNameAndUniqueId     |-> Gives(<<>>, <<"str", "u64">>)]

QueueStubs ==
    [GetDefaultWidth        |-> Values(<<"i32">>),
     GetDefaultHeight       |-> Values(<<"i32">>),
     SetDefaultUsage        |-> Takes(<<"u64">>),
     GetDefaultUsage        |-> Values(<<"u64">>),
     GetUniqueId            |-> Values(<<"u64">>),
     CleanCache             |-> Gives(<<"bool">>, <<"u32">>),
     GoBackground           |-> Takes(<<>>),
     RegisterReleaseListener    |-> Hides(<<"obj", "bool">>, <<>>),
     RegisterPropertyListener   |-> Takes(<<"obj", "u64">>),
     UnRegisterPropertyListener |-> Takes(<<"u64">>)]

ConnectionStubs ==
    [SetLppShareFd          |-> Takes(<<"fd", "bool">>),
     RegisterReleaseListenerBackup   |-> Takes(<<"obj">>),
     UnRegisterReleaseListener       |-> Takes(<<>>),
     UnRegisterReleaseListenerBackup |-> Takes(<<>>),
     SetTransform           |-> Takes(<<"u32">>),
     Connect                |-> Takes(<<>>),
     Disconnect             |-> Gives(<<>>, <<"u32">>),
     ConnectStrictly        |-> Takes(<<>>),
     DisconnectStrictly     |-> Takes(<<>>),
     SetScalingMode         |-> Takes(<<"u32", "i32">>),
     SetScalingModeV2       |-> Takes(<<"i32">>),
     SetVideoDimensionType  |-> Takes(<<"i32">>)]

AttributeStubs ==
    [GetVideoDimensionType  |-> Hides(<<>>, <<"i32">>),
     SetBufferHold          |-> Takes(<<"bool">>),
     SetBufferReallocFlag   |-> Takes(<<"bool">>),
     SetBufferName          |-> Takes(<<"str">>),
     SetMetaData            |-> Takes(<<"u32", "hdr">>),
     SetMetaDataSet         |-> Takes(<<"u32", "u32", "hdrset">>),
     SetTunnelHandle        |-> Takes(<<"tunnel">>),
     SetTunnelLayerInfo     |-> Takes(<<"u32", "u64">>)]

SourceStubs ==
    [GetPresentTimestamp        |-> Gives(<<"u32", "u32">>, <<"i64">>),
     GetTransform               |-> Hides(<<>>, <<"u32">>),
     SetTransformHint           |-> Takes(<<"u32", "u64">>),
     SetSurfaceSourceType       |-> Takes(<<"u32">>),
     GetSurfaceSourceType       |-> Hides(<<>>, <<"u32">>),
     SetSurfaceAppFrameworkType |-> Takes(<<"str">>),
     GetSurfaceAppFrameworkType |-> Hides(<<>>, <<"str">>)]

LightStubs ==
    [SetHdrWhitePointBrightness  |-> Takes(<<"f32">>),
     SetSdrWhitePointBrightness  |-> Takes(<<"f32">>),
     AcquireLastFlushedBuffer    |-> Gives(<<"bool">>, <<"buffer", "bufconfig", "fence", "matrix">>),
     ReleaseLastFlushedBuffer    |-> Takes(<<"u32">>),
     SetGlobalAlpha              |-> Takes(<<"i32">>),
     SetRequestBufferNoblockMode |-> Takes(<<"bool">>),
     RequestAndDetachBuffer      |-> [Gives(<<"config">>, Granted) EXCEPT !.err = <<"bool">>]]

LastStubs ==
    [AttachAndFlushBuffer   |-> Takes(<<"buffer", "bufconfig">> \o Flushed \o <<"bool">>),
     GetCycleBuffersNumber  |-> Hides(<<>>, <<"u32">>),
     SetCycleBuffersNumber  |-> Takes(<<"u32">>),
     SetFrameGravity        |-> Takes(<<"i32">>),
     SetFixedRotation       |-> Takes(<<"i32">>),
     SetAlphaType           |-> Takes(<<"i32">>)]

PreAllocStub == [PreAllocBuffers |-> Silent(<<"config", "u32">>)]

CacheStubs(sh) ==
    [SyncProducerCache      |-> [Values(<<"u32">> \o Times(sh.n, <<"buffer">>))
                                   EXCEPT !.hides = TRUE],
     CleanReleasedBuffers   |-> Gives(<<>>, <<"seqs">>),
     SetSingleBufferMode    |-> Takes(<<"i32">>)]

ListenerStubs ==
    [OnBufferReleased                     |-> Silent(<<>>),
     OnBufferReleasedWithFence            |-> Silent(<<"buffer", "fence?">>),
     OnBufferReleasedWithSequenceAndFence |-> Silent(<<"u32", "fence?">>),
     OnPropertyChange                     |-> Silent(<<"property">>),
     OnLayerStateChanged                  |-> Silent(<<"u32">>)]

CarrierStubs == [CarryWholeBuffer |-> Silent(<<"whole">>), CarryAllocInfo |-> Silent(<<"verify">>)]

-----------------------------------------------------------------------------
(* The tables of each side.                                                 *)
ClientTables(sh) ==
    {RequestCalls(sh), FlushedCalls, FlushCalls(sh), AttachCalls, QueueCalls, ConnectionCalls,
     AttributeCalls, SourceCalls, LastCalls(sh), ListenerCalls, CarrierCalls}

ClientOf == [sh \in Shapes |-> Joined(ClientTables(sh))]

(* memberFuncMap_: the stub of each method.                                 *)
StubTables(sh) ==
    {RequestStubs(sh), FlushStubs(sh), AttachStubs, QueueStubs, ConnectionStubs, AttributeStubs,
     SourceStubs, LightStubs, LastStubs, PreAllocStub, CacheStubs(sh), ListenerStubs, CarrierStubs}

StubOf == [sh \in Shapes |-> Joined(StubTables(sh))]

Methods == UNION {DOMAIN ClientOf[sh] : sh \in Shapes}

ASSUME MixAssumption ==
    \A mix \in MethodMixes : \A t \in Client : mix[t] \subseteq Methods \X Shapes

WrittenAll(fields, sh) == FlattenSeq([i \in DOMAIN fields |-> Written(fields[i], sh)])
ReadAll(fields, sh)    == FlattenSeq([i \in DOMAIN fields |-> Read(fields[i], sh)])

TooLongFor(Refuses(_, _), fields, sh) == \E i \in DOMAIN fields : Refuses(fields[i], sh)

(* The reply of a stub: the status comes first, last or not at all.         *)
Placed(form, status, fields) ==
    CASE form = "status" -> status \o fields
      [] form = "last"   -> fields \o status
      [] form = "value"  -> fields
      [] form = "cast"   -> <<>>

Reply(m, sh, outcome) ==
    LET stub == StubOf[sh][m] IN
    Placed(stub.form, <<"i32">>, IF outcome = "OK" THEN stub.ok ELSE stub.err)

Expected(m, sh, outcome) ==
    LET call == ClientOf[sh][m] IN
    Placed(call.form, <<"i32">>, IF outcome = "OK" THEN call.ok ELSE call.err)

-----------------------------------------------------------------------------
ProtocolInit ==
    /\ msg = [t \in Client |-> NoMsg]
    /\ serverUp = TRUE
    /\ lastTransform = BUTT
    /\ serverTransform = BUTT
    /\ doubted = FALSE
    /\ known = {}
    /\ methods \in MethodMixes

(* DetachBuffer, AttachBuffer without a timeout and GetTransformHint answer *)
(* without a message; the cached results do so once they are known.         *)
NeedsKnown(m) ==
    CASE m = "GetName"            -> {"name"}
      [] m = "GetUniqueId"        -> {"uniqueId"}
      [] m = "GetNameAndUniqueId" -> {"name", "uniqueId"}
      [] OTHER                    -> {"nothing"}

Teaches(m) ==
    CASE m = "GetProducerInitInfo" -> {"uniqueId"}
      [] OTHER                     -> NeedsKnown(m) \ {"nothing"}

Calls(t, m, sh) ==
    /\ msg[t].at = "idle"
    /\ <<m, sh>> \in methods[t]
    /\ m = "RequestBuffers" => sh.n \in 1..BatchLimit

Finishes(t, m, sh, result) ==
    msg' = [msg EXCEPT ![t] = [NoMsg EXCEPT !.m = m, !.sh = sh, !.at = "done", !.result = result]]

AnswersFromCache(t, m, sh) ==
    /\ Calls(t, m, sh)
    /\ NeedsKnown(m) \subseteq known
    /\ Finishes(t, m, sh, "CACHED")
    /\ UNCHANGED <<serverUp, lastTransform, serverTransform, doubted, known, methods>>

(* The client's own checks: a list the writers refuse, a negative           *)
(* descriptor, no listener, an empty or too long batch.                     *)
Unfit(m, sh) ==
    \/ TooLongFor(WriterRefuses, ClientOf[sh][m].writes, sh)
    \/ m = "SetLppShareFd" /\ ~sh.fd
    \/ m \in {"RegisterPropertyListener", "RegisterReleaseListenerBackup"} /\ ~sh.given
    \/ m = "FlushBuffers" /\ sh.n \notin 1..BatchLimit

ClientRefuses(t, m, sh) ==
    /\ Calls(t, m, sh)
    /\ Unfit(m, sh)
    /\ Finishes(t, m, sh, "INVALID")
    /\ UNCHANGED <<serverUp, lastTransform, serverTransform, doubted, known, methods>>

SkipsTransform(t, sh) ==
    /\ Calls(t, "SetTransform", sh)
    /\ lastTransform # BUTT
    /\ msg' = [msg EXCEPT ![t] = [NoMsg EXCEPT !.m = "SetTransform", !.sh = sh, !.at = "done",
                                              !.arg = lastTransform, !.result = "SKIPPED"]]
    /\ UNCHANGED <<serverUp, lastTransform, serverTransform, doubted, known, methods>>

Setting(t) == msg[t].m = "SetTransform" /\ msg[t].at \in {"sent", "answered"}

(* SetTransform notes the transform before it sends it.                     *)
Sends(t, m, sh, arg) ==
    /\ Calls(t, m, sh)
    /\ ~(NeedsKnown(m) \subseteq known)
    /\ ~Unfit(m, sh)
    /\ arg \in IF m = "SetTransform" THEN Transforms \ {lastTransform} ELSE {BUTT}
    /\ msg' = [msg EXCEPT ![t] = [NoMsg EXCEPT !.m = m, !.sh = sh, !.at = "sent", !.arg = arg]]
    /\ lastTransform' = IF m = "SetTransform" THEN arg ELSE lastTransform
    /\ doubted' = (doubted \/ (m = "SetTransform" /\ \E u \in Client : Setting(u)))
    /\ UNCHANGED <<serverUp, serverTransform, known, methods>>

(* The transaction fails before or after the server has done its part; the  *)
(* client cannot tell.  External: SendRequest, which fails when the server  *)
(* has gone.                                                                *)
Loses(t) ==
    /\ msg[t].at \in {"sent", "answered"}
    /\ ~serverUp \/ Losses
    /\ msg' = [msg EXCEPT ![t].at = "done", ![t].lost = TRUE, ![t].result = "BINDER"]
    /\ doubted' = (doubted \/ msg[t].m = "SetTransform")
    /\ UNCHANGED <<serverUp, lastTransform, serverTransform, known, methods>>

(* What the stub refuses to read: a list of a length its reader does not    *)
(* accept, a listener or a buffer that is not there.                        *)
StubUnfit(m, sh) ==
    \/ TooLongFor(ReaderRefuses, StubOf[sh][m].takes, sh)
    \/ m \in {"GetProducerInitInfo", "RegisterReleaseListener", "AttachBufferToQueue",
              "DetachBufferFromQueue", "AttachBuffer", "AttachAndFlushBuffer"} /\ ~sh.given

(* What it may refuse for what the shape does not tell: a buffer whose      *)
(* width, height, size or stride is no longer the one it was allocated with.*)
HandleIsChecked == {"AttachBufferToQueue", "AttachBuffer", "AttachAndFlushBuffer"}

StubRefuses(t) ==
    /\ msg[t].at = "sent"
    /\ serverUp
    /\ StubUnfit(msg[t].m, msg[t].sh) \/ msg[t].m \in HandleIsChecked
    /\ msg' = [msg EXCEPT ![t].at = "done", ![t].served = "REFUSED", ![t].result = "BINDER"]
    /\ UNCHANGED <<serverUp, lastTransform, serverTransform, doubted, known, methods>>

Outcomes(m, sh) == IF StubOf[sh][m].form = "value" /\ ~StubOf[sh][m].hides THEN {"OK"}
                   ELSE {"OK", "ERR"}

Serves(t, outcome) ==
    /\ msg[t].at = "sent"
    /\ serverUp
    /\ ~StubUnfit(msg[t].m, msg[t].sh)
    /\ outcome \in Outcomes(msg[t].m, msg[t].sh)
    /\ msg' = [msg EXCEPT ![t].at = "answered", ![t].served = outcome]
    /\ serverTransform' = IF msg[t].m = "SetTransform" /\ outcome = "OK" THEN msg[t].arg
                          ELSE serverTransform
    /\ UNCHANGED <<serverUp, lastTransform, doubted, known, methods>>

(* RequestBuffers without a single buffer resizes the results to one, whose *)
(* fence is null, and the stub writes that fence: the process faults.       *)
ServerCrashes(t) ==
    /\ msg[t].at = "sent"
    /\ serverUp
    /\ msg[t].m = "RequestBuffers"
    /\ serverUp' = FALSE
    /\ msg' = [msg EXCEPT ![t].at = "done", ![t].lost = TRUE, ![t].served = "NO_BUFFER",
                          ![t].result = "BINDER"]
    /\ UNCHANGED <<lastTransform, serverTransform, doubted, known, methods>>

(* What the client makes of the reply.  A cast returns without one.         *)
CheckRetval_Ignored(m, sh, served) ==
    CASE TooLongFor(ReaderRefuses, ClientOf[sh][m].ok, sh) -> "UNKNOWN"
      [] StubOf[sh][m].hides /\ served = "ERR"            -> "BINDER"
      [] OTHER                                            -> "OK"

CheckRetval(m, sh, served) ==
    CASE ClientOf[sh][m].form = "cast"                    -> "OK"
      [] StubOf[sh][m].hides /\ served = "ERR"            -> "BINDER"
      [] served = "ERR"                                   -> "ERR"
      [] m = "SyncProducerCache" /\ sh.n > BatchLimit     -> "UNKNOWN"
      [] TooLongFor(ReaderRefuses, ClientOf[sh][m].ok, sh) -> "UNKNOWN"
      [] OTHER                                            -> "OK"

Unlearned_Never(m, result) == FALSE

(* After an error the client no longer claims to know the transform.        *)
Unlearned(m, result) == m = "SetTransform" /\ result = "ERR"

ClientReads(t) ==
    LET m      == msg[t].m
        result == CheckRetval(m, msg[t].sh, msg[t].served) IN
    /\ msg[t].at = "answered"
    /\ msg' = [msg EXCEPT ![t].at = "done", ![t].result = result]
    /\ lastTransform' = IF Unlearned(m, result) THEN BUTT ELSE lastTransform
    /\ known' = IF result = "OK" \/ (m = "GetProducerInitInfo" /\ result = "ERR")
                THEN known \union Teaches(m) ELSE known
    /\ UNCHANGED <<serverUp, serverTransform, doubted, methods>>

Returns(t) ==
    /\ msg[t].at = "done"
    /\ msg' = [msg EXCEPT ![t] = NoMsg]
    /\ UNCHANGED <<serverUp, lastTransform, serverTransform, doubted, known, methods>>

(* The consumer's SetTransform goes to the queue and no client hears of it. *)
ConsumerSetsTransform(transform) ==
    /\ methods \in ConsumerSets
    /\ serverTransform' = transform
    /\ doubted' = TRUE
    /\ UNCHANGED <<msg, serverUp, lastTransform, known, methods>>

ClientStep(t) ==
    \/ /\ msg[t].at = "idle"
       /\ \E call \in methods[t] : LET m == call[1]  sh == call[2] IN
             \/ AnswersFromCache(t, m, sh)
             \/ ClientRefuses(t, m, sh)
             \/ \E arg \in Transforms \union {BUTT} : Sends(t, m, sh, arg)
             \/ m = "SetTransform" /\ SkipsTransform(t, sh)
    \/ Loses(t)
    \/ ClientReads(t)
    \/ Returns(t)

ServerStep(t) ==
    \/ StubRefuses(t)
    \/ \E outcome \in {"OK", "ERR"} : Serves(t, outcome)
    \/ ServerCrashes(t)

ProtocolNext ==
    \/ \E t \in Client : ClientStep(t) \/ ServerStep(t)
    \/ \E transform \in Transforms : ConsumerSetsTransform(transform)

ProtocolSpec == ProtocolInit /\ [][ProtocolNext]_protocolVars

-----------------------------------------------------------------------------
(* What one side writes the other side reads, field for field: every stub   *)
(* takes out of a request what BufferClientProducer or the listener's proxy *)
(* put into it, and the client finds in a reply what the stub wrote.        *)
MessagesParse ==
    \A t \in Client :
        LET m == msg[t].m  sh == msg[t].sh IN
        /\ msg[t].at = "sent" /\ ~StubUnfit(m, sh) =>
              OnWire(WrittenAll(ClientOf[sh][m].writes, sh))
                = OnWire(ReadAll(StubOf[sh][m].takes, sh))
        /\ msg[t].at = "answered" /\ ~(StubOf[sh][m].hides /\ msg[t].served = "ERR") =>
              OnWire(WrittenAll(Reply(m, sh, msg[t].served), sh))
                = OnWire(ReadAll(Expected(m, sh, msg[t].served), sh))

(* A call that waits for its answer reports success when the server has     *)
(* done its part and only then, whatever the message carried, unless the    *)
(* transaction failed, the queue's extra data is one entry too long, or it  *)
(* has more buffers than a list may hold.                                   *)
AnswersAreTrue ==
    \A t \in Client :
        LET m == msg[t].m  sh == msg[t].sh IN
        msg[t].at = "done" /\ msg[t].served # "no" /\ ~msg[t].lost
            /\ ClientOf[sh][m].form # "cast" =>
          /\ msg[t].result = "OK" => msg[t].served = "OK"
          /\ msg[t].served = "OK" /\ sh.extra <= ExtraLimit
                /\ (m = "SyncProducerCache" => sh.n <= BatchLimit) => msg[t].result = "OK"

(* What the client remembers of SetTransform, and answers repetitions with, *)
(* is what the queue has whenever none is under way, as long as none was    *)
(* lost or met another one and the consumer set none.                       *)
CacheIsTrue ==
    lastTransform # BUTT /\ ~doubted /\ (\A t \in Client : ~Setting(t)) =>
        serverTransform = lastTransform

=============================================================================
