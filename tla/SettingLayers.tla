---------------------------- MODULE SettingLayers ----------------------------
(***************************************************************************)
(* How a setting gets into the queue.  An application sets options of a     *)
(* native window, a producer or a consumer those of its surface; each layer *)
(* checks what it checks and calls the next one: window, surface, stub      *)
(* (BufferQueueProducer, BufferQueueConsumer), queue.  What the queue is    *)
(* given in the end depends on the checks of all the layers on the way, and *)
(* what the caller is told on what each of them does with the answer.       *)
(* A table per stretch of source lists each method with what its layer does.*)
(* Calls of the buffer cycle pass the same layers and are modelled with the *)
(* queue, the notifications of transform, hint and tunnel with the          *)
(* listeners.                                                               *)
(*                                                                         *)
(* Values are integers: enumerations by number, strings by length, a        *)
(* brightness in hundredths, lists by size, and a size of which a side is   *)
(* not positive, or a metadata set of a wrong key, is 0.  Methods about one *)
(* buffer name one the queue has ("cached") or one it has not ("gone").     *)
(***************************************************************************)
EXTENDS Integers, MethodTables

CONSTANTS
    Caller,         \* threads that set and get
    MaxQueue        \* SURFACE_MAX_QUEUE_SIZE

VARIABLES
    topic,          \* the setting this behaviour is about
    queueThere,     \* FALSE: the stubs were built around no queue
    setting,        \* the queue's (or the surface's) value of the topic
    call            \* call[c]: the caller's call and how far it got

layerVars == <<topic, queueThere, setting, call>>

-----------------------------------------------------------------------------
(* What a layer does with a method.                                         *)
Pass(to)           == [kind |-> "pass", to |-> to, as |-> "same", within |-> Int,
                       gives |-> "status", of |-> "none", perBuffer |-> FALSE]
Within(to, values) == [Pass(to) EXCEPT !.within = values]
Void(to)           == [Pass(to) EXCEPT !.gives = "nothing"]
Value(to)          == [Pass(to) EXCEPT !.gives = "value"]
Blind(to)          == [Pass(to) EXCEPT !.gives = "OK"]
Named(row, method) == [row EXCEPT !.as = method]
Sets(of)           == [Pass("here") EXCEPT !.kind = "sets", !.of = of]
SetsWithin(of, values) == [Sets(of) EXCEPT !.within = values]
Gets(of)           == [Sets(of) EXCEPT !.kind = "gets"]
ForBuffer(row)     == [row EXCEPT !.perBuffer = TRUE]

ScalingModes   == 0..4      \* SCALING_MODE_FREEZE .. SCALING_MODE_SCALE_FIT
DimensionTypes == 0..2      \* VIDEO_DIM_TYPE_2D .. below VIDEO_DIM_TYPE_BUTT
Brightnesses   == 0..100
GlobalAlphas   == -1..255
MetadataSizes  == 1..3000   \* META_DATA_MAX_SIZE
NotEmpty       == 1..4096

-----------------------------------------------------------------------------
(* The native window.                                                       *)
Option(row, method) == [Named(row, method) EXCEPT !.gives = "OK"]

(* SET_TRANSFORM makes two calls of the surface.  A behaviour is about one  *)
(* setting, so each of them has a row: the queue's transform first, and the *)
(* one of the window's configuration, which its requests carry.             *)

WindowSetOptions ==
    [SET_USAGE            |-> Option(Pass("psurface"), "SetWindowConfigUsage"),
     SET_BUFFER_GEOMETRY  |-> Option(Pass("psurface"), "SetWindowConfigWidthAndHeight"),
     SET_FORMAT           |-> Option(Pass("psurface"), "SetWindowConfigFormat"),
     SET_STRIDE           |-> Option(Pass("psurface"), "SetWindowConfigStride"),
     SET_TIMEOUT          |-> Option(Pass("psurface"), "SetWindowConfigTimeout"),
     SET_COLOR_GAMUT      |-> Option(Pass("psurface"), "SetWindowConfigColorGamut"),
     SET_TRANSFORM        |-> Option(Pass("psurface"), "SetTransform"),
     SET_TRANSFORM_OfRequests |-> Option(Pass("psurface"), "SetWindowConfigTransform"),
     SET_SOURCE_TYPE      |-> Option(Pass("psurface"), "SetSurfaceSourceType"),
     SET_APP_FRAMEWORK_TYPE |->
        [Option(Pass("psurface"), "SetSurfaceAppFrameworkType") EXCEPT !.within = 1..64]]

WindowGetOptions ==
    [GET_USAGE            |-> Option(Pass("psurface"), "GetWindowConfigUsage"),
     GET_BUFFER_GEOMETRY  |-> Option(Pass("psurface"), "GetWindowConfigWidthAndHeight"),
     GET_FORMAT           |-> Option(Pass("psurface"), "GetWindowConfigFormat"),
     GET_STRIDE           |-> Option(Pass("psurface"), "GetWindowConfigStride"),
     GET_TIMEOUT          |-> Option(Pass("psurface"), "GetWindowConfigTimeout"),
     GET_COLOR_GAMUT      |-> Option(Pass("psurface"), "GetWindowConfigColorGamut"),
     GET_TRANSFORM        |-> Option(Pass("psurface"), "GetTransform"),
     GET_SOURCE_TYPE      |-> Option(Pass("psurface"), "GetSurfaceSourceType"),
     GET_APP_FRAMEWORK_TYPE |-> Option(Pass("psurface"), "GetSurfaceAppFrameworkType"),
     SET_HDR_WHITE_POINT_BRIGHTNESS |-> Option(Pass("psurface"), "SetHdrWhitePointBrightness"),
     SET_SDR_WHITE_POINT_BRIGHTNESS |-> Option(Pass("psurface"), "SetSdrWhitePointBrightness")]

WindowCalls ==
    [NativeWindowSetScalingMode   |-> Named(Within("psurface", 0..3), "SetScalingModeOf"),
     NativeWindowSetScalingModeV2 |-> Named(Within("psurface", 0..4), "SetScalingMode"),
     NativeWindowSetMetaData      |-> Named(Within("psurface", MetadataSizes), "SetMetaData"),
     NativeWindowSetMetaDataSet   |-> Named(Within("psurface", MetadataSizes), "SetMetaDataSet")]

WindowSizeCalls ==
    [NativeWindowSetRequestWidthAndHeight |->
        Option(Pass("psurface"), "SetRequestWidthAndHeight"),
     NativeWindowSetBufferHold    |-> Named(Void("psurface"), "SetBufferHold")]

WindowDimensionCalls ==
    [OH_NativeWindow_Set3DMetadataValue |->
        Named(Within("psurface", DimensionTypes), "SetVideoDimensionType"),
     OH_NativeWindow_Get3DMetadataValue |-> Named(Pass("psurface"), "GetVideoDimensionType")]

-----------------------------------------------------------------------------
(* The producer's surface: settings of its own, and those it passes on.     *)
ProducerCalls ==
    [GetDefaultWidth  |-> Value("producer"),
     GetDefaultHeight |-> Value("producer"),
     SetDefaultUsage            |-> Pass("producer"),
     GetDefaultUsage            |-> Value("producer"),
     SetSurfaceSourceType       |-> Pass("producer"),
     GetSurfaceSourceType       |-> Value("producer"),
     SetSurfaceAppFrameworkType |-> Pass("producer"),
     GetSurfaceAppFrameworkType |-> Value("producer")]

ProducerTransformCalls ==
    [SetTransform |-> Pass("producer"),
     GetTransform |-> Value("producer")]

ProducerScalingCalls_OneUnchecked ==    \* the later overload without the check
    [SetScalingModeOf      |-> Within("producer", ScalingModes),
     SetScalingMode        |-> Pass("producer")]
ProducerScalingCalls ==
    [SetScalingModeOf      |-> Within("producer", ScalingModes),
     SetScalingMode        |-> Within("producer", ScalingModes)]

ProducerBufferCalls ==
    [SetVideoDimensionType |-> Within("producer", DimensionTypes),
     GetVideoDimensionType |-> Pass("producer"),
     SetBufferHold         |-> Void("producer"),
     SetMetaData           |-> Within("producer", NotEmpty),
     SetMetaDataSet        |-> Within("producer", NotEmpty)]

WindowConfigCalls ==
    [SetBufferName                 |-> Blind("producer"),
     SetRequestWidthAndHeight      |-> Sets("requestSize"),
     GetRequestWidth               |-> Gets("requestSize"),
     GetRequestHeight              |-> Gets("requestSize"),
     SetWindowConfigWidthAndHeight |-> Sets("geometry"),
     GetWindowConfigWidthAndHeight |-> Gets("geometry"),
     SetWindowConfigStride         |-> Sets("stride"),
     GetWindowConfigStride         |-> Gets("stride"),
     SetWindowConfigFormat         |-> Sets("format"),
     GetWindowConfigFormat         |-> Gets("format"),
     SetWindowConfigUsage          |-> Sets("usage"),
     GetWindowConfigUsage          |-> Gets("usage"),
     SetWindowConfigTimeout        |-> Sets("timeout"),
     GetWindowConfigTimeout        |-> Gets("timeout"),
     SetWindowConfigTransform      |-> Sets("windowTransform"),
     SetWindowConfigColorGamut     |-> Sets("gamut"),
     GetWindowConfigColorGamut     |-> Gets("gamut")]

ProducerLightCalls ==
    [SetHdrWhitePointBrightness  |-> Within("producer", Brightnesses),
     SetSdrWhitePointBrightness  |-> Within("producer", Brightnesses),
     SetGlobalAlpha              |-> Within("producer", GlobalAlphas),
     SetSingleBufferMode         |-> Pass("producer"),
     SetRequestBufferNoblockMode |-> Pass("producer")]

ProducerRotationCalls ==
    [GetCycleBuffersNumber |-> Pass("producer"),
     SetCycleBuffersNumber |-> Pass("producer"),
     SetFrameGravity       |-> Pass("producer"),
     SetFixedRotation      |-> Pass("producer")]

ProducerAlphaCalls ==
    [SetAlphaType |-> Pass("producer")]

-----------------------------------------------------------------------------
(* The consumer's surface.                                                  *)
ConsumerSizeCalls ==
    [SetDefaultWidthAndHeight |-> Pass("consumer"),
     GetDefaultWidth  |-> Value("producer"),
     GetDefaultHeight |-> Value("producer"),
     SetDefaultUsage          |-> Pass("consumer"),
     GetDefaultUsage          |-> Value("producer")]

ConsumerBufferCalls ==
    [SetTransform           |-> Pass("producer"),
     GetTransform           |-> Value("consumer"),
     SetScalingModeOf       |-> Within("producer", ScalingModes),
     SetScalingMode         |-> Within("producer", ScalingModes),
     GetScalingModeOf       |-> Pass("consumer"),
     GetVideoDimensionTypeOf |-> Pass("consumer"),
     SetMetaData            |-> Within("producer", NotEmpty),
     SetMetaDataSet         |-> Within("producer", NotEmpty),
     QueryMetaDataType      |-> Pass("consumer"),
     GetMetaData            |-> Pass("consumer"),
     GetMetaDataSet         |-> Pass("consumer")]

ConsumerSourceCalls ==
    [SetBufferHold              |-> Void("consumer"),
     SetPresentTimestamp        |-> Within("consumer", Int \ {0}),
     SetSurfaceSourceType       |-> Pass("producer"),
     GetSurfaceSourceType       |-> Value("producer"),
     SetSurfaceAppFrameworkType |-> Pass("producer"),
     GetSurfaceAppFrameworkType |-> Value("producer"),
     GetHdrWhitePointBrightness |-> Value("consumer"),
     GetSdrWhitePointBrightness |-> Value("consumer")]

ConsumerGets ==
    [GetGlobalAlpha        |-> Pass("consumer")]

ConsumerRotationCalls ==
    [GetCycleBuffersNumber |-> Pass("consumer"),
     GetFrameGravity       |-> Pass("consumer"),
     GetFixedRotation      |-> Pass("consumer"),
     SetMaxQueueSize       |-> Pass("consumer"),
     GetMaxQueueSize       |-> Pass("consumer"),
     GetAlphaType          |-> Pass("consumer"),
     SetIsPriorityAlloc    |-> Pass("consumer"),
     SetDropFrameLevel     |-> Pass("consumer"),
     GetAndResetSingleBufferMode |-> Value("consumer")]

-----------------------------------------------------------------------------
(* BufferQueueProducer, on the producer's way into the queue.               *)
StubSizes ==
    [GetDefaultWidth  |-> Value("queue"),
     GetDefaultHeight |-> Value("queue"),
     SetDefaultUsage          |-> Pass("queue"),
     GetDefaultUsage          |-> Value("queue")]

StubSources ==
    [SetTransform               |-> Pass("queue"),
     GetTransform               |-> Pass("queue"),
     SetSurfaceSourceType       |-> Pass("queue"),
     GetSurfaceSourceType       |-> Pass("queue"),
     SetSurfaceAppFrameworkType |-> Pass("queue"),
     GetSurfaceAppFrameworkType |-> Pass("queue"),
     SetHdrWhitePointBrightness |-> Pass("queue"),
     SetSdrWhitePointBrightness |-> Pass("queue")]

StubBuffers ==
    [SetScalingModeOf            |-> Pass("queue"),
     SetScalingMode              |-> Pass("queue"),
     SetVideoDimensionType       |-> Pass("queue"),
     GetVideoDimensionType       |-> Pass("queue"),
     SetBufferHold               |-> Pass("queue"),
     SetBufferName               |-> Pass("queue"),
     SetMetaData                 |-> Pass("queue"),
     SetMetaDataSet              |-> Pass("queue"),
     SetGlobalAlpha              |-> Pass("queue"),
     SetRequestBufferNoblockMode |-> Pass("queue")]

StubRotations ==
    [GetCycleBuffersNumber |-> Pass("queue"),
     SetCycleBuffersNumber |-> Pass("queue"),
     SetFrameGravity       |-> Pass("queue"),
     SetFixedRotation      |-> Pass("queue"),
     SetAlphaType          |-> Pass("queue")]

StubSingle == [SetSingleBufferMode |-> Pass("queue")]

(* BufferQueueConsumer, on the consumer's.                                  *)
ConsumerStubBuffers ==
    [SetDefaultWidthAndHeight |-> Pass("queue"),
     SetDefaultUsage          |-> Pass("queue"),
     GetTransform             |-> Value("queue"),
     GetScalingModeOf         |-> Pass("queue"),
     GetVideoDimensionTypeOf  |-> Pass("queue"),
     QueryMetaDataType        |-> Pass("queue"),
     GetMetaData              |-> Pass("queue"),
     GetMetaDataSet           |-> Pass("queue")]

ConsumerStubSources ==
    [SetPresentTimestamp        |-> Pass("queue"),
     SetBufferHold              |-> Void("queue"),
     GetHdrWhitePointBrightness |-> Value("queue"),
     GetSdrWhitePointBrightness |-> Value("queue"),
     GetGlobalAlpha             |-> Pass("queue"),
     GetAndResetSingleBufferMode |-> Value("queue")]

ConsumerStubRotations ==
    [GetCycleBuffersNumber |-> Pass("queue"),
     GetFrameGravity       |-> Pass("queue"),
     GetFixedRotation      |-> Pass("queue"),
     SetMaxQueueSize       |-> Pass("queue"),
     GetMaxQueueSize       |-> Pass("queue"),
     GetAlphaType          |-> Pass("queue"),
     SetIsPriorityAlloc    |-> Pass("queue"),
     SetDropFrameLevel     |-> Pass("queue")]

-----------------------------------------------------------------------------
(* The queue; every method holds its mutex_ (globalAlpha_ has one of its    *)
(* own), so a set or a get is one step.                                     *)
QueueSizes ==
    [SetDefaultWidthAndHeight |-> SetsWithin("defaultSize", NotEmpty),
     GetDefaultWidth  |-> Gets("defaultSize"),
     GetDefaultHeight |-> Gets("defaultSize"),
     SetDefaultUsage          |-> Sets("defaultUsage"),
     GetDefaultUsage          |-> Gets("defaultUsage")]

QueueTransforms ==
    [SetTransform |-> Sets("transform"),
     GetTransform |-> Gets("transform")]

QueueSources ==
    [SetSurfaceSourceType       |-> Sets("sourceType"),
     GetSurfaceSourceType       |-> Gets("sourceType"),
     SetHdrWhitePointBrightness |-> Sets("hdrBrightness"),
     SetSdrWhitePointBrightness |-> Sets("sdrBrightness"),
     GetHdrWhitePointBrightness |-> Gets("hdrBrightness"),
     GetSdrWhitePointBrightness |-> Gets("sdrBrightness"),
     SetSurfaceAppFrameworkType |-> SetsWithin("appFrameworkType", 1..64),
     GetSurfaceAppFrameworkType |-> Gets("appFrameworkType"),
     SetBufferHold              |-> Sets("bufferHold"),
     SetBufferName              |-> Sets("bufferName")]

QueueModes ==
    [SetScalingModeOf        |-> ForBuffer(Sets("scalingMode")),
     SetScalingMode          |-> Sets("scalingMode"),
     GetScalingModeOf        |-> ForBuffer(Gets("scalingMode")),
     SetVideoDimensionType   |-> Sets("videoDimension"),
     GetVideoDimensionType   |-> Gets("videoDimension"),
     GetVideoDimensionTypeOf |-> ForBuffer(Gets("videoDimension"))]

QueueMetadata ==
    [SetMetaData       |-> ForBuffer(SetsWithin("metadata", NotEmpty)),
     SetMetaDataSet    |-> ForBuffer(SetsWithin("metadata", NotEmpty)),
     QueryMetaDataType |-> ForBuffer(Gets("metadata")),
     GetMetaData       |-> ForBuffer(Gets("metadata")),
     GetMetaDataSet    |-> ForBuffer(Gets("metadata"))]

QueueTimes == [SetPresentTimestamp |-> ForBuffer(Sets("presentTime"))]

QueueAlphas ==
    [SetGlobalAlpha              |-> Sets("globalAlpha"),
     GetGlobalAlpha              |-> Gets("globalAlpha"),
     SetRequestBufferNoblockMode |-> Sets("noblock")]

QueueLevels == [SetDropFrameLevel |-> SetsWithin("dropFrameLevel", Nat)]

QueueRotations ==
    [GetCycleBuffersNumber |-> Gets("cycleBuffers"),
     SetCycleBuffersNumber |-> SetsWithin("cycleBuffers", 1..2 * MaxQueue),
     SetFrameGravity       |-> SetsWithin("frameGravity", -1..15),
     GetFrameGravity       |-> Gets("frameGravity"),
     SetFixedRotation      |-> SetsWithin("fixedRotation", -1..1),
     GetFixedRotation      |-> Gets("fixedRotation")]

QueueLimits ==
    [SetMaxQueueSize |-> SetsWithin("maxQueueSize", 1..MaxQueue),
     GetMaxQueueSize |-> Gets("maxQueueSize")]

QueueLast ==
    [SetAlphaType        |-> SetsWithin("alphaType", 0..3),
     GetAlphaType        |-> Gets("alphaType"),
     SetIsPriorityAlloc  |-> Sets("priorityAlloc"),
     SetSingleBufferMode |-> Sets("singleBuffer"),
     GetAndResetSingleBufferMode |-> [Gets("singleBuffer") EXCEPT !.kind = "takes"]]

-----------------------------------------------------------------------------
LayerTables ==
    [window   |-> {WindowSetOptions, WindowGetOptions, WindowCalls, WindowSizeCalls,
                   WindowDimensionCalls},
     psurface |-> {ProducerCalls, ProducerTransformCalls, ProducerScalingCalls, ProducerBufferCalls,
                   WindowConfigCalls, ProducerLightCalls, ProducerRotationCalls, ProducerAlphaCalls},
     csurface |-> {ConsumerSizeCalls, ConsumerBufferCalls, ConsumerSourceCalls, ConsumerGets,
                   ConsumerRotationCalls},
     producer |-> {StubSizes, StubSources, StubBuffers, StubRotations, StubSingle},
     consumer |-> {ConsumerStubBuffers, ConsumerStubSources, ConsumerStubRotations},
     queue    |-> {QueueSizes, QueueTransforms, QueueSources, QueueModes, QueueMetadata, QueueTimes,
                   QueueAlphas, QueueLevels, QueueRotations, QueueLimits, QueueLast}]

TableOf == [layer \in DOMAIN LayerTables |-> Joined(LayerTables[layer])]

EntryLayers == {"window", "psurface", "csurface"}

NextOf(layer, m) == LET row == TableOf[layer][m] IN
                     <<row.to, IF row.as = "same" THEN m ELSE row.as>>

(* The method in which a call of m at the layer ends: passing takes at most *)
(* four layers.                                                             *)
EndOf ==
    LET step(lm) == IF TableOf[lm[1]][lm[2]].kind = "pass" THEN NextOf(lm[1], lm[2]) ELSE lm
    IN  [layer \in EntryLayers |->
            [m \in DOMAIN TableOf[layer] |-> step(step(step(step(<<layer, m>>))))]]

TopicOf == [layer \in EntryLayers |->
              [m \in DOMAIN TableOf[layer] |->
                  TableOf[EndOf[layer][m][1]][EndOf[layer][m][2]].of]]

Entries == UNION {{<<layer, m>> : m \in DOMAIN TableOf[layer]} : layer \in EntryLayers}

Topics == {TopicOf[e[1]][e[2]] : e \in Entries}

(* What the readers of a setting expect of it: the window manager and the   *)
(* composer take the enumerations as they are.                              *)
Legal ==
    [scalingMode      |-> ScalingModes,
     videoDimension   |-> DimensionTypes,
     hdrBrightness    |-> Brightnesses,
     sdrBrightness    |-> Brightnesses,
     globalAlpha      |-> GlobalAlphas,
     metadata         |-> 0..4096,
     presentTime      |-> Int \ {0},
     defaultSize      |-> NotEmpty,
     appFrameworkType |-> 1..64,
     cycleBuffers     |-> 1..2 * MaxQueue,
     frameGravity     |-> -1..15,
     fixedRotation    |-> -1..1,
     maxQueueSize     |-> 1..MaxQueue,
     alphaType        |-> 0..3,
     dropFrameLevel   |-> Nat]

(* Values at and beside the ends of what the layers let through.            *)
Offers(of) ==
    CASE of \in {"hdrBrightness", "sdrBrightness"} -> {-1, 0, 100, 101}
      [] of = "globalAlpha"                -> {-2, -1, 255, 256}
      [] of = "metadata"                   -> {0, 1, 3000, 3001}
      [] of = "appFrameworkType"           -> {0, 1, 64, 65}
      [] of \in {"cycleBuffers", "maxQueueSize"} -> {0, 1, MaxQueue, MaxQueue + 1, 2 * MaxQueue + 1}
      [] of = "frameGravity"               -> {-2, -1, 15, 16}
      [] of = "fixedRotation"              -> {-2, -1, 1, 2}
      [] of \in {"scalingMode", "videoDimension", "alphaType"} -> {-1, 0, 2, 3, 4, 5}
      [] of = "dropFrameLevel"             -> {-1, 0, 1}
      [] OTHER                             -> {0, 1}

NotSet == -99

Waiting == [at |-> "idle", entry |-> <<"none", "none">>, m |-> "none", v |-> 0, seq |-> "cached",
            gives |-> "status", answer |-> "none", took |-> FALSE]

LayersInit ==
    /\ topic \in Topics
    /\ queueThere \in BOOLEAN
    /\ setting = NotSet
    /\ call = [c \in Caller |-> Waiting]

(* The caller enters the window's, the producer's or the consumer's side.   *)
Enters(c, e, v, seq) ==
    /\ call[c].at = "idle"
    /\ TopicOf[e[1]][e[2]] = topic
    /\ call' = [call EXCEPT ![c] = [Waiting EXCEPT !.at = e[1], !.entry = e, !.m = e[2],
                                                   !.v = v, !.seq = seq]]
    /\ UNCHANGED <<topic, queueThere, setting>>

(* What the caller is told when the layers above have done with the answer. *)
Told_AlwaysOK(gives, answer) ==         \* a refusal below is not passed on
    IF gives = "status" THEN "OK" ELSE gives
Told(gives, answer) == IF gives = "status" THEN answer ELSE gives

Ends(c, gives, answer, took) ==
    call' = [call EXCEPT ![c].at = "done", ![c].answer = Told(gives, answer), ![c].took = took]

GivesSoFar(c, row) == IF call[c].gives = "status" THEN row.gives ELSE call[c].gives

(* A layer checks and passes on, or answers itself.                         *)
PassesOn(c) ==
    /\ call[c].at \in DOMAIN TableOf
    /\ LET row   == TableOf[call[c].at][call[c].m]
           gives == GivesSoFar(c, row)
           isSet == TableOf[EndOf[call[c].entry[1]][call[c].entry[2]][1]]
                           [EndOf[call[c].entry[1]][call[c].entry[2]][2]].kind = "sets"
       IN
       /\ row.kind = "pass"
       /\ IF isSet /\ call[c].v \notin row.within
             THEN Ends(c, gives, "refused", FALSE)
             ELSE IF row.to = "queue" /\ ~queueThere
             THEN Ends(c, gives, "refused", FALSE)
             ELSE call' = [call EXCEPT ![c].at = row.to, ![c].gives = gives,
                                       ![c].m = NextOf(call[c].at, call[c].m)[2]]
    /\ UNCHANGED <<topic, queueThere, setting>>

(* The last layer sets or gets.                                             *)
Settles(c) ==
    /\ call[c].at \in DOMAIN TableOf
    /\ LET row == TableOf[call[c].at][call[c].m] IN
       /\ row.kind # "pass"
       /\ IF (row.perBuffer /\ call[c].seq = "gone") \/ (row.kind = "sets" /\ call[c].v \notin row.within)
             THEN /\ Ends(c, call[c].gives, "refused", FALSE)
                  /\ UNCHANGED setting
             ELSE /\ Ends(c, call[c].gives, "OK", TRUE)
                  /\ setting' = CASE row.kind = "sets"  -> call[c].v
                                  [] row.kind = "takes" -> 0
                                  [] row.kind = "gets"  -> setting
    /\ UNCHANGED <<topic, queueThere>>

Ready(c) ==
    /\ call[c].at = "done"
    /\ call' = [call EXCEPT ![c] = Waiting]
    /\ UNCHANGED <<topic, queueThere, setting>>

SettingNext ==
    \E c \in Caller :
        \/ \E e \in Entries, v \in Offers(topic), seq \in {"cached", "gone"} : Enters(c, e, v, seq)
        \/ PassesOn(c) \/ Settles(c) \/ Ready(c)

SettingSpec == LayersInit /\ [][SettingNext]_layerVars

-----------------------------------------------------------------------------
(* Methods whose answer does not say whether the value was taken: the       *)
(* window's options, and the buffer name.                                   *)
AnswersBlindly(e) ==
    \/ e[1] = "window" /\ TableOf[e[1]][e[2]].gives = "OK"
    \/ e[2] = "SetBufferName"

(* A caller who is told OK has got its value to where it belongs, and one   *)
(* that is refused has changed nothing, whichever layers it went through.   *)
OkMeansDone ==
    \A c \in Caller :
        call[c].at = "done" =>
            /\ (call[c].answer = "OK" /\ ~AnswersBlindly(call[c].entry)) => call[c].took
            /\ call[c].answer = "refused" => ~call[c].took

(* No way through the layers puts a value into the queue that its readers   *)
(* do not expect: the queue itself checks only some of them.                *)
SettingsInRange ==
    (topic \in DOMAIN Legal /\ setting # NotSet) => setting \in Legal[topic]
=============================================================================
