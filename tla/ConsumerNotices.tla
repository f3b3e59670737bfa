--------------------------- MODULE ConsumerNotices ---------------------------
(***************************************************************************)
(* What the queue tells the consumer's listener.  Transform, tunnel handle  *)
(* and tunnel layer are set by the producer's or the consumer's surface;    *)
(* the queue stores them under mutex_ and calls the listener, in three      *)
(* different ways:                                                          *)
(*   transform  after mutex_ is released, with BufferQueueProducer's mutex_ *)
(*              held around the whole call;                                 *)
(*   handle     with the queue's mutex_ held, so that a listener that reads *)
(*              the handle must do so after its callback;                   *)
(*   layer      after mutex_ is released, with no lock held: the notice     *)
(*              carries the values.                                         *)
(***************************************************************************)
EXTENDS Integers, FiniteSets

CONSTANTS
    Setter,         \* threads that set
    QueueId         \* uniqueId_, never 0

ASSUME QueueIdAssumption == QueueId # 0

VARIABLES
    transform,      \* transform_
    handle,         \* tunnelHandle_
    layer,          \* tunnelLayerId and property of tunnelLayerState_
    listening,      \* listener_ or listenerClazz_ is registered
    setter,         \* setter[t]: the thread's call under way
    toRead,         \* what the listener was told of and has not read yet
    knows,          \* what the consumer takes the three to be
    unsaid,         \* history: the attributes changed since without a notice
    overlapped      \* history: a layer was set while a notice was under way

noticeVars == <<transform, handle, layer, listening, setter, toRead, knows, unsaid, overlapped>>

NoLayer == [id |-> 0, property |-> {}]

(* ResolveTunnelLayerConfig; GAME is in the enumeration and not in the      *)
(* switch, as no number outside the enumeration is.                         *)
Resolved ==
    [NONE        |-> NoLayer,
     LPP         |-> [id |-> QueueId, property |-> {"BUFFER_ADDR", "DEVICE_COMMIT"}],
     HARD_CURSOR |-> [id |-> QueueId, property |-> {"POSTION"}],
     STYLUS      |-> [id |-> QueueId, property |-> {"BUFFER_ADDR"}],
     VIDEO       |-> [id |-> QueueId, property |-> {"BUFFER_ADDR"}],
     ANCO        |-> [id |-> QueueId, property |-> {"BUFFER_ADDR", "WITH_RELEASE_FENCE"}]]

Masks == DOMAIN Resolved \union {"GAME"}

Calm == [at |-> "idle", notice |-> NoLayer]

NoticeInit ==
    /\ transform = "none" /\ handle = "none" /\ layer = NoLayer
    /\ listening = TRUE
    /\ setter = [t \in Setter |-> Calm]
    /\ toRead = {}
    /\ knows = [transform |-> "none", handle |-> "none", layer |-> NoLayer]
    /\ unsaid = {} /\ overlapped = FALSE

Current == [transform |-> transform, handle |-> handle, layer |-> layer]

-----------------------------------------------------------------------------
(* SetTransform: the same transform is no change.                           *)
SetTransform(t, v) ==
    /\ setter[t] = Calm
    /\ \A u \in Setter : setter[u].at # "transformSet"        \* the producer's mutex_
    /\ v # transform
    /\ transform' = v
    /\ setter' = [setter EXCEPT ![t].at = "transformSet"]
    /\ UNCHANGED <<handle, layer, listening, toRead, knows, unsaid, overlapped>>

NotifiesTransform(t) ==
    /\ setter[t].at = "transformSet"
    /\ setter' = [setter EXCEPT ![t] = Calm]
    /\ IF listening THEN toRead' = toRead \union {"transform"} /\ UNCHANGED unsaid
                    ELSE unsaid' = unsaid \union {"transform"} /\ UNCHANGED toRead
    /\ UNCHANGED <<transform, handle, layer, listening, knows, overlapped>>

(* SetTunnelHandle: no handle where there is none, and the same handle, are *)
(* refused.  Without a listener the handle is set and the call fails.       *)
SetTunnelHandle(t, h) ==
    /\ setter[t] = Calm
    /\ h # handle
    /\ handle' = h
    /\ IF listening THEN toRead' = toRead \union {"handle"} /\ UNCHANGED unsaid
                    ELSE unsaid' = unsaid \union {"handle"} /\ UNCHANGED toRead
    /\ UNCHANGED <<transform, layer, listening, setter, knows, overlapped>>

(* SetTunnelLayerInfo under mutex_: a mask that cannot be resolved clears   *)
(* the layer before the call fails, and nobody is told.                     *)
LayerChanges_IdOnly(old, new) == old.id # new.id     \* the properties are not compared
LayerChanges(old, new) == old.id # new.id \/ old.property # new.property

NoticeUnderWay(t) == \E u \in Setter \ {t} : setter[u].at \in {"layerSet", "layerNotice"}

SetTunnelLayerInfo(t, mask) ==
    /\ setter[t] = Calm
    /\ IF mask \in DOMAIN Resolved
          THEN /\ layer' = Resolved[mask]
               /\ setter' = IF LayerChanges(layer, layer')
                               THEN [setter EXCEPT ![t] = [at |-> "layerSet", notice |-> layer']]
                               ELSE setter
               /\ UNCHANGED unsaid
          ELSE /\ layer' = NoLayer
               /\ unsaid' = IF layer = NoLayer THEN unsaid ELSE unsaid \union {"layer"}
               /\ UNCHANGED setter
    /\ overlapped' = (overlapped \/ (NoticeUnderWay(t) /\ layer' # layer))
    /\ UNCHANGED <<transform, handle, listening, toRead, knows>>

(* The listener is looked up, then called.                                  *)
LooksUpListener(t) ==
    /\ setter[t].at = "layerSet"
    /\ IF listening
          THEN /\ setter' = [setter EXCEPT ![t].at = "layerNotice"]
               /\ UNCHANGED unsaid
          ELSE /\ setter' = [setter EXCEPT ![t] = Calm]
               /\ unsaid' = unsaid \union {"layer"}
    /\ UNCHANGED <<transform, handle, layer, listening, toRead, knows, overlapped>>

(* A notice that comes alone sets right what earlier ones left wrong.       *)
NotifiesLayer(t) ==
    /\ setter[t].at = "layerNotice"
    /\ setter' = [setter EXCEPT ![t] = Calm]
    /\ knows' = [knows EXCEPT !.layer = setter[t].notice]
    /\ overlapped' = (overlapped /\ (NoticeUnderWay(t) \/ setter[t].notice # layer))
    /\ unsaid' = IF setter[t].notice = layer THEN unsaid \ {"layer"} ELSE unsaid
    /\ UNCHANGED <<transform, handle, layer, listening, toRead>>

-----------------------------------------------------------------------------
(* The consumer reads what it was told of, after the callback.              *)
ConsumerReads(what) ==
    /\ what \in toRead
    /\ knows' = [knows EXCEPT ![what] = Current[what]]
    /\ toRead' = toRead \ {what}
    /\ UNCHANGED <<transform, handle, layer, listening, setter, unsaid, overlapped>>

(* A consumer unregisters its listener; notices on their way to it go       *)
(* nowhere.                                                                 *)
UnregistersListener ==
    /\ listening
    /\ listening' = FALSE
    /\ toRead' = {}
    /\ setter' = [t \in Setter |-> IF setter[t].at = "layerNotice" THEN Calm ELSE setter[t]]
    /\ unsaid' = unsaid \union {"layer"}
    /\ UNCHANGED <<transform, handle, layer, knows, overlapped>>

(* One that registers a listener reads all three.                           *)
RegistersListener ==
    /\ ~listening
    /\ listening' = TRUE
    /\ knows' = Current
    /\ unsaid' = {}
    /\ UNCHANGED <<transform, handle, layer, setter, toRead, overlapped>>

NoticeNext ==
    \/ \E t \in Setter :
          \/ \E v \in {"none", "rotated"} : SetTransform(t, v)
          \/ NotifiesTransform(t)
          \/ \E h \in {"none", "some"} : SetTunnelHandle(t, h)
          \/ \E mask \in Masks : SetTunnelLayerInfo(t, mask)
          \/ LooksUpListener(t) \/ NotifiesLayer(t)
    \/ \E what \in {"transform", "handle"} : ConsumerReads(what)
    \/ UnregistersListener \/ RegistersListener

NoticeSpec == NoticeInit /\ [][NoticeNext]_noticeVars

-----------------------------------------------------------------------------
(* With no call under way and nothing left to read, a registered listener's *)
(* consumer knows the transform, the tunnel handle and the tunnel layer the *)
(* queue has - the layer unless its last changes crossed, or one was made   *)
(* that SetTunnelLayerInfo tells nobody of.                                 *)
ListenerKnows ==
    (listening /\ toRead = {} /\ \A t \in Setter : setter[t] = Calm) =>
        /\ knows.transform = transform
        /\ knows.handle = handle
        /\ (~overlapped /\ "layer" \notin unsaid) => knows.layer = layer
=============================================================================
