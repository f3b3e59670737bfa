----------------------------- MODULE PartsProofs -----------------------------
(***************************************************************************)
(* Theorems about the parts around the queue: each has its own variables,  *)
(* its own specification and its own invariant, and the theorems hold for  *)
(* every set of threads, windows, surfaces and buffers.                    *)
(***************************************************************************)
EXTENDS SequenceNumbers, ConsumerNotices, WindowMetadata, TransformHints, WindowLifetime, LppSource,
        ReleaseNotices, FrameMatrix, ListLemmas

-----------------------------------------------------------------------------
(* Sequence numbers (SequenceNumbers.tla).  While the numbers do not run    *)
(* out, an object that will give its number back has that number's bit set, *)
(* so that neither the generator nor a buffer that comes home takes it.     *)
Owner(o) == o \in Living /\ Tracked(objects[o].number) /\ ~ objects[o].exist

NumberInv ==
    /\ Living \subseteq BufferObject /\ counter \in Nat
    /\ exhausted \/ /\ OwnersDiffer
                    /\ \A o \in Living : Owner(o) => objects[o].number \in seqBitset

(* The generator finds a number that is idle, if there is one.              *)
LEMMA FirstIdleIsIdle ==
    ASSUME NEW start \in Nat, IdleFrom(start) # {}
    PROVE  FirstIdle(start) \in IdleFrom(start)
<1> DEFINE I == IdleFrom(start)
           D == {Distance(start, n) : n \in I}
<1>1. \A n \in I : n \in Int /\ Distance(start, n) \in Nat
    BY SequenceAssumption DEF IdleFrom, Distance
<1>2. D \in SUBSET Nat /\ D # {}
    BY <1>1
<1>3. PICK d \in D : \A e \in D : d <= e
    BY <1>2, LeastExists
<1>4. \E n \in I : \A other \in I : Distance(start, n) <= Distance(start, other)
    BY <1>3
<1> QED BY <1>4 DEF FirstIdle

(* A new object leaves the others what they were.                           *)
LEMMA WithOneMore ==
    ASSUME NumberInv, Living # BufferObject, NEW number, NEW exist, NEW memory,
           objects' = With(number, exist, memory), NEW u, u = Unborn
    PROVE  /\ Living' = Living \union {u} /\ Living' \subseteq BufferObject
           /\ objects'[u].number = number /\ objects'[u].exist = exist
           /\ \A o \in Living : o # u /\ objects'[o] = objects[o]
<1>1. Unborn \in BufferObject /\ Unborn \notin Living
    BY DEF NumberInv, Unborn
<1> QED BY <1>1 DEF With, Living, NumberInv

(* It may own a number that nobody had taken.                               *)
LEMMA NewOwner ==
    ASSUME NumberInv, ~ exhausted, UNCHANGED pidFits, NEW u, seqBitset \subseteq seqBitset',
           Living' = Living \union {u},
           \A o \in Living : o # u /\ objects'[o] = objects[o],
           Owner(u)' => /\ objects'[u].number \in seqBitset'
                             /\ objects'[u].number \notin seqBitset
    PROVE  OwnersDiffer' /\ \A o \in Living' : Owner(o)' => objects'[o].number \in seqBitset'
<1>1. \A o \in Living : Owner(o)' <=> Owner(o)
    BY DEF Owner, Tracked
<1>2. \A o \in Living : Owner(o) => objects[o].number \in seqBitset
    BY DEF NumberInv
<1>3. \A o, p \in Living : objects[o].number = objects[p].number /\ Owner(o) /\ Owner(p) => o = p
    BY DEF NumberInv, OwnersDiffer, Owner
<1>6. \A o, p \in Living' :
          objects'[o].number = objects'[p].number /\ Owner(o)' /\ Owner(p)' => o = p
    BY <1>1, <1>2, <1>3
<1>7. \A o \in Living' : Owner(o)' => objects'[o].number \in seqBitset'
    BY <1>1, <1>2
<1>8. OwnersDiffer'
    BY <1>6 DEF OwnersDiffer, Owner
<1> QED BY <1>7, <1>8

(* Every step keeps the numbers of the live buffers apart.                  *)
LEMMA NumberStep ==
    ASSUME NumberInv, NumberNext
    PROVE  NumberInv'
<1>1. Living \subseteq BufferObject /\ counter \in Nat
    BY DEF NumberInv
<1> PICK u : u = Unborn
    OBVIOUS
<1>2. CASE CreatesBuffer
    <2> DEFINE start == (counter + 1) % CounterSize
               found == IdleFrom(start) # {}
               number == IF found THEN FirstIdle(start) ELSE start
    <2>1. start \in Nat
        BY <1>1, SequenceAssumption
    <2>2. found => number \in 0 .. MaxSequence - 1 /\ number \notin seqBitset
        BY <2>1, FirstIdleIsIdle DEF IdleFrom
    <2>3. number \in Nat
        BY <2>1, <2>2
    <2>4. found => number % (MaxSequence + 1) = number
        BY <2>2, SequenceAssumption
    <2>5. /\ Living # BufferObject
          /\ objects' = With(number % (MaxSequence + 1), FALSE, NewMemory)
          /\ seqBitset' = IF found THEN seqBitset \union {number} ELSE seqBitset
          /\ counter' = number /\ exhausted' = (exhausted \/ ~ found) /\ pidFits' = pidFits
        BY <1>2 DEF CreatesBuffer
    <2> HIDE DEF number, found, start
    <2>6. /\ Living' = Living \union {u} /\ Living' \subseteq BufferObject
          /\ objects'[u].number = number % (MaxSequence + 1)
          /\ \A o \in Living : o # u /\ objects'[o] = objects[o]
        BY <2>5, WithOneMore
    <2>7. CASE exhausted'
        BY <2>3, <2>5, <2>6, <2>7 DEF NumberInv
    <2>8. CASE ~ exhausted'
        <3>1. objects'[u].number \in seqBitset' /\ objects'[u].number \notin seqBitset
            BY <2>2, <2>4, <2>5, <2>6, <2>8
        <3>2. OwnersDiffer' /\ \A o \in Living' : Owner(o)' => objects'[o].number \in seqBitset'
            BY <2>5, <2>6, <2>8, <3>1, NewOwner
        <3> QED BY <2>3, <2>5, <2>6, <3>2 DEF NumberInv
    <2> QED BY <2>7, <2>8
<1>3. CASE ReadsBuffer
    <2>1. PICK b \in abroad :
              /\ objects' = With(b.number, Tracked(b.number) /\ b.number \in seqBitset, b.memory)
              /\ seqBitset' = IF Tracked(b.number) THEN seqBitset \union {b.number} ELSE seqBitset
        BY <1>3 DEF ReadsBuffer
    <2>2. Living # BufferObject /\ UNCHANGED <<counter, pidFits, exhausted>>
        BY <1>3 DEF ReadsBuffer
    <2>3. /\ Living' = Living \union {u} /\ Living' \subseteq BufferObject
          /\ objects'[u].number = b.number
          /\ objects'[u].exist = (Tracked(b.number) /\ b.number \in seqBitset)
          /\ \A o \in Living : o # u /\ objects'[o] = objects[o]
        BY <2>1, <2>2, WithOneMore
    <2>4. Owner(u)' => /\ objects'[u].number \in seqBitset'
                            /\ objects'[u].number \notin seqBitset
        <3> SUFFICES ASSUME Owner(u)' PROVE b.number \in seqBitset' /\ b.number \notin seqBitset
            BY <2>3
        <3>1. Tracked(b.number) /\ ~ objects'[u].exist
            BY <2>2, <2>3 DEF Owner, Tracked
        <3> QED BY <2>1, <2>3, <3>1
    <2>5. CASE exhausted
        BY <2>2, <2>3, <2>5 DEF NumberInv
    <2>6. CASE ~ exhausted
        BY <2>1, <2>2, <2>3, <2>4, <2>6, NewOwner DEF NumberInv
    <2> QED BY <2>5, <2>6
<1>4. CASE \E o \in Living : DestroysBuffer(o)
    <2>1. PICK o \in Living : DestroysBuffer(o)
        BY <1>4
    <2>2. Living' = Living \ {o} /\ \A x \in Living' : objects'[x] = objects[x]
        BY <2>1 DEF DestroysBuffer, Living
    <2> QED BY <2>1, <2>2
            DEF NumberInv, OwnersDiffer, Owner, Tracked, DestroysBuffer, FreesNumber
<1>5. CASE AbroadForgets \/ \E o \in Living : SendsBuffer(o)
    BY <1>5 DEF AbroadForgets, SendsBuffer, NumberInv, OwnersDiffer, Owner, Living, Tracked
<1> QED BY <1>2, <1>3, <1>4, <1>5 DEF NumberNext

(* Two buffers of a process never both give back one sequence number, until *)
(* the generator found no number idle: the first to be destroyed would free *)
(* the other's (SurfaceBufferImpl, g_seqBitset).                            *)
THEOREM NumbersHaveOneOwner == NumberSpec => []OwnersDiffer
<1>1. NumberInit => NumberInv
    BY DEF NumberInit, NumberInv, OwnersDiffer, Living
<1>2. NumberInv /\ [NumberNext]_numberVars => NumberInv'
    BY NumberStep DEF NumberInv, OwnersDiffer, Owner, Living, Tracked, numberVars
<1>3. NumberInv => OwnersDiffer
    BY DEF NumberInv, OwnersDiffer
<1> QED BY <1>1, <1>2, <1>3, PTL DEF NumberSpec

-----------------------------------------------------------------------------
(* Notices to the consumer (ConsumerNotices.tla).  The listener has been    *)
(* told of what changed or a call is about to tell it; and unless a layer   *)
(* was set while another call was telling it of one, there is one such call *)
(* at most and it tells of the layer the queue has.                         *)
Layers == {Resolved[mask] : mask \in DOMAIN Resolved}

NoticeTypes ==
    /\ transform \in {"none", "rotated"} /\ handle \in {"none", "some"} /\ layer \in Layers
    /\ setter \in [Setter -> [at : {"idle", "transformSet", "layerSet", "layerNotice"},
                              notice : Layers]]
    /\ knows \in [transform : {"none", "rotated"}, handle : {"none", "some"}, layer : Layers]
    /\ overlapped \in BOOLEAN

Telling(t) == setter[t].at \in {"layerSet", "layerNotice"}

TransformKnown ==
    listening /\ "transform" \notin toRead /\ (\A t \in Setter : setter[t].at # "transformSet")
        => knows.transform = transform

HandleKnown == listening /\ "handle" \notin toRead => knows.handle = handle

LayerKnown ==
    ~overlapped =>
        /\ \A t \in Setter : Telling(t) => setter[t].notice = layer /\ ~NoticeUnderWay(t)
        /\ listening /\ "layer" \notin unsaid /\ (\A t \in Setter : ~Telling(t))
             => knows.layer = layer

NoticeInv == NoticeTypes /\ TransformKnown /\ HandleKnown /\ LayerKnown

(* The layer of a surface without consumer.                                 *)
LEMMA NoLayerIsALayer == NoLayer \in Layers
BY DEF Layers, Resolved, NoLayer

(* A layer is its number and its properties.                                *)
LEMMA LayersDiffer ==
    ASSUME NEW k \in Layers, NEW l \in Layers, ~LayerChanges(k, l)
    PROVE  k = l
BY DEF Layers, Resolved, NoLayer, LayerChanges

(* Every step keeps the types.                                              *)
LEMMA NoticeTypesStep ==
    ASSUME NoticeTypes, NoticeNext
    PROVE  NoticeTypes'
<1> HIDE DEF Layers
<1>0. Calm \in [at : {"idle", "transformSet", "layerSet", "layerNotice"}, notice : Layers]
    BY NoLayerIsALayer DEF Calm
<1>1. ASSUME NEW t \in Setter,
             \/ \E v \in {"none", "rotated"} : SetTransform(t, v)
             \/ \E h \in {"none", "some"} : SetTunnelHandle(t, h)
             \/ NotifiesTransform(t) \/ LooksUpListener(t) \/ NotifiesLayer(t)
      PROVE  NoticeTypes'
    <2>1. CASE \E v \in {"none", "rotated"} : SetTransform(t, v)
        BY <2>1 DEF NoticeTypes, SetTransform
    <2>2. CASE \E h \in {"none", "some"} : SetTunnelHandle(t, h)
        BY <2>2 DEF NoticeTypes, SetTunnelHandle
    <2>3. CASE NotifiesTransform(t)
        BY <1>0, <2>3 DEF NoticeTypes, NotifiesTransform
    <2>4. CASE LooksUpListener(t)
        BY <1>0, <2>4 DEF NoticeTypes, LooksUpListener
    <2>5. CASE NotifiesLayer(t)
        <3>1. overlapped' \in BOOLEAN
            BY <2>5 DEF NotifiesLayer
        <3>2. setter[t].notice \in Layers
            BY DEF NoticeTypes
        <3> QED BY <1>0, <2>5, <3>1, <3>2 DEF NoticeTypes, NotifiesLayer
    <2> QED BY <1>1, <2>1, <2>2, <2>3, <2>4, <2>5
<1>2. ASSUME NEW t \in Setter, NEW mask \in Masks, SetTunnelLayerInfo(t, mask)
      PROVE  NoticeTypes'
    <2>1. mask \in DOMAIN Resolved => Resolved[mask] \in Layers
        BY DEF Layers
    <2>2. layer' \in Layers
        BY <1>2, <2>1, NoLayerIsALayer DEF SetTunnelLayerInfo
    <2>3. setter' = setter \/ setter' = [setter EXCEPT ![t] = [at |-> "layerSet", notice |-> layer']]
        BY <1>2 DEF SetTunnelLayerInfo
    <2>4. overlapped' \in BOOLEAN
        BY <1>2 DEF SetTunnelLayerInfo
    <2> QED BY <1>2, <2>2, <2>3, <2>4 DEF NoticeTypes, SetTunnelLayerInfo
<1>3. ASSUME NEW what \in {"transform", "handle"}, ConsumerReads(what)
      PROVE  NoticeTypes'
    <2>1. CASE what = "transform"
        BY <1>3, <2>1 DEF ConsumerReads, NoticeTypes, Current
    <2>2. CASE what = "handle"
        BY <1>3, <2>2 DEF ConsumerReads, NoticeTypes, Current
    <2> QED BY <2>1, <2>2
<1>4. CASE UnregistersListener \/ RegistersListener
    BY <1>4, NoLayerIsALayer DEF NoticeTypes, UnregistersListener, RegistersListener, Current, Calm
<1> QED BY <1>1, <1>2, <1>3, <1>4 DEF NoticeNext

(* Every step keeps the layer known: a change either finds nobody           *)
(* registered or is announced.                                              *)
LEMMA LayerStep ==
    ASSUME NoticeInv, NoticeNext
    PROVE  LayerKnown'
<1>1. NoticeTypes /\ LayerKnown
    BY DEF NoticeInv
<1>2. ASSUME NEW t \in Setter, NEW mask \in Masks, SetTunnelLayerInfo(t, mask)
      PROVE  LayerKnown'
    <2>1. setter[t] = Calm /\ ~Telling(t)
        BY <1>2 DEF SetTunnelLayerInfo, Telling, Calm
    <2>2. UNCHANGED <<listening, knows>> /\ unsaid \subseteq unsaid'
        BY <1>2 DEF SetTunnelLayerInfo
    <2>3. ~overlapped' => ~overlapped /\ (layer' # layer => ~NoticeUnderWay(t))
        BY <1>2 DEF SetTunnelLayerInfo
    <2>4. CASE setter' = setter
        <3>1. layer' # layer => "layer" \in unsaid'
            <4>1. CASE mask \in DOMAIN Resolved
                <5>1. layer' \in Layers /\ layer' = Resolved[mask]
                    BY <1>2, <4>1 DEF SetTunnelLayerInfo, Layers
                <5>2. setter[t].at = "idle"
                    BY <2>1 DEF Calm
                <5>3. ~LayerChanges(layer, layer')
                    BY <1>1, <1>2, <2>4, <4>1, <5>2 DEF SetTunnelLayerInfo, NoticeTypes
                <5> QED BY <1>1, <5>1, <5>3, LayersDiffer DEF NoticeTypes
            <4>2. CASE mask \notin DOMAIN Resolved
                BY <1>2, <4>2 DEF SetTunnelLayerInfo
            <4> QED BY <4>1, <4>2
        <3> QED BY <1>1, <2>1, <2>2, <2>3, <2>4, <3>1 DEF LayerKnown, Telling, NoticeUnderWay
    <2>5. CASE /\ setter' = [setter EXCEPT ![t] = [at |-> "layerSet", notice |-> layer']]
               /\ layer' # layer
        <3>1. /\ setter'[t] = [at |-> "layerSet", notice |-> layer']
              /\ \A u \in Setter \ {t} : setter'[u] = setter[u]
            BY <1>1, <2>5 DEF NoticeTypes
        <3> QED BY <2>3, <2>5, <3>1 DEF LayerKnown, Telling, NoticeUnderWay
    <2>6. LayerChanges(layer, layer') => layer' # layer
        BY DEF LayerChanges
    <2> QED BY <1>2, <2>4, <2>5, <2>6 DEF SetTunnelLayerInfo
<1>3. ASSUME NEW t \in Setter, NotifiesLayer(t)
      PROVE  LayerKnown'
    <2>1. /\ setter'[t].at = "idle"
          /\ \A u \in Setter \ {t} : setter'[u] = setter[u]
          /\ knows'.layer = setter[t].notice
        BY <1>1, <1>3 DEF NoticeTypes, NotifiesLayer, Calm
    <2>2. /\ Telling(t) /\ UNCHANGED <<layer, listening>>
          /\ ~overlapped' => ~overlapped \/ (~NoticeUnderWay(t) /\ setter[t].notice = layer)
        BY <1>3 DEF NotifiesLayer, Telling
    <2>3. ~overlapped' => ~NoticeUnderWay(t) /\ setter[t].notice = layer
        BY <1>1, <2>2 DEF LayerKnown
    <2>4. ~overlapped' => \A u \in Setter : ~Telling(u)'
        BY <2>1, <2>3 DEF Telling, NoticeUnderWay
    <2> QED BY <2>1, <2>2, <2>3, <2>4 DEF LayerKnown
<1>4. ASSUME NEW t \in Setter, LooksUpListener(t)
      PROVE  LayerKnown'
    <2>1. /\ \A u \in Setter \ {t} : setter'[u] = setter[u]
          /\ \/ setter'[t].at = "layerNotice" /\ setter'[t].notice = setter[t].notice
             \/ setter'[t].at = "idle" /\ ~listening
          /\ Telling(t) /\ UNCHANGED <<layer, listening, overlapped>>
        BY <1>1, <1>4 DEF NoticeTypes, LooksUpListener, Calm, Telling
    <2> QED BY <1>1, <2>1 DEF LayerKnown, Telling, NoticeUnderWay
<1>5. ASSUME NEW t \in Setter,
             \/ \E v \in {"none", "rotated"} : SetTransform(t, v)
             \/ \E h \in {"none", "some"} : SetTunnelHandle(t, h)
             \/ NotifiesTransform(t)
      PROVE  LayerKnown'
    <2>1. /\ \A u \in Setter \ {t} : setter'[u] = setter[u]
          /\ ~Telling(t) /\ ~Telling(t)'
        BY <1>1, <1>5 DEF NoticeTypes, SetTransform, SetTunnelHandle, NotifiesTransform, Calm, Telling
    <2>2. /\ UNCHANGED <<layer, listening, overlapped, knows>>
          /\ "layer" \in unsaid => "layer" \in unsaid'
        BY <1>5 DEF SetTransform, SetTunnelHandle, NotifiesTransform
    <2> QED BY <1>1, <2>1, <2>2 DEF LayerKnown, Telling, NoticeUnderWay
<1>6. ASSUME NEW what \in {"transform", "handle"}, ConsumerReads(what)
      PROVE  LayerKnown'
    <2>1. knows'.layer = knows.layer
        BY <1>1, <1>6 DEF NoticeTypes, ConsumerReads
    <2> QED BY <1>1, <1>6, <2>1 DEF ConsumerReads, LayerKnown, Telling, NoticeUnderWay
<1>7. CASE UnregistersListener
    <2>1. \A u \in Setter : Telling(u)' => Telling(u) /\ setter'[u] = setter[u]
        BY <1>7 DEF UnregistersListener, Telling, Calm
    <2> QED BY <1>1, <1>7, <2>1 DEF UnregistersListener, LayerKnown, Telling, NoticeUnderWay
<1>8. CASE RegistersListener
    BY <1>1, <1>8 DEF RegistersListener, LayerKnown, Telling, NoticeUnderWay, Current
<1> QED BY <1>2, <1>3, <1>4, <1>5, <1>6, <1>7, <1>8 DEF NoticeNext

(* Every step keeps what a listener has yet to read readable.               *)
LEMMA ReadableStep ==
    ASSUME NoticeInv, NoticeNext
    PROVE  TransformKnown' /\ HandleKnown'
<1>1. NoticeTypes /\ TransformKnown /\ HandleKnown
    BY DEF NoticeInv
<1>2. ASSUME NEW t \in Setter, \E v \in {"none", "rotated"} : SetTransform(t, v)
      PROVE  TransformKnown' /\ HandleKnown'
    <2>1. setter'[t].at = "transformSet"
        BY <1>1, <1>2 DEF NoticeTypes, SetTransform
    <2> QED BY <1>1, <1>2, <2>1 DEF TransformKnown, HandleKnown, SetTransform
<1>3. ASSUME NEW t \in Setter, NotifiesTransform(t)
      PROVE  TransformKnown' /\ HandleKnown'
    BY <1>1, <1>3 DEF TransformKnown, HandleKnown, NotifiesTransform
<1>4. ASSUME NEW t \in Setter, \E h \in {"none", "some"} : SetTunnelHandle(t, h)
      PROVE  TransformKnown' /\ HandleKnown'
    BY <1>1, <1>4 DEF TransformKnown, HandleKnown, SetTunnelHandle
<1>5. ASSUME NEW t \in Setter, \/ \E mask \in Masks : SetTunnelLayerInfo(t, mask)
                               \/ LooksUpListener(t) \/ NotifiesLayer(t)
      PROVE  TransformKnown' /\ HandleKnown'
    <2>1. \A u \in Setter : setter[u].at = "transformSet" => setter'[u].at = "transformSet"
        BY <1>1, <1>5 DEF NoticeTypes, SetTunnelLayerInfo, LooksUpListener, NotifiesLayer, Calm
    <2>2. /\ knows'.transform = knows.transform /\ knows'.handle = knows.handle
          /\ UNCHANGED <<transform, handle, listening, toRead>>
        BY <1>1, <1>5 DEF NoticeTypes, SetTunnelLayerInfo, LooksUpListener, NotifiesLayer
    <2> QED BY <1>1, <2>1, <2>2 DEF TransformKnown, HandleKnown
<1>6. ASSUME NEW what \in {"transform", "handle"}, ConsumerReads(what)
      PROVE  TransformKnown' /\ HandleKnown'
    <2>1. CASE what = "transform"
        BY <1>1, <1>6, <2>1 DEF NoticeTypes, TransformKnown, HandleKnown, ConsumerReads, Current
    <2>2. CASE what = "handle"
        BY <1>1, <1>6, <2>2 DEF NoticeTypes, TransformKnown, HandleKnown, ConsumerReads, Current
    <2> QED BY <2>1, <2>2
<1>7. CASE UnregistersListener \/ RegistersListener
    BY <1>7 DEF TransformKnown, HandleKnown, UnregistersListener, RegistersListener, Current
<1> QED BY <1>2, <1>3, <1>4, <1>5, <1>6, <1>7 DEF NoticeNext

(* The consumer of a registered listener ends up knowing the transform, the *)
(* tunnel handle and the tunnel layer that the queue has, whichever threads *)
(* set them (SetTransform, SetTunnelHandle, SetTunnelLayerInfo).            *)
THEOREM ConsumerIsTold == NoticeSpec => []ListenerKnows
<1>1. NoticeInit => NoticeInv
    <2> SUFFICES ASSUME NoticeInit PROVE NoticeInv
        OBVIOUS
    <2>1. NoticeTypes
        BY NoLayerIsALayer DEF NoticeInit, NoticeTypes, Calm
    <2>2. TransformKnown /\ HandleKnown /\ LayerKnown
        BY DEF NoticeInit, TransformKnown, HandleKnown, LayerKnown, Telling, Calm
    <2> QED BY <2>1, <2>2 DEF NoticeInv
<1>2. NoticeInv /\ [NoticeNext]_noticeVars => NoticeInv'
    <2>1. NoticeInv /\ UNCHANGED noticeVars => NoticeInv'
        BY DEF NoticeInv, NoticeTypes, TransformKnown, HandleKnown, LayerKnown, Telling,
               NoticeUnderWay, noticeVars
    <2> QED BY <2>1, NoticeTypesStep, LayerStep, ReadableStep DEF NoticeInv
<1>3. NoticeInv => ListenerKnows
    BY DEF NoticeInv, NoticeTypes, TransformKnown, HandleKnown, LayerKnown, Telling, ListenerKnows,
           Calm
<1> QED BY <1>1, <1>2, <1>3, PTL DEF NoticeSpec

-----------------------------------------------------------------------------
(* User data of a surface (WindowMetadata.tla).  What is stored is what was *)
(* asked for, in the same step, and a full map takes nothing more.          *)
Filled == {k \in Keys : data[k] # Empty}

MetadataInv ==
    /\ data = [k \in Keys |-> data[k]] /\ asked = data
    /\ listener = [on |-> listener.on, heard |-> listener.heard] /\ listener.on \in BOOLEAN
    /\ listener.on => listener.heard = data
    /\ IsFiniteSet(Filled) /\ Cardinality(Filled) <= Limit

(* One key more or less.                                                    *)
LEMMA StoresOne ==
    ASSUME MetadataInv, NEW key, NEW v, Accepts(key, v), Stores(key, v),
           asked' = [asked EXCEPT ![key] = v]
    PROVE  MetadataInv'
<1>1. /\ data' = [data EXCEPT ![key] = v] /\ data = [k \in Keys |-> data[k]] /\ asked = data
      /\ listener' = IF listener.on THEN [listener EXCEPT !.heard[key] = v] ELSE listener
      /\ listener = [on |-> listener.on, heard |-> listener.heard] /\ listener.on \in BOOLEAN
      /\ listener.on => listener.heard = data
      /\ IsFiniteSet(Filled) /\ Cardinality(Filled) <= Limit
    BY DEF Stores, MetadataInv
<1>2. data' = [k \in Keys |-> data'[k]] /\ asked' = data'
    BY <1>1
<1>3. Filled' \subseteq Filled \union {key}
    BY <1>1 DEF Filled
<1>4. IsFiniteSet(Filled') /\ Cardinality(Filled') <= Limit
    <2>1. /\ IsFiniteSet(Filled \union {key})
          /\ Cardinality(Filled \union {key}) \in {Cardinality(Filled), Cardinality(Filled) + 1}
        BY <1>1, FS_AddElement
    <2>2. /\ IsFiniteSet(Filled') /\ Cardinality(Filled') <= Cardinality(Filled \union {key})
          /\ Cardinality(Filled') \in Nat /\ Cardinality(Filled) \in Nat
        BY <1>1, <1>3, <2>1, FS_Subset, FS_CardinalityType
    <2>3. Cardinality(Filled) < Limit
        <3>1. ~(Cardinality(Filled) >= Limit)
            BY DEF Accepts, Full, Filled
        <3> QED BY <2>2, <3>1, KeysAssumption
    <2> QED BY <2>1, <2>2, <2>3, KeysAssumption
<1>5. CASE listener.on
    <2>1. listener' = [on |-> listener.on, heard |-> [listener.heard EXCEPT ![key] = v]]
        BY <1>1, <1>5
    <2>2. /\ listener'.on = listener.on /\ listener'.heard = [listener.heard EXCEPT ![key] = v]
          /\ listener' = [on |-> listener'.on, heard |-> listener'.heard]
        BY <2>1
    <2>3. listener'.heard = data'
        BY <1>1, <1>5, <2>2
    <2>4. listener'.on \in BOOLEAN
        BY <1>1, <2>2
    <2> QED BY <1>2, <1>4, <2>2, <2>3, <2>4 DEF MetadataInv
<1>6. CASE ~listener.on
    BY <1>1, <1>2, <1>4, <1>6 DEF MetadataInv
<1> QED BY <1>1, <1>5, <1>6

(* Every step keeps the window's data and the record of the last request    *)
(* together.                                                                *)
LEMMA MetadataStep ==
    ASSUME MetadataInv, MetadataNext
    PROVE  MetadataInv'
<1>1. ASSUME UNCHANGED <<data, listener, asked>>
      PROVE  MetadataInv'
    BY <1>1 DEF MetadataInv, Filled
<1>2. ASSUME NEW t \in Thread, NEW key, NEW name, NEW v, Compares(t, key, name, v)
      PROVE  MetadataInv'
    <2>1. asked' = asked
        <3>1. CASE data[key] = v
            <4>1. asked' = [asked EXCEPT ![key] = asked[key]]
                BY <1>2, <3>1 DEF Compares, Answers, MetadataInv
            <4>2. asked = [k \in Keys |-> asked[k]]
                BY DEF MetadataInv
            <4> QED BY <4>1, <4>2
        <3>2. CASE data[key] # v
            BY <1>2, <3>2 DEF Compares
        <3> QED BY <3>1, <3>2
    <2> QED BY <1>1, <1>2, <2>1 DEF Compares
<1>3. ASSUME NEW t \in Thread, SetsCompared(t)
      PROVE  MetadataInv'
    <2> DEFINE key == comparing[t].key
               v   == comparing[t].value
    <2>1. CASE Accepts(key, v)
        <3>1. Stores(key, v) /\ asked' = [asked EXCEPT ![key] = v]
            BY <1>3, <2>1 DEF SetsCompared, Answers
        <3> HIDE DEF key, v
        <3> QED BY <2>1, <3>1, StoresOne
    <2>2. CASE ~Accepts(key, v)
        BY <1>1, <1>3, <2>2 DEF SetsCompared, Answers
    <2> QED BY <2>1, <2>2
<1>4. ASSUME NEW key \in OtherKeys, NEW v \in {0, 1}, SetUserData(key, v)
      PROVE  MetadataInv'
    BY <1>1, <1>4, StoresOne DEF SetUserData
<1>5. CASE RegisterUserDataChangeListener \/ UnRegisterUserDataChangeListener
    <2>1. /\ listener' = [on |-> TRUE, heard |-> data] \/ listener' = [on |-> FALSE, heard |-> NoData]
          /\ UNCHANGED <<data, asked>>
        BY <1>5 DEF RegisterUserDataChangeListener, UnRegisterUserDataChangeListener
    <2>2. /\ listener' = [on |-> listener'.on, heard |-> listener'.heard] /\ listener'.on \in BOOLEAN
          /\ listener'.on => listener'.heard = data
        <3>1. CASE listener' = [on |-> TRUE, heard |-> data]
            <4>1. listener'.on = TRUE /\ listener'.heard = data
                BY <3>1
            <4> QED BY <3>1, <4>1
        <3>2. CASE listener' = [on |-> FALSE, heard |-> NoData]
            <4>1. listener'.on = FALSE /\ listener'.heard = NoData
                BY <3>2
            <4> QED BY <3>2, <4>1
        <3> QED BY <2>1, <3>1, <3>2
    <2>3. Filled' = Filled
        BY <2>1 DEF Filled
    <2> QED BY <2>1, <2>2, <2>3 DEF MetadataInv
<1>6. ASSUME NEW t \in Thread, GetColorSpace(t) \/ GetMetadataType(t)
      PROVE  MetadataInv'
    <2>1. UNCHANGED <<data, listener, asked>>
        BY <1>6 DEF GetColorSpace, GetMetadataType, Tells
    <2> QED BY <1>1, <2>1
<1> QED BY <1>2, <1>3, <1>4, <1>5, <1>6
        DEF MetadataNext, SetMetadata, SetColorSpace, SetMetadataType

(* Every key of the user data holds what the last Set answered OK asked     *)
(* for, a registered listener has heard of all of it, and the map is within *)
(* its limit (SetUserData, NativeWindowSetColorSpace and the like).         *)
THEOREM DataIsAsAsked == MetadataSpec => []WindowDataAgrees
<1>1. MetadataInit => MetadataInv
    <2> SUFFICES ASSUME MetadataInit PROVE MetadataInv
        OBVIOUS
    <2>1. Filled = {}
        BY DEF MetadataInit, NoData, Filled
    <2> QED BY <2>1, FS_EmptySet, KeysAssumption DEF MetadataInit, MetadataInv, NoData
<1>2. MetadataInv /\ [MetadataNext]_metadataVars => MetadataInv'
    BY MetadataStep DEF MetadataInv, Filled, metadataVars
<1>3. MetadataInv => WindowDataAgrees
    BY DEF MetadataInv, WindowDataAgrees, Filled
<1> QED BY <1>1, <1>2, <1>3, PTL DEF MetadataSpec

-----------------------------------------------------------------------------
(* The transform hint (TransformHints.tla).  What a surface has not been    *)
(* passed by is on its way to it: in the initial information it will take,  *)
(* in the last broadcast of its inbox, or in the answer to its own call.    *)
HintTypes ==
    /\ hint \in Hints
    /\ stage \in [Surface -> {"new", "informed", "registered", "ready", "closed", "dead"}]
    /\ initHint \in [Surface -> Hints] /\ lastHint \in [Surface -> Hints]
    /\ asking \in [Surface -> [at : {"idle", "asked", "answered"}, hint : Hints, ok : BOOLEAN]]
    /\ inbox \in [Surface -> Seq(Hints)]
    /\ listeners \subseteq Surface

EndsWithHint(s) == inbox[s] # <<>> => inbox[s][Len(inbox[s])] = hint

HintOK(s) ==
    /\ asking[s].at # "idle" => stage[s] = "ready"
    /\ asking[s].at = "asked" => ~ asking[s].ok
    /\ stage[s] \in {"new", "informed"} => s \notin listeners
    /\ stage[s] = "informed" /\ s \notin missed => initHint[s] = hint
    /\ stage[s] \in {"new", "informed"} => inbox[s] = <<>>
    /\ s \in listeners \ missed =>
          /\ stage[s] = "registered" => initHint[s] = hint /\ inbox[s] = <<>>
          /\ stage[s] = "ready" =>
                /\ EndsWithHint(s)
                /\ IF asking[s].at = "answered" /\ asking[s].ok
                   THEN asking[s].hint = hint
                   ELSE inbox[s] = <<>> => lastHint[s] = hint

HintInv == HintTypes /\ \A s \in Surface : HintOK(s)

(* The last message of an inbox.                                            *)
LEMMA LastMessage ==
    ASSUME NEW X, NEW q \in Seq(X), NEW e \in X
    PROVE  /\ Append(q, e) \in Seq(X) /\ Append(q, e) # <<>>
           /\ Append(q, e)[Len(Append(q, e))] = e
           /\ q # <<>> => /\ Tail(q) \in Seq(X) /\ Head(q) \in X
                          /\ Tail(q) # <<>> => Tail(q)[Len(Tail(q))] = q[Len(q)]
                          /\ Tail(q) = <<>> => Head(q) = q[Len(q)]
<1>1. Append(q, e) \in Seq(X) /\ Append(q, e) # <<>> /\ Append(q, e)[Len(Append(q, e))] = e
    BY AppendProperties
<1>2. CASE q # <<>>
    <2>1. /\ Tail(q) \in Seq(X) /\ Head(q) \in X /\ Head(q) = q[1] /\ Len(Tail(q)) = Len(q) - 1
          /\ \A i \in 1..Len(Tail(q)) : Tail(q)[i] = q[i+1]
        BY <1>2, HeadTailProperties
    <2>2. Len(q) \in Nat /\ Len(Tail(q)) \in Nat
        BY <2>1, LenProperties
    <2>3. Tail(q) # <<>> => Len(Tail(q)) # 0
        BY <2>1, EmptySeq
    <2>4. Len(<<>>) = 0
        OBVIOUS
    <2> QED BY <1>1, <2>1, <2>2, <2>3, <2>4
<1> QED BY <1>1, <1>2

(* Every step keeps the types.                                              *)
LEMMA HintTypesStep ==
    ASSUME HintTypes, HintStep
    PROVE  HintTypes'
<1>1. Idle \in [at : {"idle", "asked", "answered"}, hint : Hints, ok : BOOLEAN]
    BY HintsAssumption DEF Idle
<1>2. ASSUME NEW s \in Surface,
             \/ ReadsInitInfo(s) \/ RegistersHintListener(s) \/ TakesInitInfo(s)
             \/ ClosesSurface(s) \/ ProcessDies(s) \/ LosesHint(s) \/ LearnsHint(s)
      PROVE  HintTypes'
    <2>1. <<>> \in Seq(Hints)
        OBVIOUS
    <2>2. CASE ReadsInitInfo(s) \/ RegistersHintListener(s)
        BY <2>2 DEF HintTypes, ReadsInitInfo, RegistersHintListener
    <2>3. CASE TakesInitInfo(s)
        BY <2>3 DEF HintTypes, TakesInitInfo
    <2>4. CASE LearnsHint(s)
        BY <1>1, <2>4 DEF HintTypes, LearnsHint
    <2>5. CASE ClosesSurface(s)
        BY <2>1, <2>5 DEF HintTypes, ClosesSurface
    <2>6. CASE ProcessDies(s)
        BY <1>1, <2>1, <2>6 DEF HintTypes, ProcessDies
    <2>7. CASE LosesHint(s)
        BY <2>7 DEF HintTypes, LosesHint
    <2> QED BY <1>2, <2>2, <2>3, <2>4, <2>5, <2>6, <2>7
<1>3. ASSUME NEW h \in Hints, NEW sender, Broadcast(h, sender)
      PROVE  hint' \in Hints /\ inbox' \in [Surface -> Seq(Hints)]
    <2>1. \A s \in Surface : inbox[s] \in Seq(Hints) /\ Append(inbox[s], h) \in Seq(Hints)
        BY LastMessage DEF HintTypes
    <2>2. inbox' = inbox \/ inbox' = [s \in Surface |-> IF s \in {u \in listeners \ {sender} : Live(u)}
                                                       THEN Append(inbox[s], h) ELSE inbox[s]]
        BY <1>3 DEF Broadcast
    <2>3. hint' = hint \/ hint' = h
        BY <1>3 DEF Broadcast
    <2> QED BY <2>1, <2>2, <2>3 DEF HintTypes
<1>4. ASSUME NEW s \in Surface, QueueSetsHint(s)
      PROVE  HintTypes'
    <2>1. asking[s].hint \in Hints
        BY DEF HintTypes
    <2>2. hint' \in Hints /\ inbox' \in [Surface -> Seq(Hints)]
        BY <1>3, <1>4, <2>1 DEF QueueSetsHint
    <2> QED BY <1>4, <2>2 DEF HintTypes, QueueSetsHint
<1>5. ASSUME NEW h \in Hints, ConsumerSetsHint(h)
      PROVE  HintTypes'
    BY <1>3, <1>5 DEF HintTypes, ConsumerSetsHint
<1>6. ASSUME NEW s \in Surface, HintArrives(s)
      PROVE  HintTypes'
    <2>1. inbox[s] \in Seq(Hints) /\ inbox[s] # <<>>
        BY <1>6 DEF HintTypes, HintArrives
    <2>2. Tail(inbox[s]) \in Seq(Hints) /\ Head(inbox[s]) \in Hints
        BY <2>1, LastMessage DEF HintTypes
    <2> QED BY <1>6, <2>2 DEF HintTypes, HintArrives
<1>7. ASSUME NEW s \in Surface, NEW h \in Hints, AsksHint(s, h)
      PROVE  HintTypes'
    BY <1>7 DEF HintTypes, AsksHint
<1> QED BY <1>2, <1>4, <1>5, <1>6, <1>7 DEF HintStep

(* A step of one surface that changes no hint of the queue.                 *)
LEMMA OwnHintStep ==
    ASSUME HintInv, HintTypes', UNCHANGED <<hint, missed>>, NEW s \in Surface, HintOK(s)',
           \A u \in Surface \ {s} : /\ u \in listeners' <=> u \in listeners
                                    /\ stage'[u] = stage[u] /\ initHint'[u] = initHint[u]
                                    /\ lastHint'[u] = lastHint[u] /\ asking'[u] = asking[u]
                                    /\ inbox'[u] = inbox[u]
    PROVE  HintInv'
<1> SUFFICES ASSUME NEW u \in Surface, u # s PROVE HintOK(u)'
    BY DEF HintInv
<1>1. HintOK(u)
    BY DEF HintInv
<1> QED BY <1>1 DEF HintOK, EndsWithHint

(* A broadcast reaches every surface but its sender, or passes it by.       *)
LEMMA BroadcastReaches ==
    ASSUME HintInv, HintTypes', NEW h \in Hints, NEW sender, Broadcast(h, sender),
           UNCHANGED <<listeners, stage, initHint, lastHint>>,
           NEW s \in Surface, s # sender, asking'[s] = asking[s]
    PROVE  HintOK(s)'
<1>1. HintOK(s) /\ HintTypes
    BY DEF HintInv
<1>2. CASE UNCHANGED <<hint, inbox, missed>>
    BY <1>1, <1>2 DEF HintOK, EndsWithHint
<1>3. CASE hint # h
    <2>1. /\ hint' = h
          /\ inbox'[s] = IF s \in listeners /\ Live(s) THEN Append(inbox[s], h) ELSE inbox[s]
          /\ missed' = (missed \ ({u \in listeners \ {sender} : Live(u)} \union {sender}))
                           \union PassedBy(sender)
        BY <1>3 DEF Broadcast
    <2>2. CASE s \notin listeners
        <3>1. Live(s) => s \in missed'
            BY <2>1, <2>2 DEF PassedBy
        <3> QED BY <1>1, <2>1, <2>2, <3>1 DEF HintOK, Live
    <2>3. CASE s \in listeners /\ stage[s] = "registered"
        <3>1. s \in missed'
            BY <2>1, <2>3 DEF PassedBy
        <3> QED BY <1>1, <2>3, <3>1 DEF HintOK
    <2>4. CASE s \in listeners /\ stage[s] = "ready"
        <3>1. Append(inbox[s], h) # <<>> /\ Append(inbox[s], h)[Len(Append(inbox[s], h))] = h
            BY <1>1, LastMessage DEF HintTypes
        <3>2. asking[s].at = "answered" /\ asking[s].ok => s \in missed'
            BY <2>1, <2>4 DEF PassedBy
        <3> QED BY <1>1, <2>1, <2>4, <3>1, <3>2 DEF HintOK, EndsWithHint, Live
    <2>5. CASE s \in listeners /\ stage[s] \notin {"registered", "ready"}
        BY <1>1, <2>1, <2>5 DEF HintOK, HintTypes, Live
    <2> QED BY <2>2, <2>3, <2>4, <2>5
<1> QED BY <1>2, <1>3 DEF Broadcast

(* Every step keeps the copies of the hint on their way.                    *)
LEMMA HintStepKeeps ==
    ASSUME HintInv, HintStep
    PROVE  HintInv'
<1>1. HintTypes /\ HintTypes'
    BY HintTypesStep DEF HintInv
<1>2. ASSUME NEW s \in Surface,
             \/ ReadsInitInfo(s) \/ RegistersHintListener(s) \/ TakesInitInfo(s)
             \/ ClosesSurface(s) \/ ProcessDies(s)
      PROVE  HintInv'
    <2>1. HintOK(s)
        BY DEF HintInv
    <2>2. CASE ReadsInitInfo(s)
        BY <1>1, <2>1, <2>2, OwnHintStep DEF HintTypes, HintOK, EndsWithHint, ReadsInitInfo
    <2>3. CASE RegistersHintListener(s)
        <3>1. HintOK(s)'
            BY <1>1, <2>1, <2>3 DEF HintTypes, HintOK, EndsWithHint, RegistersHintListener
        <3> QED BY <1>1, <2>3, <3>1, OwnHintStep DEF HintTypes, RegistersHintListener
    <2>4. CASE TakesInitInfo(s)
        <3>1. HintOK(s)'
            BY <1>1, <2>1, <2>4 DEF HintTypes, HintOK, EndsWithHint, TakesInitInfo
        <3> QED BY <1>1, <2>4, <3>1, OwnHintStep DEF HintTypes, TakesInitInfo
    <2>5. CASE ClosesSurface(s)
        <3>1. HintOK(s)'
            BY <1>1, <2>1, <2>5 DEF HintTypes, HintOK, EndsWithHint, ClosesSurface, Idle
        <3> QED BY <1>1, <2>5, <3>1, OwnHintStep DEF HintTypes, ClosesSurface
    <2>6. CASE ProcessDies(s)
        <3>1. HintOK(s)'
            BY <1>1, <2>1, <2>6 DEF HintTypes, HintOK, EndsWithHint, ProcessDies, Idle
        <3> QED BY <1>1, <2>6, <3>1, OwnHintStep DEF HintTypes, ProcessDies
    <2> QED BY <1>2, <2>2, <2>3, <2>4, <2>5, <2>6
<1>3. ASSUME NEW s \in Surface,
             (\E h \in Hints : AsksHint(s, h)) \/ LosesHint(s) \/ LearnsHint(s) \/ HintArrives(s)
      PROVE  HintInv'
    <2>1. HintOK(s)
        BY DEF HintInv
    <2>2. CASE \E h \in Hints : AsksHint(s, h)
        <3>1. HintOK(s)'
            BY <1>1, <2>1, <2>2 DEF HintTypes, HintOK, EndsWithHint, AsksHint, Idle
        <3> QED BY <1>1, <2>2, <3>1, OwnHintStep DEF HintTypes, AsksHint
    <2>3. CASE LosesHint(s)
        <3>1. HintOK(s)'
            BY <1>1, <2>1, <2>3 DEF HintTypes, HintOK, EndsWithHint, LosesHint
        <3> QED BY <1>1, <2>3, <3>1, OwnHintStep DEF HintTypes, LosesHint
    <2>4. CASE LearnsHint(s)
        <3>1. HintOK(s)'
            BY <1>1, <2>1, <2>4 DEF HintTypes, HintOK, EndsWithHint, LearnsHint, Idle
        <3> QED BY <1>1, <2>4, <3>1, OwnHintStep DEF HintTypes, LearnsHint
    <2>5. CASE HintArrives(s)
        <3>1. inbox[s] \in Seq(Hints) /\ inbox[s] # <<>>
            BY <1>1, <2>5 DEF HintTypes, HintArrives
        <3>2. /\ Tail(inbox[s]) # <<>> => Tail(inbox[s])[Len(Tail(inbox[s]))] = inbox[s][Len(inbox[s])]
              /\ Tail(inbox[s]) = <<>> => Head(inbox[s]) = inbox[s][Len(inbox[s])]
            BY <1>1, <3>1, LastMessage DEF HintTypes
        <3>3. inbox'[s] = Tail(inbox[s]) /\ lastHint'[s] = Head(inbox[s])
            BY <1>1, <2>5 DEF HintTypes, HintArrives
        <3>4. HintOK(s)'
            BY <2>1, <2>5, <3>1, <3>2, <3>3 DEF HintOK, EndsWithHint, HintArrives
        <3> QED BY <1>1, <2>5, <3>4, OwnHintStep DEF HintTypes, HintArrives
    <2> QED BY <1>3, <2>2, <2>3, <2>4, <2>5
<1>4. ASSUME NEW h \in Hints, ConsumerSetsHint(h)
      PROVE  HintInv'
    <2>1. \A s \in Surface : s # NoSurface /\ asking'[s] = asking[s]
        BY <1>4, HintsAssumption DEF NoSurface, ConsumerSetsHint
    <2>2. \A s \in Surface : HintOK(s)'
        BY <1>1, <1>4, <2>1, BroadcastReaches DEF ConsumerSetsHint
    <2> QED BY <1>1, <2>2 DEF HintInv
<1>5. ASSUME NEW s \in Surface, QueueSetsHint(s)
      PROVE  HintInv'
    <2> DEFINE h == asking[s].hint
    <2>1. h \in Hints /\ HintOK(s) /\ stage[s] = "ready"
        BY <1>1, <1>5 DEF HintTypes, HintInv, HintOK, QueueSetsHint
    <2>2. /\ asking'[s] = [at |-> "answered", hint |-> h, ok |-> TRUE]
          /\ \A u \in Surface : u # s => asking'[u] = asking[u]
          /\ Broadcast(h, s) /\ UNCHANGED <<listeners, stage, initHint, lastHint>>
        BY <1>1, <1>5 DEF HintTypes, QueueSetsHint
    <2>3. \A u \in Surface : u # s => HintOK(u)'
        BY <1>1, <2>1, <2>2, BroadcastReaches
    <2>4. /\ hint' = h /\ inbox'[s] = inbox[s]
          /\ (hint = h /\ missed' = missed) \/ (inbox[s] # <<>> => s \in missed')
        BY <2>2 DEF Broadcast, PassedBy
    <2>5. HintOK(s)'
        BY <2>1, <2>2, <2>4 DEF HintOK, EndsWithHint
    <2> QED BY <1>1, <2>3, <2>5 DEF HintInv
<1> QED BY <1>2, <1>3, <1>4, <1>5 DEF HintStep

(* A surface that has handled its broadcasts and its own answers has the    *)
(* queue's hint, unless the last change passed it by (SetTransformHint,     *)
(* PropertyChangeCallback and Init of ProducerSurface).                     *)
THEOREM CopiesOfHint == HintSpec => []HintsAgree
<1>1. HintInit => HintInv
    <2> SUFFICES ASSUME HintInit PROVE HintInv
        OBVIOUS
    <2>1. HintTypes
        BY HintsAssumption DEF HintInit, HintTypes, Idle
    <2> QED BY <2>1 DEF HintInit, HintInv, HintOK, EndsWithHint, Idle
<1>2. HintInv /\ [HintNext]_hintVars => HintInv'
    BY HintStepKeeps DEF HintInv, HintTypes, HintOK, EndsWithHint, hintVars, HintNext
<1>3. HintInv => HintsAgree
    <2> SUFFICES ASSUME HintInv, NEW s \in listeners \ missed, stage[s] = "ready",
                        asking[s] = Idle, inbox[s] = <<>>
                 PROVE  lastHint[s] = hint
        BY DEF HintsAgree
    <2>1. s \in Surface
        BY DEF HintInv, HintTypes
    <2> QED BY <2>1 DEF HintInv, HintOK, Idle
<1> QED BY <1>1, <1>2, <1>3, PTL DEF HintSpec

-----------------------------------------------------------------------------
(* Native windows (WindowLifetime.tla).  A thread inside a call keeps its   *)
(* window alive, one thread at most destroys it, and a dead window has no   *)
(* handles; what a live window keeps is what the surface has, or the        *)
(* surface could not reach it.                                              *)
UserSet(w) == {t \in App : using[t].w = w /\ using[t].at # "found"}

WindowTypes ==
    /\ life \in [Window -> {"live", "dying", "dead"}]
    /\ refs \in [Window -> Nat]
    /\ registry \in Window \union {NoWindow} /\ weak \in Window \union {NoWindow}
    /\ surfaceCache \in [Number -> Nat] /\ windowCache \in [Window -> [Number -> Nat]]
    /\ made \in Nat
    /\ using \in [App -> [at : {"idle", "created", "added", "found", "dying", "requested"},
                          w : Window \union {NoWindow}, n : Number \union {0}, b : Nat]]

UserOK(t) ==
    LET u == using[t]
    IN  /\ IF u.at = "idle" THEN u.w = NoWindow ELSE u.w \in Window
        /\ u.at \in {"created", "added", "requested"} => life[u.w] = "live"
        /\ u.at = "dying" => life[u.w] = "dying"
        /\ u.at = "requested" => u.n \in Number

LifeInv ==
    /\ \A t \in App : UserOK(t)
    /\ \A t, u \in App : /\ using[t].at = "dying" /\ using[u].at = "dying"
                         /\ using[t].w = using[u].w
                         => t = u
    /\ \A w \in Window : IsFiniteSet(UserSet(w)) /\ (life[w] # "live" => refs[w] = 0)
    /\ registry # NoWindow => life[registry] \in {"live", "dying"}

CacheInv ==
    \A w \in Window, n \in Number :
        /\ life[w] = "dead" => windowCache[w][n] = NoBuffer
        /\ life[w] = "live" /\ <<w, n>> \notin unheard
             => windowCache[w][n] \in {NoBuffer, surfaceCache[n]}

WindowInv == WindowTypes /\ LifeInv /\ CacheInv

(* Only the calling thread moves.                                           *)
LEMMA OthersUsing ==
    ASSUME WindowTypes, NEW t \in App,
           using' = using \/ \E r : using' = [using EXCEPT ![t] = r]
    PROVE  /\ \A u \in App : u # t => using'[u] = using[u]
           /\ \A w \in Window : IsFiniteSet(UserSet(w)) => IsFiniteSet(UserSet(w)')
<1>1. \A u \in App : u # t => using'[u] = using[u]
    BY DEF WindowTypes
<1>2. ASSUME NEW w \in Window, IsFiniteSet(UserSet(w))
      PROVE  IsFiniteSet(UserSet(w)')
    <2>1. UserSet(w)' \subseteq UserSet(w) \union {t}
        BY <1>1 DEF UserSet
    <2> QED BY <1>2, <2>1, FS_AddElement, FS_Subset
<1> QED BY <1>1, <1>2

(* A window with a reference to spare is live; when the reference is the    *)
(* last one, nobody else is inside a call with it.                          *)
LEMMA SpareReference ==
    ASSUME WindowInv, NEW w \in Window, refs[w] > Users(w)
    PROVE  life[w] = "live" /\ (refs[w] = 1 => UserSet(w) = {})
<1>1. IsFiniteSet(UserSet(w)) /\ Users(w) = Cardinality(UserSet(w)) /\ refs[w] \in Nat
    BY DEF WindowInv, WindowTypes, LifeInv, UserSet, Users
<1>2. Cardinality(UserSet(w)) \in Nat
    BY <1>1, FS_CardinalityType
<1>3. life[w] = "live"
    BY <1>1, <1>2 DEF WindowInv, LifeInv
<1>4. refs[w] = 1 => Cardinality(UserSet(w)) = 0
    BY <1>1, <1>2
<1> QED BY <1>1, <1>3, <1>4, FS_EmptySet

(* Every step keeps the types.                                              *)
LEMMA WindowTypesStep ==
    ASSUME WindowInv, WindowNext
    PROVE  WindowTypes'
<1>1. WindowTypes /\ LifeInv
    BY DEF WindowInv
<1> DEFINE Uses == [at : {"idle", "created", "added", "found", "dying", "requested"},
                    w : Window \union {NoWindow}, n : Number \union {0}, b : Nat]
<1>2. /\ Outside \in Uses
      /\ \A at \in {"created", "added", "found", "dying"}, w \in Window :
            [Outside EXCEPT !.at = at, !.w = w] \in Uses
    BY DEF Outside, NoBuffer
<1>3. ASSUME NEW t \in App,
             \/ AddNativeWindow(t) \/ SetWptrNativeWindowToPSurface(t) \/ GetNativeWindow(t)
      PROVE  WindowTypes'
    <2>1. using[t].at # "idle" => using[t].w \in Window
        BY <1>1 DEF LifeInv, UserOK
    <2>2. CASE AddNativeWindow(t)
        BY <1>1, <1>2, <2>1, <2>2 DEF WindowTypes, AddNativeWindow, EntersWindow, cacheVars
    <2>3. CASE SetWptrNativeWindowToPSurface(t)
        BY <1>1, <1>2, <2>1, <2>3 DEF WindowTypes, SetWptrNativeWindowToPSurface, cacheVars
    <2>4. CASE GetNativeWindow(t)
        BY <1>1, <1>2, <2>4 DEF WindowTypes, GetNativeWindow, EntersWindow, cacheVars
    <2> QED BY <1>3, <2>2, <2>3, <2>4
<1>4. ASSUME NEW t \in App, ReferencesFound(t) \/ DestroysWindow(t)
      PROVE  WindowTypes'
    <2>1. NoBuffer \in Nat
        BY DEF NoBuffer
    <2>2. CASE ReferencesFound(t)
        <3>1. refs' \in [Window -> Nat]
            <4> DEFINE w == using[t].w
            <4>1. w \in Window
                BY <1>1, <2>2 DEF ReferencesFound, LifeInv, UserOK
            <4>2. refs' = refs \/ refs' = [refs EXCEPT ![w] = refs[w] + 1]
                BY <2>2 DEF ReferencesFound
            <4>3. refs \in [Window -> Nat] /\ refs[w] + 1 \in Nat
                BY <1>1, <4>1 DEF WindowTypes
            <4> HIDE DEF w
            <4> QED BY <4>2, <4>3
        <3> QED BY <1>1, <1>2, <2>2, <3>1 DEF WindowTypes, ReferencesFound, cacheVars
    <2>3. CASE DestroysWindow(t)
        BY <1>1, <1>2, <2>1, <2>3 DEF WindowTypes, DestroysWindow, RemoveNativeWindow
    <2> QED BY <1>4, <2>2, <2>3
<1>5. ASSUME NEW t \in App, NEW w \in Window, CreateNativeWindow(t, w) \/ NativeObjectUnreference(t, w)
      PROVE  WindowTypes'
    <2>1. CASE CreateNativeWindow(t, w)
        BY <1>1, <1>2, <2>1 DEF WindowTypes, CreateNativeWindow, EntersWindow, cacheVars
    <2>2. CASE NativeObjectUnreference(t, w)
        <3>1. refs[w] - 1 \in Nat
            <4>1. IsFiniteSet(UserSet(w)) /\ Users(w) = Cardinality(UserSet(w)) /\ refs[w] \in Nat
                BY <1>1 DEF WindowTypes, LifeInv, UserSet, Users
            <4>2. Cardinality(UserSet(w)) \in Nat
                BY <4>1, FS_CardinalityType
            <4> QED BY <2>2, <4>1, <4>2 DEF NativeObjectUnreference
        <3>2. refs' \in [Window -> Nat]
            BY <1>1, <2>2, <3>1 DEF WindowTypes, NativeObjectUnreference
        <3>3. life' \in [Window -> {"live", "dying", "dead"}] /\ using' \in [App -> Uses]
            <4>1. \/ UNCHANGED <<life, using>>
                  \/ life' = [life EXCEPT ![w] = "dying"] /\ EntersWindow(t, "dying", w)
                BY <2>2 DEF NativeObjectUnreference
            <4>2. CASE life' = [life EXCEPT ![w] = "dying"] /\ EntersWindow(t, "dying", w)
                <5>1. [Outside EXCEPT !.at = "dying", !.w = w] \in Uses
                    BY <1>2
                <5>2. using \in [App -> Uses] /\ life \in [Window -> {"live", "dying", "dead"}]
                    BY <1>1 DEF WindowTypes
                <5> HIDE DEF Uses
                <5>3. using' \in [App -> Uses]
                    BY <4>2, <5>1, <5>2 DEF EntersWindow
                <5>4. life' \in [Window -> {"live", "dying", "dead"}]
                    BY <4>2, <5>2
                <5> QED BY <5>3, <5>4
            <4> QED BY <1>1, <4>1, <4>2 DEF WindowTypes
        <3> QED BY <1>1, <2>2, <3>2, <3>3 DEF WindowTypes, NativeObjectUnreference, cacheVars
    <2> QED BY <1>5, <2>1, <2>2
<1>6. ASSUME NEW numbers, ForgetsInWindow(numbers)
      PROVE  windowCache' \in [Window -> [Number -> Nat]]
    BY <1>1, <1>6 DEF WindowTypes, ForgetsInWindow, NoBuffer
<1>7. ASSUME NEW t \in App, NEW w \in Window, NEW n \in Number, NEW deleted \in SUBSET Number,
             RequestsBuffer(t, w, n, deleted)
      PROVE  WindowTypes'
    <2>1. windowCache' \in [Window -> [Number -> Nat]]
        BY <1>6, <1>7 DEF RequestsBuffer
    <2> DEFINE b == IF surfaceCache[n] = NoBuffer THEN made + 1 ELSE surfaceCache[n]
    <2>2. /\ b \in Nat /\ made' \in Nat
          /\ surfaceCache' = [m \in Number |-> IF m = n THEN b ELSE IF m \in deleted THEN NoBuffer
                                               ELSE surfaceCache[m]]
          /\ using' = [using EXCEPT ![t] = [at |-> "requested", w |-> w, n |-> n, b |-> b]]
        BY <1>1, <1>7 DEF RequestsBuffer, WindowTypes
    <2> HIDE DEF b
    <2>3. surfaceCache' \in [Number -> Nat]
        BY <1>1, <2>2 DEF WindowTypes, NoBuffer
    <2> QED BY <1>1, <1>7, <2>1, <2>2, <2>3 DEF WindowTypes, RequestsBuffer
<1>8. ASSUME NEW t \in App, AddsToCache(t) \/ CleansWindow(t)
      PROVE  WindowTypes'
    <2>1. CASE AddsToCache(t)
        <3>1. using[t].b \in Nat /\ using[t].w \in Window /\ using[t].n \in Number
            BY <1>1, <2>1 DEF WindowTypes, AddsToCache, LifeInv, UserOK
        <3> QED BY <1>1, <1>2, <2>1, <3>1 DEF WindowTypes, AddsToCache
    <2>2. CASE CleansWindow(t)
        <3>1. windowCache' \in [Window -> [Number -> Nat]]
            BY <1>6, <2>2 DEF CleansWindow
        <3> QED BY <1>1, <2>2, <3>1 DEF WindowTypes, CleansWindow, NoBuffer
    <2> QED BY <1>8, <2>1, <2>2
<1> QED BY <1>3, <1>4, <1>5, <1>7, <1>8 DEF WindowNext

(* What a step must leave true of the threads and the windows.              *)
LEMMA LifeKept ==
    ASSUME WindowInv, WindowTypes', NEW t \in App,
           using' = using \/ \E r : using' = [using EXCEPT ![t] = r],
           \A u \in App : UserOK(u)',
           using'[t].at = "dying" /\ using'[t] # using[t] =>
               \A u \in App : ~(using[u].at = "dying" /\ using[u].w = using'[t].w),
           \A w \in Window : life'[w] # "live" => refs'[w] = 0,
           registry' # NoWindow => life'[registry'] \in {"live", "dying"}
    PROVE  LifeInv'
<1>1. WindowTypes /\ LifeInv
    BY DEF WindowInv
<1>2. /\ \A u \in App : u # t => using'[u] = using[u]
      /\ \A w \in Window : IsFiniteSet(UserSet(w)')
    BY <1>1, OthersUsing DEF LifeInv
<1>3. \A u, v \in App : /\ using'[u].at = "dying" /\ using'[v].at = "dying"
                        /\ using'[u].w = using'[v].w
                        => u = v
    BY <1>1, <1>2 DEF LifeInv
<1> QED BY <1>2, <1>3 DEF LifeInv

(* Every step keeps a window alive that a thread is inside.                 *)
LEMMA LifeStep ==
    ASSUME WindowInv, WindowTypes', WindowNext
    PROVE  LifeInv'
<1>1. WindowTypes /\ LifeInv /\ \A u \in App : UserOK(u)
    BY DEF WindowInv, LifeInv
<1>2. ASSUME NEW t \in App,
             using' = using \/ \E r : using' = [using EXCEPT ![t] = r],
             life' = life, UserOK(t)', using'[t].at = "dying" => using'[t] = using[t],
             \A w \in Window : life[w] # "live" => refs'[w] = 0,
             registry' # NoWindow => life[registry'] \in {"live", "dying"}
      PROVE  LifeInv'
    <2>1. \A u \in App : u # t => UserOK(u)'
        BY <1>1, <1>2, OthersUsing DEF UserOK
    <2> QED BY <1>2, <2>1, LifeKept
<1>3. ASSUME NEW t \in App,
             \/ AddNativeWindow(t) \/ SetWptrNativeWindowToPSurface(t) \/ GetNativeWindow(t)
             \/ ReferencesFound(t) \/ AddsToCache(t) \/ CleansWindow(t)
      PROVE  LifeInv'
    <2>1. UserOK(t) /\ using[t].at # "idle" => using[t].w \in Window
        BY <1>1 DEF UserOK
    <2>2. \A w \in Window : life[w] # "live" => refs[w] = 0
        BY <1>1 DEF LifeInv
    <2>3. registry # NoWindow => registry \in Window /\ life[registry] \in {"live", "dying"}
        BY <1>1 DEF LifeInv, WindowTypes
    <2>4. CASE AddNativeWindow(t)
        <3>1. using'[t].at = "added" /\ using'[t].w = using[t].w
            BY <1>1, <2>4 DEF AddNativeWindow, EntersWindow, WindowTypes, Outside
        <3>2. using[t].w \in Window /\ life[using[t].w] = "live"
            BY <1>1, <2>4 DEF AddNativeWindow, UserOK
        <3>3. life' = life /\ refs' = refs /\ registry' \in {registry, using[t].w}
            BY <2>4 DEF AddNativeWindow
        <3>4. UserOK(t)'
            BY <3>1, <3>2, <3>3 DEF UserOK
        <3>5. \E r : using' = [using EXCEPT ![t] = r]
            BY <2>4 DEF AddNativeWindow, EntersWindow
        <3> QED BY <1>2, <2>2, <2>3, <3>1, <3>2, <3>3, <3>4, <3>5
    <2>5. CASE SetWptrNativeWindowToPSurface(t) \/ ReferencesFound(t) \/ AddsToCache(t)
        <3>1. using' = [using EXCEPT ![t] = Outside] /\ using'[t] = Outside
            BY <1>1, <2>5 DEF SetWptrNativeWindowToPSurface, ReferencesFound, AddsToCache, WindowTypes
        <3>2. UserOK(t)' /\ using'[t].at # "dying"
            BY <3>1 DEF UserOK, Outside
        <3>3. life' = life /\ registry' = registry
            BY <2>5 DEF SetWptrNativeWindowToPSurface, ReferencesFound, AddsToCache
        <3>4. \A w \in Window : life[w] # "live" => refs'[w] = 0
            BY <1>1, <2>2, <2>5
               DEF SetWptrNativeWindowToPSurface, ReferencesFound, AddsToCache, WindowTypes
        <3> QED BY <1>2, <2>3, <3>1, <3>2, <3>3, <3>4
    <2>6. CASE GetNativeWindow(t)
        <3>1. /\ using'[t].at = "found" /\ using'[t].w = registry /\ registry # NoWindow
              /\ UNCHANGED <<life, refs, registry>>
            BY <1>1, <2>6 DEF GetNativeWindow, EntersWindow, WindowTypes, Outside
        <3>2. UserOK(t)'
            BY <2>3, <3>1 DEF UserOK
        <3>3. \E r : using' = [using EXCEPT ![t] = r]
            BY <2>6 DEF GetNativeWindow, EntersWindow
        <3> QED BY <1>2, <2>2, <2>3, <3>1, <3>2, <3>3
    <2>7. CASE CleansWindow(t)
        <3>1. UNCHANGED <<life, refs, registry, using>>
            BY <2>7 DEF CleansWindow
        <3>2. UserOK(t)'
            BY <1>1, <3>1 DEF UserOK
        <3> QED BY <1>2, <2>2, <2>3, <3>1, <3>2
    <2> QED BY <1>3, <2>4, <2>5, <2>6, <2>7
<1>4. ASSUME NEW t \in App, NEW w \in Window, NEW n \in Number, NEW deleted \in SUBSET Number,
             RequestsBuffer(t, w, n, deleted)
      PROVE  LifeInv'
    <2>1. /\ UNCHANGED <<life, refs, registry>> /\ life[w] = "live"
          /\ \E b : using' = [using EXCEPT ![t] = [at |-> "requested", w |-> w, n |-> n, b |-> b]]
        BY <1>4, SpareReference DEF RequestsBuffer
    <2>2. using'[t].at = "requested" /\ using'[t].w = w /\ using'[t].n = n
        BY <1>1, <2>1 DEF WindowTypes
    <2>3. UserOK(t)'
        BY <2>1, <2>2 DEF UserOK
    <2> QED BY <1>1, <1>2, <2>1, <2>2, <2>3 DEF LifeInv
<1>5. ASSUME NEW t \in App, NEW w \in Window, CreateNativeWindow(t, w)
      PROVE  LifeInv'
    <2>1. /\ life[w] = "dead" /\ life' = [life EXCEPT ![w] = "live"]
          /\ refs' = [refs EXCEPT ![w] = 1] /\ registry' = registry
          /\ using'[t].at = "created" /\ using'[t].w = w
          /\ \E r : using' = [using EXCEPT ![t] = r]
        BY <1>1, <1>5 DEF CreateNativeWindow, EntersWindow, WindowTypes, Outside
    <2>2. \A v \in Window : life'[v] = IF v = w THEN "live" ELSE life[v]
        BY <1>1, <2>1 DEF WindowTypes
    <2>3. \A u \in App : u # t => using'[u] = using[u]
        BY <1>1, <2>1, OthersUsing
    <2>4. \A u \in App : UserOK(u)'
        BY <1>1, <2>1, <2>2, <2>3 DEF UserOK
    <2>5. \A v \in Window : life'[v] # "live" => refs'[v] = 0
        BY <1>1, <2>1, <2>2 DEF LifeInv, WindowTypes
    <2>6. registry' # NoWindow => life'[registry'] \in {"live", "dying"}
        BY <1>1, <2>1, <2>2 DEF LifeInv, WindowTypes
    <2> QED BY <2>1, <2>4, <2>5, <2>6, LifeKept
<1>6. ASSUME NEW t \in App, NEW w \in Window, NativeObjectUnreference(t, w)
      PROVE  LifeInv'
    <2>1. /\ life[w] = "live" /\ (refs[w] = 1 => UserSet(w) = {}) /\ registry' = registry
          /\ refs' = [refs EXCEPT ![w] = @ - 1]
        BY <1>6, SpareReference DEF NativeObjectUnreference
    <2>2. CASE refs[w] # 1
        <3>1. UNCHANGED <<life, using>>
            BY <1>6, <2>2 DEF NativeObjectUnreference
        <3>2. UserOK(t)'
            BY <1>1, <3>1 DEF UserOK
        <3>3. \A v \in Window : life[v] # "live" => refs'[v] = 0
            BY <1>1, <2>1 DEF LifeInv, WindowTypes
        <3> QED BY <1>1, <1>2, <2>1, <3>1, <3>2, <3>3 DEF LifeInv
    <2>3. CASE refs[w] = 1
        <3>1. /\ life' = [life EXCEPT ![w] = "dying"]
              /\ using'[t].at = "dying" /\ using'[t].w = w
              /\ \E r : using' = [using EXCEPT ![t] = r]
            <4>1. life' = [life EXCEPT ![w] = "dying"] /\ EntersWindow(t, "dying", w)
                BY <1>6, <2>3 DEF NativeObjectUnreference
            <4>2. /\ using'[t] = [Outside EXCEPT !.at = "dying", !.w = w]
                  /\ \E r : using' = [using EXCEPT ![t] = r]
                BY <1>1, <4>1 DEF EntersWindow, WindowTypes
            <4> QED BY <4>1, <4>2 DEF Outside
        <3>2. \A v \in Window : /\ life'[v] = IF v = w THEN "dying" ELSE life[v]
                                /\ refs'[v] = IF v = w THEN 0 ELSE refs[v]
            BY <1>1, <2>1, <2>3, <3>1 DEF WindowTypes
        <3>3. \A u \in App : u # t => using'[u] = using[u]
            BY <1>1, <3>1, OthersUsing
        <3>4. \A u \in App : using[u].w = w => using[u].at = "found"
            BY <2>1, <2>3 DEF UserSet
        <3>5. \A u \in App : UserOK(u)'
            BY <1>1, <3>1, <3>2, <3>3, <3>4 DEF UserOK
        <3>6. \A v \in Window : life'[v] # "live" => refs'[v] = 0
            BY <1>1, <3>2 DEF LifeInv
        <3>7. registry' # NoWindow => life'[registry'] \in {"live", "dying"}
            BY <1>1, <2>1, <3>2 DEF LifeInv, WindowTypes
        <3> QED BY <3>1, <3>4, <3>5, <3>6, <3>7, LifeKept
    <2> QED BY <2>2, <2>3
<1>7. ASSUME NEW t \in App, DestroysWindow(t)
      PROVE  LifeInv'
    <2> DEFINE w == using[t].w
    <2>1. w \in Window /\ life[w] = "dying"
        BY <1>1, <1>7 DEF DestroysWindow, UserOK
    <2>2. /\ life' = [life EXCEPT ![w] = "dead"] /\ refs' = refs /\ registry' = NoWindow
          /\ using' = [using EXCEPT ![t] = Outside] /\ using'[t] = Outside
        BY <1>1, <1>7 DEF DestroysWindow, RemoveNativeWindow, WindowTypes
    <2>3. \A v \in Window : life'[v] = IF v = w THEN "dead" ELSE life[v]
        BY <1>1, <2>2 DEF WindowTypes
    <2>4. \A u \in App : u # t => using'[u] = using[u]
        BY <1>1, <2>2, OthersUsing
    <2>5. \A u \in App : u # t /\ using[u].w = w => using[u].at = "found"
        <3> SUFFICES ASSUME NEW u \in App, u # t, using[u].w = w, using[u].at # "found" PROVE FALSE
            OBVIOUS
        <3>1. using[u].at # "dying"
            BY <1>1, <1>7 DEF LifeInv, DestroysWindow
        <3>2. using[u].at # "idle"
            BY <1>1, <2>1, WindowsAssumption DEF UserOK, NoWindow
        <3> QED BY <1>1, <2>1, <3>1, <3>2 DEF WindowTypes, UserOK
    <2>6. UserOK(t)' /\ using'[t].at # "dying"
        BY <2>2 DEF UserOK, Outside
    <2> HIDE DEF w
    <2>7. \A u \in App : UserOK(u)'
        BY <1>1, <2>3, <2>4, <2>5, <2>6 DEF UserOK
    <2>8. \A v \in Window : life'[v] # "live" => refs'[v] = 0
        BY <1>1, <2>1, <2>2, <2>3 DEF LifeInv
    <2> QED BY <2>2, <2>6, <2>7, <2>8, LifeKept
<1> QED BY <1>3, <1>4, <1>5, <1>6, <1>7 DEF WindowNext

(* The surface deletes numbers, in its cache and in the window it knows.    *)
LEMMA ForgottenOrUnheard ==
    ASSUME WindowTypes, CacheInv, NEW numbers \in SUBSET Number, ForgetsInWindow(numbers),
           unheard' = unheard \union Unreached(numbers), life' = life,
           \A m \in Number \ numbers : surfaceCache[m] # NoBuffer => surfaceCache'[m] = surfaceCache[m],
           NEW w \in Window, NEW n \in Number
    PROVE  /\ life'[w] = "dead" => windowCache'[w][n] = NoBuffer
           /\ life'[w] = "live" /\ <<w, n>> \notin unheard'
                => windowCache'[w][n] \in {NoBuffer, surfaceCache'[n]}
<1>1. /\ life[w] = "dead" => windowCache[w][n] = NoBuffer
      /\ life[w] = "live" /\ <<w, n>> \notin unheard => windowCache[w][n] \in {NoBuffer, surfaceCache[n]}
    BY DEF CacheInv
<1>2. CASE w = weak /\ life[weak] = "live" /\ weak # NoWindow
    <2>1. windowCache'[w][n] = IF n \in numbers THEN NoBuffer ELSE windowCache[w][n]
        BY <1>2 DEF ForgetsInWindow, WindowTypes
    <2> QED BY <1>1, <1>2, <2>1
<1>3. CASE ~(w = weak /\ life[weak] = "live" /\ weak # NoWindow)
    <2>1. windowCache'[w] = windowCache[w]
        BY <1>3 DEF ForgetsInWindow, WindowTypes
    <2>2. n \in numbers /\ w # weak /\ windowCache[w][n] # NoBuffer => <<w, n>> \in unheard'
        BY DEF Unreached
    <2>3. w # NoWindow
        BY WindowsAssumption DEF NoWindow
    <2> QED BY <1>1, <1>3, <2>1, <2>2, <2>3
<1> QED BY <1>2, <1>3

(* Every step keeps the cache of windows in step with the windows.          *)
LEMMA CacheStep ==
    ASSUME WindowInv, WindowNext
    PROVE  CacheInv'
<1>1. WindowTypes /\ LifeInv /\ CacheInv
    BY DEF WindowInv
<1> SUFFICES ASSUME NEW w \in Window, NEW n \in Number
             PROVE  /\ life'[w] = "dead" => windowCache'[w][n] = NoBuffer
                    /\ life'[w] = "live" /\ <<w, n>> \notin unheard'
                         => windowCache'[w][n] \in {NoBuffer, surfaceCache'[n]}
    BY DEF CacheInv
<1>2. /\ life[w] = "dead" => windowCache[w][n] = NoBuffer
      /\ life[w] = "live" /\ <<w, n>> \notin unheard => windowCache[w][n] \in {NoBuffer, surfaceCache[n]}
    BY <1>1 DEF CacheInv
<1>3. ASSUME NEW t \in App,
             \/ AddNativeWindow(t) \/ SetWptrNativeWindowToPSurface(t) \/ GetNativeWindow(t)
             \/ ReferencesFound(t)
      PROVE  UNCHANGED <<life, windowCache, surfaceCache, unheard>>
    BY <1>3 DEF AddNativeWindow, SetWptrNativeWindowToPSurface, GetNativeWindow, ReferencesFound,
                cacheVars
<1>4. ASSUME NEW t \in App, NEW v \in Window, CreateNativeWindow(t, v) \/ NativeObjectUnreference(t, v)
      PROVE  /\ life'[w] = "dead" => windowCache'[w][n] = NoBuffer
             /\ life'[w] = "live" /\ <<w, n>> \notin unheard'
                  => windowCache'[w][n] \in {NoBuffer, surfaceCache'[n]}
    <2>1. UNCHANGED <<windowCache, surfaceCache, unheard>>
        BY <1>4 DEF CreateNativeWindow, NativeObjectUnreference, cacheVars
    <2>2. \/ life' = life
          \/ life' = [life EXCEPT ![v] = "live"] /\ life[v] = "dead"
          \/ life' = [life EXCEPT ![v] = "dying"]
        BY <1>4 DEF CreateNativeWindow, NativeObjectUnreference
    <2>3. life'[w] = life[w] \/ (life'[w] = "live" /\ life[w] = "dead") \/ life'[w] = "dying"
        BY <1>1, <2>2 DEF WindowTypes
    <2> QED BY <1>2, <2>1, <2>3
<1>5. ASSUME NEW t \in App, DestroysWindow(t)
      PROVE  /\ life'[w] = "dead" => windowCache'[w][n] = NoBuffer
             /\ life'[w] = "live" /\ <<w, n>> \notin unheard'
                  => windowCache'[w][n] \in {NoBuffer, surfaceCache'[n]}
    <2>1. \/ life'[w] = "dead" /\ windowCache'[w] = [m \in Number |-> NoBuffer] /\ w = using[t].w
          \/ life'[w] = life[w] /\ windowCache'[w] = windowCache[w] /\ w # using[t].w
        BY <1>1, <1>5 DEF DestroysWindow, WindowTypes
    <2>2. /\ surfaceCache' = surfaceCache
          /\ w # using[t].w /\ <<w, n>> \notin unheard' => <<w, n>> \notin unheard
        BY <1>5 DEF DestroysWindow
    <2> QED BY <1>2, <2>1, <2>2
<1>6. ASSUME NEW t \in App, NEW v \in Window, NEW k \in Number, NEW deleted \in SUBSET Number,
             RequestsBuffer(t, v, k, deleted)
      PROVE  /\ life'[w] = "dead" => windowCache'[w][n] = NoBuffer
             /\ life'[w] = "live" /\ <<w, n>> \notin unheard'
                  => windowCache'[w][n] \in {NoBuffer, surfaceCache'[n]}
    <2>1. /\ ForgetsInWindow(deleted) /\ unheard' = unheard \union Unreached(deleted) /\ life' = life
          /\ \A m \in Number \ deleted :
                 surfaceCache[m] # NoBuffer => surfaceCache'[m] = surfaceCache[m]
        BY <1>1, <1>6 DEF RequestsBuffer, WindowTypes
    <2> QED BY <1>1, <2>1, ForgottenOrUnheard
<1>7. ASSUME NEW t \in App, AddsToCache(t)
      PROVE  /\ life'[w] = "dead" => windowCache'[w][n] = NoBuffer
             /\ life'[w] = "live" /\ <<w, n>> \notin unheard'
                  => windowCache'[w][n] \in {NoBuffer, surfaceCache'[n]}
    <2> DEFINE u == using[t]
    <2>1. u.w \in Window /\ u.n \in Number /\ life[u.w] = "live"
        BY <1>1, <1>7 DEF AddsToCache, LifeInv, UserOK
    <2>2. /\ UNCHANGED <<life, surfaceCache>> /\ unheard \subseteq unheard'
          /\ surfaceCache[u.n] # u.b => <<u.w, u.n>> \in unheard'
        BY <1>7 DEF AddsToCache
    <2>3. windowCache'[w][n] = IF w = u.w /\ n = u.n /\ windowCache[w][n] = NoBuffer
                               THEN u.b ELSE windowCache[w][n]
        BY <1>1, <1>7, <2>1 DEF AddsToCache, WindowTypes
    <2> HIDE DEF u
    <2> QED BY <1>2, <2>1, <2>2, <2>3
<1>8. ASSUME NEW t \in App, CleansWindow(t)
      PROVE  /\ life'[w] = "dead" => windowCache'[w][n] = NoBuffer
             /\ life'[w] = "live" /\ <<w, n>> \notin unheard'
                  => windowCache'[w][n] \in {NoBuffer, surfaceCache'[n]}
    <2>1. /\ ForgetsInWindow(Number) /\ unheard' = unheard \union Unreached(Number) /\ life' = life
        BY <1>8 DEF CleansWindow
    <2> QED BY <1>1, <2>1, ForgottenOrUnheard
<1> QED BY <1>2, <1>3, <1>4, <1>5, <1>6, <1>7, <1>8 DEF WindowNext

(* The registry names no window whose memory is gone, and a live window's   *)
(* handles are for the surface's buffers but for those the surface could    *)
(* not delete (NativeWindow, ProducerSurface::wpNativeWindow_).             *)
THEOREM WindowsKeepStep == WindowSpec => []WindowsAgree
<1>1. WindowInit => WindowInv
    <2> SUFFICES ASSUME WindowInit PROVE WindowInv
        OBVIOUS
    <2>1. WindowTypes
        BY DEF WindowInit, WindowTypes, Outside, NoBuffer
    <2>2. \A w \in Window : UserSet(w) = {}
        BY WindowsAssumption DEF WindowInit, UserSet, Outside, NoWindow
    <2>3. LifeInv
        BY <2>2, FS_EmptySet DEF WindowInit, LifeInv, UserOK, Outside
    <2>4. CacheInv
        BY DEF WindowInit, CacheInv
    <2> QED BY <2>1, <2>3, <2>4 DEF WindowInv
<1>2. WindowInv /\ [WindowNext]_windowVars => WindowInv'
    <2>1. WindowInv /\ UNCHANGED windowVars => WindowInv'
        <3> SUFFICES ASSUME WindowInv, UNCHANGED windowVars
                     PROVE  WindowInv'
            OBVIOUS
        <3>1. UNCHANGED <<life, refs, registry, weak, surfaceCache, windowCache, made, using, unheard>>
            BY DEF windowVars
        <3>2. WindowTypes' /\ CacheInv'
            BY <3>1 DEF WindowInv, WindowTypes, CacheInv
        <3>3. \A w \in Window : UserSet(w)' = UserSet(w)
            BY <3>1 DEF UserSet
        <3>4. \A t \in App : UserOK(t)' = UserOK(t)
            BY <3>1 DEF UserOK
        <3>5. LifeInv'
            BY <3>1, <3>3, <3>4 DEF WindowInv, LifeInv
        <3> QED BY <3>2, <3>5 DEF WindowInv
    <2> QED BY <2>1, WindowTypesStep, LifeStep, CacheStep DEF WindowInv
<1>3. WindowInv => WindowsAgree
    BY DEF WindowInv, LifeInv, CacheInv, WindowsAgree
<1> QED BY <1>1, <1>2, <1>3, PTL DEF WindowSpec

-----------------------------------------------------------------------------
(* The LPP ring (LppSource.tla).  lppFenceMap_ has every frame that is      *)
(* shown, but those let go by force, and the slots it names are marked and  *)
(* still hold their buffers, unless another frame overtook the mark; it has *)
(* no room for more than the limit while a slot is being taken; a copied    *)
(* slot is as it was copied, or has a later frame and no mark; and the ring *)
(* shows a frame the consumer has not taken by its write offset, or by a    *)
(* later time stamp in the slot where the offset was.                       *)
Slot == [buf : LppBuffer \union {"nobuffer"}, stamp : Nat, used : BOOLEAN]

RingTypes ==
    /\ slots \in [SlotIndex -> Slot] /\ writeOffset \in SlotIndex
    /\ picked \in SlotIndex \union {NoSlot} /\ frames \in Nat
    /\ copied = NoCopy \/ picked # NoSlot
    /\ lppState \in [LppBuffer -> {"REQUESTED", "ACQUIRED", "PENDING", "RELEASED", "NONE"}]
    /\ DOMAIN fenceMap \subseteq LppBuffer

KeptMarked ==
    \A b \in DOMAIN fenceMap :
        /\ fenceMap[b] \in SlotIndex
        /\ fenceMap[b] \notin overtaken => slots[fenceMap[b]].buf = b /\ InUse(fenceMap[b])
        /\ picked # NoSlot => lppState[b] # "NONE"

ShownKept == \A b \in LppBuffer \ forced : Shown(b) => b \in DOMAIN fenceMap

FewOut ==
    /\ IsFiniteSet(DOMAIN fenceMap)
    /\ Cardinality(DOMAIN fenceMap) <= MaxAcquired + 1
    /\ picked # NoSlot => Cardinality(DOMAIN fenceMap) <= MaxAcquired

CopyHolds ==
    copied # NoCopy =>
        /\ copied.frame \in 0..frames
        /\ \/ slots[picked].stamp = copied.frame /\ slots[picked].buf = copied.buf
           \/ slots[picked].stamp > copied.frame /\ ~InUse(picked)

(* What is known of the ring when the offset was "at", the slot there had   *)
(* the time stamp, and slot r was read.                                     *)
Follows(at, stamp, r) ==
    /\ at \in SlotIndex /\ stamp \in 0..frames
    /\ slots[at].stamp > stamp \/ (writeOffset = at /\ (unseen => r # Newest))

NewestTaken ==
    /\ \A i \in SlotIndex : slots[i].stamp <= frames
    /\ lastWrite.at # NoSlot => Follows(lastWrite.at, lastWrite.stamp, readOffset)
    /\ copied # NoCopy => Follows(copied.at, copied.stamp, picked)
    /\ outcome = "no update" => ~unseen

LppInv == RingTypes /\ KeptMarked /\ ShownKept /\ FewOut /\ CopyHolds /\ NewestTaken

(* Both offsets of the ring are slots of it.                                *)
LEMMA OffsetsInRing ==
    ASSUME writeOffset \in SlotIndex
    PROVE  /\ (writeOffset + 1) % SlotSize \in SlotIndex /\ Newest \in SlotIndex
           /\ 0 \in SlotIndex /\ NoSlot \notin SlotIndex
BY RingAssumption DEF SlotIndex, Newest, NoSlot

(* CheckLppFenceLocked leaves a smaller map, and the mark of every slot it  *)
(* still names and no frame overtook.                                       *)
LEMMA CheckedRing ==
    ASSUME RingTypes, KeptMarked, NEW map, map = fenceMap \/ DOMAIN map = {}, ChecksFences(map)
    PROVE  /\ slots' \in [SlotIndex -> Slot] /\ DOMAIN fenceMap' = Kept(map)
           /\ \A i \in SlotIndex : slots'[i].buf = slots[i].buf /\ slots'[i].stamp = slots[i].stamp
           /\ \A b \in Kept(map) :
                 /\ fenceMap'[b] = fenceMap[b] /\ fenceMap[b] \in SlotIndex
                 /\ fenceMap[b] \notin overtaken =>
                       slots'[fenceMap[b]].buf = b /\ slots'[fenceMap[b]].used
<1>1. \A i \in SlotIndex : slots[i] \in Slot
    BY DEF RingTypes
<1>2. slots' = [i \in SlotIndex |-> [slots[i] EXCEPT !.used = slots[i].used /\ slots[i].buf \in Kept(map)
          /\ ~(\E b \in DOMAIN map \ Kept(map) : map[b] = i /\ lppState[b] # "NONE")]]
    BY DEF ChecksFences, AfterCheck
<1>3. \A i \in SlotIndex :
          /\ slots'[i] \in Slot /\ slots'[i].buf = slots[i].buf /\ slots'[i].stamp = slots[i].stamp
          /\ slots'[i].used <=> /\ slots[i].used /\ slots[i].buf \in Kept(map)
                                /\ ~(\E b \in DOMAIN map \ Kept(map) : map[b] = i /\ lppState[b] # "NONE")
    BY <1>1, <1>2 DEF Slot
<1>4. slots' \in [SlotIndex -> Slot]
    BY <1>2, <1>3
<1>5. DOMAIN fenceMap' = Kept(map) /\ \A b \in Kept(map) : fenceMap'[b] = map[b]
    BY DEF ChecksFences, Trimmed
<1>6. \A b \in Kept(map) : map = fenceMap /\ b \in DOMAIN fenceMap
    BY DEF Kept
<1>7. \A b \in Kept(map) : fenceMap[b] \in SlotIndex
    BY <1>6 DEF KeptMarked
<1>8. ASSUME NEW b \in Kept(map), fenceMap[b] \notin overtaken
      PROVE  slots'[fenceMap[b]].buf = b /\ slots'[fenceMap[b]].used
    <2>1. fenceMap[b] \in SlotIndex /\ slots[fenceMap[b]].buf = b /\ slots[fenceMap[b]].used
        BY <1>6, <1>8 DEF KeptMarked, InUse
    <2>2. \A c \in DOMAIN map : map[c] = fenceMap[b] => c = b
        BY <1>6, <1>8, <2>1 DEF KeptMarked
    <2> QED BY <1>3, <1>8, <2>1, <2>2
<1> QED BY <1>3, <1>4, <1>5, <1>6, <1>7, <1>8

(* The hardware writes a slot that is not marked.                           *)
LEMMA WriteStep ==
    ASSUME LppInv, NEW b \in LppBuffer, HardwareWrites(b)
    PROVE  LppInv'
<1>1. RingTypes /\ KeptMarked /\ ShownKept /\ FewOut /\ CopyHolds /\ NewestTaken
    BY DEF LppInv
<1>2. /\ writeOffset \in SlotIndex /\ (writeOffset + 1) % SlotSize \in SlotIndex
      /\ ~ slots[writeOffset].used /\ frames \in Nat /\ frames' = frames + 1
      /\ UNCHANGED <<lppState, fenceMap, lastWrite, picked, copied, forced, overtaken>>
      /\ outcome' = "none"
    BY <1>1, OffsetsInRing DEF RingTypes, HardwareWrites, InUse
<1>3. /\ slots' \in [SlotIndex -> Slot]
      /\ slots'[writeOffset].stamp = frames + 1 /\ ~ slots'[writeOffset].used
      /\ \A i \in SlotIndex \ {writeOffset} : slots'[i] = slots[i]
    BY <1>1, <1>2 DEF HardwareWrites, RingTypes, Slot
<1>4. RingTypes'
    BY <1>1, <1>2, <1>3 DEF RingTypes, HardwareWrites
<1>5. KeptMarked'
    BY <1>1, <1>2, <1>3 DEF KeptMarked, InUse
<1>6. ShownKept' /\ FewOut'
    BY <1>1, <1>2 DEF ShownKept, Shown, FewOut
<1>7. NewestTaken'
    <2>1. \A i \in SlotIndex : slots[i].stamp \in Nat /\ slots[i].stamp <= frames
        BY <1>1 DEF RingTypes, Slot, NewestTaken
    <2>2. \A i \in SlotIndex : slots'[i].stamp <= frames'
        BY <1>2, <1>3, <2>1
    <2>3. ASSUME NEW at, NEW stamp, NEW r, Follows(at, stamp, r)
          PROVE  at \in SlotIndex /\ stamp \in 0..frames' /\ slots'[at].stamp > stamp
        BY <1>2, <1>3, <2>1, <2>3 DEF Follows
    <2> HIDE DEF NoCopy
    <2>4. ASSUME lastWrite.at # NoSlot
          PROVE  Follows(lastWrite.at, lastWrite.stamp, readOffset)'
        <3>1. Follows(lastWrite.at, lastWrite.stamp, readOffset)
            BY <1>1, <2>4 DEF NewestTaken
        <3>2. /\ lastWrite.at \in SlotIndex /\ lastWrite.stamp \in 0..frames'
              /\ slots'[lastWrite.at].stamp > lastWrite.stamp
            BY <2>3, <3>1
        <3>3. lastWrite' = lastWrite
            BY <1>2
        <3> QED BY <3>2, <3>3 DEF Follows
    <2>5. copied # NoCopy => Follows(copied.at, copied.stamp, picked)'
        BY <1>1, <1>2, <2>3 DEF NewestTaken, Follows
    <2> QED BY <1>2, <2>2, <2>4, <2>5 DEF NewestTaken
<1>8. CopyHolds'
    <2> SUFFICES ASSUME copied # NoCopy
                 PROVE  /\ copied.frame \in 0..frames'
                        /\ \/ slots'[picked].stamp = copied.frame /\ slots'[picked].buf = copied.buf
                           \/ slots'[picked].stamp > copied.frame /\ ~ slots'[picked].used
        BY <1>2 DEF CopyHolds, InUse
    <2>1. picked \in SlotIndex /\ copied.frame \in 0..frames
        BY <1>1 DEF RingTypes, CopyHolds
    <2>2. CASE picked = writeOffset
        BY <1>2, <1>3, <2>1, <2>2
    <2>3. CASE picked # writeOffset
        BY <1>1, <1>2, <1>3, <2>1, <2>3 DEF CopyHolds, InUse
    <2> QED BY <2>2, <2>3
<1> QED BY <1>4, <1>5, <1>6, <1>7, <1>8 DEF LppInv

(* A smaller number exceeds the limit by no more.                           *)
LEMMA NoMoreThanOneOver ==
    \A a, b, m \in Nat : a <= b => (b <= m => a <= m) /\ (b <= m + 1 => a <= m + 1)
OBVIOUS

(* A step that keeps the ring's frames, and lets the map shrink to no less  *)
(* than what is shown.                                                      *)
LEMMA ShrinkStep ==
    ASSUME LppInv, slots' \in [SlotIndex -> Slot],
           UNCHANGED <<writeOffset, readOffset, frames, lastWrite, copied, unseen>>, copied = NoCopy,
           \A i \in SlotIndex : slots'[i].stamp = slots[i].stamp,
           outcome' # "no update" \/ outcome' = outcome,
           picked' \in SlotIndex \union {NoSlot}
    PROVE  /\ NewestTaken' /\ CopyHolds'
           /\ DOMAIN fenceMap' \subseteq DOMAIN fenceMap /\ (picked' = picked \/ picked' = NoSlot)
                => FewOut'
<1>1. NewestTaken' /\ CopyHolds'
    BY DEF LppInv, NewestTaken, Follows, Newest, CopyHolds
<1>2. ASSUME DOMAIN fenceMap' \subseteq DOMAIN fenceMap, picked' = picked \/ picked' = NoSlot
      PROVE  FewOut'
    <2>1. /\ IsFiniteSet(DOMAIN fenceMap') /\ Cardinality(DOMAIN fenceMap') <= Cardinality(DOMAIN fenceMap)
          /\ Cardinality(DOMAIN fenceMap') \in Nat /\ Cardinality(DOMAIN fenceMap) \in Nat
        BY <1>2, FS_Subset, FS_CardinalityType DEF LppInv, FewOut
    <2>2. /\ MaxAcquired \in Nat /\ Cardinality(DOMAIN fenceMap) <= MaxAcquired + 1
          /\ picked # NoSlot => Cardinality(DOMAIN fenceMap) <= MaxAcquired
        BY RingAssumption DEF LppInv, FewOut
    <2>4. /\ Cardinality(DOMAIN fenceMap') <= MaxAcquired + 1
          /\ picked # NoSlot => Cardinality(DOMAIN fenceMap') <= MaxAcquired
        BY <2>1, <2>2, NoMoreThanOneOver, Zenon
    <2> QED BY <1>2, <2>1, <2>4 DEF FewOut
<1> QED BY <1>1, <1>2

(* PicksSlot: it goes on only with few enough buffers out.                  *)
LEMMA PickStep ==
    ASSUME LppInv, PicksSlot
    PROVE  LppInv'
<1>1. RingTypes /\ KeptMarked /\ ShownKept /\ FewOut
    BY DEF LppInv
<1>2. /\ ChecksFences(fenceMap) /\ picked = NoSlot /\ copied = NoCopy
      /\ UNCHANGED <<writeOffset, readOffset, frames, lastWrite, copied, unseen, lppState, forced, overtaken>>
      /\ \/ /\ Cardinality(Kept(fenceMap)) <= MaxAcquired
            /\ picked' = Newest /\ outcome' = "none"
         \/ picked' = picked /\ outcome' = "too many"
    BY <1>1 DEF PicksSlot, RingTypes
<1>3. /\ slots' \in [SlotIndex -> Slot] /\ DOMAIN fenceMap' = Kept(fenceMap)
      /\ \A i \in SlotIndex : slots'[i].buf = slots[i].buf /\ slots'[i].stamp = slots[i].stamp
      /\ \A b \in Kept(fenceMap) :
            /\ fenceMap'[b] = fenceMap[b] /\ fenceMap[b] \in SlotIndex
            /\ fenceMap[b] \notin overtaken =>
                  slots'[fenceMap[b]].buf = b /\ slots'[fenceMap[b]].used
    <2> PICK map : map = fenceMap
        OBVIOUS
    <2> QED BY <1>1, <1>2, CheckedRing
<1>4. Kept(fenceMap) \subseteq DOMAIN fenceMap /\ \A b \in Kept(fenceMap) : Shown(b)
    BY DEF Kept
<1>5. picked' \in SlotIndex \union {NoSlot} /\ RingTypes'
    <2>1. picked' \in SlotIndex \union {NoSlot}
        BY <1>1, <1>2, OffsetsInRing DEF RingTypes
    <2> QED BY <1>1, <1>2, <1>3, <1>4, <2>1 DEF RingTypes
<1>6. KeptMarked'
    BY <1>2, <1>3, <1>4 DEF KeptMarked, InUse, Shown
<1>7. ShownKept'
    BY <1>1, <1>2, <1>3 DEF ShownKept, Shown, Kept
<1>8. NewestTaken' /\ CopyHolds'
    BY <1>2, <1>3, <1>5, ShrinkStep
<1>9. FewOut'
    <2>1. CASE picked' = picked
        BY <1>2, <1>3, <1>4, <1>5, <2>1, ShrinkStep
    <2>2. CASE picked' = Newest /\ Cardinality(Kept(fenceMap)) <= MaxAcquired
        <3>1. IsFiniteSet(DOMAIN fenceMap') /\ Cardinality(DOMAIN fenceMap') \in Nat
            BY <1>1, <1>3, <1>4, FS_Subset, FS_CardinalityType DEF FewOut
        <3>2. Cardinality(DOMAIN fenceMap') <= MaxAcquired /\ MaxAcquired \in Nat
            BY <1>3, <2>2, RingAssumption
        <3> QED BY <3>1, <3>2 DEF FewOut
    <2> QED BY <1>2, <2>1, <2>2
<1> QED BY <1>5, <1>6, <1>7, <1>8, <1>9 DEF LppInv

(* CopiesRing: nothing new, or a copy of the frame to take.                 *)
LEMMA CopyStep ==
    ASSUME LppInv, CopiesRing
    PROVE  LppInv'
<1>1. RingTypes /\ KeptMarked /\ ShownKept /\ FewOut /\ CopyHolds /\ NewestTaken
    BY DEF LppInv
<1>2. /\ picked \in SlotIndex /\ picked # NoSlot /\ copied = NoCopy
      /\ UNCHANGED <<slots, readOffset, writeOffset, lppState, fenceMap, lastWrite, frames, forced, overtaken>>
    BY <1>1 DEF CopiesRing, RingTypes, ring
<1>3. /\ \A i \in SlotIndex : slots[i].stamp \in Nat /\ slots[i].stamp <= frames
      /\ frames \in Nat /\ writeOffset \in SlotIndex
    BY <1>1 DEF RingTypes, Slot, NewestTaken
<1>4. CASE NoUpdate
    <2>1. picked' = NoSlot /\ outcome' = "no update" /\ copied' = copied /\ unseen' = unseen
        BY <1>4 DEF CopiesRing
    <2>2. ~unseen
        <3>1. Follows(lastWrite.at, lastWrite.stamp, readOffset)
            BY <1>1, <1>4 DEF NewestTaken, NoUpdate
        <3>2. slots[lastWrite.at].stamp = lastWrite.stamp /\ readOffset = Newest
            BY <1>4 DEF NoUpdate
        <3> QED BY <1>3, <3>1, <3>2 DEF Follows
    <2>3. NewestTaken' /\ CopyHolds'
        BY <1>1, <1>2, <2>1, <2>2 DEF NewestTaken, Follows, Newest, CopyHolds
    <2>4. RingTypes' /\ KeptMarked' /\ ShownKept'
        BY <1>1, <1>2, <2>1 DEF RingTypes, KeptMarked, InUse, ShownKept, Shown
    <2>5. FewOut'
        <3>1. /\ IsFiniteSet(DOMAIN fenceMap) /\ Cardinality(DOMAIN fenceMap) \in Nat /\ MaxAcquired \in Nat
              /\ Cardinality(DOMAIN fenceMap) <= MaxAcquired
            BY <1>1, <1>2, FS_CardinalityType, RingAssumption DEF FewOut
        <3>2. Cardinality(DOMAIN fenceMap) <= MaxAcquired + 1
            BY <3>1
        <3> QED BY <1>2, <2>1, <3>1, <3>2 DEF FewOut
    <2> QED BY <2>3, <2>4, <2>5 DEF LppInv
<1>5. CASE ~NoUpdate
    <2>1. /\ copied' = [buf |-> slots[picked].buf, frame |-> slots[picked].stamp,
                        at |-> writeOffset, stamp |-> slots[writeOffset].stamp]
          /\ unseen' = (unseen /\ picked # Newest)
          /\ picked' = picked /\ outcome' = outcome
        BY <1>5 DEF CopiesRing
    <2>2. /\ copied'.buf = slots[picked].buf /\ copied'.frame = slots[picked].stamp
          /\ copied'.at = writeOffset /\ copied'.stamp = slots[writeOffset].stamp
        BY <2>1
    <2>3. unseen' => unseen /\ picked # Newest
        BY <2>1
    <2> HIDE DEF NoCopy
    <2>4. CopyHolds'
        BY <1>2, <1>3, <2>1, <2>2 DEF CopyHolds
    <2>5. Follows(copied.at, copied.stamp, picked)'
        BY <1>2, <1>3, <2>1, <2>2, <2>3 DEF Follows, Newest
    <2>6. lastWrite.at # NoSlot => Follows(lastWrite.at, lastWrite.stamp, readOffset)'
        BY <1>1, <1>2, <2>3 DEF NewestTaken, Follows, Newest
    <2>7. NewestTaken'
        BY <1>1, <1>2, <2>1, <2>3, <2>5, <2>6 DEF NewestTaken
    <2>8. RingTypes' /\ KeptMarked' /\ ShownKept' /\ FewOut'
        BY <1>1, <1>2, <2>1 DEF RingTypes, KeptMarked, InUse, ShownKept, Shown, FewOut
    <2> QED BY <2>4, <2>7, <2>8 DEF LppInv
<1> QED BY <1>4, <1>5

(* TakesSlot: a buffer the queue does not know, or a frame.                 *)
LEMMA TakeStep ==
    ASSUME LppInv, TakesSlot
    PROVE  LppInv'
<1> DEFINE b == copied.buf
<1>1. RingTypes /\ KeptMarked /\ ShownKept /\ FewOut /\ CopyHolds /\ NewestTaken
    BY DEF LppInv
<1>2. /\ copied # NoCopy /\ picked \in SlotIndex /\ picked # NoSlot
      /\ picked' = NoSlot /\ copied' = NoCopy
      /\ slots[picked] \in Slot
      /\ readOffset' = picked /\ lastWrite' = [at |-> copied.at, stamp |-> copied.stamp]
      /\ UNCHANGED <<writeOffset, frames, unseen>>
      /\ outcome' \in {"not cached", "OK"}
    BY <1>1 DEF TakesSlot, RingTypes
<1>3. CopyHolds'
    BY <1>2 DEF CopyHolds
<1>4. /\ copied.frame \in 0..frames
      /\ \/ slots[picked].stamp = copied.frame /\ slots[picked].buf = b
         \/ slots[picked].stamp > copied.frame /\ ~ slots[picked].used
    BY <1>1, <1>2 DEF CopyHolds, InUse
<1>5. ASSUME \A i \in SlotIndex : slots'[i].stamp = slots[i].stamp
      PROVE  NewestTaken'
    <2>1. Follows(copied.at, copied.stamp, picked)
        BY <1>1, <1>2 DEF NewestTaken
    <2>2. lastWrite'.at = copied.at /\ lastWrite'.stamp = copied.stamp
        BY <1>2
    <2>3. Follows(lastWrite.at, lastWrite.stamp, readOffset)'
        BY <1>2, <1>5, <2>1, <2>2 DEF Follows, Newest
    <2>4. \A i \in SlotIndex : slots'[i].stamp <= frames'
        BY <1>1, <1>2, <1>5 DEF NewestTaken
    <2> QED BY <1>2, <2>3, <2>4 DEF NewestTaken
<1>6. CASE ~(b \in LppBuffer /\ lppState[b] # "NONE")
    <2>1. slots' = [slots EXCEPT ![picked].used = FALSE] /\ UNCHANGED <<lppState, fenceMap, forced, overtaken>>
        BY <1>6 DEF TakesSlot
    <2>2. /\ slots' \in [SlotIndex -> Slot]
          /\ \A i \in SlotIndex : slots'[i].stamp = slots[i].stamp
          /\ \A i \in SlotIndex \ {picked} : slots'[i] = slots[i]
        BY <1>1, <1>2, <2>1 DEF RingTypes, Slot
    <2>3. \A c \in DOMAIN fenceMap : fenceMap[c] \notin overtaken => fenceMap[c] \in SlotIndex \ {picked}
        <3> SUFFICES ASSUME NEW c \in DOMAIN fenceMap, fenceMap[c] \notin overtaken, fenceMap[c] = picked
                     PROVE  FALSE
            BY <1>1 DEF KeptMarked
        <3>1. c \in LppBuffer /\ c = slots[picked].buf /\ slots[picked].used /\ lppState[c] # "NONE"
            BY <1>1, <1>2 DEF KeptMarked, RingTypes, InUse
        <3> QED BY <1>4, <1>6, <3>1
    <2>4. RingTypes'
        BY <1>1, <1>2, <2>1, <2>2 DEF RingTypes
    <2>5. KeptMarked' /\ ShownKept'
        BY <1>1, <1>2, <2>1, <2>2, <2>3 DEF KeptMarked, InUse, ShownKept, Shown
    <2>6. Cardinality(DOMAIN fenceMap) \in Nat /\ MaxAcquired \in Nat
        BY <1>1, FS_CardinalityType, RingAssumption DEF FewOut
    <2>7. FewOut'
        BY <1>1, <1>2, <2>1, <2>6 DEF FewOut
    <2> QED BY <1>3, <1>5, <2>2, <2>4, <2>5, <2>7 DEF LppInv
<1>7. CASE b \in LppBuffer /\ lppState[b] # "NONE"
    <2>1. /\ slots' = [slots EXCEPT ![picked].used = TRUE]
          /\ lppState' = [lppState EXCEPT ![b] = "ACQUIRED"]
          /\ fenceMap' = [c \in DOMAIN fenceMap \union {b} |-> IF c = b THEN picked ELSE fenceMap[c]]
          /\ forced' = forced \ {b}
          /\ overtaken' = IF slots[picked].stamp = copied.frame THEN overtaken ELSE overtaken \union {picked}
        BY <1>7 DEF TakesSlot
    <2>2. /\ slots' \in [SlotIndex -> Slot] /\ slots'[picked].used
          /\ \A i \in SlotIndex : slots'[i].stamp = slots[i].stamp /\ slots'[i].buf = slots[i].buf
          /\ \A i \in SlotIndex \ {picked} : slots'[i] = slots[i]
        BY <1>1, <1>2, <2>1 DEF RingTypes, Slot
    <2>3. overtaken \subseteq overtaken' /\ (picked \notin overtaken' => slots[picked].buf = b)
        <3>1. slots[picked].stamp = copied.frame => slots[picked].buf = b
            <4>1. slots[picked].stamp \in Nat /\ frames \in Nat /\ copied.frame \in 0..frames
                BY <1>1, <1>2, <1>4 DEF RingTypes, Slot
            <4> QED BY <1>4, <4>1
        <3> QED BY <2>1, <3>1
    <2> HIDE DEF b
    <2>4. RingTypes'
        BY <1>1, <1>2, <1>7, <2>1, <2>2 DEF RingTypes
    <2>5. /\ DOMAIN fenceMap' = DOMAIN fenceMap \union {b} /\ fenceMap'[b] = picked
          /\ \A c \in DOMAIN fenceMap \ {b} : fenceMap'[c] = fenceMap[c]
        BY <2>1
    <2>6. KeptMarked'
        <3> SUFFICES ASSUME NEW c \in DOMAIN fenceMap'
                     PROVE  /\ fenceMap'[c] \in SlotIndex
                            /\ fenceMap'[c] \notin overtaken' =>
                                  slots'[fenceMap'[c]].buf = c /\ slots'[fenceMap'[c]].used
            BY <1>2 DEF KeptMarked, InUse
        <3>1. CASE c = b
            BY <1>2, <2>2, <2>3, <2>5, <3>1
        <3>2. CASE c # b
            <4>1. c \in DOMAIN fenceMap /\ fenceMap'[c] = fenceMap[c]
                BY <2>5, <3>2
            <4>2. /\ fenceMap[c] \in SlotIndex
                  /\ fenceMap[c] \notin overtaken => slots[fenceMap[c]].buf = c /\ slots[fenceMap[c]].used
                BY <1>1, <4>1 DEF KeptMarked, InUse
            <4>3. slots[fenceMap[c]].used => slots'[fenceMap[c]].used
                BY <2>2, <4>2
            <4> QED BY <2>2, <2>3, <4>1, <4>2, <4>3
        <3> QED BY <3>1, <3>2
    <2>7. \A c \in LppBuffer \ {b} : lppState'[c] = lppState[c]
        BY <1>1, <2>1 DEF RingTypes
    <2>8. ShownKept'
        BY <1>1, <2>1, <2>5, <2>7 DEF ShownKept, Shown
    <2>9. FewOut'
        <3>1. /\ IsFiniteSet(DOMAIN fenceMap) /\ Cardinality(DOMAIN fenceMap) \in Nat /\ MaxAcquired \in Nat
              /\ Cardinality(DOMAIN fenceMap) <= MaxAcquired
            BY <1>1, <1>2, FS_CardinalityType, RingAssumption DEF FewOut
        <3>2. /\ IsFiniteSet(DOMAIN fenceMap \union {b})
              /\ Cardinality(DOMAIN fenceMap \union {b}) \in {Cardinality(DOMAIN fenceMap),
                                                              Cardinality(DOMAIN fenceMap) + 1}
            BY <3>1, FS_AddElement
        <3>3. Cardinality(DOMAIN fenceMap \union {b}) <= MaxAcquired + 1
            BY <3>1, <3>2
        <3>4. picked' = NoSlot
            BY <1>2
        <3> QED BY <2>5, <3>2, <3>3, <3>4 DEF FewOut
    <2> QED BY <1>3, <1>5, <2>2, <2>4, <2>6, <2>8, <2>9 DEF LppInv
<1> QED BY <1>6, <1>7

(* The consumer's releases, the fences and the cleanings.                   *)
LEMMA ReturnStep ==
    ASSUME LppInv, NEW b \in LppBuffer,
           \/ \E st \in {"RELEASED", "PENDING"} : ReleasesLpp(b, st)
           \/ FenceSignals(b) \/ ForgetsLpp(b)
    PROVE  LppInv'
<1>1. RingTypes /\ KeptMarked /\ ShownKept /\ FewOut /\ CopyHolds /\ NewestTaken
    BY DEF LppInv
<1>2. /\ UNCHANGED <<slots, writeOffset, readOffset, frames, lastWrite, unseen, fenceMap, picked, copied,
                      outcome, overtaken>>
      /\ \E st \in {"RELEASED", "PENDING", "NONE"} :
            /\ lppState' = [lppState EXCEPT ![b] = st]
            /\ st = "PENDING" => lppState[b] = "ACQUIRED" /\ forced' = forced
            /\ st = "NONE" => picked = NoSlot
      /\ forced \ {b} \subseteq forced' /\ forced' \subseteq forced
    BY DEF ReleasesLpp, FenceSignals, ForgetsLpp, ring
<1>3. PICK st \in {"RELEASED", "PENDING", "NONE"} :
            /\ lppState' = [lppState EXCEPT ![b] = st]
            /\ st = "PENDING" => lppState[b] = "ACQUIRED" /\ forced' = forced
            /\ st = "NONE" => picked = NoSlot
    BY <1>2
<1>4. lppState'[b] = st /\ \A c \in LppBuffer \ {b} : lppState'[c] = lppState[c]
    BY <1>1, <1>3 DEF RingTypes
<1>5. RingTypes'
    BY <1>1, <1>2, <1>3 DEF RingTypes
<1>6. KeptMarked'
    BY <1>1, <1>2, <1>3, <1>4 DEF KeptMarked, InUse, RingTypes
<1>7. ShownKept'
    <2> SUFFICES ASSUME NEW c \in LppBuffer, c \notin forced', Shown(c)'
                 PROVE  c \in DOMAIN fenceMap
        BY <1>2 DEF ShownKept
    <2>1. Shown(c)
        BY <1>3, <1>4 DEF Shown
    <2>2. c = b => st = "PENDING"
        BY <1>3, <1>4 DEF Shown
    <2>3. c \notin forced
        BY <1>2, <1>3, <2>2
    <2> QED BY <1>1, <2>1, <2>3 DEF ShownKept
<1>8. FewOut' /\ CopyHolds' /\ NewestTaken'
    BY <1>1, <1>2 DEF FewOut, CopyHolds, InUse, NewestTaken, Follows, Newest
<1> QED BY <1>5, <1>6, <1>7, <1>8 DEF LppInv

(* Mapping other memory, and the hardware's frames: every mark may go, but  *)
(* then the buffers that are shown are known to be let go.                  *)
LEMMA LetGoStep ==
    ASSUME LppInv,
           \/ \E on \in BOOLEAN : SetLppShareFd(on)
           \/ \E isShbSource \in BOOLEAN : SetLppDrawSource(isShbSource)
    PROVE  LppInv'
<1>1. RingTypes /\ KeptMarked /\ ShownKept /\ FewOut /\ CopyHolds /\ NewestTaken
    BY DEF LppInv
<1>2. /\ UNCHANGED <<writeOffset, readOffset, frames, lastWrite, unseen, lppState, picked, copied, outcome,
                      overtaken>>
      /\ picked = NoSlot /\ copied = NoCopy
    BY <1>1 DEF SetLppShareFd, SetLppDrawSource, RingTypes
<1>3. /\ slots' \in [SlotIndex -> Slot]
      /\ \A i \in SlotIndex : slots'[i].stamp = slots[i].stamp
      /\ \/ slots' = slots /\ fenceMap' = fenceMap /\ forced' = forced
         \/ DOMAIN fenceMap' = {} /\ \A b \in LppBuffer : Shown(b) => b \in forced'
    <2>1. CASE \E on \in BOOLEAN : SetLppShareFd(on)
        <3>1. PICK on \in BOOLEAN : SetLppShareFd(on)
            BY <2>1
        <3>2. slots' = [i \in SlotIndex |-> [slots[i] EXCEPT !.used = slots[i].used /\ ~on]]
            BY <3>1 DEF SetLppShareFd
        <3>3. slots \in [SlotIndex -> Slot]
            BY <1>1 DEF RingTypes
        <3>4. slots' \in [SlotIndex -> Slot] /\ \A i \in SlotIndex : slots'[i].stamp = slots[i].stamp
            BY <3>2, <3>3 DEF Slot
        <3>5. DOMAIN fenceMap' = {} /\ \A b \in LppBuffer : Shown(b) => b \in forced'
            BY <3>1 DEF SetLppShareFd, LetsGo
        <3> QED BY <3>4, <3>5
    <2>2. CASE \E isShbSource \in BOOLEAN : SetLppDrawSource(isShbSource)
        <3> DEFINE map == [b \in {} |-> NoSlot]
        <3>1. \/ ChecksFences(map) /\ LetsGo(fenceMap')
              \/ UNCHANGED <<slots, fenceMap, forced>>
            BY <2>2 DEF SetLppDrawSource
        <3>2. DOMAIN map = {} /\ Kept(map) = {}
            BY DEF Kept
        <3> HIDE DEF map
        <3>3. CASE ChecksFences(map) /\ LetsGo(fenceMap')
            <4>1. /\ slots' \in [SlotIndex -> Slot] /\ DOMAIN fenceMap' = {}
                  /\ \A i \in SlotIndex : slots'[i].stamp = slots[i].stamp
                BY <1>1, <3>2, <3>3, CheckedRing
            <4> QED BY <3>3, <4>1 DEF LetsGo
        <3>4. CASE UNCHANGED <<slots, fenceMap, forced>>
            BY <1>1, <3>4 DEF RingTypes
        <3> QED BY <3>1, <3>3, <3>4
    <2> QED BY <2>1, <2>2
<1>4. RingTypes'
    BY <1>1, <1>2, <1>3 DEF RingTypes
<1>5. KeptMarked' /\ ShownKept'
    BY <1>1, <1>2, <1>3 DEF KeptMarked, InUse, ShownKept, Shown
<1>6. picked' \in SlotIndex \union {NoSlot} /\ DOMAIN fenceMap' \subseteq DOMAIN fenceMap
    BY <1>1, <1>2, <1>3 DEF RingTypes
<1>7. FewOut' /\ NewestTaken' /\ CopyHolds'
    BY <1>2, <1>3, <1>6, ShrinkStep
<1> QED BY <1>4, <1>5, <1>7 DEF LppInv

(* A frame that is shown keeps a marked slot, unless the hardware went      *)
(* round the ring between its copy and its mark; the consumer gets no more  *)
(* than the limit and one; and "no update" is the truth (AcquireLppBuffer,  *)
(* CheckLppFenceLocked).                                                    *)
THEOREM ShownFramesAreSafe == LppSpec => []RingIsSafe
<1>1. LppInit => LppInv
    <2> SUFFICES ASSUME LppInit PROVE LppInv
        OBVIOUS
    <2>1. 0 \in SlotIndex
        BY RingAssumption DEF SlotIndex
    <2>2. RingTypes
        BY <2>1 DEF LppInit, RingTypes, Slot
    <2>3. DOMAIN fenceMap = {} /\ \A b \in LppBuffer : ~ Shown(b)
        BY DEF LppInit, Shown
    <2>4. FewOut
        BY <2>3, FS_EmptySet, RingAssumption DEF FewOut
    <2>5. NewestTaken /\ CopyHolds
        BY DEF LppInit, NewestTaken, CopyHolds
    <2> QED BY <2>2, <2>3, <2>4, <2>5 DEF LppInv, KeptMarked, ShownKept
<1>2. LppInv /\ [LppNext]_lppVars => LppInv'
    <2> SUFFICES ASSUME LppInv, [LppNext]_lppVars PROVE LppInv'
        OBVIOUS
    <2>1. CASE UNCHANGED lppVars
        <3>1. UNCHANGED <<slots, readOffset, writeOffset, lppState, fenceMap, lastWrite, picked, copied,
                          outcome, frames, unseen, forced, overtaken>>
            BY <2>1 DEF lppVars, ring
        <3> QED BY <3>1 DEF LppInv, RingTypes, KeptMarked, InUse, ShownKept, Shown, FewOut, CopyHolds,
                            NewestTaken, Follows, Newest
    <2> QED BY <2>1, WriteStep, PickStep, CopyStep, TakeStep, ReturnStep, LetGoStep DEF LppNext
<1>3. LppInv => RingIsSafe
    <2> SUFFICES ASSUME LppInv PROVE RingIsSafe
        OBVIOUS
    <2> DEFINE S == {b \in LppBuffer \ forced : Shown(b)}
    <2>1. S \subseteq DOMAIN fenceMap
        BY DEF LppInv, ShownKept
    <2>2. \A b \in S : b \in DOMAIN fenceMap /\ (Guarded(b) \/ fenceMap[b] \in overtaken)
        BY <2>1 DEF LppInv, KeptMarked, Guarded
    <2>3. IsFiniteSet(DOMAIN fenceMap) /\ Cardinality(DOMAIN fenceMap) \in Nat /\ MaxAcquired \in Nat
          /\ Cardinality(DOMAIN fenceMap) <= MaxAcquired + 1
        BY FS_CardinalityType, RingAssumption DEF LppInv, FewOut
    <2>4. IsFiniteSet(S) /\ Cardinality(S) <= Cardinality(DOMAIN fenceMap)
        BY <2>1, <2>3, FS_Subset
    <2>5. Cardinality(S) \in Nat
        BY <2>4, FS_CardinalityType
    <2>6. Cardinality(S) <= MaxAcquired + 1
        BY <2>3, <2>4, <2>5
    <2> QED BY <2>2, <2>6 DEF RingIsSafe, LppInv, NewestTaken
<1> QED BY <1>1, <1>2, <1>3, PTL DEF LppSpec

-----------------------------------------------------------------------------
(* Buffers handed out unasked (ReleaseNotices.tla).  A buffer that is out   *)
(* to the producer is in exactly one place: with the application, in one    *)
(* notice under way, or in one release's list of what it has to hand over.  *)
Notice == [b : Buffer, l : Nat]

Occurs(l, Q) == \E i \in 1..Len(l) : l[i] \in Q
Single(l, Q) == \A i, j \in 1..Len(l) : l[i] \in Q /\ l[j] \in Q => i = j

Todo(c)   == releasing[c].todo
About(b)  == {n \in Notice : n.b = b}
Told(b)   == Occurs(notices, About(b))
Due(c, b) == Occurs(Todo(c), {b})

HeadsForApp(b) == Told(b) \/ \E c \in Releaser : Due(c, b)

BufferStates == {"NONE", "REQUESTED", "FLUSHED", "ACQUIRED", "RELEASED"}
Releases     == [at : {"idle", "released", "notifying", "refused", "cancelled"},
                 withSeq : BOOLEAN, todo : Seq(Buffer), listener : Nat]

ReleaseTypes ==
    /\ state \in [Buffer -> BufferStates]
    /\ held \in [Buffer -> Nat] /\ inCache \subseteq Buffer
    /\ notices \in Seq(Notice) /\ queueListener \in Nat
    /\ kindOf \in Seq({"sequence", "plain", "reset"})
    /\ releasing \in [Releaser -> Releases]

FreeListed == Lists(freeBuffers, {b \in Buffer : state[b] = "RELEASED"})

ReleaserOK(c) ==
    /\ releasing[c].at = "idle" => Todo(c) = <<>>
    /\ releasing[c].at \in {"notifying", "refused", "cancelled"} => Todo(c) # <<>>
    /\ releasing[c].at = "released" /\ releasing[c].withSeq => Todo(c) # <<>>

CarriedOnce(b) ==
    /\ held[b] \in {0, 1}
    /\ Single(notices, About(b)) /\ \A c \in Releaser : Single(Todo(c), {b})
    /\ Told(b) => held[b] = 0
    /\ \A c \in Releaser : Due(c, b) => held[b] = 0 /\ ~ Told(b)
    /\ \A c, d \in Releaser : Due(c, b) /\ Due(d, b) => c = d

CarriedByState(b) ==
    /\ HeadsForApp(b) => state[b] \in {"REQUESTED", "NONE"}
    /\ held[b] = 1 => state[b] = "REQUESTED"
    /\ state[b] = "REQUESTED" => held[b] = 1 \/ HeadsForApp(b)

ReleaseInv ==
    /\ ReleaseTypes /\ FreeListed
    /\ \A c \in Releaser : ReleaserOK(c)
    /\ \A b \in inCache : state[b] # "NONE"
    /\ \A b \in Buffer \ astray : CarriedOnce(b) /\ CarriedByState(b)

(* Taking the first element of a sequence, and appending one.               *)
LEMMA OccursTail ==
    ASSUME NEW X, NEW l \in Seq(X), l # <<>>, NEW Q
    PROVE  /\ Head(l) \in X /\ Tail(l) \in Seq(X) /\ (Len(l) = 1 => Tail(l) = <<>>)
           /\ Len(l) # 1 => Tail(l) # <<>>
           /\ Head(l) \notin Q => (Occurs(Tail(l), Q) <=> Occurs(l, Q))
           /\ Single(l, Q) => Single(Tail(l), Q)
           /\ Head(l) \in Q => Occurs(l, Q) /\ (Single(l, Q) => ~ Occurs(Tail(l), Q))
<1>1. /\ Head(l) \in X /\ Tail(l) \in Seq(X) /\ Len(Tail(l)) = Len(l) - 1
      /\ \A i \in 1..Len(Tail(l)) : Tail(l)[i] = l[i + 1]
      /\ Len(l) \in Nat \ {0} /\ Head(l) = l[1]
    BY HeadTailProperties, EmptySeq
<1>2. \A i \in 1..Len(Tail(l)) : i + 1 \in 1..Len(l) /\ i + 1 # 1
    BY <1>1
<1>3. \A i \in 1..Len(l) : i = 1 \/ (i - 1 \in 1..Len(Tail(l)) /\ (i - 1) + 1 = i)
    BY <1>1
<1>4. Len(l) = 1 => Tail(l) = <<>>
    <2>1. Tail(l) # <<>> => Len(Tail(l)) # 0
        BY <1>1, EmptySeq
    <2> QED BY <1>1, <2>1
<1>5. Len(l) # 1 => Tail(l) # <<>>
    <2>1. Len(<<>>) = 0
        BY EmptySeq
    <2> QED BY <1>1, <2>1
<1>6. Head(l) \notin Q => (Occurs(Tail(l), Q) <=> Occurs(l, Q))
    BY <1>1, <1>2, <1>3 DEF Occurs
<1>7. Single(l, Q) => Single(Tail(l), Q)
    BY <1>1, <1>2 DEF Single
<1>8. 1 \in 1..Len(l)
    BY <1>1
<1>9. Head(l) \in Q => Occurs(l, Q) /\ (Single(l, Q) => ~ Occurs(Tail(l), Q))
    BY <1>1, <1>2, <1>8 DEF Single, Occurs
<1> QED BY <1>1, <1>4, <1>5, <1>6, <1>7, <1>9

(* What a queue of notices holds after one is added at its end.             *)
LEMMA OccursAppend ==
    ASSUME NEW X, NEW l \in Seq(X), NEW e \in X, NEW Q
    PROVE  /\ Append(l, e) \in Seq(X) /\ Append(l, e) # <<>>
           /\ Occurs(Append(l, e), Q) <=> Occurs(l, Q) \/ e \in Q
           /\ Single(l, Q) /\ (e \in Q => ~ Occurs(l, Q)) => Single(Append(l, e), Q)
<1> DEFINE a == Append(l, e)
<1>1. /\ a \in Seq(X) /\ a # <<>> /\ Len(a) = Len(l) + 1 /\ Len(l) \in Nat
      /\ \A i \in 1..Len(l) : a[i] = l[i]
      /\ a[Len(l) + 1] = e
    BY AppendProperties, LenProperties
<1> HIDE DEF a
<1>2. \A i : i \in 1..Len(a) <=> i \in 1..Len(l) \/ i = Len(l) + 1
    BY <1>1
<1>3. Occurs(a, Q) <=> Occurs(l, Q) \/ e \in Q
    BY <1>1, <1>2 DEF Occurs
<1>4. Single(l, Q) /\ (e \in Q => ~ Occurs(l, Q)) => Single(a, Q)
    BY <1>1, <1>2 DEF Occurs, Single
<1> QED BY <1>1, <1>3, <1>4 DEF a

(* Nothing is in an empty list, and an injective one has it once.           *)
LEMMA OccursPlainly ==
    ASSUME NEW X, NEW l
    PROVE  /\ \A Q : ~ Occurs(<<>>, Q) /\ Single(<<>>, Q)
           /\ Lists(l, X) => \A b : Single(l, {b}) /\ (Occurs(l, {b}) <=> b \in X)
<1>1. \A Q : ~ Occurs(<<>>, Q) /\ Single(<<>>, Q)
    BY EmptySeq DEF Occurs, Single
<1>2. ASSUME Lists(l, X)
      PROVE  \A b : Single(l, {b}) /\ (Occurs(l, {b}) <=> b \in X)
    <2>1. /\ l \in Seq(X) /\ \A i, j \in 1..Len(l) : l[i] = l[j] => i = j
          /\ \A x \in X : \E i \in 1..Len(l) : l[i] = x
        BY <1>2, ListsMeans
    <2>2. \A i \in 1..Len(l) : l[i] \in X
        BY <2>1, ElementOfSeq
    <2> QED BY <2>1, <2>2 DEF Occurs, Single
<1> QED BY <1>1, <1>2

(* The empty list names nothing.                                            *)
LEMMA EmptyList == Lists(<<>>, {})
<1>1. <<>> \in Seq({}) /\ 1..Len(<<>>) = {}
    BY EmptySeq
<1> QED BY <1>1, ListsMeans

(* The property's words and the invariant's for a buffer under way.         *)
LEMMA UnderWayIsHeading ==
    ASSUME ReleaseTypes, NEW b \in Buffer
    PROVE  UnderWay(b) <=> HeadsForApp(b)
<1>1. /\ DOMAIN notices = 1..Len(notices)
      /\ \A i \in 1..Len(notices) : notices[i] \in Notice
    BY LenProperties, ElementOfSeq DEF ReleaseTypes
<1>2. (\E i \in DOMAIN notices : notices[i].b = b) <=> Told(b)
    BY <1>1 DEF Told, Occurs, About
<1>3. ASSUME NEW c \in Releaser
      PROVE  b \in ToSet(releasing[c].todo) <=> Due(c, b)
    <2>1. Todo(c) \in Seq(Buffer)
        BY DEF ReleaseTypes, Todo, Releases
    <2>2. DOMAIN Todo(c) = 1..Len(Todo(c))
        BY <2>1, LenProperties
    <2> QED BY <2>2 DEF Due, Occurs, ToSet, Todo
<1> QED BY <1>2, <1>3 DEF UnderWay, HeadsForApp

(* The buffers noted are those that head for the application.               *)
LEMMA NotedIsHeading ==
    ASSUME ReleaseTypes, NEW b \in Buffer
    PROVE  b \in Noted <=> HeadsForApp(b)
<1>1. b \in Noted <=> UnderWay(b)
    BY DEF Noted, UnderWay
<1> QED BY <1>1, UnderWayIsHeading

(* CancelBufferLocked frees a requested buffer, and nothing else.           *)
LEMMA CancelMoves ==
    ASSUME ReleaseTypes, FreeListed, NEW b \in Buffer, CancelsHanded(b)
    PROVE  /\ FreeListed' /\ state' \in [Buffer -> BufferStates]
           /\ \A x \in Buffer : state'[x] = IF x = b /\ state[b] = "REQUESTED" THEN "RELEASED" ELSE state[x]
<1>1. CASE state[b] = "REQUESTED"
    <2>1. state' = [state EXCEPT ![b] = "RELEASED"] /\ freeBuffers' = Append(freeBuffers, b)
        BY <1>1 DEF CancelsHanded
    <2>2. /\ state' \in [Buffer -> BufferStates]
          /\ \A x \in Buffer : state'[x] = IF x = b THEN "RELEASED" ELSE state[x]
        BY <2>1 DEF ReleaseTypes, BufferStates
    <2>3. {x \in Buffer : state'[x] = "RELEASED"} = {x \in Buffer : state[x] = "RELEASED"} \union {b}
        BY <2>2
    <2>4. FreeListed'
        BY <1>1, <2>1, <2>3, ListsAppend DEF FreeListed
    <2> QED BY <1>1, <2>2, <2>4
<1>2. CASE state[b] # "REQUESTED"
    BY <1>2 DEF CancelsHanded, FreeListed, ReleaseTypes, BufferStates
<1> QED BY <1>1, <1>2

(* A release that hands the front of its list over goes on with the rest.   *)
LEMMA NextInList ==
    ASSUME ReleaseTypes, NEW c \in Releaser, Todo(c) # <<>>, NEW r,
           r.todo = Todo(c), r \in Releases,
           Goes(c, Next1(r))
    PROVE  /\ Buf(c) \in Buffer /\ Buf(c) = Head(Todo(c)) /\ Todo(c)' = Tail(Todo(c))
           /\ \A d \in Releaser \ {c} : Todo(d)' = Todo(d) /\ releasing'[d] = releasing[d]
           /\ ReleaserOK(c)'
           /\ releasing' \in [Releaser -> Releases]
<1>1. /\ Todo(c) \in Seq(Buffer) /\ Head(Todo(c)) \in Buffer /\ Tail(Todo(c)) \in Seq(Buffer)
      /\ Len(Todo(c)) = 1 => Tail(Todo(c)) = <<>>
      /\ Len(Todo(c)) # 1 => Tail(Todo(c)) # <<>>
    <2>1. Todo(c) \in Seq(Buffer)
        BY DEF ReleaseTypes, Todo, Releases
    <2> QED BY <2>1, OccursTail
<1>2. releasing' = [releasing EXCEPT ![c] = Next1(r)] /\ releasing \in [Releaser -> Releases]
    BY DEF Goes, ReleaseTypes
<1>3. Next1(r) \in Releases /\ Next1(r).todo = Tail(Todo(c))
    <2>1. CASE Len(r.todo) = 1
        <3>1. Next1(r) = NotReleasing
            BY <2>1 DEF Next1
        <3> QED BY <1>1, <2>1, <3>1, EmptySeq DEF NotReleasing, NoListener, Releases
    <2>2. CASE Len(r.todo) # 1
        <3>1. Next1(r) = [r EXCEPT !.at = "notifying", !.todo = Tail(r.todo)]
            BY <2>2 DEF Next1
        <3> DEFINE rest == Tail(r.todo)
        <3>2. rest \in Seq(Buffer)
            BY <1>1
        <3> HIDE DEF rest
        <3>3. [r EXCEPT !.at = "notifying", !.todo = rest] \in Releases
            BY <3>2 DEF Releases
        <3>4. [r EXCEPT !.at = "notifying", !.todo = rest].todo = rest
            BY DEF Releases
        <3> QED BY <3>1, <3>3, <3>4 DEF rest
    <2> QED BY <2>1, <2>2
<1>4. /\ Next1(r).at = "idle" => Tail(Todo(c)) = <<>>
      /\ Next1(r).at # "idle" => Next1(r).at = "notifying" /\ Tail(Todo(c)) # <<>>
    BY <1>1 DEF Next1, NotReleasing, Releases
<1>5. /\ releasing' \in [Releaser -> Releases] /\ releasing'[c] = Next1(r)
      /\ \A d \in Releaser \ {c} : releasing'[d] = releasing[d]
    BY <1>2, <1>3
<1>6. Todo(c)' = Tail(Todo(c)) /\ \A d \in Releaser \ {c} : Todo(d)' = Todo(d)
    BY <1>3, <1>5 DEF Todo
<1>7. ReleaserOK(c)'
    BY <1>4, <1>5, <1>6 DEF ReleaserOK
<1> QED BY <1>1, <1>5, <1>6, <1>7 DEF Buf, Todo

(* A release that changes its mind, but not its list.                       *)
LEMMA SameList ==
    ASSUME ReleaseTypes, NEW c \in Releaser, NEW r, Goes(c, r), r.todo = Todo(c),
           r \in Releases,
           r.at \in {"notifying", "refused", "cancelled"}, Todo(c) # <<>>
    PROVE  /\ \A d \in Releaser : Todo(d)' = Todo(d)
           /\ \A d \in Releaser \ {c} : releasing'[d] = releasing[d]
           /\ ReleaserOK(c)'
           /\ releasing' \in [Releaser -> Releases]
<1>1. releasing' = [releasing EXCEPT ![c] = r] /\ releasing \in [Releaser -> Releases] /\ r \in Releases
    BY DEF Goes, ReleaseTypes
<1>2. /\ releasing' \in [Releaser -> Releases] /\ releasing'[c] = r
      /\ \A d \in Releaser \ {c} : releasing'[d] = releasing[d]
    BY <1>1
<1>3. \A d \in Releaser : Todo(d)' = Todo(d)
    BY <1>2 DEF Todo
<1> QED BY <1>2, <1>3 DEF ReleaserOK

(* Where a buffer is does not change with the lists.                        *)
LEMMA PlacesStay ==
    ASSUME NEW b \in Buffer, UNCHANGED notices, \A c \in Releaser : Todo(c)' = Todo(c)
    PROVE  /\ (Told(b)' <=> Told(b)) /\ (Single(notices, About(b))' <=> Single(notices, About(b)))
           /\ \A c \in Releaser : (Due(c, b)' <=> Due(c, b)) /\ (Single(Todo(c), {b})' <=> Single(Todo(c), {b}))
           /\ (HeadsForApp(b)' <=> HeadsForApp(b))
<1>1. (Told(b)' <=> Told(b)) /\ (Single(notices, About(b))' <=> Single(notices, About(b)))
    BY DEF Told, Occurs, Single, About
<1>2. \A c \in Releaser : (Due(c, b)' <=> Due(c, b)) /\ (Single(Todo(c), {b})' <=> Single(Todo(c), {b}))
    BY DEF Due, Occurs, Single
<1> QED BY <1>1, <1>2 DEF HeadsForApp

(* The application and the consumer: one buffer changes hands.              *)
LEMMA OwnStep ==
    ASSUME ReleaseInv, NEW x \in Buffer,
           AppRequests(x) \/ AppFlushes(x) \/ AppCancels(x) \/ ConsumerAcquires(x)
    PROVE  ReleaseInv'
<1>1. ReleaseTypes /\ FreeListed
    BY DEF ReleaseInv
<1>2. UNCHANGED <<notices, releasing, astray, queueListener, kindOf>>
    BY DEF AppRequests, AppFlushes, AppCancels, ConsumerAcquires, listenVars, clientVars
<1>3. /\ FreeListed' /\ state' \in [Buffer -> BufferStates]
      /\ \A b \in Buffer \ {x} : state'[b] = state[b]
      /\ \/ AppRequests(x) /\ state'[x] = "REQUESTED" /\ state[x] \in {"RELEASED", "NONE"}
                           /\ (state[x] = "NONE" => x \notin Noted)
         \/ (AppFlushes(x) \/ AppCancels(x)) /\ (state[x] = "REQUESTED" => state'[x] # "REQUESTED")
                                             /\ (state[x] # "NONE" => state'[x] # "NONE")
                                             /\ (state[x] # "REQUESTED" => state'[x] = state[x])
         \/ ConsumerAcquires(x) /\ state[x] = "FLUSHED" /\ state'[x] = "ACQUIRED"
    <2>1. CASE AppRequests(x) /\ freeBuffers # <<>>
        <3>1. /\ x = Head(freeBuffers) /\ freeBuffers' = Tail(freeBuffers)
              /\ state' = [state EXCEPT ![x] = "REQUESTED"]
            BY <2>1 DEF AppRequests
        <3>2. /\ x \in {b \in Buffer : state[b] = "RELEASED"}
              /\ Lists(freeBuffers', {b \in Buffer : state[b] = "RELEASED"} \ {x})
            BY <1>1, <2>1, <3>1, ListsTail DEF FreeListed
        <3>3. /\ state' \in [Buffer -> BufferStates] /\ state'[x] = "REQUESTED"
              /\ \A b \in Buffer \ {x} : state'[b] = state[b]
            BY <1>1, <3>1 DEF ReleaseTypes, BufferStates
        <3>4. {b \in Buffer : state'[b] = "RELEASED"} = {b \in Buffer : state[b] = "RELEASED"} \ {x}
            BY <3>3
        <3> QED BY <2>1, <3>2, <3>3, <3>4 DEF FreeListed
    <2>2. CASE AppRequests(x) /\ freeBuffers = <<>>
        <3>1. /\ state[x] = "NONE" /\ x \notin Noted /\ freeBuffers' = freeBuffers
              /\ state' = [state EXCEPT ![x] = "REQUESTED"]
            BY <2>2 DEF AppRequests
        <3>2. /\ state' \in [Buffer -> BufferStates] /\ state'[x] = "REQUESTED"
              /\ \A b \in Buffer \ {x} : state'[b] = state[b]
            BY <1>1, <3>1 DEF ReleaseTypes, BufferStates
        <3>3. {b \in Buffer : state'[b] = "RELEASED"} = {b \in Buffer : state[b] = "RELEASED"}
            BY <3>1, <3>2
        <3> QED BY <1>1, <2>2, <3>1, <3>2, <3>3 DEF FreeListed
    <2>3. CASE AppFlushes(x) \/ ConsumerAcquires(x)
        <3>1. /\ freeBuffers' = freeBuffers
              /\ \/ AppFlushes(x) /\ state' = state /\ state[x] # "REQUESTED"
                 \/ AppFlushes(x) /\ state' = [state EXCEPT ![x] = "FLUSHED"] /\ state[x] = "REQUESTED"
                 \/ ConsumerAcquires(x) /\ state' = [state EXCEPT ![x] = "ACQUIRED"] /\ state[x] = "FLUSHED"
            BY <2>3 DEF AppFlushes, ConsumerAcquires
        <3>2. /\ state' \in [Buffer -> BufferStates]
              /\ \A b \in Buffer \ {x} : state'[b] = state[b]
              /\ \/ AppFlushes(x) /\ state'[x] = state[x] /\ state[x] # "REQUESTED"
                 \/ AppFlushes(x) /\ state'[x] = "FLUSHED" /\ state[x] = "REQUESTED"
                 \/ ConsumerAcquires(x) /\ state'[x] = "ACQUIRED" /\ state[x] = "FLUSHED"
            BY <1>1, <3>1 DEF ReleaseTypes, BufferStates
        <3>3. {b \in Buffer : state'[b] = "RELEASED"} = {b \in Buffer : state[b] = "RELEASED"}
            BY <3>2
        <3>4. FreeListed'
            BY <1>1, <3>1, <3>3 DEF FreeListed
        <3> QED BY <3>2, <3>4
    <2>4. CASE AppCancels(x)
        <3>1. CancelsHanded(x)
            BY <2>4 DEF AppCancels
        <3>2. /\ FreeListed' /\ state' \in [Buffer -> BufferStates]
              /\ \A b \in Buffer : state'[b] = IF b = x /\ state[x] = "REQUESTED" THEN "RELEASED" ELSE state[b]
            BY <1>1, <3>1, CancelMoves
        <3> QED BY <2>4, <3>2
    <2> QED BY <2>1, <2>2, <2>3, <2>4
<1>4. /\ held' \in [Buffer -> Nat]
      /\ \A b \in Buffer \ {x} : held'[b] = held[b]
      /\ AppRequests(x) => held'[x] = held[x] + 1 /\ inCache' = inCache \union {x}
      /\ AppFlushes(x) \/ AppCancels(x) => held[x] > 0 /\ held'[x] = held[x] - 1 /\ inCache' = inCache
      /\ ConsumerAcquires(x) => held'[x] = held[x] /\ inCache' = inCache
    <2>1. /\ AppRequests(x) => held' = [held EXCEPT ![x] = held[x] + 1] /\ inCache' = inCache \union {x}
          /\ AppFlushes(x) \/ AppCancels(x) => /\ held' = [held EXCEPT ![x] = held[x] - 1] /\ held[x] > 0
                                               /\ inCache' = inCache
          /\ ConsumerAcquires(x) => held' = held /\ inCache' = inCache
        BY DEF AppRequests, AppFlushes, AppCancels, ConsumerAcquires, clientVars
    <2>2. held \in [Buffer -> Nat] /\ held[x] \in Nat
        BY <1>1 DEF ReleaseTypes
    <2> QED BY <2>1, <2>2
<1>5. /\ inCache' \subseteq Buffer /\ \A b \in inCache' : state'[b] # "NONE"
      /\ ReleaseTypes' /\ \A c \in Releaser : ReleaserOK(c)'
    <2>1. /\ inCache \subseteq Buffer /\ \A b \in inCache : state[b] # "NONE"
          /\ \A c \in Releaser : ReleaserOK(c)
        BY DEF ReleaseInv, ReleaseTypes
    <2>2. inCache' \subseteq inCache \union {x} /\ (~ AppRequests(x) => inCache' = inCache)
        BY <1>4
    <2>3. \A b \in inCache' : state'[b] # "NONE"
        <3>1. CASE AppRequests(x)
            <4>1. state' = [state EXCEPT ![x] = "REQUESTED"]
                BY <3>1 DEF AppRequests
            <4>2. state'[x] = "REQUESTED"
                BY <1>1, <4>1 DEF ReleaseTypes
            <4> QED BY <1>3, <2>1, <2>2, <4>2
        <3>2. CASE ~ AppRequests(x)
            BY <1>3, <2>1, <2>2, <3>2
        <3> QED BY <3>1, <3>2
    <2>4. inCache' \subseteq Buffer
        BY <2>1, <2>2
    <2>5. ReleaseTypes'
        BY <1>1, <1>2, <1>3, <1>4, <2>4 DEF ReleaseTypes
    <2>6. \A c \in Releaser : ReleaserOK(c)'
        BY <1>2, <2>1 DEF ReleaserOK, Todo
    <2> QED BY <2>3, <2>4, <2>5, <2>6
<1>6. ASSUME NEW b \in Buffer \ astray
      PROVE  CarriedOnce(b)' /\ CarriedByState(b)'
    <2>1. CarriedOnce(b) /\ CarriedByState(b)
        BY DEF ReleaseInv
    <2>2. /\ (Told(b)' <=> Told(b)) /\ (Single(notices, About(b))' <=> Single(notices, About(b)))
          /\ \A c \in Releaser : (Due(c, b)' <=> Due(c, b)) /\ (Single(Todo(c), {b})' <=> Single(Todo(c), {b}))
          /\ (HeadsForApp(b)' <=> HeadsForApp(b))
        BY <1>2, PlacesStay DEF Todo
    <2>3. CASE b # x
        BY <1>3, <1>4, <2>1, <2>2, <2>3 DEF CarriedOnce, CarriedByState
    <2>4. CASE b = x /\ ConsumerAcquires(x)
        BY <1>3, <1>4, <2>1, <2>2, <2>4 DEF CarriedOnce, CarriedByState, AppRequests, AppFlushes, AppCancels,
                                            ConsumerAcquires
    <2>5. CASE b = x /\ (AppFlushes(x) \/ AppCancels(x))
        <3>1. held[b] = 1 /\ held'[b] = 0
            BY <1>4, <2>1, <2>5 DEF CarriedOnce
        <3>2. state[b] = "REQUESTED" /\ state'[b] # "REQUESTED"
            BY <1>3, <2>1, <2>5, <3>1 DEF CarriedByState
        <3>3. ~ HeadsForApp(b)
            BY <2>1, <3>1 DEF CarriedOnce, HeadsForApp
        <3> QED BY <2>1, <2>2, <3>1, <3>2, <3>3 DEF CarriedOnce, CarriedByState, HeadsForApp
    <2>6. CASE b = x /\ AppRequests(x)
        <3>1. state'[b] = "REQUESTED" /\ state[b] \in {"RELEASED", "NONE"} /\ ~ HeadsForApp(b)
            <4>1. state[b] \in {"RELEASED", "NONE"} /\ state'[b] = "REQUESTED"
                  /\ (state[b] = "NONE" => b \notin Noted)
                BY <1>3, <2>6 DEF AppRequests
            <4>2. state[b] = "RELEASED" => ~ HeadsForApp(b)
                BY <2>1 DEF CarriedByState
            <4> QED BY <1>1, <4>1, <4>2, NotedIsHeading
        <3>2. held[b] = 0 /\ held'[b] = 1
            BY <1>4, <2>1, <2>6, <3>1 DEF CarriedOnce, CarriedByState
        <3> QED BY <2>1, <2>2, <3>1, <3>2 DEF CarriedOnce, CarriedByState, HeadsForApp
    <2> QED BY <2>3, <2>4, <2>5, <2>6
<1> QED BY <1>2, <1>3, <1>5, <1>6 DEF ReleaseInv

(* The caches are emptied; what is on its way stays on its way.             *)
LEMMA CleanStep ==
    ASSUME ReleaseInv, ClientCleans \/ QueueCleans
    PROVE  ReleaseInv'
<1>1. ReleaseTypes /\ FreeListed /\ UNCHANGED <<notices, releasing, queueListener, kindOf>>
    BY DEF ReleaseInv, ClientCleans, QueueCleans, listenVars, clientVars
<1>2. \A c \in Releaser : Todo(c)' = Todo(c) /\ ReleaserOK(c)'
    BY <1>1 DEF ReleaseInv, ReleaserOK, Todo
<1>3. ASSUME NEW b \in Buffer
      PROVE  /\ (Told(b)' <=> Told(b)) /\ (Single(notices, About(b))' <=> Single(notices, About(b)))
             /\ \A c \in Releaser : (Due(c, b)' <=> Due(c, b)) /\ (Single(Todo(c), {b})' <=> Single(Todo(c), {b}))
             /\ (HeadsForApp(b)' <=> HeadsForApp(b))
    BY <1>1, <1>2, PlacesStay
<1>4. CASE ClientCleans
    <2>1. inCache' = {} /\ UNCHANGED <<state, freeBuffers, held, astray>>
        BY <1>4 DEF ClientCleans
    <2>2. ReleaseTypes' /\ FreeListed'
        BY <1>1, <2>1 DEF ReleaseTypes, FreeListed
    <2>3. \A b \in Buffer \ astray : CarriedOnce(b)' /\ CarriedByState(b)'
        BY <1>3, <2>1 DEF ReleaseInv, CarriedOnce, CarriedByState
    <2> QED BY <1>2, <2>1, <2>2, <2>3 DEF ReleaseInv
<1>5. CASE QueueCleans
    <2>1. /\ inCache' = {} /\ freeBuffers' = <<>> /\ astray' = astray \intersect Noted
          /\ state' = [b \in Buffer |-> "NONE"] /\ held' = [b \in Buffer |-> 0]
        BY <1>5 DEF QueueCleans, clientVars
    <2>2. ReleaseTypes'
        BY <1>1, <2>1 DEF ReleaseTypes, BufferStates
    <2>3. FreeListed'
        <3>1. {b \in Buffer : state'[b] = "RELEASED"} = {}
            BY <2>1
        <3>2. Lists(<<>>, {})
            BY EmptyList
        <3> QED BY <2>1, <3>1, <3>2 DEF FreeListed
    <2>4. ASSUME NEW b \in Buffer \ astray'
          PROVE  CarriedOnce(b)' /\ CarriedByState(b)'
        <3>1. state'[b] = "NONE" /\ held'[b] = 0
            BY <2>1
        <3>2. CASE b \notin astray
            <4>1. CarriedOnce(b)
                BY <3>2 DEF ReleaseInv
            <4>2. CarriedOnce(b)'
                BY <1>3, <3>1, <4>1 DEF CarriedOnce
            <4>3. CarriedByState(b)'
                BY <3>1 DEF CarriedByState
            <4> QED BY <4>2, <4>3
        <3>3. CASE b \notin Noted
            <4>1. ~ HeadsForApp(b)
                BY <1>1, <3>3, NotedIsHeading
            <4>2. ~ Told(b) /\ \A c \in Releaser : ~ Due(c, b)
                BY <4>1 DEF HeadsForApp
            <4>3. Single(notices, About(b)) /\ \A c \in Releaser : Single(Todo(c), {b})
                BY <4>2 DEF Single, Told, Due, Occurs
            <4> QED BY <1>3, <3>1, <4>1, <4>2, <4>3 DEF CarriedOnce, CarriedByState
        <3> QED BY <2>1, <2>4, <3>2, <3>3
    <2> QED BY <1>2, <2>1, <2>2, <2>3, <2>4 DEF ReleaseInv
<1> QED BY <1>4, <1>5

(* ReleaseBuffer: the buffer is free, or all that are free are requested    *)
(* for the listener.                                                        *)
LEMMA ReleaseStep ==
    ASSUME ReleaseInv, NEW c \in Releaser, NEW x \in Buffer, ReleasesBuffer(c, x)
    PROVE  ReleaseInv'
<1> DEFINE free == Append(freeBuffers, x)
           rec  == [at |-> "released", withSeq |-> ForListener, listener |-> NoListener,
                    todo |-> IF ForListener THEN free ELSE <<>>]
           Released == {b \in Buffer : state[b] = "RELEASED"}
<1>1. ReleaseTypes /\ FreeListed
    BY DEF ReleaseInv
<1>2. /\ UNCHANGED <<notices, held, astray, queueListener, kindOf, inCache>>
      /\ releasing[c] = NotReleasing /\ state[x] = "ACQUIRED"
      /\ releasing' = [releasing EXCEPT ![c] = rec]
    BY DEF ReleasesBuffer, listenVars, clientVars
<1>3. Lists(free, Released \union {x}) /\ free # <<>>
    <2>1. Lists(freeBuffers, Released) /\ x \notin Released
        BY <1>1, <1>2 DEF FreeListed
    <2>2. free # <<>>
        <3>1. freeBuffers \in Seq(Buffer)
            BY <2>1, SeqMonotonic DEF Lists
        <3> QED BY <3>1, AppendProperties
    <2> QED BY <2>1, <2>2, ListsAppend
<1>4. free \in Seq(Buffer) /\ ToSet(free) = Released \union {x}
    BY <1>3, SeqMonotonic DEF Lists
<1> HIDE DEF free
<1>5. /\ releasing' \in [Releaser -> Releases] /\ Todo(c) = <<>>
      /\ Todo(c)' = IF ForListener THEN free ELSE <<>>
      /\ \A d \in Releaser \ {c} : Todo(d)' = Todo(d) /\ releasing'[d] = releasing[d]
      /\ releasing'[c].at = "released" /\ (releasing'[c].withSeq <=> ForListener)
    <2>1. rec \in Releases
        BY <1>4, EmptySeq DEF Releases, NoListener, ForListener
    <2>2. /\ releasing' \in [Releaser -> Releases] /\ releasing'[c] = rec
          /\ \A d \in Releaser \ {c} : releasing'[d] = releasing[d]
        BY <1>1, <1>2, <2>1 DEF ReleaseTypes
    <2>3. /\ rec.todo = (IF ForListener THEN free ELSE <<>>) /\ rec.at = "released"
          /\ (rec.withSeq <=> ForListener)
        OBVIOUS
    <2>4. Todo(c) = <<>>
        BY <1>2 DEF Todo, NotReleasing
    <2> HIDE DEF rec
    <2> QED BY <2>2, <2>3, <2>4 DEF Todo
<1>6. \A d \in Releaser : ReleaserOK(d)'
    <2>1. ReleaserOK(c)'
        BY <1>3, <1>5 DEF ReleaserOK
    <2>2. \A d \in Releaser \ {c} : ReleaserOK(d)'
        BY <1>5 DEF ReleaseInv, ReleaserOK
    <2> QED BY <2>1, <2>2
<1>7. /\ state' \in [Buffer -> BufferStates] /\ FreeListed'
      /\ ForListener => \A b \in Buffer : state'[b] = IF b \in Released \union {x} THEN "REQUESTED" ELSE state[b]
      /\ ~ForListener => state'[x] = "RELEASED" /\ \A b \in Buffer \ {x} : state'[b] = state[b]
    <2>1. CASE ForListener
        <3>1. /\ state' = [b \in Buffer |-> IF b \in ToSet(free) THEN "REQUESTED" ELSE state[b]]
              /\ freeBuffers' = <<>>
            BY <2>1 DEF ReleasesBuffer, RequestBuffersForListener, free
        <3>2. /\ state' \in [Buffer -> BufferStates]
              /\ \A b \in Buffer : state'[b] = IF b \in Released \union {x} THEN "REQUESTED" ELSE state[b]
            BY <1>1, <1>4, <3>1 DEF ReleaseTypes, BufferStates
        <3>3. {b \in Buffer : state'[b] = "RELEASED"} = {}
            BY <3>2
        <3>4. Lists(<<>>, {})
            BY EmptyList
        <3>5. FreeListed'
            BY <3>1, <3>3, <3>4 DEF FreeListed
        <3> QED BY <2>1, <3>2, <3>5
    <2>2. CASE ~ForListener
        <3>1. state' = [state EXCEPT ![x] = "RELEASED"] /\ freeBuffers' = free
            BY <2>2 DEF ReleasesBuffer, free
        <3>2. /\ state' \in [Buffer -> BufferStates] /\ state'[x] = "RELEASED"
              /\ \A b \in Buffer \ {x} : state'[b] = state[b]
            BY <1>1, <3>1 DEF ReleaseTypes, BufferStates
        <3>3. {b \in Buffer : state'[b] = "RELEASED"} = Released \union {x}
            BY <3>2
        <3>4. FreeListed'
            BY <1>3, <3>1, <3>3 DEF FreeListed
        <3> QED BY <2>2, <3>2, <3>4
    <2> QED BY <2>1, <2>2
<1>8. ReleaseTypes' /\ \A b \in inCache' : state'[b] # "NONE"
    <2>1. ReleaseTypes'
        BY <1>1, <1>2, <1>5, <1>7 DEF ReleaseTypes
    <2>2. \A b \in Buffer : state[b] # "NONE" => state'[b] # "NONE"
        BY <1>7
    <2> QED BY <1>1, <1>2, <2>1, <2>2 DEF ReleaseInv, ReleaseTypes
<1>9. ASSUME NEW b \in Buffer \ astray
      PROVE  CarriedOnce(b)' /\ CarriedByState(b)'
    <2>1. CarriedOnce(b) /\ CarriedByState(b)
        BY DEF ReleaseInv
    <2>2. (Told(b)' <=> Told(b)) /\ (Single(notices, About(b))' <=> Single(notices, About(b))) /\ held'[b] = held[b]
        BY <1>2 DEF Told, Occurs, Single, About
    <2>3. \A d \in Releaser \ {c} : (Due(d, b)' <=> Due(d, b)) /\ (Single(Todo(d), {b})' <=> Single(Todo(d), {b}))
        BY <1>5 DEF Due, Occurs, Single
    <2>4. ~ Due(c, b) /\ Single(Todo(c), {b})'
        BY <1>3, <1>5, OccursPlainly DEF Due
    <2>5. Due(c, b)' <=> ForListener /\ b \in Released \union {x}
        BY <1>3, <1>5, OccursPlainly DEF Due
    <2>6. CASE ForListener /\ b \in Released \union {x}
        <3>1. state[b] \in {"RELEASED", "ACQUIRED"} /\ state'[b] = "REQUESTED"
            BY <1>2, <1>7, <2>6
        <3>2. ~ HeadsForApp(b) /\ held[b] = 0
            BY <2>1, <3>1 DEF CarriedOnce, CarriedByState
        <3>3. ~ Told(b) /\ \A d \in Releaser : ~ Due(d, b)
            BY <3>2 DEF HeadsForApp
        <3>4. ~ Told(b)' /\ Due(c, b)' /\ \A d \in Releaser \ {c} : ~ Due(d, b)'
            BY <2>2, <2>3, <2>5, <2>6, <3>3
        <3> QED BY <2>1, <2>2, <2>3, <2>4, <3>1, <3>2, <3>4 DEF CarriedOnce, CarriedByState, HeadsForApp
    <2>7. CASE ~ (ForListener /\ b \in Released \union {x})
        <3>1. \A d \in Releaser : (Due(d, b)' <=> Due(d, b)) /\ Single(Todo(d), {b})'
            <4>1. Due(c, b)' <=> Due(c, b)
                BY <2>4, <2>5, <2>7
            <4>2. \A d \in Releaser \ {c} : Single(Todo(d), {b})'
                BY <2>1, <2>3 DEF CarriedOnce
            <4> QED BY <2>3, <2>4, <4>1, <4>2
        <3>2. (HeadsForApp(b)' <=> HeadsForApp(b))
            BY <2>2, <3>1 DEF HeadsForApp
        <3>3. state'[b] = state[b] \/ (state[b] = "ACQUIRED" /\ state'[b] = "RELEASED")
            BY <1>2, <1>7, <2>7
        <3> QED BY <2>1, <2>2, <3>1, <3>2, <3>3 DEF CarriedOnce, CarriedByState
    <2> QED BY <2>6, <2>7
<1> QED BY <1>2, <1>6, <1>7, <1>8, <1>9 DEF ReleaseInv

(* A step that moves no buffer for the application: what is known of the    *)
(* listeners changes, or one release forgets its list.                      *)
LEMMA ListenerStep ==
    ASSUME ReleaseInv,
           \/ \E kind \in {"sequence", "plain"} : StartsRegister(kind)
           \/ SetListenerSeqAndFenceCallingPid \/ RegisterProducerReleaseListener
           \/ StartsUnregister \/ UnRegisterProducerReleaseListener \/ ClearsPid
    PROVE  ReleaseInv'
<1>1. ReleaseTypes
    BY DEF ReleaseInv
<1>2. UNCHANGED <<state, freeBuffers, releasing, notices, held, astray, inCache>>
    BY DEF StartsRegister, SetListenerSeqAndFenceCallingPid, RegisterProducerReleaseListener,
           StartsUnregister, UnRegisterProducerReleaseListener, ClearsPid, clientVars
<1>3. queueListener' \in Nat
    <2>1. queueListener' \in {queueListener, Len(kindOf), NoListener}
        BY DEF StartsRegister, SetListenerSeqAndFenceCallingPid, RegisterProducerReleaseListener,
               StartsUnregister, UnRegisterProducerReleaseListener, ClearsPid
    <2>2. Len(kindOf) \in Nat /\ queueListener \in Nat
        BY <1>1, LenProperties DEF ReleaseTypes
    <2> QED BY <2>1, <2>2 DEF NoListener
<1>4. kindOf' \in Seq({"sequence", "plain", "reset"})
    <2> DEFINE Kinds == {"sequence", "plain", "reset"}
    <2>1. kindOf \in Seq(Kinds)
        BY <1>1 DEF ReleaseTypes
    <2>2. \/ kindOf' = kindOf
          \/ \E kind \in Kinds : kindOf' = Append(kindOf, kind)
          \/ kindOf # <<>> /\ kindOf' = [kindOf EXCEPT ![Len(kindOf)] = "reset"]
        BY DEF StartsRegister, SetListenerSeqAndFenceCallingPid, RegisterProducerReleaseListener,
               StartsUnregister, UnRegisterProducerReleaseListener, ClearsPid, clientVars
    <2>3. "reset" \in Kinds
        OBVIOUS
    <2> HIDE DEF Kinds
    <2>4. ASSUME NEW kind \in Kinds PROVE Append(kindOf, kind) \in Seq(Kinds)
        BY <2>1, AppendProperties
    <2>5. ASSUME kindOf # <<>> PROVE [kindOf EXCEPT ![Len(kindOf)] = "reset"] \in Seq(Kinds)
        <3>1. Len(kindOf) \in 1..Len(kindOf)
            BY <2>1, <2>5, EmptySeq
        <3> QED BY <2>1, <2>3, <3>1, ExceptSeq
    <2> QED BY <2>1, <2>2, <2>4, <2>5 DEF Kinds
<1>5. ReleaseTypes' /\ FreeListed'
    BY <1>1, <1>2, <1>3, <1>4 DEF ReleaseInv, ReleaseTypes, FreeListed
<1>6. \A c \in Releaser : Todo(c)' = Todo(c) /\ ReleaserOK(c)'
    BY <1>2 DEF ReleaseInv, ReleaserOK, Todo
<1>7. ASSUME NEW b \in Buffer \ astray
      PROVE  CarriedOnce(b)' /\ CarriedByState(b)'
    <2>1. /\ Told(b)' <=> Told(b)
          /\ Single(notices, About(b))' <=> Single(notices, About(b))
          /\ \A c \in Releaser : (Due(c, b)' <=> Due(c, b)) /\ (Single(Todo(c), {b})' <=> Single(Todo(c), {b}))
          /\ HeadsForApp(b)' <=> HeadsForApp(b)
        BY <1>2, <1>6, PlacesStay
    <2> QED BY <1>2, <2>1 DEF ReleaseInv, CarriedOnce, CarriedByState
<1> QED BY <1>2, <1>5, <1>6, <1>7 DEF ReleaseInv

(* One release's front buffer goes to the application, into a notice, or    *)
(* back to the free ones.                                                   *)
LEMMA FrontLeaves ==
    ASSUME ReleaseInv, NEW c \in Releaser, Todo(c) # <<>>, NEW x, x = Head(Todo(c)),
           Todo(c)' = Tail(Todo(c)), \A d \in Releaser \ {c} : Todo(d)' = Todo(d),
           NEW b \in Buffer \ astray
    PROVE  /\ \A d \in Releaser : Single(Todo(d), {b})'
           /\ b # x => \A d \in Releaser : Due(d, b)' <=> Due(d, b)
           /\ b = x => /\ Due(c, b) /\ \A d \in Releaser : ~ Due(d, b)'
                       /\ held[b] = 0 /\ ~ Told(b) /\ state[b] \in {"REQUESTED", "NONE"}
<1>1. Todo(c) \in Seq(Buffer) /\ CarriedOnce(b) /\ CarriedByState(b)
    BY DEF ReleaseInv, ReleaseTypes, Releases, Todo
<1>2. \A d \in Releaser : Single(Todo(d), {b})
    BY <1>1 DEF CarriedOnce
<1>3. /\ Single(Tail(Todo(c)), {b})
      /\ x \notin {b} => (Occurs(Tail(Todo(c)), {b}) <=> Occurs(Todo(c), {b}))
      /\ x \in {b} => Occurs(Todo(c), {b}) /\ ~ Occurs(Tail(Todo(c)), {b})
    BY <1>1, <1>2, OccursTail
<1>4. \A d \in Releaser \ {c} : /\ Single(Todo(d), {b})' <=> Single(Todo(d), {b})
                                /\ Due(d, b)' <=> Due(d, b)
    BY DEF Single, Due, Occurs
<1>5. /\ Single(Todo(c), {b})' <=> Single(Tail(Todo(c)), {b})
      /\ Due(c, b)' <=> Occurs(Tail(Todo(c)), {b})
    BY DEF Single, Due, Occurs
<1>6. Due(c, b) <=> Occurs(Todo(c), {b})
    BY DEF Due
<1>7. CASE b # x
    BY <1>2, <1>3, <1>4, <1>5, <1>6, <1>7
<1>8. CASE b = x
    <2>1. Due(c, b) /\ ~ Due(c, b)'
        BY <1>3, <1>5, <1>6, <1>8
    <2>2. held[b] = 0 /\ ~ Told(b) /\ \A d \in Releaser \ {c} : ~ Due(d, b)
        BY <1>1, <2>1 DEF CarriedOnce
    <2>3. state[b] \in {"REQUESTED", "NONE"}
        BY <1>1, <2>1 DEF CarriedByState, HeadsForApp
    <2> QED BY <1>2, <1>3, <1>4, <1>5, <1>8, <2>1, <2>2, <2>3
<1> QED BY <1>7, <1>8

(* One release moves.                                                       *)
LEMMA OthersOK ==
    ASSUME ReleaseInv, NEW c \in Releaser, ReleaserOK(c)',
           \A d \in Releaser \ {c} : releasing'[d] = releasing[d]
    PROVE  \A d \in Releaser : ReleaserOK(d)'
<1>1. \A d \in Releaser \ {c} : ReleaserOK(d)'
    BY DEF ReleaseInv, ReleaserOK, Todo
<1> QED BY <1>1

(* The listener is still there, or the list is forgotten.                   *)
LEMMA SampleStep ==
    ASSUME ReleaseInv, NEW c \in Releaser, SamplesListener(c)
    PROVE  ReleaseInv'
<1>1. ReleaseTypes /\ FreeListed
    BY DEF ReleaseInv
<1>2. /\ UNCHANGED <<state, freeBuffers, notices, held, queueListener, kindOf, inCache>>
      /\ releasing[c].at = "released" /\ releasing[c] \in Releases
      /\ \/ /\ releasing[c].withSeq /\ astray' = astray
            /\ Goes(c, [releasing[c] EXCEPT !.at = "notifying", !.listener = queueListener])
         \/ Goes(c, NotReleasing) /\ astray' = astray \union ToSet(releasing[c].todo)
    BY <1>1 DEF SamplesListener, ReleaseTypes, listenVars, clientVars
<1>3. FreeListed' /\ \A b \in inCache' : state'[b] # "NONE"
    BY <1>1, <1>2 DEF FreeListed, ReleaseInv
<1>4. CASE /\ releasing[c].withSeq /\ astray' = astray
           /\ Goes(c, [releasing[c] EXCEPT !.at = "notifying", !.listener = queueListener])
    <2> DEFINE r == [releasing[c] EXCEPT !.at = "notifying", !.listener = queueListener]
    <2>1. r \in Releases /\ r.todo = releasing[c].todo /\ r.at = "notifying"
        BY <1>1, <1>2 DEF Releases, ReleaseTypes
    <2>2. Todo(c) # <<>>
        BY <1>2, <1>4 DEF ReleaseInv, ReleaserOK
    <2> HIDE DEF r
    <2>3. /\ \A d \in Releaser : Todo(d)' = Todo(d)
          /\ \A d \in Releaser \ {c} : releasing'[d] = releasing[d]
          /\ ReleaserOK(c)' /\ releasing' \in [Releaser -> Releases]
        <3>1. Goes(c, r) /\ r.todo = Todo(c)
            BY <1>4, <2>1 DEF r, Todo
        <3> QED BY <1>1, <2>1, <2>2, <3>1, SameList
    <2>4. \A d \in Releaser : ReleaserOK(d)'
        BY <2>3, OthersOK
    <2>5. ReleaseTypes'
        BY <1>1, <1>2, <2>3 DEF ReleaseTypes
    <2>6. ASSUME NEW b \in Buffer \ astray
          PROVE  CarriedOnce(b)' /\ CarriedByState(b)'
        <3>1. /\ Told(b)' <=> Told(b)
              /\ Single(notices, About(b))' <=> Single(notices, About(b))
              /\ \A d \in Releaser : /\ Due(d, b)' <=> Due(d, b)
                                     /\ Single(Todo(d), {b})' <=> Single(Todo(d), {b})
              /\ HeadsForApp(b)' <=> HeadsForApp(b)
            BY <1>2, <2>3, PlacesStay
        <3> QED BY <1>2, <3>1 DEF ReleaseInv, CarriedOnce, CarriedByState
    <2> QED BY <1>2, <1>3, <1>4, <2>4, <2>5, <2>6 DEF ReleaseInv
<1>5. CASE Goes(c, NotReleasing) /\ astray' = astray \union ToSet(releasing[c].todo)
    <2>1. NotReleasing \in Releases /\ NotReleasing.todo = <<>> /\ NotReleasing.at = "idle"
        BY EmptySeq DEF NotReleasing, Releases, NoListener
    <2>2. /\ releasing' \in [Releaser -> Releases] /\ releasing'[c] = NotReleasing
          /\ \A d \in Releaser \ {c} : releasing'[d] = releasing[d]
        BY <1>1, <1>5, <2>1 DEF Goes, ReleaseTypes
    <2>3. Todo(c)' = <<>> /\ \A d \in Releaser \ {c} : Todo(d)' = Todo(d)
        BY <2>1, <2>2 DEF Todo
    <2>4. \A d \in Releaser : ReleaserOK(d)'
        <3>1. ReleaserOK(c)'
            BY <2>1, <2>2, <2>3 DEF ReleaserOK
        <3>2. \A d \in Releaser \ {c} : ReleaserOK(d)'
            BY <2>2, <2>3 DEF ReleaserOK, ReleaseInv
        <3> QED BY <3>1, <3>2
    <2>5. ReleaseTypes'
        BY <1>1, <1>2, <2>2 DEF ReleaseTypes
    <2>6. ASSUME NEW b \in Buffer \ astray'
          PROVE  CarriedOnce(b)' /\ CarriedByState(b)'
        <3>1. b \notin astray /\ b \notin ToSet(Todo(c))
            BY <1>5, <2>6 DEF Todo
        <3>2. CarriedOnce(b) /\ CarriedByState(b)
            BY <3>1 DEF ReleaseInv
        <3>3. ~ Due(c, b)
            <4>1. Todo(c) \in Seq(Buffer)
                BY <1>1 DEF ReleaseTypes, Releases, Todo
            <4>2. DOMAIN Todo(c) = 1..Len(Todo(c))
                BY <4>1, LenProperties
            <4> QED BY <3>1, <4>2 DEF Due, Occurs, ToSet
        <3>4. ~ Due(c, b)' /\ Single(Todo(c), {b})'
            BY <2>3, OccursPlainly DEF Due
        <3>5. \A d \in Releaser \ {c} : /\ Due(d, b)' <=> Due(d, b)
                                        /\ Single(Todo(d), {b})' <=> Single(Todo(d), {b})
            BY <2>3 DEF Due, Occurs, Single
        <3>6. (Told(b)' <=> Told(b)) /\ (Single(notices, About(b))' <=> Single(notices, About(b)))
            BY <1>2 DEF Told, Occurs, Single, About
        <3>7. \A d \in Releaser : (Due(d, b)' <=> Due(d, b)) /\ Single(Todo(d), {b})'
            BY <3>2, <3>3, <3>4, <3>5 DEF CarriedOnce
        <3>8. HeadsForApp(b)' <=> HeadsForApp(b)
            BY <3>6, <3>7 DEF HeadsForApp
        <3>9. CarriedOnce(b)'
            BY <1>2, <3>2, <3>6, <3>7 DEF CarriedOnce
        <3> QED BY <1>2, <3>2, <3>8, <3>9 DEF CarriedByState
    <2> QED BY <1>2, <1>3, <2>4, <2>5, <2>6 DEF ReleaseInv
<1> QED BY <1>2, <1>4, <1>5

(* A notice is sent, or the release turns to cancelling.                    *)
LEMMA SendStep ==
    ASSUME ReleaseInv, NEW c \in Releaser, NEW sent \in BOOLEAN, SendsNotice(c, sent)
    PROVE  ReleaseInv'
<1> DEFINE x == Buf(c)
           n == [b |-> x, l |-> releasing[c].listener]
<1>1. ReleaseTypes /\ FreeListed
    BY DEF ReleaseInv
<1>2. /\ UNCHANGED <<state, freeBuffers, held, queueListener, kindOf, inCache, astray>>
      /\ releasing[c].at = "notifying" /\ releasing[c] \in Releases /\ Todo(c) # <<>>
    BY <1>1 DEF SendsNotice, ReleaseTypes, listenVars, clientVars, ReleaseInv, ReleaserOK
<1>3. FreeListed' /\ \A b \in inCache' : state'[b] # "NONE"
    BY <1>1, <1>2 DEF FreeListed, ReleaseInv
<1>4. CASE sent
    <2>1. notices' = Append(notices, n) /\ Goes(c, Next1(releasing[c]))
        BY <1>4 DEF SendsNotice
    <2>2. /\ x \in Buffer /\ x = Head(Todo(c)) /\ Todo(c)' = Tail(Todo(c))
          /\ \A d \in Releaser \ {c} : Todo(d)' = Todo(d) /\ releasing'[d] = releasing[d]
          /\ ReleaserOK(c)' /\ releasing' \in [Releaser -> Releases]
        <3> PICK r : r = releasing[c]
            OBVIOUS
        <3>1. Goes(c, Next1(r)) /\ r \in Releases /\ r.todo = Todo(c)
            BY <1>2, <2>1 DEF Todo
        <3> QED BY <1>1, <1>2, <3>1, NextInList
    <2>3. n \in Notice
        BY <1>2, <2>2 DEF Notice, Releases
    <2>4. \A d \in Releaser : ReleaserOK(d)'
        BY <2>2, OthersOK
    <2>5. notices \in Seq(Notice)
        BY <1>1 DEF ReleaseTypes
    <2>6. notices' \in Seq(Notice)
        BY <2>1, <2>3, <2>5, OccursAppend
    <2>7. ReleaseTypes'
        BY <1>1, <1>2, <2>2, <2>6 DEF ReleaseTypes
    <2>8. ASSUME NEW b \in Buffer \ astray
          PROVE  CarriedOnce(b)' /\ CarriedByState(b)'
        <3>1. CarriedOnce(b) /\ CarriedByState(b)
            BY DEF ReleaseInv
        <3>2. n \in About(b) <=> b = x
            BY <2>3 DEF About
        <3>3. /\ Occurs(notices', About(b)) <=> Occurs(notices, About(b)) \/ b = x
              /\ Single(notices, About(b)) /\ (b = x => ~ Occurs(notices, About(b)))
                    => Single(notices', About(b))
            BY <2>1, <2>3, <2>5, <3>2, OccursAppend
        <3>4. /\ Told(b)' <=> Told(b) \/ b = x
              /\ (b = x => ~ Told(b)) => Single(notices, About(b))'
            BY <3>1, <3>3 DEF Told, CarriedOnce, Occurs, Single, About
        <3>5. /\ \A d \in Releaser : Single(Todo(d), {b})'
              /\ b # x => \A d \in Releaser : Due(d, b)' <=> Due(d, b)
              /\ b = x => /\ Due(c, b) /\ \A d \in Releaser : ~ Due(d, b)'
                          /\ held[b] = 0 /\ ~ Told(b) /\ state[b] \in {"REQUESTED", "NONE"}
            <4> HIDE DEF x
            <4> QED BY <1>2, <2>2, FrontLeaves
        <3> HIDE DEF x
        <3>6. CASE b # x
            <4>1. HeadsForApp(b)' <=> HeadsForApp(b)
                BY <3>4, <3>5, <3>6 DEF HeadsForApp
            <4>2. CarriedOnce(b)'
                BY <1>2, <3>1, <3>4, <3>5, <3>6 DEF CarriedOnce
            <4> QED BY <1>2, <3>1, <4>1, <4>2 DEF CarriedByState
        <3>7. CASE b = x
            <4>1. HeadsForApp(b)'
                BY <3>4, <3>7 DEF HeadsForApp
            <4>2. CarriedOnce(b)'
                BY <1>2, <3>1, <3>4, <3>5, <3>7 DEF CarriedOnce
            <4> QED BY <1>2, <3>5, <3>7, <4>1, <4>2 DEF CarriedByState
        <3> QED BY <3>6, <3>7
    <2> QED BY <1>2, <1>3, <2>4, <2>7, <2>8 DEF ReleaseInv
<1>5. CASE ~ sent
    <2> DEFINE r == [releasing[c] EXCEPT !.at = "refused"]
    <2>1. Goes(c, r) /\ UNCHANGED notices
        BY <1>5 DEF SendsNotice
    <2>2. r \in Releases /\ r.todo = Todo(c) /\ r.at = "refused"
        BY <1>2 DEF Releases, Todo
    <2> HIDE DEF r
    <2>3. /\ \A d \in Releaser : Todo(d)' = Todo(d)
          /\ \A d \in Releaser \ {c} : releasing'[d] = releasing[d]
          /\ ReleaserOK(c)' /\ releasing' \in [Releaser -> Releases]
        BY <1>1, <1>2, <2>1, <2>2, SameList
    <2>4. \A d \in Releaser : ReleaserOK(d)'
        BY <2>3, OthersOK
    <2>5. ReleaseTypes'
        BY <1>1, <1>2, <2>1, <2>3 DEF ReleaseTypes
    <2>6. ASSUME NEW b \in Buffer \ astray
          PROVE  CarriedOnce(b)' /\ CarriedByState(b)'
        <3>1. /\ Told(b)' <=> Told(b)
              /\ Single(notices, About(b))' <=> Single(notices, About(b))
              /\ \A d \in Releaser : /\ Due(d, b)' <=> Due(d, b)
                                     /\ Single(Todo(d), {b})' <=> Single(Todo(d), {b})
              /\ HeadsForApp(b)' <=> HeadsForApp(b)
            BY <2>1, <2>3, PlacesStay
        <3> QED BY <1>2, <3>1 DEF ReleaseInv, CarriedOnce, CarriedByState
    <2> QED BY <1>2, <1>3, <2>4, <2>5, <2>6 DEF ReleaseInv
<1> QED BY <1>4, <1>5

(* The listener of the queue's own process: taken, refused or cancelled.    *)
LEMMA CallStep ==
    ASSUME ReleaseInv, NEW c \in Releaser, NEW answered \in {"taken", "refused", "cancelled"},
           CallsListener(c, answered)
    PROVE  ReleaseInv'
<1> DEFINE x == Buf(c)
<1>1. ReleaseTypes /\ FreeListed
    BY DEF ReleaseInv
<1>2. /\ UNCHANGED <<state, freeBuffers, notices, queueListener, kindOf, inCache, astray>>
      /\ releasing[c].at = "notifying" /\ releasing[c] \in Releases /\ Todo(c) # <<>>
    BY <1>1 DEF CallsListener, ReleaseTypes, listenVars, clientVars, ReleaseInv, ReleaserOK
<1>3. FreeListed' /\ \A b \in inCache' : state'[b] # "NONE"
    BY <1>1, <1>2 DEF FreeListed, ReleaseInv
<1>4. CASE answered = "taken"
    <2>1. held' = [held EXCEPT ![x] = held[x] + 1] /\ Goes(c, Next1(releasing[c])) /\ x \in inCache
        BY <1>4 DEF CallsListener, NoticeOutcomes
    <2>2. /\ x \in Buffer /\ x = Head(Todo(c)) /\ Todo(c)' = Tail(Todo(c))
          /\ \A d \in Releaser \ {c} : Todo(d)' = Todo(d) /\ releasing'[d] = releasing[d]
          /\ ReleaserOK(c)' /\ releasing' \in [Releaser -> Releases]
        <3> PICK r : r = releasing[c]
            OBVIOUS
        <3>1. Goes(c, Next1(r)) /\ r \in Releases /\ r.todo = Todo(c)
            BY <1>2, <2>1 DEF Todo
        <3> QED BY <1>1, <1>2, <3>1, NextInList
    <2> HIDE DEF x
    <2>3. \A d \in Releaser : ReleaserOK(d)'
        BY <2>2, OthersOK
    <2>4. /\ held' \in [Buffer -> Nat] /\ held'[x] = held[x] + 1
          /\ \A b \in Buffer \ {x} : held'[b] = held[b]
        BY <1>1, <2>1, <2>2 DEF ReleaseTypes
    <2>5. ReleaseTypes'
        BY <1>1, <1>2, <2>2, <2>4 DEF ReleaseTypes
    <2>6. ASSUME NEW b \in Buffer \ astray
          PROVE  CarriedOnce(b)' /\ CarriedByState(b)'
        <3>1. CarriedOnce(b) /\ CarriedByState(b)
            BY DEF ReleaseInv
        <3>2. (Told(b)' <=> Told(b)) /\ (Single(notices, About(b))' <=> Single(notices, About(b)))
            BY <1>2 DEF Told, Occurs, Single, About
        <3>3. /\ \A d \in Releaser : Single(Todo(d), {b})'
              /\ b # x => \A d \in Releaser : Due(d, b)' <=> Due(d, b)
              /\ b = x => /\ Due(c, b) /\ \A d \in Releaser : ~ Due(d, b)'
                          /\ held[b] = 0 /\ ~ Told(b) /\ state[b] \in {"REQUESTED", "NONE"}
            BY <1>2, <2>2, FrontLeaves
        <3>4. CASE b # x
            <4>1. HeadsForApp(b)' <=> HeadsForApp(b)
                BY <3>2, <3>3, <3>4 DEF HeadsForApp
            <4>2. CarriedOnce(b)'
                BY <2>4, <3>1, <3>2, <3>3, <3>4 DEF CarriedOnce
            <4> QED BY <1>2, <2>4, <3>1, <3>4, <4>1, <4>2 DEF CarriedByState
        <3>5. CASE b = x
            <4>1. held'[b] = 1 /\ ~ HeadsForApp(b)'
                BY <2>4, <3>2, <3>3, <3>5 DEF HeadsForApp
            <4>2. state'[b] = "REQUESTED"
                BY <1>2, <2>1, <3>3, <3>5 DEF ReleaseInv
            <4>3. CarriedOnce(b)'
                BY <3>1, <3>2, <3>3, <3>5, <4>1 DEF CarriedOnce
            <4> QED BY <4>1, <4>2, <4>3 DEF CarriedByState
        <3> QED BY <3>4, <3>5
    <2> QED BY <1>2, <1>3, <2>3, <2>5, <2>6 DEF ReleaseInv
<1>5. CASE answered # "taken"
    <2> DEFINE r == [releasing[c] EXCEPT !.at = answered]
    <2>1. Goes(c, r) /\ held' = held
        BY <1>5 DEF CallsListener
    <2>2. r \in Releases /\ r.todo = Todo(c) /\ r.at \in {"refused", "cancelled"}
        BY <1>2, <1>5 DEF Releases, Todo
    <2> HIDE DEF r
    <2>3. /\ \A d \in Releaser : Todo(d)' = Todo(d)
          /\ \A d \in Releaser \ {c} : releasing'[d] = releasing[d]
          /\ ReleaserOK(c)' /\ releasing' \in [Releaser -> Releases]
        BY <1>1, <1>2, <2>1, <2>2, SameList
    <2>4. \A d \in Releaser : ReleaserOK(d)'
        BY <2>3, OthersOK
    <2>5. ReleaseTypes'
        BY <1>1, <1>2, <2>1, <2>3 DEF ReleaseTypes
    <2>6. ASSUME NEW b \in Buffer \ astray
          PROVE  CarriedOnce(b)' /\ CarriedByState(b)'
        <3>1. /\ Told(b)' <=> Told(b)
              /\ Single(notices, About(b))' <=> Single(notices, About(b))
              /\ \A d \in Releaser : /\ Due(d, b)' <=> Due(d, b)
                                     /\ Single(Todo(d), {b})' <=> Single(Todo(d), {b})
              /\ HeadsForApp(b)' <=> HeadsForApp(b)
            BY <1>2, <2>3, PlacesStay
        <3> QED BY <1>2, <2>1, <3>1 DEF ReleaseInv, CarriedOnce, CarriedByState
    <2> QED BY <1>2, <1>3, <2>4, <2>5, <2>6 DEF ReleaseInv
<1> QED BY <1>4, <1>5

(* What was refused is cancelled; by the surface, once more than it should. *)
LEMMA RefusedStep ==
    ASSUME ReleaseInv, NEW c \in Releaser, SurfaceCancels(c) \/ QueueCancels(c)
    PROVE  ReleaseInv'
<1> DEFINE x == Buf(c)
<1>1. ReleaseTypes /\ FreeListed
    BY DEF ReleaseInv
<1>2. /\ UNCHANGED <<notices, queueListener, kindOf, inCache, held>>
      /\ releasing[c] \in Releases /\ Todo(c) # <<>> /\ CancelsHanded(x)
    BY <1>1 DEF SurfaceCancels, QueueCancels, ReleaseTypes, listenVars, clientVars, ReleaseInv, ReleaserOK
<1>3. x \in Buffer /\ x = Head(Todo(c))
    <2>1. Todo(c) \in Seq(Buffer)
        BY <1>2 DEF Releases, Todo
    <2> QED BY <1>2, <2>1, OccursTail DEF Buf, Todo
<1>4. /\ FreeListed' /\ state' \in [Buffer -> BufferStates]
      /\ \A b \in Buffer : state'[b] = IF b = x /\ state[x] = "REQUESTED" THEN "RELEASED" ELSE state[b]
    BY <1>1, <1>2, <1>3, CancelMoves
<1>5. \A b \in inCache' : state'[b] # "NONE"
    BY <1>1, <1>2, <1>4 DEF ReleaseInv, ReleaseTypes
<1>6. \A b \in Buffer : (Told(b)' <=> Told(b)) /\ (Single(notices, About(b))' <=> Single(notices, About(b)))
    BY <1>2 DEF Told, Occurs, Single, About
<1>7. CASE SurfaceCancels(c)
    <2> DEFINE r == [releasing[c] EXCEPT !.at = "refused"]
    <2>1. Goes(c, r) /\ astray' = astray \union {x}
        BY <1>7 DEF SurfaceCancels
    <2>2. r \in Releases /\ r.todo = Todo(c) /\ r.at = "refused"
        BY <1>2 DEF Releases, Todo
    <2> HIDE DEF r, x
    <2>3. /\ \A d \in Releaser : Todo(d)' = Todo(d)
          /\ \A d \in Releaser \ {c} : releasing'[d] = releasing[d]
          /\ ReleaserOK(c)' /\ releasing' \in [Releaser -> Releases]
        BY <1>1, <1>2, <2>1, <2>2, SameList
    <2>4. \A d \in Releaser : ReleaserOK(d)'
        BY <2>3, OthersOK
    <2>5. ReleaseTypes'
        BY <1>1, <1>2, <1>4, <2>3 DEF ReleaseTypes
    <2>6. ASSUME NEW b \in Buffer \ astray'
          PROVE  CarriedOnce(b)' /\ CarriedByState(b)'
        <3>1. b \notin astray /\ state'[b] = state[b]
            BY <1>4, <2>1, <2>6
        <3>2. /\ Told(b)' <=> Told(b)
              /\ Single(notices, About(b))' <=> Single(notices, About(b))
              /\ \A d \in Releaser : /\ Due(d, b)' <=> Due(d, b)
                                     /\ Single(Todo(d), {b})' <=> Single(Todo(d), {b})
              /\ HeadsForApp(b)' <=> HeadsForApp(b)
            BY <1>2, <2>3, PlacesStay
        <3> QED BY <1>2, <3>1, <3>2 DEF ReleaseInv, CarriedOnce, CarriedByState
    <2> QED BY <1>2, <1>4, <1>5, <2>4, <2>5, <2>6 DEF ReleaseInv
<1>8. CASE QueueCancels(c)
    <2>1. Goes(c, Next1(releasing[c])) /\ astray' = astray
        BY <1>8 DEF QueueCancels
    <2>2. /\ Todo(c)' = Tail(Todo(c))
          /\ \A d \in Releaser \ {c} : Todo(d)' = Todo(d) /\ releasing'[d] = releasing[d]
          /\ ReleaserOK(c)' /\ releasing' \in [Releaser -> Releases]
        <3> PICK r : r = releasing[c]
            OBVIOUS
        <3>1. Goes(c, Next1(r)) /\ r \in Releases /\ r.todo = Todo(c)
            BY <1>2, <2>1 DEF Todo
        <3> QED BY <1>1, <1>2, <3>1, NextInList
    <2> HIDE DEF x
    <2>3. \A d \in Releaser : ReleaserOK(d)'
        BY <2>2, OthersOK
    <2>4. ReleaseTypes'
        BY <1>1, <1>2, <1>4, <2>2 DEF ReleaseTypes
    <2>5. ASSUME NEW b \in Buffer \ astray
          PROVE  CarriedOnce(b)' /\ CarriedByState(b)'
        <3>1. CarriedOnce(b) /\ CarriedByState(b)
            BY DEF ReleaseInv
        <3>2. /\ \A d \in Releaser : Single(Todo(d), {b})'
              /\ b # x => \A d \in Releaser : Due(d, b)' <=> Due(d, b)
              /\ b = x => /\ Due(c, b) /\ \A d \in Releaser : ~ Due(d, b)'
                          /\ held[b] = 0 /\ ~ Told(b) /\ state[b] \in {"REQUESTED", "NONE"}
            BY <1>2, <1>3, <2>2, FrontLeaves
        <3>3. CASE b # x
            <4>1. HeadsForApp(b)' <=> HeadsForApp(b)
                BY <1>6, <3>2, <3>3 DEF HeadsForApp
            <4>2. CarriedOnce(b)'
                BY <1>2, <1>6, <3>1, <3>2, <3>3 DEF CarriedOnce
            <4> QED BY <1>2, <1>4, <3>1, <3>3, <4>1, <4>2 DEF CarriedByState
        <3>4. CASE b = x
            <4>1. held'[b] = 0 /\ ~ HeadsForApp(b)' /\ ~ Told(b)'
                BY <1>2, <1>6, <3>2, <3>4 DEF HeadsForApp
            <4>2. state'[b] # "REQUESTED"
                BY <1>4, <3>4
            <4>3. CarriedOnce(b)'
                BY <1>6, <3>1, <3>2, <3>4, <4>1 DEF CarriedOnce
            <4> QED BY <4>1, <4>2, <4>3 DEF CarriedByState
        <3> QED BY <3>3, <3>4
    <2> QED BY <1>2, <1>4, <1>5, <2>1, <2>3, <2>4, <2>5 DEF ReleaseInv
<1> QED BY <1>7, <1>8

(* The oldest notice arrives in the other process.                          *)
LEMMA ArriveStep ==
    ASSUME ReleaseInv, NEW answered \in {"taken", "refused", "cancelled"}, NoticeArrives(answered)
    PROVE  ReleaseInv'
<1> DEFINE m == Head(notices)
           x == m.b
<1>1. ReleaseTypes /\ FreeListed /\ notices \in Seq(Notice) /\ notices # <<>>
    BY DEF ReleaseInv, ReleaseTypes, NoticeArrives
<1>2. /\ UNCHANGED <<releasing, queueListener, kindOf, inCache>>
      /\ notices' = Tail(notices)
      /\ held' = IF answered = "taken" THEN [held EXCEPT ![x] = held[x] + 1] ELSE held
      /\ IF answered = "cancelled" THEN CancelsHanded(x) ELSE UNCHANGED <<state, freeBuffers>>
      /\ astray' = IF answered = "refused" THEN astray \union {x} ELSE astray
      /\ answered = "taken" => x \in inCache
    BY DEF NoticeArrives, NoticeOutcomes, listenVars, clientVars
<1>3. m \in Notice /\ x \in Buffer /\ Tail(notices) \in Seq(Notice)
    <2>1. m \in Notice /\ Tail(notices) \in Seq(Notice)
        BY <1>1, HeadTailProperties
    <2> QED BY <2>1 DEF Notice
<1>4. ASSUME NEW b \in Buffer
      PROVE  /\ Single(notices, About(b)) => Single(notices, About(b))'
             /\ b # x => (Told(b)' <=> Told(b))
             /\ b = x => Told(b) /\ (Single(notices, About(b)) => ~ Told(b)')
    <2>1. m \in About(b) <=> b = x
        BY <1>3 DEF About
    <2>2. /\ m \notin About(b) => (Occurs(Tail(notices), About(b)) <=> Occurs(notices, About(b)))
          /\ Single(notices, About(b)) => Single(Tail(notices), About(b))
          /\ m \in About(b) => /\ Occurs(notices, About(b))
                               /\ Single(notices, About(b)) => ~ Occurs(Tail(notices), About(b))
        BY <1>1, OccursTail
    <2>3. /\ Told(b)' <=> Occurs(Tail(notices), About(b))
          /\ Single(notices, About(b))' <=> Single(Tail(notices), About(b))
        BY <1>2 DEF Told, Occurs, Single, About
    <2> QED BY <2>1, <2>2, <2>3 DEF Told
<1> HIDE DEF m, x
<1>5. /\ FreeListed' /\ state' \in [Buffer -> BufferStates]
      /\ answered = "cancelled" =>
            \A b \in Buffer : state'[b] = IF b = x /\ state[x] = "REQUESTED" THEN "RELEASED" ELSE state[b]
      /\ answered # "cancelled" => state' = state
    <2>1. CASE answered = "cancelled"
        BY <1>1, <1>2, <1>3, <2>1, CancelMoves
    <2>2. CASE answered # "cancelled"
        BY <1>1, <1>2, <2>2 DEF FreeListed, ReleaseTypes
    <2> QED BY <2>1, <2>2
<1>6. /\ held' \in [Buffer -> Nat] /\ \A b \in Buffer \ {x} : held'[b] = held[b]
      /\ held'[x] = IF answered = "taken" THEN held[x] + 1 ELSE held[x]
    BY <1>1, <1>2, <1>3 DEF ReleaseTypes
<1>7. ReleaseTypes' /\ \A b \in inCache' : state'[b] # "NONE"
    <2>1. ReleaseTypes'
        BY <1>1, <1>2, <1>3, <1>5, <1>6 DEF ReleaseTypes
    <2>2. \A b \in Buffer : state[b] # "NONE" => state'[b] # "NONE"
        BY <1>5
    <2> QED BY <1>1, <1>2, <2>1, <2>2 DEF ReleaseInv, ReleaseTypes
<1>8. \A c \in Releaser : Todo(c)' = Todo(c) /\ ReleaserOK(c)'
    BY <1>2 DEF ReleaseInv, ReleaserOK, Todo
<1>9. ASSUME NEW b \in Buffer \ astray'
      PROVE  CarriedOnce(b)' /\ CarriedByState(b)'
    <2>1. b \notin astray /\ (b = x => answered # "refused")
        BY <1>2, <1>9
    <2>2. CarriedOnce(b) /\ CarriedByState(b)
        BY <2>1 DEF ReleaseInv
    <2>3. \A c \in Releaser : (Due(c, b)' <=> Due(c, b)) /\ Single(Todo(c), {b})'
        BY <1>8, <2>2 DEF Due, Occurs, Single, CarriedOnce
    <2>4. Single(notices, About(b))'
        BY <1>4, <2>2 DEF CarriedOnce
    <2>5. CASE b # x
        <3>1. (Told(b)' <=> Told(b)) /\ held'[b] = held[b] /\ state'[b] = state[b]
            BY <1>4, <1>5, <1>6, <2>5
        <3>2. HeadsForApp(b)' <=> HeadsForApp(b)
            BY <2>3, <3>1 DEF HeadsForApp
        <3>3. CarriedOnce(b)'
            BY <2>2, <2>3, <2>4, <3>1 DEF CarriedOnce
        <3> QED BY <2>2, <3>1, <3>2, <3>3 DEF CarriedByState
    <2>6. CASE b = x
        <3>1. /\ held[b] = 0 /\ \A c \in Releaser : ~ Due(c, b)
              /\ state[b] \in {"REQUESTED", "NONE"}
            BY <1>4, <2>2, <2>6 DEF CarriedOnce, CarriedByState, HeadsForApp
        <3>2. ~ Told(b)' /\ ~ HeadsForApp(b)'
            BY <1>4, <2>2, <2>3, <2>6, <3>1 DEF CarriedOnce, HeadsForApp
        <3>3. CASE answered = "taken"
            <4>1. held'[b] = 1 /\ state'[b] = "REQUESTED"
                BY <1>2, <1>5, <1>6, <2>6, <3>1, <3>3 DEF ReleaseInv
            <4> QED BY <2>2, <2>3, <2>4, <3>1, <3>2, <4>1 DEF CarriedOnce, CarriedByState
        <3>4. CASE answered = "cancelled"
            <4>1. held'[b] = 0 /\ state'[b] # "REQUESTED"
                BY <1>5, <1>6, <2>6, <3>1, <3>4
            <4> QED BY <2>2, <2>3, <2>4, <3>1, <3>2, <4>1 DEF CarriedOnce, CarriedByState
        <3> QED BY <2>1, <2>6, <3>3, <3>4
    <2> QED BY <2>5, <2>6
<1> QED BY <1>5, <1>7, <1>8, <1>9 DEF ReleaseInv

(* Nothing is out at the start.                                             *)
LEMMA ReleaseInvInit == ASSUME ReleaseInit PROVE ReleaseInv
<1>1. ReleaseTypes
    BY EmptySeq DEF ReleaseInit, ReleaseTypes, BufferStates, Releases, NotReleasing, NoListener
<1>2. FreeListed
    <2>1. {b \in Buffer : state[b] = "RELEASED"} = {}
        BY DEF ReleaseInit
    <2> QED BY <2>1, EmptyList DEF ReleaseInit, FreeListed
<1>3. \A c \in Releaser : Todo(c) = <<>> /\ ReleaserOK(c)
    BY DEF ReleaseInit, NotReleasing, Todo, ReleaserOK
<1>4. ASSUME NEW b \in Buffer
      PROVE  CarriedOnce(b) /\ CarriedByState(b)
    <2>1. /\ ~ Told(b) /\ Single(notices, About(b))
          /\ \A c \in Releaser : ~ Due(c, b) /\ Single(Todo(c), {b})
        BY <1>3, OccursPlainly DEF ReleaseInit, Told, Due
    <2>2. held[b] = 0 /\ state[b] = "NONE"
        BY DEF ReleaseInit
    <2> QED BY <2>1, <2>2 DEF CarriedOnce, CarriedByState, HeadsForApp
<1> QED BY <1>1, <1>2, <1>3, <1>4 DEF ReleaseInv, ReleaseInit

(* Every step keeps every buffer that is out in one place.                  *)
LEMMA ReleaseInvStep == ReleaseInv /\ [ReleaseNext]_releaseVars => ReleaseInv'
<1> SUFFICES ASSUME ReleaseInv, [ReleaseNext]_releaseVars PROVE ReleaseInv'
    OBVIOUS
<1>1. CASE UNCHANGED releaseVars
    <2>1. UNCHANGED <<state, freeBuffers, releasing, notices, held, astray, inCache, queueListener, kindOf>>
        BY <1>1 DEF releaseVars
    <2>2. ReleaseTypes' /\ FreeListed'
        BY <2>1 DEF ReleaseInv, ReleaseTypes, FreeListed
    <2>3. \A c \in Releaser : Todo(c)' = Todo(c) /\ ReleaserOK(c)'
        BY <2>1 DEF ReleaseInv, ReleaserOK, Todo
    <2>4. ASSUME NEW b \in Buffer \ astray
          PROVE  CarriedOnce(b)' /\ CarriedByState(b)'
        <3>1. /\ Told(b)' <=> Told(b)
              /\ Single(notices, About(b))' <=> Single(notices, About(b))
              /\ \A c \in Releaser : (Due(c, b)' <=> Due(c, b)) /\ (Single(Todo(c), {b})' <=> Single(Todo(c), {b}))
              /\ HeadsForApp(b)' <=> HeadsForApp(b)
            BY <2>1, <2>3, PlacesStay
        <3> QED BY <2>1, <3>1 DEF ReleaseInv, CarriedOnce, CarriedByState
    <2> QED BY <2>1, <2>2, <2>3, <2>4 DEF ReleaseInv
<1>2. CASE ReleaseNext
    BY <1>2, OwnStep, CleanStep, ReleaseStep, SampleStep, SendStep, CallStep, RefusedStep, ArriveStep,
       ListenerStep DEF ReleaseNext
<1> QED BY <1>1, <1>2

(* A buffer the queue handed over unasked has one user at a time            *)
(* (ListenerBufferReleasedCb, RequestBuffersForListenerLocked).             *)
THEOREM OneUserEach == ReleaseSpec => []HandedOnce
<1>1. ReleaseInit => ReleaseInv
    BY ReleaseInvInit
<1>2. ReleaseInv => HandedOnce
    <2> SUFFICES ASSUME ReleaseInv, NEW b \in Buffer \ astray
                 PROVE  /\ held[b] <= 1
                        /\ held[b] = 1 => state[b] = "REQUESTED" /\ ~UnderWay(b)
                        /\ b \in ToSet(freeBuffers) => state[b] = "RELEASED"
        BY DEF HandedOnce
    <2>1. CarriedOnce(b) /\ CarriedByState(b) /\ (UnderWay(b) <=> HeadsForApp(b))
        BY UnderWayIsHeading DEF ReleaseInv
    <2>2. held[b] = 1 => ~HeadsForApp(b)
        BY <2>1 DEF CarriedOnce, HeadsForApp
    <2>3. b \in ToSet(freeBuffers) => state[b] = "RELEASED"
        BY DEF ReleaseInv, FreeListed, Lists
    <2> QED BY <2>1, <2>2, <2>3 DEF CarriedOnce, CarriedByState
<1> QED BY <1>1, <1>2, ReleaseInvStep, PTL DEF ReleaseSpec

(* A buffer that is out to the producer is with the application or on its   *)
(* way there (QueueCancels frees what the listener refused).                *)
THEOREM NothingIsForgotten == ReleaseSpec => []NoneForgotten
<1>1. ReleaseInit => ReleaseInv
    BY ReleaseInvInit
<1>2. ReleaseInv => NoneForgotten
    BY UnderWayIsHeading DEF ReleaseInv, NoneForgotten, CarriedByState
<1> QED BY <1>1, <1>2, ReleaseInvStep, PTL DEF ReleaseSpec

-----------------------------------------------------------------------------
(* The matrices of a frame (FrameMatrix.tla).  Every matrix the code makes  *)
(* is one of the plane whose entries are whole units, and a product of two  *)
(* such is exact; so the model's rounding division never rounds, and what   *)
(* the matrix does to a point follows from its six entries.                 *)

U(k) == Unit * k    \* k whole units

(* What is counted in whole units divides by Unit without rounding.         *)
LEMMA WholeUnits ==
    ASSUME NEW k \in Int
    PROVE  U(k) \in Int /\ U(k) \div Unit = k
BY UnitAssumption DEF U

(* A matrix of the plane by its six entries, as numbers or as whole units.  *)
Six == Int \X Int \X Int \X Int \X Int \X Int

PlaneOf(k) == Plane(k[1], k[2], k[3], k[4], k[5], k[6])
Scale(k)   == <<U(k[1]), U(k[2]), U(k[3]), U(k[4]), U(k[5]), U(k[6])>>

(* A product, entry by entry.                                               *)
Dot(l, r, row, col) == (l[row + 1] * r[4 * col + 1] + l[row + 5] * r[4 * col + 2]
              + l[row + 9] * r[4 * col + 3] + l[row + 13] * r[4 * col + 4]) \div Unit

(* A product is known by its sixteen entries.                               *)
LEMMA ProductEntries ==
    ASSUME NEW l, NEW r, NEW a, NEW b, NEW c, NEW d, NEW e, NEW f,
           Dot(l, r, 0, 0) = a, Dot(l, r, 1, 0) = b, Dot(l, r, 2, 0) = 0, Dot(l, r, 3, 0) = 0,
           Dot(l, r, 0, 1) = c, Dot(l, r, 1, 1) = d, Dot(l, r, 2, 1) = 0, Dot(l, r, 3, 1) = 0,
           Dot(l, r, 0, 2) = 0, Dot(l, r, 1, 2) = 0, Dot(l, r, 2, 2) = Unit, Dot(l, r, 3, 2) = 0,
           Dot(l, r, 0, 3) = e, Dot(l, r, 1, 3) = f, Dot(l, r, 2, 3) = 0, Dot(l, r, 3, 3) = Unit
    PROVE  MatrixProduct(l, r) = Plane(a, b, c, d, e, f)
<1> DEFINE p == MatrixProduct(l, r)
           q == Plane(a, b, c, d, e, f)
<1>1. \A i \in 1..16 : p[i] = Dot(l, r, (i - 1) % 4, (i - 1) \div 4)
    BY DEF MatrixProduct, Dot
<1>2. /\ p[1] = Dot(l, r, 0, 0) /\ p[2] = Dot(l, r, 1, 0) /\ p[3] = Dot(l, r, 2, 0) /\ p[4] = Dot(l, r, 3, 0)
      /\ p[5] = Dot(l, r, 0, 1) /\ p[6] = Dot(l, r, 1, 1) /\ p[7] = Dot(l, r, 2, 1) /\ p[8] = Dot(l, r, 3, 1)
      /\ p[9] = Dot(l, r, 0, 2) /\ p[10] = Dot(l, r, 1, 2) /\ p[11] = Dot(l, r, 2, 2) /\ p[12] = Dot(l, r, 3, 2)
      /\ p[13] = Dot(l, r, 0, 3) /\ p[14] = Dot(l, r, 1, 3) /\ p[15] = Dot(l, r, 2, 3) /\ p[16] = Dot(l, r, 3, 3)
    <2> HIDE DEF p
    <2>1. \A row \in 0..3, col \in 0..3 :
             LET i == 4 * col + row + 1 IN i \in 1..16 /\ (i - 1) % 4 = row /\ (i - 1) \div 4 = col
        OBVIOUS
    <2>2. \A row \in 0..3, col \in 0..3 : p[4 * col + row + 1] = Dot(l, r, row, col)
        BY <1>1, <2>1
    <2>3. /\ p[1] = Dot(l, r, 0, 0) /\ p[2] = Dot(l, r, 1, 0) /\ p[3] = Dot(l, r, 2, 0) /\ p[4] = Dot(l, r, 3, 0)
        BY <2>2
    <2> QED BY <2>2
<1>3. /\ DOMAIN p = 1..16 /\ p = [i \in 1..16 |-> p[i]]
    BY DEF MatrixProduct
<1>4. q = [i \in 1..16 |-> q[i]]
    BY DEF Plane
<1>5. \A i \in 1..16 : p[i] = q[i]
    <2>1. /\ q[1] = a /\ q[2] = b /\ q[3] = 0 /\ q[4] = 0
           /\ q[5] = c /\ q[6] = d /\ q[7] = 0 /\ q[8] = 0
           /\ q[9] = 0 /\ q[10] = 0 /\ q[11] = Unit /\ q[12] = 0
           /\ q[13] = e /\ q[14] = f /\ q[15] = 0 /\ q[16] = Unit
        BY DEF Plane
    <2> HIDE DEF p, q
    <2> QED BY <1>2, <2>1
<1> QED
    <2> HIDE DEF p, q
    <2>1. p = q
        BY <1>3, <1>4, <1>5
    <2> QED BY <2>1 DEF p, q

(* The entries Dot multiplies, column by column.                            *)
LEMMA DotEntries ==
    ASSUME NEW l, NEW r, NEW row \in 0..3
    PROVE  LET x == l[row + 1]
               y == l[row + 5]
               w == l[row + 9]
               z == l[row + 13]
           IN  /\ Dot(l, r, row, 0) = (x * r[1] + y * r[2] + w * r[3] + z * r[4]) \div Unit
               /\ Dot(l, r, row, 1) = (x * r[5] + y * r[6] + w * r[7] + z * r[8]) \div Unit
               /\ Dot(l, r, row, 2) = (x * r[9] + y * r[10] + w * r[11] + z * r[12]) \div Unit
               /\ Dot(l, r, row, 3) = (x * r[13] + y * r[14] + w * r[15] + z * r[16]) \div Unit
<1>1. /\ 4 * 0 + 1 = 1 /\ 4 * 0 + 2 = 2 /\ 4 * 0 + 3 = 3 /\ 4 * 0 + 4 = 4
      /\ 4 * 1 + 1 = 5 /\ 4 * 1 + 2 = 6 /\ 4 * 1 + 3 = 7 /\ 4 * 1 + 4 = 8
      /\ 4 * 2 + 1 = 9 /\ 4 * 2 + 2 = 10 /\ 4 * 2 + 3 = 11 /\ 4 * 2 + 4 = 12
      /\ 4 * 3 + 1 = 13 /\ 4 * 3 + 2 = 14 /\ 4 * 3 + 3 = 15 /\ 4 * 3 + 4 = 16
    OBVIOUS
<1> QED BY <1>1, Zenon DEF Dot

(* How the six entries multiply: sums of two products, in the last column   *)
(* with an offset.                                                          *)
Lin(x, y, u, v)    == x * u + y * v
Aff(x, y, z, u, v) == x * u + y * v + z

Compose(l, r) ==
    <<Lin(l[1], l[3], r[1], r[2]), Lin(l[2], l[4], r[1], r[2]),
      Lin(l[1], l[3], r[3], r[4]), Lin(l[2], l[4], r[3], r[4]),
      Aff(l[1], l[3], l[5], r[5], r[6]), Aff(l[2], l[4], l[6], r[5], r[6])>>

(* The offset of the left factor is scaled by the 1 in the right one.       *)
Offset(k) == <<k[1], k[2], k[3], k[4], U(k[5]), U(k[6])>>

(* Whole units can be taken out of a sum of products.                       *)
LEMMA LinRight ==
    ASSUME NEW x \in Int, NEW y \in Int, NEW u \in Int, NEW v \in Int
    PROVE  Lin(x, y, U(u), U(v)) = U(Lin(x, y, u, v))
BY UnitAssumption DEF Lin, U

(* The same on the left,                                                    *)
LEMMA LinLeft ==
    ASSUME NEW x \in Int, NEW y \in Int, NEW u \in Int, NEW v \in Int
    PROVE  Lin(U(x), U(y), u, v) = U(Lin(x, y, u, v))
BY UnitAssumption DEF Lin, U

(* and with an offset,                                                      *)
LEMMA AffRight ==
    ASSUME NEW x \in Int, NEW y \in Int, NEW z \in Int, NEW u \in Int, NEW v \in Int
    PROVE  Aff(x, y, U(z), U(u), U(v)) = U(Aff(x, y, z, u, v))
BY UnitAssumption DEF Aff, U

(* on either side.                                                          *)
LEMMA AffLeft ==
    ASSUME NEW x \in Int, NEW y \in Int, NEW z \in Int, NEW u \in Int, NEW v \in Int
    PROVE  Aff(U(x), U(y), U(z), u, v) = U(Aff(x, y, z, u, v))
BY UnitAssumption DEF Aff, U

(* Six entries stay six integers.                                           *)
LEMMA SixTypes ==
    ASSUME NEW l \in Six, NEW r \in Six
    PROVE  Scale(l) \in Six /\ Offset(l) \in Six /\ Compose(l, r) \in Six
<1>1. \A k \in Int : U(k) \in Int
    BY WholeUnits
<1>2. Scale(l) \in Six /\ Offset(l) \in Six
    BY <1>1 DEF Six, Scale, Offset
<1>3. \A x \in Int, y \in Int, u \in Int, v \in Int : Lin(x, y, u, v) \in Int
    BY DEF Lin
<1>4. \A x \in Int, y \in Int, z \in Int, u \in Int, v \in Int : Aff(x, y, z, u, v) \in Int
    BY DEF Aff
<1> QED BY <1>2, <1>3, <1>4 DEF Six, Compose

(* One row of a product with a matrix of the plane.                         *)
LEMMA RowEntries ==
    ASSUME NEW l, NEW k \in Six, NEW row \in 0..3,
           l[row + 1] \in Int, l[row + 5] \in Int, l[row + 9] \in Int, l[row + 13] \in Int
    PROVE  /\ Dot(l, PlaneOf(k), row, 0) = Lin(l[row + 1], l[row + 5], k[1], k[2]) \div Unit
           /\ Dot(l, PlaneOf(k), row, 1) = Lin(l[row + 1], l[row + 5], k[3], k[4]) \div Unit
           /\ Dot(l, PlaneOf(k), row, 2) = l[row + 9]
           /\ Dot(l, PlaneOf(k), row, 3)
                = Aff(l[row + 1], l[row + 5], U(l[row + 13]), k[5], k[6]) \div Unit
<1> DEFINE r == PlaneOf(k)
           x == l[row + 1]
           y == l[row + 5]
           w == l[row + 9]
           z == l[row + 13]
<1>1. /\ r[1] = k[1] /\ r[2] = k[2] /\ r[3] = 0 /\ r[4] = 0
      /\ r[5] = k[3] /\ r[6] = k[4] /\ r[7] = 0 /\ r[8] = 0
      /\ r[9] = 0 /\ r[10] = 0 /\ r[11] = Unit /\ r[12] = 0
      /\ r[13] = k[5] /\ r[14] = k[6] /\ r[15] = 0 /\ r[16] = Unit
    BY DEF PlaneOf, Plane
<1> HIDE DEF r
<1>2. /\ Dot(l, r, row, 0) = (x * k[1] + y * k[2] + w * 0 + z * 0) \div Unit
      /\ Dot(l, r, row, 1) = (x * k[3] + y * k[4] + w * 0 + z * 0) \div Unit
      /\ Dot(l, r, row, 2) = (x * 0 + y * 0 + w * Unit + z * 0) \div Unit
      /\ Dot(l, r, row, 3) = (x * k[5] + y * k[6] + w * 0 + z * Unit) \div Unit
    BY <1>1, DotEntries
<1>3. /\ Unit \in Int /\ k[1] \in Int /\ k[2] \in Int /\ k[3] \in Int /\ k[4] \in Int /\ k[5] \in Int
      /\ k[6] \in Int
    BY UnitAssumption DEF Six
<1>4. x \in Int /\ y \in Int /\ w \in Int /\ z \in Int
    OBVIOUS
<1> HIDE DEF x, y, w, z
<1>5. /\ x * k[1] + y * k[2] + w * 0 + z * 0 = Lin(x, y, k[1], k[2])
      /\ x * k[3] + y * k[4] + w * 0 + z * 0 = Lin(x, y, k[3], k[4])
      /\ x * 0 + y * 0 + w * Unit + z * 0 = U(w)
      /\ x * k[5] + y * k[6] + w * 0 + z * Unit = Aff(x, y, U(z), k[5], k[6])
    BY <1>3, <1>4 DEF Lin, Aff, U
<1>6. U(w) \div Unit = w
    BY <1>4, WholeUnits
<1> QED BY <1>2, <1>5, <1>6 DEF r, x, y, w, z

(* A product of which every entry divides by Unit is exact.                 *)
LEMMA ExactProduct ==
    ASSUME NEW l \in Six, NEW r \in Six, NEW m \in Six, Compose(Offset(l), r) = Scale(m)
    PROVE  MatrixProduct(PlaneOf(l), PlaneOf(r)) = PlaneOf(m)
<1> DEFINE p == PlaneOf(l)
           q == PlaneOf(r)
<1>1. /\ p[0 + 1] = l[1] /\ p[0 + 5] = l[3] /\ p[0 + 9] = 0 /\ p[0 + 13] = l[5]
      /\ p[1 + 1] = l[2] /\ p[1 + 5] = l[4] /\ p[1 + 9] = 0 /\ p[1 + 13] = l[6]
      /\ p[2 + 1] = 0 /\ p[2 + 5] = 0 /\ p[2 + 9] = Unit /\ p[2 + 13] = 0
      /\ p[3 + 1] = 0 /\ p[3 + 5] = 0 /\ p[3 + 9] = 0 /\ p[3 + 13] = Unit
    BY DEF PlaneOf, Plane
<1>2. /\ Unit \in Int /\ l[1] \in Int /\ l[2] \in Int /\ l[3] \in Int /\ l[4] \in Int /\ l[5] \in Int
      /\ l[6] \in Int /\ r[1] \in Int /\ r[2] \in Int /\ r[3] \in Int /\ r[4] \in Int /\ r[5] \in Int
      /\ r[6] \in Int /\ m[1] \in Int /\ m[2] \in Int /\ m[3] \in Int /\ m[4] \in Int /\ m[5] \in Int
      /\ m[6] \in Int
    BY UnitAssumption DEF Six
<1>3. /\ Lin(l[1], l[3], r[1], r[2]) = U(m[1]) /\ Lin(l[2], l[4], r[1], r[2]) = U(m[2])
      /\ Lin(l[1], l[3], r[3], r[4]) = U(m[3]) /\ Lin(l[2], l[4], r[3], r[4]) = U(m[4])
      /\ Aff(l[1], l[3], U(l[5]), r[5], r[6]) = U(m[5])
      /\ Aff(l[2], l[4], U(l[6]), r[5], r[6]) = U(m[6])
    BY DEF Compose, Offset, Scale
<1>4. \A k \in Int : U(k) \div Unit = k
    BY WholeUnits
<1> HIDE DEF p, q
<1>5. \A row \in 0..3 :
          /\ p[row + 1] \in Int /\ p[row + 5] \in Int /\ p[row + 9] \in Int /\ p[row + 13] \in Int
          => /\ Dot(p, q, row, 0) = Lin(p[row + 1], p[row + 5], r[1], r[2]) \div Unit
             /\ Dot(p, q, row, 1) = Lin(p[row + 1], p[row + 5], r[3], r[4]) \div Unit
             /\ Dot(p, q, row, 2) = p[row + 9]
             /\ Dot(p, q, row, 3) = Aff(p[row + 1], p[row + 5], U(p[row + 13]), r[5], r[6]) \div Unit
    BY RowEntries DEF q
<1>6. /\ Dot(p, q, 0, 0) = m[1] /\ Dot(p, q, 0, 1) = m[3]
      /\ Dot(p, q, 0, 2) = 0    /\ Dot(p, q, 0, 3) = m[5]
    BY <1>1, <1>2, <1>3, <1>4, <1>5
<1>7. /\ Dot(p, q, 1, 0) = m[2] /\ Dot(p, q, 1, 1) = m[4]
      /\ Dot(p, q, 1, 2) = 0    /\ Dot(p, q, 1, 3) = m[6]
    BY <1>1, <1>2, <1>3, <1>4, <1>5
<1>8. /\ Lin(0, 0, r[1], r[2]) = U(0) /\ Lin(0, 0, r[3], r[4]) = U(0)
      /\ Aff(0, 0, U(0), r[5], r[6]) = U(0) /\ Aff(0, 0, U(Unit), r[5], r[6]) = U(Unit)
    BY <1>2 DEF Lin, Aff, U
<1>9. /\ Dot(p, q, 2, 0) = 0 /\ Dot(p, q, 2, 1) = 0 /\ Dot(p, q, 2, 2) = Unit /\ Dot(p, q, 2, 3) = 0
    BY <1>1, <1>2, <1>4, <1>5, <1>8
<1>10. /\ Dot(p, q, 3, 0) = 0 /\ Dot(p, q, 3, 1) = 0 /\ Dot(p, q, 3, 2) = 0 /\ Dot(p, q, 3, 3) = Unit
    BY <1>1, <1>2, <1>4, <1>5, <1>8
<1>11. MatrixProduct(p, q) = Plane(m[1], m[2], m[3], m[4], m[5], m[6])
    BY <1>6, <1>7, <1>9, <1>10, ProductEntries
<1> QED BY <1>11 DEF p, q, PlaneOf

(* So is one with whole units on the right,                                 *)
LEMMA TimesUnits ==
    ASSUME NEW l \in Six, NEW r \in Six
    PROVE  MatrixProduct(PlaneOf(l), PlaneOf(Scale(r))) = PlaneOf(Compose(l, r))
<1>1. Compose(Offset(l), Scale(r)) = Scale(Compose(l, r))
    <2>1. Lin(l[1], l[3], U(r[1]), U(r[2]))
           = U(Lin(l[1], l[3], r[1], r[2]))
        <3>1. l[1] \in Int /\ l[3] \in Int /\ r[1] \in Int /\ r[2] \in Int
            BY WholeUnits DEF Six
        <3> QED BY <3>1, LinRight
    <2>2. Lin(l[2], l[4], U(r[1]), U(r[2]))
           = U(Lin(l[2], l[4], r[1], r[2]))
        <3>1. l[2] \in Int /\ l[4] \in Int /\ r[1] \in Int /\ r[2] \in Int
            BY WholeUnits DEF Six
        <3> QED BY <3>1, LinRight
    <2>3. Lin(l[1], l[3], U(r[3]), U(r[4]))
           = U(Lin(l[1], l[3], r[3], r[4]))
        <3>1. l[1] \in Int /\ l[3] \in Int /\ r[3] \in Int /\ r[4] \in Int
            BY WholeUnits DEF Six
        <3> QED BY <3>1, LinRight
    <2>4. Lin(l[2], l[4], U(r[3]), U(r[4]))
           = U(Lin(l[2], l[4], r[3], r[4]))
        <3>1. l[2] \in Int /\ l[4] \in Int /\ r[3] \in Int /\ r[4] \in Int
            BY WholeUnits DEF Six
        <3> QED BY <3>1, LinRight
    <2>5. Aff(l[1], l[3], U(l[5]), U(r[5]), U(r[6]))
           = U(Aff(l[1], l[3], l[5], r[5], r[6]))
        <3>1. l[1] \in Int /\ l[3] \in Int /\ l[5] \in Int /\ r[5] \in Int /\ r[6] \in Int
            BY WholeUnits DEF Six
        <3> QED BY <3>1, AffRight
    <2>6. Aff(l[2], l[4], U(l[6]), U(r[5]), U(r[6]))
           = U(Aff(l[2], l[4], l[6], r[5], r[6]))
        <3>1. l[2] \in Int /\ l[4] \in Int /\ l[6] \in Int /\ r[5] \in Int /\ r[6] \in Int
            BY WholeUnits DEF Six
        <3> QED BY <3>1, AffRight
    <2> QED BY <2>1, <2>2, <2>3, <2>4, <2>5, <2>6 DEF Compose, Offset, Scale
<1> QED BY <1>1, SixTypes, ExactProduct

(* and one with whole units on the left, whose offset counts once.          *)
LEMMA UnitsTimes ==
    ASSUME NEW l \in Six, NEW r \in Six
    PROVE  MatrixProduct(PlaneOf(Scale(l)), PlaneOf(r)) = PlaneOf(Compose(Offset(l), r))
<1>1. Compose(Offset(Scale(l)), r) = Scale(Compose(Offset(l), r))
    <2>1. Lin(U(l[1]), U(l[3]), r[1], r[2])
           = U(Lin(l[1], l[3], r[1], r[2]))
        <3>1. l[1] \in Int /\ l[3] \in Int /\ r[1] \in Int /\ r[2] \in Int
            BY WholeUnits DEF Six
        <3> QED BY <3>1, LinLeft
    <2>2. Lin(U(l[2]), U(l[4]), r[1], r[2])
           = U(Lin(l[2], l[4], r[1], r[2]))
        <3>1. l[2] \in Int /\ l[4] \in Int /\ r[1] \in Int /\ r[2] \in Int
            BY WholeUnits DEF Six
        <3> QED BY <3>1, LinLeft
    <2>3. Lin(U(l[1]), U(l[3]), r[3], r[4])
           = U(Lin(l[1], l[3], r[3], r[4]))
        <3>1. l[1] \in Int /\ l[3] \in Int /\ r[3] \in Int /\ r[4] \in Int
            BY WholeUnits DEF Six
        <3> QED BY <3>1, LinLeft
    <2>4. Lin(U(l[2]), U(l[4]), r[3], r[4])
           = U(Lin(l[2], l[4], r[3], r[4]))
        <3>1. l[2] \in Int /\ l[4] \in Int /\ r[3] \in Int /\ r[4] \in Int
            BY WholeUnits DEF Six
        <3> QED BY <3>1, LinLeft
    <2>5. Aff(U(l[1]), U(l[3]), U(U(l[5])), r[5], r[6])
           = U(Aff(l[1], l[3], U(l[5]), r[5], r[6]))
        <3>1. l[1] \in Int /\ l[3] \in Int /\ U(l[5]) \in Int /\ r[5] \in Int /\ r[6] \in Int
            BY WholeUnits DEF Six
        <3> QED BY <3>1, AffLeft
    <2>6. Aff(U(l[2]), U(l[4]), U(U(l[6])), r[5], r[6])
           = U(Aff(l[2], l[4], U(l[6]), r[5], r[6]))
        <3>1. l[2] \in Int /\ l[4] \in Int /\ U(l[6]) \in Int /\ r[5] \in Int /\ r[6] \in Int
            BY WholeUnits DEF Six
        <3> QED BY <3>1, AffLeft
    <2> QED BY <2>1, <2>2, <2>3, <2>4, <2>5, <2>6 DEF Compose, Offset, Scale
<1> QED BY <1>1, SixTypes, ExactProduct

(* Whole units times whole units: the entries multiply as plain numbers do. *)
LEMMA UnitsProduct ==
    ASSUME NEW l \in Six, NEW r \in Six
    PROVE  MatrixProduct(PlaneOf(Scale(l)), PlaneOf(Scale(r))) = PlaneOf(Scale(Compose(l, r)))
<1>1. Compose(Scale(l), r) = Scale(Compose(l, r))
    <2>1. Lin(U(l[1]), U(l[3]), r[1], r[2])
           = U(Lin(l[1], l[3], r[1], r[2]))
        <3>1. l[1] \in Int /\ l[3] \in Int /\ r[1] \in Int /\ r[2] \in Int
            BY WholeUnits DEF Six
        <3> QED BY <3>1, LinLeft
    <2>2. Lin(U(l[2]), U(l[4]), r[1], r[2])
           = U(Lin(l[2], l[4], r[1], r[2]))
        <3>1. l[2] \in Int /\ l[4] \in Int /\ r[1] \in Int /\ r[2] \in Int
            BY WholeUnits DEF Six
        <3> QED BY <3>1, LinLeft
    <2>3. Lin(U(l[1]), U(l[3]), r[3], r[4])
           = U(Lin(l[1], l[3], r[3], r[4]))
        <3>1. l[1] \in Int /\ l[3] \in Int /\ r[3] \in Int /\ r[4] \in Int
            BY WholeUnits DEF Six
        <3> QED BY <3>1, LinLeft
    <2>4. Lin(U(l[2]), U(l[4]), r[3], r[4])
           = U(Lin(l[2], l[4], r[3], r[4]))
        <3>1. l[2] \in Int /\ l[4] \in Int /\ r[3] \in Int /\ r[4] \in Int
            BY WholeUnits DEF Six
        <3> QED BY <3>1, LinLeft
    <2>5. Aff(U(l[1]), U(l[3]), U(l[5]), r[5], r[6])
           = U(Aff(l[1], l[3], l[5], r[5], r[6]))
        <3>1. l[1] \in Int /\ l[3] \in Int /\ l[5] \in Int /\ r[5] \in Int /\ r[6] \in Int
            BY WholeUnits DEF Six
        <3> QED BY <3>1, AffLeft
    <2>6. Aff(U(l[2]), U(l[4]), U(l[6]), r[5], r[6])
           = U(Aff(l[2], l[4], l[6], r[5], r[6]))
        <3>1. l[2] \in Int /\ l[4] \in Int /\ l[6] \in Int /\ r[5] \in Int /\ r[6] \in Int
            BY WholeUnits DEF Six
        <3> QED BY <3>1, AffLeft
    <2> QED BY <2>1, <2>2, <2>3, <2>4, <2>5, <2>6 DEF Compose, Scale
<1>2. MatrixProduct(PlaneOf(Scale(l)), PlaneOf(Scale(r))) = PlaneOf(Compose(Scale(l), r))
    BY SixTypes, TimesUnits
<1> QED BY <1>1, <1>2

(* What a transform does to a point of the unit square: it goes to          *)
(* (k[1] x + k[3] y + k[5], k[2] x + k[4] y + k[6]).                        *)
Motion(t) ==
    CASE t = "ROTATE_NONE"                       -> <<1, 0, 0, 1, 0, 0>>
      [] t = "ROTATE_90"                         -> <<0, -1, 1, 0, 0, 1>>
      [] t = "ROTATE_180"                        -> <<-1, 0, 0, -1, 1, 1>>
      [] t = "ROTATE_270"                        -> <<0, 1, -1, 0, 1, 0>>
      [] t \in {"FLIP_H", "FLIP_V_ROT180"}       -> <<-1, 0, 0, 1, 1, 0>>
      [] t \in {"FLIP_V", "FLIP_H_ROT180"}       -> <<1, 0, 0, -1, 0, 1>>
      [] t \in {"FLIP_H_ROT90", "FLIP_V_ROT270"} -> <<0, -1, -1, 0, 1, 1>>
      [] t \in {"FLIP_V_ROT90", "FLIP_H_ROT270"} -> <<0, 1, 1, 0, 0, 0>>

(* The motion is what the reference does to a corner, transform by transform. *)
LEMMA MotionMoves ==
    ASSUME NEW t \in GraphicTransforms, NEW p \in Corners
    PROVE  LET k == Motion(t) IN
           /\ k \in Six
           /\ Moves(t, p) = <<k[1] * p[1] + k[3] * p[2] + k[5], k[2] * p[1] + k[4] * p[2] + k[6]>>
<1>1. CASE t = "ROTATE_NONE"
    BY <1>1 DEF Motion, Moves, Flip, Turned, Quarter, Turns, Corners, Six
<1>2. CASE t = "ROTATE_90"
    BY <1>2 DEF Motion, Moves, Flip, Turned, Quarter, Turns, Corners, Six
<1>3. CASE t = "ROTATE_180"
    BY <1>3 DEF Motion, Moves, Flip, Turned, Quarter, Turns, Corners, Six
<1>4. CASE t = "ROTATE_270"
    BY <1>4 DEF Motion, Moves, Flip, Turned, Quarter, Turns, Corners, Six
<1>5. CASE t = "FLIP_H"
    BY <1>5 DEF Motion, Moves, Flip, Turned, Quarter, Turns, Corners, Six
<1>6. CASE t = "FLIP_V"
    BY <1>6 DEF Motion, Moves, Flip, Turned, Quarter, Turns, Corners, Six
<1>7. CASE t = "FLIP_H_ROT90"
    BY <1>7 DEF Motion, Moves, Flip, Turned, Quarter, Turns, Corners, Six
<1>8. CASE t = "FLIP_V_ROT90"
    BY <1>8 DEF Motion, Moves, Flip, Turned, Quarter, Turns, Corners, Six
<1>9. CASE t = "FLIP_H_ROT180"
    BY <1>9 DEF Motion, Moves, Flip, Turned, Quarter, Turns, Corners, Six
<1>10. CASE t = "FLIP_V_ROT180"
    BY <1>10 DEF Motion, Moves, Flip, Turned, Quarter, Turns, Corners, Six
<1>11. CASE t = "FLIP_H_ROT270"
    BY <1>11 DEF Motion, Moves, Flip, Turned, Quarter, Turns, Corners, Six
<1>12. CASE t = "FLIP_V_ROT270"
    BY <1>12 DEF Motion, Moves, Flip, Turned, Quarter, Turns, Corners, Six
<1> QED BY <1>1, <1>2, <1>3, <1>4, <1>5, <1>6, <1>7, <1>8, <1>9, <1>10, <1>11, <1>12 DEF GraphicTransforms


(* The matrices the code starts from, and those it makes of them.           *)
Units(k) == PlaneOf(Scale(k))

(* They are whole units, in both conventions.                               *)
LEMMA BasicMatrices ==
    /\ Identity = Units(<<1, 0, 0, 1, 0, 0>>)
    /\ NewRotate90  = Units(<<0, 1, -1, 0, 1, 0>>)
    /\ NewRotate180 = Units(<<-1, 0, 0, -1, 1, 1>>)
    /\ NewRotate270 = Units(<<0, -1, 1, 0, 0, 1>>)
    /\ NewFlipH     = Units(<<-1, 0, 0, 1, 1, 0>>)
    /\ NewFlipV     = Units(<<1, 0, 0, -1, 0, 1>>)
    /\ Plane(0, -One, One, 0, 0, 0)  = Units(<<0, -1, 1, 0, 0, 0>>)
    /\ Plane(-One, 0, 0, -One, 0, 0) = Units(<<-1, 0, 0, -1, 0, 0>>)
    /\ Plane(0, One, -One, 0, 0, 0)  = Units(<<0, 1, -1, 0, 0, 0>>)
    /\ Plane(-One, 0, 0, One, 0, 0)  = Units(<<-1, 0, 0, 1, 0, 0>>)
    /\ Plane(One, 0, 0, -One, 0, 0)  = Units(<<1, 0, 0, -1, 0, 0>>)
<1>1. U(0) = 0 /\ U(1) = One /\ U(-1) = -One
    BY UnitAssumption DEF U, One
<1>2. \A k : Units(k) = Plane(U(k[1]), U(k[2]), U(k[3]), U(k[4]), U(k[5]), U(k[6]))
    BY DEF Units, Scale, PlaneOf
<1>3. Identity = Units(<<1, 0, 0, 1, 0, 0>>)
    BY <1>1, <1>2 DEF Identity
<1>4. NewRotate90 = Units(<<0, 1, -1, 0, 1, 0>>)
    BY <1>1, <1>2 DEF NewRotate90
<1>5. NewRotate180 = Units(<<-1, 0, 0, -1, 1, 1>>)
    BY <1>1, <1>2 DEF NewRotate180
<1>6. NewRotate270 = Units(<<0, -1, 1, 0, 0, 1>>)
    BY <1>1, <1>2 DEF NewRotate270
<1>7. NewFlipH = Units(<<-1, 0, 0, 1, 1, 0>>)
    BY <1>1, <1>2 DEF NewFlipH
<1>8. NewFlipV = Units(<<1, 0, 0, -1, 0, 1>>)
    BY <1>1, <1>2 DEF NewFlipV
<1>9. /\ Plane(0, -One, One, 0, 0, 0)  = Units(<<0, -1, 1, 0, 0, 0>>)
      /\ Plane(-One, 0, 0, -One, 0, 0) = Units(<<-1, 0, 0, -1, 0, 0>>)
      /\ Plane(0, One, -One, 0, 0, 0)  = Units(<<0, 1, -1, 0, 0, 0>>)
      /\ Plane(-One, 0, 0, One, 0, 0)  = Units(<<-1, 0, 0, 1, 0, 0>>)
      /\ Plane(One, 0, 0, -One, 0, 0)  = Units(<<1, 0, 0, -1, 0, 0>>)
    BY <1>1, <1>2
<1> QED BY <1>3, <1>4, <1>5, <1>6, <1>7, <1>8, <1>9

(* The client's convention: the matrix of a transform is its motion.        *)
LEMMA NewMotion ==
    ASSUME NEW t \in GraphicTransforms
    PROVE  ComputeTransformByMatrixV2(Exchanged(t)) = Units(Motion(t))
<1>1. /\ <<1, 0, 0, -1, 0, 1>> \in Six /\ <<-1, 0, 0, 1, 1, 0>> \in Six /\ <<0, 1, -1, 0, 1, 0>> \in Six
    BY DEF Six
<1>2. MatrixProduct(NewFlipV, NewRotate90) = Units(<<0, -1, -1, 0, 1, 1>>)
    <2>1. MatrixProduct(NewFlipV, NewRotate90)
            = Units(Compose(<<1, 0, 0, -1, 0, 1>>, <<0, 1, -1, 0, 1, 0>>))
        BY <1>1, BasicMatrices, UnitsProduct DEF Units
    <2>2. Compose(<<1, 0, 0, -1, 0, 1>>, <<0, 1, -1, 0, 1, 0>>) = <<0, -1, -1, 0, 1, 1>>
        BY DEF Compose, Lin, Aff
    <2> QED BY <2>1, <2>2
<1>3. MatrixProduct(NewFlipH, NewRotate90) = Units(<<0, 1, 1, 0, 0, 0>>)
    <2>1. MatrixProduct(NewFlipH, NewRotate90)
            = Units(Compose(<<-1, 0, 0, 1, 1, 0>>, <<0, 1, -1, 0, 1, 0>>))
        BY <1>1, BasicMatrices, UnitsProduct DEF Units
    <2>2. Compose(<<-1, 0, 0, 1, 1, 0>>, <<0, 1, -1, 0, 1, 0>>) = <<0, 1, 1, 0, 0, 0>>
        BY DEF Compose, Lin, Aff
    <2> QED BY <2>1, <2>2
<1>4. CASE t \in {"ROTATE_NONE", "ROTATE_90", "ROTATE_180", "ROTATE_270"}
    BY <1>4, BasicMatrices DEF Exchanged, ComputeTransformByMatrixV2, Motion
<1>5. CASE t \in {"FLIP_H", "FLIP_V_ROT180", "FLIP_V", "FLIP_H_ROT180"}
    BY <1>5, BasicMatrices DEF Exchanged, ComputeTransformByMatrixV2, Motion
<1>6. CASE t \in {"FLIP_H_ROT90", "FLIP_V_ROT270"}
    BY <1>6, <1>2 DEF Exchanged, ComputeTransformByMatrixV2, NewCombined, Motion
<1>7. CASE t \in {"FLIP_V_ROT90", "FLIP_H_ROT270"}
    BY <1>7, <1>3 DEF Exchanged, ComputeTransformByMatrixV2, NewCombined, Motion
<1> QED BY <1>4, <1>5, <1>6, <1>7 DEF GraphicTransforms

(* The older convention: the same about the origin.                         *)
Centred(k) == <<k[1], k[2], k[3], k[4], 0, 0>>

(* So is every matrix of that convention.                                   *)
LEMMA OldMotion ==
    ASSUME NEW t \in GraphicTransforms
    PROVE  ComputeTransformByMatrix(t) = Units(Centred(Motion(t)))
<1>1. /\ <<1, 0, 0, 1, 0, 0>> \in Six /\ <<-1, 0, 0, 1, 0, 0>> \in Six /\ <<1, 0, 0, -1, 0, 0>> \in Six
      /\ <<0, -1, 1, 0, 0, 0>> \in Six /\ <<-1, 0, 0, -1, 0, 0>> \in Six /\ <<0, 1, -1, 0, 0, 0>> \in Six
    BY DEF Six
<1>2. \A l \in Six, r \in Six : MatrixProduct(Units(l), Units(r)) = Units(Compose(l, r))
    BY UnitsProduct DEF Units
<1>3. CASE t = "ROTATE_NONE"
    BY <1>3, BasicMatrices DEF ComputeTransformByMatrix, Motion, Centred
<1>4. CASE t = "ROTATE_90"
    <2>1. ComputeTransformByMatrix(t) = Units(Compose(<<1, 0, 0, 1, 0, 0>>, <<0, -1, 1, 0, 0, 0>>))
        BY <1>1, <1>2, <1>4, BasicMatrices DEF ComputeTransformByMatrix
    <2>2. Compose(<<1, 0, 0, 1, 0, 0>>, <<0, -1, 1, 0, 0, 0>>) = <<0, -1, 1, 0, 0, 0>>
        BY DEF Compose, Lin, Aff
    <2> QED BY <1>4, <2>1, <2>2 DEF Motion, Centred
<1>5. CASE t = "ROTATE_180"
    <2>1. ComputeTransformByMatrix(t) = Units(Compose(<<1, 0, 0, 1, 0, 0>>, <<-1, 0, 0, -1, 0, 0>>))
        BY <1>1, <1>2, <1>5, BasicMatrices DEF ComputeTransformByMatrix
    <2>2. Compose(<<1, 0, 0, 1, 0, 0>>, <<-1, 0, 0, -1, 0, 0>>) = <<-1, 0, 0, -1, 0, 0>>
        BY DEF Compose, Lin, Aff
    <2> QED BY <1>5, <2>1, <2>2 DEF Motion, Centred
<1>6. CASE t = "ROTATE_270"
    <2>1. ComputeTransformByMatrix(t) = Units(Compose(<<1, 0, 0, 1, 0, 0>>, <<0, 1, -1, 0, 0, 0>>))
        BY <1>1, <1>2, <1>6, BasicMatrices DEF ComputeTransformByMatrix
    <2>2. Compose(<<1, 0, 0, 1, 0, 0>>, <<0, 1, -1, 0, 0, 0>>) = <<0, 1, -1, 0, 0, 0>>
        BY DEF Compose, Lin, Aff
    <2> QED BY <1>6, <2>1, <2>2 DEF Motion, Centred
<1>7. CASE t = "FLIP_H"
    <2>1. ComputeTransformByMatrix(t) = Units(Compose(<<1, 0, 0, 1, 0, 0>>, <<-1, 0, 0, 1, 0, 0>>))
        BY <1>1, <1>2, <1>7, BasicMatrices DEF ComputeTransformByMatrix
    <2>2. Compose(<<1, 0, 0, 1, 0, 0>>, <<-1, 0, 0, 1, 0, 0>>) = <<-1, 0, 0, 1, 0, 0>>
        BY DEF Compose, Lin, Aff
    <2> QED BY <1>7, <2>1, <2>2 DEF Motion, Centred
<1>8. CASE t = "FLIP_V"
    <2>1. ComputeTransformByMatrix(t) = Units(Compose(<<1, 0, 0, 1, 0, 0>>, <<1, 0, 0, -1, 0, 0>>))
        BY <1>1, <1>2, <1>8, BasicMatrices DEF ComputeTransformByMatrix
    <2>2. Compose(<<1, 0, 0, 1, 0, 0>>, <<1, 0, 0, -1, 0, 0>>) = <<1, 0, 0, -1, 0, 0>>
        BY DEF Compose, Lin, Aff
    <2> QED BY <1>8, <2>1, <2>2 DEF Motion, Centred
<1>9. CASE t = "FLIP_H_ROT90"
    <2>1. ComputeTransformByMatrix(t) = Units(Compose(<<-1, 0, 0, 1, 0, 0>>, <<0, -1, 1, 0, 0, 0>>))
        BY <1>1, <1>2, <1>9, BasicMatrices DEF ComputeTransformByMatrix
    <2>2. Compose(<<-1, 0, 0, 1, 0, 0>>, <<0, -1, 1, 0, 0, 0>>) = <<0, -1, -1, 0, 0, 0>>
        BY DEF Compose, Lin, Aff
    <2> QED BY <1>9, <2>1, <2>2 DEF Motion, Centred
<1>10. CASE t = "FLIP_V_ROT90"
    <2>1. ComputeTransformByMatrix(t) = Units(Compose(<<1, 0, 0, -1, 0, 0>>, <<0, -1, 1, 0, 0, 0>>))
        BY <1>1, <1>2, <1>10, BasicMatrices DEF ComputeTransformByMatrix
    <2>2. Compose(<<1, 0, 0, -1, 0, 0>>, <<0, -1, 1, 0, 0, 0>>) = <<0, 1, 1, 0, 0, 0>>
        BY DEF Compose, Lin, Aff
    <2> QED BY <1>10, <2>1, <2>2 DEF Motion, Centred
<1>11. CASE t = "FLIP_H_ROT180"
    <2>1. ComputeTransformByMatrix(t) = Units(Compose(<<-1, 0, 0, 1, 0, 0>>, <<-1, 0, 0, -1, 0, 0>>))
        BY <1>1, <1>2, <1>11, BasicMatrices DEF ComputeTransformByMatrix
    <2>2. Compose(<<-1, 0, 0, 1, 0, 0>>, <<-1, 0, 0, -1, 0, 0>>) = <<1, 0, 0, -1, 0, 0>>
        BY DEF Compose, Lin, Aff
    <2> QED BY <1>11, <2>1, <2>2 DEF Motion, Centred
<1>12. CASE t = "FLIP_V_ROT180"
    <2>1. ComputeTransformByMatrix(t) = Units(Compose(<<1, 0, 0, -1, 0, 0>>, <<-1, 0, 0, -1, 0, 0>>))
        BY <1>1, <1>2, <1>12, BasicMatrices DEF ComputeTransformByMatrix
    <2>2. Compose(<<1, 0, 0, -1, 0, 0>>, <<-1, 0, 0, -1, 0, 0>>) = <<-1, 0, 0, 1, 0, 0>>
        BY DEF Compose, Lin, Aff
    <2> QED BY <1>12, <2>1, <2>2 DEF Motion, Centred
<1>13. CASE t = "FLIP_H_ROT270"
    <2>1. ComputeTransformByMatrix(t) = Units(Compose(<<-1, 0, 0, 1, 0, 0>>, <<0, 1, -1, 0, 0, 0>>))
        BY <1>1, <1>2, <1>13, BasicMatrices DEF ComputeTransformByMatrix
    <2>2. Compose(<<-1, 0, 0, 1, 0, 0>>, <<0, 1, -1, 0, 0, 0>>) = <<0, 1, 1, 0, 0, 0>>
        BY DEF Compose, Lin, Aff
    <2> QED BY <1>13, <2>1, <2>2 DEF Motion, Centred
<1>14. CASE t = "FLIP_V_ROT270"
    <2>1. ComputeTransformByMatrix(t) = Units(Compose(<<1, 0, 0, -1, 0, 0>>, <<0, 1, -1, 0, 0, 0>>))
        BY <1>1, <1>2, <1>14, BasicMatrices DEF ComputeTransformByMatrix
    <2>2. Compose(<<1, 0, 0, -1, 0, 0>>, <<0, 1, -1, 0, 0, 0>>) = <<0, -1, -1, 0, 0, 0>>
        BY DEF Compose, Lin, Aff
    <2> QED BY <1>14, <2>1, <2>2 DEF Motion, Centred
<1> QED BY <1>3, <1>4, <1>5, <1>6, <1>7, <1>8, <1>9, <1>10, <1>11, <1>12, <1>13, <1>14 DEF GraphicTransforms

(* The crop: how much of the unit square it leaves, and from where.         *)
PerColumn == Unit \div FrameWidth
PerRow    == Unit \div FrameHeight

CropOf(crop, ty) ==
    <<crop.w * PerColumn, 0, 0, crop.h * PerRow, crop.x * PerColumn,
      IF crop.h < FrameHeight THEN ty * PerRow ELSE 0>>

(* A crop is a part of the frame; one that shortens no side is all of it.   *)
LEMMA CropTypes ==
    ASSUME NEW crop \in Crops
    PROVE  /\ crop.x \in Int /\ crop.y \in Int /\ crop.w \in Int /\ crop.h \in Int
           /\ PerColumn \in Int /\ PerRow \in Int
           /\ FrameWidth * PerColumn = Unit /\ FrameHeight * PerRow = Unit
           /\ ~(crop.w < FrameWidth)  => crop.w = FrameWidth /\ crop.x = 0
           /\ ~(crop.h < FrameHeight) => crop.h = FrameHeight /\ crop.y = 0
<1>1. FrameWidth \in Nat \ {0} /\ FrameHeight \in Nat \ {0} /\ Unit \in Nat \ {0}
    BY UnitAssumption
<1>2. /\ crop.x \in 0..FrameWidth - 1 /\ crop.y \in 0..FrameHeight - 1
      /\ crop.w \in 1..FrameWidth /\ crop.h \in 1..FrameHeight
      /\ crop.x + crop.w <= FrameWidth /\ crop.y + crop.h <= FrameHeight
    BY DEF Crops
<1>3. PerColumn \in Int /\ PerRow \in Int
    BY <1>1 DEF PerColumn, PerRow
<1>4. FrameWidth * PerColumn = Unit
    <2>1. Unit = FrameWidth * (Unit \div FrameWidth) + (Unit % FrameWidth)
        BY <1>1
    <2>2. Unit % FrameWidth = 0
        BY UnitAssumption
    <2>3. FrameWidth * (Unit \div FrameWidth) \in Int
        BY <1>1, <1>3 DEF PerColumn
    <2> QED BY <2>1, <2>2, <2>3 DEF PerColumn
<1>5. FrameHeight * PerRow = Unit
    <2>1. Unit = FrameHeight * (Unit \div FrameHeight) + (Unit % FrameHeight)
        BY <1>1
    <2>2. Unit % FrameHeight = 0
        BY UnitAssumption
    <2>3. FrameHeight * (Unit \div FrameHeight) \in Int
        BY <1>1, <1>3 DEF PerRow
    <2> QED BY <2>1, <2>2, <2>3 DEF PerRow
<1> QED BY <1>1, <1>2, <1>3, <1>4, <1>5

(* The matrix of a crop, applied or not, scales and moves by the crop.      *)
LEMMA CroppedMatrix ==
    ASSUME NEW crop \in Crops, NEW ty \in Int, NEW k \in Six
    PROVE  /\ CropOf(crop, ty) \in Six
           /\ Cropped(Units(k), crop, ty) = PlaneOf(Compose(CropOf(crop, ty), k))
<1> DEFINE c == CropOf(crop, ty)
<1>1. c \in Six
    <2>1. /\ crop.w * PerColumn \in Int /\ crop.h * PerRow \in Int /\ crop.x * PerColumn \in Int
          /\ ty * PerRow \in Int
        BY CropTypes
    <2> QED BY <2>1 DEF Six, CropOf
<1>2. CropMatrix(crop, ty) = PlaneOf(c)
    <2>1. /\ (IF crop.w < FrameWidth THEN crop.w * PerColumn ELSE One) = crop.w * PerColumn
          /\ (IF crop.w < FrameWidth THEN crop.x * PerColumn ELSE 0) = crop.x * PerColumn
        BY CropTypes DEF One
    <2>2. (IF crop.h < FrameHeight THEN crop.h * PerRow ELSE One) = crop.h * PerRow
        BY CropTypes DEF One
    <2> QED BY <2>1, <2>2 DEF CropMatrix, CropOf, PlaneOf, PerColumn, PerRow
<1>3. CASE crop.w < FrameWidth \/ crop.h < FrameHeight
    BY <1>1, <1>2, <1>3, TimesUnits DEF Cropped, Units
<1>4. CASE ~(crop.w < FrameWidth \/ crop.h < FrameHeight)
    <2>1. c = <<Unit, 0, 0, Unit, 0, 0>>
        BY <1>4, CropTypes DEF CropOf
    <2>2. /\ Unit \in Int /\ k[1] \in Int /\ k[2] \in Int /\ k[3] \in Int /\ k[4] \in Int
          /\ k[5] \in Int /\ k[6] \in Int
        BY UnitAssumption DEF Six
    <2>3. /\ Lin(Unit, 0, k[1], k[2]) = U(k[1]) /\ Lin(0, Unit, k[1], k[2]) = U(k[2])
          /\ Lin(Unit, 0, k[3], k[4]) = U(k[3]) /\ Lin(0, Unit, k[3], k[4]) = U(k[4])
        BY <2>2 DEF Lin, U
    <2>4. Aff(Unit, 0, 0, k[5], k[6]) = U(k[5]) /\ Aff(0, Unit, 0, k[5], k[6]) = U(k[6])
        BY <2>2 DEF Aff, U
    <2>5. Compose(<<Unit, 0, 0, Unit, 0, 0>>, k) = Scale(k)
        BY <2>3, <2>4 DEF Compose, Scale
    <2> QED BY <1>1, <1>4, <2>1, <2>5 DEF Cropped, Units
<1> QED BY <1>1, <1>3, <1>4

(* Where the matrix of a transform and a crop sends a point.                *)
MovedBy(k, p) == <<k[1] * p[1] + k[3] * p[2] + k[5], k[2] * p[1] + k[4] * p[2] + k[6]>>

(* The corners in the new convention,                                       *)
LEMMA NewMatrix ==
    ASSUME NEW t \in GraphicTransforms, NEW crop \in Crops, NEW p \in Corners
    PROVE  LET q == Moves(t, p) IN
           At(MatrixFor("new", t, crop), p)
             = <<PerColumn * (crop.x + crop.w * q[1]), PerRow * (crop.y + crop.h * (1 - q[2]))>>
<1> DEFINE k == Motion(t)
           ty == FrameHeight - crop.y - crop.h
           c == Compose(CropOf(crop, ty), k)
           f == <<1, 0, 0, -1, 0, 1>>
           e == Compose(Offset(f), c)
           q == Moves(t, p)
<1>1. k \in Six /\ q = MovedBy(k, p)
    BY MotionMoves DEF MovedBy
<1>2. ty \in Int
    BY UnitAssumption, CropTypes
<1>3. CropOf(crop, ty) \in Six /\ Cropped(Units(k), crop, ty) = PlaneOf(c)
    BY <1>1, <1>2, CroppedMatrix
<1>4. c \in Six
    BY <1>1, <1>3, SixTypes
<1>5. MatrixProduct(NewFlipV, PlaneOf(c)) = PlaneOf(e)
    <2>1. f \in Six /\ NewFlipV = PlaneOf(Scale(f))
        BY BasicMatrices DEF Six, Units
    <2> QED BY <1>4, <2>1, UnitsTimes
<1>6. MatrixFor("new", t, crop) = PlaneOf(e)
    BY <1>3, <1>5, NewMotion DEF MatrixFor, ComputeTransformMatrixV2
<1>7. e = <<c[1], -c[2], c[3], -c[4], c[5], Unit - c[6]>>
    <2>1. /\ c[1] \in Int /\ c[2] \in Int /\ c[3] \in Int /\ c[4] \in Int /\ c[5] \in Int /\ c[6] \in Int
        BY <1>4 DEF Six
    <2>2. Offset(f) = <<1, 0, 0, -1, 0, Unit>>
        BY UnitAssumption DEF Offset, U
    <2> HIDE DEF c
    <2>3. /\ Lin(1, 0, c[1], c[2]) = c[1] /\ Lin(0, -1, c[1], c[2]) = -c[2]
          /\ Lin(1, 0, c[3], c[4]) = c[3] /\ Lin(0, -1, c[3], c[4]) = -c[4]
          /\ Aff(1, 0, 0, c[5], c[6]) = c[5] /\ Aff(0, -1, Unit, c[5], c[6]) = Unit - c[6]
        BY <2>1, UnitAssumption DEF Lin, Aff
    <2> QED BY <2>2, <2>3 DEF Compose
<1>8. At(PlaneOf(e), p)
        = <<c[1] * p[1] + c[3] * p[2] + c[5], (-c[2]) * p[1] + (-c[4]) * p[2] + (Unit - c[6])>>
    BY <1>7 DEF At, PlaneOf, Plane
<1>9. /\ crop.x \in Int /\ crop.y \in Int /\ crop.w \in Int /\ crop.h \in Int
      /\ PerColumn \in Int /\ PerRow \in Int
      /\ FrameHeight \in Int /\ FrameHeight * PerRow = Unit
    BY CropTypes, UnitAssumption
<1>10. /\ k[1] \in Int /\ k[2] \in Int /\ k[3] \in Int /\ k[4] \in Int /\ k[5] \in Int /\ k[6] \in Int
       /\ p[1] \in {0, 1} /\ p[2] \in {0, 1}
    BY <1>1 DEF Six, Corners
<1>11. (IF crop.h < FrameHeight THEN ty * PerRow ELSE 0) = (FrameHeight - crop.y - crop.h) * PerRow
    <2>1. CASE crop.h < FrameHeight
        BY <2>1
    <2>2. CASE ~(crop.h < FrameHeight)
        BY <2>2, <1>9, CropTypes
    <2> QED BY <2>1, <2>2
<1>12. /\ c[1] = crop.w * PerColumn * k[1] /\ c[3] = crop.w * PerColumn * k[3]
       /\ c[5] = crop.w * PerColumn * k[5] + crop.x * PerColumn
       /\ c[2] = crop.h * PerRow * k[2] /\ c[4] = crop.h * PerRow * k[4]
       /\ c[6] = crop.h * PerRow * k[6] + (FrameHeight - crop.y - crop.h) * PerRow
    <2> DEFINE sx == crop.w * PerColumn
               tx == crop.x * PerColumn
               sy == crop.h * PerRow
               u  == (FrameHeight - crop.y - crop.h) * PerRow
    <2>1. sx \in Int /\ tx \in Int /\ sy \in Int /\ u \in Int
        BY <1>9
    <2>2. CropOf(crop, ty) = <<sx, 0, 0, sy, tx, u>>
        BY <1>11 DEF CropOf
    <2> HIDE DEF sx, tx, sy, u
    <2>3. /\ Lin(sx, 0, k[1], k[2]) = sx * k[1] /\ Lin(0, sy, k[1], k[2]) = sy * k[2]
          /\ Lin(sx, 0, k[3], k[4]) = sx * k[3] /\ Lin(0, sy, k[3], k[4]) = sy * k[4]
          /\ Aff(sx, 0, tx, k[5], k[6]) = sx * k[5] + tx
          /\ Aff(0, sy, u, k[5], k[6]) = sy * k[6] + u
        BY <1>10, <2>1 DEF Lin, Aff
    <2>4. /\ c[1] = sx * k[1] /\ c[3] = sx * k[3] /\ c[5] = sx * k[5] + tx
          /\ c[2] = sy * k[2] /\ c[4] = sy * k[4] /\ c[6] = sy * k[6] + u
        BY <2>2, <2>3 DEF Compose
    <2> QED BY <2>4 DEF sx, tx, sy, u
<1>13. /\ q[1] = k[1] * p[1] + k[3] * p[2] + k[5]
       /\ q[2] = k[2] * p[1] + k[4] * p[2] + k[6]
    BY <1>1 DEF MovedBy
<1> HIDE DEF k, c, q
<1>14. c[1] * p[1] + c[3] * p[2] + c[5] = PerColumn * (crop.x + crop.w * q[1])
    BY <1>9, <1>10, <1>12, <1>13
<1>15. (-c[2]) * p[1] + (-c[4]) * p[2] + (Unit - c[6]) = PerRow * (crop.y + crop.h * (1 - q[2]))
    <2>1. (FrameHeight - crop.y - crop.h) * PerRow
            = FrameHeight * PerRow - crop.y * PerRow - crop.h * PerRow
        BY <1>9
    <2>2. Unit - c[6] = PerRow * (crop.y + crop.h * (1 - k[6]))
        <3>1. \A v \in Int : v = Unit - crop.y * PerRow - crop.h * PerRow =>
                  Unit - (crop.h * PerRow * k[6] + v) = PerRow * (crop.y + crop.h * (1 - k[6]))
            BY <1>9, <1>10, UnitAssumption
        <3>2. (FrameHeight - crop.y - crop.h) * PerRow \in Int
            BY <1>9
        <3> QED BY <1>9, <1>12, <2>1, <3>1, <3>2
    <2>3. (-c[2]) * p[1] + (-c[4]) * p[2] = - (PerRow * (crop.h * (k[2] * p[1] + k[4] * p[2])))
        BY <1>9, <1>10, <1>12
    <2>4. PerRow * (crop.y + crop.h * (1 - q[2]))
            = PerRow * (crop.y + crop.h * (1 - k[6])) - PerRow * (crop.h * (k[2] * p[1] + k[4] * p[2]))
        <3> DEFINE w == k[2] * p[1] + k[4] * p[2]
        <3>1. w \in Int /\ q[2] = w + k[6]
            BY <1>10, <1>13
        <3>2. \A a, b, y, h, v \in Int :
                  a * (y + h * (1 - (v + b))) = a * (y + h * (1 - b)) - a * (h * v)
            OBVIOUS
        <3> HIDE DEF w
        <3>3. PerRow * (crop.y + crop.h * (1 - (w + k[6])))
                = PerRow * (crop.y + crop.h * (1 - k[6])) - PerRow * (crop.h * w)
            BY <1>9, <1>10, <3>1, <3>2
        <3> QED BY <3>1, <3>3 DEF w
    <2>5. /\ PerRow * (crop.y + crop.h * (1 - k[6])) \in Int
          /\ PerRow * (crop.h * (k[2] * p[1] + k[4] * p[2])) \in Int
        BY <1>9, <1>10
    <2> QED BY <2>2, <2>3, <2>4, <2>5
<1> QED BY <1>6, <1>8, <1>14, <1>15 DEF q

(* the sides in the old one,                                                *)
LEMMA OldMatrix ==
    ASSUME NEW t \in GraphicTransforms, NEW crop \in Crops, NEW p \in Corners
    PROVE  LET q == Moves(t, p)
               o == Moves(t, <<0, 0>>)
               m == MatrixFor("old", t, crop)
           IN  <<At(m, p)[1] - At(m, <<0, 0>>)[1], At(m, p)[2] - At(m, <<0, 0>>)[2]>>
                 = <<PerColumn * (crop.w * (q[1] - o[1])), PerRow * (crop.h * (q[2] - o[2]))>>
<1> DEFINE k == Motion(t)
           ty == FrameHeight - crop.y
           c == Compose(CropOf(crop, ty), Centred(k))
           q == Moves(t, p)
           o == Moves(t, <<0, 0>>)
           m == MatrixFor("old", t, crop)
           u == CropOf(crop, ty)[6]
<1>1. k \in Six /\ q = MovedBy(k, p) /\ o = MovedBy(k, <<0, 0>>)
    BY MotionMoves DEF MovedBy, Corners
<1>2. ty \in Int
    BY UnitAssumption, CropTypes
<1>3. Centred(k) \in Six
    BY <1>1 DEF Centred, Six
<1>4. CropOf(crop, ty) \in Six /\ Cropped(Units(Centred(k)), crop, ty) = PlaneOf(c)
    BY <1>2, <1>3, CroppedMatrix
<1>5. m = PlaneOf(c)
    BY <1>4, OldMotion DEF MatrixFor, ComputeTransformMatrix
<1>6. /\ At(m, p) = <<c[1] * p[1] + c[3] * p[2] + c[5], c[2] * p[1] + c[4] * p[2] + c[6]>>
      /\ At(m, <<0, 0>>) = <<c[1] * 0 + c[3] * 0 + c[5], c[2] * 0 + c[4] * 0 + c[6]>>
    BY <1>5 DEF At, PlaneOf, Plane
<1>7. /\ crop.x \in Int /\ crop.y \in Int /\ crop.w \in Int /\ crop.h \in Int
      /\ PerColumn \in Int /\ PerRow \in Int
    BY CropTypes
<1>8. /\ k[1] \in Int /\ k[2] \in Int /\ k[3] \in Int /\ k[4] \in Int /\ k[5] \in Int /\ k[6] \in Int
      /\ p[1] \in {0, 1} /\ p[2] \in {0, 1}
    BY <1>1 DEF Six, Corners
<1>9. /\ c[1] = crop.w * PerColumn * k[1] /\ c[3] = crop.w * PerColumn * k[3]
      /\ c[2] = crop.h * PerRow * k[2] /\ c[4] = crop.h * PerRow * k[4]
      /\ c[5] \in Int /\ c[6] \in Int
    <2> DEFINE sx == crop.w * PerColumn
               tx == crop.x * PerColumn
               sy == crop.h * PerRow
    <2>1. sx \in Int /\ tx \in Int /\ sy \in Int
        BY <1>7
    <2>2. CropOf(crop, ty)[1] = sx /\ CropOf(crop, ty)[2] = 0 /\ CropOf(crop, ty)[3] = 0
          /\ CropOf(crop, ty)[4] = sy
        BY DEF CropOf
    <2>3. c \in Six
        BY <1>3, <1>4, SixTypes
    <2> HIDE DEF sx, tx, sy
    <2>4. /\ Lin(sx, 0, k[1], k[2]) = sx * k[1] /\ Lin(0, sy, k[1], k[2]) = sy * k[2]
          /\ Lin(sx, 0, k[3], k[4]) = sx * k[3] /\ Lin(0, sy, k[3], k[4]) = sy * k[4]
        BY <1>8, <2>1 DEF Lin
    <2>5. /\ c[1] = sx * k[1] /\ c[3] = sx * k[3] /\ c[2] = sy * k[2] /\ c[4] = sy * k[4]
        BY <2>2, <2>4 DEF Compose, Centred
    <2> QED BY <2>3, <2>5 DEF sx, sy, Six
<1>10. /\ q[1] = k[1] * p[1] + k[3] * p[2] + k[5] /\ o[1] = k[5]
       /\ q[2] = k[2] * p[1] + k[4] * p[2] + k[6] /\ o[2] = k[6]
    BY <1>1, <1>8 DEF MovedBy
<1> HIDE DEF k, c, q, o, m
<1>11. (c[1] * p[1] + c[3] * p[2] + c[5]) - (c[1] * 0 + c[3] * 0 + c[5])
         = PerColumn * (crop.w * (q[1] - o[1]))
    BY <1>7, <1>8, <1>9, <1>10
<1>12. (c[2] * p[1] + c[4] * p[2] + c[6]) - (c[2] * 0 + c[4] * 0 + c[6])
         = PerRow * (crop.h * (q[2] - o[2]))
    BY <1>7, <1>8, <1>9, <1>10
<1> QED BY <1>6, <1>11, <1>12 DEF q, o, m

(* What was read last was computed from a transform and a crop.             *)
MatrixSound ==
    /\ queueTransform \in GraphicTransforms
    /\ frameTransform \in GraphicTransforms \union {"NOFRAME"}
    /\ \/ reading = NoReading
       \/ \E convention \in {"old", "new"}, t \in GraphicTransforms, crop \in Crops :
             reading = [convention |-> convention, t |-> t, crop |-> crop,
                        matrix |-> MatrixFor(convention, t, crop)]

(* and both for whatever was read.                                          *)
LEMMA SoundIsGeometric == MatrixSound => MatrixIsGeometric
<1> SUFFICES ASSUME MatrixSound, NEW p \in Corners
             PROVE  LET c == reading.crop
                        q == Moves(reading.t, p)
                        o == Moves(reading.t, <<0, 0>>)
                        m == reading.matrix
                    IN  /\ reading.convention = "new" =>
                               At(m, p) = <<PerColumn * (c.x + c.w * q[1]), PerRow * (c.y + c.h * (1 - q[2]))>>
                        /\ reading.convention = "old" =>
                               <<At(m, p)[1] - At(m, <<0, 0>>)[1], At(m, p)[2] - At(m, <<0, 0>>)[2]>>
                                 = <<PerColumn * (c.w * (q[1] - o[1])), PerRow * (c.h * (q[2] - o[2]))>>
    BY DEF MatrixIsGeometric, PerColumn, PerRow
<1>1. CASE reading = NoReading
    BY <1>1 DEF NoReading
<1>2. CASE \E convention \in {"old", "new"}, t \in GraphicTransforms, crop \in Crops :
             reading = [convention |-> convention, t |-> t, crop |-> crop,
                        matrix |-> MatrixFor(convention, t, crop)]
    <2>1. PICK convention \in {"old", "new"}, t \in GraphicTransforms, crop \in Crops :
             reading = [convention |-> convention, t |-> t, crop |-> crop,
                        matrix |-> MatrixFor(convention, t, crop)]
        BY <1>2
    <2>2. /\ reading.convention = convention /\ reading.t = t /\ reading.crop = crop
          /\ reading.matrix = MatrixFor(convention, t, crop)
        BY <2>1
    <2>3. CASE convention = "new"
        BY <2>2, <2>3, NewMatrix
    <2>4. CASE convention = "old"
        BY <2>2, <2>4, OldMatrix
    <2> QED BY <2>3, <2>4
<1> QED BY <1>1, <1>2 DEF MatrixSound

(* Every reading keeps its matrix together with what it was computed from.  *)
LEMMA MatrixStep == MatrixSound /\ [MatrixNext]_matrixVars => MatrixSound'
<1> SUFFICES ASSUME MatrixSound, [MatrixNext]_matrixVars PROVE MatrixSound'
    OBVIOUS
<1>1. ASSUME NEW t \in GraphicTransforms, QueueSetsTransform(t) PROVE MatrixSound'
    BY <1>1 DEF MatrixSound, QueueSetsTransform
<1>2. CASE FlushFrame
    BY <1>2 DEF MatrixSound, FlushFrame
<1>3. ASSUME NEW convention \in {"old", "new"}, GetLastFlushedBuffer(convention)
      PROVE  MatrixSound'
    <2>1. frameTransform \in GraphicTransforms
        BY <1>3 DEF MatrixSound, GetLastFlushedBuffer
    <2>2. Left(convention, frameTransform) \in GraphicTransforms
        BY <2>1 DEF Left, Exchanged, GraphicTransforms
    <2>3. Whole \in Crops
        BY UnitAssumption DEF Whole, Crops
    <2>4. reading' = [convention |-> convention, t |-> frameTransform, crop |-> Whole,
                      matrix |-> MatrixFor(convention, frameTransform, Whole)]
        BY <1>3 DEF GetLastFlushedBuffer
    <2>5. frameTransform' \in GraphicTransforms /\ queueTransform' \in GraphicTransforms
        BY <1>3, <2>2 DEF GetLastFlushedBuffer, MatrixSound
    <2> QED BY <2>1, <2>3, <2>4, <2>5 DEF MatrixSound
<1>4. ASSUME NEW convention \in {"old", "new"}, NEW t \in GraphicTransforms, NEW crop \in Crops,
             ComputesMatrix(convention, t, crop)
      PROVE  MatrixSound'
    BY <1>4 DEF MatrixSound, ComputesMatrix
<1>5. CASE UNCHANGED matrixVars
    BY <1>5 DEF MatrixSound, matrixVars
<1> QED BY <1>1, <1>2, <1>3, <1>4, <1>5 DEF MatrixNext

(* Whatever the frame's size, the transform and the crop: the matrix that   *)
(* SurfaceUtils computes sends every corner of the unit square where the    *)
(* transform and the crop say, in the convention the client asked for.      *)
THEOREM MatricesAreGeometric == MatrixSpec => []MatrixIsGeometric
<1>1. MatrixInit => MatrixSound
    BY DEF MatrixInit, MatrixSound, GraphicTransforms
<1> QED BY <1>1, MatrixStep, SoundIsGeometric, PTL DEF MatrixSpec
=============================================================================
