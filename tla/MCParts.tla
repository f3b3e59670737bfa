------------------------------- MODULE MCParts -------------------------------
(***************************************************************************)
(* Instances of the parts around the queue.  They share no state, so a     *)
(* behaviour is one of one part: "part" says of which, and the choices the *)
(* others make at the start are fixed.                                     *)
(***************************************************************************)
EXTENDS ProducerProtocol, SettingLayers, FrameMatrix, TransformHints, ConsumerNotices,
        WindowMetadata, ReleaseNotices, WindowLifetime, LppSource, SequenceNumbers

CONSTANTS t1, t2

VARIABLE part

-----------------------------------------------------------------------------
(* The protocol: one client that makes every call, then two of one surface  *)
(* that make the calls whose answers are cached.                            *)
AllShapes == {ShapeOf(TRUE, TRUE, 1, 0), ShapeOf(TRUE, FALSE, 2, 2), ShapeOf(FALSE, TRUE, 0, 1),
              ShapeOf(TRUE, TRUE, 3, 3), ShapeOf(FALSE, FALSE, 4, 0)}

CachedMethods == {"SetTransform", "GetName", "GetUniqueId", "GetNameAndUniqueId",
                  "GetProducerInitInfo"}

Cached == (CachedMethods \X {ShapeOf(TRUE, TRUE, 1, 0)})
            \union {<<"GetProducerInitInfo", ShapeOf(FALSE, TRUE, 0, 1)>>}

OneThread  == t1 :> ((Methods \ CachedMethods) \X AllShapes) @@ t2 :> {}
TwoThreads == t1 :> Cached
           @@ t2 :> {<<m, ShapeOf(TRUE, TRUE, 1, 0)>> : m \in {"SetTransform", "GetName"}}

BothMixes     == {OneThread, TwoThreads}
ConsumerMixes == {TwoThreads}

-----------------------------------------------------------------------------
Parts == {"protocol", "settings", "matrix", "hints", "notices", "metadata", "release", "windows",
          "lpp", "numbers"}

PartsInit ==
    /\ part \in Parts
    /\ ProtocolInit /\ LayersInit /\ MatrixInit /\ HintInit /\ NoticeInit /\ MetadataInit
    /\ ReleaseInit /\ WindowInit /\ LppInit /\ NumberInit
    /\ part # "protocol" => methods = TwoThreads
    /\ part # "settings" => topic = "transform" /\ queueThere
    /\ part # "hints"    => listenerLimit = 0
    /\ part # "release"  => remote = FALSE
    /\ part # "numbers"  => pidFits

Stay(p, vars) == p # part => UNCHANGED vars

PartsNext ==
    /\ \/ part = "protocol" /\ ProtocolNext
       \/ part = "settings" /\ SettingNext
       \/ part = "hints"    /\ HintNext
       \/ part = "matrix"   /\ MatrixNext
       \/ part = "notices"  /\ NoticeNext
       \/ part = "metadata" /\ MetadataNext
       \/ part = "release"  /\ ReleaseNext
       \/ part = "windows"  /\ WindowNext
       \/ part = "lpp"      /\ LppNext
       \/ part = "numbers"  /\ NumberNext
    /\ part' = part
    /\ Stay("protocol", protocolVars) /\ Stay("settings", layerVars) /\ Stay("matrix", matrixVars)
    /\ Stay("hints", hintVars) /\ Stay("notices", noticeVars) /\ Stay("metadata", metadataVars)
    /\ Stay("release", releaseVars) /\ Stay("windows", windowVars) /\ Stay("lpp", lppVars)
    /\ Stay("numbers", numberVars)

PartsSpec ==
    PartsInit /\ [][PartsNext]_<<part, protocolVars, layerVars, matrixVars, hintVars, noticeVars,
                                metadataVars, releaseVars, windowVars, lppVars, numberVars>>
=============================================================================
