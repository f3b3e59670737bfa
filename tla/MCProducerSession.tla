-------------------------- MODULE MCProducerSession --------------------------
(***************************************************************************)
(* Instances of the producers' sessions: surface A with the threads a1 to  *)
(* a3, surface B with b1, and the threads c1 and c2 of the queue's own     *)
(* process.                                                                *)
(***************************************************************************)
EXTENDS ProducerSession

CONSTANTS a1, a2, a3, b1, c1, c2, A, B, procA, procB, cfgA

Consume == {"AcquireBuffer", "ReleaseBuffer"}
Request == {"RequestBuffer", "Timeout", "CleanCache", cfgA}

Processes == A :> procA @@ B :> procB

Surfaces == [t \in Thread |-> CASE t \in {a1, a2, a3} -> A [] t = b1 -> B [] OTHER -> NULL]

Mix(f) == [t \in Thread |-> IF t \in DOMAIN f THEN f[t] ELSE {}]

Flushing      == a1 :> Request
              @@ a2 :> {"FlushBuffer", "GoBackground", "Disconnect", "CleanCache"}
Reconnecting  == a1 :> Request
              @@ a2 :> {"FlushBuffer"}
              @@ a3 :> {"CancelBuffer", "Connect", "ClientCleanCache", "CleanCache",
                        "ClientCleanReleased", "CleanReleasedBuffers"}
TakingOver    == b1 :> {"RequestBuffer", "CancelBuffer", "CleanCache", cfgA}

AllMixes == {Mix(f) : f \in {
    Flushing @@ c1 :> Consume,
    Reconnecting @@ c1 :> Consume,
    (* The consumer attaches and detaches. *)
    a1 :> Request @@ a2 :> {"FlushBuffer"}
        @@ c1 :> (Consume \union {"ConsumerAttachBufferToQueue", "ConsumerDetachBufferFromQueue"}),
    (* The connected process listens for sequence numbers and fences. *)
    a1 :> Request @@ a2 :> {"FlushBuffer", "GoBackground"}
        @@ c1 :> (Consume \union {"ReleaseListener", "ConsumerDetachBufferFromQueue"}),
    (* Another process takes over, after a death or a disconnection. *)
    a1 :> Request @@ TakingOver @@ c2 :> {"Dies", "CleanCache"},
    Flushing @@ TakingOver,
    (* The owner cleans up. *)
    a1 :> Request
        @@ a2 :> {"CancelBuffer", "GoBackground", "ConnectStrictly", "DisconnectStrictly", "CleanCache"}
        @@ c2 :> {"OwnerClean", "CleanCache"},
    a1 :> Request @@ a2 :> {"FlushBuffer"}
        @@ c2 :> {"SetStatus", "PreAllocBuffers", "CleanProducerBySeqNum", cfgA}}}
=============================================================================
