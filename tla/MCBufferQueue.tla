---------------------------- MODULE MCBufferQueue ----------------------------
(***************************************************************************)
(* Instances of the buffer queue for TLC: which thread makes which calls   *)
(* for buffers of which configurations.  A behaviour has one of the mixes  *)
(* of its run.                                                             *)
(***************************************************************************)
EXTENDS BufferQueueProperties

CONSTANTS p1, p2, c1, x1,    \* two producer threads, a consumer, a controller
          cfgA, cfgB         \* two buffer configurations

Produce == {"RequestBuffer", "FlushBuffer"}
Consume == {"AcquireBuffer", "ReleaseBuffer"}

(* The threads that f does not name never call.                             *)
Mix(f) == [t \in Thread |-> IF t \in DOMAIN f THEN f[t] ELSE {}]

(* Two producers with two configurations and a consumer: reallocation,      *)
(* blocking, cancelling, losing the listener, failing flushes, cleaning.    *)
Pipeline ==
       p1 :> (Produce \union {"CancelBuffer", "Timeout", "FlushFails", "AllocFails", cfgA, cfgB})
    @@ p2 :> (Produce \union {cfgA, cfgB})
    @@ c1 :> Consume
    @@ x1 :> {"RegisterConsumerListener", "CleanReleasedBuffers"}

(* A consumer that detaches buffers, keeps their slots and attaches others. *)
Detaching ==
       p1 :> (Produce \union {"Timeout", "RequestAndDetachBuffer", cfgA})
    @@ p2 :> (Produce \union {"CancelBuffer", "Timeout", cfgA})
    @@ c1 :> (Consume \union {"ConsumerAttachBufferToQueue", "ConsumerDetachBufferFromQueue"})

(* Every way to wake a blocked producer, the modes in which it does not     *)
(* block at all, and a client that reads the last flushed frame meanwhile.  *)
Modes ==
       p1 :> (Produce \union {"CancelBuffer", cfgA})
    @@ p2 :> (Produce \union {"Timeout", cfgA})
    @@ c1 :> Consume
    @@ x1 :> {"SetStatus", "SetRequestBufferNoblockMode", "SetIsPriorityAlloc",
              "AcquireLastFlushedBuffer", "ReleaseLastFlushedBuffer", "CleanReleasedBuffers"}

(* Buffers go at any moment, and are there before anybody asks for them.    *)
Cleaning ==
       p1 :> (Produce \union {"Timeout", cfgA})
    @@ p2 :> {"CancelBuffer"}
    @@ c1 :> Consume
    @@ x1 :> {"CleanCache", "CleanReleasedBuffers", "CleanProducerBySeqNum",
              "PreAllocBuffers", cfgA}

(* Buffers enter and leave from outside: a thread that waits for one to     *)
(* attach beside a running pipeline; another that takes them out and brings *)
(* them back, and a consumer that attaches too.                             *)
Waiting ==
       p1 :> (Produce \union {"AttachAndFlushBuffer", cfgA})
    @@ p2 :> {"AttachBuffer", "ProducerAttachBufferToQueue", "Timeout"}
    @@ c1 :> Consume
Attaching ==
       p1 :> (Produce \union {"AttachBuffer", "AttachAndFlushBuffer", "Timeout", cfgA})
    @@ p2 :> {"DetachBuffer", "ProducerAttachBufferToQueue"}
    @@ c1 :> (Consume \union {"ConsumerAttachBufferToQueue"})

(* The capacity changes while buffers are out and an allocation runs: one   *)
(* thread requests, another flushes what it is given, and the consumer may  *)
(* have a listener to hand free buffers to.                                 *)
Resizing == p1 :> {"RequestBuffer", "CancelBuffer", "Timeout", cfgA}
         @@ p2 :> {"FlushBuffer"}
         @@ c1 :> (Consume \union {"ReleaseListener"})
         @@ x1 :> {"SetQueueSize", "SetMaxQueueSize"}

(* One thread requests, one flushes, nobody times out; the third consumes.  *)
Live == p1 :> {"RequestBuffer", cfgA, cfgB}
     @@ p2 :> {"FlushBuffer"}
     @@ c1 :> Consume

(* Two requests wake on buffers of other configurations while a third       *)
(* thread fills the slot that the first of them has just emptied.           *)
Crowding == p1 :> (Produce \union {"Timeout", cfgA})
         @@ p2 :> (Produce \union {"Timeout", cfgB})
         @@ c1 :> Consume
         @@ x1 :> {"ProducerAttachBufferToQueue", cfgA}

(* Two threads of one producer name the same buffer.                        *)
SharedBuffer == p1 :> (Produce \union {"Timeout", cfgA})
             @@ p2 :> {"CancelBuffer"}
             @@ c1 :> Consume

(* The consumer's releases hand every free buffer to a listener, while      *)
(* buffers of two configurations are allocated, flushed and cleaned.        *)
Listening == p1 :> (Produce \union {"Timeout", cfgA})
          @@ p2 :> {"RequestBuffer", "CancelBuffer", "Timeout", cfgB}
          @@ c1 :> (Consume \union {"ReleaseListener"})
          @@ x1 :> {"RegisterConsumerListener", "CleanReleasedBuffers"}

QueueMixes  == {Mix(Pipeline), Mix(Detaching), Mix(Listening)}
ChangeMixes == {Mix(Waiting), Mix(Attaching), Mix(Modes), Mix(Cleaning), Mix(Resizing)}
LiveMixes   == {Mix(Live)}
CrowdMixes  == {Mix(Crowding)}
SharedMixes == {Mix(SharedBuffer)}

=============================================================================
