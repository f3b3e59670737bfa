---------------------------- MODULE MCFramePacing ----------------------------
(***************************************************************************)
(* Instances of the timed acquire: a producer, one consumer thread, and a  *)
(* controller that changes the drop level or the request mode.             *)
(***************************************************************************)
EXTENDS FramePacing

CONSTANTS p1, c1, x1, cfgA

Produce == {"RequestBuffer", "FlushBuffer", "CancelBuffer", "Timeout"}
Consume == {"AcquireBuffer", "ReleaseBuffer", "TimedAcquire"}

PacingCalls == p1 :> {"RequestBuffer", "FlushBuffer", cfgA} @@ c1 :> Consume
               @@ x1 :> {"SetDropFrameLevel"}

(* A producer that takes frames back rather than wait.                      *)
OverwriteCalls == p1 :> (Produce \union {cfgA}) @@ c1 :> Consume
                  @@ x1 :> {"SetRequestBufferNoblockMode"}

PacingMixes    == {PacingCalls}
OverwriteMixes == {OverwriteCalls}
=============================================================================
