--------------------------- MODULE BufferLifecycle ---------------------------
(***************************************************************************)
(* What a buffer queue is to its two sides: every buffer it knows is in    *)
(* exactly one pair of hands, and the frames a producer has handed over    *)
(* reach the consumer in the order they were flushed, each at most once.   *)
(* Neither lists, locks nor threads appear here.                           *)
(***************************************************************************)
EXTENDS Integers, Sequences

CONSTANTS Buffers    \* sequence numbers

VARIABLES
    holder,   \* holder[s]: who has buffer s
    frames    \* the flushed buffers, oldest first

vars == <<holder, frames>>

Holder == {"nobody", "queue", "producer", "frames", "consumer"}

TypeOK == /\ holder \in [Buffers -> Holder]
          /\ frames \in Seq(Buffers)

Init == /\ holder = [s \in Buffers |-> "nobody"]
        /\ frames = <<>>

Move(s, from, to) == holder[s] \in from /\ holder' = [holder EXCEPT ![s] = to]

(* The producer gets a free buffer, a new one, or the oldest frame back.    *)
Lend(s) ==
    \/ Move(s, {"queue", "nobody"}, "producer") /\ UNCHANGED frames
    \/ /\ frames # <<>> /\ s = Head(frames)
       /\ Move(s, {"frames"}, "producer")
       /\ frames' = Tail(frames)

(* The producer hands over a frame; it is the newest.                       *)
Submit(s) ==
    /\ Move(s, {"producer", "nobody"}, "frames")
    /\ frames' = Append(frames, s)

(* The consumer takes the oldest frame, or brings a buffer of its own.      *)
Take(s) ==
    \/ /\ frames # <<>> /\ s = Head(frames)
       /\ Move(s, {"frames"}, "consumer")
       /\ frames' = Tail(frames)
    \/ Move(s, {"nobody"}, "consumer") /\ UNCHANGED frames

(* Whoever holds a buffer gives it back.                                    *)
Return(s) == Move(s, {"producer", "consumer"}, "queue") /\ UNCHANGED frames

(* A buffer comes back to the queue, or leaves it, and the queue lends the  *)
(* producer free ones unasked, the one that came back among them.           *)
LendUnasked(R, D, G) ==
    /\ \A s \in R : holder[s] \in {"producer", "consumer"}
    /\ \A s \in D : holder[s] # "frames"
    /\ \A s \in G \ R : holder[s] = "queue"
    /\ G \intersect D = {}
    /\ holder' = [s \in Buffers |-> IF s \in G THEN "producer"
                                    ELSE IF s \in D THEN "nobody"
                                    ELSE IF s \in R THEN "queue" ELSE holder[s]]
    /\ UNCHANGED frames

(* The queue adopts new buffers, as free ones.                              *)
Adopt(S) ==
    /\ \A s \in S : holder[s] = "nobody"
    /\ holder' = [s \in Buffers |-> IF s \in S THEN "queue" ELSE holder[s]]
    /\ UNCHANGED frames

(* What is left of frames without those of S: the others, in their order.   *)
(* Frame i of the new list is frame f[i] of the old one.                    *)
FramesWithout(S) ==
    /\ frames' \in Seq(Buffers)
    /\ \E f \in [DOMAIN frames' -> DOMAIN frames] :
          /\ \A i, j \in DOMAIN frames' : i < j => f[i] < f[j]
          /\ \A i \in DOMAIN frames' : frames'[i] = frames[f[i]]
          /\ \A p \in DOMAIN frames :
                frames[p] \notin S <=> \E i \in DOMAIN frames' : f[i] = p

(* Buffers leave the queue, from any hands; a producer may attach one in    *)
(* the same step.                                                           *)
Forget(S) ==
    /\ \E A \in {{}} \union {{s} : s \in {u \in Buffers : holder[u] = "nobody"}} :
          holder' = [s \in Buffers |-> IF s \in A THEN "producer"
                                       ELSE IF s \in S THEN "nobody" ELSE holder[s]]
    /\ FramesWithout(S)

Next ==
    \/ \E s \in Buffers : Lend(s) \/ Submit(s) \/ Take(s) \/ Return(s)
    \/ \E S \in SUBSET Buffers : Adopt(S) \/ Forget(S)
    \/ \E R, D \in {{}} \union {{s} : s \in Buffers}, G \in SUBSET Buffers : LendUnasked(R, D, G)

Spec == Init /\ [][Next]_vars
=============================================================================
