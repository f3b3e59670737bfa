---------------------------- MODULE TransformHints ----------------------------
(***************************************************************************)
(* The transform hint.  The queue keeps it; every producer's surface keeps  *)
(* a copy, which it takes when it is initialised and renews when the queue  *)
(* broadcasts a change.  A surface that changes the hint itself is left out *)
(* of the broadcast and records the change when its call returns.           *)
(***************************************************************************)
EXTENDS Integers, Sequences, FiniteSets

CONSTANTS
    Surface,        \* ProducerSurface objects
    Hints,          \* values of GraphicTransformType
    FirstHint,      \* transformHint_ of a new queue
    Limits,         \* values to try for propertyChangeListenerMaxNum
    MaxInbox        \* bound: broadcasts under way to one surface

ASSUME HintsAssumption == /\ FirstHint \in Hints /\ Limits \subseteq Nat /\ MaxInbox \in Nat
                          /\ "consumer" \notin Surface

VARIABLES
    listenerLimit,  \* propertyChangeListenerMaxNum in this behaviour
    hint,           \* transformHint_
    listeners,      \* the surfaces in propertyChangeListeners_
    stage,          \* stage[s]: how far the surface's life has got
    initHint,       \* initHint[s]: the hint GetProducerInitInfo read for it
    lastHint,       \* lastHint[s]: its lastSetTransformHint_
    asking,         \* asking[s]: its SetTransformHint under way
    inbox,          \* inbox[s]: broadcasts it has not handled yet
    missed          \* history: the surfaces a change passed by

hintVars == <<listenerLimit, hint, listeners, stage, initHint, lastHint, asking, inbox, missed>>

Idle == [at |-> "idle", hint |-> FirstHint, ok |-> FALSE]

HintInit ==
    /\ listenerLimit \in Limits
    /\ hint = FirstHint
    /\ listeners = {}
    /\ stage = [s \in Surface |-> "new"]
    /\ initHint = [s \in Surface |-> FirstHint]
    /\ lastHint = [s \in Surface |-> FirstHint]
    /\ asking = [s \in Surface |-> Idle]
    /\ inbox = [s \in Surface |-> <<>>]
    /\ missed = {}

-----------------------------------------------------------------------------
(* Init: one call to the queue's process, which reads the hint under        *)
(* mutex_ and registers the listener under propertyChangeMutex_ later.      *)
ReadsInitInfo(s) ==
    /\ stage[s] = "new"
    /\ stage' = [stage EXCEPT ![s] = "informed"]
    /\ initHint' = [initHint EXCEPT ![s] = hint]
    /\ UNCHANGED <<hint, listeners, lastHint, asking, inbox, missed>>

RegistersHintListener(s) ==
    /\ stage[s] = "informed"
    /\ stage' = [stage EXCEPT ![s] = "registered"]
    /\ listeners' = IF Cardinality(listeners) > listenerLimit THEN listeners ELSE listeners \union {s}
    /\ UNCHANGED <<hint, initHint, lastHint, asking, inbox, missed>>

(* The answer arrives; a registration that was refused is only logged.      *)
TakesInitInfo(s) ==
    /\ stage[s] = "registered"
    /\ stage' = [stage EXCEPT ![s] = "ready"]
    /\ lastHint' = [lastHint EXCEPT ![s] = initHint[s]]
    /\ UNCHANGED <<hint, listeners, initHint, asking, inbox, missed>>

(* The destructor takes the listener back; a process that dies does not,    *)
(* and its listener stays in the queue's map.                               *)
ClosesSurface(s) ==
    /\ stage[s] = "ready" /\ asking[s] = Idle
    /\ stage' = [stage EXCEPT ![s] = "closed"]
    /\ listeners' = listeners \ {s}
    /\ inbox' = [inbox EXCEPT ![s] = <<>>]
    /\ UNCHANGED <<hint, initHint, lastHint, asking, missed>>

ProcessDies(s) ==
    /\ stage[s] \in {"informed", "registered", "ready"}
    /\ stage' = [stage EXCEPT ![s] = "dead"]
    /\ asking' = [asking EXCEPT ![s] = Idle]
    /\ inbox' = [inbox EXCEPT ![s] = <<>>]
    /\ UNCHANGED <<hint, listeners, initHint, lastHint, missed>>

-----------------------------------------------------------------------------
(* SetTransformHint of a surface: a hint that is its copy already is not    *)
(* sent at all.                                                             *)
AsksHint(s, h) ==
    /\ stage[s] = "ready" /\ asking[s] = Idle
    /\ lastHint[s] # h
    /\ asking' = [asking EXCEPT ![s] = [at |-> "asked", hint |-> h, ok |-> FALSE]]
    /\ UNCHANGED <<hint, listeners, stage, initHint, lastHint, inbox, missed>>

Live(s) == stage[s] \in {"informed", "registered", "ready"}

(* Who will not learn of a change that leaves out the sender: a surface     *)
(* that is being initialised and not registered; one whose initial hint, or *)
(* whose own answered call, will overwrite the broadcast it gets first; and *)
(* the sender itself, if an older broadcast reaches it after its answer.    *)
PassedBy(sender) ==
    {s \in Surface \ {sender} :
        IF s \in listeners THEN \/ stage[s] = "registered"
                                \/ asking[s].at = "answered" /\ asking[s].ok
                           ELSE Live(s)}
    \union {s \in Surface \intersect {sender} : inbox[s] # <<>>}

(* The queue's SetTransformHint, which BufferQueueProducer calls with its   *)
(* mutex_ held: changes and their broadcasts do not mix.                    *)
Broadcast(h, sender) ==
    IF hint = h THEN UNCHANGED <<hint, inbox, missed>>
    ELSE LET told == {s \in listeners \ {sender} : Live(s)} IN
         /\ \A s \in told : Len(inbox[s]) < MaxInbox
         /\ hint' = h
         /\ inbox' = [s \in Surface |-> IF s \in told THEN Append(inbox[s], h) ELSE inbox[s]]
         /\ missed' = (missed \ (told \union {sender})) \union PassedBy(sender)

NoSurface == "consumer"

QueueSetsHint(s) ==
    /\ asking[s].at = "asked"
    /\ Broadcast(asking[s].hint, s)
    /\ asking' = [asking EXCEPT ![s].at = "answered", ![s].ok = TRUE]
    /\ UNCHANGED <<listeners, stage, initHint, lastHint>>

(* The call does not reach the queue, and comes back with an error.         *)
LosesHint(s) ==
    /\ asking[s].at = "asked"
    /\ asking' = [asking EXCEPT ![s].at = "answered"]
    /\ UNCHANGED <<hint, listeners, stage, initHint, lastHint, inbox, missed>>

LearnsHint_Failed(s) ==         \* records the hint whatever the answer was
    /\ asking[s].at = "answered"
    /\ lastHint' = [lastHint EXCEPT ![s] = asking[s].hint]
    /\ asking' = [asking EXCEPT ![s] = Idle]
    /\ UNCHANGED <<hint, listeners, stage, initHint, inbox, missed>>
LearnsHint(s) ==
    /\ asking[s].at = "answered"
    /\ lastHint' = IF asking[s].ok THEN [lastHint EXCEPT ![s] = asking[s].hint] ELSE lastHint
    /\ asking' = [asking EXCEPT ![s] = Idle]
    /\ UNCHANGED <<hint, listeners, stage, initHint, inbox, missed>>

(* The consumer sets the hint for all of them.                              *)
ConsumerSetsHint(h) ==
    /\ Broadcast(h, NoSurface)
    /\ UNCHANGED <<listeners, stage, initHint, lastHint, asking>>

HintArrives(s) ==
    /\ Live(s) /\ inbox[s] # <<>>
    /\ lastHint' = [lastHint EXCEPT ![s] = Head(inbox[s])]
    /\ inbox' = [inbox EXCEPT ![s] = Tail(inbox[s])]
    /\ UNCHANGED <<hint, listeners, stage, initHint, asking, missed>>

HintStep ==
    \/ \E s \in Surface :
          \/ ReadsInitInfo(s) \/ RegistersHintListener(s) \/ TakesInitInfo(s)
          \/ ClosesSurface(s) \/ ProcessDies(s)
          \/ \E h \in Hints : AsksHint(s, h)
          \/ QueueSetsHint(s) \/ LosesHint(s) \/ LearnsHint(s) \/ HintArrives(s)
    \/ \E h \in Hints : ConsumerSetsHint(h)

HintNext == HintStep /\ UNCHANGED listenerLimit

HintSpec == HintInit /\ [][HintNext]_hintVars

-----------------------------------------------------------------------------
(* A surface that is initialised and registered, has no call of its own     *)
(* under way and has handled its broadcasts has the queue's hint, unless    *)
(* the last change came at a moment the code leaves open (PassedBy).  The   *)
(* copies of SetTransformHint, PropertyChangeCallback and Init agree.       *)
HintsAgree ==
    \A s \in listeners \ missed :
        (stage[s] = "ready" /\ asking[s] = Idle /\ inbox[s] = <<>>) => lastHint[s] = hint
=============================================================================
