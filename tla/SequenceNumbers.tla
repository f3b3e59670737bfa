--------------------------- MODULE SequenceNumbers ---------------------------
(***************************************************************************)
(* The sequence numbers of SurfaceBufferImpl in one process: a bit set of  *)
(* the numbers in use, the number a new buffer gets, and what a buffer     *)
(* does to the bit of its number when it comes back from another process   *)
(* and when it is destroyed.  Every action holds g_seqNumMutex.            *)
(***************************************************************************)
EXTENDS Integers, FiniteSets

CONSTANTS BufferObject,  \* the SurfaceBufferImpl objects of the process
          MaxSequence,   \* MAX_SEQUENCE_NUM, 0xFFFF in the code: a mask and a bound
          CounterSize,   \* sequence_number_ is a uint32_t: 2^32 in the code
          MaxAbroad      \* bound on the buffers that other processes hold

ASSUME SequenceAssumption == /\ MaxSequence \in Nat \ {0}
                             /\ CounterSize \in Nat \ {0} /\ MaxAbroad \in Nat

VARIABLES
    objects,    \* the objects that exist: number, isSeqNumExist_, and the memory they show
    seqBitset,  \* g_seqBitset: the numbers below MaxSequence that are taken
    counter,    \* sequence_number_, which the generator writes back
    abroad,     \* the buffers other processes hold: number and memory
    pidFits,    \* the process id is below 2^16, so that numbers name it
    exhausted   \* history: a buffer was created when every number was taken

numberVars == <<objects, seqBitset, counter, abroad, pidFits, exhausted>>

NumberInit ==
    /\ objects = [o \in {} |-> 0]
    /\ seqBitset = {}
    /\ counter = 0
    /\ abroad = {}
    /\ pidFits \in BOOLEAN
    /\ exhausted = FALSE

Living == DOMAIN objects

(* An object that does not exist: which of them comes next is immaterial. *)
Unborn == CHOOSE o \in BufferObject : o \notin Living

(* The memory of a new buffer is one that nobody shows. *)
NewMemory ==
    CHOOSE m \in 0 .. Cardinality(BufferObject) + MaxAbroad :
        /\ \A o \in Living : objects[o].memory # m
        /\ \A b \in abroad : b.memory # m

With(number, exist, memory) ==
    [x \in Living \union {Unborn} |->
        IF x = Unborn THEN [number |-> number, exist |-> exist, memory |-> memory] ELSE objects[x]]

(* GenerateSequenceNumber goes round the bit set from start to the number    *)
(* before it, which the width of the counter displaces when start is 0.       *)
Distance(start, n) == (n - start) % MaxSequence

IdleFrom(start) ==
    LET last == ((start - 1) % CounterSize) % MaxSequence
    IN  {n \in (0 .. MaxSequence - 1) \ seqBitset : Distance(start, n) <= Distance(start, last)}

FirstIdle(start) ==
    CHOOSE n \in IdleFrom(start) :
        \A other \in IdleFrom(start) : Distance(start, n) <= Distance(start, other)

(* SurfaceBufferImpl(): when no number is idle the buffer gets the one the   *)
(* search began with, without a bit.                                         *)
CreatesBuffer ==
    LET start == (counter + 1) % CounterSize
        found == IdleFrom(start) # {}
        number == IF found THEN FirstIdle(start) ELSE start
    IN  /\ Living # BufferObject
        /\ objects' = With(number % (MaxSequence + 1), FALSE, NewMemory)
        /\ seqBitset' = IF found THEN seqBitset \union {number} ELSE seqBitset
        /\ counter' = number
        /\ exhausted' = (exhausted \/ ~ found)
        /\ UNCHANGED <<abroad, pidFits>>

(* A buffer is written to a parcel with its number. *)
SendsBuffer(o) ==
    /\ Cardinality(abroad) < MaxAbroad
    /\ abroad' = abroad \union {[number |-> objects[o].number, memory |-> objects[o].memory]}
    /\ UNCHANGED <<objects, seqBitset, counter, pidFits, exhausted>>

(* Another process lets go of a buffer. *)
AbroadForgets ==
    /\ \E b \in abroad : abroad' = abroad \ {b}
    /\ UNCHANGED <<objects, seqBitset, counter, pidFits, exhausted>>

Tracked(number) == pidFits /\ number < MaxSequence

(* SurfaceBufferImpl(seqNum): a buffer of this process comes back. *)
ReadsBuffer ==
    /\ Living # BufferObject
    /\ \E b \in abroad :
          /\ objects' = With(b.number, Tracked(b.number) /\ b.number \in seqBitset,
                             b.memory)
          /\ seqBitset' = IF Tracked(b.number) THEN seqBitset \union {b.number} ELSE seqBitset
    /\ UNCHANGED <<counter, abroad, pidFits, exhausted>>

FreesNumber_Always(o) == Tracked(objects[o].number)

(* The object that set the bit gives the number back. *)
FreesNumber(o) == Tracked(objects[o].number) /\ ~ objects[o].exist

(* ~SurfaceBufferImpl *)
DestroysBuffer(o) ==
    /\ objects' = [x \in Living \ {o} |-> objects[x]]
    /\ seqBitset' = IF FreesNumber(o) THEN seqBitset \ {objects[o].number} ELSE seqBitset
    /\ UNCHANGED <<counter, abroad, pidFits, exhausted>>

NumberNext ==
    \/ CreatesBuffer \/ ReadsBuffer \/ AbroadForgets
    \/ \E o \in Living : SendsBuffer(o) \/ DestroysBuffer(o)

NumberSpec == NumberInit /\ [][NumberNext]_numberVars

-----------------------------------------------------------------------------
(* Of the objects that think a number is theirs to give back no two have the *)
(* same number, as long as the numbers never ran out: otherwise the first to *)
(* be destroyed frees the number of a buffer that lives.                     *)
OwnersDiffer ==
    exhausted \/ \A o, p \in Living :
                     /\ objects[o].number = objects[p].number
                     /\ Tracked(objects[o].number)
                     /\ ~ objects[o].exist /\ ~ objects[p].exist
                     => o = p

(* The number "is unique for each OH_NativeBuffer": two objects with one     *)
(* number show the same memory.                                              *)
NumberNamesOneBuffer ==
    exhausted \/ \A o, p \in Living : objects[o].number = objects[p].number
                                      => objects[o].memory = objects[p].memory
=============================================================================
