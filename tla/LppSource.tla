------------------------------ MODULE LppSource ------------------------------
(***************************************************************************)
(* Low-power video.  Hardware writes frames into a ring of slots in shared *)
(* memory; the consumer takes the newest one from the ring, past           *)
(* dirtyList_, and marks its slot so that the hardware leaves the buffer   *)
(* alone until it has been released and its fence has signalled.  The      *)
(* hardware takes no lock of the queue's.                                  *)
(*                                                                         *)
(* The producer's buffers are requested before the hardware starts and not *)
(* again while it runs.  The copy of the ring is one step: the program      *)
(* reads the offsets first and the slots after them, and no frame is        *)
(* written in between.                                                      *)
(***************************************************************************)
EXTENDS Integers, FiniteSets

CONSTANTS
    LppBuffer,      \* sequence numbers
    SlotSize,       \* LPP_SLOT_SIZE
    MaxAcquired,    \* MAX_LPP_ACQUIRE_BUFFER_SIZE
    MaxSkipped,     \* MAX_LPP_SKIP_COUNT
    MaxFrames       \* bound: frames the hardware writes

ASSUME RingAssumption == SlotSize \in Nat \ {0} /\ {MaxAcquired, MaxSkipped, MaxFrames} \subseteq Nat

VARIABLES
    mapped,         \* lppSlotInfo_ is mapped
    slots,          \* slot[i]: a buffer, its time stamp, isRsUsing
    readOffset, writeOffset, stopShbDraw,       \* the rest of the shared memory
    lppState,       \* lppState[b]: b in bufferQueueCache_ and its release fence
    fenceMap,       \* lppFenceMap_: the slot of each buffer it has
    lastWrite,      \* lastLppWriteOffset_ and lastLppWriteTimestamp_
    lastRsToShb,    \* lastRsToShbWriteOffset_
    picked,         \* the slot AcquireLppBuffer is about to read, NoSlot: none
    copied,         \* what it copied of the ring and has not marked yet
    outcome,        \* what AcquireLppBuffer returned, if nothing was written since
    frames,         \* frames written so far, the time stamps
    unseen,         \* history: a frame was written since the newest one was taken
    forced,         \* history: buffers whose slot was let go before their time
    overtaken       \* history: slots marked after another frame had come into them

ring     == <<slots, readOffset, writeOffset, stopShbDraw>>
lppVars  == <<mapped, ring, lppState, fenceMap, lastWrite, lastRsToShb, picked, copied, outcome,
              frames, unseen, forced, overtaken>>

SlotIndex == 0 .. SlotSize - 1
NoSlot    == -1
NoCopy    == [buf |-> "nobuffer", frame |-> 0, at |-> NoSlot, stamp |-> -1]

(* A released buffer's fence has signalled ("RELEASED") or not ("PENDING"). *)
LppInit ==
    /\ mapped = FALSE
    /\ slots = [i \in SlotIndex |-> [buf |-> "nobuffer", stamp |-> 0, used |-> FALSE]]
    /\ readOffset = 0 /\ writeOffset = 0 /\ stopShbDraw = FALSE
    /\ lppState = [b \in LppBuffer |-> "REQUESTED"]
    /\ fenceMap = [b \in {} |-> NoSlot]
    /\ lastWrite = [at |-> NoSlot, stamp |-> -1]
    /\ lastRsToShb = NoSlot
    /\ picked = NoSlot /\ copied = NoCopy
    /\ outcome = "none"
    /\ frames = 0
    /\ unseen = FALSE
    /\ forced = {} /\ overtaken = {}

Shown(b) == lppState[b] \in {"ACQUIRED", "PENDING"}
InUse(i) == slots[i].used
Newest   == (writeOffset + SlotSize - 1) % SlotSize

-----------------------------------------------------------------------------
(* The hardware fills the next slot with a buffer no marked slot names.     *)
HardwareWrites(b) ==
    /\ mapped /\ ~InUse(writeOffset) /\ frames < MaxFrames
    /\ \A i \in SlotIndex : slots[i].buf = b => ~InUse(i)
    /\ frames' = frames + 1
    /\ slots' = [slots EXCEPT ![writeOffset] = [buf |-> b, stamp |-> frames + 1, used |-> FALSE]]
    /\ writeOffset' = (writeOffset + 1) % SlotSize
    /\ unseen' = TRUE
    /\ outcome' = "none"
    /\ UNCHANGED <<mapped, readOffset, stopShbDraw, lppState, fenceMap, lastWrite, lastRsToShb, picked,
                   copied, forced, overtaken>>

(* CheckLppFenceLocked: which buffers keep their slots, and the ring after  *)
(* every other mark is gone.                                                *)
Kept(map)       == {b \in DOMAIN map : Shown(b)}
AfterCheck(map) ==
    [i \in SlotIndex |-> [slots[i] EXCEPT !.used = @ /\ slots[i].buf \in Kept(map)
        /\ ~(\E b \in DOMAIN map \ Kept(map) : map[b] = i /\ lppState[b] # "NONE")]]
Trimmed(map)    == [b \in Kept(map) |-> map[b]]

ChecksFences(map) ==
    /\ fenceMap' = Trimmed(map)
    /\ slots' = AfterCheck(map)

LetsGo(map) == forced' = forced \union ({b \in LppBuffer : Shown(b)} \ DOMAIN map)

(* AcquireLppBuffer, which the hardware may run beside: looks whether few   *)
(* enough buffers are out, and where the newest frame is.                   *)
PicksSlot ==
    /\ mapped /\ picked = NoSlot
    /\ ChecksFences(fenceMap)
    /\ IF Cardinality(Kept(fenceMap)) <= MaxAcquired
          THEN picked' = Newest /\ outcome' = "none"
          ELSE outcome' = "too many" /\ UNCHANGED picked
    /\ UNCHANGED <<mapped, readOffset, writeOffset, stopShbDraw, lppState, lastWrite, lastRsToShb,
                   copied, frames, unseen, forced, overtaken>>

NoUpdate_ByOffset ==                \* the time stamp is not compared
    /\ lastWrite.at # NoSlot
    /\ writeOffset = lastWrite.at /\ readOffset = Newest
NoUpdate ==
    /\ lastWrite.at # NoSlot
    /\ writeOffset = lastWrite.at /\ readOffset = Newest
    /\ slots[lastWrite.at].stamp = lastWrite.stamp

(* Then it copies the ring, and returns if the copy shows nothing new.      *)
CopiesRing ==
    /\ picked # NoSlot /\ copied = NoCopy
    /\ IF NoUpdate
          THEN picked' = NoSlot /\ outcome' = "no update" /\ UNCHANGED <<copied, unseen>>
          ELSE /\ copied' = [buf |-> slots[picked].buf, frame |-> slots[picked].stamp,
                             at |-> writeOffset, stamp |-> slots[writeOffset].stamp]
               /\ unseen' = (unseen /\ picked # Newest)
               /\ UNCHANGED <<picked, outcome>>
    /\ UNCHANGED <<mapped, ring, lppState, fenceMap, lastWrite, lastRsToShb, frames, forced, overtaken>>

(* It marks the slot, whatever frame is there by now, and makes the copied  *)
(* one's buffer ACQUIRED in whatever state it is; or gives the slot back if *)
(* the queue does not know the buffer.                                      *)
TakesSlot ==
    LET b == copied.buf IN
    /\ copied # NoCopy
    /\ readOffset' = picked
    /\ lastWrite' = [at |-> copied.at, stamp |-> copied.stamp]
    /\ IF b \notin LppBuffer \/ (b \in LppBuffer /\ lppState[b] = "NONE")
          THEN /\ outcome' = "not cached"
               /\ slots' = [slots EXCEPT ![picked].used = FALSE]
               /\ UNCHANGED <<lppState, fenceMap, forced, overtaken>>
          ELSE /\ outcome' = "OK"
               /\ slots' = [slots EXCEPT ![picked].used = TRUE]
               /\ lppState' = [lppState EXCEPT ![b] = "ACQUIRED"]
               /\ fenceMap' = [c \in DOMAIN fenceMap \union {b} |-> IF c = b THEN picked ELSE fenceMap[c]]
               /\ forced' = forced \ {b}
               /\ overtaken' = IF slots[picked].stamp = copied.frame THEN overtaken
                                                                     ELSE overtaken \union {picked}
    /\ picked' = NoSlot /\ copied' = NoCopy
    /\ UNCHANGED <<mapped, writeOffset, stopShbDraw, lastRsToShb, frames, unseen>>

(* The consumer releases a buffer, with a fence or without; the fence       *)
(* signals later.                                                           *)
ReleasesLpp(b, st) ==
    /\ picked = NoSlot
    /\ lppState[b] = "ACQUIRED"
    /\ lppState' = [lppState EXCEPT ![b] = st]
    /\ forced' = IF st = "RELEASED" THEN forced \ {b} ELSE forced
    /\ UNCHANGED <<mapped, ring, fenceMap, lastWrite, lastRsToShb, picked, copied, outcome, frames,
                   unseen, overtaken>>

FenceSignals(b) ==
    /\ lppState[b] = "PENDING"
    /\ lppState' = [lppState EXCEPT ![b] = "RELEASED"]
    /\ forced' = forced \ {b}
    /\ UNCHANGED <<mapped, ring, fenceMap, lastWrite, lastRsToShb, picked, copied, outcome, frames,
                   unseen, overtaken>>

(* A cleaning takes the buffer out of the queue.                            *)
ForgetsLpp(b) ==
    /\ picked = NoSlot
    /\ lppState[b] # "NONE"
    /\ lppState' = [lppState EXCEPT ![b] = "NONE"]
    /\ forced' = forced \ {b}
    /\ UNCHANGED <<mapped, ring, fenceMap, lastWrite, lastRsToShb, picked, copied, outcome, frames,
                   unseen, overtaken>>

-----------------------------------------------------------------------------
(* SetLppShareFd maps other memory, or first flushes the newest frame and   *)
(* then unmaps.  That flush acquires the buffer (PicksSlot to TakesSlot)    *)
(* and fails, because FlushBuffer accepts no acquired buffer.               *)
SetLppShareFd(on) ==
    /\ picked = NoSlot
    /\ on \/ mapped
    /\ mapped' = on
    /\ fenceMap' = [b \in {} |-> NoSlot]
    /\ slots' = [i \in SlotIndex |-> [slots[i] EXCEPT !.used = @ /\ ~on]]
    /\ LetsGo(fenceMap')
    /\ UNCHANGED <<readOffset, writeOffset, stopShbDraw, lppState, lastWrite, lastRsToShb, picked,
                   copied, outcome, frames, unseen, overtaken>>

(* SetLppDrawSource: from the third frame in a row that the hardware shows  *)
(* itself, the consumer's slots are let go by force; with too many frames   *)
(* skipped it only tells the hardware.  No code raises lppSkipCount_.       *)
lppSkipCount == 0
ShbFrames    == IF lastRsToShb = NoSlot THEN 0 ELSE (lastWrite.at - lastRsToShb + SlotSize) % SlotSize

SetLppDrawSource(isShbSource) ==
    /\ mapped /\ picked = NoSlot
    /\ stopShbDraw' = ~isShbSource
    /\ IF lppSkipCount >= MaxSkipped
          THEN UNCHANGED <<slots, fenceMap, lastRsToShb, forced>>
          ELSE /\ lastRsToShb' = IF ~isShbSource THEN NoSlot
                                 ELSE IF stopShbDraw THEN lastWrite.at ELSE lastRsToShb
               /\ IF isShbSource /\ ~stopShbDraw /\ ShbFrames > MaxAcquired
                     THEN /\ ChecksFences([b \in {} |-> NoSlot])
                          /\ LetsGo(fenceMap')
                     ELSE UNCHANGED <<slots, fenceMap, forced>>
    /\ UNCHANGED <<mapped, readOffset, writeOffset, lppState, lastWrite, picked, copied, outcome, frames,
                   unseen, overtaken>>

LppNext ==
    \/ PicksSlot \/ CopiesRing \/ TakesSlot
    \/ \E b \in LppBuffer :
          \/ HardwareWrites(b)
          \/ \E st \in {"RELEASED", "PENDING"} : ReleasesLpp(b, st)
          \/ FenceSignals(b) \/ ForgetsLpp(b)
    \/ \E on \in BOOLEAN : SetLppShareFd(on)
    \/ \E isShbSource \in BOOLEAN : SetLppDrawSource(isShbSource)

LppSpec == LppInit /\ [][LppNext]_lppVars

-----------------------------------------------------------------------------
(* The hardware never writes into a frame that is being shown: a buffer     *)
(* that is acquired, or released with a fence that has not signalled, keeps *)
(* a marked slot until then, unless it was let go by force.  The one way to *)
(* lose the mark is that the hardware goes round the whole ring after       *)
(* AcquireLppBuffer copied it (3032) and before it sets isRsUsing (3043):   *)
(* the mark is then on another frame, and that slot guards nobody.  The     *)
(* consumer gets one buffer more than MAX_LPP_ACQUIRE_BUFFER_SIZE at most,  *)
(* and AcquireLppBuffer says that there is no update only when it has       *)
(* handed out the newest frame, even after the hardware went round.         *)
Guarded(b) == \E i \in SlotIndex : slots[i].buf = b /\ InUse(i)

RingIsSafe ==
    /\ \A b \in LppBuffer \ forced :
          Shown(b) => b \in DOMAIN fenceMap /\ (Guarded(b) \/ fenceMap[b] \in overtaken)
    /\ Cardinality({b \in LppBuffer \ forced : Shown(b)}) <= MaxAcquired + 1
    /\ outcome = "no update" => ~unseen
=============================================================================
