---------------------------- MODULE WindowLifetime ----------------------------
(***************************************************************************)
(* Native windows around one surface: who refers to them, the registry     *)
(* that finds a window by its surface's id, and the buffers a window keeps *)
(* handles for.  The surface keeps a weak reference to the window that was *)
(* made last and takes deleted buffers out of that window's cache, under   *)
(* the surface's mutex; the window adds to its cache after the surface's   *)
(* call has returned.  Sequence numbers are used again.                    *)
(***************************************************************************)
EXTENDS Naturals, FiniteSets

CONSTANTS
    App,            \* threads of the application
    Window,         \* OHNativeWindow objects
    Number,         \* sequence numbers of buffers
    MaxBuffers,     \* bound: buffers the queue makes
    MaxRefs         \* bound: references to one window

ASSUME WindowsAssumption == {MaxBuffers, MaxRefs} \subseteq Nat /\ "none" \notin Window

VARIABLES
    life,           \* life[w]: "live", "dying" (its destructor runs), "dead" or never made
    refs,           \* refs[w]: strong references, all of the application's
    registry,       \* nativeWindowCache_[the surface's id], NoWindow: no entry
    weak,           \* wpNativeWindow_ of the surface
    surfaceCache,   \* surfaceCache[n]: which buffer number n names in bufferProducerCache_
    windowCache,    \* windowCache[w][n]: which one in bufferCache_ of w
    made,           \* buffers made so far
    using,          \* using[t]: the call of thread t
    unheard         \* history: entries of windows the surface could not delete

windowVars == <<life, refs, registry, weak, surfaceCache, windowCache, made, using, unheard>>
cacheVars  == <<surfaceCache, windowCache, made, unheard>>

NoWindow == "none"
NoBuffer == 0
Outside  == [at |-> "idle", w |-> NoWindow, n |-> 0, b |-> NoBuffer]

WindowInit ==
    /\ life = [w \in Window |-> "dead"]
    /\ refs = [w \in Window |-> 0]
    /\ registry = NoWindow
    /\ weak = NoWindow
    /\ surfaceCache = [n \in Number |-> NoBuffer]
    /\ windowCache = [w \in Window |-> [n \in Number |-> NoBuffer]]
    /\ made = 0
    /\ using = [t \in App |-> Outside]
    /\ unheard = {}

EntersWindow(t, at, w) == using' = [using EXCEPT ![t] = [Outside EXCEPT !.at = at, !.w = w]]

-----------------------------------------------------------------------------
(* CreateNativeWindowFromSurface: an object, perhaps where a dead one was,  *)
(* an entry unless there is one, and the surface's weak reference.          *)
CreateNativeWindow(t, w) ==
    /\ using[t] = Outside /\ life[w] = "dead"
    /\ life' = [life EXCEPT ![w] = "live"]
    /\ refs' = [refs EXCEPT ![w] = 1]
    /\ EntersWindow(t, "created", w)
    /\ UNCHANGED <<registry, weak, cacheVars>>

AddNativeWindow(t) ==
    /\ using[t].at = "created"
    /\ registry' = IF registry = NoWindow THEN using[t].w ELSE registry
    /\ EntersWindow(t, "added", using[t].w)
    /\ UNCHANGED <<life, refs, weak, cacheVars>>

SetWptrNativeWindowToPSurface(t) ==
    /\ using[t].at = "added"
    /\ weak' = using[t].w
    /\ using' = [using EXCEPT ![t] = Outside]
    /\ UNCHANGED <<life, refs, registry, cacheVars>>

(* CreateNativeWindowFromSurfaceId and NativeWindowReadFromParcel look in   *)
(* the registry first and get a plain pointer; without an entry they make a *)
(* window as above.  The first takes a reference afterwards, the second     *)
(* leaves the caller with the pointer.  A window may die in between, and    *)
(* the reference is taken on freed memory.                                  *)
GetNativeWindow(t) ==
    /\ using[t] = Outside /\ registry # NoWindow
    /\ refs[registry] + Cardinality({u \in App : using[u].at = "found"}) < MaxRefs
    /\ EntersWindow(t, "found", registry)
    /\ UNCHANGED <<life, refs, registry, weak, cacheVars>>

ReferencesFound(t) ==
    LET w == using[t].w IN
    /\ using[t].at = "found"
    /\ refs' = IF life[w] = "live" THEN [refs EXCEPT ![w] = @ + 1] ELSE refs
    /\ using' = [using EXCEPT ![t] = Outside]
    /\ UNCHANGED <<life, registry, weak, cacheVars>>

(* An application gives up a reference only when the threads inside calls   *)
(* with the window have references of their own.                            *)
Users(w) == Cardinality({t \in App : using[t].w = w /\ using[t].at # "found"})

NativeObjectUnreference(t, w) ==
    /\ using[t] = Outside /\ refs[w] > Users(w)
    /\ refs' = [refs EXCEPT ![w] = @ - 1]
    /\ IF refs[w] = 1 THEN life' = [life EXCEPT ![w] = "dying"] /\ EntersWindow(t, "dying", w)
                      ELSE UNCHANGED <<life, using>>
    /\ UNCHANGED <<registry, weak, cacheVars>>

(* The destructor removes the surface's entry, whichever window it names.   *)
RemoveNativeWindow(w) == NoWindow

DestroysWindow(t) ==
    LET w == using[t].w IN
    /\ using[t].at = "dying"
    /\ registry' = RemoveNativeWindow(w)
    /\ life' = [life EXCEPT ![w] = "dead"]
    /\ windowCache' = [windowCache EXCEPT ![w] = [n \in Number |-> NoBuffer]]
    /\ weak' = IF weak = w THEN NoWindow ELSE weak
    /\ unheard' = {e \in unheard : e[1] # w}
    /\ using' = [using EXCEPT ![t] = Outside]
    /\ UNCHANGED <<refs, surfaceCache, made>>

-----------------------------------------------------------------------------
(* DeleteCacheBufferLocked, CleanAllLocked: the surface forgets buffers,    *)
(* and so does the window it knows, if that is still there.                 *)
ForgetsInWindow_Nothing(numbers) == UNCHANGED windowCache      \* only the surface's cache
ForgetsInWindow(numbers) ==
    windowCache' = IF weak # NoWindow /\ life[weak] = "live"
                      THEN [windowCache EXCEPT ![weak] =
                               [n \in Number |-> IF n \in numbers THEN NoBuffer ELSE @[n]]]
                      ELSE windowCache

Unreached(numbers) ==
    {e \in Window \X numbers : e[1] # weak /\ windowCache[e[1]][e[2]] # NoBuffer}

(* NativeWindowRequestBuffer and NativeWindowLockBuffer.  The surface       *)
(* returns a buffer it has, or a new one, perhaps in the place of another,  *)
(* whose number the queue has reported as deleted.                          *)
RequestsBuffer(t, w, n, deleted) ==
    /\ using[t] = Outside /\ refs[w] > Users(w)
    /\ n \notin deleted
    /\ \A m \in deleted : surfaceCache[m] # NoBuffer
    /\ LET isNew == surfaceCache[n] = NoBuffer
           b     == IF isNew THEN made + 1 ELSE surfaceCache[n]
       IN  /\ b <= MaxBuffers
           /\ deleted # {} => isNew
           /\ made' = IF isNew THEN b ELSE made
           /\ surfaceCache' = [m \in Number |-> IF m = n THEN b ELSE IF m \in deleted THEN NoBuffer
                                                ELSE surfaceCache[m]]
           /\ using' = [using EXCEPT ![t] = [at |-> "requested", w |-> w, n |-> n, b |-> b]]
    /\ ForgetsInWindow(deleted)
    /\ unheard' = unheard \union Unreached(deleted)
    /\ UNCHANGED <<life, refs, registry, weak>>

(* NativeWindowAddToCache, when the surface's mutex is free again: the      *)
(* handle the window has for the number, or a new one.                      *)
AddsToCache(t) ==
    LET u == using[t] IN
    /\ u.at = "requested"
    /\ windowCache' = IF windowCache[u.w][u.n] = NoBuffer
                         THEN [windowCache EXCEPT ![u.w][u.n] = u.b] ELSE windowCache
    /\ unheard' = IF surfaceCache[u.n] # u.b THEN unheard \union {<<u.w, u.n>>} ELSE unheard
    /\ using' = [using EXCEPT ![t] = Outside]
    /\ UNCHANGED <<life, refs, registry, weak, surfaceCache, made>>

(* NativeWindowCleanCache, and every other way to the surface's CleanCache. *)
CleansWindow(t) ==
    /\ using[t] = Outside
    /\ \E n \in Number : surfaceCache[n] # NoBuffer
    /\ surfaceCache' = [n \in Number |-> NoBuffer]
    /\ ForgetsInWindow(Number)
    /\ unheard' = unheard \union Unreached(Number)
    /\ UNCHANGED <<life, refs, registry, weak, made, using>>

WindowNext ==
    \E t \in App :
        \/ AddNativeWindow(t) \/ SetWptrNativeWindowToPSurface(t)
        \/ GetNativeWindow(t) \/ ReferencesFound(t) \/ DestroysWindow(t)
        \/ AddsToCache(t) \/ CleansWindow(t)
        \/ \E w \in Window :
              \/ CreateNativeWindow(t, w) \/ NativeObjectUnreference(t, w)
              \/ \E n \in Number, deleted \in SUBSET Number : RequestsBuffer(t, w, n, deleted)

WindowSpec == WindowInit /\ [][WindowNext]_windowVars

-----------------------------------------------------------------------------
(* The registry never names a window whose memory is gone, whichever of     *)
(* several windows of the surface dies first; and a handle that a window    *)
(* keeps is for the buffer the surface has under that number, so that       *)
(* NativeWindowRequestBuffer gives the application the buffer it requested. *)
(* The second does not hold for an entry the surface could not reach: of a  *)
(* window that is not the last one made, or added after a cleaning.         *)
WindowsAgree ==
    /\ registry # NoWindow => life[registry] \in {"live", "dying"}
    /\ \A w \in Window, n \in Number :
          life[w] = "live" /\ <<w, n>> \notin unheard =>
              windowCache[w][n] \in {NoBuffer, surfaceCache[n]}
=============================================================================
