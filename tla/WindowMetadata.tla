---------------------------- MODULE WindowMetadata ----------------------------
(***************************************************************************)
(* The user data of a surface, and what the native window keeps in it: the  *)
(* colour space, and the type of the HDR metadata.  A window compares its   *)
(* value with the surface's in one lock scope and sets it in another; the   *)
(* surface refuses a value it has already, and everything once it is full.  *)
(* The listeners of a change are called with lockMutex_ held.               *)
(*                                                                         *)
(* Data is keyed by name; a value is the number the string stands for, "" a *)
(* key that was never set.                                                  *)
(***************************************************************************)
EXTENDS Integers, FiniteSets

CONSTANTS
    Thread,         \* threads that use the window
    OtherKeys,      \* keys of the application's own
    Limit           \* SURFACE_MAX_USER_DATA_COUNT

ASSUME KeysAssumption == Limit \in Nat \ {0}

VARIABLES
    data,           \* userData_
    listener,       \* an entry of onUserDataChange_: registered, and what it heard
    typeMap,        \* NATIVE_METADATATYPE_TO_HDI_MAP, shared by all windows
    comparing,        \* comparing[t]: the window call of thread t that has compared
    answer,         \* the answer just given
    asked,          \* history: what the last Set of a key that was answered OK asked for
    lastType        \* history: the metadata type of the last Set that was OK

metadataVars == <<data, listener, typeMap, comparing, answer, asked, lastType>>

(* Colour spaces, two of which are one and the same number.                 *)
ColorSpaces == [NONE |-> 0, SRGB_FULL |-> 1, P3_PQ_FULL |-> 2, DISPLAY_P3_PQ |-> 2]

(* The metadata types the map starts with, and all that are documented.     *)
KnownTypes      == [HLG |-> 1, HDR10 |-> 2, VIVID |-> 3]
DocumentedTypes == DOMAIN KnownTypes \union {"VIVID_DUAL", "VIVID_SINGLE"}     \* and two ISO types

NotMapped == -1

Keys == {"COLORSPACE", "HDR_TYPE"} \union OtherKeys
Empty == -1     \* ""
NoData == [k \in Keys |-> Empty]

NotSetting     == [at |-> "idle", key |-> "COLORSPACE", value |-> 0, name |-> "NONE"]
NoAnswer == [to |-> "nobody", ok |-> TRUE, names |-> {}]

MetadataInit ==
    /\ data = NoData
    /\ listener = [on |-> FALSE, heard |-> NoData]
    /\ typeMap = [n \in DocumentedTypes |-> IF n \in DOMAIN KnownTypes THEN KnownTypes[n] ELSE NotMapped]
    /\ comparing = [t \in Thread |-> NotSetting]
    /\ answer = NoAnswer
    /\ asked = NoData
    /\ lastType = "none"

-----------------------------------------------------------------------------
(* The surface's SetUserData.                                               *)
Full == Cardinality({k \in Keys : data[k] # Empty}) >= Limit

Accepts_EvenFull(key, v) == data[key] # v     \* a key is found before the count is looked at
Accepts(key, v) == ~Full /\ data[key] # v

(* The listeners hear of it before the lock is let go.                      *)
Stores(key, v) ==
    /\ data' = [data EXCEPT ![key] = v]
    /\ listener' = IF listener.on THEN [listener EXCEPT !.heard[key] = v] ELSE listener

Answers(t, key, name, v, ok) ==
    /\ answer' = [to |-> t, ok |-> ok, names |-> {name}]
    /\ asked' = IF ok THEN [asked EXCEPT ![key] = v] ELSE asked
    /\ lastType' = IF ok /\ key = "HDR_TYPE" THEN name ELSE lastType

SetUserData(key, v) ==
    /\ IF Accepts(key, v) THEN Stores(key, v) /\ asked' = [asked EXCEPT ![key] = v]
                        ELSE UNCHANGED <<data, listener, asked>>
    /\ answer' = NoAnswer
    /\ UNCHANGED <<typeMap, comparing, lastType>>

(* A listener starts from the data it finds.                                *)
RegisterUserDataChangeListener ==
    /\ ~listener.on
    /\ listener' = [on |-> TRUE, heard |-> data]
    /\ answer' = NoAnswer
    /\ UNCHANGED <<data, typeMap, comparing, asked, lastType>>

UnRegisterUserDataChangeListener ==
    /\ listener.on
    /\ listener' = [on |-> FALSE, heard |-> NoData]
    /\ answer' = NoAnswer
    /\ UNCHANGED <<data, typeMap, comparing, asked, lastType>>

-----------------------------------------------------------------------------
(* The window's setters: compare first.                                     *)
Compares(t, key, name, v) ==
    /\ comparing[t] = NotSetting
    /\ IF data[key] = v
          THEN Answers(t, key, name, v, TRUE) /\ UNCHANGED comparing
          ELSE /\ comparing' = [comparing EXCEPT ![t] = [at |-> "compared", key |-> key, value |-> v, name |-> name]]
               /\ answer' = NoAnswer
               /\ UNCHANGED <<asked, lastType>>
    /\ UNCHANGED <<data, listener>>

SetColorSpace(t, name) ==
    /\ Compares(t, "COLORSPACE", name, ColorSpaces[name])
    /\ UNCHANGED typeMap

(* The map's operator[] inserts a type it does not know, with value 0.      *)
SetMetadataType(t, name) ==
    LET v == IF typeMap[name] = NotMapped THEN 0 ELSE typeMap[name] IN
    /\ Compares(t, "HDR_TYPE", name, v)
    /\ typeMap' = [typeMap EXCEPT ![name] = v]

(* The static and the dynamic metadata.                                     *)
SetMetadata(t, key, v) ==
    /\ Compares(t, key, "metadata", v)
    /\ UNCHANGED typeMap

(* Then set; the surface may refuse what another thread has set meanwhile.  *)
SetsCompared(t) ==
    LET s == comparing[t] IN
    /\ s.at = "compared"
    /\ IF Accepts(s.key, s.value) THEN Stores(s.key, s.value) ELSE UNCHANGED <<data, listener>>
    /\ Answers(t, s.key, s.name, s.value, Accepts(s.key, s.value))
    /\ comparing' = [comparing EXCEPT ![t] = NotSetting]
    /\ UNCHANGED typeMap

(* The getters turn the number back into the first name they find.          *)
Tells(t, names) ==
    /\ comparing[t] = NotSetting
    /\ answer' = [to |-> "reader", ok |-> names # {}, names |-> names]
    /\ UNCHANGED <<data, listener, typeMap, comparing, asked, lastType>>

GetColorSpace(t) ==
    LET names == {n \in DOMAIN ColorSpaces : ColorSpaces[n] = data["COLORSPACE"]} IN
    IF names = {} THEN Tells(t, {}) ELSE \E n \in names : Tells(t, {n})

GetMetadataType(t) ==
    LET v     == IF data["HDR_TYPE"] = Empty THEN 0 ELSE data["HDR_TYPE"]
        names == {n \in DocumentedTypes : typeMap[n] = v}
    IN  IF names = {} THEN Tells(t, {}) ELSE \E n \in names : Tells(t, {n})

MetadataNext ==
    \/ \E k \in OtherKeys, v \in {0, 1} : SetUserData(k, v)
    \/ RegisterUserDataChangeListener \/ UnRegisterUserDataChangeListener
    \/ \E t \in Thread :
          \/ \E k \in OtherKeys, v \in {0, 1} : SetMetadata(t, k, v)
          \/ \E n \in DOMAIN ColorSpaces : SetColorSpace(t, n)
          \/ \E n \in DocumentedTypes : SetMetadataType(t, n)
          \/ SetsCompared(t)
          \/ GetColorSpace(t) \/ GetMetadataType(t)

MetadataSpec == MetadataInit /\ [][MetadataNext]_metadataVars

-----------------------------------------------------------------------------
(* Windows and listeners see the surface's data as it is: every key holds   *)
(* what the last Set answered OK asked for, whether it wrote the value or   *)
(* found it, a listener has heard of everything, and the data never         *)
(* outgrows its limit, whatever other threads set in between.               *)
WindowDataAgrees ==
    /\ data = asked
    /\ listener.on => listener.heard = data
    /\ Cardinality({k \in Keys : data[k] # Empty}) <= Limit

(* OH_NativeWindow_GetMetadataValue returns the metadata type that          *)
(* OH_NativeWindow_SetMetadataValue was last given, for every type that     *)
(* OH_NativeBuffer_MetadataType documents.                                  *)
MetadataTypeReadsBack ==
    (answer.to = "reader" /\ answer.ok /\ answer.names \subseteq DocumentedTypes /\ lastType # "none"
        /\ \A t \in Thread : comparing[t] = NotSetting)
      => answer.names = {lastType}
=============================================================================
