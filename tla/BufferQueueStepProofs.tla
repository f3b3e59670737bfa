------------------------ MODULE BufferQueueStepProofs ------------------------
(***************************************************************************)
(* What a step of the buffer queue may do to a buffer: every step is a     *)
(* step of BufferLifecycle, or changes nothing BufferLifecycle sees.       *)
(***************************************************************************)
EXTENDS BufferQueueProofs

-----------------------------------------------------------------------------
(* How dirtyList_ shrinks. *)

(* Nothing is taken out of the list.                                        *)
LEMMA NoFrameGone ==
    ASSUME QueueTypes, QueueOK, UNCHANGED dirtyList,
           NEW S, S \intersect In("FLUSHED") = {}
    PROVE  Lifecycle!FramesWithout(S)
<1> DEFINE f == [i \in DOMAIN dirtyList |-> i]
<1>1. /\ dirtyList \in Seq(Buffers) /\ DOMAIN dirtyList = 1..Len(dirtyList)
      /\ \A i \in DOMAIN dirtyList : dirtyList[i] \in In("FLUSHED")
    BY LenProperties, ElementOfSeq DEF QueueTypes, QueueOK, Lists
<1>2. f \in [DOMAIN dirtyList' -> DOMAIN dirtyList]
    OBVIOUS
<1>3. /\ \A i, j \in DOMAIN dirtyList' : i < j => f[i] < f[j]
      /\ \A i \in DOMAIN dirtyList' : dirtyList'[i] = dirtyList[f[i]]
      /\ \A p \in DOMAIN dirtyList :
            dirtyList[p] \notin S <=> \E i \in DOMAIN dirtyList' : f[i] = p
    BY <1>1
<1> HIDE DEF f
<1> QED BY <1>1, <1>2, <1>3 DEF Lifecycle!FramesWithout

(* The list is cut at its head: what is cut off is forgotten.               *)
LEMMA OldestFramesGone ==
    ASSUME QueueTypes, QueueOK, NEW n \in 0..Len(dirtyList),
           dirtyList' = SubSeq(dirtyList, n + 1, Len(dirtyList)),
           NEW S, S \intersect In("FLUSHED") = ToSet(SubSeq(dirtyList, 1, n))
    PROVE  Lifecycle!FramesWithout(S)
<1> DEFINE m == Len(dirtyList)
           f == [i \in 1..(m - n) |-> n + i]
<1>1. /\ dirtyList \in Seq(Buffers) /\ DOMAIN dirtyList = 1..m /\ m \in Nat /\ n \in Nat /\ n <= m
      /\ \A i \in 1..m : dirtyList[i] \in In("FLUSHED")
      /\ \A i, j \in 1..m : dirtyList[i] = dirtyList[j] => i = j
    BY LenProperties, ElementOfSeq, ListsMeans DEF QueueTypes, QueueOK
<1>2. /\ dirtyList' \in Seq(Buffers) /\ Len(dirtyList') = m - n
      /\ \A i \in 1..(m - n) : dirtyList'[i] = dirtyList[n + i]
    BY <1>1, CutInSeq
<1>3. DOMAIN dirtyList' = 1..(m - n)
    BY <1>2, LenProperties
<1>4. S \intersect In("FLUSHED") = {dirtyList[i] : i \in 1..n}
    BY <1>1, PrefixInSeq
<1> HIDE DEF m
<1>5. f \in [DOMAIN dirtyList' -> DOMAIN dirtyList]
    BY <1>1, <1>3
<1>6. /\ \A i, j \in DOMAIN dirtyList' : i < j => f[i] < f[j]
      /\ \A i \in DOMAIN dirtyList' : dirtyList'[i] = dirtyList[f[i]]
    BY <1>1, <1>2, <1>3
<1>7. ASSUME NEW p \in DOMAIN dirtyList
      PROVE  dirtyList[p] \notin S <=> \E i \in DOMAIN dirtyList' : f[i] = p
    <2>1. p \in 1..m /\ (dirtyList[p] \in S <=> p \in 1..n)
        BY <1>1, <1>4
    <2>2. p \in Nat /\ (p \in 1..n \/ p - n \in 1..(m - n))
        BY <1>1, <2>1
    <2>3. CASE p \in 1..n
        <3>1. \A i \in 1..(m - n) : f[i] # p
            BY <1>1, <2>3
        <3> QED BY <1>3, <2>1, <2>3, <3>1
    <2>4. CASE p \notin 1..n /\ p - n \in 1..(m - n)
        <3>1. f[p - n] = p
            BY <1>1, <2>1, <2>4
        <3> QED BY <1>3, <2>1, <2>4, <3>1
    <2> QED BY <2>2, <2>3, <2>4
<1> HIDE DEF f
<1> QED BY <1>2, <1>5, <1>6, <1>7 DEF Lifecycle!FramesWithout

(* The oldest frame leaves.                                                 *)
LEMMA OldestFrameGone ==
    ASSUME QueueTypes, QueueOK, dirtyList # <<>>, dirtyList' = Tail(dirtyList)
    PROVE  Head(dirtyList) \in In("FLUSHED") /\ Lifecycle!FramesWithout({Head(dirtyList)})
<1> DEFINE n == 1
<1>1. /\ dirtyList \in Seq(Buffers) /\ Tail(dirtyList) = SubSeq(dirtyList, 2, Len(dirtyList))
      /\ Len(dirtyList) \in Nat \ {0} /\ Head(dirtyList) = dirtyList[1]
      /\ Head(dirtyList) \in In("FLUSHED")
    <2>1. dirtyList \in Seq(Buffers) /\ Lists(dirtyList, In("FLUSHED"))
        BY DEF QueueTypes, QueueOK
    <2>2. Head(dirtyList) \in In("FLUSHED")
        BY <2>1, ListsTail
    <2> QED BY <2>1, <2>2, HeadTailProperties, TailIsSubSeq, EmptySeq
<1>2. n \in 0..Len(dirtyList) /\ dirtyList' = SubSeq(dirtyList, n + 1, Len(dirtyList))
    BY <1>1
<1>3. ToSet(SubSeq(dirtyList, 1, n)) = {dirtyList[i] : i \in 1..n}
    BY <1>1, <1>2, PrefixInSeq
<1>4. {Head(dirtyList)} \intersect In("FLUSHED") = ToSet(SubSeq(dirtyList, 1, n))
    <2>1. 1..n = {1}
        OBVIOUS
    <2> HIDE DEF n
    <2> QED BY <1>1, <1>3, <2>1
<1> HIDE DEF n
<1> QED BY <1>1, <1>2, <1>4, OldestFramesGone

(* The list keeps the frames of K, in their order.                          *)
LEMMA PickedFramesStay ==
    ASSUME QueueTypes, QueueOK, NEW K, NEW f \in Picks(dirtyList, K),
           dirtyList' = Pick(dirtyList, f),
           NEW S, \A s \in In("FLUSHED") : s \in S <=> s \notin K
    PROVE  Lifecycle!FramesWithout(S)
<1> DEFINE k == Cardinality({i \in DOMAIN dirtyList : dirtyList[i] \in K})
<1>1. /\ dirtyList \in Seq(Buffers)
      /\ \A i \in DOMAIN dirtyList : dirtyList[i] \in In("FLUSHED")
    BY LenProperties, ElementOfSeq DEF QueueTypes, QueueOK, Lists
<1>2. /\ f \in [1..k -> {i \in DOMAIN dirtyList : dirtyList[i] \in K}]
      /\ \A i, j \in 1..k : i < j => f[i] < f[j]
      /\ \A p \in {i \in DOMAIN dirtyList : dirtyList[i] \in K} : \E i \in 1..k : f[i] = p
    BY DEF Picks
<1> HIDE DEF k
<1>3. DOMAIN dirtyList' = 1..k /\ \A i \in 1..k : dirtyList'[i] = dirtyList[f[i]]
    BY <1>2 DEF Pick
<1>4. dirtyList' \in Seq(Buffers)
    <2>1. Lists(dirtyList', In("FLUSHED") \intersect K)
        BY PickLists DEF QueueOK
    <2>2. dirtyList' \in Seq(In("FLUSHED") \intersect K)
        BY <2>1 DEF Lists
    <2>3. In("FLUSHED") \intersect K \subseteq Buffers
        BY DEF In
    <2> QED BY <2>2, <2>3, SeqMonotonic
<1>5. f \in [DOMAIN dirtyList' -> DOMAIN dirtyList]
    BY <1>2, <1>3
<1>6. ASSUME NEW p \in DOMAIN dirtyList
      PROVE  dirtyList[p] \notin S <=> \E i \in DOMAIN dirtyList' : f[i] = p
    BY <1>1, <1>2, <1>3
<1> QED BY <1>2, <1>3, <1>4, <1>5, <1>6 DEF Lifecycle!FramesWithout

(* The list is emptied.                                                     *)
LEMMA AllFramesGone ==
    ASSUME QueueTypes, QueueOK, dirtyList' = <<>>
    PROVE  Lifecycle!FramesWithout(Buffers)
<1> DEFINE f == [i \in {} |-> i]
<1>1. /\ DOMAIN dirtyList' = {} /\ dirtyList' \in Seq(Buffers)
      /\ \A i \in DOMAIN dirtyList : dirtyList[i] \in Buffers
    BY LenProperties, ElementOfSeq, EmptySeq DEF QueueTypes
<1>2. f \in [DOMAIN dirtyList' -> DOMAIN dirtyList]
    BY <1>1
<1> HIDE DEF f
<1> QED BY <1>1, <1>2 DEF Lifecycle!FramesWithout

-----------------------------------------------------------------------------
(* How the states of the elements map to holders. *)

(* The holders after a step, from the states after it.                      *)
Holders == [s \in Buffers |-> HolderOf(state[s])]

(* The prime goes down to the states.                                       *)
LEMMA HoldersNext == Holders' = [s \in Buffers |-> HolderOf(state'[s])]
BY DEF Holders, HolderOf

(* A buffer that is given another state moves between the hands the states  *)
(* stand for, and no other buffer does.                                     *)
LEMMA MoveMaps ==
    ASSUME QueueTypes, NEW s \in Buffers, NEW st,
           state' = [state EXCEPT ![s] = st],
           NEW from, HolderOf(state[s]) \in from, NEW to, HolderOf(st) = to
    PROVE  Lifecycle!Move(s, from, to)
<1>1. \A u \in Buffers : state'[u] = IF u = s THEN st ELSE state[u]
    BY DEF QueueTypes
<1>2. Holders' = [Holders EXCEPT ![s] = HolderOf(st)]
    <2>1. DOMAIN Holders = Buffers /\ \A u \in Buffers : Holders[u] = HolderOf(state[u])
        BY DEF Holders
    <2>2. \A u \in Buffers : HolderOf(state'[u]) = IF u = s THEN HolderOf(st) ELSE Holders[u]
        BY <1>1, <2>1
    <2> QED BY <2>1, <2>2, HoldersNext
<1>3. Holders[s] \in from
    BY DEF Holders
<1> QED BY <1>2, <1>3 DEF Lifecycle!Move, Holders

(* Buffers that are erased, and one that may take their place.              *)
LEMMA ForgetMaps ==
    ASSUME QueueTypes, NEW S \in SUBSET Buffers, NEW A, Lifecycle!FramesWithout(S),
           A = {} \/ \E s \in Buffers : state[s] = "NONE" /\ A = {s},
           state' = [u \in Buffers |-> IF u \in A THEN "ATTACHED"
                                       ELSE IF u \in S THEN "NONE" ELSE state[u]]
    PROVE  Lifecycle!Next
<1>1. A \in {{}} \union {{s} : s \in {u \in Buffers : Holders[u] = "nobody"}}
    BY DEF HolderOf, Holders
<1>2. HolderOf("ATTACHED") = "producer" /\ HolderOf("NONE") = "nobody"
    BY DEF HolderOf
<1>3. Holders' = [u \in Buffers |-> IF u \in A THEN "producer"
                                    ELSE IF u \in S THEN "nobody" ELSE Holders[u]]
    BY <1>2, HoldersNext DEF Holders
<1>4. Lifecycle!Forget(S)
    BY <1>1, <1>3 DEF Lifecycle!Forget, Holders
<1> QED BY <1>4 DEF Lifecycle!Next

(* The step is one of BufferLifecycle, or a stutter.                        *)
Mapped == [Lifecycle!Next]_(Lifecycle!vars)

(* A step that changes no state and no frame is a stutter.                  *)
LEMMA SameMaps ==
    ASSUME UNCHANGED <<state, dirtyList>>
    PROVE  Mapped
<1>1. UNCHANGED Lifecycle!vars
    BY DEF Lifecycle!vars, HolderOf
<1> QED BY <1>1 DEF Mapped

(* A buffer that is no frame, and becomes none, changes hands.              *)
LEMMA HandOverMaps ==
    ASSUME QueueTypes, NEW s \in Buffers, NEW st,
           state' = [state EXCEPT ![s] = st], UNCHANGED dirtyList,
           \/ state[s] \in {"RELEASED", "NONE"} /\ st \in {"REQUESTED", "ATTACHED"}
           \/ state[s] = "NONE" /\ st = "ACQUIRED"
           \/ state[s] \in {"REQUESTED", "ATTACHED", "ACQUIRED"} /\ st = "RELEASED"
    PROVE  Lifecycle!Next
<1>1. CASE state[s] \in {"RELEASED", "NONE"} /\ st \in {"REQUESTED", "ATTACHED"}
    <2>1. HolderOf(state[s]) \in {"queue", "nobody"} /\ HolderOf(st) = "producer"
        BY <1>1 DEF HolderOf
    <2>2. Lifecycle!Move(s, {"queue", "nobody"}, "producer")
        BY <2>1, MoveMaps
    <2> QED BY <2>2 DEF Lifecycle!Next, Lifecycle!Lend
<1>2. CASE state[s] = "NONE" /\ st = "ACQUIRED"
    <2>1. HolderOf(state[s]) \in {"nobody"} /\ HolderOf(st) = "consumer"
        BY <1>2 DEF HolderOf
    <2>2. Lifecycle!Move(s, {"nobody"}, "consumer")
        BY <2>1, MoveMaps
    <2> QED BY <2>2 DEF Lifecycle!Next, Lifecycle!Take
<1>3. CASE state[s] \in {"REQUESTED", "ATTACHED", "ACQUIRED"} /\ st = "RELEASED"
    <2>1. HolderOf(state[s]) \in {"producer", "consumer"} /\ HolderOf(st) = "queue"
        BY <1>3 DEF HolderOf
    <2>2. Lifecycle!Move(s, {"producer", "consumer"}, "queue")
        BY <2>1, MoveMaps
    <2> QED BY <2>2 DEF Lifecycle!Next, Lifecycle!Return
<1> QED BY <1>1, <1>2, <1>3

(* A buffer its producer owns, or nobody, becomes the newest frame.         *)
LEMMA SubmitMaps ==
    ASSUME QueueTypes, NEW s \in Buffers, state[s] \in {"REQUESTED", "ATTACHED", "NONE"},
           state' = [state EXCEPT ![s] = "FLUSHED"], dirtyList' = Append(dirtyList, s)
    PROVE  Lifecycle!Next
<1>1. HolderOf(state[s]) \in {"producer", "nobody"} /\ HolderOf("FLUSHED") = "frames"
    BY DEF HolderOf
<1>2. Lifecycle!Move(s, {"producer", "nobody"}, "frames")
    BY <1>1, MoveMaps
<1> QED BY <1>2 DEF Lifecycle!Next, Lifecycle!Submit

(* Buffers are erased, and the frames among them with them.                 *)
LEMMA EraseMaps ==
    ASSUME QueueTypes, NEW S \in SUBSET Buffers, Lifecycle!FramesWithout(S),
           state' = [u \in Buffers |-> IF u \in S THEN "NONE" ELSE state[u]]
    PROVE  Lifecycle!Next
<1> DEFINE A == {}
<1>1. state' = [u \in Buffers |-> IF u \in A THEN "ATTACHED"
                                  ELSE IF u \in S THEN "NONE" ELSE state[u]]
    OBVIOUS
<1>2. A = {}
    OBVIOUS
<1> HIDE DEF A
<1> QED BY <1>1, <1>2, ForgetMaps

(* A buffer that is no frame is erased.                                     *)
LEMMA EraseOneMaps ==
    ASSUME QueueTypes, QueueOK, NEW s \in Buffers, state[s] # "FLUSHED", UNCHANGED dirtyList,
           state' = [u \in Buffers |-> IF u \in {s} THEN "NONE" ELSE state[u]]
    PROVE  Lifecycle!Next
<1>1. {s} \intersect In("FLUSHED") = {} /\ {s} \in SUBSET Buffers
    BY DEF In
<1>2. Lifecycle!FramesWithout({s})
    BY <1>1, NoFrameGone
<1> QED BY <1>1, <1>2, EraseMaps

(* The oldest frame goes to the consumer, or back to the producer, or away. *)
LEMMA OldestMaps ==
    ASSUME QueueTypes, QueueOK, dirtyList # <<>>, dirtyList' = Tail(dirtyList),
           NEW st \in {"REQUESTED", "ACQUIRED", "NONE"},
           state' = [state EXCEPT ![Head(dirtyList)] = st]
    PROVE  Lifecycle!Next
<1> DEFINE s == Head(dirtyList)
<1>1. s \in Buffers /\ state[s] = "FLUSHED" /\ Lifecycle!FramesWithout({s})
    BY OldestFrameGone DEF In
<1>2. state' = [state EXCEPT ![s] = st] /\ HolderOf(state[s]) = "frames"
    BY <1>1 DEF HolderOf
<1>3. CASE st = "NONE"
    <2>1. state' = [u \in Buffers |-> IF u \in {s} THEN "NONE" ELSE state[u]]
        BY <1>1, <1>3 DEF QueueTypes
    <2>2. {s} \in SUBSET Buffers
        BY <1>1
    <2> HIDE DEF s
    <2> QED BY <1>1, <2>1, <2>2, EraseMaps
<1>4. CASE st \in {"REQUESTED", "ACQUIRED"}
    <2>1. HolderOf("REQUESTED") = "producer" /\ HolderOf("ACQUIRED") = "consumer"
        BY DEF HolderOf
    <2>2. Lifecycle!Move(s, {"frames"}, HolderOf(st))
        <3> HIDE DEF s
        <3> QED BY <1>1, <1>2, MoveMaps
    <2>3. Lifecycle!Lend(s) \/ Lifecycle!Take(s)
        BY <1>4, <2>1, <2>2 DEF Lifecycle!Lend, Lifecycle!Take
    <2> QED BY <1>1, <2>3 DEF Lifecycle!Next
<1> QED BY <1>3, <1>4

-----------------------------------------------------------------------------
(* The operators the actions are built from. *)

(* DeleteBufferInCache of a buffer that is no frame.                        *)
LEMMA DeleteMaps ==
    ASSUME QueueTypes, QueueOK, NEW s \in Buffers, state[s] # "FLUSHED", DeleteBufferInCache(s)
    PROVE  Mapped
<1>1. /\ state' = [u \in Buffers |-> IF u \in {s} THEN "NONE" ELSE state[u]]
      /\ UNCHANGED dirtyList
    BY DEF DeleteBufferInCache, Delete, Erase
<1> QED BY <1>1, EraseOneMaps DEF Mapped

(* Giving a buffer back.                                                    *)
LEMMA FreeMaps ==
    ASSUME QueueTypes, NEW s \in Buffers, state[s] \in {"REQUESTED", "ATTACHED", "ACQUIRED"},
           SetState(s, "RELEASED"), UNCHANGED dirtyList
    PROVE  Mapped
<1>1. PICK st : st = "RELEASED"
    OBVIOUS
<1>2. state' = [state EXCEPT ![s] = st]
    BY <1>1 DEF SetState
<1> QED BY <1>1, <1>2, HandOverMaps DEF Mapped

(* Handing free buffers over, after one came back or was deleted.           *)
LEMMA LendsMaps ==
    ASSUME QueueTypes, QueueOK, NEW R \in {{}} \union {{u} : u \in Buffers},
           NEW D \in {{}} \union {{u} : u \in Buffers}, NEW G, Lends(R, D, G),
           \A u \in R : state[u] \in {"ACQUIRED", "ATTACHED"},
           \A u \in D : state[u] # "FLUSHED"
    PROVE  Mapped
<1>1. /\ state' = [u \in Buffers |-> IF u \in G THEN "REQUESTED"
                                     ELSE IF u \in D THEN "NONE"
                                     ELSE IF u \in R THEN "RELEASED" ELSE state[u]]
      /\ UNCHANGED dirtyList /\ G \subseteq (FreeSet \union R) \ D
    BY DEF Lends, Lent
<1>2. R \subseteq Buffers /\ D \subseteq Buffers
    OBVIOUS
<1>3. G \subseteq Buffers /\ G \intersect D = {} /\ \A u \in G \ R : state[u] = "RELEASED"
    BY <1>1, <1>2 DEF QueueOK, In
<1>4. /\ \A u \in R : Holders[u] \in {"producer", "consumer"}
      /\ \A u \in D : Holders[u] # "frames"
      /\ \A u \in G \ R : Holders[u] = "queue"
    <2>1. \A u \in Buffers : Holders[u] = HolderOf(state[u])
        BY DEF Holders
    <2>2. \A u \in Buffers : state[u] \in BufferState \union {"NONE"}
        BY DEF QueueTypes
    <2> QED BY <1>2, <1>3, <2>1, <2>2 DEF HolderOf, BufferState
<1>5. Holders' = [u \in Buffers |-> IF u \in G THEN "producer"
                                   ELSE IF u \in D THEN "nobody"
                                   ELSE IF u \in R THEN "queue" ELSE Holders[u]]
    <2>1. /\ HolderOf("REQUESTED") = "producer" /\ HolderOf("NONE") = "nobody"
          /\ HolderOf("RELEASED") = "queue"
        BY DEF HolderOf
    <2>2. \A u \in Buffers : Holders[u] = HolderOf(state[u])
        BY DEF Holders
    <2> QED BY <1>1, <2>1, <2>2, HoldersNext
<1>6. Lifecycle!LendUnasked(R, D, G)
    BY <1>1, <1>3, <1>4, <1>5 DEF Lifecycle!LendUnasked, Holders
<1> QED BY <1>3, <1>6 DEF Mapped, Lifecycle!Next

(* A request served from the free list.                                     *)
LEMMA PopFreeMaps ==
    ASSUME QueueTypes, QueueOK, NEW t, NEW a, PopFromFreeList(t, a)
    PROVE  Mapped
<1> DEFINE s == freeList[PoppedAt(a.cfg)]
<1>1. s \in FreeSet /\ UNCHANGED dirtyList
    BY PopLists DEF PopFromFreeList
<1>2. \/ s \in Buffers /\ state' = [state EXCEPT ![s] = "REQUESTED"]
      \/ s \in Buffers /\ state' = [state EXCEPT ![s] = "NONE"]
    BY GrantQueue DEF PopFromFreeList
<1> HIDE DEF s
<1>3. state[s] = "RELEASED"
    BY <1>1 DEF QueueOK, In
<1>4. CASE state' = [state EXCEPT ![s] = "REQUESTED"]
    <2>1. PICK st : st = "REQUESTED"
        OBVIOUS
    <2>2. state' = [state EXCEPT ![s] = st]
        BY <1>4, <2>1
    <2> QED BY <1>1, <1>2, <1>3, <2>1, <2>2, HandOverMaps DEF Mapped
<1>5. CASE state' = [state EXCEPT ![s] = "NONE"]
    <2>1. state' = [u \in Buffers |-> IF u \in {s} THEN "NONE" ELSE state[u]]
        BY <1>5 DEF QueueTypes
    <2> QED BY <1>1, <1>2, <1>3, <2>1, EraseOneMaps DEF Mapped
<1> QED BY <1>2, <1>4, <1>5

(* A request that takes the oldest frame back.                              *)
LEMMA PopDirtyMaps ==
    ASSUME QueueTypes, QueueOK, NEW t, NEW a, PopFromDirtyList(t, a)
    PROVE  Mapped
<1>1. dirtyList # <<>> /\ dirtyList' = Tail(dirtyList) /\ ReuseBuffer(t, Head(dirtyList), a)
    BY DEF PopFromDirtyList
<1>2. PICK st \in {"REQUESTED", "NONE"} : state' = [state EXCEPT ![Head(dirtyList)] = st]
    BY <1>1, GrantQueue
<1> QED BY <1>1, <1>2, OldestMaps DEF Mapped

(* A request, on each of its branches.                                      *)
LEMMA SelectMaps ==
    ASSUME QueueTypes, QueueOK, NEW t, NEW a, SelectBuffer(t, a) \/ (AfterWait(t) /\ a = arg[t])
    PROVE  Mapped
<1>1. CASE PopFromFreeList(t, a)
    BY <1>1, PopFreeMaps
<1>2. CASE PopFromDirtyList(t, a)
    BY <1>2, PopDirtyMaps
<1>3. CASE UNCHANGED <<elements, lists>>
    BY <1>3, SameMaps DEF elements, lists
<1> QED BY <1>1, <1>2, <1>3 DEF SelectBuffer, AfterWait, NoBuffer

(* The frames a cut takes off dirtyList_.                                   *)
LEMMA CutFrames ==
    ASSUME QueueTypes, QueueOK, NEW n \in Nat, CutLists(n)
    PROVE  Gone(n) \in SUBSET Buffers /\ Lifecycle!FramesWithout(Gone(n))
<1> DEFINE f == ToSet(SubSeq(freeList, 1, FreeCut(n)))
           d == ToSet(SubSeq(dirtyList, 1, DirtyCut(n)))
<1>1. FreeCut(n) \in 0..Len(freeList) /\ DirtyCut(n) \in 0..Len(dirtyList)
    BY CutTypes
<1>2. f \subseteq FreeSet /\ d \subseteq In("FLUSHED")
    <2>1. Lists(freeList, FreeSet) /\ Lists(dirtyList, In("FLUSHED"))
        BY DEF QueueOK
    <2>2. /\ freeList \in Seq(FreeSet) /\ dirtyList \in Seq(In("FLUSHED"))
          /\ Len(freeList) \in Nat /\ Len(dirtyList) \in Nat
        BY <2>1, LenProperties DEF Lists
    <2>3. /\ f = {freeList[i] : i \in 1..FreeCut(n)}
          /\ d = {dirtyList[i] : i \in 1..DirtyCut(n)}
        BY <1>1, <2>2, PrefixInSeq
    <2>4. /\ \A i \in 1..FreeCut(n) : freeList[i] \in FreeSet
          /\ \A i \in 1..DirtyCut(n) : dirtyList[i] \in In("FLUSHED")
        BY <1>1, <2>2, ElementOfSeq
    <2> QED BY <2>3, <2>4
<1>3. Gone(n) = f \union d /\ dirtyList' = SubSeq(dirtyList, DirtyCut(n) + 1, Len(dirtyList))
    BY DEF Gone, CutLists
<1>4. Gone(n) \in SUBSET Buffers /\ Gone(n) \intersect In("FLUSHED") = d
    BY <1>2, <1>3 DEF QueueOK, In
<1> QED BY <1>1, <1>3, <1>4, OldestFramesGone

(* DeleteBuffersLocked.                                                     *)
LEMMA DeleteBuffersMaps ==
    ASSUME QueueTypes, QueueOK, NEW n \in Nat, DeleteBuffers(n)
    PROVE  Mapped
<1>1. Gone(n) \in SUBSET Buffers /\ Lifecycle!FramesWithout(Gone(n))
    BY CutFrames DEF DeleteBuffers
<1>2. state' = [s \in Buffers |-> IF s \in Gone(n) THEN "NONE" ELSE state[s]]
    BY DEF DeleteBuffers
<1> QED BY <1>1, <1>2, EraseMaps DEF Mapped

(* AttachBuffer into a full queue.                                          *)
LEMMA AttachReplacingMaps ==
    ASSUME QueueTypes, QueueOK, NEW n \in Nat, NEW s \in Buffers, state[s] = "NONE",
           NEW c, AttachReplacing(n, s, c)
    PROVE  Mapped
<1>1. Gone(n) \in SUBSET Buffers /\ Lifecycle!FramesWithout(Gone(n))
    BY CutFrames DEF AttachReplacing
<1>2. PICK A : A = {s}
    OBVIOUS
<1>3. state' = [u \in Buffers |-> IF u \in A THEN "ATTACHED"
                                  ELSE IF u \in Gone(n) THEN "NONE" ELSE state[u]]
    BY <1>2 DEF AttachReplacing
<1> QED BY <1>1, <1>2, <1>3, ForgetMaps DEF Mapped

(* ClearLocked.                                                             *)
LEMMA ClearMaps ==
    ASSUME QueueTypes, QueueOK, Clear
    PROVE  Mapped
<1>1. state' = [s \in Buffers |-> IF s \in Buffers THEN "NONE" ELSE state[s]]
    BY DEF Clear, Erase
<1>2. Lifecycle!FramesWithout(Buffers)
    BY AllFramesGone DEF Clear
<1> QED BY <1>1, <1>2, EraseMaps DEF Mapped

(* CleanReleasedBuffersLocked touches no frame.                             *)
LEMMA CleanReleasedMaps ==
    ASSUME QueueTypes, QueueOK, CleanReleased
    PROVE  Mapped
<1>1. PICK S : S = FreeSet \ {lastFlushed, locked}
    OBVIOUS
<1>2. state' = [s \in Buffers |-> IF s \in S THEN "NONE" ELSE state[s]] /\ UNCHANGED dirtyList
    BY <1>1 DEF CleanReleased, Erase, FreeSet
<1>3. S \in SUBSET Buffers /\ S \intersect In("FLUSHED") = {}
    BY <1>1 DEF QueueOK, In
<1> QED BY <1>2, <1>3, NoFrameGone, EraseMaps DEF Mapped

(* CleanProducerBySeqNum takes the named buffers out of both lists.         *)
LEMMA CleanSeqNumMaps ==
    ASSUME QueueTypes, QueueOK, NEW t, NEW S \in SUBSET Buffers, CleanProducerBySeqNum(t, S)
    PROVE  Mapped
<1>1. /\ state' = [s \in Buffers |-> IF s \in S THEN "NONE" ELSE state[s]]
      /\ \E f \in Picks(dirtyList, Buffers \ S) : dirtyList' = Pick(dirtyList, f)
    BY DEF CleanProducerBySeqNum, Erase
<1>2. Lifecycle!FramesWithout(S)
    BY <1>1, PickedFramesStay DEF In
<1> QED BY <1>1, <1>2, EraseMaps DEF Mapped

(* PreAllocBuffers' buffers are new, and free at once.                      *)
LEMMA PreAllocMaps ==
    ASSUME QueueTypes, QueueOK, NEW t \in Thread, PreAllocated(t)
    PROVE  Mapped
<1>1. PICK n \in 0..arg[t].count : \E f \in Increasing(n, Unused) :
          state' = [s \in Buffers |-> IF s \in {f[i] : i \in 1..n} THEN "RELEASED" ELSE state[s]]
    BY DEF PreAllocated
<1>2. PICK f \in Increasing(n, Unused) :
          state' = [s \in Buffers |-> IF s \in {f[i] : i \in 1..n} THEN "RELEASED" ELSE state[s]]
    BY <1>1
<1>3. PICK S : S = {f[i] : i \in 1..n}
    OBVIOUS
<1>4. /\ S \in SUBSET Buffers /\ \A s \in S : state[s] = "NONE"
      /\ state' = [s \in Buffers |-> IF s \in S THEN "RELEASED" ELSE state[s]]
      /\ UNCHANGED dirtyList
    BY <1>2, <1>3 DEF Increasing, Unused, PreAllocated
<1>5. HolderOf("RELEASED") = "queue" /\ HolderOf("NONE") = "nobody"
    BY DEF HolderOf
<1>6. Holders' = [s \in Buffers |-> IF s \in S THEN "queue" ELSE Holders[s]]
    BY <1>4, <1>5, HoldersNext DEF Holders
<1>7. \A s \in S : Holders[s] = "nobody"
    BY <1>4, <1>5 DEF Holders
<1>8. Lifecycle!Adopt(S)
    BY <1>4, <1>6, <1>7 DEF Lifecycle!Adopt, Holders
<1> QED BY <1>4, <1>8 DEF Mapped, Lifecycle!Next

-----------------------------------------------------------------------------
(* One lemma per family of actions. *)

(* RequestBuffer.                                                           *)
LEMMA RequestMaps ==
    ASSUME IInv, NEW t \in Thread, RequestBuffer(t) \/ RequestStep(t)
    PROVE  Mapped
<1>1. QueueTypes /\ QueueOK
    BY IInvParts
<1>2. CASE UNCHANGED <<elements, lists>>
    BY <1>2, SameMaps DEF elements, lists
<1>3. CASE RequestBuffer(t)
    <2>1. PICK a \in RequestArg(t) : SelectBuffer(t, a) \/ UNCHANGED <<elements, lists>>
        BY <1>3 DEF RequestBuffer
    <2> QED BY <1>1, <1>2, <2>1, SelectMaps
<1>4. CASE RequestAfterAlloc(t) \/ RequestWakes(t) \/ RequestTimesOut(t)
    <2>1. SelectBuffer(t, arg[t]) \/ AfterWait(t)
        BY <1>4 DEF RequestAfterAlloc, RequestWakes, RequestTimesOut
    <2> QED BY <1>1, <2>1, SelectMaps
<1>5. CASE RequestSleepsAgain(t)
    BY <1>2, <1>5 DEF RequestSleepsAgain
<1>6. CASE AllocSucceeds(t) \/ AllocFails(t)
    <2>1. CASE \E s \in Unused : Insert(s, "REQUESTED", arg[t].cfg, FALSE)
        <3>1. PICK s \in Unused : Insert(s, "REQUESTED", arg[t].cfg, FALSE)
            BY <2>1
        <3>2. PICK st : st = "REQUESTED"
            OBVIOUS
        <3>3. /\ s \in Buffers /\ state[s] = "NONE" /\ state' = [state EXCEPT ![s] = st]
              /\ UNCHANGED dirtyList
            BY <1>6, <3>1, <3>2 DEF Unused, Insert, AllocSucceeds, AllocFails, lists
        <3> QED BY <1>1, <3>2, <3>3, HandOverMaps DEF Mapped
    <2>2. CASE UNCHANGED elements
        BY <1>2, <1>6, <2>2 DEF AllocSucceeds, AllocFails
    <2> QED BY <1>6, <2>1, <2>2 DEF AllocSucceeds, AllocFails
<1> QED BY <1>3, <1>4, <1>5, <1>6 DEF RequestStep

(* FlushBuffer, CancelBuffer and AttachAndFlushBuffer.                      *)
LEMMA FlushMaps ==
    ASSUME IInv, NEW t \in Thread,
           \/ FlushStep(t)
           \/ \E s \in Buffers : FlushBuffer(t, s) \/ CancelBuffer(t, s) \/ AttachAndFlushBuffer(t, s)
    PROVE  Mapped
<1>1. QueueTypes /\ QueueOK /\ CallTypes
    BY IInvParts
<1>2. CASE UNCHANGED <<elements, lists>>
    BY <1>2, SameMaps DEF elements, lists
<1> DEFINE s == arg[t].buf
<1>3. pc[t] \in {"flushCacheOk", "flushListenerOk", "flushCancel", "flushDelete"}
         => s \in Buffers /\ state[s] \in {"REQUESTED", "ATTACHED", "NONE"}
    BY <1>1, InBufferCall DEF IInv, ChecksStillHold, Owned, BufferCall
<1>4. CASE FlushChecksCache(t) \/ FlushChecksListener(t)
    BY <1>2, <1>4 DEF FlushChecksCache, FlushChecksListener
<1>5. CASE DoFlushBuffer(t)
    <2>1. pc[t] = "flushListenerOk"
        BY <1>5 DEF DoFlushBuffer
    <2>2. CASE Enqueue(s)
        <3>1. state' = [state EXCEPT ![s] = "FLUSHED"] /\ dirtyList' = Append(dirtyList, s)
            BY <2>2 DEF Enqueue, SetState
        <3> QED BY <1>1, <1>3, <2>1, <3>1, SubmitMaps DEF Mapped
    <2>3. CASE DeleteBufferInCache(s)
        BY <1>1, <1>3, <2>1, <2>3, DeleteMaps
    <2> QED BY <1>2, <1>5, <2>2, <2>3 DEF DoFlushBuffer
<1>6. CASE FlushCancels(t)
    BY <1>1, <1>2, <1>3, <1>6, FreeMaps DEF FlushCancels, Free, Owned
<1>7. CASE FlushDeletes(t)
    BY <1>1, <1>3, <1>7, DeleteMaps DEF FlushDeletes
<1>8. ASSUME NEW b \in Buffers, FlushBuffer(t, b) \/ CancelBuffer(t, b) \/ AttachAndFlushBuffer(t, b)
      PROVE  Mapped
    <2>1. CASE FlushBuffer(t, b)
        BY <1>2, <2>1 DEF FlushBuffer
    <2>2. CASE CancelBuffer(t, b)
        BY <1>1, <2>2, FreeMaps DEF CancelBuffer, Free, Owned
    <2>3. CASE AttachAndFlushBuffer(t, b)
        BY <1>1, <2>3, SubmitMaps DEF AttachAndFlushBuffer, Insert, Mapped
    <2> QED BY <1>8, <2>1, <2>2, <2>3
<1> QED BY <1>4, <1>5, <1>6, <1>7, <1>8 DEF FlushStep

(* AcquireBuffer, ReleaseBuffer and the last-flushed lock.                  *)
LEMMA ConsumerMaps ==
    ASSUME IInv, NEW t \in Thread,
           \/ AcquireBuffer(t)
           \/ \E s \in Buffers : ReleaseBuffer(t, s)
           \/ ReleaseDeletes(t)
           \/ ReleaseAsks(t)
           \/ AcquireLastFlushedBuffer(t)
           \/ ReleaseLastFlushedBuffer(t)
    PROVE  Mapped
<1>1. QueueTypes /\ QueueOK /\ CallTypes
    BY IInvParts
<1>2. CASE UNCHANGED <<elements, lists>>
    BY <1>2, SameMaps DEF elements, lists
<1>3. CASE AcquireBuffer(t)
    <2>1. PICK st \in {"REQUESTED", "ACQUIRED", "NONE"} : st = "ACQUIRED"
        OBVIOUS
    <2>2. /\ dirtyList # <<>> /\ dirtyList' = Tail(dirtyList)
          /\ state' = [state EXCEPT ![Head(dirtyList)] = st]
        BY <1>3, <2>1 DEF AcquireBuffer, SetState
    <2> QED BY <1>1, <2>2, OldestMaps DEF Mapped
<1>4. ASSUME NEW s \in Buffers, ReleaseBuffer(t, s)
      PROVE  Mapped
    <2>1. state[s] \in {"ACQUIRED", "ATTACHED"}
        BY <1>1, <1>4, ReleaseCases
    <2>2. CASE SetState(s, "RELEASED") /\ UNCHANGED dirtyList
        BY <1>1, <2>1, <2>2, FreeMaps
    <2>3. CASE DeleteBufferInCache(s)
        BY <1>1, <2>1, <2>3, DeleteMaps
    <2>4. ASSUME NEW R \in {{}, {s}}, NEW D \in {{}, {s}}, \E G : Lends(R, D, G)
          PROVE  Mapped
        BY <1>1, <2>1, <2>4, LendsMaps
    <2> QED BY <1>1, <1>4, <2>2, <2>3, <2>4, ReleaseCases DEF Free, lists
<1>5. CASE ReleaseDeletes(t)
    <2> DEFINE s == arg[t].buf
    <2>1. /\ s \in Buffers /\ state[s] # "FLUSHED"
          /\ DeleteBufferInCache(s) \/ \E G : Lends({}, {s}, G)
        BY <1>5, ReleaseDeletesMeans
    <2>2. ASSUME NEW R \in {{}}, \E G : Lends(R, {s}, G)
          PROVE  Mapped
        BY <1>1, <2>1, <2>2, LendsMaps
    <2> QED BY <1>1, <2>1, <2>2, DeleteMaps
<1>6. CASE ReleaseAsks(t)
    <2>1. ASSUME NEW R \in {{}}, NEW D \in {{}}, \E G : Lends(R, D, G)
          PROVE  Mapped
        BY <1>1, <2>1, LendsMaps
    <2> QED BY <1>6, <2>1, ReleaseAsksMeans
<1>7. CASE AcquireLastFlushedBuffer(t) \/ ReleaseLastFlushedBuffer(t)
    BY <1>2, <1>7 DEF AcquireLastFlushedBuffer, ReleaseLastFlushedBuffer
<1> QED BY <1>3, <1>4, <1>5, <1>6, <1>7

(* AttachBufferToQueue and the detaching calls.                             *)
LEMMA DetachMaps ==
    ASSUME IInv, NEW t \in Thread,
           \/ DetachDeletes(t)
           \/ \E s \in Buffers :
                 \/ \E invoker \in {"Producer", "Consumer"} : AttachBufferToQueue(t, s, invoker)
                 \/ DetachBuffer(t, s)
                 \/ \E isReserveSlot \in BOOLEAN : ConsumerDetach(t, s, isReserveSlot)
    PROVE  Mapped
<1>1. QueueTypes /\ QueueOK /\ CallTypes
    BY IInvParts
<1>2. ASSUME NEW s \in Buffers, NEW invoker \in {"Producer", "Consumer"},
             AttachBufferToQueue(t, s, invoker)
      PROVE  Mapped
    <2>1. PICK st : st = IF invoker = "Producer" THEN "REQUESTED" ELSE "ACQUIRED"
        OBVIOUS
    <2>2. state[s] = "NONE" /\ state' = [state EXCEPT ![s] = st] /\ UNCHANGED dirtyList
        BY <1>2, <2>1 DEF AttachBufferToQueue, Insert, lists
    <2>3. st \in {"REQUESTED", "ACQUIRED"}
        BY <2>1
    <2> QED BY <1>1, <2>2, <2>3, HandOverMaps DEF Mapped
<1>3. ASSUME NEW s \in Buffers, DetachBuffer(t, s)
      PROVE  Mapped
    BY <1>1, <1>3, EraseOneMaps DEF DetachBuffer, Erase, lists, Mapped
<1>4. ASSUME NEW s \in Buffers, NEW isReserveSlot \in BOOLEAN, ConsumerDetach(t, s, isReserveSlot)
      PROVE  Mapped
    <2>1. CASE UNCHANGED <<elements, lists>>
        BY <2>1, SameMaps DEF elements, lists
    <2>2. CASE DeleteBufferInCache(s) /\ state[s] = "ACQUIRED"
        BY <1>1, <2>2, DeleteMaps
    <2> QED BY <1>4, <2>1, <2>2 DEF ConsumerDetach
<1>5. CASE DetachDeletes(t)
    <2>1. arg[t].buf \in Buffers /\ state[arg[t].buf] # "FLUSHED"
        BY <1>1, <1>5, InBufferCall DEF DetachDeletes, IInv, ChecksStillHold, BufferCall
    <2> QED BY <1>1, <1>5, <2>1, DeleteMaps DEF DetachDeletes
<1> QED BY <1>2, <1>3, <1>4, <1>5

(* AttachBuffer.                                                            *)
LEMMA AttachMaps ==
    ASSUME IInv, NEW t \in Thread, AttachStep(t) \/ \E s \in Buffers : AttachBuffer(t, s)
    PROVE  Mapped
<1> DEFINE s == arg[t].buf
<1>1. QueueTypes /\ QueueOK /\ CallTypes /\ SettingTypes
    BY IInvParts DEF IInv, TypeOK
<1>2. CASE UNCHANGED <<elements, lists>>
    BY <1>2, SameMaps DEF elements, lists
<1>3. AttachStep(t) => s \in Buffers
    BY <1>1, InBufferCall
       DEF AttachStep, AttachLooksUp, AttachWakes, AttachSleepsAgain, AttachDeletes, BufferCall
<1>4. ASSUME s \in Buffers, state[s] \in {"RELEASED", "NONE"},
             state' = [state EXCEPT ![s] = "ATTACHED"], UNCHANGED dirtyList
      PROVE  Mapped
    <2>1. PICK st : st = "ATTACHED"
        OBVIOUS
    <2>2. state' = [state EXCEPT ![s] = st] /\ st \in {"REQUESTED", "ATTACHED"}
        BY <1>4, <2>1
    <2> QED BY <1>1, <1>4, <2>2, HandOverMaps DEF Mapped
<1>5. CASE AttachLooksUp(t)
    <2>1. CASE state[s] = "RELEASED" /\ AttachReleased(s)
        BY <1>3, <1>4, <1>5, <2>1 DEF AttachReleased, SetState, AttachStep
    <2>2. CASE /\ state[s] = "NONE" /\ UNCHANGED lists
               /\ \E c \in Configs : Insert(s, "ATTACHED", c, FALSE)
        BY <1>3, <1>4, <1>5, <2>2 DEF Insert, AttachStep, lists
    <2>3. CASE /\ state[s] = "NONE" /\ Used >= queueSize
               /\ \E c \in Configs : AttachReplacing(Excess, s, c)
        <3>1. Excess \in Nat
            BY <1>1, <2>3, UsedIsNat, SizeAssumption DEF Excess, SettingTypes
        <3>2. PICK n \in Nat, c \in Configs : AttachReplacing(n, s, c)
            BY <2>3, <3>1
        <3> QED BY <1>1, <1>3, <1>5, <2>3, <3>2, AttachReplacingMaps DEF AttachStep
    <2> QED BY <1>2, <1>5, <2>1, <2>2, <2>3 DEF AttachLooksUp
<1>6. CASE AttachDeletes(t)
    <2>1. state[s] = "NONE" /\ arg[t].count \in Nat
        BY <1>1, <1>6 DEF AttachDeletes, IInv, ChecksStillHold, CallTypes, ArgType
    <2>2. PICK c \in Configs : AttachReplacing(arg[t].count, s, c)
        BY <1>6 DEF AttachDeletes
    <2> QED BY <1>1, <1>3, <1>6, <2>1, <2>2, AttachReplacingMaps DEF AttachStep
<1>7. CASE AttachWakes(t)
    <2>1. CASE state[s] = "RELEASED" /\ AttachReleased(s)
        BY <1>3, <1>4, <1>7, <2>1 DEF AttachReleased, SetState, AttachStep
    <2> QED BY <1>2, <1>7, <2>1 DEF AttachWakes
<1>8. CASE AttachSleepsAgain(t) \/ \E b \in Buffers : AttachBuffer(t, b)
    BY <1>2, <1>8 DEF AttachSleepsAgain, AttachBuffer
<1> QED BY <1>5, <1>6, <1>7, <1>8 DEF AttachStep

(* SetQueueSize and SetMaxQueueSize.                                        *)
LEMMA ResizeMaps ==
    ASSUME IInv, NEW t \in Thread,
           \/ \E n \in 1..MaxSize : SetQueueSize(t, n) \/ SetMaxQueueSize(t, n)
           \/ ShrinkAfterAlloc(t)
    PROVE  Mapped
<1>1. QueueTypes /\ QueueOK /\ CallTypes /\ SettingTypes
    BY IInvParts DEF IInv, TypeOK
<1>2. CASE UNCHANGED <<elements, lists>>
    BY <1>2, SameMaps DEF elements, lists
<1>3. ASSUME NEW n \in 0..MaxSize, SetQueueSizeTo(t, n)
      PROVE  Mapped
    <2>1. CASE n < queueSize /\ DeleteBuffers(queueSize - n)
        <3>1. queueSize - n \in Nat
            BY <1>1, <2>1, SizeAssumption DEF SettingTypes
        <3>2. PICK m \in Nat : DeleteBuffers(m)
            BY <2>1, <3>1
        <3> QED BY <1>1, <3>2, DeleteBuffersMaps
    <2> QED BY <1>2, <1>3, <2>1 DEF SetQueueSizeTo
<1>4. ASSUME NEW n \in 1..MaxSize, SetQueueSize(t, n) \/ SetMaxQueueSize(t, n)
      PROVE  Mapped
    <2>1. /\ n \in 0..MaxSize
          /\ (IF maxQueueSize # 0 /\ n > maxQueueSize THEN maxQueueSize ELSE n) \in 0..MaxSize
        BY <1>1, SizeAssumption DEF SettingTypes
    <2> QED BY <1>2, <1>3, <1>4, <2>1 DEF SetQueueSize, SetMaxQueueSize
<1>5. CASE ShrinkAfterAlloc(t)
    <2>1. arg[t].count \in Nat
        BY <1>1 DEF CallTypes, ArgType
    <2> QED BY <1>1, <1>5, <2>1, DeleteBuffersMaps DEF ShrinkAfterAlloc
<1> QED BY <1>4, <1>5

(* The cleaning calls.                                                      *)
LEMMA CleanMaps ==
    ASSUME IInv, NEW t \in Thread,
           \/ CleanCache(t) \/ ClearAfterAlloc(t)
           \/ CleanReleasedBuffers(t) \/ CleanReleasedAfterAlloc(t)
           \/ \E S \in SUBSET Buffers : CleanProducerBySeqNum(t, S)
    PROVE  Mapped
<1>1. QueueTypes /\ QueueOK
    BY IInvParts
<1>2. CASE UNCHANGED <<elements, lists>>
    BY <1>2, SameMaps DEF elements, lists
<1>3. CASE Clear \/ CleanReleased
    BY <1>1, <1>3, ClearMaps, CleanReleasedMaps
<1>4. CASE \E S \in SUBSET Buffers : CleanProducerBySeqNum(t, S)
    BY <1>1, <1>4, CleanSeqNumMaps
<1> QED BY <1>2, <1>3, <1>4
        DEF CleanCache, ClearAfterAlloc, CleanReleasedBuffers, CleanReleasedAfterAlloc

-----------------------------------------------------------------------------
(* A new queue holds no buffer, and nobody has one.                         *)
LEMMA InitMaps ==
    ASSUME Init
    PROVE  Lifecycle!Init
<1>1. HolderOf("NONE") = "nobody"
    BY DEF HolderOf
<1>2. Holders = [s \in Buffers |-> "nobody"]
    BY <1>1 DEF Init, Holders
<1> QED BY <1>2 DEF Init, Lifecycle!Init, Holders

(* Every step of the queue is a step of BufferLifecycle, or a stutter.      *)
LEMMA StepMaps ==
    ASSUME IInv, [Next]_vars
    PROVE  Mapped
<1>1. CASE UNCHANGED vars
    BY <1>1, SameMaps DEF vars, elements, lists
<1>2. ASSUME NEW t \in Thread, ProducerCall(t)
      PROVE  Mapped
    <2>1. CASE \E n \in 1..MaxSize, c \in Configs : PreAllocBuffers(t, n, c)
        BY <2>1, SameMaps DEF PreAllocBuffers, elements, lists
    <2> QED BY <1>2, <2>1, RequestMaps, FlushMaps, DetachMaps, AttachMaps DEF ProducerCall
<1>3. ASSUME NEW t \in Thread, ConsumerCall(t)
      PROVE  Mapped
    BY <1>3, ConsumerMaps, DetachMaps DEF ConsumerCall
<1>4. ASSUME NEW t \in Thread, ControlCall(t)
      PROVE  Mapped
    <2>1. CASE \/ SetStatus(t) \/ SetConsumerListener(t)
               \/ SetRequestBufferNoblockMode(t) \/ SetIsPriorityAlloc(t)
        BY <2>1, SameMaps DEF SetStatus, SetConsumerListener, SetRequestBufferNoblockMode,
                              SetIsPriorityAlloc, elements, lists
    <2> QED BY <1>4, <2>1, ConsumerMaps, ResizeMaps, CleanMaps DEF ControlCall
<1>5. ASSUME NEW t \in Thread, Step(t)
      PROVE  Mapped
    <2>1. CASE PreAllocated(t)
        BY <2>1, IInvParts, PreAllocMaps
    <2> QED BY <1>5, <2>1, RequestMaps, FlushMaps, AttachMaps, ConsumerMaps, DetachMaps,
               ResizeMaps, CleanMaps DEF Step, WaiterStep
<1> QED BY <1>1, <1>2, <1>3, <1>4, <1>5 DEF Next

(* The queue implements BufferLifecycle: whatever its threads interleave,   *)
(* a buffer is handed on only by who holds it, and frames reach the         *)
(* consumer in the order they were flushed.                                 *)
THEOREM LifecycleImplemented == SingleOwner => (Spec => ImplementsLifecycle)
<1> SUFFICES ASSUME SingleOwner PROVE Spec => ImplementsLifecycle
    OBVIOUS
<1>1. Init => IInv /\ Lifecycle!Init
    BY IInvInit, InitMaps
<1>2. IInv /\ [Next]_vars => IInv'
    BY IInvStep
<1>3. IInv /\ [Next]_vars => [Lifecycle!Next]_(Lifecycle!vars)
    BY StepMaps DEF Mapped
<1> QED BY <1>1, <1>2, <1>3, PTL DEF Spec, ImplementsLifecycle, Lifecycle!Spec

-----------------------------------------------------------------------------
(* What a step never does to a frame. *)

(* The first frame a buffer becomes comes from its producer, or the buffer  *)
(* enters the queue with it: BufferLifecycle allows nothing else.           *)
LEMMA OnlySubmitsMakeFrames ==
    ASSUME Mapped, NEW s \in Buffers, Holders'[s] = "frames", Holders[s] # "frames"
    PROVE  Holders[s] \in {"producer", "nobody"}
<1>1. CASE UNCHANGED Lifecycle!vars
    <2>1. UNCHANGED Holders
        BY <1>1 DEF Lifecycle!vars, Holders
    <2> QED BY <2>1
<1>2. ASSUME NEW u \in Buffers, NEW from, NEW to, to # "frames", Lifecycle!Move(u, from, to)
      PROVE  FALSE
    <2>1. Holders' = [Holders EXCEPT ![u] = to]
        BY <1>2 DEF Lifecycle!Move, Holders
    <2> QED BY <1>2, <2>1 DEF Holders
<1>3. ASSUME NEW u \in Buffers, Lifecycle!Submit(u)
      PROVE  Holders[s] \in {"producer", "nobody"}
    <2>1. Holders[u] \in {"producer", "nobody"} /\ Holders' = [Holders EXCEPT ![u] = "frames"]
        BY <1>3 DEF Lifecycle!Submit, Lifecycle!Move, Holders
    <2> QED BY <2>1 DEF Holders
<1>4. ASSUME NEW S \in SUBSET Buffers, Lifecycle!Adopt(S) \/ Lifecycle!Forget(S)
      PROVE  FALSE
    <2>1. CASE Lifecycle!Adopt(S)
        <3>1. Holders' = [u \in Buffers |-> IF u \in S THEN "queue" ELSE Holders[u]]
            BY <2>1 DEF Lifecycle!Adopt, Holders
        <3> QED BY <3>1
    <2>2. CASE Lifecycle!Forget(S)
        <3>1. PICK A : Holders' = [u \in Buffers |-> IF u \in A THEN "producer"
                                           ELSE IF u \in S THEN "nobody" ELSE Holders[u]]
            BY <2>2 DEF Lifecycle!Forget, Holders
        <3> QED BY <3>1
    <2> QED BY <1>4, <2>1, <2>2
<1>5. ASSUME NEW R, NEW D, NEW G, Lifecycle!LendUnasked(R, D, G)
      PROVE  FALSE
    <2>1. Holders' = [u \in Buffers |-> IF u \in G THEN "producer"
                                       ELSE IF u \in D THEN "nobody"
                                       ELSE IF u \in R THEN "queue" ELSE Holders[u]]
        BY <1>5 DEF Lifecycle!LendUnasked, Holders
    <2> QED BY <2>1
<1>6. CASE Lifecycle!Next
    BY <1>2, <1>3, <1>4, <1>5, <1>6
       DEF Lifecycle!Next, Lifecycle!Lend, Lifecycle!Take, Lifecycle!Return
<1> QED BY <1>1, <1>6 DEF Mapped

(* FlushBuffer checks the state it flushes from, and what it checked holds  *)
(* when it enqueues: a buffer becomes a frame only out of its producer's    *)
(* hands, or as it enters the queue.  When two calls name one buffer this   *)
(* is false, as a run of the model shows.                                   *)
THEOREM FlushedByOwner == SingleOwner => (Spec => FlushFromOwner)
<1> SUFFICES ASSUME SingleOwner PROVE Spec => FlushFromOwner
    OBVIOUS
<1>1. Init => IInv
    BY IInvInit
<1>2. IInv /\ [Next]_vars => IInv'
    BY IInvStep
<1>3. ASSUME IInv, [Next]_vars, NEW s \in Buffers, state'[s] = "FLUSHED", state[s] # "FLUSHED"
      PROVE  state[s] \in Owned \union {"NONE"}
    <2>1. Mapped
        BY <1>3, StepMaps
    <2>2. state[s] \in BufferState \union {"NONE"}
        BY <1>3 DEF IInv, TypeOK, QueueTypes
    <2>3. Holders'[s] = "frames" /\ Holders[s] # "frames"
        <3>1. Holders'[s] = HolderOf(state'[s]) /\ Holders[s] = HolderOf(state[s])
            BY HoldersNext DEF Holders
        <3>2. HolderOf(state'[s]) = "frames" /\ HolderOf(state[s]) # "frames"
            BY <1>3, <2>2 DEF HolderOf, BufferState
        <3> QED BY <3>1, <3>2
    <2>4. HolderOf(state[s]) \in {"producer", "nobody"}
        BY <2>1, <2>3, OnlySubmitsMakeFrames DEF Holders
    <2> QED BY <2>2, <2>4 DEF HolderOf, BufferState, Owned
<1>4. IInv /\ [Next]_vars
         => [\A s \in Buffers : state'[s] = "FLUSHED" /\ state[s] # "FLUSHED"
                => state[s] \in Owned \union {"NONE"}]_vars
    BY <1>3
<1> QED BY <1>1, <1>2, <1>4, PTL DEF Spec, FlushFromOwner

(* No frame is given to a producer, and no allocation starts.               *)
GrantsNothing ==
    /\ \A s \in Buffers : state[s] = "FLUSHED" => state'[s] # "REQUESTED"
    /\ allocating' => allocating

(* No step but RequestBuffer's gives a frame to a producer or starts an     *)
(* allocation.                                                              *)
LEMMA OnlyRequestsGrant ==
    ASSUME IInv, NEW t \in Thread,
           \/ ProducerCall(t) /\ ~RequestBuffer(t)
           \/ ConsumerCall(t)
           \/ ControlCall(t)
           \/ Step(t) /\ ~RequestStep(t)
           \/ AllocSucceeds(t) \/ AllocFails(t) \/ RequestSleepsAgain(t)
    PROVE  GrantsNothing
<1>1. TypeOK /\ QueueTypes /\ CallTypes /\ QueueOK
    BY IInvParts DEF IInv
<1> USE <1>1 DEF TypeOK, QueueTypes, elements, lists, GrantsNothing
<1>2. CASE UNCHANGED <<elements, allocating>>
    BY <1>2
<1>3. ASSUME NEW s \in Buffers, UNCHANGED allocating,
             DeleteBufferInCache(s) \/ Free(s) \/ SetState(s, "RELEASED") \/ AttachReleased(s)
      PROVE  GrantsNothing
    BY <1>3 DEF DeleteBufferInCache, Delete, Erase, Free, SetState, AttachReleased
<1>4. ASSUME NEW R \in SUBSET Buffers, NEW D, NEW G, Lends(R, D, G), UNCHANGED allocating,
             \A u \in R : state[u] # "FLUSHED"
      PROVE  GrantsNothing
    BY <1>1, <1>4 DEF Lends, Lent, QueueOK, In
<1>5. CASE UNCHANGED allocating /\ (Clear \/ CleanReleased \/ \E n \in Int : DeleteBuffers(n))
    BY <1>5 DEF Clear, CleanReleased, DeleteBuffers, Erase
<1>6. CASE ProducerCall(t) /\ ~RequestBuffer(t)
    <2>1. ASSUME NEW s \in Buffers, AttachBufferToQueue(t, s, "Producer")
          PROVE  GrantsNothing
        BY <2>1 DEF AttachBufferToQueue, Insert
    <2>2. ASSUME NEW s \in Buffers,
                 FlushBuffer(t, s) \/ AttachBuffer(t, s) \/ CancelBuffer(t, s)
          PROVE  GrantsNothing
        BY <1>2, <1>3, <2>2 DEF FlushBuffer, AttachBuffer, CancelBuffer
    <2>3. ASSUME NEW s \in Buffers, AttachAndFlushBuffer(t, s) \/ DetachBuffer(t, s)
          PROVE  GrantsNothing
        BY <2>3 DEF AttachAndFlushBuffer, DetachBuffer, Insert, Erase
    <2>4. CASE \E n \in 1..MaxSize, c \in Configs : PreAllocBuffers(t, n, c)
        BY <1>2, <2>4 DEF PreAllocBuffers
    <2> QED BY <1>6, <2>1, <2>2, <2>3, <2>4 DEF ProducerCall
<1>7. CASE ConsumerCall(t)
    <2>1. ASSUME NEW s \in Buffers, AttachBufferToQueue(t, s, "Consumer")
          PROVE  GrantsNothing
        BY <2>1 DEF AttachBufferToQueue, Insert
    <2>2. CASE AcquireBuffer(t)
        BY <2>2 DEF AcquireBuffer, SetState
    <2>3. ASSUME NEW s \in Buffers, ReleaseBuffer(t, s)
          PROVE  GrantsNothing
        <3>1. CASE Free(s) \/ DeleteBufferInCache(s) \/ SetState(s, "RELEASED")
            BY <1>1, <1>3, <2>3, <3>1, ReleaseCases
        <3>2. ASSUME NEW R \in {{}, {s}}, NEW D \in {{}, {s}}, \E G : Lends(R, D, G)
              PROVE  GrantsNothing
            <4>1. state[s] # "FLUSHED" /\ UNCHANGED allocating
                BY <1>1, <2>3, ReleaseCases
            <4> QED BY <1>1, <1>4, <3>2, <4>1
        <3> QED BY <1>1, <2>3, <3>1, <3>2, ReleaseCases
    <2>4. ASSUME NEW s \in Buffers, NEW f \in BOOLEAN, ConsumerDetach(t, s, f)
          PROVE  GrantsNothing
        BY <1>2, <1>3, <2>4 DEF ConsumerDetach
    <2> QED BY <1>7, <2>1, <2>2, <2>3, <2>4 DEF ConsumerCall
<1>8. CASE ControlCall(t)
    <2>1. ASSUME NEW n \in Int, SetQueueSizeTo(t, n), UNCHANGED allocating
          PROVE  GrantsNothing
        <3>1. queueSize - n \in Int
            BY <2>1, SizeAssumption DEF SettingTypes
        <3> QED BY <1>2, <1>5, <2>1, <3>1 DEF SetQueueSizeTo
    <2>2. ASSUME NEW n \in 1..MaxSize, SetQueueSize(t, n) \/ SetMaxQueueSize(t, n)
          PROVE  GrantsNothing
        <3>1. n \in Int /\ maxQueueSize \in Int
            BY <2>2, SizeAssumption DEF SettingTypes
        <3> QED BY <1>2, <2>1, <2>2, <3>1 DEF SetQueueSize, SetMaxQueueSize
    <2>3. CASE CleanCache(t) \/ CleanReleasedBuffers(t)
        BY <1>2, <1>5, <2>3 DEF CleanCache, CleanReleasedBuffers
    <2>4. CASE \E S \in SUBSET Buffers : CleanProducerBySeqNum(t, S)
        BY <2>4 DEF CleanProducerBySeqNum, Erase
    <2>5. CASE \/ AcquireLastFlushedBuffer(t) \/ ReleaseLastFlushedBuffer(t)
               \/ SetStatus(t) \/ SetConsumerListener(t)
               \/ SetRequestBufferNoblockMode(t) \/ SetIsPriorityAlloc(t)
        BY <1>2, <2>5 DEF AcquireLastFlushedBuffer, ReleaseLastFlushedBuffer, SetStatus,
                          SetConsumerListener, SetRequestBufferNoblockMode, SetIsPriorityAlloc
    <2> QED BY <1>8, <2>2, <2>3, <2>4, <2>5 DEF ControlCall
<1>9. CASE Step(t) /\ ~RequestStep(t)
    <2> DEFINE s == arg[t].buf
    <2>1. ASSUME pc[t] \in BufferCall
          PROVE  s \in Buffers
        BY <2>1, InBufferCall
    <2>2. CASE FlushStep(t)
        <3>1. s \in Buffers
            BY <2>1, <2>2 DEF FlushStep, FlushChecksCache, FlushChecksListener, DoFlushBuffer,
                              FlushCancels, FlushDeletes, BufferCall
        <3>2. CASE DoFlushBuffer(t) /\ Enqueue(s)
            BY <3>1, <3>2 DEF DoFlushBuffer, Enqueue, SetState
        <3> QED BY <1>2, <1>3, <2>2, <3>1, <3>2
                DEF FlushStep, FlushChecksCache, FlushChecksListener, DoFlushBuffer, FlushCancels,
                    FlushDeletes
    <2>3. CASE AttachStep(t)
        <3>1. s \in Buffers
            BY <2>1, <2>3 DEF AttachStep, AttachLooksUp, AttachWakes, AttachSleepsAgain,
                              AttachDeletes, BufferCall
        <3>2. ASSUME NEW n, NEW c, AttachReplacing(n, s, c), UNCHANGED allocating
              PROVE  GrantsNothing
            BY <3>2 DEF AttachReplacing
        <3>3. ASSUME NEW c, Insert(s, "ATTACHED", c, FALSE), UNCHANGED allocating
              PROVE  GrantsNothing
            BY <3>3 DEF Insert
        <3> QED BY <1>2, <1>3, <2>3, <3>1, <3>2, <3>3
                DEF AttachStep, AttachLooksUp, AttachWakes, AttachSleepsAgain, AttachDeletes
    <2>4. CASE ReleaseDeletes(t) \/ ReleaseAsks(t)
        <3>1. CASE ReleaseDeletes(t) /\ DeleteBufferInCache(s)
            <4>1. s \in Buffers /\ UNCHANGED allocating
                BY <3>1, ReleaseDeletesMeans
            <4> QED BY <1>3, <3>1, <4>1
        <3>2. ASSUME NEW R \in {{}}, NEW D, \E G : Lends(R, D, G)
              PROVE  GrantsNothing
            BY <1>4, <2>4, <3>2, ReleaseDeletesMeans, ReleaseAsksMeans
        <3> QED BY <2>4, <3>1, <3>2, ReleaseDeletesMeans, ReleaseAsksMeans
    <2>5. CASE DetachDeletes(t)
        <3>1. s \in Buffers
            BY <2>1, <2>5 DEF DetachDeletes, BufferCall
        <3> QED BY <1>3, <2>5, <3>1 DEF DetachDeletes
    <2>6. CASE ShrinkAfterAlloc(t) \/ ClearAfterAlloc(t) \/ CleanReleasedAfterAlloc(t)
        <3>1. arg[t].count \in Int
            BY DEF CallTypes, ArgType
        <3> QED BY <1>5, <2>6, <3>1 DEF ShrinkAfterAlloc, ClearAfterAlloc, CleanReleasedAfterAlloc
    <2>7. CASE PreAllocated(t)
        BY <2>7 DEF PreAllocated
    <2> QED BY <1>9, <2>2, <2>3, <2>4, <2>5, <2>6, <2>7 DEF Step, WaiterStep
<1>10. CASE AllocSucceeds(t) \/ AllocFails(t) \/ RequestSleepsAgain(t)
    BY <1>10 DEF AllocSucceeds, AllocFails, RequestSleepsAgain, Insert, Unused
<1> QED BY <1>6, <1>7, <1>8, <1>9, <1>10

(* A request that takes a frame back does so as a last resort.              *)
LEMMA SelectOverwrites ==
    ASSUME QueueTypes, QueueOK, NEW t, NEW a, SelectBuffer(t, a) \/ (AfterWait(t) /\ a = arg[t]),
           NEW s \in Buffers, Overwritten(s)
    PROVE  noBlock /\ ~Room /\ ToSet(freeList) \subseteq {locked} /\ s = Head(dirtyList)
<1>1. CASE PopFromFreeList(t, a)
    <2> DEFINE u == freeList[PoppedAt(a.cfg)]
    <2>1. u \in FreeSet
        BY <1>1, PopLists DEF PopFromFreeList
    <2>2. \E st \in {"REQUESTED", "NONE"} : state' = [state EXCEPT ![u] = st]
        BY <1>1, GrantQueue DEF PopFromFreeList
    <2>3. state[u] = "RELEASED"
        BY <2>1 DEF QueueOK, In
    <2> HIDE DEF u
    <2>4. s # u
        BY <2>3 DEF Overwritten
    <2>5. state'[s] = state[s]
        BY <2>2, <2>4 DEF QueueTypes
    <2> QED BY <2>5 DEF Overwritten
<1>2. CASE UNCHANGED elements
    BY <1>2 DEF Overwritten, elements
<1>3. CASE ~Room /\ ~CanPop(a.cfg) /\ noBlock /\ PopFromDirtyList(t, a)
    <2>1. \E st \in {"REQUESTED", "NONE"} : state' = [state EXCEPT ![Head(dirtyList)] = st]
        BY <1>3, GrantQueue DEF PopFromDirtyList
    <2>2. s = Head(dirtyList)
        BY <2>1 DEF Overwritten, QueueTypes
    <2>3. freeList = <<>> \/ freeList = <<locked>>
        BY <1>3 DEF CanPop
    <2>4. ToSet(freeList) \subseteq {locked}
        BY <2>3, EmptySeq DEF ToSet
    <2> QED BY <1>3, <2>2, <2>4
<1> QED BY <1>1, <1>2, <1>3 DEF SelectBuffer, AfterWait, NoBuffer

(* A frame nobody acquired is taken back only in no-block mode, only the    *)
(* oldest one, and only when the queue has no room and no free buffer to    *)
(* give: ReuseBufferForNoBlockMode is RequestBuffer's last resort.          *)
THEOREM OverwritesLast == SingleOwner => (Spec => OverwriteIsLastResort)
<1> SUFFICES ASSUME SingleOwner PROVE Spec => OverwriteIsLastResort
    OBVIOUS
<1> DEFINE Lasts == \A s \in Buffers : Overwritten(s)
                       => noBlock /\ ~Room /\ ToSet(freeList) \subseteq {locked}
                            /\ s = Head(dirtyList)
<1>1. Init => IInv
    BY IInvInit
<1>2. IInv /\ [Next]_vars => IInv'
    BY IInvStep
<1>3. ASSUME IInv, Next
      PROVE  Lasts
    <2>1. QueueTypes /\ QueueOK /\ TypeOK
        BY <1>3, IInvParts DEF IInv
    <2>2. PICK t \in Thread : ProducerCall(t) \/ ConsumerCall(t) \/ ControlCall(t) \/ Step(t)
        BY <1>3 DEF Next
    <2>3. ASSUME NEW a, SelectBuffer(t, a) \/ (AfterWait(t) /\ a = arg[t])
          PROVE  Lasts
        BY <2>1, <2>3, SelectOverwrites
    <2>4. CASE RequestBuffer(t)
        BY <2>3, <2>4 DEF RequestBuffer, Overwritten, elements
    <2>5. CASE RequestAfterAlloc(t) \/ RequestWakes(t) \/ RequestTimesOut(t)
        BY <2>3, <2>5 DEF RequestAfterAlloc, RequestWakes, RequestTimesOut
    <2>6. ASSUME GrantsNothing
          PROVE  Lasts
        BY <2>6 DEF GrantsNothing, Overwritten
    <2> QED BY <1>3, <2>2, <2>4, <2>5, <2>6, OnlyRequestsGrant DEF Step, RequestStep
<1>4. IInv /\ [Next]_vars => [Lasts]_vars
    BY <1>3
<1> QED BY <1>1, <1>2, <1>4, PTL DEF Spec, OverwriteIsLastResort

-----------------------------------------------------------------------------
(* What becomes of frames and of the locked buffer in a queue whose         *)
(* capacity stays, that is not cleaned, and to which nobody attaches        *)
(* buffers by AttachBuffer: the calls that drop buffers wherever they are.  *)

DroppingCalls == {"AttachBuffer", "SetQueueSize", "SetMaxQueueSize", "CleanCache",
                  "CleanProducerBySeqNum"}
DroppingAt    == {"flushDelete", "releaseDelete", "attachChecked", "attachWait", "attachDelete",
                  "shrinkWait", "clearWait"}

(* Without these calls no buffer is marked isDeleting, and no thread is at  *)
(* a point that only these calls or a marked buffer lead to.                *)
NothingDropped == isDeleting = {} /\ \A t \in Thread : pc[t] \notin DroppingAt

FrameStays(s)  == state[s] = "FLUSHED" /\ state'[s] # "FLUSHED"
                     => s = Head(dirtyList) /\ (state'[s] = "ACQUIRED" \/ noBlock)
LockedStays(s) == s = locked /\ state[s] = "RELEASED" => state'[s] = "RELEASED"

Kept == NothingDropped' /\ \A s \in Buffers : FrameStays(s) /\ LockedStays(s)

(* A buffer in other hands changes hands, or none does.                     *)
LEMMA OthersKeep ==
    ASSUME QueueTypes, NEW s \in Buffers, state[s] \notin {"FLUSHED", "RELEASED"},
           NEW st, state' = [state EXCEPT ![s] = st]
    PROVE  \A u \in Buffers : FrameStays(u) /\ LockedStays(u)
BY DEF QueueTypes, FrameStays, LockedStays

(* PopFromFreeListLocked steps over the buffer a client has locked.         *)
LEMMA PopNotLocked ==
    ASSUME QueueTypes, QueueOK, NEW c, CanPop(c)
    PROVE  freeList[PoppedAt(c)] # locked
<1>1. /\ freeList \in Seq(Buffers) /\ DOMAIN freeList = 1..Len(freeList) /\ Len(freeList) \in Nat
      /\ \A i, j \in 1..Len(freeList) : freeList[i] = freeList[j] => i = j
    BY LenProperties, ListsMeans DEF QueueTypes, QueueOK
<1>2. CASE Matching(c) # {}
    <2>1. Matching(c) \in SUBSET Nat
        BY <1>1 DEF Matching
    <2>2. PoppedAt(c) \in Matching(c)
        BY <1>2, <2>1, LeastExists DEF PoppedAt, MinOf
    <2> QED BY <2>2 DEF Matching
<1>3. CASE Matching(c) = {}
    <2>1. freeList # <<>> /\ freeList # <<locked>>
        BY <1>3 DEF CanPop
    <2>2. Head(freeList) = freeList[1] /\ Len(freeList) \in Nat \ {0}
        BY <1>1, <2>1, HeadTailProperties, EmptySeq
    <2>3. CASE Head(freeList) = locked
        <3>1. Len(freeList) # 1
            BY <1>1, <2>1, <2>2, <2>3, SeqEqual
        <3>2. 2 \in 1..Len(freeList) /\ 1 \in 1..Len(freeList)
            BY <2>2, <3>1
        <3>3. PoppedAt(c) = 2
            BY <1>3, <2>3 DEF PoppedAt
        <3> QED BY <1>1, <2>2, <2>3, <3>2, <3>3
    <2>4. CASE Head(freeList) # locked
        BY <1>3, <2>2, <2>4 DEF PoppedAt
    <2> QED BY <2>3, <2>4
<1> QED BY <1>2, <1>3

(* A request gives away a frame in no-block mode only, and the locked       *)
(* buffer never.                                                            *)
LEMMA SelectKeeps ==
    ASSUME QueueTypes, QueueOK, CallTypes, NothingDropped, NEW t \in Thread, NEW a,
           SelectBuffer(t, a) \/ (AfterWait(t) /\ a = arg[t])
    PROVE  Kept
<1>1. ASSUME NEW s, ReuseBuffer(t, s, a)
      PROVE  /\ NothingDropped'
             /\ \E st \in {"REQUESTED", "NONE"} : state' = [state EXCEPT ![s] = st]
    <2>1. NothingDropped'
        BY <1>1 DEF ReuseBuffer, Delete, Erase, StartAlloc, Finish, Park, NothingDropped,
                    DroppingAt, CallTypes
    <2> QED BY <1>1, <2>1, GrantQueue
<1>2. CASE PopFromFreeList(t, a)
    <2> DEFINE i == PoppedAt(a.cfg)
               u == freeList[i]
    <2>1. u \in FreeSet
        BY <1>2, PopLists DEF PopFromFreeList
    <2>2. u # locked
        BY <1>2, PopNotLocked DEF PopFromFreeList
    <2>3. NothingDropped' /\ \E st \in {"REQUESTED", "NONE"} : state' = [state EXCEPT ![u] = st]
        BY <1>1, <1>2 DEF PopFromFreeList
    <2> HIDE DEF u
    <2>4. state[u] = "RELEASED" /\ u \in Buffers
        BY <2>1 DEF QueueOK, In
    <2> QED BY <2>2, <2>3, <2>4 DEF Kept, FrameStays, LockedStays, QueueTypes
<1>3. CASE noBlock /\ PopFromDirtyList(t, a)
    <2> DEFINE u == Head(dirtyList)
    <2>1. NothingDropped' /\ \E st \in {"REQUESTED", "NONE"} : state' = [state EXCEPT ![u] = st]
        BY <1>1, <1>3 DEF PopFromDirtyList
    <2>2. state[u] = "FLUSHED" /\ u \in Buffers
        BY <1>3, ListsTail DEF PopFromDirtyList, QueueOK, In
    <2>3. noBlock
        BY <1>3
    <2> HIDE DEF u
    <2>4. \A s \in Buffers : s # u => state'[s] = state[s]
        BY <2>1 DEF QueueTypes
    <2>5. \A s \in Buffers : state[s] = "FLUSHED" /\ state'[s] # "FLUSHED" => s = u
        BY <2>4
    <2> QED BY <2>1, <2>2, <2>3, <2>4, <2>5 DEF Kept, FrameStays, LockedStays, u
<1>4. CASE /\ UNCHANGED elements
           /\ StartAlloc(t, a) \/ Park(t, "requestBlocked", a) \/ Finish(t)
    BY <1>4 DEF StartAlloc, Park, Finish, elements, Kept, FrameStays, LockedStays, NothingDropped,
                DroppingAt, CallTypes
<1> QED BY <1>2, <1>3, <1>4 DEF SelectBuffer, AfterWait, NoBuffer

(* A thread that makes no dropping call and moves on without one.           *)
LEMMA NothingDroppedStays ==
    ASSUME CallTypes, NothingDropped, isDeleting' \subseteq isDeleting, NEW t \in Thread,
           NEW l, l \notin DroppingAt,
           UNCHANGED pc \/ pc' = [pc EXCEPT ![t] = l]
    PROVE  NothingDropped'
BY DEF NothingDropped, CallTypes

(* Nobody makes a call that the mixes leave out.                            *)
LEMMA NeverEnters ==
    ASSUME NEW S, NeverCalled(S), calls \in Mixes, NEW t \in Thread, NEW c \in S
    PROVE  ~Enters(t, c)
BY DEF NeverCalled, Enters

(* FlushBuffer enqueues a buffer of the producer's, and takes no frame out. *)
LEMMA FlushKeeps ==
    ASSUME IInv, NothingDropped, NEW t \in Thread, FlushStep(t)
    PROVE  Kept
<1> USE DEF TypeOK
<1>1. /\ QueueTypes /\ CallTypes /\ ChecksStillHold
      /\ pc[t] \notin DroppingAt /\ isDeleting = {} /\ arg[t].buf \in Buffers
    BY InBufferCall DEF IInv, NothingDropped, FlushStep, FlushChecksCache, FlushChecksListener,
                        DoFlushBuffer, FlushCancels, FlushDeletes, BufferCall
<1>2. CASE UNCHANGED elements /\ \E l \in {"idle", "flushCacheOk", "flushListenerOk", "flushCancel"} :
                                    pc' = [pc EXCEPT ![t] = l]
    BY <1>1, <1>2, NothingDroppedStays DEF elements, Kept, FrameStays, LockedStays, DroppingAt
<1>3. CASE /\ Free(arg[t].buf) \/ Enqueue(arg[t].buf)
           /\ Finish(t) /\ pc[t] \in {"flushListenerOk", "flushCancel"}
           /\ state[arg[t].buf] # "NONE"
    <2>1. state[arg[t].buf] \notin {"FLUSHED", "RELEASED"}
        BY <1>1, <1>3 DEF ChecksStillHold, Owned
    <2>2. \E st : state' = [state EXCEPT ![arg[t].buf] = st]
        BY <1>3 DEF Free, Enqueue, SetState
    <2>3. PICK st : state' = [state EXCEPT ![arg[t].buf] = st]
        BY <2>2
    <2>4. \A u \in Buffers : FrameStays(u) /\ LockedStays(u)
        BY <1>1, <2>1, <2>3, OthersKeep
    <2>5. NothingDropped'
        BY <1>1, <1>3, NothingDroppedStays DEF Free, Enqueue, SetState, Finish, DroppingAt
    <2> QED BY <2>4, <2>5 DEF Kept
<1> QED BY <1>1, <1>2, <1>3
        DEF FlushStep, FlushChecksCache, FlushChecksListener, DoFlushBuffer, FlushCancels,
            FlushDeletes, Finish, Goto, DroppingAt, Cached, Owned, elements

(* RequestBuffer takes a frame only in no-block mode, the oldest, and never *)
(* the locked buffer.                                                       *)
LEMMA RequestKeeps ==
    ASSUME IInv, NothingDropped, NEW t \in Thread, RequestBuffer(t) \/ RequestStep(t)
    PROVE  Kept
<1>1. QueueTypes /\ CallTypes /\ QueueOK /\ IInv
    BY IInvParts DEF IInv, TypeOK
<1>2. ASSUME NEW a, SelectBuffer(t, a) \/ (AfterWait(t) /\ a = arg[t])
      PROVE  Kept
    BY <1>1, <1>2, SelectKeeps
<1>3. CASE AllocSucceeds(t)
    <2>1. NothingDropped'
        BY <1>1, <1>3, NothingDroppedStays DEF AllocSucceeds, Insert, elements, Finish, DroppingAt
    <2>2. ASSUME NEW s \in Unused, Insert(s, "REQUESTED", arg[t].cfg, FALSE)
          PROVE  \A u \in Buffers : FrameStays(u) /\ LockedStays(u)
        BY <1>1, <2>2, OthersKeep DEF Insert, Unused
    <2> QED BY <1>3, <2>1, <2>2 DEF AllocSucceeds, elements, Kept, FrameStays, LockedStays
<1>4. CASE UNCHANGED elements /\ (UNCHANGED pc \/ Finish(t) \/ \E a : Park(t, "requestWaitAlloc", a))
    BY <1>1, <1>4, NothingDroppedStays
       DEF elements, Finish, Park, Kept, FrameStays, LockedStays, DroppingAt
<1>5. CASE RequestBuffer(t)
    BY <1>2, <1>4, <1>5 DEF RequestBuffer
<1>6. CASE RequestStep(t)
    BY <1>2, <1>3, <1>4, <1>6
       DEF RequestStep, RequestAfterAlloc, RequestWakes, RequestSleepsAgain, RequestTimesOut,
           AllocFails, threads
<1> QED BY <1>5, <1>6

(* Calls that hand one buffer over without letting go of the lock.          *)
LEMMA ProducerCallKeeps ==
    ASSUME IInv, NothingDropped, NeverCalled(DroppingCalls), NEW t \in Thread,
           ProducerCall(t), ~RequestBuffer(t)
    PROVE  Kept
<1>1. QueueTypes /\ CallTypes /\ isDeleting = {}
    BY DEF IInv, TypeOK, NothingDropped
<1>2. \A s \in Buffers : ~AttachBuffer(t, s)
    BY NeverEnters DEF IInv, TypeOK, SettingTypes, AttachBuffer, DroppingCalls
<1>3. ASSUME NEW s \in Buffers, state[s] \notin {"FLUSHED", "RELEASED"},
             UNCHANGED pc, isDeleting' \subseteq isDeleting,
             NEW st, state' = [state EXCEPT ![s] = st]
      PROVE  Kept
    <2>1. \A u \in Buffers : FrameStays(u) /\ LockedStays(u)
        BY <1>1, <1>3, OthersKeep
    <2>2. NothingDropped'
        BY <1>1, <1>3 DEF NothingDropped
    <2> QED BY <2>1, <2>2 DEF Kept
<1>4. ASSUME NEW s \in Buffers,
             CancelBuffer(t, s) \/ AttachAndFlushBuffer(t, s) \/ AttachBufferToQueue(t, s, "Producer")
      PROVE  Kept
    BY <1>3, <1>4 DEF CancelBuffer, Free, SetState, AttachAndFlushBuffer, AttachBufferToQueue, Insert,
                      threads, Owned
<1>5. ASSUME NEW s \in Buffers, DetachBuffer(t, s)
      PROVE  Kept
    <2>1. state' = [state EXCEPT ![s] = "NONE"]
        BY <1>1, <1>5 DEF DetachBuffer, Erase, QueueTypes
    <2> QED BY <1>3, <1>5, <2>1 DEF DetachBuffer, Erase, threads
<1>6. ASSUME NEW s \in Buffers, FlushBuffer(t, s)
      PROVE  Kept
    BY <1>1, <1>6, NothingDroppedStays
       DEF FlushBuffer, Park, elements, Kept, FrameStays, LockedStays, DroppingAt
<1>7. ASSUME NEW n, NEW c, PreAllocBuffers(t, n, c)
      PROVE  Kept
    BY <1>1, <1>7, NothingDroppedStays
       DEF PreAllocBuffers, Park, elements, Kept, FrameStays, LockedStays, DroppingAt
<1> QED BY <1>2, <1>4, <1>5, <1>6, <1>7 DEF ProducerCall

(* Handing free buffers over takes neither a frame nor the locked buffer.   *)
LEMMA LendsKeeps ==
    ASSUME QueueTypes, QueueOK, CallTypes, NothingDropped, NEW t \in Thread,
           NEW R \in SUBSET Buffers, \A u \in R : state[u] \notin {"RELEASED", "FLUSHED"},
           NEW D, D = {}, NEW G, Lends(R, D, G),
           NEW l, l \notin DroppingAt, UNCHANGED pc \/ pc' = [pc EXCEPT ![t] = l]
    PROVE  Kept
<1>1. /\ \A u \in Buffers : state'[u] = IF u \in G THEN "REQUESTED"
                                       ELSE IF u \in R THEN "RELEASED" ELSE state[u]
      /\ locked \notin G /\ G \subseteq FreeSet \union R /\ isDeleting' \subseteq isDeleting
    BY DEF Lends, Lent
<1>2. \A u \in G : u \in Buffers /\ state[u] # "FLUSHED"
    BY <1>1 DEF QueueOK, In
<1>3. NothingDropped'
    BY <1>1, NothingDroppedStays
<1> QED BY <1>1, <1>2, <1>3 DEF Kept, FrameStays, LockedStays

(* The consumer takes the oldest frame; the other buffers it names are its  *)
(* own, and those it hands over unasked are free.                           *)
LEMMA ConsumerKeeps ==
    ASSUME IInv, NothingDropped, NEW t \in Thread,
           ConsumerCall(t) \/ DetachDeletes(t) \/ ReleaseAsks(t)
    PROVE  Kept
<1>1. QueueTypes /\ CallTypes /\ QueueOK /\ ChecksStillHold /\ isDeleting = {}
    BY IInvParts DEF IInv, TypeOK, NothingDropped
<1>2. CASE AcquireBuffer(t)
    <2> DEFINE u == Head(dirtyList)
    <2>1. u \in Buffers /\ state[u] = "FLUSHED"
        <3>1. dirtyList # <<>> /\ Lists(dirtyList, In("FLUSHED"))
            BY <1>1, <1>2 DEF AcquireBuffer, QueueOK
        <3>2. u \in In("FLUSHED")
            BY <3>1, ListsTail
        <3> QED BY <3>2 DEF In
    <2>2. state' = [state EXCEPT ![u] = "ACQUIRED"] /\ UNCHANGED <<pc, isDeleting>>
        BY <1>2 DEF AcquireBuffer, SetState, threads
    <2>3. NothingDropped'
        BY <1>1, <2>2, NothingDroppedStays DEF DroppingAt
    <2> HIDE DEF u
    <2>4. \A s \in Buffers : state'[s] = IF s = u THEN "ACQUIRED" ELSE state[s]
        BY <1>1, <2>2 DEF QueueTypes
    <2> QED BY <2>1, <2>3, <2>4 DEF Kept, FrameStays, LockedStays, u
<1>3. ASSUME NEW s \in Buffers, state[s] \in {"ACQUIRED", "ATTACHED", "NONE"},
             isDeleting' \subseteq isDeleting,
             UNCHANGED pc \/ \E l \in {"idle", "detachDelete"} : pc' = [pc EXCEPT ![t] = l],
             NEW st, state' = [state EXCEPT ![s] = st]
      PROVE  Kept
    BY <1>1, <1>3, OthersKeep, NothingDroppedStays DEF Kept, DroppingAt
<1>4. ASSUME NEW s \in Buffers, AttachBufferToQueue(t, s, "Consumer")
      PROVE  Kept
    BY <1>1, <1>3, <1>4 DEF AttachBufferToQueue, Insert, threads
<1>5. ASSUME NEW s \in Buffers, ReleaseBuffer(t, s)
      PROVE  Kept
    <2>1. state[s] \in {"ACQUIRED", "ATTACHED"} /\ s \notin isDeleting
        BY <1>1, <1>5, ReleaseCases
    <2>2. ASSUME Free(s), NEW l \in {"idle", "releaseAsks"},
                 UNCHANGED pc \/ pc' = [pc EXCEPT ![t] = l]
          PROVE  Kept
        <3>1. isDeleting' \subseteq isDeleting /\ l \notin DroppingAt
            BY <2>2 DEF Free, SetState, DroppingAt
        <3>2. NothingDropped'
            BY <1>1, <2>2, <3>1, NothingDroppedStays
        <3> QED BY <1>1, <2>1, <2>2, <3>2, OthersKeep DEF Free, SetState, Kept
    <2>3. ASSUME NEW R \in {{s}}, NEW D \in {{}}, \E G : Lends(R, D, G), UNCHANGED pc
          PROVE  Kept
        <3>1. "idle" \notin DroppingAt
            BY DEF DroppingAt
        <3> QED BY <1>1, <2>1, <2>3, <3>1, LendsKeeps
    <2> QED BY <1>1, <1>5, <2>1, <2>2, <2>3, ReleaseCases DEF Park, threads
<1>6. CASE ReleaseAsks(t)
    <2>1. ASSUME NEW R \in {{}}, NEW D \in {{}}, \E G : Lends(R, D, G), NEW l \in {"idle"},
                 pc' = [pc EXCEPT ![t] = l]
          PROVE  Kept
        BY <1>1, <2>1, LendsKeeps DEF DroppingAt
    <2> QED BY <1>6, <2>1, ReleaseAsksMeans DEF Finish
<1>7. ASSUME NEW s \in Buffers, DeleteBufferInCache(s)
      PROVE  state' = [state EXCEPT ![s] = "NONE"] /\ isDeleting' \subseteq isDeleting
    BY <1>1, <1>7 DEF DeleteBufferInCache, Delete, Erase, QueueTypes
<1>8. ASSUME NEW s \in Buffers, NEW f, ConsumerDetach(t, s, f)
      PROVE  Kept
    <2>1. CASE allocating
        BY <1>1, <1>8, <2>1, NothingDroppedStays
           DEF ConsumerDetach, Park, elements, Kept, FrameStays, LockedStays, DroppingAt
    <2>2. CASE ~allocating
        BY <1>3, <1>7, <1>8, <2>2 DEF ConsumerDetach, threads
    <2> QED BY <2>1, <2>2
<1>9. CASE DetachDeletes(t)
    <2>1. arg[t].buf \in Buffers /\ state[arg[t].buf] \in {"ACQUIRED", "NONE"}
        BY <1>1, <1>9, InBufferCall DEF DetachDeletes, BufferCall, ChecksStillHold
    <2> QED BY <1>3, <1>7, <1>9, <2>1 DEF DetachDeletes, Finish
<1> QED BY <1>2, <1>4, <1>5, <1>6, <1>8, <1>9 DEF ConsumerCall

(* CleanReleasedBuffers frees released buffers only, and PreAllocBuffers    *)
(* adds some.                                                               *)
LEMMA OtherStepKeeps ==
    ASSUME IInv, NothingDropped, NEW t \in Thread,
           CleanReleasedBuffers(t) \/ CleanReleasedAfterAlloc(t) \/ PreAllocated(t)
    PROVE  Kept
<1>1. QueueTypes /\ CallTypes /\ QueueOK
    BY IInvParts DEF IInv, TypeOK
<1>2. CASE CleanReleased /\ (UNCHANGED pc \/ Finish(t))
    <2>1. NothingDropped'
        BY <1>1, <1>2, NothingDroppedStays DEF CleanReleased, Erase, Finish, DroppingAt
    <2>2. \A s \in ToSet(freeList) : state[s] = "RELEASED"
        BY DEF IInv, ListsMatchStates
    <2> QED BY <1>2, <2>1, <2>2 DEF CleanReleased, Erase, Kept, FrameStays, LockedStays
<1>3. CASE PreAllocated(t)
    <2>1. NothingDropped'
        BY <1>1, <1>3, NothingDroppedStays DEF PreAllocated, Finish, DroppingAt
    <2>2. \A s \in Buffers : state'[s] = state[s] \/ (state[s] = "NONE" /\ state'[s] = "RELEASED")
        BY <1>3 DEF PreAllocated, Increasing, Unused
    <2> QED BY <2>1, <2>2 DEF Kept, FrameStays, LockedStays
<1>4. CASE CleanReleasedBuffers(t) /\ allocating
    BY <1>1, <1>4, NothingDroppedStays
       DEF CleanReleasedBuffers, Park, elements, Kept, FrameStays, LockedStays, DroppingAt
<1> QED BY <1>2, <1>3, <1>4 DEF CleanReleasedBuffers, CleanReleasedAfterAlloc, threads

(* The control calls that are left drop nothing but free buffers.           *)
LEMMA ControlKeeps ==
    ASSUME IInv, NothingDropped, NeverCalled(DroppingCalls), NEW t \in Thread, ControlCall(t)
    PROVE  Kept
<1>1. CallTypes
    BY DEF IInv, TypeOK
<1>2. \A c \in DroppingCalls : ~Enters(t, c)
    BY NeverEnters DEF IInv, TypeOK, SettingTypes
<1>3. /\ \A n : ~SetQueueSize(t, n) /\ ~SetMaxQueueSize(t, n)
      /\ \A S : ~CleanProducerBySeqNum(t, S)
      /\ ~CleanCache(t)
    BY <1>2 DEF SetQueueSize, SetMaxQueueSize, CleanProducerBySeqNum, CleanCache, DroppingCalls
<1>4. CASE UNCHANGED elements /\ UNCHANGED pc
    BY <1>1, <1>4, NothingDroppedStays DEF elements, Kept, FrameStays, LockedStays, DroppingAt
<1>5. CASE CleanReleasedBuffers(t)
    BY <1>5, OtherStepKeeps
<1>6. CASE \/ AcquireLastFlushedBuffer(t) \/ ReleaseLastFlushedBuffer(t)
           \/ SetStatus(t) \/ SetConsumerListener(t)
           \/ SetRequestBufferNoblockMode(t) \/ SetIsPriorityAlloc(t)
    BY <1>4, <1>6 DEF AcquireLastFlushedBuffer, ReleaseLastFlushedBuffer, SetStatus,
                      SetConsumerListener, SetRequestBufferNoblockMode, SetIsPriorityAlloc, threads
<1> QED BY <1>3, <1>5, <1>6 DEF ControlCall

(* So does every step of such a queue.                                      *)
LEMMA StepKeeps ==
    ASSUME IInv, NothingDropped, NeverCalled(DroppingCalls), Next
    PROVE  Kept
<1>1. PICK t \in Thread : ProducerCall(t) \/ ConsumerCall(t) \/ ControlCall(t) \/ Step(t)
    BY DEF Next
<1>2. CASE RequestBuffer(t) \/ RequestStep(t)
    BY <1>2, RequestKeeps
<1>3. CASE ProducerCall(t) /\ ~RequestBuffer(t)
    BY <1>3, ProducerCallKeeps
<1>4. CASE ConsumerCall(t) \/ DetachDeletes(t) \/ ReleaseAsks(t)
    BY <1>4, ConsumerKeeps
<1>5. CASE ControlCall(t)
    BY <1>5, ControlKeeps
<1>6. CASE FlushStep(t)
    BY <1>6, FlushKeeps
<1>7. ~AttachStep(t)
    BY DEF NothingDropped, AttachStep, AttachLooksUp, AttachWakes, AttachSleepsAgain, AttachDeletes,
           DroppingAt
<1>8. CASE WaiterStep(t) /\ ~DetachDeletes(t) /\ ~ReleaseAsks(t)
    BY <1>8, OtherStepKeeps DEF NothingDropped, WaiterStep, ReleaseDeletes, ShrinkAfterAlloc,
                                ClearAfterAlloc, DroppingAt
<1> QED BY <1>1, <1>2, <1>3, <1>4, <1>5, <1>6, <1>7, <1>8 DEF Step

(* Nothing is dropped at the start.                                         *)
LEMMA NothingDroppedInit == Init => NothingDropped
BY DEF Init, NothingDropped, DroppingAt

(* A flushed frame is acquired, in its turn, unless the queue runs in       *)
(* no-block mode: AcquireBuffer alone takes from dirtyList_ when nobody     *)
(* resizes or cleans the queue and AttachBuffer replaces nothing.           *)
THEOREM FramesAcquired ==
    SingleOwner /\ NeverCalled(DroppingCalls) => (Spec => FramesReachConsumer)
<1> SUFFICES ASSUME SingleOwner, NeverCalled(DroppingCalls) PROVE Spec => FramesReachConsumer
    OBVIOUS
<1>1. Init => IInv /\ NothingDropped
    BY IInvInit, NothingDroppedInit
<1>2. IInv /\ NothingDropped /\ [Next]_vars => (IInv /\ NothingDropped)'
    BY IInvStep, StepKeeps DEF Kept, NothingDropped, vars, elements, threads
<1>3. IInv /\ NothingDropped /\ [Next]_vars
         => [\A s \in Buffers : state[s] = "FLUSHED" /\ state'[s] # "FLUSHED"
                => s = Head(dirtyList) /\ (state'[s] = "ACQUIRED" \/ noBlock)]_vars
    BY StepKeeps DEF Kept, FrameStays
<1> QED BY <1>1, <1>2, <1>3, PTL DEF Spec, FramesReachConsumer

(* A released buffer that a client reads through AcquireLastFlushedBuffer   *)
(* is neither granted, nor reallocated, nor freed by CleanReleasedBuffers.  *)
THEOREM LockedStaysPut ==
    SingleOwner /\ NeverCalled(DroppingCalls) => (Spec => LockedBufferStays)
<1> SUFFICES ASSUME SingleOwner, NeverCalled(DroppingCalls) PROVE Spec => LockedBufferStays
    OBVIOUS
<1>1. Init => IInv /\ NothingDropped
    BY IInvInit, NothingDroppedInit
<1>2. IInv /\ NothingDropped /\ [Next]_vars => (IInv /\ NothingDropped)'
    BY IInvStep, StepKeeps DEF Kept, NothingDropped, vars, elements, threads
<1>3. IInv /\ NothingDropped /\ [Next]_vars
         => [locked # NULL /\ locked' = locked /\ state[locked] = "RELEASED"
                => state'[locked] = "RELEASED"]_vars
    <2> SUFFICES ASSUME IInv, NothingDropped, Next, locked # NULL, state[locked] = "RELEASED"
                 PROVE  state'[locked] = "RELEASED"
        OBVIOUS
    <2>1. locked \in Buffers
        BY DEF IInv, TypeOK, SettingTypes
    <2> QED BY <2>1, StepKeeps DEF Kept, LockedStays
<1> QED BY <1>1, <1>2, <1>3, PTL DEF Spec, LockedBufferStays
=============================================================================
