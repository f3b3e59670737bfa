----------------------------- MODULE ListLemmas -----------------------------
(***************************************************************************)
(* A duplicate-free sequence under the operations the buffer queue applies *)
(* to its lists: what each returns, and which elements it keeps.           *)
(***************************************************************************)
EXTENDS SequencesExt, SequenceTheorems, FiniteSetTheorems, TLAPS

(* l is a sequence of elements of X that names every one of them once.      *)
Lists(l, X) == l \in Seq(X) /\ IsInjective(l) /\ ToSet(l) = X

(* A non-empty set of naturals has a least element (MinOf and Min choose it). *)
LEMMA LeastExists ==
    ASSUME NEW T \in SUBSET Nat, T # {}
    PROVE  \E x \in T : \A y \in T : x <= y
<1> DEFINE D == {0..x : x \in T}
<1>1. IsWellFoundedOn(StrictSubsetOrdering(Nat), FiniteSubsetsOf(Nat))
    BY FS_StrictSubsetOrderingWellFounded
<1>2. D \subseteq FiniteSubsetsOf(Nat) /\ D # {}
    <2>1. \A x \in T : 0..x \in SUBSET Nat /\ IsFiniteSet(0..x)
        BY FS_Interval
    <2> QED BY <2>1 DEF FiniteSubsetsOf
<1>3. PICK d \in D : \A e \in D : ~ (<<e, d>> \in StrictSubsetOrdering(Nat))
    BY <1>1, <1>2, WFMin
<1>4. PICK x \in T : d = 0..x
    OBVIOUS
<1>5. ASSUME NEW y \in T, y < x PROVE FALSE
    <2>1. <<0..y, 0..x>> \in StrictSubsetOrdering(Nat)
        <3>1. 0..y \subseteq 0..x /\ x \notin 0..y /\ x \in 0..x
            BY <1>5
        <3>2. 0..y \in SUBSET Nat /\ 0..x \in SUBSET Nat
            OBVIOUS
        <3> QED BY <3>1, <3>2 DEF StrictSubsetOrdering
    <2> QED BY <2>1, <1>3, <1>4
<1> QED
    BY <1>5

-----------------------------------------------------------------------------
(* What the operations return, whatever the sequence. *)

(* Cutting the first n elements off a list.                                 *)
LEMMA CutInSeq ==
    ASSUME NEW S, NEW l \in Seq(S), NEW n \in 0..Len(l)
    PROVE  /\ SubSeq(l, n + 1, Len(l)) \in Seq(S)
           /\ Len(SubSeq(l, n + 1, Len(l))) = Len(l) - n
           /\ \A i \in 1..(Len(l) - n) : SubSeq(l, n + 1, Len(l))[i] = l[n + i]
<1> DEFINE m == n + 1
<1>1. m \in Int /\ Len(l) \in Int /\ \A i \in m..Len(l) : l[i] \in S
    BY LenProperties, ElementOfSeq
<1>2. /\ SubSeq(l, m, Len(l)) \in Seq(S)
      /\ Len(SubSeq(l, m, Len(l))) = IF m <= Len(l) THEN Len(l) - m + 1 ELSE 0
      /\ \A i \in 1..(Len(l) - m + 1) : SubSeq(l, m, Len(l))[i] = l[m + i - 1]
    <2> HIDE DEF m
    <2> QED BY <1>1, SubSeqProperties
<1>3. Len(l) - m + 1 = Len(l) - n /\ (m <= Len(l) \/ Len(l) - n = 0)
    BY <1>1
<1>4. \A i \in 1..(Len(l) - n) : m + i - 1 = n + i
    BY <1>1
<1> QED
    BY <1>2, <1>3, <1>4

(* Removing one position of a list.                                         *)
LEMMA RemoveAtInSeq ==
    ASSUME NEW S, NEW l \in Seq(S), NEW i \in 1..Len(l)
    PROVE  /\ RemoveAt(l, i) \in Seq(S)
           /\ Len(RemoveAt(l, i)) = Len(l) - 1
           /\ \A j \in 1..(Len(l) - 1) : RemoveAt(l, i)[j] = IF j < i THEN l[j] ELSE l[j + 1]
<1>1. Len(l) \in Nat /\ \A j \in 1..Len(l) : l[j] \in S
    BY LenProperties, ElementOfSeq
<1> DEFINE a == SubSeq(l, 1, i - 1)
           b == SubSeq(l, i + 1, Len(l))
<1>2. a \in Seq(S) /\ Len(a) = i - 1 /\ \A j \in 1..(i - 1) : a[j] = l[j]
    <2>1. \A j \in 1..(i - 1) : l[j] \in S
        BY <1>1
    <2>2. i - 1 \in Int /\ 1 \in Int /\ (1 <= i - 1 \/ i - 1 = 0) /\ i - 1 - 1 + 1 = i - 1
        OBVIOUS
    <2>3. \A j \in 1..(i - 1) : 1 + j - 1 = j
        OBVIOUS
    <2> QED
        BY <2>1, <2>2, <2>3, SubSeqProperties
<1>3. b \in Seq(S) /\ Len(b) = Len(l) - i /\ \A j \in 1..(Len(l) - i) : b[j] = l[i + j]
    BY <1>1, CutInSeq
<1>4. /\ a \o b \in Seq(S)
      /\ Len(a \o b) = (i - 1) + (Len(l) - i)
      /\ \A j \in 1..((i - 1) + (Len(l) - i)) :
            (a \o b)[j] = IF j <= i - 1 THEN a[j] ELSE b[j - (i - 1)]
    <2> HIDE DEF a, b
    <2>1. /\ a \o b \in Seq(S)
          /\ Len(a \o b) = Len(a) + Len(b)
          /\ \A j \in 1..(Len(a) + Len(b)) :
                (a \o b)[j] = IF j <= Len(a) THEN a[j] ELSE b[j - Len(a)]
        BY <1>2, <1>3, ConcatProperties
    <2> QED BY <2>1, <1>2, <1>3
<1>5. RemoveAt(l, i) = a \o b
    BY DEF RemoveAt
<1>6. (i - 1) + (Len(l) - i) = Len(l) - 1
    BY <1>1
<1>7. ASSUME NEW j \in 1..(Len(l) - 1)
      PROVE  (a \o b)[j] = IF j < i THEN l[j] ELSE l[j + 1]
    <2> HIDE DEF a, b
    <2>1. CASE j < i
        BY <2>1, <1>1, <1>2, <1>4, <1>6
    <2>2. CASE ~ (j < i)
        <3>1. j - (i - 1) \in 1..(Len(l) - i) /\ i + (j - (i - 1)) = j + 1 /\ ~ (j <= i - 1)
            BY <2>2, <1>1
        <3> QED BY <2>2, <3>1, <1>3, <1>4, <1>6
    <2> QED BY <2>1, <2>2
<1> QED
    BY <1>4, <1>5, <1>6, <1>7

(* Removing an element is removing a position that holds it, or nothing.    *)
LEMMA RemoveFirstIsRemoveAt ==
    ASSUME NEW S, NEW l \in Seq(S), NEW e
    PROVE  \/ /\ e \in ToSet(l)
              /\ \E i \in 1..Len(l) : l[i] = e /\ RemoveFirst(l, e) = RemoveAt(l, i)
           \/ e \notin ToSet(l) /\ RemoveFirst(l, e) = l
<1>1. DOMAIN l = 1..Len(l) /\ Len(l) \in Nat
    BY LenProperties
<1> DEFINE I == {i \in 1..Len(l) : l[i] = e}
<1>2. CASE I # {}
    <2>1. Min(I) \in I
        <3>1. I \in SUBSET Nat
            BY <1>1
        <3>2. \E x \in I : \A y \in I : x <= y
            BY <3>1, <1>2, LeastExists
        <3> QED BY <3>2 DEF Min
    <2>2. RemoveFirst(l, e) = RemoveAt(l, Min(I))
        BY <1>2 DEF RemoveFirst, SelectInSeq
    <2> QED BY <1>1, <2>1, <2>2 DEF ToSet
<1>3. CASE I = {}
    BY <1>1, <1>3 DEF RemoveFirst, ToSet
<1> QED BY <1>2, <1>3

-----------------------------------------------------------------------------
(* The same operations on a sequence without duplicates. *)

(* Lists(l, X), spelled out with indices.                                   *)
LEMMA ListsMeans ==
    ASSUME NEW l, NEW X
    PROVE  Lists(l, X) <=> /\ l \in Seq(X)
                           /\ \A i, j \in 1..Len(l) : l[i] = l[j] => i = j
                           /\ \A x \in X : \E i \in 1..Len(l) : l[i] = x
<1>1. CASE l \notin Seq(X)
    BY <1>1 DEF Lists
<1>2. CASE l \in Seq(X)
    <2>1. DOMAIN l = 1..Len(l) /\ \A i \in 1..Len(l) : l[i] \in X
        BY <1>2, LenProperties, ElementOfSeq
    <2> QED
        BY <1>2, <2>1 DEF Lists, ToSet, IsInjective
<1> QED BY <1>1, <1>2

(* Appending a new element.                                                 *)
LEMMA ListsAppend ==
    ASSUME NEW X, NEW l, Lists(l, X), NEW e, e \notin X
    PROVE  Lists(Append(l, e), X \union {e})
<1> DEFINE Y == X \union {e}
           a == Append(l, e)
<1>1. l \in Seq(X) /\ l \in Seq(Y) /\ e \in Y /\ Len(l) \in Nat
    BY SeqMonotonic, LenProperties DEF Lists
<1>2. /\ a \in Seq(Y) /\ Len(a) = Len(l) + 1
      /\ \A i \in 1..Len(l) : a[i] = l[i]
      /\ a[Len(l) + 1] = e
    BY <1>1, AppendProperties
<1>3. \A i \in 1..Len(l) : a[i] \in X /\ a[i] # e
    BY <1>1, <1>2, ElementOfSeq
<1>4. \A i, j \in 1..Len(l) : l[i] = l[j] => i = j
    BY ListsMeans
<1>5. \A i, j \in 1..Len(a) : a[i] = a[j] => i = j
    <2> HIDE DEF a
    <2>1. \A i \in 1..Len(a) : i \in 1..Len(l) \/ i = Len(l) + 1
        BY <1>1, <1>2
    <2> QED BY <2>1, <1>2, <1>3, <1>4
<1>6. \A x \in Y : \E i \in 1..Len(a) : a[i] = x
    <2> HIDE DEF a
    <2>1. \A x \in X : \E i \in 1..Len(l) : l[i] = x
        BY ListsMeans
    <2>2. 1..Len(l) \subseteq 1..Len(a) /\ Len(l) + 1 \in 1..Len(a)
        BY <1>1, <1>2
    <2> QED BY <2>1, <2>2, <1>2
<1> HIDE DEF a, Y
<1>7. Lists(a, Y)
    BY <1>2, <1>5, <1>6, ListsMeans
<1> QED BY <1>7 DEF a, Y

(* Removing the element at a position.                                      *)
LEMMA ListsRemoveAt ==
    ASSUME NEW X, NEW l, Lists(l, X), NEW i \in 1..Len(l)
    PROVE  Lists(RemoveAt(l, i), X \ {l[i]})
<1> DEFINE r == RemoveAt(l, i)
           n == Len(l)
<1>1. l \in Seq(X) /\ n \in Nat
    BY LenProperties DEF Lists
<1>2. /\ r \in Seq(X)
      /\ Len(r) = n - 1
      /\ \A j \in 1..(n - 1) : r[j] = IF j < i THEN l[j] ELSE l[j + 1]
    BY <1>1, RemoveAtInSeq
<1>3. \A j, k \in 1..n : l[j] = l[k] => j = k
    BY ListsMeans
<1> HIDE DEF r, n
<1>4. i \in 1..n
    BY DEF n
<1> DEFINE at(j) == IF j < i THEN j ELSE j + 1
<1>5. \A j \in 1..(n - 1) : at(j) \in 1..n /\ at(j) # i /\ r[j] = l[at(j)]
    BY <1>1, <1>2, <1>4
<1>6. \A j \in 1..(n - 1) : r[j] \in X \ {l[i]}
    <2>1. \A k \in 1..n : l[k] \in X
        BY <1>1, ElementOfSeq DEF n
    <2> QED BY <2>1, <1>3, <1>4, <1>5
<1>7. r \in Seq(X \ {l[i]})
    <2>1. r \in [1..(n - 1) -> X]
        BY <1>2, LenProperties
    <2>2. r \in [1..(n - 1) -> X \ {l[i]}]
        BY <2>1, <1>6
    <2>3. n - 1 \in Nat
        BY <1>1, <1>4
    <2> QED BY <2>2, <2>3, SeqDef
<1>8. ASSUME NEW j \in 1..Len(r), NEW k \in 1..Len(r), r[j] = r[k]
      PROVE  j = k
    <2>1. j \in 1..(n - 1) /\ k \in 1..(n - 1)
        BY <1>2
    <2>2. at(j) = at(k)
        <3>1. l[at(j)] = l[at(k)] /\ at(j) \in 1..n /\ at(k) \in 1..n
            BY <2>1, <1>5, <1>8
        <3> HIDE DEF at
        <3> QED BY <3>1, <1>3
    <2> QED BY <2>1, <2>2, <1>1, <1>4
<1>9. ASSUME NEW x \in X \ {l[i]}
      PROVE  \E j \in 1..Len(r) : r[j] = x
    <2>1. PICK k \in 1..n : l[k] = x
        BY ListsMeans DEF n
    <2>2. k # i
        BY <2>1, <1>9
    <2>3. CASE k < i
        <3>1. k \in 1..(n - 1) /\ r[k] = l[k]
            BY <2>3, <1>1, <1>2, <1>4
        <3> QED BY <3>1, <2>1, <1>2
    <2>4. CASE k > i
        <3>1. k - 1 \in 1..(n - 1) /\ ~ (k - 1 < i) /\ (k - 1) + 1 = k
            BY <2>4, <1>1, <1>4
        <3>2. r[k - 1] = l[k]
            BY <3>1, <1>2
        <3> QED BY <3>1, <3>2, <2>1, <1>2
    <2> QED BY <2>2, <2>3, <2>4, <1>4
<1>10. Lists(r, X \ {l[i]})
    BY <1>7, <1>8, <1>9, ListsMeans
<1> QED BY <1>10 DEF r

(* Removing an element by value.                                            *)
LEMMA ListsRemoveFirst ==
    ASSUME NEW X, NEW l, Lists(l, X), NEW e
    PROVE  Lists(RemoveFirst(l, e), X \ {e})
<1>1. l \in Seq(X) /\ ToSet(l) = X
    BY DEF Lists
<1>2. CASE e \notin X
    <2>1. RemoveFirst(l, e) = l /\ X \ {e} = X
        BY <1>1, <1>2, RemoveFirstIsRemoveAt
    <2> QED BY <2>1
<1>3. CASE e \in X
    <2>1. PICK i \in 1..Len(l) : l[i] = e /\ RemoveFirst(l, e) = RemoveAt(l, i)
        BY <1>1, <1>3, RemoveFirstIsRemoveAt
    <2>2. Lists(RemoveAt(l, i), X \ {l[i]})
        BY ListsRemoveAt
    <2> QED BY <2>1, <2>2
<1> QED BY <1>2, <1>3

(* The elements of a prefix.                                                *)
LEMMA PrefixInSeq ==
    ASSUME NEW S, NEW l \in Seq(S), NEW n \in 0..Len(l)
    PROVE  ToSet(SubSeq(l, 1, n)) = {l[i] : i \in 1..n}
<1>1. Len(l) \in Nat /\ n \in Nat /\ \A i \in 1..n : l[i] \in S
    BY LenProperties, ElementOfSeq
<1> DEFINE p == SubSeq(l, 1, n)
<1>2. /\ p \in Seq(S)
      /\ Len(p) = IF 1 <= n THEN n - 1 + 1 ELSE 0
      /\ \A i \in 1..(n - 1 + 1) : p[i] = l[1 + i - 1]
    BY <1>1, SubSeqProperties
<1>3. Len(p) = n /\ \A i \in 1..n : p[i] = l[i]
    BY <1>1, <1>2
<1>4. DOMAIN p = 1..n
    BY <1>2, <1>3, LenProperties
<1> QED
    BY <1>3, <1>4 DEF ToSet

(* Cutting off a prefix.                                                    *)
LEMMA ListsCut ==
    ASSUME NEW X, NEW l, Lists(l, X), NEW n \in 0..Len(l)
    PROVE  Lists(SubSeq(l, n + 1, Len(l)), X \ ToSet(SubSeq(l, 1, n)))
<1> DEFINE c == SubSeq(l, n + 1, Len(l))
           m == Len(l)
           Y == X \ {l[i] : i \in 1..n}
<1>1. l \in Seq(X) /\ m \in Nat /\ n \in Nat /\ n <= m
    BY LenProperties DEF Lists
<1>2. c \in Seq(X) /\ Len(c) = m - n /\ \A i \in 1..(m - n) : c[i] = l[n + i]
    BY <1>1, CutInSeq
<1>3. \A j, k \in 1..m : l[j] = l[k] => j = k
    BY ListsMeans
<1> HIDE DEF c, m
<1>4. \A i \in 1..(m - n) : n + i \in 1..m /\ \A j \in 1..n : j \in 1..m /\ j # n + i
    BY <1>1
<1>5. \A i \in 1..(m - n) : c[i] \in Y
    <2>1. \A k \in 1..m : l[k] \in X
        BY <1>1, ElementOfSeq DEF m
    <2> QED BY <2>1, <1>2, <1>3, <1>4
<1>6. c \in Seq(Y)
    <2>1. c \in [1..(m - n) -> X] /\ m - n \in Nat
        BY <1>1, <1>2, LenProperties
    <2>2. c \in [1..(m - n) -> Y]
        BY <2>1, <1>5
    <2> QED BY <2>1, <2>2, SeqDef
<1>7. ASSUME NEW i \in 1..Len(c), NEW j \in 1..Len(c), c[i] = c[j]
      PROVE  i = j
    <2>1. i \in 1..(m - n) /\ j \in 1..(m - n)
        BY <1>2
    <2>2. n + i = n + j
        BY <2>1, <1>2, <1>3, <1>4, <1>7
    <2> QED BY <2>1, <2>2, <1>1
<1>8. ASSUME NEW x \in Y
      PROVE  \E i \in 1..Len(c) : c[i] = x
    <2>1. PICK k \in 1..m : l[k] = x
        BY ListsMeans DEF m
    <2>2. k \notin 1..n
        BY <2>1
    <2>3. k - n \in 1..(m - n) /\ n + (k - n) = k
        BY <2>2, <1>1
    <2> QED BY <2>1, <2>3, <1>2
<1>9. Lists(c, Y)
    BY <1>6, <1>7, <1>8, ListsMeans
<1>10. ToSet(SubSeq(l, 1, n)) = {l[i] : i \in 1..n}
    BY <1>1, PrefixInSeq DEF m
<1> QED BY <1>9, <1>10 DEF c, m

(* Taking the head.                                                         *)
LEMMA ListsTail ==
    ASSUME NEW X, NEW l, Lists(l, X), l # <<>>
    PROVE  Head(l) \in X /\ Lists(Tail(l), X \ {Head(l)})
<1>1. l \in Seq(X) /\ Head(l) \in X /\ Tail(l) = SubSeq(l, 2, Len(l))
    BY HeadTailProperties, TailIsSubSeq DEF Lists
<1>2. Len(l) \in Nat \ {0} /\ Head(l) = l[1]
    BY <1>1, EmptySeq
<1> DEFINE n == 1
<1>3. Lists(SubSeq(l, n + 1, Len(l)), X \ ToSet(SubSeq(l, 1, n)))
    <2>1. n \in 0..Len(l)
        BY <1>2
    <2> HIDE DEF n
    <2> QED BY <2>1, ListsCut
<1>4. ToSet(SubSeq(l, 1, n)) = {l[i] : i \in 1..n}
    <2>1. n \in 0..Len(l)
        BY <1>2
    <2> HIDE DEF n
    <2> QED BY <1>1, <2>1, PrefixInSeq
<1>5. {l[i] : i \in 1..n} = {Head(l)} /\ n + 1 = 2
    BY <1>2
<1> HIDE DEF n
<1>6. Lists(SubSeq(l, 2, Len(l)), X \ {Head(l)})
    BY <1>3, <1>4, <1>5
<1> QED BY <1>1, <1>6

(* Concatenating two lists with no common element.                          *)
LEMMA ListsConcat ==
    ASSUME NEW X, NEW l, Lists(l, X), NEW Y, NEW k, Lists(k, Y), X \intersect Y = {}
    PROVE  Lists(l \o k, X \union Y)
<1> DEFINE Z == X \union Y
           c == l \o k
           m == Len(l)
           n == Len(k)
<1>1. l \in Seq(X) /\ k \in Seq(Y) /\ l \in Seq(Z) /\ k \in Seq(Z) /\ m \in Nat /\ n \in Nat
    BY SeqMonotonic, LenProperties DEF Lists
<1>2. /\ c \in Seq(Z) /\ Len(c) = m + n
      /\ \A i \in 1..(m + n) : c[i] = IF i <= m THEN l[i] ELSE k[i - m]
    <2> HIDE DEF Z
    <2> QED BY <1>1, ConcatProperties
<1>3. \A i \in 1..m : l[i] \in X
    BY <1>1, ElementOfSeq
<1>4. \A i \in 1..n : k[i] \in Y
    BY <1>1, ElementOfSeq
<1>5. \A i, j \in 1..m : l[i] = l[j] => i = j
    BY ListsMeans
<1>6. \A i, j \in 1..n : k[i] = k[j] => i = j
    BY ListsMeans
<1>7. (\A x \in X : \E i \in 1..m : l[i] = x) /\ (\A y \in Y : \E i \in 1..n : k[i] = y)
    BY ListsMeans
<1> HIDE DEF c, m, n
<1>8. ASSUME NEW i \in 1..Len(c), NEW j \in 1..Len(c), c[i] = c[j]
      PROVE  i = j
    <2>1. \A q \in 1..(m + n) : \/ q \in 1..m /\ c[q] = l[q] /\ c[q] \in X
                                \/ q > m /\ q - m \in 1..n /\ c[q] = k[q - m] /\ c[q] \in Y
        BY <1>1, <1>2, <1>3, <1>4
    <2>2. i \in 1..(m + n) /\ j \in 1..(m + n)
        BY <1>2
    <2>3. CASE i \in 1..m /\ j \in 1..m
        BY <2>1, <2>2, <2>3, <1>1, <1>5, <1>8
    <2>4. CASE i - m \in 1..n /\ j - m \in 1..n /\ c[i] = k[i - m] /\ c[j] = k[j - m]
        <3>1. i - m = j - m
            BY <2>4, <1>6, <1>8
        <3> QED BY <3>1, <2>2, <1>1
    <2> QED BY <2>1, <2>2, <2>3, <2>4, <1>1, <1>8
<1>9. ASSUME NEW z \in Z
      PROVE  \E i \in 1..Len(c) : c[i] = z
    <2>1. CASE z \in X
        <3>1. PICK i \in 1..m : l[i] = z
            BY <2>1, <1>7
        <3>2. i \in 1..(m + n) /\ i <= m
            BY <1>1
        <3> QED BY <3>1, <3>2, <1>2
    <2>2. CASE z \in Y
        <3>1. PICK i \in 1..n : k[i] = z
            BY <2>2, <1>7
        <3>2. m + i \in 1..(m + n) /\ ~ (m + i <= m) /\ (m + i) - m = i
            BY <1>1
        <3> QED BY <3>1, <3>2, <1>2
    <2> QED BY <2>1, <2>2
<1>10. Lists(c, Z)
    BY <1>2, <1>8, <1>9, ListsMeans
<1> QED BY <1>10 DEF c
=============================================================================
