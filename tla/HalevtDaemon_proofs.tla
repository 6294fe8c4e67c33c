------------------------ MODULE HalevtDaemon_proofs ------------------------
(***************************************************************************)
(* Theorems about HalevtDaemon, for every set of devices, keys and values, *)
(* every configuration and every number of changes HAL makes.              *)
(***************************************************************************)
EXTENDS HalevtDaemon, SequenceTheorems, FiniteSetTheorems, FunctionTheorems, Loops, TLAPS

-----------------------------------------------------------------------------
(* What the operations of the devices list do to the entry a walk from the *)
(* root meets first, the only one the daemon ever looks at.                *)

(* Find returns the first entry of the udi.                                *)
LEMMA FindFirst ==
    ASSUME NEW list, NEW u, Listed(list, u)
    PROVE  FirstAt(list, u, Find(list, u))
BY DEF Listed, Find

(* There is only one first entry.                                          *)
LEMMA FirstUnique ==
    ASSUME NEW S, NEW list \in Seq(S), NEW u, NEW i, NEW j,
           FirstAt(list, u, i), FirstAt(list, u, j)
    PROVE  i = j
<1>1. i \in 1 .. Len(list) /\ j \in 1 .. Len(list)
  BY LenProperties DEF FirstAt
<1>2. ~(i < j) /\ ~(j < i)
  BY <1>1 DEF FirstAt
<1>. QED  BY <1>1, <1>2

(* halevt_device_list_add_device puts the new entry in front and moves the *)
(* others on.                                                              *)
LEMMA AddDeviceAt ==
    ASSUME NEW list \in Seq(Entry), NEW u \in Udis, NEW p \in CopyProps
    PROVE  LET new == AddDevice(list, u, p)
           IN  /\ new \in Seq(Entry)
               /\ Len(new) = Len(list) + 1
               /\ new[1] = [udi |-> u, props |-> p]
               /\ \A i \in 1 .. Len(list) : new[i + 1] = list[i]
<1>. DEFINE e == [udi |-> u, props |-> p]
<1>1. e \in Entry
  BY DEF Entry
<1>2. <<e>> \in Seq(Entry) /\ Len(<<e>>) = 1 /\ <<e>>[1] = e
  BY <1>1
<1>. QED  BY <1>2, ConcatProperties DEF AddDevice

(* So the new entry is the first of its udi, and the first entry of every  *)
(* other udi stays as it is.                                               *)
LEMMA AddDeviceFirst ==
    ASSUME NEW list \in Seq(Entry), NEW u \in Udis, NEW p \in CopyProps
    PROVE  LET new == AddDevice(list, u, p)
           IN  /\ new \in Seq(Entry)
               /\ FirstAt(new, u, 1)
               /\ new[1].props = p
               /\ \A v, i : v # u /\ FirstAt(list, v, i)
                     => FirstAt(new, v, i + 1) /\ new[i + 1] = list[i]
<1>. DEFINE e == [udi |-> u, props |-> p]
            new == AddDevice(list, u, p)
<1>3. /\ new \in Seq(Entry)
      /\ Len(new) = Len(list) + 1
      /\ new[1] = e
      /\ \A i \in 1 .. Len(list) : new[i + 1] = list[i]
  BY AddDeviceAt
<1>4. FirstAt(new, u, 1)
  BY <1>3 DEF FirstAt
<1>5. ASSUME NEW v, NEW i, v # u, FirstAt(list, v, i)
      PROVE  FirstAt(new, v, i + 1) /\ new[i + 1] = list[i]
  <2>1. i \in 1 .. Len(list) /\ list[i].udi = v
    BY <1>5 DEF FirstAt
  <2>2. new[i + 1] = list[i] /\ i + 1 \in DOMAIN new
    BY <2>1, <1>3
  <2>3. ASSUME NEW j \in 1 .. i
        PROVE  new[j].udi # v
    <3>1. CASE j = 1
      BY <3>1, <1>3, <1>5
    <3>2. CASE j # 1
      <4>1. j - 1 \in 1 .. (i - 1) /\ j - 1 \in 1 .. Len(list)
        BY <3>2, <2>1
      <4>2. new[j] = list[j - 1]
        BY <4>1, <1>3
      <4>. QED  BY <4>1, <4>2, <1>5 DEF FirstAt
    <3>. QED  BY <3>1, <3>2
  <2>. QED  BY <2>1, <2>2, <2>3 DEF FirstAt
<1>. QED  BY <1>3, <1>4, <1>5

(* halevt_device_list_remove_device takes out the first entry of the udi   *)
(* and nothing else.                                                       *)
LEMMA RemoveDeviceAt ==
    ASSUME NEW list \in Seq(Entry), NEW u, Listed(list, u)
    PROVE  LET r == Find(list, u)
               new == RemoveDevice(list, u)
           IN  /\ r \in 1 .. Len(list) /\ list[r].udi = u
               /\ new \in Seq(Entry)
               /\ Len(new) = Len(list) - 1
               /\ \A i \in 1 .. (r - 1) : new[i] = list[i]
               /\ \A i \in r .. (Len(list) - 1) : new[i] = list[i + 1]
<1>. DEFINE new == RemoveDevice(list, u)
<1>. DEFINE r == Find(list, u)
            front == SubSeq(list, 1, r - 1)
            rest == SubSeq(list, r + 1, Len(list))
<1>1. r \in 1 .. Len(list) /\ list[r].udi = u
  BY FindFirst DEF FirstAt
<1>2. new = front \o rest
  BY DEF RemoveDevice
<1>3. /\ front \in Seq(Entry) /\ Len(front) = r - 1
      /\ \A i \in 1 .. (r - 1) : front[i] = list[i]
  <2>1. \A i \in 1 .. (r - 1) : list[i] \in Entry
    BY <1>1, ElementOfSeq
  <2>. QED  BY <1>1, <2>1, SubSeqProperties
<1>4. /\ rest \in Seq(Entry) /\ Len(rest) = Len(list) - r
      /\ \A i \in 1 .. (Len(list) - r) : rest[i] = list[r + i]
  <2>1. \A i \in (r + 1) .. Len(list) : list[i] \in Entry
    BY <1>1, ElementOfSeq
  <2>2. Len(list) \in Nat
    OBVIOUS
  <2>3. /\ SubSeq(list, r + 1, Len(list)) \in Seq(Entry)
        /\ Len(SubSeq(list, r + 1, Len(list)))
              = IF r + 1 <= Len(list) THEN Len(list) - (r + 1) + 1 ELSE 0
        /\ \A i \in 1 .. Len(list) - (r + 1) + 1 :
              SubSeq(list, r + 1, Len(list))[i] = list[(r + 1) + i - 1]
    BY <1>1, <2>1, <2>2, SubSeqProperties
  <2>. QED  BY <1>1, <2>2, <2>3
<1>5. /\ new \in Seq(Entry)
      /\ Len(new) = Len(list) - 1
      /\ \A i \in 1 .. (r - 1) : new[i] = list[i]
      /\ \A i \in r .. (Len(list) - 1) : new[i] = list[i + 1]
  <2>. HIDE DEF front, rest, r
  <2>1. /\ front \o rest \in Seq(Entry)
        /\ Len(front \o rest) = Len(front) + Len(rest)
        /\ \A i \in 1 .. Len(front) + Len(rest) : (front \o rest)[i] =
              IF i <= Len(front) THEN front[i] ELSE rest[i - Len(front)]
    BY <1>3, <1>4, ConcatProperties
  <2>2. Len(front) + Len(rest) = Len(list) - 1
    BY <1>1, <1>3, <1>4
  <2>3. ASSUME NEW i \in 1 .. (r - 1)
        PROVE  new[i] = list[i]
    <3>1. i \in 1 .. Len(front) + Len(rest) /\ i <= Len(front)
      BY <1>1, <1>3, <2>2
    <3>. QED  BY <1>2, <1>3, <2>1, <3>1
  <2>4. ASSUME NEW i \in r .. (Len(list) - 1)
        PROVE  new[i] = list[i + 1]
    <3>1. /\ i \in 1 .. Len(front) + Len(rest) /\ ~(i <= Len(front))
          /\ i - Len(front) = i - r + 1
          /\ i - r + 1 \in 1 .. (Len(list) - r)
          /\ r + (i - r + 1) = i + 1
      BY <1>1, <1>3, <2>2
    <3>2. new[i] = rest[i - r + 1]
      BY <1>2, <2>1, <3>1
    <3>. QED  BY <1>4, <3>1, <3>2
  <2>. QED  BY <1>2, <2>1, <2>2, <2>3, <2>4
<1>. QED  BY <1>1, <1>5

(* So the first entry of every other udi stays as it is.                   *)
LEMMA RemoveDeviceFirst ==
    ASSUME NEW list \in Seq(Entry), NEW u
    PROVE  LET new == RemoveDevice(list, u)
           IN  /\ new \in Seq(Entry)
               /\ \A v, i : v # u /\ FirstAt(list, v, i)
                     => \E j \in DOMAIN new : FirstAt(new, v, j) /\ new[j] = list[i]
<1>. DEFINE new == RemoveDevice(list, u)
<1>1. CASE ~Listed(list, u)
  <2>1. new = list
    BY <1>1 DEF RemoveDevice
  <2>. QED  BY <2>1 DEF FirstAt
<1>2. CASE Listed(list, u)
  <2>. DEFINE r == Find(list, u)
  <2>1. r \in 1 .. Len(list) /\ list[r].udi = u
    BY <1>2, FindFirst DEF FirstAt
  <2>2. /\ new \in Seq(Entry)
        /\ Len(new) = Len(list) - 1
        /\ \A i \in 1 .. (r - 1) : new[i] = list[i]
        /\ \A i \in r .. (Len(list) - 1) : new[i] = list[i + 1]
    BY <1>2, RemoveDeviceAt
  <2>3. ASSUME NEW v, NEW i, v # u, FirstAt(list, v, i)
        PROVE  \E j \in DOMAIN new : FirstAt(new, v, j) /\ new[j] = list[i]
    <3>1. /\ i \in 1 .. Len(list) /\ i # r /\ list[i].udi = v
          /\ \A j \in 1 .. (i - 1) : list[j].udi # v
      BY <2>1, <2>3 DEF FirstAt
    <3>2. CASE i < r
      <4>1. i \in 1 .. Len(new) /\ \A j \in 1 .. i : new[j] = list[j]
        BY <2>1, <2>2, <3>1, <3>2
      <4>2. FirstAt(new, v, i)
        BY <2>2, <3>1, <4>1 DEF FirstAt
      <4>. QED  BY <3>1, <4>1, <4>2 DEF FirstAt
    <3>3. CASE i > r
      <4>1. i - 1 \in 1 .. Len(new) /\ new[i - 1] = list[i]
        BY <2>1, <2>2, <3>1, <3>3
      <4>2. ASSUME NEW j \in 1 .. ((i - 1) - 1)
            PROVE  new[j].udi # v
        BY <2>1, <2>2, <3>1, <3>3
      <4>3. FirstAt(new, v, i - 1)
        BY <2>2, <3>1, <4>1, <4>2 DEF FirstAt
      <4>. QED  BY <4>1, <4>3 DEF FirstAt
    <3>. QED  BY <2>1, <3>1, <3>2, <3>3
  <2>. QED  BY <2>2, <2>3
<1>. QED  BY <1>1, <1>2

(* halevt_device_list_set_property and halevt_device_list_remove_property  *)
(* (v is NoKey) change what the list has of property k of u and nothing    *)
(* else.                                                                   *)
LEMMA SetPropertyAgrees ==
    ASSUME NEW list \in Seq(Entry), NEW u, NEW k \in Keys,
           NEW v \in Values \cup {NoKey, Null}
    PROVE  LET new == SetProperty(list, u, k, v)
           IN  /\ new \in Seq(Entry)
               /\ \A w, x : \A a \in Aspects :
                     Agrees(list, w, a, x) /\ (w = u /\ a = k => x = v)
                     => Agrees(new, w, a, x)
               /\ Listed(list, u) => Agrees(new, u, k, v)
<1>. DEFINE new == SetProperty(list, u, k, v)
<1>1. CASE ~Listed(list, u)
  <2>1. new = list
    BY <1>1 DEF SetProperty
  <2>. QED  BY <1>1, <2>1
<1>2. CASE Listed(list, u)
  <2>. DEFINE r == Find(list, u)
              e == [list[r] EXCEPT !.props[k] = v]
  <2>1. r \in 1 .. Len(list) /\ list[r].udi = u /\ FirstAt(list, u, r)
    BY <1>2, FindFirst DEF FirstAt
  <2>2. list[r] \in Entry
    BY <2>1, ElementOfSeq
  <2>3. /\ e \in Entry
        /\ e.udi = u
        /\ \A a \in Keys : e.props[a] = IF a = k THEN v ELSE list[r].props[a]
    BY <2>1, <2>2 DEF Entry, CopyProps
  <2>4. new = [list EXCEPT ![r] = e]
    BY <1>2 DEF SetProperty
  <2>5. /\ new \in Seq(Entry)
        /\ Len(new) = Len(list)
        /\ \A j \in 1 .. Len(list) : new[j] = IF j = r THEN e ELSE list[j]
    BY <2>1, <2>3, <2>4, ExceptSeq
  <2>6. \A j \in 1 .. Len(list) : new[j].udi = list[j].udi
    BY <2>1, <2>3, <2>5
  <2>7. ASSUME NEW w, NEW i, FirstAt(list, w, i)
        PROVE  FirstAt(new, w, i)
    BY <2>5, <2>6, <2>7 DEF FirstAt
  <2>8. Agrees(new, u, k, v)
    <3>1. new[r] = e /\ e.props[k] = v
      BY <2>1, <2>3, <2>5
    <3>2. FirstAt(new, u, r) /\ r \in DOMAIN new
      BY <2>1, <2>5, <2>7
    <3>. HIDE DEF new, r, e
    <3>3. Agrees(new, u, k, v)
      BY <3>1, <3>2 DEF Agrees
    <3>. QED  BY <3>3 DEF new
  <2>9. ASSUME NEW w, NEW x, NEW a \in Aspects, Agrees(list, w, a, x),
               w = u /\ a = k => x = v
        PROVE  Agrees(new, w, a, x)
    <3>1. PICK i \in DOMAIN list :
              FirstAt(list, w, i) /\ (a # There => list[i].props[a] = x)
      BY <2>9 DEF Agrees
    <3>2. i \in 1 .. Len(list) /\ list[i].udi = w
      BY <3>1 DEF FirstAt
    <3>3. w = u <=> i = r
      BY <2>1, <3>1, <3>2, FirstUnique
    <3>4. a # There => new[i].props[a] = x
      <4>1. CASE i = r
        BY <2>3, <2>5, <2>9, <3>1, <3>2, <3>3, <4>1 DEF Aspects
      <4>2. CASE i # r
        BY <2>5, <3>1, <3>2, <4>2
      <4>. QED  BY <4>1, <4>2
    <3>5. FirstAt(new, w, i) /\ i \in DOMAIN new
      BY <2>5, <2>7, <3>1, <3>2
    <3>. QED  BY <3>4, <3>5 DEF Agrees
  <2>. QED  BY <2>5, <2>8, <2>9
<1>. QED  BY <1>1, <1>2

-----------------------------------------------------------------------------
(* How many entries there are of a udi.                                    *)

Copies(list, u) == {i \in DOMAIN list : list[i].udi = u}

LEMMA CopiesFinite ==
    ASSUME NEW list \in Seq(Entry), NEW u
    PROVE  /\ IsFiniteSet(Copies(list, u))
           /\ CopiesOf(list, u) = Cardinality(Copies(list, u))
           /\ CopiesOf(list, u) \in Nat
<1>1. IsFiniteSet(1 .. Len(list))
  BY FS_Interval
<1>2. Copies(list, u) \in SUBSET (1 .. Len(list))
  BY DEF Copies
<1>3. IsFiniteSet(Copies(list, u))
  BY <1>1, <1>2, FS_Subset
<1>. QED  BY <1>3, FS_CardinalityType DEF CopiesOf, Copies

(* A udi has an entry if and only if a walk from the root meets one.       *)
LEMMA NoCopies ==
    ASSUME NEW list \in Seq(Entry), NEW u, ~Listed(list, u)
    PROVE  CopiesOf(list, u) = 0
<1>1. SUFFICES ASSUME Copies(list, u) # {}
               PROVE  FALSE
  BY CopiesFinite, FS_EmptySet
<1>2. Copies(list, u) \subseteq Nat
  BY DEF Copies
<1>3. PICK i \in Copies(list, u) : \A j \in Copies(list, u) : i <= j
  BY <1>1, <1>2, LeastNumber
<1>4. FirstAt(list, u, i)
  BY <1>3 DEF FirstAt, Copies
<1>. QED  BY <1>3, <1>4 DEF Listed, Copies

LEMMA CopiesAfterAdd ==
    ASSUME NEW list \in Seq(Entry), NEW u \in Udis, NEW p \in CopyProps, NEW v
    PROVE  CopiesOf(AddDevice(list, u, p), v)
               = CopiesOf(list, v) + (IF v = u THEN 1 ELSE 0)
<1>. DEFINE new == AddDevice(list, u, p)
            S == Copies(list, v)
            T == {i + 1 : i \in S}
            f == [i \in S |-> i + 1]
<1>1. /\ new \in Seq(Entry) /\ Len(new) = Len(list) + 1
      /\ new[1] = [udi |-> u, props |-> p]
      /\ \A i \in 1 .. Len(list) : new[i + 1] = list[i]
  BY AddDeviceAt
<1>. HIDE DEF new
<1>2. S \subseteq 1 .. Len(list) /\ IsFiniteSet(S)
  <2>1. S \subseteq 1 .. Len(list)
    BY DEF Copies
  <2>. QED  BY <2>1, CopiesFinite
<1>3. Cardinality(T) = Cardinality(S) /\ IsFiniteSet(T)
  <2>1. /\ f \in [S -> T]
        /\ \A i, j \in S : f[i] = f[j] => i = j
        /\ \A j \in T : \E i \in S : f[i] = j
    BY <1>2
  <2>2. f \in Bijection(S, T)
    BY <2>1, Fun_IsBij
  <2>. QED  BY <1>2, <2>2, FS_Bijection DEF ExistsBijection
<1>4. Copies(new, v) = IF v = u THEN T \cup {1} ELSE T
  <2>1. DOMAIN new = 1 .. (Len(list) + 1) /\ DOMAIN list = 1 .. Len(list)
    BY <1>1
  <2>2. \A i \in DOMAIN new : i = 1 \/ (i - 1 \in DOMAIN list /\ new[i] = list[i - 1])
    BY <1>1, <2>1
  <2>. QED  BY <1>1, <2>1, <2>2 DEF Copies
<1>5. 1 \notin T
  BY <1>2
<1>. HIDE DEF S, T
<1>6. Cardinality(Copies(new, v)) = Cardinality(S) + (IF v = u THEN 1 ELSE 0)
  <2>1. CASE v = u
    BY <1>3, <1>4, <1>5, <2>1, FS_AddElement
  <2>2. CASE v # u
    <3>1. Cardinality(S) \in Nat
      BY <1>2, FS_CardinalityType
    <3>. QED  BY <1>3, <1>4, <2>2, <3>1
  <2>. QED  BY <2>1, <2>2
<1>. QED  BY <1>1, <1>6, CopiesFinite DEF S, new

LEMMA CopiesAfterRemove ==
    ASSUME NEW list \in Seq(Entry), NEW u, NEW v
    PROVE  CopiesOf(RemoveDevice(list, u), v)
               = IF v = u /\ Listed(list, u) THEN CopiesOf(list, v) - 1
                 ELSE CopiesOf(list, v)
<1>1. CASE ~Listed(list, u)
  BY <1>1 DEF RemoveDevice
<1>2. CASE Listed(list, u)
  <2>. DEFINE new == RemoveDevice(list, u)
              r == Find(list, u)
              S == Copies(list, v) \ {r}
              T == Copies(new, v)
              f == [i \in S |-> IF i < r THEN i ELSE i - 1]
  <2>1. /\ r \in 1 .. Len(list) /\ list[r].udi = u
        /\ new \in Seq(Entry)
        /\ Len(new) = Len(list) - 1
        /\ \A i \in 1 .. (r - 1) : new[i] = list[i]
        /\ \A i \in r .. (Len(list) - 1) : new[i] = list[i + 1]
    BY <1>2, RemoveDeviceAt
  <2>. HIDE DEF new, r
  <2>2. /\ IsFiniteSet(Copies(list, v)) /\ IsFiniteSet(S)
        /\ Cardinality(S) = IF r \in Copies(list, v)
                            THEN Cardinality(Copies(list, v)) - 1
                            ELSE Cardinality(Copies(list, v))
    BY CopiesFinite, FS_RemoveElement
  <2>3. r \in Copies(list, v) <=> v = u
    BY <2>1 DEF Copies
  <2>4. S \subseteq 1 .. Len(list)
    BY DEF Copies
  <2>5. DOMAIN new = 1 .. (Len(list) - 1) /\ DOMAIN list = 1 .. Len(list)
    BY <2>1
  <2>6. ASSUME NEW i \in S
        PROVE  f[i] \in T
    <3>1. CASE i < r
      BY <2>1, <2>4, <2>5, <3>1 DEF Copies
    <3>2. CASE ~(i < r)
      <4>1. i - 1 \in r .. (Len(list) - 1) /\ (i - 1) + 1 = i
        BY <2>1, <2>4, <3>2
      <4>. QED  BY <2>1, <2>5, <3>2, <4>1 DEF Copies
    <3>. QED  BY <3>1, <3>2
  <2>7. \A i, j \in S : f[i] = f[j] => i = j
    BY <2>1, <2>4
  <2>8. ASSUME NEW j \in T
        PROVE  \E i \in S : f[i] = j
    <3>1. j \in 1 .. (Len(list) - 1) /\ new[j].udi = v
      BY <2>5 DEF Copies
    <3>2. CASE j < r
      <4>1. j \in S
        BY <2>1, <2>5, <3>1, <3>2 DEF Copies
      <4>. QED  BY <3>2, <4>1
    <3>3. CASE ~(j < r)
      <4>1. j + 1 \in S
        BY <2>1, <2>5, <3>1, <3>3 DEF Copies
      <4>2. f[j + 1] = j
        BY <2>1, <3>1, <3>3, <4>1
      <4>. QED  BY <4>1, <4>2
    <3>. QED  BY <3>2, <3>3
  <2>9. Cardinality(T) = Cardinality(S)
    <3>1. f \in [S -> T]
      BY <2>6
    <3>. HIDE DEF S, T, f
    <3>2. f \in Bijection(S, T)
      BY <2>7, <2>8, <3>1, Fun_IsBij
    <3>. QED  BY <2>2, <3>2, FS_Bijection DEF ExistsBijection
  <2>. QED
    BY <1>2, <2>1, <2>2, <2>3, <2>9, CopiesFinite DEF new
<1>. QED  BY <1>1, <1>2

LEMMA CopiesAfterSet ==
    ASSUME NEW list \in Seq(Entry), NEW u, NEW k, NEW x, NEW v
    PROVE  CopiesOf(SetProperty(list, u, k, x), v) = CopiesOf(list, v)
<1>. DEFINE new == SetProperty(list, u, k, x)
<1>1. CASE ~Listed(list, u)
  BY <1>1 DEF SetProperty
<1>2. CASE Listed(list, u)
  <2>. DEFINE r == Find(list, u)
              e == [list[r] EXCEPT !.props[k] = x]
  <2>1. r \in 1 .. Len(list)
    BY <1>2, FindFirst DEF FirstAt
  <2>2. list[r] \in Entry
    BY <2>1, ElementOfSeq
  <2>3. e.udi = list[r].udi
    BY <2>2 DEF Entry
  <2>4. new = [list EXCEPT ![r] = e]
    BY <1>2 DEF SetProperty
  <2>. HIDE DEF r, e
  <2>5. DOMAIN new = DOMAIN list /\ \A i \in DOMAIN list : new[i].udi = list[i].udi
    BY <2>1, <2>3, <2>4
  <2>. HIDE DEF new
  <2>6. Copies(new, v) = Copies(list, v)
    BY <2>5 DEF Copies
  <2>. QED  BY <2>6 DEF CopiesOf, Copies, new
<1>. QED  BY <1>1, <1>2

-----------------------------------------------------------------------------
(* The kinds of signals, and what HAL's properties are to the list.        *)

LEMMA SignalKinds ==
    /\ \A u \in Udis : [type |-> "added", udi |-> u] \in Signal
    /\ \A u \in Udis, p \in Props : [type |-> "removed", udi |-> u, was |-> p] \in Signal
    /\ \A u \in Udis, k \in Keys, v \in Values \cup {NoKey} :
          [type |-> "property", udi |-> u, key |-> k, value |-> v] \in Signal
    /\ \A u \in Udis, c \in Conditions :
          [type |-> "condition", udi |-> u, condition |-> c] \in Signal
    /\ \A u \in Udis : [type |-> "capability", udi |-> u] \in Signal
    /\ \A u \in Udis : [type |-> "oninit", udi |-> u] \in InitJob
BY DEF Signal, InitJob

LEMMA PropsAreCopies == Props \subseteq CopyProps
BY DEF Props, CopyProps

(* What a signal that is handled looks like.                               *)
LEMMA JobShape ==
    ASSUME NEW m \in Signal \cup InitJob
    PROVE  /\ m.udi \in Udis
           /\ m.type = "property" =>
                 /\ m.key \in Keys
                 /\ m.value \in Values \cup {NoKey}
           /\ m \in InitJob <=> m.type = "oninit"
           /\ m \in Signal <=> m.type # "oninit"
BY DEF Signal, InitJob

-----------------------------------------------------------------------------
(* Type correctness.                                                       *)

LEMMA FirstRuleType == FirstRule \in Position
BY DEF FirstRule, Position

LEMMA InitType == Init => TypeOK
<1>1. ASSUME Init
      PROVE  gdl \in [Udis -> Props \cup {NoDevice}]
  BY <1>1, ConstantsAssumption DEF Init
<1>2. ASSUME Init
      PROVE  bus \in Seq(Signal) /\ devices \in Seq(Entry)
  BY <1>2, EmptySeq DEF Init
<1>3. ASSUME Init
      PROVE  changes \in 0 .. MaxChanges /\ inits \in [Udis -> Nat]
  BY <1>3, ConstantsAssumption DEF Init
<1>. QED
  BY <1>1, <1>2, <1>3, FirstRuleType DEF Init, TypeOK, Phases, Stages

LEMMA HalType ==
    ASSUME TypeOK, Hal
    PROVE  TypeOK'
<1>. USE DEF TypeOK
<1>1. ASSUME NEW new \in [Udis -> Props \cup {NoDevice}], NEW m \in Signal,
             NEW w \in BOOLEAN, HalActs(new, w, m)
      PROVE  TypeOK'
  <2>1. bus' \in Seq(Signal)
    BY <1>1, AppendProperties DEF HalActs
  <2>. QED  BY <1>1, <2>1, ConstantsAssumption DEF HalActs, handler
<1>2. ManagerWatched \in BOOLEAN /\ DevicesWatched \in BOOLEAN
  BY DEF ManagerWatched, DevicesWatched
<1>3. ASSUME NEW u \in Udis, HalAdd(u)
      PROVE  TypeOK'
  <2>1. PICK p \in Profiles :
            HalActs([gdl EXCEPT ![u] = p], ManagerWatched, [type |-> "added", udi |-> u])
    BY <1>3 DEF HalAdd
  <2>2. [gdl EXCEPT ![u] = p] \in [Udis -> Props \cup {NoDevice}]
    BY ConstantsAssumption
  <2>. QED  BY <1>1, <1>2, <2>1, <2>2, SignalKinds
<1>4. ASSUME NEW u \in Udis, HalRemove(u)
      PROVE  TypeOK'
  <2>1. gdl[u] \in Props
    BY <1>4 DEF HalRemove
  <2>2. [gdl EXCEPT ![u] = NoDevice] \in [Udis -> Props \cup {NoDevice}]
    OBVIOUS
  <2>. QED  BY <1>1, <1>2, <1>4, <2>1, <2>2, SignalKinds DEF HalRemove
<1>5. ASSUME NEW u \in Udis, NEW k \in Keys, NEW v \in Values \cup {NoKey},
             HalSetProperty(u, k, v)
      PROVE  TypeOK'
  <2>1. gdl[u] \in [Keys -> Values \cup {NoKey}]
    BY <1>5 DEF HalSetProperty, Props
  <2>2. [gdl[u] EXCEPT ![k] = v] \in Props
    BY <2>1 DEF Props
  <2>3. [gdl EXCEPT ![u][k] = v] \in [Udis -> Props \cup {NoDevice}]
    BY <2>2
  <2>. QED  BY <1>1, <1>2, <1>5, <2>3, SignalKinds DEF HalSetProperty
<1>6. ASSUME NEW u \in Udis, NEW c \in Conditions, HalCondition(u, c)
      PROVE  TypeOK'
  BY <1>1, <1>2, <1>6, SignalKinds DEF HalCondition
<1>7. ASSUME NEW u \in Udis, HalCapability(u)
      PROVE  TypeOK'
  BY <1>1, <1>2, <1>7, SignalKinds DEF HalCapability
<1>. QED  BY <1>3, <1>4, <1>5, <1>6, <1>7 DEF Hal

LEMMA PositionType ==
    ASSUME NEW p \in Position
    PROVE  /\ [FirstRule EXCEPT !.rule = p.rule + 1] \in Position
           /\ [p EXCEPT !.act = @ + 1] \in Position
           /\ [p EXCEPT !.lit = @ + 1] \in Position
           /\ [rule |-> p.rule, term |-> p.term + 1, lit |-> 1, act |-> 1] \in Position
<1>1. p.rule + 1 \in Nat \ {0} /\ p.term + 1 \in Nat \ {0}
      /\ p.lit + 1 \in Nat \ {0} /\ p.act + 1 \in Nat \ {0}
  BY DEF Position
<1>2. [FirstRule EXCEPT !.rule = p.rule + 1] \in Position
  BY <1>1, FirstRuleType DEF Position
<1>3. [p EXCEPT !.act = @ + 1] \in Position
  BY <1>1 DEF Position
<1>4. [p EXCEPT !.lit = @ + 1] \in Position
  BY <1>1 DEF Position
<1>5. [rule |-> p.rule, term |-> p.term + 1, lit |-> 1, act |-> 1] \in Position
  BY <1>1 DEF Position
<1>. QED  BY <1>2, <1>3, <1>4, <1>5

LEMMA InitsType ==
    ASSUME TypeOK, job # NoJob
    PROVE  [inits EXCEPT ![job.udi] = @ + 1] \in [Udis -> Nat]
<1>1. inits \in [Udis -> Nat]
  BY DEF TypeOK
<1>2. job.udi \in Udis
  BY JobShape DEF TypeOK
<1>3. inits[job.udi] + 1 \in Nat
  BY <1>1, <1>2
<1>. QED  BY <1>1, <1>3

(* The steps that walk through the rules change neither the devices list   *)
(* nor what is waiting.                                                    *)
LEMMA WalkType ==
    ASSUME TypeOK, SkipRule \/ TryLiteral \/ TryAction \/ RunCommand
    PROVE  /\ TypeOK'
           /\ UNCHANGED <<gdl, changes, bus, phase, todo, job, devices>>
           /\ stage' # "read" \/ UNCHANGED stage
<1>. USE PositionType DEF TypeOK, halVars, Stages, NextRule, NextTerm
<1>1. CASE SkipRule
  BY <1>1 DEF SkipRule
<1>2. CASE TryLiteral
  BY <1>2 DEF TryLiteral, RuleMatched
<1>3. ASSUME NextAction
      PROVE  /\ stage' \in {"value", "match"}
             /\ pos' \in Position
  BY <1>3 DEF NextAction
<1>4. CASE TryAction
  <2>1. (stage' = "run" /\ pos' = pos) \/ NextAction
    BY <1>4 DEF TryAction
  <2>. QED  BY <1>3, <1>4, <2>1 DEF TryAction
<1>5. CASE RunCommand
  <2>1. NextAction \/ (stage' = "match" /\ pos' = NextRule)
    BY <1>5 DEF RunCommand
  <2>2. inits' \in [Udis -> Nat]
    <3>1. inits' = inits \/ inits' = [inits EXCEPT ![job.udi] = @ + 1]
      BY <1>5 DEF RunCommand
    <3>. QED  BY <1>5, <3>1, InitsType DEF RunCommand
  <2>. QED  BY <1>3, <1>5, <2>1, <2>2 DEF RunCommand
<1>. QED  BY <1>1, <1>2, <1>4, <1>5

LEMMA DaemonType ==
    ASSUME TypeOK, HandlerOK, Daemon
    PROVE  TypeOK'
<1>. USE FirstRuleType DEF TypeOK, halVars, handler, Stages, Phases, BeginJob, EndJob
<1>1. CASE CtxInit \/ WatchAll \/ GetAllDevices \/ MainLoop
  BY <1>1 DEF CtxInit, WatchAll, GetAllDevices, MainLoop, Present
<1>2. CASE NextDevice
  <2>1. PICK u \in todo : BeginJob([type |-> "oninit", udi |-> u])
    BY <1>2 DEF NextDevice
  <2>2. [type |-> "oninit", udi |-> u] \in InitJob
    BY SignalKinds
  <2>. QED  BY <1>2, <2>1, <2>2 DEF NextDevice
<1>3. CASE Dispatch
  <2>1. Head(bus) \in Signal /\ Tail(bus) \in Seq(Signal)
    BY <1>3, HeadTailProperties DEF Dispatch
  <2>. QED  BY <1>3, <2>1 DEF Dispatch
<1>4. CASE SkipRule \/ TryLiteral \/ TryAction \/ RunCommand
  BY <1>4, WalkType
<1>5. CASE Crash
  BY <1>5 DEF Crash
<1>6. CASE ListDevice
  <2>1. job.udi \in Udis
    BY <1>6, JobShape DEF ListDevice
  <2>2. devices' \in Seq(Entry)
    <3>1. CASE gdl[job.udi] # NoDevice
      <4>1. gdl[job.udi] \in CopyProps
        BY <2>1, <3>1, PropsAreCopies
      <4>. QED  BY <1>6, <2>1, <3>1, <4>1, AddDeviceFirst DEF ListDevice
    <3>. QED  BY <1>6, <3>1 DEF ListDevice
  <2>. QED  BY <1>6, <2>2 DEF ListDevice
<1>7. CASE UnlistDevice
  BY <1>7, RemoveDeviceFirst DEF UnlistDevice
<1>8. CASE UnlistProperty
  <2>1. job.key \in Keys
    BY <1>8, JobShape DEF UnlistProperty
  <2>2. devices' \in Seq(Entry)
    <3>1. SetProperty(devices, job.udi, job.key, NoKey) \in Seq(Entry)
      BY <2>1, SetPropertyAgrees
    <3>. QED  BY <1>8, <3>1 DEF UnlistProperty, RemoveProperty
  <2>. QED  BY <1>8, <2>2 DEF UnlistProperty
<1>9. CASE SetPropertyExists
  BY <1>9 DEF SetPropertyExists
<1>10. CASE SetPropertyRead
  <2>1. job.udi \in Udis /\ job.key \in Keys
    BY <1>10, JobShape DEF SetPropertyRead, HandlerOK
  <2>2. ASSUME LiveExists(gdl, job.udi, job.key)
        PROVE  gdl[job.udi][job.key] \in Values
    BY <2>1, <2>2 DEF LiveExists, Props
  <2>3. PICK v \in Values \cup {Null} :
            devices' = SetProperty(devices, job.udi, job.key, v)
    BY <1>10, <2>2 DEF SetPropertyRead
  <2>4. devices' \in Seq(Entry)
    BY <2>1, <2>3, SetPropertyAgrees
  <2>. QED  BY <1>10, <2>4 DEF SetPropertyRead
<1>11. CASE EndCondition
  BY <1>11 DEF EndCondition
<1>. QED  BY <1>1, <1>2, <1>3, <1>4, <1>5, <1>6, <1>7, <1>8, <1>9, <1>10, <1>11 DEF Daemon

-----------------------------------------------------------------------------
(* Queues of signals and what they settle.                                 *)

(* A signal at the end of the queue that tells how things are settles them.*)
LEMMA AppendSettles ==
    ASSUME NEW s \in Seq(Signal), NEW m \in Signal, NEW u, NEW a, NEW v,
           Concerns(m, u, a)
    PROVE  /\ ~NothingPending(Append(s, m), u, a)
           /\ Settles(m, v) => LastSettles(Append(s, m), u, a, v)
<1>. DEFINE t == Append(s, m)
            n == Len(s) + 1
<1>1. n \in DOMAIN t /\ t[n] = m /\ \A j \in DOMAIN t : ~(j > n)
  BY AppendProperties
<1>. HIDE DEF t, n
<1>2. ~NothingPending(t, u, a)
  BY <1>1 DEF NothingPending
<1>3. Settles(m, v) => LastSettles(t, u, a, v)
  BY <1>1 DEF LastSettles
<1>. QED  BY <1>2, <1>3 DEF t

(* A signal about something else changes nothing.                          *)
LEMMA AppendOther ==
    ASSUME NEW s \in Seq(Signal), NEW m \in Signal, NEW u, NEW a, NEW v,
           ~Concerns(m, u, a)
    PROVE  /\ NothingPending(Append(s, m), u, a) <=> NothingPending(s, u, a)
           /\ LastSettles(s, u, a, v) => LastSettles(Append(s, m), u, a, v)
<1>. DEFINE t == Append(s, m)
<1>1. /\ DOMAIN t = 1 .. (Len(s) + 1) /\ DOMAIN s = 1 .. Len(s)
      /\ Len(s) \in Nat
      /\ t[Len(s) + 1] = m
      /\ \A j \in 1 .. Len(s) : t[j] = s[j]
  BY AppendProperties, LenProperties
<1>. HIDE DEF t
<1>2. NothingPending(t, u, a) <=> NothingPending(s, u, a)
  BY <1>1 DEF NothingPending
<1>3. ASSUME NEW i \in DOMAIN s, Concerns(s[i], u, a), Settles(s[i], v),
             \A j \in DOMAIN s : j > i => ~Concerns(s[j], u, a)
      PROVE  LastSettles(t, u, a, v)
  <2>1. i \in DOMAIN t /\ Concerns(t[i], u, a) /\ Settles(t[i], v)
    BY <1>1, <1>3
  <2>2. \A j \in DOMAIN t : j > i => ~Concerns(t[j], u, a)
    BY <1>1, <1>3
  <2>. QED  BY <2>1, <2>2 DEF LastSettles
<1>. QED  BY <1>2, <1>3 DEF LastSettles, t

(* What is left when the signal at the head of the queue has been handled. *)
LEMMA Handled ==
    ASSUME NEW t \in Seq(Signal), NEW m \in Signal, NEW u, NEW a, NEW v
    PROVE  /\ NothingPending(<<m>> \o t, u, a)
                 <=> NothingPending(t, u, a) /\ ~Concerns(m, u, a)
           /\ LastSettles(<<m>> \o t, u, a, v)
                 => \/ LastSettles(t, u, a, v)
                    \/ /\ NothingPending(t, u, a)
                       /\ Concerns(m, u, a)
                       /\ Settles(m, v)
<1>. DEFINE s == <<m>> \o t
<1>1. <<m>> \in Seq(Signal) /\ Len(<<m>>) = 1 /\ <<m>>[1] = m
  OBVIOUS
<1>2. /\ DOMAIN s = 1 .. (Len(t) + 1) /\ DOMAIN t = 1 .. Len(t)
      /\ Len(t) \in Nat
      /\ s[1] = m
      /\ \A j \in 1 .. Len(t) : s[j + 1] = t[j]
  BY <1>1, ConcatProperties, LenProperties
<1>. HIDE DEF s
<1>3. \A j \in DOMAIN s : j = 1 \/ (j - 1 \in DOMAIN t /\ s[j] = t[j - 1])
  BY <1>2
<1>4. NothingPending(s, u, a) <=> NothingPending(t, u, a) /\ ~Concerns(m, u, a)
  <2>1. ASSUME NothingPending(s, u, a)
        PROVE  NothingPending(t, u, a) /\ ~Concerns(m, u, a)
    BY <1>2, <2>1 DEF NothingPending
  <2>2. ASSUME NothingPending(t, u, a), ~Concerns(m, u, a)
        PROVE  NothingPending(s, u, a)
    BY <1>2, <1>3, <2>2 DEF NothingPending
  <2>. QED  BY <2>1, <2>2
<1>5. ASSUME NEW i \in DOMAIN s, Concerns(s[i], u, a), Settles(s[i], v),
             \A j \in DOMAIN s : j > i => ~Concerns(s[j], u, a)
      PROVE  \/ LastSettles(t, u, a, v)
             \/ NothingPending(t, u, a) /\ Concerns(m, u, a) /\ Settles(m, v)
  <2>1. CASE i = 1
    <3>1. ASSUME NEW j \in DOMAIN t
          PROVE  ~Concerns(t[j], u, a)
      <4>1. j + 1 \in DOMAIN s /\ j + 1 > i /\ s[j + 1] = t[j]
        BY <1>2, <2>1
      <4>. QED  BY <1>5, <4>1
    <3>. QED  BY <1>2, <1>5, <2>1, <3>1 DEF NothingPending
  <2>2. CASE i # 1
    <3>1. i - 1 \in DOMAIN t /\ s[i] = t[i - 1]
      BY <1>3, <2>2
    <3>2. ASSUME NEW j \in DOMAIN t, j > i - 1
          PROVE  ~Concerns(t[j], u, a)
      <4>1. j + 1 \in DOMAIN s /\ j + 1 > i /\ s[j + 1] = t[j]
        BY <1>2, <3>2
      <4>. QED  BY <1>5, <4>1
    <3>. QED  BY <1>5, <3>1, <3>2 DEF LastSettles
  <2>. QED  BY <2>1, <2>2
<1>. QED  BY <1>4, <1>5 DEF LastSettles, s

(* A queue is its head and the rest.                                       *)
LEMMA HeadTailConcat ==
    ASSUME NEW s \in Seq(Signal), s # <<>>
    PROVE  <<Head(s)>> \o Tail(s) = s
<1>. DEFINE m == s[1]
            t == Tail(s)
<1>1. /\ Head(s) = m /\ m \in Signal
      /\ t \in Seq(Signal) /\ Len(t) = Len(s) - 1 /\ Len(s) \in Nat
      /\ \A i \in 1 .. Len(t) : t[i] = s[i + 1]
  BY HeadTailProperties
<1>. HIDE DEF m, t
<1>2. m \in Signal /\ t \in Seq(Signal)
  BY <1>1
<1>3. <<m>> \in Seq(Signal) /\ Len(<<m>>) = 1 /\ <<m>>[1] = m
  BY <1>2
<1>4. /\ <<m>> \o t \in Seq(Signal)
      /\ Len(<<m>> \o t) = Len(t) + 1
      /\ (<<m>> \o t)[1] = m
      /\ \A j \in 1 .. Len(t) : (<<m>> \o t)[j + 1] = t[j]
  BY <1>2, <1>3, ConcatProperties, LenProperties
<1>5. ASSUME NEW i \in 1 .. Len(s)
      PROVE  (<<m>> \o t)[i] = s[i]
  <2>1. CASE i = 1
    BY <1>4, <2>1 DEF m
  <2>2. CASE i # 1
    <3>1. i - 1 \in 1 .. Len(t) /\ (i - 1) + 1 = i
      BY <1>1, <2>2
    <3>. QED  BY <1>1, <1>4, <3>1
  <2>. QED  BY <2>1, <2>2
<1>6. Len(<<m>> \o t) = Len(s)
  BY <1>1, <1>4
<1>7. <<m>> \o t = s
  BY <1>4, <1>5, <1>6, SeqEqual
<1>. QED  BY <1>1, <1>7 DEF t

(* Something is pending where something is settled.                        *)
LEMMA SettledPending ==
    ASSUME NEW s, NEW u, NEW a, NEW v, LastSettles(s, u, a, v)
    PROVE  ~NothingPending(s, u, a)
BY DEF LastSettles, NothingPending

-----------------------------------------------------------------------------
(* What the operations of the devices list do to what it agrees on.        *)

LEMMA AddAgrees ==
    ASSUME NEW list \in Seq(Entry), NEW u \in Udis, NEW p \in CopyProps,
           NEW w, NEW a, NEW v
    PROVE  LET new == AddDevice(list, u, p)
           IN  /\ w # u /\ Agrees(list, w, a, v) => Agrees(new, w, a, v)
               /\ (a # There => v = p[a]) => Agrees(new, u, a, v)
<1>. DEFINE new == AddDevice(list, u, p)
<1>1. /\ FirstAt(new, u, 1)
      /\ new[1].props = p
      /\ \A x, i : x # u /\ FirstAt(list, x, i)
            => FirstAt(new, x, i + 1) /\ new[i + 1] = list[i]
  BY AddDeviceFirst
<1>. HIDE DEF new
<1>2. w # u /\ Agrees(list, w, a, v) => Agrees(new, w, a, v)
  BY <1>1 DEF Agrees, FirstAt
<1>3. (a # There => v = p[a]) => Agrees(new, u, a, v)
  BY <1>1 DEF Agrees, FirstAt
<1>. QED  BY <1>2, <1>3 DEF new

LEMMA RemoveAgrees ==
    ASSUME NEW list \in Seq(Entry), NEW u, NEW w, NEW a, NEW v,
           w # u, Agrees(list, w, a, v)
    PROVE  Agrees(RemoveDevice(list, u), w, a, v)
<1>. DEFINE new == RemoveDevice(list, u)
<1>1. \A x, i : x # u /\ FirstAt(list, x, i)
        => \E j \in DOMAIN new : FirstAt(new, x, j) /\ new[j] = list[i]
  BY RemoveDeviceFirst
<1>. HIDE DEF new
<1>2. Agrees(new, w, a, v)
  BY <1>1 DEF Agrees
<1>. QED  BY <1>2 DEF new

-----------------------------------------------------------------------------
(* Steps of HAL.                                                           *)

LEMMA PendingType == TypeOK => Pending \in Seq(Signal)
<1>1. ASSUME TypeOK, job \in Signal
      PROVE  <<job>> \o bus \in Seq(Signal)
  <2>1. <<job>> \in Seq(Signal)
    BY <1>1
  <2>. QED  BY <1>1, <2>1, ConcatProperties DEF TypeOK
<1>. QED  BY <1>1 DEF Pending, TypeOK

(* A signal joins the end of what is pending.                              *)
LEMMA HalPending ==
    ASSUME TypeOK, NEW new, NEW w, NEW m \in Signal, HalActs(new, w, m)
    PROVE  Pending' = IF w THEN Append(Pending, m) ELSE Pending
<1>1. job' = job /\ bus' = IF w THEN Append(bus, m) ELSE bus
  BY DEF HalActs
<1>2. CASE job \in Signal
  <2>1. <<job>> \in Seq(Signal) /\ <<m>> \in Seq(Signal) /\ bus \in Seq(Signal)
    BY <1>2 DEF TypeOK
  <2>2. Append(bus, m) = bus \o <<m>>
    BY <2>1, AppendIsConcat
  <2>3. Append(<<job>> \o bus, m) = (<<job>> \o bus) \o <<m>>
    BY <2>1, ConcatProperties, AppendIsConcat
  <2>4. (<<job>> \o bus) \o <<m>> = <<job>> \o (bus \o <<m>>)
    BY <2>1, ConcatAssociative
  <2>. QED  BY <1>1, <1>2, <2>2, <2>3, <2>4 DEF Pending
<1>3. CASE job \notin Signal
  BY <1>1, <1>3 DEF Pending
<1>. QED  BY <1>2, <1>3

Settled(s, u, a, v) == NothingPending(s, u, a) \/ LastSettles(s, u, a, v)

(* What has to be said of a pair of device and aspect when HAL acts: the   *)
(* signal tells how things are now, or is about something else, or is not  *)
(* sent because the daemon does not watch yet.                             *)
HalSettles(w, m, u, a) ==
    \/ w /\ Concerns(m, u, a) /\ Settles(m, HalHas(u, a)')
    \/ ~Concerns(m, u, a) /\ u \in Present /\ HalHas(u, a)' = HalHas(u, a)
    \/ /\ ~w /\ phase \in {"start", "ctx", "crashed"}
       /\ phase # "crashed" => Settled(Pending, u, a, HalHas(u, a)')

LEMMA HalStep ==
    ASSUME TypeOK, SignalsSettle, MirrorCurrent,
           NEW new, NEW w, NEW m \in Signal, HalActs(new, w, m),
           \A u \in Present', a \in Aspects : HalSettles(w, m, u, a)
    PROVE  SignalsSettle' /\ MirrorCurrent'
<1>1. Pending \in Seq(Signal)
  BY PendingType
<1>2. Pending' = IF w THEN Append(Pending, m) ELSE Pending
  BY HalPending
<1>3. phase' = phase /\ todo' = todo /\ devices' = devices
  BY DEF HalActs
<1>4. ASSUME NEW u \in Present', NEW a \in Aspects, phase # "crashed"
      PROVE  Settled(Pending', u, a, HalHas(u, a)')
  <2>1. CASE w /\ Concerns(m, u, a) /\ Settles(m, HalHas(u, a)')
    BY <1>1, <1>2, <2>1, AppendSettles DEF Settled
  <2>2. CASE ~Concerns(m, u, a) /\ u \in Present /\ HalHas(u, a)' = HalHas(u, a)
    <3>1. Settled(Pending, u, a, HalHas(u, a))
      BY <1>4, <2>2 DEF SignalsSettle, Settled
    <3>. QED  BY <1>1, <1>2, <2>2, <3>1, AppendOther DEF Settled
  <2>3. CASE ~w /\ Settled(Pending, u, a, HalHas(u, a)')
    BY <1>2, <2>3
  <2>. QED  BY <1>4, <2>1, <2>2, <2>3 DEF HalSettles
<1>5. ASSUME NEW u \in Present', NEW a \in Aspects,
             phase \in {"setup", "oninit", "loop"},
             NothingPending(Pending', u, a)
      PROVE  Agrees(devices, u, a, HalHas(u, a)') \/ (phase = "setup" /\ u \in todo)
  <2>1. CASE w /\ Concerns(m, u, a)
    BY <1>1, <1>2, <1>5, <2>1, AppendSettles
  <2>2. CASE ~Concerns(m, u, a) /\ u \in Present /\ HalHas(u, a)' = HalHas(u, a)
    <3>1. NothingPending(Pending, u, a)
      BY <1>1, <1>2, <1>5, <2>2, AppendOther
    <3>. QED  BY <1>5, <2>2, <3>1 DEF MirrorCurrent
  <2>. QED  BY <1>5, <2>1, <2>2 DEF HalSettles
<1>6. SignalsSettle'
  BY <1>3, <1>4 DEF SignalsSettle, Settled
<1>7. MirrorCurrent'
  BY <1>3, <1>5 DEF MirrorCurrent
<1>. QED  BY <1>6, <1>7

(* No signal is sent before the daemon has subscribed to its kind.         *)
LEMMA HalEarly ==
    ASSUME TypeOK, EarlySignals, NEW new, NEW w, NEW m \in Signal,
           HalActs(new, w, m),
           w => phase # "start" /\ (m.type = "property" => phase # "ctx")
    PROVE  EarlySignals'
<1>1. phase' = phase /\ bus' = IF w THEN Append(bus, m) ELSE bus
  BY DEF HalActs
<1>2. CASE ~w
  BY <1>1, <1>2 DEF EarlySignals
<1>3. CASE w
  <2>1. bus \in Seq(Signal)
    BY DEF TypeOK
  <2>2. \A i \in DOMAIN bus' : bus'[i] = m \/ (i \in DOMAIN bus /\ bus'[i] = bus[i])
    BY <1>1, <1>3, <2>1, AppendProperties
  <2>. QED  BY <1>1, <1>3, <2>2 DEF EarlySignals
<1>. QED  BY <1>2, <1>3

LEMMA OtherDevice ==
    ASSUME TypeOK, NEW u \in Udis, NEW x,
           gdl' = [gdl EXCEPT ![u] = x],
           NEW w \in Present', w # u, NEW a
    PROVE  w \in Present /\ HalHas(w, a)' = HalHas(w, a)
<1>1. w \in Udis /\ gdl'[w] = gdl[w] /\ gdl'[w] # NoDevice
  BY DEF Present, TypeOK
<1>. QED  BY <1>1 DEF Present, HalHas

(* Before the daemon has subscribed to anything nothing is pending.        *)
LEMMA StartQuiet ==
    ASSUME HandlerOK, EarlySignals, phase = "start", NEW u, NEW a
    PROVE  NothingPending(Pending, u, a)
<1>1. Pending = <<>>
  BY DEF HandlerOK, EarlySignals, Pending
<1>. QED  BY <1>1 DEF NothingPending

LEMMA HalKeeps ==
    ASSUME IInv, Hal
    PROVE  EarlySignals' /\ SignalsSettle' /\ MirrorCurrent'
<1>. USE DEF IInv
<1>1. /\ ~ManagerWatched => phase \in {"start", "crashed"}
      /\ ~DevicesWatched => phase \in {"start", "ctx", "crashed"}
      /\ ManagerWatched => phase # "start"
      /\ DevicesWatched => phase \notin {"start", "ctx"}
  BY DEF ManagerWatched, DevicesWatched, TypeOK, Phases
<1>2. ASSUME NEW u \in Udis, HalAdd(u)
      PROVE  EarlySignals' /\ SignalsSettle' /\ MirrorCurrent'
  <2>. DEFINE m == [type |-> "added", udi |-> u]
  <2>1. PICK p \in Profiles : HalActs([gdl EXCEPT ![u] = p], ManagerWatched, m)
    BY <1>2 DEF HalAdd
  <2>2. m \in Signal /\ m.type = "added" /\ m.udi = u
    BY SignalKinds
  <2>3. gdl' = [gdl EXCEPT ![u] = p]
    BY <2>1 DEF HalActs
  <2>. HIDE DEF m
  <2>4. ASSUME NEW w \in Present', NEW a \in Aspects
        PROVE  HalSettles(ManagerWatched, m, w, a)
    <3>1. CASE w = u
      BY <1>1, <2>2, <3>1, StartQuiet DEF HalSettles, Concerns, Settles, Settled
    <3>2. CASE w # u
      BY <2>2, <2>3, <3>2, OtherDevice DEF HalSettles, Concerns
    <3>. QED  BY <3>1, <3>2
  <2>5. SignalsSettle' /\ MirrorCurrent'
    BY <2>1, <2>2, <2>4, HalStep
  <2>6. EarlySignals'
    BY <1>1, <2>1, <2>2, HalEarly
  <2>. QED  BY <2>5, <2>6
<1>3. ASSUME NEW u \in Udis, HalRemove(u)
      PROVE  EarlySignals' /\ SignalsSettle' /\ MirrorCurrent'
  <2>. DEFINE m == [type |-> "removed", udi |-> u, was |-> gdl[u]]
  <2>1. HalActs([gdl EXCEPT ![u] = NoDevice], ManagerWatched, m)
    BY <1>3 DEF HalRemove
  <2>2. m \in Signal /\ m.type = "removed" /\ m.udi = u
    <3>1. gdl[u] \in Props
      BY <1>3 DEF HalRemove, TypeOK
    <3>. QED  BY <3>1, SignalKinds
  <2>3. gdl' = [gdl EXCEPT ![u] = NoDevice]
    BY <2>1 DEF HalActs
  <2>. HIDE DEF m
  <2>4. ASSUME NEW w \in Present', NEW a \in Aspects
        PROVE  HalSettles(ManagerWatched, m, w, a)
    <3>1. w # u
      BY <2>3 DEF Present, TypeOK
    <3>. QED  BY <2>2, <2>3, <3>1, OtherDevice DEF HalSettles, Concerns
  <2>5. SignalsSettle' /\ MirrorCurrent'
    BY <2>1, <2>2, <2>4, HalStep
  <2>6. EarlySignals'
    BY <1>1, <2>1, <2>2, HalEarly
  <2>. QED  BY <2>5, <2>6
<1>4. ASSUME NEW u \in Udis, NEW k \in Keys, NEW v \in Values \cup {NoKey},
             HalSetProperty(u, k, v)
      PROVE  EarlySignals' /\ SignalsSettle' /\ MirrorCurrent'
  <2>. DEFINE m == [type |-> "property", udi |-> u, key |-> k, value |-> v]
  <2>1. HalActs([gdl EXCEPT ![u][k] = v], DevicesWatched, m)
    BY <1>4 DEF HalSetProperty
  <2>2. m \in Signal /\ m.type = "property" /\ m.udi = u /\ m.key = k /\ m.value = v
    BY SignalKinds
  <2>3. gdl' = [gdl EXCEPT ![u][k] = v]
    BY <2>1 DEF HalActs
  <2>. HIDE DEF m
  <2>4. gdl[u] \in [Keys -> Values \cup {NoKey}] /\ u \in Present
    BY <1>4 DEF HalSetProperty, TypeOK, Props, Present
  <2>5. k # There /\ ~Concerns(m, u, There)
    BY <2>2, ConstantsAssumption DEF There, Concerns
  <2>6. ASSUME NEW w \in Present', NEW a \in Aspects
        PROVE  HalSettles(DevicesWatched, m, w, a)
    <3>1. CASE w # u
      <4>1. gdl' = [gdl EXCEPT ![u] = [gdl[u] EXCEPT ![k] = v]]
        BY <2>3
      <4>. QED  BY <2>2, <3>1, <4>1, OtherDevice DEF HalSettles, Concerns
    <3>2. CASE w = u /\ a # k
      <4>1. a # There => gdl'[u][a] = gdl[u][a]
        BY <2>3, <2>4, <3>2 DEF Aspects, TypeOK
      <4>2. HalHas(u, a)' = HalHas(u, a)
        BY <4>1 DEF HalHas
      <4>. QED  BY <2>2, <2>4, <3>2, <4>2 DEF HalSettles, Concerns
    <3>3. CASE w = u /\ a = k
      <4>1. HalHas(u, k)' = v
        BY <2>3, <2>4, <2>5 DEF HalHas, TypeOK
      <4>2. CASE DevicesWatched
        BY <2>2, <3>3, <4>1, <4>2 DEF HalSettles, Concerns, Settles
      <4>3. CASE ~DevicesWatched /\ phase # "crashed"
        <5>1. Pending = bus /\ \A i \in DOMAIN bus : bus[i].type # "property"
          BY <1>1, <4>3 DEF HandlerOK, EarlySignals, Pending
        <5>2. Settled(Pending, u, k, HalHas(u, k))
          BY <2>4, <4>3 DEF SignalsSettle, Settled, Aspects
        <5>3. Settled(Pending, u, k, v)
          BY <5>1, <5>2 DEF Settled, LastSettles, Settles
        <5>. QED  BY <1>1, <3>3, <4>1, <4>3, <5>3 DEF HalSettles
      <4>4. CASE ~DevicesWatched /\ phase = "crashed"
        BY <4>4 DEF HalSettles
      <4>. QED  BY <4>2, <4>3, <4>4
    <3>. QED  BY <3>1, <3>2, <3>3
  <2>7. SignalsSettle' /\ MirrorCurrent'
    BY <2>1, <2>2, <2>6, HalStep
  <2>8. EarlySignals'
    BY <1>1, <2>1, <2>2, HalEarly
  <2>. QED  BY <2>7, <2>8
<1>5. ASSUME NEW u \in Udis, NEW w \in BOOLEAN, NEW m \in Signal, HalActs(gdl, w, m),
             w => phase # "start", m.type \in {"condition", "capability"}
      PROVE  EarlySignals' /\ SignalsSettle' /\ MirrorCurrent'
  <2>1. gdl' = gdl
    BY <1>5 DEF HalActs
  <2>2. \A x \in Present', a \in Aspects : HalSettles(w, m, x, a)
    BY <1>5, <2>1 DEF HalSettles, Concerns, HalHas, Present
  <2>3. SignalsSettle' /\ MirrorCurrent'
    BY <1>5, <2>2, HalStep
  <2>4. EarlySignals'
    BY <1>5, HalEarly
  <2>. QED  BY <2>3, <2>4
<1>6. ManagerWatched \in BOOLEAN /\ DevicesWatched \in BOOLEAN
  BY DEF ManagerWatched, DevicesWatched
<1>7. ASSUME NEW u \in Udis, NEW c \in Conditions, HalCondition(u, c)
      PROVE  EarlySignals' /\ SignalsSettle' /\ MirrorCurrent'
  <2>. DEFINE m == [type |-> "condition", udi |-> u, condition |-> c]
  <2>1. HalActs(gdl, DevicesWatched, m)
    BY <1>7 DEF HalCondition
  <2>2. m \in Signal /\ m.type = "condition"
    BY SignalKinds
  <2>. QED  BY <1>1, <1>5, <1>6, <2>1, <2>2
<1>8. ASSUME NEW u \in Udis, HalCapability(u)
      PROVE  EarlySignals' /\ SignalsSettle' /\ MirrorCurrent'
  <2>. DEFINE m == [type |-> "capability", udi |-> u]
  <2>1. HalActs(gdl, ManagerWatched, m)
    BY <1>8 DEF HalCapability
  <2>2. m \in Signal /\ m.type = "capability"
    BY SignalKinds
  <2>. QED  BY <1>1, <1>5, <1>6, <2>1, <2>2
<1>. QED  BY <1>2, <1>3, <1>4, <1>7, <1>8 DEF Hal

-----------------------------------------------------------------------------
(* Steps of the daemon.                                                    *)

(* A step that changes nothing the claims are about.                       *)
LEMMA QuietStep ==
    ASSUME SignalsSettle, MirrorCurrent,
           UNCHANGED <<gdl, phase, todo, devices>>, Pending' = Pending
    PROVE  SignalsSettle' /\ MirrorCurrent'
BY DEF SignalsSettle, MirrorCurrent, Present, HalHas

(* The end of the handler of a signal: what the signal told is now known.  *)
LEMMA EndStep ==
    ASSUME IInv, job \in Signal, job' = NoJob,
           UNCHANGED <<gdl, phase, todo, bus>>,
           \A u \in Present, a \in Aspects :
              \/ /\ ~Concerns(job, u, a)
                 /\ Agrees(devices, u, a, HalHas(u, a))
                       => Agrees(devices', u, a, HalHas(u, a))
              \/ /\ Concerns(job, u, a)
                 /\ Settles(job, HalHas(u, a)) /\ NothingPending(bus, u, a)
                       => Agrees(devices', u, a, HalHas(u, a))
    PROVE  EarlySignals' /\ SignalsSettle' /\ MirrorCurrent'
<1>. USE DEF IInv
<1>1. phase = "loop" /\ Pending = <<job>> \o bus /\ bus \in Seq(Signal)
  BY DEF HandlerOK, Pending, TypeOK
<1>2. Pending' = bus
  BY ConstantsAssumption DEF Pending
<1>3. \A u \in Present, a \in Aspects :
        NothingPending(Pending, u, a) \/ LastSettles(Pending, u, a, HalHas(u, a))
  BY <1>1 DEF SignalsSettle
<1>4. \A u \in Present, a \in Aspects :
        NothingPending(Pending, u, a) => Agrees(devices, u, a, HalHas(u, a))
  BY <1>1 DEF MirrorCurrent
<1>5. ASSUME NEW u \in Present, NEW a \in Aspects
      PROVE  /\ NothingPending(bus, u, a) \/ LastSettles(bus, u, a, HalHas(u, a))
             /\ NothingPending(bus, u, a) => Agrees(devices', u, a, HalHas(u, a))
  <2>1. /\ NothingPending(Pending, u, a)
              <=> NothingPending(bus, u, a) /\ ~Concerns(job, u, a)
        /\ LastSettles(Pending, u, a, HalHas(u, a))
              => \/ LastSettles(bus, u, a, HalHas(u, a))
                 \/ /\ NothingPending(bus, u, a)
                    /\ Concerns(job, u, a)
                    /\ Settles(job, HalHas(u, a))
    BY <1>1, Handled
  <2>2. LastSettles(bus, u, a, HalHas(u, a)) => ~NothingPending(bus, u, a)
    BY SettledPending
  <2>. QED  BY <1>3, <1>4, <2>1, <2>2
<1>6. Present' = Present /\ \A u, a : HalHas(u, a)' = HalHas(u, a)
  BY DEF Present, HalHas
<1>7. SignalsSettle' /\ MirrorCurrent'
  BY <1>1, <1>2, <1>5, <1>6 DEF SignalsSettle, MirrorCurrent
<1>. QED  BY <1>7 DEF EarlySignals

(* The device whose property signal is handled is listed, unless a signal  *)
(* that is still waiting adds or removes it.                               *)
LEMMA ListedWhenSettled ==
    ASSUME IInv, job \in Signal, job.type = "property", job.udi \in Present,
           NothingPending(bus, job.udi, job.key)
    PROVE  Listed(devices, job.udi)
<1>. USE DEF IInv
<1>1. phase = "loop" /\ Pending = <<job>> \o bus /\ bus \in Seq(Signal)
  BY DEF HandlerOK, Pending, TypeOK
<1>2. job.key \in Keys /\ job.key # There
  BY JobShape, ConstantsAssumption DEF There
<1>3. \A i \in DOMAIN bus : bus[i] \in Signal
  BY <1>1, LenProperties, ElementOfSeq
<1>4. \A i \in DOMAIN bus : bus[i].type = "property" => bus[i].key # There
  BY <1>3, JobShape, ConstantsAssumption DEF There
<1>5. NothingPending(bus, job.udi, There)
  BY <1>4 DEF NothingPending, Concerns
<1>6. ~Concerns(job, job.udi, There)
  BY <1>2 DEF Concerns
<1>7. NothingPending(Pending, job.udi, There)
  BY <1>1, <1>5, <1>6, Handled
<1>8. Agrees(devices, job.udi, There, HalHas(job.udi, There))
  BY <1>1, <1>7 DEF MirrorCurrent, Aspects
<1>. QED  BY <1>8 DEF Agrees, Listed

LEMMA DaemonKeeps ==
    ASSUME IInv, Daemon
    PROVE  HandlerOK' /\ EarlySignals' /\ SignalsSettle' /\ MirrorCurrent'
<1>. USE DEF IInv, halVars, handler
<1>. DEFINE Kept == EarlySignals' /\ SignalsSettle' /\ MirrorCurrent'
<1>1. NoJob \notin Signal /\ NoJob \notin InitJob
  BY ConstantsAssumption
<1>2. CASE CtxInit \/ WatchAll
  <2>1. /\ phase' \in {"ctx", "watching"} /\ phase # "crashed"
        /\ phase' = "ctx" => phase = "start"
        /\ UNCHANGED <<gdl, bus, job, stage>>
    BY <1>2 DEF CtxInit, WatchAll
  <2>2. job \notin Signal
    BY <1>2 DEF CtxInit, WatchAll, HandlerOK
  <2>3. SignalsSettle' /\ MirrorCurrent'
    BY <2>1 DEF SignalsSettle, MirrorCurrent, Pending, Present, HalHas
  <2>4. EarlySignals' /\ HandlerOK'
    BY <2>1, <2>2 DEF EarlySignals, HandlerOK
  <2>. QED  BY <2>3, <2>4
<1>3. CASE GetAllDevices \/ MainLoop
  <2>1. /\ \/ phase = "watching" /\ phase' = "setup" /\ todo' = Present
           \/ phase = "setup" /\ todo = {} /\ phase' = "oninit"
           \/ phase = "oninit" /\ phase' = "loop"
        /\ UNCHANGED <<gdl, bus, job, stage, devices>>
    BY <1>3 DEF GetAllDevices, MainLoop
  <2>2. job \notin Signal
    BY <2>1 DEF HandlerOK
  <2>3. SignalsSettle'
    BY <2>1 DEF SignalsSettle, Pending, Present, HalHas
  <2>4. MirrorCurrent'
    BY <2>1 DEF MirrorCurrent, Pending, Present, HalHas
  <2>5. EarlySignals' /\ HandlerOK'
    BY <2>1, <2>2 DEF EarlySignals, HandlerOK
  <2>. QED  BY <2>3, <2>4, <2>5
<1>4. CASE NextDevice
  <2>1. PICK u \in todo : BeginJob([type |-> "oninit", udi |-> u])
    BY <1>4 DEF NextDevice
  <2>2. job' \in InitJob /\ job \notin Signal
    <3>1. u \in Udis
      BY DEF TypeOK
    <3>. QED  BY <1>1, <1>4, <2>1, <3>1, SignalKinds DEF NextDevice, BeginJob
  <2>3. job' \notin Signal
    BY <2>2, JobShape
  <2>4. Pending' = Pending
    BY <1>4, <2>2, <2>3 DEF NextDevice, Pending
  <2>5. SignalsSettle' /\ MirrorCurrent'
    BY <1>4, <2>4, QuietStep DEF NextDevice
  <2>6. EarlySignals' /\ HandlerOK'
    BY <1>4, <2>1, <2>3 DEF NextDevice, BeginJob, EarlySignals, HandlerOK
  <2>. QED  BY <2>5, <2>6
<1>5. CASE Dispatch
  <2>1. /\ phase = "loop" /\ job = NoJob /\ bus' = Tail(bus)
        /\ UNCHANGED <<gdl, phase, todo, devices>>
    BY <1>5 DEF Dispatch
  <2>2. /\ bus \in Seq(Signal) /\ bus # <<>>
        /\ Head(bus) \in Signal /\ Tail(bus) \in Seq(Signal)
        /\ <<Head(bus)>> \o Tail(bus) = bus
    BY <1>5, HeadTailProperties, HeadTailConcat DEF Dispatch, TypeOK
  <2>3. Pending = bus
    BY <1>1, <2>1 DEF Pending
  <2>4. EarlySignals'
    BY <2>1 DEF EarlySignals
  <2>5. CASE Head(bus).type = "capability"
    <3>1. job' = job /\ stage' = stage
      BY <1>5, <2>5 DEF Dispatch
    <3>2. Pending' = Tail(bus)
      BY <1>1, <2>1, <3>1 DEF Pending
    <3>3. \A u, a : ~Concerns(Head(bus), u, a)
      BY <2>5 DEF Concerns
    <3>4. \A u, a, v :
            /\ NothingPending(bus, u, a) <=> NothingPending(Tail(bus), u, a)
            /\ LastSettles(bus, u, a, v) => LastSettles(Tail(bus), u, a, v)
      BY <2>2, <3>3, Handled
    <3>5. SignalsSettle' /\ MirrorCurrent'
      BY <2>1, <2>3, <3>2, <3>4 DEF SignalsSettle, MirrorCurrent, Present, HalHas
    <3>. QED  BY <2>1, <2>4, <3>1, <3>5 DEF HandlerOK
  <2>6. CASE Head(bus).type # "capability"
    <3>1. BeginJob(Head(bus))
      BY <1>5, <2>6 DEF Dispatch
    <3>2. Pending' = Pending
      BY <2>1, <2>2, <2>3, <3>1 DEF Pending, BeginJob
    <3>3. SignalsSettle' /\ MirrorCurrent'
      BY <2>1, <3>2, QuietStep
    <3>. QED  BY <2>1, <2>4, <3>1, <3>3 DEF HandlerOK, BeginJob
  <2>. QED  BY <2>5, <2>6
<1>6. CASE SkipRule \/ TryLiteral \/ TryAction \/ RunCommand
  <2>1. /\ UNCHANGED <<gdl, changes, bus, phase, todo, job, devices>>
        /\ stage' # "read" \/ UNCHANGED stage
    BY <1>6, WalkType
  <2>2. Pending' = Pending
    BY <2>1 DEF Pending
  <2>3. SignalsSettle' /\ MirrorCurrent'
    BY <2>1, <2>2, QuietStep
  <2>. QED  BY <2>1, <2>3 DEF HandlerOK, EarlySignals
<1>7. CASE Crash
  BY <1>1, <1>7 DEF Crash, EndJob, HandlerOK, EarlySignals, SignalsSettle, MirrorCurrent
<1>8. ASSUME EndJob
      PROVE  HandlerOK'
  BY <1>1, <1>8 DEF EndJob, HandlerOK
<1>9. CASE ListDevice
  <2>1. /\ job \in Signal \cup InitJob /\ job.type \in {"oninit", "added"}
        /\ devices' = IF gdl[job.udi] # NoDevice
                      THEN AddDevice(devices, job.udi, gdl[job.udi]) ELSE devices
        /\ todo' = IF job.type = "oninit" THEN todo \ {job.udi} ELSE todo
        /\ job' = NoJob
        /\ UNCHANGED <<gdl, phase, bus>>
    BY <1>9 DEF ListDevice, EndJob, TypeOK
  <2>2. job.udi \in Udis /\ devices \in Seq(Entry)
    BY <2>1, JobShape DEF TypeOK
  <2>3. ASSUME NEW u \in Present, NEW a, u # job.udi,
               Agrees(devices, u, a, HalHas(u, a))
        PROVE  Agrees(devices', u, a, HalHas(u, a))
    <3>1. CASE gdl[job.udi] # NoDevice
      <4>1. gdl[job.udi] \in CopyProps
        BY <2>2, <3>1, PropsAreCopies DEF TypeOK
      <4>. QED  BY <2>1, <2>2, <2>3, <3>1, <4>1, AddAgrees
    <3>. QED  BY <2>1, <2>3, <3>1
  <2>4. ASSUME job.udi \in Present, NEW a \in Aspects
        PROVE  Agrees(devices', job.udi, a, HalHas(job.udi, a))
    <3>1. gdl[job.udi] \in CopyProps /\ gdl[job.udi] # NoDevice
      BY <2>2, <2>4, PropsAreCopies DEF TypeOK, Present
    <3>2. a # There => HalHas(job.udi, a) = gdl[job.udi][a]
      BY DEF HalHas
    <3>. QED  BY <2>1, <2>2, <3>1, <3>2, AddAgrees
  <2>5. CASE job \in Signal
    <3>1. todo' = todo /\ job.type = "added"
      BY <2>1, <2>5, JobShape
    <3>2. \A u \in Present, a \in Aspects :
            Concerns(job, u, a) <=> u = job.udi
      BY <3>1 DEF Concerns
    <3>3. Kept
      BY <2>1, <2>3, <2>4, <2>5, <3>1, <3>2, EndStep
    <3>. QED  BY <1>8, <1>9, <3>3 DEF ListDevice
  <2>6. CASE job \notin Signal
    <3>1. todo' = todo \ {job.udi}
      BY <2>1, <2>6, JobShape
    <3>2. Pending' = Pending
      BY <1>1, <2>1, <2>6 DEF Pending
    <3>3. Present' = Present /\ \A u, a : HalHas(u, a)' = HalHas(u, a)
      BY <2>1 DEF Present, HalHas
    <3>4. SignalsSettle'
      BY <2>1, <3>2, <3>3 DEF SignalsSettle
    <3>5. MirrorCurrent'
      BY <2>1, <2>3, <2>4, <3>1, <3>2, <3>3 DEF MirrorCurrent
    <3>6. EarlySignals'
      BY <2>1 DEF EarlySignals
    <3>. QED  BY <1>8, <1>9, <3>4, <3>5, <3>6 DEF ListDevice
  <2>. QED  BY <2>5, <2>6
<1>10. CASE UnlistDevice
  <2>1. /\ job \in Signal /\ job.type = "removed"
        /\ devices' = RemoveDevice(devices, job.udi)
        /\ job' = NoJob
        /\ UNCHANGED <<gdl, phase, todo, bus>>
    BY <1>10, JobShape DEF UnlistDevice, EndJob, TypeOK
  <2>2. devices \in Seq(Entry)
    BY DEF TypeOK
  <2>3. ASSUME NEW u \in Present, NEW a \in Aspects
        PROVE  \/ /\ ~Concerns(job, u, a)
                  /\ Agrees(devices, u, a, HalHas(u, a))
                        => Agrees(devices', u, a, HalHas(u, a))
               \/ Concerns(job, u, a) /\ ~Settles(job, HalHas(u, a))
    <3>1. CASE u = job.udi
      BY <2>1, <3>1 DEF Concerns, Settles
    <3>2. CASE u # job.udi
      BY <2>1, <2>2, <3>2, RemoveAgrees DEF Concerns
    <3>. QED  BY <3>1, <3>2
  <2>4. Kept
    BY <2>1, <2>3, EndStep
  <2>. QED  BY <1>8, <1>10, <2>4 DEF UnlistDevice
<1>11. ASSUME job \in Signal, job.type = "property", job' = NoJob,
              UNCHANGED <<gdl, phase, todo, bus>>,
              NEW v \in Values \cup {NoKey, Null},
              devices' = SetProperty(devices, job.udi, job.key, v),
              job.udi \in Present /\ job.value = gdl[job.udi][job.key]
                => v = gdl[job.udi][job.key]
       PROVE  Kept
  <2>1. job.key \in Keys /\ job.key # There /\ devices \in Seq(Entry)
    BY <1>11, JobShape, ConstantsAssumption DEF There, TypeOK
  <2>2. ASSUME NEW u \in Present, NEW a \in Aspects
        PROVE  \/ /\ ~Concerns(job, u, a)
                  /\ Agrees(devices, u, a, HalHas(u, a))
                        => Agrees(devices', u, a, HalHas(u, a))
               \/ /\ Concerns(job, u, a)
                  /\ Settles(job, HalHas(u, a)) /\ NothingPending(bus, u, a)
                        => Agrees(devices', u, a, HalHas(u, a))
    <3>1. CASE u = job.udi /\ a = job.key
      <4>1. Concerns(job, u, a) /\ HalHas(u, a) = gdl[u][a]
        BY <1>11, <2>1, <3>1 DEF Concerns, HalHas
      <4>2. ASSUME Settles(job, gdl[u][a]), NothingPending(bus, u, a)
            PROVE  Agrees(devices', u, a, gdl[u][a])
        <5>1. v = gdl[u][a]
          BY <1>11, <2>2, <3>1, <4>2 DEF Settles
        <5>2. Listed(devices, job.udi)
          BY <1>11, <2>2, <3>1, <4>2, ListedWhenSettled
        <5>. QED  BY <1>11, <2>1, <3>1, <5>1, <5>2, SetPropertyAgrees
      <4>. QED  BY <4>1, <4>2
    <3>2. CASE ~(u = job.udi /\ a = job.key)
      BY <1>11, <2>1, <3>2, SetPropertyAgrees DEF Concerns
    <3>. QED  BY <3>1, <3>2
  <2>. QED  BY <1>11, <2>2, EndStep
<1>12. CASE UnlistProperty
  <2>1. job \in Signal
    BY <1>12, JobShape DEF UnlistProperty, TypeOK
  <2>2. Kept
    BY <1>11, <1>12, <2>1 DEF UnlistProperty, EndJob, RemoveProperty
  <2>. QED  BY <1>8, <1>12, <2>2 DEF UnlistProperty
<1>13. CASE SetPropertyExists
  <2>1. /\ job \in Signal /\ job.type = "property" /\ job.value # NoKey
        /\ UNCHANGED <<gdl, phase, todo, bus, devices>>
    BY <1>13, JobShape DEF SetPropertyExists, TypeOK
  <2>2. CASE Listed(devices, job.udi) /\ LiveExists(gdl, job.udi, job.key)
    <3>1. job' = job /\ stage' = "read"
      BY <1>13, <2>2 DEF SetPropertyExists
    <3>2. Pending' = Pending
      BY <2>1, <3>1 DEF Pending
    <3>3. SignalsSettle' /\ MirrorCurrent'
      BY <2>1, <3>2, QuietStep
    <3>. QED  BY <2>1, <3>1, <3>3 DEF HandlerOK, EarlySignals
  <2>3. CASE ~(Listed(devices, job.udi) /\ LiveExists(gdl, job.udi, job.key))
    <3>1. EndJob
      BY <1>13, <2>3 DEF SetPropertyExists
    <3>2. ASSUME NEW u \in Present, NEW a \in Aspects, Concerns(job, u, a),
                 Settles(job, HalHas(u, a)), NothingPending(bus, u, a)
          PROVE  FALSE
      <4>1. u = job.udi /\ a = job.key /\ job.key # There /\ job.udi \in Udis
        BY <2>1, <3>2, JobShape, ConstantsAssumption DEF Concerns, There
      <4>2. gdl[u][a] = job.value
        BY <2>1, <3>2, <4>1 DEF Settles, HalHas
      <4>3. LiveExists(gdl, job.udi, job.key)
        BY <2>1, <3>2, <4>1, <4>2 DEF LiveExists, Present
      <4>4. Listed(devices, job.udi)
        BY <2>1, <3>2, <4>1, ListedWhenSettled
      <4>. QED  BY <2>3, <4>3, <4>4
    <3>3. Kept
      BY <2>1, <3>1, <3>2, EndStep DEF EndJob
    <3>. QED  BY <1>8, <3>1, <3>3
  <2>. QED  BY <2>2, <2>3
<1>14. CASE SetPropertyRead
  <2>1. /\ job \in Signal /\ job.type = "property" /\ job.value # NoKey
        /\ job.udi \in Udis /\ job.key \in Keys
    BY <1>14, JobShape DEF SetPropertyRead, HandlerOK
  <2>. DEFINE v == IF LiveExists(gdl, job.udi, job.key)
                   THEN gdl[job.udi][job.key] ELSE Null
  <2>2. v \in Values \cup {NoKey, Null}
    BY <2>1 DEF LiveExists, TypeOK, Props
  <2>3. job.udi \in Present /\ job.value = gdl[job.udi][job.key]
          => v = gdl[job.udi][job.key]
    BY <2>1 DEF LiveExists, Present
  <2>4. /\ devices' = SetProperty(devices, job.udi, job.key, v)
        /\ job' = NoJob /\ UNCHANGED <<gdl, phase, todo, bus>>
    BY <1>14 DEF SetPropertyRead, EndJob
  <2>. HIDE DEF v
  <2>5. Kept
    BY <1>11, <2>1, <2>2, <2>3, <2>4
  <2>. QED  BY <1>8, <1>14, <2>5 DEF SetPropertyRead
<1>15. CASE EndCondition
  <2>1. /\ job \in Signal /\ job.type = "condition"
        /\ UNCHANGED <<gdl, phase, todo, bus, devices>> /\ job' = NoJob
    BY <1>15, JobShape DEF EndCondition, EndJob, TypeOK
  <2>2. Kept
    BY <2>1, EndStep DEF Concerns
  <2>. QED  BY <1>8, <1>15, <2>2 DEF EndCondition
<1>. QED
  BY <1>2, <1>3, <1>4, <1>5, <1>6, <1>7, <1>9, <1>10, <1>12, <1>13, <1>14, <1>15
  DEF Daemon

-----------------------------------------------------------------------------
(* The theorems.                                                           *)

LEMMA InitInv == Init => IInv
<1>1. Init => TypeOK
  BY InitType
<1>2. Init => HandlerOK /\ EarlySignals /\ SignalsSettle /\ MirrorCurrent
  <2>1. ASSUME Init
        PROVE  Pending = <<>>
    BY <2>1, ConstantsAssumption DEF Init, Pending
  <2>. QED
    BY <2>1, ConstantsAssumption
    DEF Init, HandlerOK, EarlySignals, SignalsSettle, MirrorCurrent, NothingPending
<1>. QED  BY <1>1, <1>2 DEF IInv

LEMMA NextInv == IInv /\ [Next]_vars => IInv'
<1>1. ASSUME IInv, Hal
      PROVE  IInv'
  <2>1. HandlerOK'
    <3>1. UNCHANGED <<phase, job, stage>>
      BY <1>1 DEF Hal, HalAdd, HalRemove, HalSetProperty, HalCondition,
                  HalCapability, HalActs, handler
    <3>. QED  BY <1>1, <3>1 DEF IInv, HandlerOK
  <2>. QED  BY <1>1, <2>1, HalType, HalKeeps DEF IInv
<1>2. ASSUME IInv, Daemon
      PROVE  IInv'
  BY <1>2, DaemonType, DaemonKeeps DEF IInv
<1>3. ASSUME IInv, UNCHANGED vars
      PROVE  IInv'
  <2>1. TypeOK' /\ HandlerOK' /\ EarlySignals'
    BY <1>3 DEF IInv, vars, TypeOK, HandlerOK, EarlySignals
  <2>2. Pending' = Pending
    BY <1>3 DEF vars, Pending
  <2>3. SignalsSettle' /\ MirrorCurrent'
    BY <1>3, <2>2, QuietStep DEF IInv, vars
  <2>. QED  BY <2>1, <2>3 DEF IInv
<1>. QED  BY <1>1, <1>2, <1>3 DEF Next

(* The inductive invariant holds in every reachable state.                 *)
THEOREM Invariance == Spec => []IInv
BY InitInv, NextInv, PTL DEF Spec

(* The state keeps its shape: no handler and no answer of HAL puts         *)
(* anything else into the list, the queue or the position in the rules.    *)
THEOREM TypeCorrect == Spec => []TypeOK
<1>1. IInv => TypeOK
  BY DEF IInv
<1>. QED  BY <1>1, Invariance, PTL

(* The devices list has every device as HAL has it, but for what a signal  *)
(* that is still waiting is about.                                         *)
THEOREM MirrorTheorem == Spec => []MirrorCurrent
<1>1. IInv => MirrorCurrent
  BY DEF IInv
<1>. QED  BY <1>1, Invariance, PTL

-----------------------------------------------------------------------------
(* How often the OnInit rules run.  A device that a start-up pass has still *)
(* to list has had no more OnInit commands in this pass than the rules the *)
(* pass has gone through for it.                                           *)

OnInitRules == Len(Rules["oninit"])

LEMMA RulesListed ==
    ASSUME NEW t \in {"oninit", "added", "removed", "property", "condition"}
    PROVE  Len(Rules[t]) \in Nat /\ DOMAIN Rules[t] = 1 .. Len(Rules[t])
BY RulesAssumption DEF IsList

(* A pass is over for a device when it is listed.                          *)
PassOK ==
    /\ todo # {} => phase \in {"setup", "oninit"}
    /\ job \in InitJob =>
          /\ job.udi \in todo
          /\ stage \in {"match", "run"}
          /\ pos.rule <= OnInitRules + 1
          /\ stage = "run" => pos.rule <= OnInitRules

RulesTried(u) ==
    IF u \notin todo THEN OnInitRules
    ELSE IF job \in InitJob /\ job.udi = u THEN pos.rule - 1
    ELSE 0

InitsCounted ==
    \A u \in Udis :
        /\ phase \in {"start", "ctx", "watching"} => inits[u] = 0
        /\ phase = "setup" => inits[u] <= RulesTried(u)
        /\ phase = "oninit" => inits[u] <= OnInitRules + RulesTried(u)
        /\ inits[u] <= 2 * OnInitRules

PassInv == PassOK /\ InitsCounted

LEMMA PassInit == Init => PassInv
<1>1. OnInitRules \in Nat
  BY RulesListed DEF OnInitRules
<1>2. NoJob \notin InitJob
  BY ConstantsAssumption
<1> HIDE DEF OnInitRules
<1>. QED
  BY <1>1, <1>2 DEF Init, PassInv, PassOK, InitsCounted

LEMMA PassNext ==
    ASSUME TypeOK, HandlerOK, PassInv, [Next]_vars
    PROVE  PassInv'
<1>1. OnInitRules \in Nat /\ OnInitRules' = OnInitRules
  BY RulesListed DEF OnInitRules
<1>2. /\ NoJob \notin InitJob
      /\ \A m \in Signal \cup InitJob : m \in InitJob <=> m.type = "oninit"
      /\ job \in InitJob => job # NoJob
      /\ job # NoJob => (job \in InitJob <=> job.type = "oninit")
      /\ job # NoJob => job.udi \in Udis
  BY ConstantsAssumption, JobShape DEF TypeOK
<1>3. /\ inits \in [Udis -> Nat] /\ todo \subseteq Udis
      /\ pos.rule \in Nat \ {0} /\ FirstRule.rule = 1
      /\ stage \in Stages
  BY DEF TypeOK, Position, FirstRule
<1>4. \A u \in Udis : RulesTried(u) \in Nat
  <2> HIDE DEF OnInitRules
  <2>. QED
    BY <1>1, <1>3 DEF RulesTried
<1>5. DOMAIN Rules["oninit"] = 1 .. OnInitRules
  BY RulesListed DEF OnInitRules
<1> HIDE DEF OnInitRules
<1> USE DEF PassInv
(* Steps that change nothing this is about.                                *)
<1>6. ASSUME UNCHANGED <<phase, todo, job, stage, pos, inits>>
      PROVE  PassInv'
  BY <1>1, <1>6 DEF PassOK, InitsCounted, RulesTried
<1>7. CASE Hal \/ UNCHANGED vars
  BY <1>6, <1>7 DEF Hal, HalAdd, HalRemove, HalSetProperty, HalCondition,
                    HalCapability, HalActs, handler, vars
<1>8. CASE CtxInit \/ WatchAll \/ GetAllDevices \/ MainLoop
  <2>1. UNCHANGED <<job, stage, pos, inits>>
    BY <1>8 DEF CtxInit, WatchAll, GetAllDevices, MainLoop, handler
  <2>2. PassOK'
    BY <1>1, <1>8, <2>1 DEF PassOK, CtxInit, WatchAll, GetAllDevices, MainLoop
  <2>3. \A u \in Udis : /\ phase' \in {"start", "ctx", "watching"} => inits[u] = 0
                        /\ phase' = "setup" => inits[u] = 0
                        /\ phase' = "oninit" => inits[u] <= OnInitRules
                        /\ inits[u] <= 2 * OnInitRules
    BY <1>1, <1>3, <1>8
    DEF InitsCounted, RulesTried, CtxInit, WatchAll, GetAllDevices, MainLoop
  <2>4. \A u \in Udis : RulesTried(u)' \in Nat
    BY <1>1, <1>3, <2>1 DEF RulesTried
  <2>5. InitsCounted'
    BY <1>1, <1>3, <2>1, <2>3, <2>4 DEF InitsCounted
  <2>. QED  BY <2>2, <2>5
<1>9. CASE NextDevice
  <2>1. PICK u \in todo : BeginJob([type |-> "oninit", udi |-> u])
    BY <1>9 DEF NextDevice
  <2>2. /\ job \notin InitJob
        /\ job' \in InitJob /\ job'.udi = u /\ u \in Udis
        /\ stage' = "match" /\ pos'.rule = 1
        /\ UNCHANGED <<phase, todo, inits>>
    BY <1>2, <1>3, <1>9, <2>1, SignalKinds DEF NextDevice, BeginJob
  <2>3. phase \in {"setup", "oninit"}
    BY DEF PassOK
  <2>4. \A v \in Udis : RulesTried(v)' = RulesTried(v)
    BY <1>1, <2>2 DEF RulesTried
  <2>5. InitsCounted'
    BY <1>1, <2>2, <2>4 DEF InitsCounted
  <2>6. PassOK'
    BY <1>1, <2>2, <2>3 DEF PassOK
  <2>. QED  BY <2>5, <2>6
(* Steps that only go on within the rules for a device, or leave it.       *)
<1>10. ASSUME UNCHANGED <<phase, todo, inits>>,
              job \notin InitJob, job' \notin InitJob
       PROVE  PassInv'
  BY <1>1, <1>10 DEF PassOK, InitsCounted, RulesTried
<1>11. CASE Dispatch
  <2>1. Head(bus) \in Signal
    BY <1>11, HeadTailProperties DEF Dispatch, TypeOK
  <2>2. job' \notin InitJob /\ UNCHANGED <<phase, todo, inits>>
    BY <1>2, <1>11, <2>1, JobShape DEF Dispatch, BeginJob
  <2>. QED  BY <1>2, <1>10, <1>11, <2>2 DEF Dispatch
<1>12. CASE SkipRule \/ TryLiteral \/ TryAction \/ RunCommand
  <2>1. UNCHANGED <<phase, todo, job>>
    BY <1>12, WalkType
  <2>2. CASE job \notin InitJob
    <3>1. inits' = inits
      BY <1>2, <1>12, <2>2 DEF SkipRule, TryLiteral, TryAction, RunCommand
    <3>. QED  BY <1>10, <2>1, <2>2, <3>1
  <2>3. CASE job \in InitJob
    <3>1. job # NoJob /\ job.type = "oninit" /\ job.udi \in todo /\ job.udi \in Udis
      BY <1>2, <2>3 DEF PassOK
    <3>2. JobRules = Rules["oninit"]
      BY <3>1 DEF JobRules
    <3>3. CASE SkipRule \/ TryLiteral
      <4>1. stage = "match" /\ pos.rule <= OnInitRules /\ inits' = inits
        <5>1. RulesLeft /\ inits' = inits
          BY <3>3 DEF SkipRule, TryLiteral
        <5>. QED  BY <1>1, <1>3, <1>5, <3>2, <5>1 DEF RulesLeft
      <4>2. /\ stage' \in {"match", "run"}
            /\ pos'.rule = pos.rule \/ (pos'.rule = pos.rule + 1 /\ stage' = "match")
        BY <1>3, <3>1, <3>3, <4>1
        DEF SkipRule, TryLiteral, RuleMatched, NextRule, NextTerm, FirstRule,
            TypeOK, Position
      <4>3. pos'.rule \in {pos.rule, pos.rule + 1}
        BY <4>2
      <4>4. PassOK'
        BY <1>1, <1>3, <2>1, <2>3, <4>1, <4>2 DEF PassOK
      <4>5. \A u \in Udis : RulesTried(u)' \in Nat /\ RulesTried(u) <= RulesTried(u)'
        BY <1>1, <1>3, <2>1, <4>3 DEF RulesTried
      <4>6. InitsCounted'
        BY <1>1, <1>3, <1>4, <2>1, <4>1, <4>5 DEF InitsCounted
      <4>. QED  BY <4>4, <4>6
    <3>4. CASE RunCommand
      <4>1. /\ stage = "run" /\ pos.rule <= OnInitRules
            /\ inits' = [inits EXCEPT ![job.udi] = @ + 1]
            /\ stage' = "match" /\ pos'.rule = pos.rule + 1
        BY <2>3, <3>1, <3>4 DEF PassOK, RunCommand, NextRule, FirstRule
      <4>2. PassOK'
        BY <1>1, <1>3, <2>1, <2>3, <4>1 DEF PassOK
      <4>3. \A u \in Udis : /\ inits'[u] = inits[u] + (IF u = job.udi THEN 1 ELSE 0)
                            /\ RulesTried(u)' = RulesTried(u)
                                                   + (IF u = job.udi THEN 1 ELSE 0)
        BY <1>1, <1>3, <2>1, <2>3, <3>1, <4>1 DEF RulesTried
      <4>4. RulesTried(job.udi) < OnInitRules
        BY <1>1, <1>3, <2>3, <3>1, <4>1 DEF RulesTried
      <4>5. phase \in {"setup", "oninit"}
        BY <2>3 DEF PassOK
      <4>6. ASSUME NEW u \in Udis
            PROVE  /\ phase = "setup" => inits'[u] <= RulesTried(u)'
                   /\ phase = "oninit" => inits'[u] <= OnInitRules + RulesTried(u)'
                   /\ inits'[u] <= 2 * OnInitRules
        BY <1>1, <1>3, <1>4, <3>1, <4>3, <4>4, <4>5 DEF InitsCounted
      <4>7. InitsCounted'
        BY <1>1, <2>1, <4>5, <4>6 DEF InitsCounted
      <4>. QED  BY <4>2, <4>7
    <3>5. CASE TryAction
      BY <2>3, <3>5 DEF PassOK, TryAction
    <3>. QED  BY <1>12, <3>3, <3>4, <3>5
  <2>. QED  BY <2>2, <2>3
<1>13. CASE Crash
  BY <1>1, <1>2, <1>13 DEF Crash, EndJob, PassOK, InitsCounted
<1>14. CASE ListDevice
  <2>1. job' \notin InitJob /\ UNCHANGED <<phase, inits>>
    BY <1>2, <1>14 DEF ListDevice, EndJob
  <2>2. CASE job \notin InitJob
    <3>1. todo' = todo
      BY <1>2, <1>14, <2>2 DEF ListDevice
    <3>. QED  BY <1>10, <2>1, <2>2, <3>1
  <2>3. CASE job \in InitJob
    <3>1. todo' = todo \ {job.udi} /\ pos.rule <= OnInitRules + 1
      BY <1>2, <1>14, <2>3 DEF ListDevice, PassOK
    <3>2. \A u \in Udis : RulesTried(u)' \in Nat /\ RulesTried(u) <= RulesTried(u)'
      BY <1>1, <1>3, <2>1, <2>3, <3>1 DEF RulesTried
    <3>3. InitsCounted'
      BY <1>1, <1>3, <1>4, <2>1, <3>2 DEF InitsCounted
    <3>4. todo' # {} => phase' \in {"setup", "oninit"}
      BY <2>1, <3>1 DEF PassOK
    <3>. QED  BY <2>1, <3>3, <3>4 DEF PassOK
  <2>. QED  BY <2>2, <2>3
<1>15. CASE UnlistDevice \/ UnlistProperty \/ SetPropertyExists \/ EndCondition
  <2>1. job # NoJob /\ job.type # "oninit" /\ job' \in {job, NoJob}
    BY <1>15 DEF UnlistDevice, UnlistProperty, SetPropertyExists, EndCondition, EndJob
  <2>2. UNCHANGED <<phase, todo, inits>>
    BY <1>15 DEF UnlistDevice, UnlistProperty, SetPropertyExists, EndCondition
  <2>. QED  BY <1>2, <1>10, <2>1, <2>2
<1>16. CASE SetPropertyRead
  <2>1. job \notin InitJob
    BY <1>16 DEF SetPropertyRead, PassOK
  <2>. QED  BY <1>2, <1>10, <1>16, <2>1 DEF SetPropertyRead, EndJob
<1>. QED
  BY <1>7, <1>8, <1>9, <1>11, <1>12, <1>13, <1>14, <1>15, <1>16 DEF Next, Daemon

LEMMA PassInvariant == Spec => []PassInv
<1>1. IInv /\ PassInv /\ [Next]_vars => PassInv'
  BY PassNext DEF IInv
<1>. QED  BY <1>1, PassInit, Invariance, PTL DEF Spec

(* No device is given to the OnInit rules a third time, however often it   *)
(* comes and goes.  The bound is tight: it is given to them twice when it  *)
(* is there for both passes.                                               *)
THEOREM OnInitTwice == Spec => []OnInitBounded
<1>1. PassInv => OnInitBounded
  BY DEF PassInv, InitsCounted, OnInitBounded, OnInitRules
<1>. QED  BY <1>1, PassInvariant, PTL

-----------------------------------------------------------------------------
(* How many entries there are of a device.  Signals that a device has come *)
(* and that it has gone take turns, so that what is waiting tells for each *)
(* of its signals whether the device was there after it.                   *)

Comes(m, u) == m.udi = u /\ m.type \in {"added", "removed"}

(* Whether u is there when the first n signals of s are past, which is     *)
(* what the next signal about that tells, or, when there is none, what HAL *)
(* has now.                                                                *)
NoneComes(s, n, u) == \A i \in DOMAIN s : i > n => ~Comes(s[i], u)
NextGoes(s, n, u) ==
    \E i \in DOMAIN s :
        /\ i > n /\ Comes(s[i], u) /\ s[i].type = "removed"
        /\ \A j \in DOMAIN s : n < j /\ j < i => ~Comes(s[j], u)

ThereAfter(s, n, u, here) == NextGoes(s, n, u) \/ (NoneComes(s, n, u) /\ here)

TakeTurns(s, u, here) ==
    \A n \in DOMAIN s :
        Comes(s[n], u) => (ThereAfter(s, n, u, here) <=> s[n].type = "added")

(* A signal that comes last is not news after any other, if it is about    *)
(* another thing, or tells of a change.                                    *)
LEMMA LastTakesTurn ==
    ASSUME NEW s \in Seq(Signal), NEW m \in Signal, NEW u,
           NEW here \in BOOLEAN, NEW now \in BOOLEAN,
           IF Comes(m, u) THEN /\ m.type = "added" <=> now
                               /\ now <=> ~here
           ELSE now = here
    PROVE  LET t == Append(s, m)
           IN  /\ ThereAfter(t, 0, u, now) <=> ThereAfter(s, 0, u, here)
               /\ TakeTurns(s, u, here) => TakeTurns(t, u, now)
<1>. DEFINE t == Append(s, m)
            k == Len(s) + 1
<1>1. /\ Len(s) \in Nat /\ DOMAIN s = 1 .. Len(s)
      /\ DOMAIN t = 1 .. k /\ k = Len(s) + 1
      /\ t[k] = m
      /\ \A j \in 1 .. Len(s) : t[j] = s[j]
  BY AppendProperties, LenProperties
<1>2. Comes(m, u) => m.type = "added" \/ m.type = "removed"
  BY DEF Comes
<1>. HIDE DEF t, k
<1>3. ASSUME NEW n \in 0 .. Len(s), NextGoes(s, n, u)
      PROVE  NextGoes(t, n, u)
  <2>1. PICK i \in DOMAIN s :
            /\ i > n /\ Comes(s[i], u) /\ s[i].type = "removed"
            /\ \A j \in DOMAIN s : n < j /\ j < i => ~Comes(s[j], u)
    BY <1>3 DEF NextGoes
  <2>2. i \in DOMAIN t /\ t[i] = s[i]
    BY <1>1
  <2>3. \A j \in DOMAIN t : n < j /\ j < i => ~Comes(t[j], u)
    BY <1>1, <2>1
  <2>. QED  BY <2>1, <2>2, <2>3 DEF NextGoes
<1>4. ASSUME NEW n \in 0 .. Len(s), NextGoes(t, n, u)
      PROVE  \/ NextGoes(s, n, u)
             \/ NoneComes(s, n, u) /\ Comes(m, u) /\ m.type = "removed"
  <2>1. PICK i \in DOMAIN t :
            /\ i > n /\ Comes(t[i], u) /\ t[i].type = "removed"
            /\ \A j \in DOMAIN t : n < j /\ j < i => ~Comes(t[j], u)
    BY <1>4 DEF NextGoes
  <2>2. CASE i = k
    <3>1. NoneComes(s, n, u)
      BY <1>1, <2>1, <2>2 DEF NoneComes
    <3>. QED  BY <1>1, <2>1, <2>2, <3>1
  <2>3. CASE i # k
    <3>1. i \in DOMAIN s /\ t[i] = s[i]
      BY <1>1, <2>3
    <3>2. \A j \in DOMAIN s : n < j /\ j < i => ~Comes(s[j], u)
      BY <1>1, <2>1
    <3>. QED  BY <2>1, <3>1, <3>2 DEF NextGoes
  <2>. QED  BY <2>2, <2>3
<1>5. ASSUME NEW n \in 0 .. Len(s)
      PROVE  /\ NoneComes(t, n, u) <=> NoneComes(s, n, u) /\ ~Comes(m, u)
             /\ NoneComes(s, n, u) /\ Comes(m, u) /\ m.type = "removed"
                   => NextGoes(t, n, u)
             /\ NoneComes(s, n, u) => ~NextGoes(s, n, u)
  <2>1. n < k /\ k \in DOMAIN t
    BY <1>1
  <2>2. NoneComes(t, n, u) <=> NoneComes(s, n, u) /\ ~Comes(m, u)
    BY <1>1, <2>1 DEF NoneComes
  <2>3. ASSUME NoneComes(s, n, u), Comes(m, u), m.type = "removed"
        PROVE  NextGoes(t, n, u)
    <3>1. \A j \in DOMAIN t : n < j /\ j < k => ~Comes(t[j], u)
      BY <1>1, <2>3 DEF NoneComes
    <3>. QED  BY <1>1, <2>1, <2>3, <3>1 DEF NextGoes
  <2>4. NoneComes(s, n, u) => ~NextGoes(s, n, u)
    BY DEF NoneComes, NextGoes
  <2>. QED  BY <2>2, <2>3, <2>4
<1>6. ASSUME NEW n \in 0 .. Len(s)
      PROVE  ThereAfter(t, n, u, now) <=> ThereAfter(s, n, u, here)
  <2>1. /\ NextGoes(s, n, u) => NextGoes(t, n, u)
        /\ NextGoes(t, n, u) => \/ NextGoes(s, n, u)
                                \/ NoneComes(s, n, u) /\ Comes(m, u) /\ m.type = "removed"
    BY <1>3, <1>4
  <2>2. CASE Comes(m, u)
    <3>1. m.type = "added" <=> ~(m.type = "removed")
      BY <1>2, <2>2
    <3>. QED  BY <1>5, <2>1, <2>2, <3>1 DEF ThereAfter
  <2>3. CASE ~Comes(m, u)
    BY <1>5, <2>1, <2>3 DEF ThereAfter
  <2>. QED  BY <2>2, <2>3
<1>7. Comes(m, u) => (ThereAfter(t, k, u, now) <=> m.type = "added")
  <2>1. NoneComes(t, k, u) /\ ~NextGoes(t, k, u)
    BY <1>1 DEF NoneComes, NextGoes
  <2>. QED  BY <2>1 DEF ThereAfter
<1>8. ASSUME TakeTurns(s, u, here)
      PROVE  TakeTurns(t, u, now)
  <2>1. SUFFICES ASSUME NEW n \in DOMAIN t, Comes(t[n], u)
                 PROVE  ThereAfter(t, n, u, now) <=> t[n].type = "added"
    BY DEF TakeTurns
  <2>2. CASE n = k
    BY <1>1, <1>7, <2>1, <2>2
  <2>3. CASE n # k
    <3>1. n \in DOMAIN s /\ n \in 0 .. Len(s) /\ t[n] = s[n]
      BY <1>1, <2>3
    <3>. QED  BY <1>6, <1>8, <2>1, <3>1 DEF TakeTurns
  <2>. QED  BY <2>2, <2>3
<1>. QED  BY <1>1, <1>6, <1>8 DEF t

(* Once the first signal is past, the others tell the same.                *)
LEMMA FirstPast ==
    ASSUME NEW t \in Seq(Signal), NEW m \in Signal, NEW u, NEW here \in BOOLEAN,
           TakeTurns(<<m>> \o t, u, here)
    PROVE  LET s == <<m>> \o t
           IN  /\ TakeTurns(t, u, here)
               /\ IF Comes(m, u)
                  THEN /\ ThereAfter(s, 0, u, here) <=> m.type = "removed"
                       /\ ThereAfter(t, 0, u, here) <=> m.type = "added"
                  ELSE ThereAfter(t, 0, u, here) <=> ThereAfter(s, 0, u, here)
<1>. DEFINE s == <<m>> \o t
<1>1. <<m>> \in Seq(Signal) /\ Len(<<m>>) = 1 /\ <<m>>[1] = m
  OBVIOUS
<1>2. /\ DOMAIN s = 1 .. (Len(t) + 1) /\ DOMAIN t = 1 .. Len(t)
      /\ Len(t) \in Nat
      /\ s[1] = m
      /\ \A j \in 1 .. Len(t) : s[j + 1] = t[j]
  BY <1>1, ConcatProperties, LenProperties
<1>3. TakeTurns(s, u, here)
  OBVIOUS
<1>. HIDE DEF s
<1>4. \A j \in DOMAIN s : j = 1 \/ (j - 1 \in DOMAIN t /\ s[j] = t[j - 1])
  BY <1>2
<1>5. ASSUME NEW n \in 0 .. Len(t)
      PROVE  ThereAfter(t, n, u, here) <=> ThereAfter(s, n + 1, u, here)
  <2>1. NoneComes(t, n, u) <=> NoneComes(s, n + 1, u)
    <3>1. ASSUME NoneComes(t, n, u) PROVE NoneComes(s, n + 1, u)
      BY <1>2, <1>4, <3>1 DEF NoneComes
    <3>2. ASSUME NoneComes(s, n + 1, u) PROVE NoneComes(t, n, u)
      <4>1. ASSUME NEW i \in DOMAIN t, i > n PROVE ~Comes(t[i], u)
        <5>1. i + 1 \in DOMAIN s /\ i + 1 > n + 1 /\ s[i + 1] = t[i]
          BY <1>2, <4>1
        <5>. QED  BY <3>2, <5>1 DEF NoneComes
      <4>. QED  BY <4>1 DEF NoneComes
    <3>. QED  BY <3>1, <3>2
  <2>2. ASSUME NextGoes(t, n, u) PROVE NextGoes(s, n + 1, u)
    <3>1. PICK i \in DOMAIN t :
              /\ i > n /\ Comes(t[i], u) /\ t[i].type = "removed"
              /\ \A j \in DOMAIN t : n < j /\ j < i => ~Comes(t[j], u)
      BY <2>2 DEF NextGoes
    <3>2. i + 1 \in DOMAIN s /\ i + 1 > n + 1 /\ s[i + 1] = t[i]
      BY <1>2, <3>1
    <3>3. ASSUME NEW j \in DOMAIN s, n + 1 < j, j < i + 1
          PROVE  ~Comes(s[j], u)
      <4>1. j - 1 \in DOMAIN t /\ s[j] = t[j - 1] /\ n < j - 1 /\ j - 1 < i
        BY <1>2, <1>4, <3>1, <3>3
      <4>. QED  BY <3>1, <4>1
    <3>. QED  BY <3>1, <3>2, <3>3 DEF NextGoes
  <2>3. ASSUME NextGoes(s, n + 1, u) PROVE NextGoes(t, n, u)
    <3>1. PICK i \in DOMAIN s :
              /\ i > n + 1 /\ Comes(s[i], u) /\ s[i].type = "removed"
              /\ \A j \in DOMAIN s : n + 1 < j /\ j < i => ~Comes(s[j], u)
      BY <2>3 DEF NextGoes
    <3>2. i - 1 \in DOMAIN t /\ i - 1 > n /\ s[i] = t[i - 1]
      BY <1>2, <1>4, <3>1
    <3>3. ASSUME NEW j \in DOMAIN t, n < j, j < i - 1
          PROVE  ~Comes(t[j], u)
      <4>1. j + 1 \in DOMAIN s /\ s[j + 1] = t[j] /\ n + 1 < j + 1 /\ j + 1 < i
        BY <1>2, <3>1, <3>3
      <4>. QED  BY <3>1, <4>1
    <3>. QED  BY <3>1, <3>2, <3>3 DEF NextGoes
  <2>. QED  BY <2>1, <2>2, <2>3 DEF ThereAfter
<1>6. TakeTurns(t, u, here)
  <2>1. SUFFICES ASSUME NEW n \in DOMAIN t, Comes(t[n], u)
                 PROVE  ThereAfter(t, n, u, here) <=> t[n].type = "added"
    BY DEF TakeTurns
  <2>2. n \in 0 .. Len(t) /\ n + 1 \in DOMAIN s /\ s[n + 1] = t[n]
    BY <1>2
  <2>3. ThereAfter(s, n + 1, u, here) <=> s[n + 1].type = "added"
    BY <1>3, <2>1, <2>2 DEF TakeTurns
  <2>. QED  BY <1>5, <2>2, <2>3
<1>7. CASE Comes(m, u)
  <2>1. ThereAfter(s, 1, u, here) <=> m.type = "added"
    BY <1>2, <1>3, <1>7 DEF TakeTurns
  <2>2. 1 \in DOMAIN s /\ 0 < 1 /\ ~NoneComes(s, 0, u)
    BY <1>2, <1>7 DEF NoneComes
  <2>3. NextGoes(s, 0, u) <=> m.type = "removed"
    <3>1. ASSUME m.type = "removed" PROVE NextGoes(s, 0, u)
      <4>1. \A j \in DOMAIN s : ~(0 < j /\ j < 1)
        BY <1>2
      <4>. QED  BY <1>2, <1>7, <2>2, <3>1, <4>1 DEF NextGoes
    <3>2. ASSUME NextGoes(s, 0, u) PROVE m.type = "removed"
      <4>1. PICK i \in DOMAIN s :
                /\ i > 0 /\ Comes(s[i], u) /\ s[i].type = "removed"
                /\ \A j \in DOMAIN s : 0 < j /\ j < i => ~Comes(s[j], u)
        BY <3>2 DEF NextGoes
      <4>2. i = 1
        <5>1. SUFFICES ASSUME i # 1 PROVE FALSE
          OBVIOUS
        <5>2. 1 < i
          BY <1>2, <5>1
        <5>. QED  BY <1>2, <1>7, <2>2, <4>1, <5>2
      <4>. QED  BY <1>2, <4>1, <4>2
    <3>. QED  BY <3>1, <3>2
  <2>4. 0 \in 0 .. Len(t) /\ 0 + 1 = 1
    BY <1>2
  <2>5. ThereAfter(t, 0, u, here) <=> m.type = "added"
    BY <1>5, <2>1, <2>4
  <2>6. ThereAfter(s, 0, u, here) <=> m.type = "removed"
    BY <2>2, <2>3 DEF ThereAfter
  <2>. QED  BY <1>6, <1>7, <2>5, <2>6 DEF s
<1>8. CASE ~Comes(m, u)
  <2>1. 0 \in 0 .. Len(t) /\ 0 + 1 = 1
    BY <1>2
  <2>2. NoneComes(s, 0, u) <=> NoneComes(s, 1, u)
    BY <1>2, <1>8 DEF NoneComes
  <2>3. NextGoes(s, 0, u) => NextGoes(s, 1, u)
    <3>1. \A i \in DOMAIN s : i > 0 /\ Comes(s[i], u) => i > 1
      BY <1>2, <1>8
    <3>. QED  BY <1>2, <3>1 DEF NextGoes
  <2>4. NextGoes(s, 1, u) => NextGoes(s, 0, u)
    <3>1. SUFFICES ASSUME NextGoes(s, 1, u) PROVE NextGoes(s, 0, u)
      OBVIOUS
    <3>2. PICK i \in DOMAIN s :
              /\ i > 1 /\ Comes(s[i], u) /\ s[i].type = "removed"
              /\ \A j \in DOMAIN s : 1 < j /\ j < i => ~Comes(s[j], u)
      BY <3>1 DEF NextGoes
    <3>3. ASSUME NEW j \in DOMAIN s, 0 < j, j < i PROVE ~Comes(s[j], u)
      <4>1. CASE j = 1
        BY <1>2, <1>8, <4>1
      <4>2. CASE j # 1
        BY <1>2, <3>2, <3>3, <4>2
      <4>. QED  BY <4>1, <4>2
    <3>. QED  BY <1>2, <3>2, <3>3 DEF NextGoes
  <2>5. ThereAfter(s, 0, u, here) <=> ThereAfter(s, 1, u, here)
    BY <2>2, <2>3, <2>4 DEF ThereAfter
  <2>6. ThereAfter(t, 0, u, here) <=> ThereAfter(s, 0, u, here)
    BY <1>5, <2>1, <2>5
  <2>. QED  BY <1>6, <1>8, <2>6 DEF s
<1>. QED  BY <1>7, <1>8

(* Each start-up pass makes an entry, of the two it may make; later there  *)
(* is a third only of a device that has come and not gone since.           *)
TurnsOK ==
    phase # "crashed" => \A u \in Udis : TakeTurns(Pending, u, u \in Present)

CopiesOK ==
    \A u \in Udis :
        /\ phase \in {"start", "ctx", "watching", "crashed"} => CopiesOf(devices, u) = 0
        /\ phase = "setup" => CopiesOf(devices, u) <= IF u \in todo THEN 0 ELSE 1
        /\ phase = "oninit" => CopiesOf(devices, u) <= IF u \in todo THEN 1 ELSE 2
        /\ phase = "loop" =>
              CopiesOf(devices, u)
                  <= IF ThereAfter(Pending, 0, u, u \in Present) THEN 3 ELSE 2

LEMMA CopiesInit == Init => TurnsOK /\ CopiesOK
<1>1. SUFFICES ASSUME Init PROVE TurnsOK /\ CopiesOK
  OBVIOUS
<1>2. Pending = <<>> /\ devices = <<>> /\ phase = "start"
  BY <1>1, ConstantsAssumption DEF Init, Pending
<1>3. TurnsOK
  BY <1>2 DEF TurnsOK, TakeTurns
<1>4. \A u : CopiesOf(devices, u) = 0
  <2>1. ASSUME NEW u PROVE CopiesOf(devices, u) = 0
    <3>1. devices \in Seq(Entry) /\ ~Listed(devices, u)
      BY <1>2 DEF Listed
    <3>. QED  BY <3>1, NoCopies
  <2>. QED  BY <2>1
<1>. QED  BY <1>2, <1>3, <1>4 DEF CopiesOK

(* A signal of HAL's tells of a change, and HAL sends it when there is one.*)
LEMMA HalTurns ==
    ASSUME TypeOK, HandlerOK, EarlySignals, TurnsOK, CopiesOK, Hal
    PROVE  TurnsOK' /\ CopiesOK'
<1>. DEFINE Tells(m, w) ==
        \A v \in Udis :
            IF w /\ Comes(m, v)
            THEN /\ m.type = "added" <=> v \in Present'
                 /\ v \in Present' <=> v \notin Present
            ELSE v \in Present' <=> v \in Present
<1>1. /\ ManagerWatched \in BOOLEAN /\ DevicesWatched \in BOOLEAN
      /\ ~ManagerWatched => phase \in {"start", "crashed"}
      /\ phase = "start" => ~ManagerWatched /\ ~DevicesWatched
  BY DEF ManagerWatched, DevicesWatched, TypeOK, Phases
<1>2. ASSUME NEW new, NEW w \in BOOLEAN, NEW m \in Signal, HalActs(new, w, m),
             phase \notin {"start", "crashed"} => Tells(m, w),
             phase = "start" => ~w
      PROVE  TurnsOK' /\ CopiesOK'
  <2>1. UNCHANGED <<phase, todo, job, devices>>
    BY <1>2 DEF HalActs
  <2>2. Pending' = IF w THEN Append(Pending, m) ELSE Pending
    BY <1>2, HalPending
  <2>3. Pending \in Seq(Signal)
    BY PendingType
  <2>4. ASSUME NEW v \in Udis, phase \notin {"start", "crashed"}
        PROVE  /\ ThereAfter(Pending', 0, v, v \in Present')
                      <=> ThereAfter(Pending, 0, v, v \in Present)
               /\ TakeTurns(Pending', v, v \in Present')
    <3>1. TakeTurns(Pending, v, v \in Present)
      BY <2>4 DEF TurnsOK
    <3>2. (v \in Present) \in BOOLEAN /\ (v \in Present') \in BOOLEAN
      OBVIOUS
    <3>3. CASE w
      <4>. DEFINE here == v \in Present
                  now == v \in Present'
      <4>1. IF Comes(m, v) THEN (m.type = "added" <=> now) /\ (now <=> ~here)
            ELSE now = here
        BY <1>2, <2>4, <3>3
      <4>2. TakeTurns(Pending, v, here) /\ here \in BOOLEAN /\ now \in BOOLEAN
        BY <3>1
      <4>. HIDE DEF here, now
      <4>3. /\ ThereAfter(Append(Pending, m), 0, v, now) <=> ThereAfter(Pending, 0, v, here)
            /\ TakeTurns(Append(Pending, m), v, now)
        BY <2>3, <4>1, <4>2, LastTakesTurn
      <4>. QED  BY <2>2, <3>3, <4>3 DEF here, now
    <3>4. CASE ~w
      <4>1. (v \in Present') = (v \in Present)
        BY <1>2, <2>4, <3>4
      <4>. QED  BY <2>2, <3>1, <3>4, <4>1
    <3>. QED  BY <1>2, <3>3, <3>4
  <2>5. phase = "start" => Pending = <<>> /\ Pending' = <<>>
    BY <1>2, <2>2 DEF HandlerOK, EarlySignals, Pending
  <2>6. TurnsOK'
    <3>1. CASE phase = "start"
      BY <2>5, <3>1 DEF TurnsOK, TakeTurns
    <3>2. CASE phase # "start"
      BY <2>1, <2>4, <3>2 DEF TurnsOK
    <3>. QED  BY <3>1, <3>2
  <2>7. CopiesOK'
    BY <2>1, <2>4 DEF CopiesOK
  <2>. QED  BY <2>6, <2>7
<1>3. ASSUME NEW u \in Udis, HalAdd(u)
      PROVE  TurnsOK' /\ CopiesOK'
  <2>. DEFINE m == [type |-> "added", udi |-> u]
  <2>1. PICK p \in Profiles : HalActs([gdl EXCEPT ![u] = p], ManagerWatched, m)
    BY <1>3 DEF HalAdd
  <2>2. m \in Signal /\ m.type = "added" /\ m.udi = u
    BY SignalKinds
  <2>3. gdl' = [gdl EXCEPT ![u] = p] /\ p # NoDevice /\ gdl[u] = NoDevice
    BY <1>3, <2>1, ConstantsAssumption DEF HalActs, HalAdd
  <2>4. Tells(m, TRUE)
    BY <2>2, <2>3 DEF Comes, Present, TypeOK
  <2>. HIDE DEF m, Tells
  <2>5. phase \notin {"start", "crashed"} => ManagerWatched = TRUE
    BY <1>1
  <2>. QED  BY <1>1, <1>2, <2>1, <2>2, <2>4, <2>5
<1>4. ASSUME NEW u \in Udis, HalRemove(u)
      PROVE  TurnsOK' /\ CopiesOK'
  <2>. DEFINE m == [type |-> "removed", udi |-> u, was |-> gdl[u]]
  <2>1. HalActs([gdl EXCEPT ![u] = NoDevice], ManagerWatched, m) /\ gdl[u] # NoDevice
    BY <1>4 DEF HalRemove
  <2>2. m \in Signal /\ m.type = "removed" /\ m.udi = u
    <3>1. gdl[u] \in Props
      BY <1>4 DEF HalRemove, TypeOK
    <3>. QED  BY <3>1, SignalKinds
  <2>3. gdl' = [gdl EXCEPT ![u] = NoDevice]
    BY <2>1 DEF HalActs
  <2>4. Tells(m, TRUE)
    <3>. HIDE DEF m
    <3>. QED  BY <2>1, <2>2, <2>3 DEF Comes, Present, TypeOK
  <2>. HIDE DEF m, Tells
  <2>5. phase \notin {"start", "crashed"} => ManagerWatched = TRUE
    BY <1>1
  <2>. QED  BY <1>1, <1>2, <2>1, <2>2, <2>4, <2>5
(* The others tell of no coming or going.                                  *)
<1>5. ASSUME NEW m \in Signal, m.type \notin {"added", "removed"}, Present' = Present,
             NEW w \in BOOLEAN
      PROVE  Tells(m, w)
  BY <1>5 DEF Comes
<1>6. ASSUME NEW u \in Udis, NEW k \in Keys, NEW v \in Values \cup {NoKey},
             HalSetProperty(u, k, v)
      PROVE  TurnsOK' /\ CopiesOK'
  <2>. DEFINE m == [type |-> "property", udi |-> u, key |-> k, value |-> v]
  <2>1. /\ HalActs([gdl EXCEPT ![u][k] = v], DevicesWatched, m)
        /\ gdl[u] # NoDevice /\ gdl[u] \in Props
    BY <1>6 DEF HalSetProperty, TypeOK
  <2>2. m \in Signal /\ m.type = "property"
    BY SignalKinds
  <2>3. Present' = Present
    <3>1. gdl' = [gdl EXCEPT ![u] = [gdl[u] EXCEPT ![k] = v]]
      BY <2>1 DEF HalActs
    <3>2. [gdl[u] EXCEPT ![k] = v] \in Props
      BY <2>1 DEF Props
    <3>3. [gdl[u] EXCEPT ![k] = v] # NoDevice
      BY <3>2, ConstantsAssumption
    <3>. QED  BY <2>1, <3>1, <3>3 DEF Present, TypeOK
  <2>. HIDE DEF m, Tells
  <2>. QED  BY <1>1, <1>2, <1>5, <2>1, <2>2, <2>3
<1>7. ASSUME NEW u \in Udis, NEW c \in Conditions, HalCondition(u, c)
      PROVE  TurnsOK' /\ CopiesOK'
  <2>. DEFINE m == [type |-> "condition", udi |-> u, condition |-> c]
  <2>1. HalActs(gdl, DevicesWatched, m)
    BY <1>7 DEF HalCondition
  <2>2. m \in Signal /\ m.type = "condition"
    BY SignalKinds
  <2>3. Present' = Present
    BY <2>1 DEF HalActs, Present
  <2>. HIDE DEF m, Tells
  <2>. QED  BY <1>1, <1>2, <1>5, <2>1, <2>2, <2>3
<1>8. ASSUME NEW u \in Udis, HalCapability(u)
      PROVE  TurnsOK' /\ CopiesOK'
  <2>. DEFINE m == [type |-> "capability", udi |-> u]
  <2>1. HalActs(gdl, ManagerWatched, m)
    BY <1>8 DEF HalCapability
  <2>2. m \in Signal /\ m.type = "capability"
    BY SignalKinds
  <2>3. Present' = Present
    BY <2>1 DEF HalActs, Present
  <2>. HIDE DEF m, Tells
  <2>. QED  BY <1>1, <1>2, <1>5, <2>1, <2>2, <2>3
<1>. QED  BY <1>3, <1>4, <1>6, <1>7, <1>8 DEF Hal

(* The end of the handler of a signal.                                     *)
LEMMA EndTurns ==
    ASSUME TypeOK, HandlerOK, TurnsOK, CopiesOK, job \in Signal, job' = NoJob,
           UNCHANGED <<gdl, phase, todo, bus>>,
           \A u \in Udis :
              /\ CopiesOf(devices', u) \in Nat
              /\ IF u = job.udi /\ job.type = "added"
                 THEN CopiesOf(devices', u) <= CopiesOf(devices, u) + 1
                 ELSE CopiesOf(devices', u) <= CopiesOf(devices, u)
              /\ u = job.udi /\ job.type = "removed" =>
                    CopiesOf(devices', u) <= CopiesOf(devices, u) - 1
                    \/ CopiesOf(devices', u) = 0
    PROVE  TurnsOK' /\ CopiesOK'
<1>1. phase = "loop" /\ Pending = <<job>> \o bus /\ bus \in Seq(Signal)
  BY DEF HandlerOK, Pending, TypeOK
<1>2. Pending' = bus /\ Present' = Present
  BY ConstantsAssumption DEF Pending, Present
<1>3. ASSUME NEW u \in Udis
      PROVE  /\ TakeTurns(bus, u, u \in Present)
             /\ CopiesOf(devices', u)
                    <= IF ThereAfter(bus, 0, u, u \in Present) THEN 3 ELSE 2
  <2>. DEFINE here == u \in Present
              old == CopiesOf(devices, u)
              new == CopiesOf(devices', u)
  <2>1. TakeTurns(<<job>> \o bus, u, here) /\ here \in BOOLEAN
    BY <1>1 DEF TurnsOK
  <2>2. old <= IF ThereAfter(<<job>> \o bus, 0, u, here) THEN 3 ELSE 2
    BY <1>1 DEF CopiesOK
  <2>3. old \in Nat /\ new \in Nat
    BY CopiesFinite DEF TypeOK
  <2>4. /\ u = job.udi /\ job.type = "added" => new <= old + 1
        /\ ~(u = job.udi /\ job.type = "added") => new <= old
        /\ u = job.udi /\ job.type = "removed" => new <= old - 1 \/ new = 0
    OBVIOUS
  <2>. HIDE DEF here, old, new
  <2>5. /\ TakeTurns(bus, u, here)
        /\ IF Comes(job, u)
           THEN /\ ThereAfter(<<job>> \o bus, 0, u, here) <=> job.type = "removed"
                /\ ThereAfter(bus, 0, u, here) <=> job.type = "added"
           ELSE ThereAfter(bus, 0, u, here) <=> ThereAfter(<<job>> \o bus, 0, u, here)
    BY <1>1, <2>1, FirstPast
  <2>6. new <= IF ThereAfter(bus, 0, u, here) THEN 3 ELSE 2
    <3>1. CASE u = job.udi /\ job.type = "added"
      BY <2>2, <2>3, <2>4, <2>5, <3>1 DEF Comes
    <3>2. CASE u = job.udi /\ job.type = "removed"
      BY <2>2, <2>3, <2>4, <2>5, <3>2 DEF Comes
    <3>3. CASE ~Comes(job, u)
      BY <2>2, <2>3, <2>4, <2>5, <3>3 DEF Comes
    <3>. QED  BY <3>1, <3>2, <3>3 DEF Comes
  <2>. QED  BY <2>5, <2>6 DEF here, new
<1>. QED  BY <1>1, <1>2, <1>3 DEF TurnsOK, CopiesOK

LEMMA DaemonTurns ==
    ASSUME IInv, PassOK, TurnsOK, CopiesOK, Daemon
    PROVE  TurnsOK' /\ CopiesOK'
<1>. USE DEF IInv, halVars, handler
<1>1. /\ NoJob \notin Signal /\ NoJob \notin InitJob
      /\ job # NoJob => (job \in Signal <=> job.type # "oninit")
      /\ job # NoJob => (job \in InitJob <=> job.type = "oninit")
      /\ job # NoJob => job.udi \in Udis
  BY ConstantsAssumption, JobShape DEF TypeOK
<1>2. devices \in Seq(Entry) /\ \A u : CopiesOf(devices, u) \in Nat
  BY CopiesFinite DEF TypeOK
(* Steps that change nothing this is about.                                *)
<1>3. ASSUME UNCHANGED <<gdl, devices, phase, todo>>, Pending' = Pending
      PROVE  TurnsOK' /\ CopiesOK'
  BY <1>3 DEF TurnsOK, CopiesOK, Present
<1>4. CASE CtxInit \/ WatchAll \/ GetAllDevices \/ MainLoop
  <2>1. /\ UNCHANGED <<gdl, bus, job, devices>> /\ phase # "crashed"
        /\ \/ phase' \in {"ctx", "watching"} /\ phase \in {"start", "ctx"}
           \/ phase' = "setup" /\ phase = "watching" /\ todo' = Present
           \/ phase' = "oninit" /\ phase = "setup" /\ todo = {} /\ todo' = Present
           \/ phase' = "loop" /\ phase = "oninit" /\ todo = {}
    BY <1>4 DEF CtxInit, WatchAll, GetAllDevices, MainLoop
  <2>2. Pending' = Pending /\ Present' = Present
    BY <2>1 DEF Pending, Present
  <2>3. TurnsOK'
    BY <2>1, <2>2 DEF TurnsOK
  <2>4. ASSUME NEW u \in Udis
        PROVE  /\ phase' \in {"ctx", "watching", "setup"} => CopiesOf(devices, u) = 0
               /\ phase' = "oninit" => CopiesOf(devices, u) <= 1
               /\ phase' = "loop" => CopiesOf(devices, u) <= 2
               /\ phase' \in {"ctx", "watching", "setup", "oninit", "loop"}
    BY <2>1 DEF CopiesOK
  <2>5. CopiesOK'
    BY <1>2, <2>1, <2>4 DEF CopiesOK
  <2>. QED  BY <2>3, <2>5
<1>5. CASE NextDevice
  <2>1. PICK u \in todo : BeginJob([type |-> "oninit", udi |-> u])
    BY <1>5 DEF NextDevice
  <2>2. job' \in InitJob /\ job \notin Signal
    <3>1. u \in Udis
      BY DEF TypeOK
    <3>. QED  BY <1>1, <1>5, <2>1, <3>1, SignalKinds DEF NextDevice, BeginJob
  <2>3. job' \notin Signal
    BY <2>2, JobShape
  <2>4. Pending' = Pending
    BY <1>5, <2>2, <2>3 DEF Pending, NextDevice
  <2>. QED  BY <1>3, <1>5, <2>4 DEF NextDevice
<1>6. CASE Dispatch
  <2>1. /\ bus # <<>> /\ bus \in Seq(Signal) /\ job = NoJob /\ phase = "loop"
        /\ Head(bus) \in Signal /\ Tail(bus) \in Seq(Signal) /\ bus' = Tail(bus)
        /\ UNCHANGED <<gdl, devices, phase, todo>>
    BY <1>6, HeadTailProperties DEF Dispatch, TypeOK
  <2>2. Pending = <<Head(bus)>> \o Tail(bus)
    BY <1>1, <2>1, HeadTailConcat DEF Pending
  <2>3. CASE Head(bus).type # "capability"
    <3>1. job' = Head(bus)
      BY <1>6, <2>3 DEF Dispatch, BeginJob
    <3>2. Pending' = Pending
      BY <2>1, <2>2, <3>1 DEF Pending
    <3>. QED  BY <1>3, <2>1, <3>2
  <2>4. CASE Head(bus).type = "capability"
    <3>1. job' = job
      BY <1>6, <2>4 DEF Dispatch
    <3>2. Pending' = Tail(bus)
      BY <1>1, <2>1, <3>1 DEF Pending
    <3>3. ASSUME NEW u \in Udis
          PROVE  /\ TakeTurns(Tail(bus), u, u \in Present)
                 /\ ThereAfter(Tail(bus), 0, u, u \in Present)
                       <=> ThereAfter(Pending, 0, u, u \in Present)
      <4>. DEFINE here == u \in Present
                  m == Head(bus)
                  rest == Tail(bus)
      <4>1. TakeTurns(<<m>> \o rest, u, here)
        BY <2>1, <2>2 DEF TurnsOK
      <4>2. ~Comes(m, u) /\ here \in BOOLEAN /\ m \in Signal /\ rest \in Seq(Signal)
        BY <2>1, <2>4 DEF Comes
      <4>3. Pending = <<m>> \o rest
        BY <2>2
      <4>. HIDE DEF here, m, rest
      <4>4. /\ TakeTurns(rest, u, here)
            /\ ThereAfter(rest, 0, u, here) <=> ThereAfter(<<m>> \o rest, 0, u, here)
        BY ONLY <4>1, <4>2, FirstPast
      <4>. QED  BY <4>3, <4>4 DEF here, m, rest
    <3>4. Present' = Present
      BY <2>1 DEF Present
    <3>. QED  BY <2>1, <3>2, <3>3, <3>4 DEF TurnsOK, CopiesOK
  <2>. QED  BY <2>3, <2>4
<1>7. CASE SkipRule \/ TryLiteral \/ TryAction \/ RunCommand
  <2>1. UNCHANGED <<gdl, bus, phase, todo, job, devices>>
    BY <1>7, WalkType
  <2>2. Pending' = Pending
    BY <2>1 DEF Pending
  <2>. QED  BY <1>3, <2>1, <2>2
<1>8. CASE Crash
  <2>1. phase' = "crashed" /\ devices' = <<>>
    BY <1>8 DEF Crash
  <2>2. \A u : CopiesOf(devices', u) = 0
    <3>1. ASSUME NEW u PROVE CopiesOf(<<>>, u) = 0
      <4>1. <<>> \in Seq(Entry) /\ ~Listed(<<>>, u)
        BY DEF Listed, FirstAt
      <4>. QED  BY <4>1, NoCopies
    <3>. QED  BY <2>1, <3>1
  <2>. QED  BY <2>1, <2>2 DEF TurnsOK, CopiesOK
<1>9. CASE ListDevice
  <2>1. /\ job # NoJob /\ job.type \in {"oninit", "added"} /\ job' = NoJob
        /\ UNCHANGED <<gdl, bus, phase>> /\ job.udi \in Udis
        /\ todo' = IF job.type = "oninit" THEN todo \ {job.udi} ELSE todo
    BY <1>1, <1>9 DEF ListDevice, EndJob
  <2>2. ASSUME NEW u \in Udis
        PROVE  /\ CopiesOf(devices', u) \in Nat
               /\ u # job.udi => CopiesOf(devices', u) = CopiesOf(devices, u)
               /\ u = job.udi => CopiesOf(devices', u) <= CopiesOf(devices, u) + 1
    <3>1. CASE gdl[job.udi] # NoDevice
      <4>1. gdl[job.udi] \in CopyProps
        BY <2>1, <3>1, PropsAreCopies DEF TypeOK
      <4>2. devices' = AddDevice(devices, job.udi, gdl[job.udi])
        BY <1>9, <3>1 DEF ListDevice
      <4>3. CopiesOf(devices', u) = CopiesOf(devices, u) + (IF u = job.udi THEN 1 ELSE 0)
        BY <1>2, <2>1, <4>1, <4>2, CopiesAfterAdd
      <4>. QED  BY <1>2, <4>3
    <3>2. CASE gdl[job.udi] = NoDevice
      BY <1>2, <1>9, <3>2 DEF ListDevice
    <3>. QED  BY <3>1, <3>2
  <2>3. CASE job.type = "added"
    <3>1. job \in Signal /\ todo' = todo
      BY <1>1, <2>1, <2>3
    <3>2. \A u \in Udis :
              /\ CopiesOf(devices', u) \in Nat
              /\ IF u = job.udi /\ job.type = "added"
                 THEN CopiesOf(devices', u) <= CopiesOf(devices, u) + 1
                 ELSE CopiesOf(devices', u) <= CopiesOf(devices, u)
      BY <1>2, <2>2, <2>3
    <3>. QED  BY <2>1, <2>3, <3>1, <3>2, EndTurns
  <2>4. CASE job.type = "oninit"
    <3>1. job \in InitJob /\ job \notin Signal /\ job.udi \in todo
          /\ phase \in {"setup", "oninit"} /\ todo' = todo \ {job.udi}
      BY <1>1, <2>1, <2>4 DEF PassOK
    <3>2. Pending' = Pending /\ Present' = Present
      BY <1>1, <2>1, <3>1 DEF Pending, Present
    <3>3. CopiesOK'
      BY <1>2, <2>1, <2>2, <3>1 DEF CopiesOK
    <3>. QED  BY <2>1, <3>2, <3>3 DEF TurnsOK
  <2>. QED  BY <2>1, <2>3, <2>4
<1>10. CASE UnlistDevice
  <2>1. /\ job \in Signal /\ job.type = "removed" /\ job' = NoJob
        /\ UNCHANGED <<gdl, bus, phase, todo>>
        /\ devices' = RemoveDevice(devices, job.udi)
    BY <1>1, <1>10 DEF UnlistDevice, EndJob
  <2>2. ASSUME NEW u \in Udis
        PROVE  /\ CopiesOf(devices', u) \in Nat
               /\ CopiesOf(devices', u) <= CopiesOf(devices, u)
               /\ u = job.udi => \/ CopiesOf(devices', u) <= CopiesOf(devices, u) - 1
                                 \/ CopiesOf(devices', u) = 0
    <3>1. devices' \in Seq(Entry)
      BY <1>2, <2>1, RemoveDeviceFirst
    <3>2. CopiesOf(devices', u) \in Nat
      BY <3>1, CopiesFinite
    <3>3. CopiesOf(devices', u) = IF u = job.udi /\ Listed(devices, job.udi)
                                 THEN CopiesOf(devices, u) - 1
                                 ELSE CopiesOf(devices, u)
      BY <1>2, <2>1, CopiesAfterRemove
    <3>4. ~Listed(devices, u) => CopiesOf(devices, u) = 0
      BY <1>2, NoCopies
    <3>. QED  BY <1>2, <3>2, <3>3, <3>4
  <2>. QED  BY <2>1, <2>2, EndTurns
(* What is said of a property leaves the number of entries as it is.       *)
<1>11. ASSUME job \in Signal, job.type \notin {"added", "removed"}, job' = NoJob,
              UNCHANGED <<gdl, phase, todo, bus>>,
              \A u : CopiesOf(devices', u) = CopiesOf(devices, u)
       PROVE  TurnsOK' /\ CopiesOK'
  <2>1. \A u \in Udis : CopiesOf(devices', u) \in Nat
                        /\ CopiesOf(devices', u) <= CopiesOf(devices, u)
    BY <1>2, <1>11
  <2>. QED  BY <1>11, <2>1, EndTurns
<1>12. CASE UnlistProperty
  <2>1. /\ job \in Signal /\ job.type = "property" /\ job' = NoJob
        /\ UNCHANGED <<gdl, bus, phase, todo>>
        /\ devices' = SetProperty(devices, job.udi, job.key, NoKey)
    BY <1>1, <1>12 DEF UnlistProperty, EndJob, RemoveProperty
  <2>2. \A u : CopiesOf(devices', u) = CopiesOf(devices, u)
    BY <1>2, <2>1, CopiesAfterSet
  <2>. QED  BY <1>11, <2>1, <2>2
<1>13. CASE SetPropertyExists
  <2>1. /\ job \in Signal /\ job.type = "property"
        /\ UNCHANGED <<gdl, bus, phase, todo, devices>>
        /\ job' = job \/ job' = NoJob
    BY <1>1, <1>13 DEF SetPropertyExists, EndJob
  <2>2. CASE job' = job
    <3>1. Pending' = Pending
      BY <2>1, <2>2 DEF Pending
    <3>. QED  BY <1>3, <2>1, <3>1
  <2>3. CASE job' = NoJob
    BY <1>11, <2>1, <2>3
  <2>. QED  BY <2>1, <2>2, <2>3
<1>14. CASE SetPropertyRead
  <2>1. PICK v : devices' = SetProperty(devices, job.udi, job.key, v)
    BY <1>14 DEF SetPropertyRead
  <2>2. /\ job \in Signal /\ job.type = "property" /\ job' = NoJob
        /\ UNCHANGED <<gdl, bus, phase, todo>>
    BY <1>14 DEF SetPropertyRead, EndJob, HandlerOK
  <2>3. \A u : CopiesOf(devices', u) = CopiesOf(devices, u)
    BY <1>2, <2>1, CopiesAfterSet
  <2>. QED  BY <1>11, <2>2, <2>3
<1>15. CASE EndCondition
  <2>1. /\ job \in Signal /\ job.type = "condition" /\ job' = NoJob
        /\ UNCHANGED <<gdl, bus, phase, todo, devices>>
    BY <1>1, <1>15 DEF EndCondition, EndJob
  <2>. QED  BY <1>11, <2>1
<1>. QED
  BY <1>4, <1>5, <1>6, <1>7, <1>8, <1>9, <1>10, <1>12, <1>13, <1>14, <1>15 DEF Daemon

LEMMA CopiesNext ==
    ASSUME IInv, PassOK, TurnsOK, CopiesOK, [Next]_vars
    PROVE  TurnsOK' /\ CopiesOK'
<1>1. CASE Hal
  BY <1>1, HalTurns DEF IInv
<1>2. CASE Daemon
  BY <1>2, DaemonTurns
<1>3. CASE UNCHANGED vars
  BY <1>3 DEF vars, TurnsOK, CopiesOK, Pending, Present
<1>. QED  BY <1>1, <1>2, <1>3 DEF Next

(* A device that is unplugged and plugged in again and again does not make *)
(* the list grow: there are never more than three entries of it, however   *)
(* often it comes and goes, before, while and after the daemon starts.     *)
THEOREM CopiesAtMostThree == Spec => []CopiesBounded
<1>1. IInv /\ PassInv /\ TurnsOK /\ CopiesOK /\ [Next]_vars => TurnsOK' /\ CopiesOK'
  BY CopiesNext DEF PassInv
<1>2. IInv /\ CopiesOK => CopiesBounded
  <2>1. SUFFICES ASSUME IInv, CopiesOK, NEW u \in Udis
                 PROVE  CopiesOf(devices, u) <= 3
    BY DEF CopiesBounded
  <2>2. CopiesOf(devices, u) \in Nat /\ phase \in Phases
    BY <2>1, CopiesFinite DEF IInv, TypeOK
  <2>. QED  BY <2>1, <2>2 DEF CopiesOK, Phases
<1>3. Spec => [](TurnsOK /\ CopiesOK)
  BY <1>1, PassInvariant, CopiesInit, Invariance, PTL DEF Spec
<1>. QED  BY <1>2, <1>3, Invariance, PTL

-----------------------------------------------------------------------------
(* What a removed device gets.  The walk through the literals of a rule    *)
(* comes to what TrueTree says of its expression.                          *)

LEMMA MinIs ==
    ASSUME NEW S, S \subseteq Nat, NEW x \in S, \A y \in S : x <= y
    PROVE  Min(S) = x
<1>1. \A z \in S : (\A y \in S : z <= y) => z = x
  OBVIOUS
<1>. QED  BY <1>1 DEF Min

Meets(lit, list, i) == MatchDevice(list, i, lit) = Wanted(lit)

LEMMA TermHolds ==
    ASSUME NEW term, NEW list, NEW i, \A n \in DOMAIN term : Meets(term[n], list, i)
    PROVE  TermOutcome(term, list, i) = "true"
BY DEF TermOutcome, Meets, Wanted

LEMMA TermFails ==
    ASSUME NEW term, NEW list, NEW i, IsList(term), NEW l \in DOMAIN term,
           \A n \in 1 .. (l - 1) : Meets(term[n], list, i),
           ~Meets(term[l], list, i), MatchDevice(list, i, term[l]) # "null"
    PROVE  TermOutcome(term, list, i) = "false"
<1>. DEFINE stops == {n \in DOMAIN term : ~Meets(term[n], list, i)}
<1>1. DOMAIN term = 1 .. Len(term) /\ Len(term) \in Nat
  BY DEF IsList
<1>2. l \in stops /\ stops \subseteq Nat /\ \A y \in stops : l <= y
  BY <1>1
<1>3. Min(stops) = l
  <2>. HIDE DEF stops
  <2>. QED  BY <1>2, MinIs
<1>4. stops # {}
  BY <1>2
<1>5. stops = {n \in DOMAIN term :
                  MatchDevice(list, i, term[n]) # IF term[n].positive THEN "true" ELSE "false"}
  BY DEF Meets, Wanted
<1>. QED  BY <1>3, <1>4, <1>5 DEF TermOutcome

LEMMA TreeHolds ==
    ASSUME NEW tree, NEW list, NEW i, IsList(tree), NEW t \in DOMAIN tree,
           \A n \in 1 .. (t - 1) : TermOutcome(tree[n], list, i) = "false",
           TermOutcome(tree[t], list, i) = "true"
    PROVE  TrueTree(tree, list, i) = "true"
<1>. DEFINE stops == {n \in DOMAIN tree : TermOutcome(tree[n], list, i) # "false"}
<1>1. DOMAIN tree = 1 .. Len(tree) /\ Len(tree) \in Nat
  BY DEF IsList
<1>2. t \in stops /\ stops \subseteq Nat /\ \A y \in stops : t <= y
  BY <1>1
<1>3. Min(stops) = t
  <2>. HIDE DEF stops
  <2>. QED  BY <1>2, MinIs
<1>4. stops # {}
  BY <1>2
<1>. QED  BY <1>3, <1>4 DEF TrueTree

LEMMA TreeFails ==
    ASSUME NEW tree, NEW list, NEW i,
           \A n \in DOMAIN tree : TermOutcome(tree[n], list, i) = "false"
    PROVE  TrueTree(tree, list, i) = "false"
BY DEF TrueTree

(* What is due grows rule by rule.                                         *)
LEMMA DueGrows ==
    ASSUME NEW list, NEW u
    PROVE  /\ Due(list, u)[0] = <<>>
           /\ \A r \in 1 .. Len(Rules["removed"]) :
                 Due(list, u)[r] = IF Satisfied(list, u, r)
                                   THEN Append(Due(list, u)[r - 1], Command(list, u, r))
                                   ELSE Due(list, u)[r - 1]
<1>. DEFINE N == Len(Rules["removed"])
            S == Seq({Command(list, u, r) : r \in 1 .. N})
            Turn(v, r) == IF Satisfied(list, u, r)
                          THEN Append(v, Command(list, u, r)) ELSE v
            turn == [r \in 1 .. N |-> [v \in S |-> Turn(v, r)]]
            Loop(g) == [r \in 0 .. N |->
                IF r = 0 THEN <<>>
                ELSE IF Satisfied(list, u, r)
                     THEN Append(g[r - 1], Command(list, u, r))
                     ELSE g[r - 1]]
            due == CHOOSE g : g = Loop(g)
<1>1. N \in Nat
  BY RulesListed
<1>2. ASSUME NEW v \in S, NEW r \in 1 .. N PROVE Turn(v, r) \in S
  OBVIOUS
<1>3. turn \in [1 .. N -> [S -> S]]
  BY <1>2
<1>4. <<>> \in S
  OBVIOUS
<1>5. ASSUME NEW g
      PROVE  /\ DOMAIN Loop(g) = 0 .. N
             /\ Loop(g)[0] = <<>>
             /\ \A r \in 1 .. N : Loop(g)[r] = Turn(g[r - 1], r)
  <2>. HIDE DEF N
  <2>. QED  BY <1>1
<1>6. \E g : g = Loop(g)
  <2>1. PICK g : IsLoop(g, N, S, <<>>, turn)
    <3>. HIDE DEF S, turn, N
    <3>. QED  BY <1>1, <1>3, <1>4, LoopExists
  <2>2. \A r \in 1 .. N : g[r] = Turn(g[r - 1], r)
    <3>1. \A v \in S, r \in 1 .. N : turn[r][v] = Turn(v, r)
      OBVIOUS
    <3>. HIDE DEF S, Turn, N, turn
    <3>. QED  BY <1>1, <2>1, <3>1 DEF IsLoop
  <2>3. \A r \in 0 .. N : g[r] = Loop(g)[r]
    <3>. HIDE DEF Turn, Loop
    <3>. QED  BY <1>1, <1>5, <2>1, <2>2 DEF IsLoop
  <2>4. g = [r \in 0 .. N |-> g[r]] /\ Loop(g) = [r \in 0 .. N |-> Loop(g)[r]]
    BY <2>1 DEF IsLoop
  <2>5. g = Loop(g)
    <3>. HIDE DEF Loop
    <3>. QED  BY <2>3, <2>4
  <2>. QED  BY <2>5
<1>7. due = Loop(due)
  <2>. HIDE DEF Loop
  <2>. QED  BY <1>6
<1>8. Due(list, u) = due
  BY DEF Due
<1>9. due[0] = <<>> /\ \A r \in 1 .. N : due[r] = Turn(due[r - 1], r)
  <2>. HIDE DEF due, Loop, Turn, N
  <2>. QED  BY <1>5, <1>7
<1>. HIDE DEF due
<1>. QED  BY <1>8, <1>9

(* Where the walk for a removed device is in an expression: the terms      *)
(* before do not hold, of this term what came before does.                 *)
Walked(list, i, tree, t, l) ==
    /\ t \in DOMAIN tree /\ l \in DOMAIN tree[t]
    /\ \A n \in 1 .. (t - 1) : TermOutcome(tree[n], list, i) = "false"
    /\ \A n \in 1 .. (l - 1) : Meets(tree[t][n], list, i)

(* What has been run is what the rules before call for.                    *)
RemovalOK ==
    job # NoJob /\ FromList =>
        /\ stage \in {"match", "run"}
        /\ pos.rule <= Len(Rules["removed"]) + 1
        /\ pos.act = 1
        /\ ran = Due(devices, job.udi)[pos.rule - 1]
        /\ stage = "run" =>
              /\ pos.rule <= Len(Rules["removed"])
              /\ Satisfied(devices, job.udi, pos.rule)
        /\ stage = "match" /\ pos.rule <= Len(Rules["removed"]) =>
              Walked(devices, Find(devices, job.udi), Rules["removed"][pos.rule].match,
                     pos.term, pos.lit)

LEMMA WalkStarts ==
    ASSUME NEW tree, NormalForm(tree), NEW list, NEW i
    PROVE  Walked(list, i, tree, 1, 1)
<1>1. 1 \in DOMAIN tree
  BY DEF NormalForm, IsList
<1>2. IsList(tree[1]) /\ tree[1] # <<>>
  BY <1>1 DEF NormalForm
<1>3. 1 \in DOMAIN tree[1]
  BY <1>2 DEF IsList
<1>4. 1 .. (1 - 1) = {}
  OBVIOUS
<1>. QED  BY <1>1, <1>3, <1>4 DEF Walked

(* On to the next rule.                                                    *)
LEMMA RuleDone ==
    ASSUME TypeOK, job # NoJob, FromList, pos.rule <= Len(Rules["removed"]),
           stage' = "match", pos' = NextRule,
           ran' = Due(devices, job.udi)[pos.rule], UNCHANGED <<job, devices>>
    PROVE  RemovalOK'
<1>. DEFINE N == Len(Rules["removed"])
            r == pos.rule + 1
<1>1. N \in Nat /\ DOMAIN Rules["removed"] = 1 .. N /\ r \in Nat \ {0, 1} /\ r <= N + 1
  BY RulesListed DEF TypeOK, Position
<1>2. /\ pos'.rule = r /\ pos'.term = 1 /\ pos'.lit = 1 /\ pos'.act = 1
      /\ r - 1 = pos.rule
  BY DEF NextRule, FirstRule, TypeOK, Position
<1>3. ASSUME r <= N
      PROVE  Walked(devices, Find(devices, job.udi), Rules["removed"][r].match, 1, 1)
  <2>1. NormalForm(Rules["removed"][r].match)
    BY <1>1, <1>3, RulesAssumption
  <2>. QED  BY <2>1, WalkStarts
<1>. HIDE DEF r, N
<1>. QED  BY <1>1, <1>2, <1>3 DEF RemovalOK, N

LEMMA RemovalInit == Init => RemovalOK
BY DEF Init, RemovalOK

LEMMA RemovalNext ==
    ASSUME TypeOK, HandlerOK, TypeOK', RemovalOK, [Next]_vars
    PROVE  RemovalOK'
<1>. USE DEF halVars, handler
<1>. DEFINE N == Len(Rules["removed"])
            i == Find(devices, job.udi)
            tree == Rules["removed"][pos.rule].match
            due == Due(devices, job.udi)
<1>1. N \in Nat /\ DOMAIN Rules["removed"] = 1 .. N /\ pos.rule \in Nat \ {0}
      /\ pos.term \in Nat \ {0} /\ pos.lit \in Nat \ {0} /\ pos \in Position
  BY RulesListed DEF TypeOK, Position
<1>2. ASSUME UNCHANGED <<stage, pos, ran, job, devices>>
      PROVE  RemovalOK'
  BY <1>2 DEF RemovalOK, FromList
<1>3. ASSUME job' = NoJob
      PROVE  RemovalOK'
  BY <1>3 DEF RemovalOK
<1>4. ASSUME NEW j, BeginJob(j), UNCHANGED devices
      PROVE  RemovalOK'
  <2>1. /\ job' = j /\ stage' = "match" /\ ran' = <<>> /\ pos'.rule = 1
        /\ pos'.term = 1 /\ pos'.lit = 1 /\ pos'.act = 1
    BY <1>4 DEF BeginJob, FirstRule
  <2>2. Due(devices, j.udi)[1 - 1] = <<>>
    BY DueGrows
  <2>3. ASSUME 1 <= N
        PROVE  Walked(devices, Find(devices, j.udi), Rules["removed"][1].match, 1, 1)
    <3>1. NormalForm(Rules["removed"][1].match)
      BY <1>1, <2>3, RulesAssumption
    <3>. QED  BY <3>1, WalkStarts
  <2>. HIDE DEF N
  <2>. QED  BY <1>1, <1>4, <2>1, <2>2, <2>3 DEF RemovalOK, N
<1>5. CASE SkipRule \/ TryLiteral \/ TryAction \/ RunCommand
  <2>1. UNCHANGED <<job, devices>>
    BY <1>5, WalkType
  <2>2. SUFFICES ASSUME job # NoJob, FromList PROVE RemovalOK'
    BY <2>1 DEF RemovalOK, FromList
  <2>3. /\ job.type = "removed" /\ JobRules = Rules["removed"] /\ RuleConcerned
        /\ stage \in {"match", "run"} /\ pos.rule <= N + 1 /\ pos.act = 1
        /\ ran = due[pos.rule - 1]
        /\ Rule = Rules["removed"][pos.rule]
    BY <2>2 DEF RemovalOK, FromList, JobRules, RuleConcerned, Rule
  <2>4. CASE TryLiteral
    <3>. DEFINE term == tree[pos.term]
                lit == term[pos.lit]
    <3>1. pos.rule \in 1 .. N /\ stage = "match"
      BY <1>1, <2>3, <2>4 DEF TryLiteral, RulesLeft
    <3>2. Walked(devices, i, tree, pos.term, pos.lit)
      BY <2>2, <3>1 DEF RemovalOK
    <3>3. /\ IsList(tree) /\ DOMAIN tree = 1 .. Len(tree) /\ Len(tree) \in Nat
          /\ \A n \in DOMAIN tree : /\ IsList(tree[n]) /\ tree[n] # <<>>
                                    /\ DOMAIN tree[n] = 1 .. Len(tree[n])
                                    /\ Len(tree[n]) \in Nat
      <4>1. NormalForm(tree)
        BY <1>1, <3>1, RulesAssumption
      <4>. HIDE DEF tree
      <4>. QED  BY <4>1 DEF NormalForm, IsList
    <3>4. /\ LiteralOutcome(lit) = MatchDevice(devices, i, lit)
          /\ MatchDevice(devices, i, lit) # "null"
      BY <2>2, <2>3, <2>4 DEF TryLiteral, LiteralOutcome
    <3>5. /\ ran' = ran
          /\ \/ /\ Meets(lit, devices, i) /\ pos.lit < Len(term)
                /\ pos' = [pos EXCEPT !.lit = @ + 1] /\ stage' = stage
             \/ /\ Meets(lit, devices, i) /\ pos.lit = Len(term)
                /\ stage' = "run" /\ pos' = pos
             \/ /\ ~Meets(lit, devices, i) /\ stage' = stage
                /\ pos' = IF pos.term < Len(tree) THEN NextTerm ELSE NextRule
      BY <2>3, <2>4, <3>4 DEF TryLiteral, Meets, RuleMatched
    <3>. HIDE DEF tree, term, lit
    <3>6. /\ pos.term \in 1 .. Len(tree) /\ pos.lit \in 1 .. Len(term)
          /\ \A n \in 1 .. (pos.term - 1) : TermOutcome(tree[n], devices, i) = "false"
          /\ \A n \in 1 .. (pos.lit - 1) : Meets(term[n], devices, i)
          /\ lit = term[pos.lit] /\ IsList(term)
      BY <3>2, <3>3 DEF Walked, term, lit
    <3>7. CASE Meets(lit, devices, i) /\ pos.lit < Len(term)
      <4>1. /\ pos'.lit = pos.lit + 1 /\ pos'.term = pos.term /\ pos'.rule = pos.rule
            /\ pos'.act = 1 /\ stage' = "match" /\ ran' = ran
        BY <1>1, <2>3, <3>1, <3>5, <3>6, <3>7 DEF Position
      <4>2. \A n \in 1 .. ((pos.lit + 1) - 1) : Meets(term[n], devices, i)
        BY <1>1, <3>6, <3>7
      <4>3. Walked(devices, i, tree, pos.term, pos.lit + 1)
        BY <1>1, <3>3, <3>6, <3>7, <4>2 DEF Walked, term
      <4>. HIDE DEF N
      <4>. QED  BY <2>1, <2>3, <3>1, <4>1, <4>3 DEF RemovalOK, tree, N
    <3>8. CASE Meets(lit, devices, i) /\ pos.lit = Len(term)
      <4>9. DOMAIN term = 1 .. Len(term)
        BY <3>6 DEF IsList
      <4>1. \A n \in DOMAIN term : Meets(term[n], devices, i)
        <5>1. \A n \in DOMAIN term : n = pos.lit \/ n \in 1 .. (pos.lit - 1)
          BY <1>1, <3>6, <3>8, <4>9
        <5>. QED  BY <3>6, <3>8, <5>1
      <4>2. TermOutcome(tree[pos.term], devices, i) = "true"
        BY <4>1, TermHolds DEF term
      <4>3. TrueTree(tree, devices, i) = "true"
        BY <3>3, <3>6, <4>2, TreeHolds
      <4>4. Satisfied(devices, job.udi, pos.rule)
        BY <4>3 DEF Satisfied, tree
      <4>5. stage' = "run" /\ pos' = pos /\ ran' = ran
        BY <3>5, <3>8
      <4>. HIDE DEF N
      <4>. QED  BY <2>1, <2>3, <3>1, <4>4, <4>5 DEF RemovalOK, N
    <3>9. CASE ~Meets(lit, devices, i)
      <4>1. TermOutcome(tree[pos.term], devices, i) = "false"
        <5>1. pos.lit \in DOMAIN term
          BY <3>3, <3>6 DEF term
        <5>2. TermOutcome(term, devices, i) = "false"
          BY <3>4, <3>6, <3>9, <5>1, TermFails
        <5>. QED  BY <5>2 DEF term
      <4>2. \A n \in 1 .. pos.term : TermOutcome(tree[n], devices, i) = "false"
        BY <1>1, <3>6, <4>1
      <4>3. CASE pos.term < Len(tree)
        <5>1. /\ pos'.lit = 1 /\ pos'.term = pos.term + 1 /\ pos'.rule = pos.rule
              /\ pos'.act = 1 /\ stage' = "match" /\ ran' = ran
          BY <3>1, <3>5, <3>9, <4>3 DEF NextTerm
        <5>2. pos.term + 1 \in DOMAIN tree /\ (pos.term + 1) - 1 = pos.term
          BY <1>1, <3>3, <4>3
        <5>3. 1 \in DOMAIN tree[pos.term + 1] /\ 1 .. (1 - 1) = {}
          BY <3>3, <5>2
        <5>4. Walked(devices, i, tree, pos.term + 1, 1)
          BY <4>2, <5>2, <5>3 DEF Walked
        <5>. HIDE DEF N
        <5>. QED  BY <2>1, <2>3, <3>1, <5>1, <5>4 DEF RemovalOK, tree, N
      <4>4. CASE ~(pos.term < Len(tree))
        <5>1. \A n \in DOMAIN tree : TermOutcome(tree[n], devices, i) = "false"
          BY <1>1, <3>3, <3>6, <4>2, <4>4
        <5>2. TrueTree(tree, devices, i) = "false"
          BY <5>1, TreeFails
        <5>3. ~Satisfied(devices, job.udi, pos.rule)
          BY <5>2 DEF Satisfied, tree
        <5>4. due[pos.rule] = due[pos.rule - 1]
          BY <3>1, <5>3, DueGrows
        <5>5. ran' = due[pos.rule] /\ stage' = "match" /\ pos' = NextRule
          BY <2>3, <3>1, <3>5, <3>9, <4>4, <5>4
        <5>. QED  BY <1>1, <2>1, <2>2, <3>1, <5>5, RuleDone
      <4>. QED  BY <4>3, <4>4
    <3>. QED  BY <3>5, <3>7, <3>8, <3>9
  <2>5. CASE RunCommand
    <3>1. /\ pos.rule \in 1 .. N /\ stage = "run"
          /\ Satisfied(devices, job.udi, pos.rule)
      BY <1>1, <2>2, <2>5 DEF RunCommand, RemovalOK
    <3>2. /\ stage' = "match" /\ pos' = NextRule
          /\ ran' = Append(ran, [rule |-> pos.rule, act |-> 1, args |-> Arguments])
      BY <2>3, <2>5 DEF RunCommand
    <3>3. [rule |-> pos.rule, act |-> 1, args |-> Arguments]
              = Command(devices, job.udi, pos.rule)
      BY <2>2, <2>3 DEF Command, Arguments, Exec, Substitute
    <3>4. ran' = due[pos.rule]
      <4>1. due[pos.rule] = Append(due[pos.rule - 1], Command(devices, job.udi, pos.rule))
        BY <3>1, DueGrows
      <4>. QED  BY <2>3, <3>2, <3>3, <4>1
    <3>. QED  BY <1>1, <2>1, <2>2, <3>1, <3>2, <3>4, RuleDone
  <2>6. ~SkipRule /\ ~TryAction
    BY <2>3 DEF SkipRule, TryAction
  <2>. QED  BY <1>5, <2>4, <2>5, <2>6
<1>6. CASE Dispatch
  <2>1. PICK m : m = Head(bus)
    OBVIOUS
  <2>2. CASE m.type = "capability"
    BY <1>2, <1>6, <2>1, <2>2 DEF Dispatch
  <2>3. CASE m.type # "capability"
    BY <1>4, <1>6, <2>1, <2>3 DEF Dispatch
  <2>. QED  BY <2>2, <2>3
<1>7. CASE NextDevice
  BY <1>4, <1>7 DEF NextDevice
<1>8. CASE CtxInit \/ WatchAll \/ GetAllDevices \/ MainLoop
  BY <1>2, <1>8 DEF CtxInit, WatchAll, GetAllDevices, MainLoop
<1>9. CASE Crash \/ ListDevice \/ UnlistDevice \/ UnlistProperty \/ SetPropertyRead \/ EndCondition
  BY <1>3, <1>9 DEF Crash, ListDevice, UnlistDevice, UnlistProperty, SetPropertyRead,
                    EndCondition, EndJob
<1>10. CASE SetPropertyExists
  <2>1. job.type = "property" /\ UNCHANGED devices /\ (UNCHANGED job \/ job' = NoJob)
    BY <1>10 DEF SetPropertyExists, EndJob
  <2>. QED  BY <1>3, <2>1 DEF RemovalOK, FromList
<1>11. CASE Hal
  <2>1. UNCHANGED <<stage, pos, ran, job, devices>>
    BY <1>11 DEF Hal, HalAdd, HalRemove, HalSetProperty, HalCondition, HalCapability, HalActs
  <2>. QED  BY <1>2, <2>1
<1>12. CASE UNCHANGED vars
  BY <1>2, <1>12 DEF vars
<1>. QED  BY <1>5, <1>6, <1>7, <1>8, <1>9, <1>10, <1>11, <1>12 DEF Next, Daemon

(* A removed device the list knows gets the commands of the rules its      *)
(* entry satisfies, whatever HAL does while the rules are gone through.    *)
THEOREM RemovalServed == Spec => []RemovalComplete
<1>1. IInv /\ RemovalOK /\ [Next]_vars => RemovalOK'
  BY RemovalNext, NextInv DEF IInv
<1>2. IInv /\ RemovalOK => RemovalComplete
  <2>1. SUFFICES ASSUME IInv, RemovalOK, job # NoJob, FromList, RulesDone
                 PROVE  ran = Due(devices, job.udi)[Len(Rules["removed"])]
    BY DEF RemovalComplete
  <2>2. /\ pos.rule \in Nat \ {0} /\ pos.rule \notin 1 .. Len(Rules["removed"])
        /\ Len(Rules["removed"]) \in Nat
    BY <2>1, RulesListed DEF RulesDone, JobRules, FromList, IInv, TypeOK, Position
  <2>3. /\ pos.rule <= Len(Rules["removed"]) + 1
        /\ ran = Due(devices, job.udi)[pos.rule - 1]
    BY <2>1 DEF RemovalOK
  <2>4. pos.rule - 1 = Len(Rules["removed"])
    BY <2>2, <2>3
  <2>. QED  BY <2>3, <2>4
<1>3. Spec => []RemovalOK
  BY <1>1, RemovalInit, Invariance, PTL DEF Spec
<1>. QED  BY <1>2, <1>3, Invariance, PTL

-----------------------------------------------------------------------------
(* The daemon implements the abstract mirror of HalMirror: from here on,   *)
(* Active are the phases in which anything is vouched for.                 *)

Active == {"setup", "oninit", "loop"}

-----------------------------------------------------------------------------
(* The refinement mapping.                                                 *)

(* What agrees with HAL in the daemon's terms is equal in the mirror's.    *)
LEMMA AgreesIsEqual ==
    ASSUME TypeOK, NEW t \in Things, t[1] \in Present,
           Agrees(devices, t[1], t[2], HalHas(t[1], t[2]))
    PROVE  ListKnows[t] = HalKnows[t]
<1>. DEFINE u == t[1]
            a == t[2]
            f == Find(devices, u)
<1>1. PICK i \in DOMAIN devices :
        /\ FirstAt(devices, u, i)
        /\ a # There => devices[i].props[a] = HalHas(u, a)
  BY DEF Agrees
<1>2. Listed(devices, u)
  BY <1>1 DEF Listed
<1>3. f = i
  BY <1>1, <1>2, FindFirst, FirstUnique DEF TypeOK
<1>4. ListHas(u, a) = HalHas(u, a)
  BY <1>1, <1>3 DEF ListHas, HalHas
<1>. QED  BY <1>2, <1>4 DEF ListKnows, HalKnows

(* MirrorCurrent says that what is vouched for is right.                   *)
LEMMA VouchedIsRight ==
    ASSUME IInv, NEW t \in VouchedFor
    PROVE  ListKnows[t] = HalKnows[t]
<1>1. /\ t \in Things /\ t[1] \in Present /\ t[2] \in Aspects
      /\ phase \in Active
      /\ NothingPending(Pending, t[1], t[2])
      /\ ~(phase = "setup" /\ t[1] \in todo)
  BY DEF VouchedFor, Things, Active
<1>2. Agrees(devices, t[1], t[2], HalHas(t[1], t[2]))
  BY <1>1 DEF IInv, MirrorCurrent, Active
<1>. QED  BY <1>1, <1>2, AgreesIsEqual DEF IInv

-----------------------------------------------------------------------------
(* Steps of HAL.                                                           *)

(* A signal is sent about exactly the things that change, among those of   *)
(* devices that are there before or after.                                 *)
TellsChanges(m) ==
    \A t \in Things : t[1] \in Present \cup Present' =>
        (Concerns(m, t[1], t[2]) <=> HalKnows'[t] # HalKnows[t])

LEMMA HalActChanges ==
    ASSUME IInv, NEW new, NEW w, NEW m \in Signal, HalActs(new, w, m),
           phase \in Active => w,
           TellsChanges(m)
    PROVE  Mirror!HalChanges
<1>1. Pending \in Seq(Signal)
  BY PendingType DEF IInv
<1>2. Pending' = IF w THEN Append(Pending, m) ELSE Pending
  BY HalPending DEF IInv
<1>3. phase' = phase /\ todo' = todo /\ devices' = devices
  BY DEF HalActs
<1>4. ListKnows' = ListKnows /\ DOMAIN HalKnows' = Things
  BY <1>3 DEF ListKnows, ListHas, HalKnows
<1>5. ASSUME NEW t \in Things, phase \in Active
      PROVE  NothingPending(Pending', t[1], t[2])
               <=> NothingPending(Pending, t[1], t[2]) /\ ~Concerns(m, t[1], t[2])
  <2>1. Pending' = Append(Pending, m)
    BY <1>2, <1>5
  <2>2. CASE Concerns(m, t[1], t[2])
    BY <1>1, <2>1, <2>2, AppendSettles
  <2>3. CASE ~Concerns(m, t[1], t[2])
    BY <1>1, <2>1, <2>3, AppendOther
  <2>. QED  BY <2>2, <2>3
<1>6. ASSUME NEW t \in Things, HalKnows'[t] = HalKnows[t]
      PROVE  t[1] \in Present' <=> t[1] \in Present
  BY <1>6 DEF HalKnows
<1>7. VouchedFor' = {t \in VouchedFor : HalKnows'[t] = HalKnows[t]}
  <2>1. ASSUME NEW t \in VouchedFor'
        PROVE  t \in VouchedFor /\ HalKnows'[t] = HalKnows[t]
    <3>1. /\ t \in Things /\ phase \in Active /\ t[1] \in Present'
          /\ NothingPending(Pending', t[1], t[2])
          /\ ~(phase = "setup" /\ t[1] \in todo)
      BY <1>3, <2>1 DEF VouchedFor, Active
    <3>2. NothingPending(Pending, t[1], t[2]) /\ ~Concerns(m, t[1], t[2])
      BY <1>5, <3>1
    <3>3. HalKnows'[t] = HalKnows[t]
      BY <3>1, <3>2 DEF TellsChanges
    <3>4. t[1] \in Present
      BY <1>6, <3>1, <3>3
    <3>. QED  BY <3>1, <3>2, <3>3, <3>4 DEF VouchedFor, Active
  <2>2. ASSUME NEW t \in VouchedFor, HalKnows'[t] = HalKnows[t]
        PROVE  t \in VouchedFor'
    <3>1. /\ t \in Things /\ phase \in Active /\ t[1] \in Present
          /\ NothingPending(Pending, t[1], t[2])
          /\ ~(phase = "setup" /\ t[1] \in todo)
      BY DEF VouchedFor, Active
    <3>2. ~Concerns(m, t[1], t[2])
      BY <2>2, <3>1 DEF TellsChanges
    <3>3. NothingPending(Pending', t[1], t[2])
      BY <1>5, <3>1, <3>2
    <3>4. t[1] \in Present'
      BY <1>6, <2>2, <3>1
    <3>. QED  BY <1>3, <3>1, <3>3, <3>4 DEF VouchedFor, Active
  <2>. QED  BY <2>1, <2>2
<1>. QED  BY <1>3, <1>4, <1>7 DEF Mirror!HalChanges

LEMMA HalRefines ==
    ASSUME IInv, Hal
    PROVE  Mirror!HalChanges
<1>. USE DEF IInv
<1>1. phase \in Active => ManagerWatched /\ DevicesWatched
  BY DEF Active, ManagerWatched, DevicesWatched
<1>2. ASSUME NEW u \in Udis, NEW x, gdl' = [gdl EXCEPT ![u] = x],
             NEW t \in Things, t[1] # u
      PROVE  HalKnows'[t] = HalKnows[t]
  <2>1. t[1] \in Udis /\ gdl'[t[1]] = gdl[t[1]]
    BY <1>2 DEF Things, TypeOK
  <2>. QED  BY <2>1 DEF HalKnows, Present, HalHas
<1>3. ASSUME NEW u \in Udis, HalAdd(u)
      PROVE  Mirror!HalChanges
  <2>. DEFINE m == [type |-> "added", udi |-> u]
  <2>1. PICK p \in Profiles : HalActs([gdl EXCEPT ![u] = p], ManagerWatched, m)
    BY <1>3 DEF HalAdd
  <2>2. m \in Signal /\ m.type = "added" /\ m.udi = u
    BY SignalKinds
  <2>3. gdl' = [gdl EXCEPT ![u] = p] /\ gdl[u] = NoDevice /\ p # NoDevice
    BY <1>3, <2>1, ConstantsAssumption DEF HalAdd, HalActs
  <2>. HIDE DEF m
  <2>4. u \notin Present /\ u \in Present'
    BY <2>3 DEF Present, TypeOK
  <2>5. ASSUME NEW t \in Things
        PROVE  Concerns(m, t[1], t[2]) <=> HalKnows'[t] # HalKnows[t]
    <3>1. CASE t[1] = u
      <4>1. HalKnows'[t] # HalKnows[t]
        BY <2>4, <3>1 DEF HalKnows
      <4>. QED  BY <2>2, <3>1, <4>1 DEF Concerns
    <3>2. CASE t[1] # u
      <4>1. HalKnows'[t] = HalKnows[t]
        BY <1>2, <2>3, <3>2
      <4>. QED  BY <2>2, <3>2, <4>1 DEF Concerns
    <3>. QED  BY <3>1, <3>2
  <2>. QED  BY <1>1, <2>1, <2>2, <2>5, HalActChanges DEF TellsChanges
<1>4. ASSUME NEW u \in Udis, HalRemove(u)
      PROVE  Mirror!HalChanges
  <2>. DEFINE m == [type |-> "removed", udi |-> u, was |-> gdl[u]]
  <2>1. HalActs([gdl EXCEPT ![u] = NoDevice], ManagerWatched, m)
    BY <1>4 DEF HalRemove
  <2>2. m \in Signal /\ m.type = "removed" /\ m.udi = u
    <3>1. gdl[u] \in Props
      BY <1>4 DEF HalRemove, TypeOK
    <3>. QED  BY <3>1, SignalKinds
  <2>3. gdl' = [gdl EXCEPT ![u] = NoDevice] /\ gdl[u] # NoDevice
    BY <1>4, <2>1 DEF HalRemove, HalActs
  <2>. HIDE DEF m
  <2>4. u \in Present /\ u \notin Present'
    BY <2>3 DEF Present, TypeOK
  <2>5. ASSUME NEW t \in Things
        PROVE  Concerns(m, t[1], t[2]) <=> HalKnows'[t] # HalKnows[t]
    <3>1. CASE t[1] = u
      <4>1. HalKnows'[t] # HalKnows[t]
        BY <2>4, <3>1 DEF HalKnows
      <4>. QED  BY <2>2, <3>1, <4>1 DEF Concerns
    <3>2. CASE t[1] # u
      <4>1. HalKnows'[t] = HalKnows[t]
        BY <1>2, <2>3, <3>2
      <4>. QED  BY <2>2, <3>2, <4>1 DEF Concerns
    <3>. QED  BY <3>1, <3>2
  <2>. QED  BY <1>1, <2>1, <2>2, <2>5, HalActChanges DEF TellsChanges
<1>5. ASSUME NEW u \in Udis, NEW k \in Keys, NEW v \in Values \cup {NoKey},
             HalSetProperty(u, k, v)
      PROVE  Mirror!HalChanges
  <2>. DEFINE m == [type |-> "property", udi |-> u, key |-> k, value |-> v]
  <2>1. HalActs([gdl EXCEPT ![u][k] = v], DevicesWatched, m)
    BY <1>5 DEF HalSetProperty
  <2>2. m \in Signal /\ m.type = "property" /\ m.udi = u /\ m.key = k
    BY SignalKinds
  <2>3. gdl' = [gdl EXCEPT ![u] = [gdl[u] EXCEPT ![k] = v]]
    BY <2>1 DEF HalActs
  <2>4. gdl[u] \in [Keys -> Values \cup {NoKey}] /\ gdl[u] # NoDevice /\ gdl[u][k] # v
    BY <1>5 DEF HalSetProperty, TypeOK, Props
  <2>. HIDE DEF m
  <2>5. gdl'[u] = [gdl[u] EXCEPT ![k] = v] /\ gdl'[u] \in Props
    BY <2>3, <2>4 DEF TypeOK, Props
  <2>6. u \in Present /\ u \in Present'
    BY <2>4, <2>5, ConstantsAssumption DEF Present
  <2>7. k # There
    BY ConstantsAssumption DEF There
  <2>8. ASSUME NEW t \in Things
        PROVE  Concerns(m, t[1], t[2]) <=> HalKnows'[t] # HalKnows[t]
    <3>1. CASE t[1] # u
      <4>1. HalKnows'[t] = HalKnows[t]
        BY <1>2, <2>3, <3>1
      <4>. QED  BY <2>2, <3>1, <4>1 DEF Concerns
    <3>2. CASE t[1] = u /\ t[2] = k
      <4>1. HalHas(u, k)' = v /\ HalHas(u, k) = gdl[u][k]
        BY <2>4, <2>5, <2>7 DEF HalHas
      <4>2. HalKnows'[t] # HalKnows[t]
        BY <2>4, <2>6, <3>2, <4>1 DEF HalKnows
      <4>. QED  BY <2>2, <3>2, <4>2 DEF Concerns
    <3>3. CASE t[1] = u /\ t[2] # k
      <4>1. t[2] # There => gdl'[u][t[2]] = gdl[u][t[2]]
        BY <2>4, <2>5, <3>3 DEF Things, Aspects
      <4>2. HalHas(u, t[2])' = HalHas(u, t[2])
        BY <4>1 DEF HalHas
      <4>3. HalKnows'[t] = HalKnows[t]
        BY <2>6, <3>3, <4>2 DEF HalKnows
      <4>. QED  BY <2>2, <3>3, <4>3 DEF Concerns
    <3>. QED  BY <3>1, <3>2, <3>3
  <2>. QED  BY <1>1, <2>1, <2>2, <2>8, HalActChanges DEF TellsChanges
<1>6. ASSUME NEW w, NEW m \in Signal, HalActs(gdl, w, m), phase \in Active => w,
             m.type \in {"condition", "capability"}
      PROVE  Mirror!HalChanges
  <2>1. HalKnows' = HalKnows
    BY <1>6 DEF HalActs, HalKnows, Present, HalHas
  <2>2. TellsChanges(m)
    BY <1>6, <2>1 DEF TellsChanges, Concerns
  <2>. QED  BY <1>6, <2>2, HalActChanges
<1>7. ASSUME NEW u \in Udis, NEW c \in Conditions, HalCondition(u, c)
      PROVE  Mirror!HalChanges
  <2>. DEFINE m == [type |-> "condition", udi |-> u, condition |-> c]
  <2>1. HalActs(gdl, DevicesWatched, m)
    BY <1>7 DEF HalCondition
  <2>2. m \in Signal /\ m.type = "condition"
    BY SignalKinds
  <2>. QED  BY <1>1, <1>6, <2>1, <2>2
<1>8. ASSUME NEW u \in Udis, HalCapability(u)
      PROVE  Mirror!HalChanges
  <2>. DEFINE m == [type |-> "capability", udi |-> u]
  <2>1. HalActs(gdl, ManagerWatched, m)
    BY <1>8 DEF HalCapability
  <2>2. m \in Signal /\ m.type = "capability"
    BY SignalKinds
  <2>. QED  BY <1>1, <1>6, <2>1, <2>2
<1>. QED  BY <1>3, <1>4, <1>5, <1>7, <1>8 DEF Hal

-----------------------------------------------------------------------------
(* Steps of the daemon.                                                    *)

LEMMA AllVouchedRight ==
    IInv => \A t \in VouchedFor : ListKnows[t] = HalKnows[t]
BY VouchedIsRight

LEMMA VouchedRightNext ==
    (IInv => \A t \in VouchedFor : ListKnows[t] = HalKnows[t])'
BY AllVouchedRight, PTL

(* HAL is as before, start-up only goes forward, and no signal is waiting  *)
(* that was not: nothing stops being vouched for.                          *)
Forward ==
    /\ gdl' = gdl
    /\ \/ phase \notin Active
       \/ phase = "setup" /\ phase' = "setup" /\ todo' \subseteq todo
       \/ phase' \in {"oninit", "loop"}
    /\ phase # "crashed" /\ phase' # "crashed"
    /\ \A u, a : NothingPending(Pending, u, a) => NothingPending(Pending', u, a)

LEMMA ForwardLooks ==
    ASSUME IInv', Forward
    PROVE  Mirror!Looks
<1>1. HalKnows' = HalKnows /\ Present' = Present
  BY DEF Forward, HalKnows, Present, HalHas
<1>2. VouchedFor \subseteq VouchedFor'
  BY <1>1 DEF VouchedFor, Forward, Active
<1>3. \A t \in VouchedFor' : ListKnows'[t] = HalKnows[t]
  BY <1>1, VouchedRightNext
<1>4. VouchedFor' \subseteq Things /\ DOMAIN ListKnows' = Things
  BY DEF VouchedFor, ListKnows
<1>. QED  BY <1>1, <1>2, <1>3, <1>4 DEF Mirror!Looks, Forward

(* The handler of a signal ends and the signal is no longer pending.       *)
LEMMA JobDone ==
    ASSUME TypeOK, HandlerOK, job # NoJob, phase # "crashed", job' = NoJob,
           UNCHANGED <<gdl, bus, phase>>,
           todo' = IF job.type = "oninit" THEN todo \ {job.udi} ELSE todo
    PROVE  Forward
<1>1. NoJob \notin Signal
  BY ConstantsAssumption
<1>2. Pending' = bus
  BY <1>1 DEF Pending
<1>3. \A u, a : NothingPending(Pending, u, a) => NothingPending(Pending', u, a)
  BY <1>2, Handled DEF Pending, TypeOK
<1>4. \/ phase \notin Active
      \/ phase = "setup" /\ phase' = "setup" /\ todo' \subseteq todo
      \/ phase' \in {"oninit", "loop"}
  BY DEF Active
<1>. QED  BY <1>3, <1>4 DEF Forward

(* Events are handled, and devices gone through, only while the daemon is  *)
(* up and has begun its first pass.                                        *)
HandlingActive == job # NoJob \/ todo # {} => phase \in Active

RInv == IInv /\ HandlingActive

LEMMA InitActive == Init => HandlingActive
BY DEF Init, HandlingActive

LEMMA NextActive ==
    ASSUME TypeOK, HandlingActive, [Next]_vars
    PROVE  HandlingActive'
<1>. USE DEF HandlingActive, Active, halVars, handler, BeginJob, EndJob
<1>1. CASE Hal
  BY <1>1 DEF Hal, HalAdd, HalRemove, HalSetProperty, HalCondition,
              HalCapability, HalActs
<1>2. CASE CtxInit \/ WatchAll \/ GetAllDevices \/ MainLoop
  BY <1>2 DEF CtxInit, WatchAll, GetAllDevices, MainLoop
<1>3. CASE NextDevice \/ Dispatch
  BY <1>3 DEF NextDevice, Dispatch
<1>4. CASE SkipRule \/ TryLiteral \/ TryAction \/ RunCommand
  BY <1>4, WalkType
<1>5. CASE Crash
  BY <1>5 DEF Crash
<1>6. CASE ListDevice \/ UnlistDevice \/ UnlistProperty
  BY <1>6 DEF ListDevice, UnlistDevice, UnlistProperty
<1>7. CASE SetPropertyExists \/ SetPropertyRead \/ EndCondition
  BY <1>7 DEF SetPropertyExists, SetPropertyRead, EndCondition
<1>8. CASE UNCHANGED vars
  BY <1>8 DEF vars
<1>. QED
  BY <1>1, <1>2, <1>3, <1>4, <1>5, <1>6, <1>7, <1>8 DEF Next, Daemon

LEMMA DaemonRefines ==
    ASSUME RInv, IInv', Daemon
    PROVE  Mirror!Looks \/ Mirror!Fails
<1>. USE DEF RInv, IInv, halVars, handler
<1>1. NoJob \notin Signal /\ NoJob \notin InitJob
  BY ConstantsAssumption
<1>2. job # NoJob \/ todo # {} => phase \in Active /\ phase # "crashed"
  BY DEF HandlingActive, Active
<1>3. CASE CtxInit \/ WatchAll \/ GetAllDevices \/ MainLoop
  <2>1. /\ UNCHANGED <<gdl, job, bus>>
        /\ phase' # "crashed"
        /\ \/ phase \in {"start", "ctx", "watching"}
           \/ phase \in {"setup", "oninit"} /\ phase' \in {"oninit", "loop"}
    BY <1>3 DEF CtxInit, WatchAll, GetAllDevices, MainLoop
  <2>2. Pending' = Pending
    BY <2>1 DEF Pending
  <2>3. Forward
    BY <2>1, <2>2 DEF Forward, Active
  <2>. QED  BY <2>3, ForwardLooks
<1>4. ASSUME phase \in Active, UNCHANGED <<gdl, phase, todo>>,
             \A u, a : NothingPending(Pending, u, a) => NothingPending(Pending', u, a)
      PROVE  Mirror!Looks
  <2>1. Forward
    BY <1>4 DEF Forward, Active
  <2>. QED  BY <2>1, ForwardLooks
<1>5. CASE NextDevice
  <2>1. PICK u \in todo : BeginJob([type |-> "oninit", udi |-> u])
    BY <1>5 DEF NextDevice
  <2>2. job' \in InitJob /\ u \in Udis
    <3>1. u \in Udis
      BY DEF TypeOK
    <3>. QED  BY <2>1, <3>1, SignalKinds DEF BeginJob
  <2>3. Pending' = Pending
    BY <1>1, <1>5, <2>2, JobShape DEF NextDevice, Pending
  <2>. QED  BY <1>2, <1>4, <1>5, <2>1, <2>3 DEF NextDevice
<1>6. CASE Dispatch
  <2>1. /\ phase = "loop" /\ job = NoJob /\ bus' = Tail(bus)
        /\ UNCHANGED <<gdl, phase, todo, devices>>
    BY <1>6 DEF Dispatch
  <2>2. /\ Head(bus) \in Signal /\ Tail(bus) \in Seq(Signal)
        /\ <<Head(bus)>> \o Tail(bus) = bus
    BY <1>6, HeadTailProperties, HeadTailConcat DEF Dispatch, TypeOK
  <2>3. Pending = bus
    BY <1>1, <2>1 DEF Pending
  <2>4. Pending' = bus \/ Pending' = Tail(bus)
    BY <1>1, <1>6, <2>1, <2>2 DEF Dispatch, BeginJob, Pending
  <2>5. \A u, a : NothingPending(bus, u, a) => NothingPending(Tail(bus), u, a)
    BY <2>2, Handled
  <2>. QED  BY <1>4, <2>1, <2>3, <2>4, <2>5 DEF Active
<1>7. CASE SkipRule \/ TryLiteral \/ TryAction \/ RunCommand
  <2>1. job # NoJob /\ UNCHANGED <<gdl, changes, bus, phase, todo, job, devices>>
    BY <1>7, WalkType DEF SkipRule, TryLiteral, TryAction, RunCommand
  <2>2. Pending' = Pending
    BY <2>1 DEF Pending
  <2>. QED  BY <1>2, <1>4, <2>1, <2>2
<1>8. CASE Crash
  <2>1. phase # "crashed" /\ phase' = "crashed" /\ gdl' = gdl
    BY <1>2, <1>8 DEF Crash
  <2>2. HalKnows' = HalKnows /\ VouchedFor' = {} /\ DOMAIN ListKnows' = Things
    BY <2>1 DEF HalKnows, Present, HalHas, VouchedFor, ListKnows
  <2>. QED  BY <2>1, <2>2 DEF Mirror!Fails
<1>9. ASSUME job # NoJob, EndJob, UNCHANGED <<gdl, bus, phase>>,
             todo' = IF job.type = "oninit" THEN todo \ {job.udi} ELSE todo
      PROVE  Mirror!Looks
  <2>1. Forward
    BY <1>2, <1>9, JobDone DEF EndJob
  <2>. QED  BY <2>1, ForwardLooks
<1>10. CASE ListDevice
  BY <1>9, <1>10 DEF ListDevice
<1>11. CASE UnlistDevice \/ UnlistProperty \/ SetPropertyRead \/ EndCondition
  <2>1. /\ job # NoJob /\ job.type # "oninit"
        /\ EndJob /\ UNCHANGED <<gdl, bus, phase, todo>>
    BY <1>11, JobShape
    DEF UnlistDevice, UnlistProperty, SetPropertyRead, EndCondition, HandlerOK
  <2>. QED  BY <1>9, <2>1
<1>12. CASE SetPropertyExists
  <2>1. job # NoJob /\ job.type # "oninit" /\ UNCHANGED <<gdl, bus, phase, todo>>
    BY <1>12 DEF SetPropertyExists
  <2>2. CASE job' = job
    <3>1. Pending' = Pending
      BY <2>1, <2>2 DEF Pending
    <3>. QED  BY <1>2, <1>4, <2>1, <3>1
  <2>3. CASE EndJob
    BY <1>9, <2>1, <2>3
  <2>. QED  BY <1>12, <2>2, <2>3 DEF SetPropertyExists
<1>. QED
  BY <1>3, <1>5, <1>6, <1>7, <1>8, <1>10, <1>11, <1>12 DEF Daemon

-----------------------------------------------------------------------------
(* The theorem.                                                            *)

LEMMA InitRefines == Init => Mirror!Init
BY DEF Init, Mirror!Init, HalKnows, ListKnows, VouchedFor

LEMMA NextRefines ==
    ASSUME RInv, IInv', [Next]_vars
    PROVE  [Mirror!Next]_Mirror!vars
<1>1. CASE Hal
  BY <1>1, HalRefines DEF RInv, Mirror!Next
<1>2. CASE Daemon
  BY <1>2, DaemonRefines DEF Mirror!Next
<1>3. CASE UNCHANGED vars
  BY <1>3 DEF vars, Mirror!vars, HalKnows, ListKnows, ListHas, VouchedFor,
              Present, HalHas, Pending
<1>. QED  BY <1>1, <1>2, <1>3 DEF Next

(* The daemon keeps its devices list the way HalMirror says a mirror of    *)
(* HAL is kept, for any devices, properties, rules and changes.            *)
THEOREM Refinement == Spec => ImplementsMirror
<1>1. Init => RInv
  BY InitInv, InitActive DEF RInv
<1>2. RInv /\ [Next]_vars => RInv'
  <2>1. ASSUME RInv, [Next]_vars
        PROVE  IInv' /\ HandlingActive'
    BY <2>1, NextInv, NextActive DEF RInv, IInv
  <2>. QED  BY <2>1 DEF RInv
<1>3. RInv /\ RInv' /\ [Next]_vars => [Mirror!Next]_Mirror!vars
  BY NextRefines DEF RInv
<1>. QED  BY <1>1, <1>2, <1>3, InitRefines, PTL DEF Spec, ImplementsMirror, Mirror!Spec

=============================================================================
