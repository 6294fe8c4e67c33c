------------------------ MODULE HalQuestions_proofs ------------------------
(***************************************************************************)
(* Proofs about the questions of one literal or one fetched value.         *)
(*                                                                         *)
(* Two things make an answer right: the comparison of a typed value agrees *)
(* with that of its texts, which the first lemmas show type by type, and   *)
(* the value compared is one the device had while HAL was asked, which     *)
(* the invariant shows from where the questions have got to.               *)
(***************************************************************************)
EXTENDS HalQuestions, TLAPS

-----------------------------------------------------------------------------
(* Numbers.                                                                *)

LEMMA DivMod ==
    ASSUME NEW n \in Nat, NEW s \in Nat \ {0}
    PROVE  /\ n \div s \in Nat /\ n % s \in 0 .. s - 1
           /\ n = s * (n \div s) + (n % s)
<1>1. n \div s \in Int
  OBVIOUS
<1>2. n % s \in 0 .. s - 1
  OBVIOUS
<1>3. n = s * (n \div s) + (n % s)
  OBVIOUS
<1>4. n \div s >= 0
  <2>. DEFINE q == n \div s
              r == n % s
  <2>. HIDE DEF q, r
  <2>. SUFFICES ASSUME q <= -1 PROVE FALSE
    BY <1>1 DEF q
  <2>1. s * q <= s * (-1)
    BY <1>1 DEF q
  <2>. QED  BY <1>1, <1>2, <1>3, <2>1 DEF q, r
<1>. QED  BY <1>1, <1>2, <1>3, <1>4

(* A number that is too large to be printed exactly is printed as one.     *)
LEMMA PrintedExact ==
    ASSUME NEW d \in Int, d >= DoubleExact
    PROVE  Printed(d) \in Int /\ Printed(d) >= DoubleExact
<1>. DEFINE s == DoubleStep
            m == DoubleExact \div s
            n == d + s \div 2
            q == n \div s
<1>1. s \in Nat \ {0} /\ DoubleExact \in Nat /\ d \in Nat
  BY DoublesAssumption
<1>2. m \in Nat /\ DoubleExact = s * m
  BY <1>1, DivMod, DoublesAssumption
<1>3. n \in Nat /\ n >= d
  BY <1>1
<1>4. q \in Nat /\ n % s \in 0 .. s - 1 /\ n = s * q + (n % s)
  BY <1>1, <1>3, DivMod
<1>. DEFINE r == n % s
<1>. HIDE DEF s, m, n, q, r
<1>5. q >= m
  <2>. SUFFICES ASSUME q + 1 <= m PROVE FALSE
    BY <1>2, <1>4
  <2>1. s * (q + 1) <= s * m
    BY <1>1, <1>2, <1>4
  <2>2. s * (q + 1) = s * q + s
    BY <1>1, <1>4
  <2>. QED  BY <1>1, <1>2, <1>3, <1>4, <2>1, <2>2 DEF r
<1>6. q * s >= m * s
  BY <1>1, <1>2, <1>4, <1>5
<1>. QED  BY <1>1, <1>2, <1>4, <1>6 DEF Printed, q, n, s
-----------------------------------------------------------------------------
(* Comparisons.                                                            *)

LEMMA ValueShape ==
    ASSUME NEW v \in Values
    PROVE  /\ v.type \in Types \cup {"none"}
           /\ v.type = "none" <=> v = Absent
           /\ v.type = "none" <=> Texts(v) = <<>>
           /\ v.type = "boolean" => v.num \in {0, 1}
           /\ v.type = "int32" => v.num \in Int /\ ToInt(v.num) = v.num
           /\ v.type = "double" => v.num \in Int
           /\ v.type = "string" => Len(v.texts) = 1
           /\ \A i \in DOMAIN v.texts : v.texts[i] # Null
<1>1. v.type = "none" <=> v = Absent
  BY ValuesAssumption DEF Absent
<1>2. v.type = "none" <=> Texts(v) = <<>>
  BY ValuesAssumption DEF Texts, Types
<1>. QED  BY <1>1, <1>2, ValuesAssumption

(* Where HAL's value compares equal, the list's texts do.                  *)
LEMMA EqualInList ==
    ASSUME NEW v \in Values, NEW text, v.type = type, type \in Handled \ {"uint64"},
           Compares(v, text), ~Lenient(text), text # Null
    PROVE  ListMatches(Texts(v), text)
<1>1. CASE type \in {"string", "strlist"}
  <2>1. text \in ToSet(v.texts)
    BY <1>1 DEF Compares
  <2>2. v.texts # <<>>
    BY <2>1 DEF ToSet
  <2>3. Texts(v) = v.texts
    BY <1>1, <2>2 DEF Texts
  <2>. QED  BY <2>1, <2>2, <2>3 DEF ListMatches
<1>2. CASE type = "boolean"
  <2>1. v.num \in {0, 1}
    BY <1>2, ValueShape
  <2>2. text \in {Word("true"), Word("false")} /\ v.num = (IF text = Word("true") THEN 1 ELSE 0)
    BY <1>2 DEF Compares, Lenient
  <2>3. Texts(v) = <<text>>
    BY <1>2, <2>1, <2>2 DEF Texts
  <2>. QED  BY <2>3 DEF ListMatches, ToSet
<1>3. CASE type = "int32"
  <2>1. text = Numeral(v.num)
    BY <1>3 DEF Compares, Lenient
  <2>2. Texts(v) = <<text>>
    BY <1>3, <2>1 DEF Texts
  <2>. QED  BY <2>2 DEF ListMatches, ToSet
<1>4. CASE type = "double"
  <2>1. text = Numeral(Printed(v.num))
    BY <1>4 DEF Compares, Lenient
  <2>2. Texts(v) = <<text>>
    BY <1>4, <2>1 DEF Texts
  <2>. QED  BY <2>2 DEF ListMatches, ToSet
<1>. QED  BY <1>1, <1>2, <1>3, <1>4 DEF Handled, Types

(* Where HAL's value compares different, so do the list's texts, but for   *)
(* numbers that are not printed exactly.                                   *)
LEMMA DifferentInList ==
    ASSUME NEW v \in Values, NEW text, v.type = type, type \in Handled \ {"uint64"},
           ~Compares(v, text), text # AnyValue,
           type = "double" => ~(text.num >= DoubleExact)
    PROVE  ~ListMatches(Texts(v), text)
<1>. SUFFICES ASSUME text \in ToSet(Texts(v)), text # Null PROVE FALSE
  BY DEF ListMatches
<1>1. CASE type \in {"string", "strlist"}
  <2>1. text \notin ToSet(v.texts)
    BY <1>1 DEF Compares
  <2>2. Texts(v) \in {v.texts, <<Null>>}
    BY <1>1 DEF Texts
  <2>. QED  BY <2>1, <2>2 DEF ToSet
<1>2. CASE type = "boolean"
  <2>1. v.num \in {0, 1} /\ v.num # (IF text = Word("true") THEN 1 ELSE 0)
    BY <1>2, ValueShape DEF Compares
  <2>2. Texts(v) = <<Word(IF v.num = 1 THEN "true" ELSE "false")>>
    BY <1>2 DEF Texts
  <2>3. text = Word(IF v.num = 1 THEN "true" ELSE "false")
    BY <2>2 DEF ToSet
  <2>. QED  BY <2>1, <2>3 DEF Word
<1>3. CASE type = "int32"
  <2>1. v.num # ToInt(text.num) /\ ToInt(v.num) = v.num
    BY <1>3, ValueShape DEF Compares
  <2>2. text = Numeral(v.num)
    BY <1>3 DEF Texts, ToSet
  <2>. QED  BY <2>1, <2>2 DEF Numeral
<1>4. CASE type = "double"
  <2>1. v.num # text.num /\ v.num \in Int
    BY <1>4, ValueShape DEF Compares
  <2>2. text.num = Printed(v.num)
    BY <1>4 DEF Texts, ToSet, Numeral
  <2>3. v.num >= DoubleExact
    BY <2>1, <2>2, DoublesAssumption DEF Printed
  <2>. QED  BY <1>4, <2>1, <2>2, <2>3, PrintedExact
<1>. QED  BY <1>1, <1>2, <1>3, <1>4 DEF Handled, Types

-----------------------------------------------------------------------------
(* The inductive invariant.                                                *)

TypeOK ==
    /\ gdl \in [Udis -> [Keys -> Values]]
    /\ question \in Questions
    /\ stage \in {"parent", "follow", "exists", "type", "get", "done"}
    /\ level \in 0 .. Len(question.parents)
    /\ udi \in Udis
    /\ type \in Types \cup {"none"}
    /\ result \in BOOLEAN /\ steady \in BOOLEAN /\ failed \in BOOLEAN

(* What would be answered at this moment is among what is remembered.      *)
Remembered ==
    /\ path \in Paths(gdl, question)
    /\ RightNow(gdl, question, path) \in seen

(* How far the questions have got; as long as no parent changes, the       *)
(* device they are about is the one the parents lead to.                   *)
Position ==
    /\ stage \in {"parent", "follow"} => level < Len(question.parents)
    /\ stage \in {"exists", "type", "get"} => level = Len(question.parents)
    /\ stage # "done" => ~failed /\ (steady => udi = path[level])

(* What the questions so far have told.  A property of another type than   *)
(* it had has been away, as a property keeps its type.                     *)
Known ==
    /\ stage \in {"type", "get"} /\ question.kind = "match" =>
           question.value # AnyValue
    /\ stage = "get" => type \in Handled
    /\ stage = "get" /\ steady /\ Here.type # type => <<>> \in seen

IInv ==
    /\ TypeOK /\ Remembered /\ Position /\ Known
    /\ TrueWasTrue /\ FalseWasFalse /\ FetchedWasThere

-----------------------------------------------------------------------------
(* Where the parents lead.                                                 *)

LEMMA Asked ==
    ASSUME TypeOK
    PROVE  /\ question.udi \in Udis /\ question.name \in Keys
           /\ question.parents \in Seq(Keys) /\ Len(question.parents) \in Nat
           /\ question.kind \in {"match", "value"} /\ question.value # Null
           /\ udi # Nowhere
           /\ Here \in Values
<1>1. question.name \in Keys
  BY QuestionsAssumption DEF TypeOK
<1>2. Here \in Values
  BY <1>1 DEF TypeOK, Here
<1>. QED  BY <1>1, <1>2, QuestionsAssumption DEF TypeOK

(* Once all parents are followed, HAL is asked about the right device.     *)
LEMMA OnPath ==
    ASSUME IInv, stage \in {"exists", "type", "get"}, steady
    PROVE  Texts(Here) \in seen
<1>1. udi = path[Len(question.parents)] /\ udi # Nowhere
  BY Asked DEF IInv, Position
<1>2. RightNow(gdl, question, path) = Texts(Here)
  BY <1>1 DEF RightNow, Here
<1>. QED  BY <1>2 DEF IInv, Remembered

(* The next parent is the next step of the path.                           *)
LEMMA NextParent ==
    ASSUME IInv, stage \in {"parent", "follow"}, steady
    PROVE  /\ level + 1 \in 1 .. Len(question.parents)
           /\ path[level + 1] = Parent(gdl[udi][ParentKey])
<1>1. /\ udi = path[level] /\ udi # Nowhere
      /\ level \in Nat /\ level + 1 \in 1 .. Len(question.parents)
  BY Asked DEF IInv, Position, TypeOK
<1>2. \A n \in 1 .. Len(question.parents) :
          path[n] = IF \E m \in 0 .. n - 1 : path[m] = Nowhere THEN Nowhere
                    ELSE Parent(gdl[path[n - 1]][question.parents[n]])
  BY DEF IInv, Remembered, Paths
<1>3. \A m \in 0 .. level : path[m] # Nowhere
  <2>. SUFFICES ASSUME NEW m \in 0 .. level, path[m] = Nowhere, m # level
                PROVE  FALSE
    BY <1>1
  <2>1. level \in 1 .. Len(question.parents) /\ m \in 0 .. level - 1
    BY <1>1, Asked DEF IInv, TypeOK
  <2>2. path[level] = Nowhere
    BY <1>2, <2>1
  <2>. QED  BY <1>1, <2>2
<1>4. (level + 1) - 1 = level
  BY <1>1
<1>5. path[level + 1] = Parent(gdl[path[level]][question.parents[level + 1]])
  BY <1>1, <1>2, <1>3, <1>4
<1>. QED  BY <1>1, <1>5 DEF ParentKey

(* If it leads nowhere, so do all.                                         *)
LEMMA OffPath ==
    ASSUME IInv, stage \in {"parent", "follow"}, steady,
           Parent(gdl[udi][ParentKey]) = Nowhere
    PROVE  <<>> \in seen
<1>. DEFINE last == Len(question.parents)
<1>1. level \in Nat /\ last \in Nat /\ level < last /\ path[level + 1] = Nowhere
  BY NextParent, Asked DEF IInv, TypeOK, Position
<1>2. last \in 1 .. last
  BY <1>1
<1>3. path[last] = IF \E m \in 0 .. last - 1 : path[m] = Nowhere THEN Nowhere
                   ELSE Parent(gdl[path[last - 1]][question.parents[last]])
  BY <1>2 DEF IInv, Remembered, Paths
<1>4. path[last] = Nowhere
  <2>1. CASE level + 1 = last
    BY <1>1, <2>1
  <2>2. CASE level + 1 # last
    <3>1. level + 1 \in 0 .. last - 1
      BY <1>1, <2>2
    <3>. QED  BY <1>1, <1>3, <3>1
  <2>. QED  BY <2>1, <2>2
<1>5. RightNow(gdl, question, path) = <<>>
  BY <1>4 DEF RightNow
<1>. QED  BY <1>5 DEF IInv, Remembered

-----------------------------------------------------------------------------
(* Steps.                                                                  *)

LEMMA InitInv == Init => IInv
<1>. SUFFICES ASSUME Init PROVE IInv
  OBVIOUS
<1>1. /\ question.udi \in Udis /\ question.parents \in Seq(Keys)
      /\ Len(question.parents) \in Nat
  BY QuestionsAssumption DEF Init
<1>2. TypeOK
  <2>1. gdl \in [Udis -> [Keys -> Values]]
    BY QuestionsAssumption DEF Init
  <2>2. /\ stage \in {"parent", "follow", "exists", "type", "get", "done"}
        /\ level \in 0 .. Len(question.parents)
        /\ udi \in Udis
    BY <1>1 DEF Init
  <2>3. type \in Types \cup {"none"} /\ question \in Questions
    BY DEF Init
  <2>4. result \in BOOLEAN /\ steady \in BOOLEAN /\ failed \in BOOLEAN
    BY DEF Init
  <2>. QED  BY <2>1, <2>2, <2>3, <2>4 DEF TypeOK
<1>3. Remembered
  BY DEF Init, Remembered
<1>4. path[0] = question.udi
  BY DEF Init, Paths
<1>5. question.parents # <<>> => 0 < Len(question.parents)
  BY <1>1
<1>6. Position
  BY <1>4, <1>5 DEF Init, Position
<1>7. stage \in {"parent", "exists"}
  BY DEF Init
<1>. QED  BY <1>2, <1>3, <1>6, <1>7
          DEF IInv, Known, TrueWasTrue, FalseWasFalse, FetchedWasThere, Answered

LEMMA HalKeeps ==
    ASSUME IInv, HalChanges
    PROVE  IInv'
<1>1. PICK u \in Udis, k \in Keys, v \in Values :
          /\ Absent \in {gdl[u][k], v} \/ gdl[u][k].type = v.type
          /\ gdl' = [gdl EXCEPT ![u][k] = v]
  BY DEF HalChanges
<1>2. /\ stage # "done"
      /\ path' \in Paths(gdl', question)
      /\ seen' = seen \cup {RightNow(gdl', question, path')}
      /\ steady' = (steady /\ path' = path)
      /\ UNCHANGED <<question, stage, level, udi, type, result, values, failed>>
  BY DEF HalChanges, asked
<1>3. TypeOK'
  <2>1. gdl' \in [Udis -> [Keys -> Values]]
    BY <1>1 DEF IInv, TypeOK
  <2>. QED  BY <1>2, <2>1 DEF IInv, TypeOK
<1>4. Remembered'
  BY <1>2 DEF Remembered
<1>5. Position'
  BY <1>2 DEF IInv, Position
<1>6. Known'
  <2>. SUFFICES ASSUME stage = "get", steady', Here'.type # type
                PROVE  <<>> \in seen'
    BY <1>2 DEF IInv, Known
  <2>1. steady /\ path' = path /\ type \in Handled
    BY <1>2 DEF IInv, Known
  <2>2. CASE Here.type # type
    BY <1>2, <2>1, <2>2 DEF IInv, Known
  <2>3. CASE Here.type = type
    <3>1. Here # Absent /\ Here \in Values /\ question.name \in Keys /\ udi \in Udis
      BY <2>1, <2>3, Asked, ValueShape DEF IInv, Handled, Types, Absent, TypeOK
    <3>2. gdl'[udi][question.name] = IF udi = u /\ question.name = k THEN v ELSE Here
      BY <1>1, <3>1 DEF IInv, TypeOK, Here
    <3>3. gdl'[udi][question.name].type # type
      BY <1>2 DEF Here
    <3>4. gdl'[udi][question.name] = Absent
      BY <1>1, <2>3, <3>1, <3>2, <3>3 DEF Here
    <3>5. path'[Len(question.parents)] = udi /\ udi # Nowhere
      BY <2>1, Asked DEF IInv, Position
    <3>6. RightNow(gdl', question, path') = <<>>
      BY <3>4, <3>5 DEF RightNow, Texts, Absent
    <3>. QED  BY <1>2, <3>6
  <2>. QED  BY <2>2, <2>3
<1>. QED  BY <1>2, <1>3, <1>4, <1>5, <1>6
          DEF IInv, TrueWasTrue, FalseWasFalse, FetchedWasThere, Answered

(* What an answer r, or an array, has to be for the properties.            *)
RightAnswer(r, array, error) ==
    /\ question.kind = "match" /\ r =>
           \/ \E known \in seen : ListMatches(known, question.value)
           \/ Lenient(question.value)
           \/ error /\ type \notin {"string", "strlist"}
    /\ question.kind = "match" /\ ~r =>
           \/ \E known \in seen : ~ListMatches(known, question.value)
           \/ type = "uint64"
           \/ type = "double" /\ question.value.num >= DoubleExact
    /\ question.kind = "value" =>
           \/ array \in seen
           \/ /\ <<>> \in seen
              /\ array = IF error THEN Texts(ErrorValue(type)) ELSE <<Null>>

LEMMA DoneKeeps ==
    ASSUME IInv, NEW r \in BOOLEAN, NEW array, Done(r, array), failed' \in BOOLEAN,
           steady => RightAnswer(r, array, failed')
    PROVE  IInv'
<1>1. /\ stage' = "done" /\ result' = r /\ values' = array
      /\ UNCHANGED <<gdl, question, path, seen, steady, level, udi, type>>
  BY DEF Done
<1>2. TypeOK' /\ Remembered' /\ Position' /\ Known'
  BY <1>1 DEF IInv, TypeOK, Remembered, Position, Known
<1>3. TrueWasTrue'
  BY <1>1 DEF TrueWasTrue, Answered, RightAnswer, Lenient
<1>4. FalseWasFalse'
  BY <1>1 DEF FalseWasFalse, Answered, RightAnswer
<1>5. FetchedWasThere'
  BY <1>1 DEF FetchedWasThere, Answered, RightAnswer
<1>. QED  BY <1>2, <1>3, <1>4, <1>5 DEF IInv

LEMMA ParentSteps ==
    ASSUME IInv, AskParent \/ FollowParent
    PROVE  IInv'
<1>. DEFINE there == gdl[udi][ParentKey]
<1>1. stage \in {"parent", "follow"} /\ ~failed /\ failed \in BOOLEAN
  BY DEF AskParent, FollowParent, IInv, Position, TypeOK
<1>2. ASSUME Done(FALSE, <<>>), failed' \in BOOLEAN, Parent(there) = Nowhere
      PROVE  IInv'
  <2>1. steady => <<>> \in seen
    BY <1>1, <1>2, OffPath
  <2>2. steady => RightAnswer(FALSE, <<>>, failed')
    BY <2>1 DEF RightAnswer, ListMatches
  <2>. QED  BY <1>2, <2>2, DoneKeeps
<1>3. CASE AskParent
  <2>1. CASE there = Absent
    <3>1. Parent(there) = Nowhere
      BY <2>1 DEF Parent, Answer, ErrorValue, Absent
    <3>2. Done(FALSE, <<>>) /\ failed' = failed
      BY <1>3, <2>1 DEF AskParent
    <3>. QED  BY <1>1, <1>2, <3>1, <3>2
  <2>2. CASE there # Absent
    <3>1. /\ stage = "parent" /\ stage' = "follow"
          /\ UNCHANGED <<gdl, path, seen, steady, question, level, udi, type,
                         result, values, failed>>
      BY <1>3, <2>2 DEF AskParent
    <3>. QED  BY <3>1 DEF IInv, TypeOK, Remembered, Position, Known, TrueWasTrue,
                          FalseWasFalse, FetchedWasThere, Answered
  <2>. QED  BY <2>1, <2>2
<1>4. CASE FollowParent
  <2>1. CASE Parent(there) = Nowhere
    <3>1. \/ Answer(there, "string").texts = <<>>
          \/ Answer(there, "string").texts[1].form \notin Udis
      BY <2>1, QuestionsAssumption DEF Parent
    <3>2. /\ Done(FALSE, <<>>)
          /\ failed' = (Answer(there, "string").texts = <<>>)
      BY <1>4, <3>1 DEF FollowParent
    <3>. QED  BY <1>2, <2>1, <3>2
  <2>2. CASE Parent(there) # Nowhere
    <3>1. /\ Answer(there, "string").texts # <<>>
          /\ Answer(there, "string").texts[1].form \in Udis
          /\ Parent(there) = Answer(there, "string").texts[1].form
      BY <2>2 DEF Parent
    <3>2. /\ udi' = Parent(there) /\ udi' \in Udis
          /\ level' = level + 1
          /\ stage' = IF level + 1 = Len(question.parents) THEN "exists" ELSE "parent"
          /\ UNCHANGED <<gdl, path, seen, steady, question, type, result, values, failed>>
      BY <1>4, <3>1 DEF FollowParent
    <3>3. level \in Nat /\ Len(question.parents) \in Nat /\ level < Len(question.parents)
      BY <1>1, Asked DEF IInv, TypeOK, Position
    <3>4. TypeOK'
      BY <3>2, <3>3 DEF IInv, TypeOK
    <3>5. steady => udi' = path[level + 1]
      BY <1>1, <3>2, NextParent
    <3>6. Position'
      BY <1>1, <3>2, <3>3, <3>5 DEF Position
    <3>. QED  BY <3>2, <3>4, <3>6 DEF IInv, Remembered, Known, TrueWasTrue,
                          FalseWasFalse, FetchedWasThere, Answered
  <2>. QED  BY <2>1, <2>2
<1>. QED  BY <1>3, <1>4

LEMMA AskExistsKeeps ==
    ASSUME IInv, AskExists
    PROVE  IInv'
<1>1. stage = "exists" /\ failed' = failed /\ ~failed /\ failed \in BOOLEAN
  BY DEF AskExists, IInv, Position, TypeOK
<1>2. Here \in Values /\ (Here = Absent <=> Texts(Here) = <<>>)
  BY Asked, ValueShape DEF IInv
<1>3. CASE Here = Absent \/ (question.value = AnyValue /\ question.kind = "match")
  <2>1. /\ Here = Absent => Done(FALSE, <<>>)
        /\ Here # Absent => Done(TRUE, <<>>)
    BY <1>3 DEF AskExists, Done
  <2>2. steady => Texts(Here) \in seen
    BY <1>1, OnPath
  <2>3. CASE Here = Absent
    <3>1. steady => RightAnswer(FALSE, <<>>, failed')
      BY <1>2, <2>2, <2>3 DEF RightAnswer, ListMatches
    <3>. QED  BY <1>1, <2>1, <2>3, <3>1, DoneKeeps
  <2>4. CASE Here # Absent
    <3>1. question.kind = "match" /\ ListMatches(Texts(Here), question.value)
      BY <1>2, <1>3, <2>4 DEF ListMatches
    <3>2. steady => RightAnswer(TRUE, <<>>, failed')
      BY <2>2, <3>1 DEF RightAnswer
    <3>. QED  BY <1>1, <2>1, <2>4, <3>2, DoneKeeps
  <2>. QED  BY <2>3, <2>4
<1>4. CASE ~(Here = Absent \/ (question.value = AnyValue /\ question.kind = "match"))
  <2>1. /\ stage' = "type"
        /\ UNCHANGED <<gdl, path, seen, steady, question, level, udi, type,
                       result, values, failed>>
    BY <1>4 DEF AskExists
  <2>. QED  BY <1>1, <1>4, <2>1 DEF IInv, TypeOK, Remembered, Position, Known,
                          TrueWasTrue, FalseWasFalse, FetchedWasThere, Answered
<1>. QED  BY <1>3, <1>4

LEMMA AskTypeKeeps ==
    ASSUME IInv, AskType
    PROVE  IInv'
<1>1. stage = "type" /\ failed' = failed /\ ~failed /\ failed \in BOOLEAN
  BY DEF AskType, IInv, Position, TypeOK
<1>2. Here \in Values
  BY Asked DEF IInv
<1>3. CASE Here.type \in Handled
  <2>1. /\ stage' = "get" /\ type' = Here.type
        /\ UNCHANGED <<gdl, path, seen, steady, question, level, udi, result, values,
                       failed>>
    BY <1>3 DEF AskType
  <2>2. TypeOK'
    BY <1>3, <2>1 DEF IInv, TypeOK, Handled
  <2>3. Known'
    BY <1>1, <1>3, <2>1 DEF IInv, Known, Here
  <2>. QED  BY <1>1, <2>1, <2>2, <2>3 DEF IInv, Remembered, Position,
                          TrueWasTrue, FalseWasFalse, FetchedWasThere, Answered
<1>4. CASE Here.type \notin Handled
  <2>. DEFINE array == IF question.kind = "value" THEN <<Null>> ELSE <<>>
  <2>1. Done(FALSE, array)
    BY <1>4 DEF AskType
  <2>2. Texts(Here) \in {<<>>, <<Null>>}
    BY <1>2, <1>4, ValueShape DEF Texts, Handled, Types
  <2>3. steady => Texts(Here) \in seen
    BY <1>1, OnPath
  <2>4. ASSUME question.kind = "match" PROVE ~ListMatches(Texts(Here), question.value)
    <3>1. question.value # AnyValue
      BY <1>1, <2>4 DEF IInv, Known
    <3>. QED  BY <2>2, <3>1 DEF ListMatches, ToSet
  <2>5. steady => RightAnswer(FALSE, array, failed')
    <3>1. CASE question.kind = "match"
      BY <2>3, <2>4, <3>1 DEF RightAnswer
    <3>2. CASE question.kind = "value"
      BY <1>1, <2>2, <2>3, <3>2 DEF RightAnswer
    <3>. QED  BY <3>1, <3>2, Asked DEF IInv
  <2>. QED  BY <1>1, <2>1, <2>5, DoneKeeps
<1>. QED  BY <1>3, <1>4

(* A value of the type that was asked for is compared as it is; any other  *)
(* one comes after the property has been away.                             *)
LEMMA GetAndCompareKeeps ==
    ASSUME IInv, GetAndCompare
    PROVE  IInv'
<1>1. /\ stage = "get" /\ question.kind = "match"
      /\ failed' = (Here.type # type) /\ failed' \in BOOLEAN
      /\ type \in Handled /\ question.value # AnyValue /\ question.value # Null
  BY Asked DEF GetAndCompare, IInv, Known
<1>2. Here \in Values /\ (steady => Texts(Here) \in seen)
  BY <1>1, Asked, OnPath DEF IInv
<1>3. steady /\ failed' => <<>> \in seen
  BY <1>1 DEF IInv, Known
<1>4. CASE type = "uint64"
  <2>1. PICK n \in IntAnswers(Here) : Done(ToLong(n) = ToLong(question.value.num), <<>>)
    BY <1>4 DEF GetAndCompare
  <2>. DEFINE r == ToLong(n) = ToLong(question.value.num)
  <2>2. RightAnswer(r, <<>>, failed')
    BY <1>1, <1>4 DEF RightAnswer, Lenient
  <2>. QED  BY <1>1, <2>1, <2>2, DoneKeeps
<1>5. CASE type # "uint64"
  <2>. DEFINE v == Answer(Here, type)
              r == Compares(v, question.value)
  <2>1. Done(r, <<>>) /\ type \in Handled \ {"uint64"}
    BY <1>1, <1>5 DEF GetAndCompare
  <2>2. r \in BOOLEAN
    <3>1. v.type = type
      BY DEF Answer, ErrorValue
    <3>. HIDE DEF v
    <3>2. CASE type \in {"string", "strlist"}
      <4>1. r = (question.value \in ToSet(v.texts))
        BY <3>1, <3>2 DEF Compares
      <4>. QED  BY <4>1
    <3>3. CASE type = "boolean"
      BY <3>1, <3>3 DEF Compares
    <3>4. CASE type = "int32"
      BY <3>1, <3>4 DEF Compares
    <3>5. CASE type = "double"
      BY <3>1, <3>5 DEF Compares
    <3>. QED  BY <2>1, <3>2, <3>3, <3>4, <3>5 DEF Handled, Types
  <2>3. CASE Here.type = type
    <3>1. v = Here /\ ~failed'
      BY <1>1, <2>3 DEF Answer
    <3>2. ASSUME r, ~Lenient(question.value)
          PROVE  ListMatches(Texts(Here), question.value)
      BY <1>1, <1>2, <2>1, <2>3, <3>1, <3>2, EqualInList
    <3>3. ASSUME ~r, ~(type = "double" /\ question.value.num >= DoubleExact)
          PROVE  ~ListMatches(Texts(Here), question.value)
      BY <1>1, <1>2, <2>1, <2>3, <3>1, <3>3, DifferentInList
    <3>4. steady => RightAnswer(r, <<>>, failed')
      BY <1>1, <1>2, <3>2, <3>3 DEF RightAnswer
    <3>. QED  BY <1>1, <2>1, <2>2, <3>4, DoneKeeps
  <2>4. CASE Here.type # type
    <3>1. failed' /\ v = ErrorValue(type)
      BY <1>1, <2>4 DEF Answer
    <3>2. v.type = type /\ v.texts = <<>> /\ ToSet(<<>>) = {}
      BY <3>1 DEF ErrorValue, ToSet
    <3>. HIDE DEF v
    <3>3. type \in {"string", "strlist"} => ~r
      BY <3>2 DEF Compares
    <3>4. steady => RightAnswer(r, <<>>, failed')
      BY <1>1, <1>3, <3>1, <3>3 DEF RightAnswer, ListMatches
    <3>. QED  BY <1>1, <2>1, <2>2, <3>4, DoneKeeps
  <2>. QED  BY <2>3, <2>4
<1>. QED  BY <1>4, <1>5

LEMMA GetValueKeeps ==
    ASSUME IInv, GetValue
    PROVE  IInv'
<1>1. /\ stage = "get" /\ question.kind = "value" /\ Done(FALSE, Fetched(Here, type))
      /\ failed' = (Here.type # type) /\ failed' \in BOOLEAN
  BY DEF GetValue
<1>2. steady => Texts(Here) \in seen
  BY <1>1, OnPath
<1>3. steady /\ failed' => <<>> \in seen
  BY <1>1 DEF IInv, Known
<1>4. CASE Here.type = type
  <2>1. Fetched(Here, type) = Texts(Here)
    BY <1>4 DEF Fetched, Answer
  <2>2. steady => RightAnswer(FALSE, Fetched(Here, type), failed')
    BY <1>1, <1>2, <2>1 DEF RightAnswer
  <2>. QED  BY <1>1, <2>2, DoneKeeps
<1>5. CASE Here.type # type
  <2>1. Fetched(Here, type) \in {<<>>, Texts(ErrorValue(type))}
    BY <1>5 DEF Fetched, Answer
  <2>2. steady => RightAnswer(FALSE, Fetched(Here, type), failed')
    BY <1>1, <1>3, <1>5, <2>1 DEF RightAnswer
  <2>. QED  BY <1>1, <2>2, DoneKeeps
<1>. QED  BY <1>4, <1>5

LEMMA NextInv == IInv /\ [Next]_vars => IInv'
<1>. SUFFICES ASSUME IInv, [Next]_vars PROVE IInv'
  OBVIOUS
<1>1. CASE HalChanges
  BY <1>1, HalKeeps
<1>2. CASE AskParent \/ FollowParent
  BY <1>2, ParentSteps
<1>3. CASE AskExists
  BY <1>3, AskExistsKeeps
<1>4. CASE AskType
  BY <1>4, AskTypeKeeps
<1>5. CASE GetAndCompare
  BY <1>5, GetAndCompareKeeps
<1>6. CASE GetValue
  BY <1>6, GetValueKeeps
<1>7. CASE UNCHANGED vars
  BY <1>7 DEF vars, asked, IInv, TypeOK, Remembered, Position, Known, Here,
              TrueWasTrue, FalseWasFalse, FetchedWasThere, Answered, Lenient
<1>. QED  BY <1>1, <1>2, <1>3, <1>4, <1>5, <1>6, <1>7 DEF Next, Daemon

LEMMA Invariance == Spec => []IInv
  BY InitInv, NextInv, PTL DEF Spec

-----------------------------------------------------------------------------

(* For all properties, values and chains of parents, whatever HAL changes  *)
(* meanwhile but the parents: what halevt_match_udi finds true was true as *)
(* the devices list would have it, but for the exceptions TrueWasTrue      *)
(* names.                                                                  *)
THEOREM FoundTrue == Spec => []TrueWasTrue
<1>1. IInv => TrueWasTrue
  BY DEF IInv
<1>. QED  BY <1>1, Invariance, PTL

(* And what it finds false was false, however the type of the property     *)
(* changes, but for large numbers.                                         *)
THEOREM FoundFalse == Spec => []FalseWasFalse
<1>1. IInv => FalseWasFalse
  BY DEF IInv
<1>. QED  BY <1>1, Invariance, PTL

(* What halevt_property_name_value gives to the list or to a command is    *)
(* what HAL had, or what an error leaves of a property that went.          *)
THEOREM FetchedHeld == Spec => []FetchedWasThere
<1>1. IInv => FetchedWasThere
  BY DEF IInv
<1>. QED  BY <1>1, Invariance, PTL

=============================================================================
