---------------------------- MODULE HalQuestions ----------------------------
(***************************************************************************)
(* How the daemon gets one answer out of HAL: whether a literal holds for  *)
(* a device (halevt_match_udi), or what the value of a property is         *)
(* (halevt_property_name_value), in src/hal_interface.c.                   *)
(*                                                                         *)
(* Either takes several questions over D-Bus: for each parent whether it   *)
(* is there and what it is, then whether the property is there, its type,  *)
(* and its value.  HAL may change any property between two questions.      *)
(* HalMatch takes an answer for one step; this module is about when it may *)
(* be, and about the values, which have types here: HAL's numbers are      *)
(* numbers, a literal and the devices list have texts.                     *)
(***************************************************************************)
EXTENDS Integers, Sequences, SequencesExt

CONSTANTS
    Udis,         \* devices
    Keys,         \* property names
    Values,       \* what HAL may set a property to
    Snapshots,    \* the states HAL may be in when the daemon starts to ask
    Questions,    \* what the daemon asks
    IntSize,      \* numbers an int can hold, 2^32
    LongSize,     \* numbers a uint64 can hold, 2^64
    DoubleExact,  \* numbers from here on have more digits than %g prints
    DoubleStep,   \* the distance of those it can print
    MaxChanges    \* bound: how often HAL changes a property meanwhile

(* A text is a numeral or not: form tells "plain" numerals, as printf      *)
(* writes them, from other ways to write the number num; other texts are   *)
(* told apart by form alone, and atoi and the like read 0.                 *)
Numeral(n) == [form |-> "plain", num |-> n]
Word(w) == [form |-> w, num |-> 0]
AnyValue == Word("(any)")
(* An array {NULL} has no text in it.                                      *)
Null == Word("(null)")

(* A value has its type, and a number (0 or 1 for a boolean) or texts.     *)
Absent == [type |-> "none", num |-> 0, texts |-> <<>>]
Types == {"boolean", "string", "int32", "strlist", "uint64", "double", "unhandled"}

(* What a parent is that is no device.                                     *)
Nowhere == "(nowhere)"

(* atoi and casts to int take the low bits, with a sign.                   *)
ToInt(n) == ((n + IntSize \div 2) % IntSize) - IntSize \div 2
ToLong(n) == n % LongSize

(* HAL's int32 fits an int, and its strings are not NULL.                  *)
ASSUME ValuesAssumption ==
    /\ Absent \in Values
    /\ \A v \in Values :
          /\ v.type \in Types \cup {"none"}
          /\ v.type = "none" => v = Absent
          /\ v.type = "boolean" => v.num \in {0, 1}
          /\ v.type = "int32" => v.num \in Int /\ ToInt(v.num) = v.num
          /\ v.type = "double" => v.num \in Int
          /\ v.type = "string" => Len(v.texts) = 1
          /\ \A i \in DOMAIN v.texts : v.texts[i] # Null

ASSUME QuestionsAssumption ==
    /\ Snapshots \subseteq [Udis -> [Keys -> Values]]
    /\ \A q \in Questions : /\ q.udi \in Udis
                            /\ q.parents \in Seq(Keys) /\ q.name \in Keys
                            /\ q.kind \in {"match", "value"}
                            /\ q.value # Null
    /\ Nowhere \notin Udis
    /\ MaxChanges \in Nat

(* The first number that is printed with an exponent is printed exactly.   *)
ASSUME DoublesAssumption ==
    /\ DoubleStep \in Nat \ {0} /\ DoubleExact \in Nat
    /\ DoubleExact % DoubleStep = 0

VARIABLES
    gdl,       \* the properties HAL has
    changes,
    question,  \* what is asked: [kind, udi, parents, name, value]
    stage,     \* the next question to HAL, or "done"
    level,     \* parents that have been followed
    udi,       \* current_udi
    type,      \* the type HAL gave
    result,    \* of a match
    values,    \* the array of texts, <<>> for NULL
    path,      \* the devices its parents lead to at this moment
    seen,      \* the arrays that would have been right since the start
    steady,    \* no parent has changed since the start
    failed     \* HAL answered the last question with an error

asked == <<question, stage, level, udi, type, result, values, failed>>
vars == <<gdl, changes, path, seen, steady, asked>>

-----------------------------------------------------------------------------
(* Numbers and texts.                                                      *)

(* %g keeps six digits.                                                    *)
Printed(d) ==
    IF d < DoubleExact THEN d
    ELSE ((d + DoubleStep \div 2) \div DoubleStep) * DoubleStep

(* halevt_get_property_value once HAL has answered, and the same for the   *)
(* properties of a new entry of the devices list,                          *)
(* halevt_get_iterator_value.                                              *)
Texts(v) ==
    CASE v.type = "none" -> <<>>
      [] v.type = "boolean" -> <<Word(IF v.num = 1 THEN "true" ELSE "false")>>
      [] v.type \in {"int32", "uint64"} -> <<Numeral(v.num)>>
      [] v.type = "double" -> <<Numeral(Printed(v.num))>>
      [] v.type \in {"string", "strlist"} /\ v.texts # <<>> -> v.texts
      [] OTHER -> <<Null>>

(* The list is walked up to its NULL (halevt_property_matches_device).     *)
ListMatches(array, text) ==
    array # <<>> /\ (text = AnyValue \/ text \in ToSet(array) \ {Null})

-----------------------------------------------------------------------------
(* HAL's answers.                                                          *)

(* What libhal returns with an error, or for a value of another type: no   *)
(* text, FALSE, or -1.                                                     *)
ErrorValue(t) ==
    [type |-> t, texts |-> <<>>,
     num |-> IF t = "boolean" THEN 0 ELSE IF t = "uint64" THEN LongSize - 1 ELSE -1]

Answer(v, t) == IF v.type = t THEN v ELSE ErrorValue(t)

(* libhal_device_get_property_int of a uint64: an error, or its low bits.  *)
IntAnswers(v) ==
    {-1} \cup (IF v.type \in {"int32", "uint64"} THEN {ToInt(v.num)} ELSE {})

Here == gdl[udi][question.name]

(* The device a property's value is the udi of.                            *)
Parent(v) ==
    LET parent == Answer(v, "string")
    IN  IF parent.texts = <<>> \/ parent.texts[1].form \notin Udis
        THEN Nowhere ELSE parent.texts[1].form

(* Where the parents lead if all are followed at this moment.              *)
Paths(g, q) ==
    {way \in [0 .. Len(q.parents) -> Udis \cup {Nowhere}] :
        /\ way[0] = q.udi
        /\ \A n \in 1 .. Len(q.parents) :
              way[n] = IF \E m \in 0 .. n - 1 : way[m] = Nowhere THEN Nowhere
                       ELSE Parent(g[way[n - 1]][q.parents[n]])}

(* What would be answered then.                                            *)
RightNow(g, q, way) ==
    LET last == way[Len(q.parents)]
    IN  IF last = Nowhere THEN <<>> ELSE Texts(g[last][q.name])

Init ==
    /\ gdl \in Snapshots
    /\ changes = 0
    /\ question \in Questions
    /\ stage = IF question.parents = <<>> THEN "exists" ELSE "parent"
    /\ level = 0
    /\ udi = question.udi
    /\ type = "none"
    /\ result = FALSE
    /\ values = <<>>
    /\ path \in Paths(gdl, question)
    /\ seen = {RightNow(gdl, question, path)}
    /\ steady = TRUE
    /\ failed = FALSE

(* A property keeps its type as long as it is there.                       *)
HalChanges ==
    /\ stage # "done" /\ changes < MaxChanges
    /\ changes' = changes + 1
    /\ \E u \in Udis, k \in Keys, v \in Values :
          /\ gdl[u][k] # v
          /\ Absent \in {gdl[u][k], v} \/ gdl[u][k].type = v.type
          /\ gdl' = [gdl EXCEPT ![u][k] = v]
    /\ path' \in Paths(gdl', question)
    /\ seen' = seen \cup {RightNow(gdl', question, path')}
    /\ steady' = (steady /\ path' = path)
    /\ UNCHANGED asked

-----------------------------------------------------------------------------
(* halevt_property_resolve_udi.                                            *)

Done(r, array) ==
    /\ stage' = "done"
    /\ result' = r
    /\ values' = array
    /\ UNCHANGED <<gdl, changes, question, path, seen, steady, level, udi, type>>

ParentKey == question.parents[level + 1]

AskParent ==
    /\ stage = "parent"
    /\ IF gdl[udi][ParentKey] = Absent
       THEN Done(FALSE, <<>>) /\ UNCHANGED failed
       ELSE /\ stage' = "follow"
            /\ UNCHANGED <<gdl, changes, path, seen, steady, question, level, udi, type,
                           result, values, failed>>

(* The udi is a text; no device has it if HAL has no such device.          *)
FollowParent ==
    /\ stage = "follow"
    /\ LET parent == Answer(gdl[udi][ParentKey], "string")
       IN  IF parent.texts = <<>> \/ parent.texts[1].form \notin Udis
           THEN Done(FALSE, <<>>) /\ failed' = (parent.texts = <<>>)
           ELSE /\ udi' = parent.texts[1].form
                /\ level' = level + 1
                /\ stage' = IF level + 1 = Len(question.parents)
                            THEN "exists" ELSE "parent"
                /\ UNCHANGED <<gdl, changes, path, seen, steady, question, type,
                               result, values, failed>>

-----------------------------------------------------------------------------
(* halevt_property_matches_udi and halevt_udi_property_value.              *)

(* A literal without a value holds without a question.                     *)
AskExists_AnyFirst ==
    /\ stage = "exists"
    /\ IF question.value = AnyValue /\ question.kind = "match"
       THEN Done(TRUE, <<>>)
       ELSE IF Here = Absent THEN Done(FALSE, <<>>)
       ELSE /\ stage' = "type"
            /\ UNCHANGED <<gdl, changes, path, seen, steady, question, level, udi, type,
                           result, values>>
    /\ UNCHANGED failed

AskExists ==
    /\ stage = "exists"
    /\ IF Here = Absent \/ (question.value = AnyValue /\ question.kind = "match")
       THEN Done(Here # Absent, <<>>)
       ELSE /\ stage' = "type"
            /\ UNCHANGED <<gdl, changes, path, seen, steady, question, level, udi, type,
                           result, values>>
    /\ UNCHANGED failed

Handled == Types \ {"unhandled"}

(* The type of a property that has gone is none HAL has.                   *)
AskType ==
    /\ stage = "type"
    /\ IF Here.type \in Handled
       THEN /\ stage' = "get"
            /\ type' = Here.type
            /\ UNCHANGED <<gdl, changes, path, seen, steady, question, level, udi,
                           result, values>>
       ELSE Done(FALSE, IF question.kind = "value" THEN <<Null>> ELSE <<>>)
    /\ UNCHANGED failed

(* The walk over a list of strings ends after the first.                   *)
Compares_First(v, text) ==
    CASE v.type \in {"string", "strlist"} -> text \in ToSet(v.texts) /\ text = Head(v.texts)
      [] v.type = "boolean" -> v.num = (IF text = Word("true") THEN 1 ELSE 0)
      [] v.type = "int32" -> v.num = ToInt(text.num)
      [] v.type = "double" -> v.num = text.num

(* The comparisons: texts with strcmp, a boolean with whether the text is  *)
(* "true", numbers with the number the text begins with.                   *)
Compares(v, text) ==
    CASE v.type \in {"string", "strlist"} -> text \in ToSet(v.texts)
      [] v.type = "boolean" -> v.num = (IF text = Word("true") THEN 1 ELSE 0)
      [] v.type = "int32" -> v.num = ToInt(text.num)
      [] v.type = "double" -> v.num = text.num

(* A 64 bit number is asked for as an int.                                 *)
GetAndCompare ==
    /\ stage = "get" /\ question.kind = "match"
    /\ failed' = (Here.type # type)
    /\ IF type = "uint64"
       THEN \E n \in IntAnswers(Here) :
               Done(ToLong(n) = ToLong(question.value.num), <<>>)
       ELSE Done(Compares(Answer(Here, type), question.value), <<>>)

(* A 64 bit number is fetched the way it is compared, as an int.           *)
Fetched_AsInt(v, t) ==
    Texts(IF t = "uint64" THEN [ErrorValue(t) EXCEPT !.num = ToInt(v.num)]
          ELSE Answer(v, t))
(* An error leaves a list NULL, and an array with no text for a string.    *)
Fetched(v, t) ==
    IF t = "strlist" /\ v.type # t THEN <<>> ELSE Texts(Answer(v, t))

GetValue ==
    /\ stage = "get" /\ question.kind = "value"
    /\ failed' = (Here.type # type)
    /\ Done(FALSE, Fetched(Here, type))

Daemon ==
    \/ AskParent \/ FollowParent
    \/ AskExists \/ AskType \/ GetAndCompare \/ GetValue

Next == HalChanges \/ Daemon

Spec == Init /\ [][Next]_vars

-----------------------------------------------------------------------------
(* Properties.  The daemon compares the same literal with HAL and, for a   *)
(* removed device, with the texts of its list: ListMatches is what the     *)
(* list answers.                                                           *)

Answered(kind) == stage = "done" /\ question.kind = kind /\ steady

(* Texts that are no way HAL's values are printed compare equal where the  *)
(* list differs: another word than "true" is FALSE, "05" is 5, a word 0,   *)
(* and a number is cut to the width of an int.                             *)
Lenient(text) ==
    CASE type = "boolean" -> text \notin {Word("true"), Word("false")}
      [] type = "int32" -> text # Numeral(ToInt(text.num))
      [] type = "double" -> text # Numeral(Printed(text.num))
      [] type = "uint64" -> TRUE
      [] OTHER -> FALSE

(* A literal that is found true was true of the device, as the list would  *)
(* have it, at some moment while HAL was asked, with two exceptions: a     *)
(* lenient comparison, and a property that went or changed its type before *)
(* the last question, whose FALSE or -1 was compared instead.              *)
TrueWasTrue ==
    Answered("match") /\ result =>
        \/ \E array \in seen : ListMatches(array, question.value)
        \/ Lenient(question.value)
        \/ failed /\ type \notin {"string", "strlist"}

(* A literal that is found false was false at some moment, except for      *)
(* numbers an int or six digits cannot hold.                               *)
FalseWasFalse ==
    Answered("match") /\ ~result =>
        \/ \E array \in seen : ~ListMatches(array, question.value)
        \/ type = "uint64"
        \/ type = "double" /\ question.value.num >= DoubleExact

(* The array that is put into the list or a command is one HAL had while   *)
(* it was asked; of a property that went meanwhile it may be {NULL}, or    *)
(* the false or -1 that comes with an error.                               *)
FetchedWasThere ==
    Answered("value") =>
        \/ values \in seen
        \/ /\ <<>> \in seen
           /\ values = IF failed THEN Texts(ErrorValue(type)) ELSE <<Null>>

=============================================================================
