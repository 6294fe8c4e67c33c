--------------------------- MODULE MCHalQuestions ---------------------------
(***************************************************************************)
(* Instances for TLC: two devices, one a parent of the other, with an int  *)
(* of 4 bits, a uint64 of 6 and doubles that are printed exactly below 8.  *)
(***************************************************************************)
EXTENDS HalQuestions

Text(t) == [type |-> "string", num |-> 0, texts |-> <<t>>]
TextList(ts) == [type |-> "strlist", num |-> 0, texts |-> ts]
Number(t, n) == [type |-> t, num |-> n, texts |-> <<>>]

a == Word("a")

MCValues ==
    {Absent, Text(a), Text(Numeral(5)), TextList(<<>>), TextList(<<a, Numeral(5)>>),
     Number("boolean", 0), Number("boolean", 1),
     Number("int32", 5), Number("int32", -1),
     Number("uint64", 5), Number("uint64", 21),
     Number("double", 5), Number("double", 9),
     Number("unhandled", 0), Text(Word("d1")), Text(Word("d2"))}

Device(p, k) == [key \in Keys |-> IF key = "parent" THEN p ELSE k]

MCSnapshots ==
    {[u \in Udis |-> IF u = "d1" THEN Device(p, v) ELSE Device(Absent, v)] :
        p \in {Text(Word("d2")), Text(a), Absent}, v \in MCValues}
    \cup {[u \in Udis |-> Device(Text(Word(IF u = "d1" THEN "d2" ELSE "d1")), v)] :
             v \in {Absent, Text(a)}}

MCTexts == {AnyValue, a, Word("true"), Word("false"), Numeral(5), Numeral(21),
            Numeral(-1), Numeral(9), Numeral(10), [form |-> "05", num |-> 5]}

MCParents == {<<>>, <<"parent">>, <<"parent", "parent">>}

MCQuestions ==
    {[kind |-> "match", udi |-> "d1", parents |-> p, name |-> "k", value |-> t] :
        p \in MCParents, t \in MCTexts}
    \cup {[kind |-> "value", udi |-> "d1", parents |-> p, name |-> "k", value |-> AnyValue] :
             p \in MCParents}

=============================================================================
