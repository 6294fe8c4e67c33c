--------------------------- MODULE MCParseConfig ---------------------------
(***************************************************************************)
(* Configurations for TLC: every command and every match expression put    *)
(* together from a few phrases, a configuration with every kind of rule    *)
(* and mistake, and directories with files that stand for each other.      *)
(***************************************************************************)
EXTENDS ParseConfig

x == "x"
HalX == <<"hal", ".", x>>
HalY == <<"hal", ".", "y">>
MatchX == HalX
RunX == <<x, " ">> \o Dollar \o HalX \o Dollar

(* Several properties, with parents, side by side, at the end and not.     *)
RunXY == RunX \o Dollar \o HalX \o <<".">> \o HalY \o Dollar \o <<x>>

Element(tag, exec) ==
    [tag |-> tag, exec |-> exec, name |-> Missing, value |-> Missing, actions |-> <<>>]
Act(value, exec) == [tag |-> "Action", exec |-> exec, value |-> value]
Device(match, children) == [tag |-> "Device", match |-> match, children |-> children]
Valid(devices) == [valid |-> TRUE, devices |-> devices]
Given(documents) ==
    [report : {FALSE}, given : {<<document>> : document \in documents},
     home : {<<>>}, sysconf : {<<>>}, data : {<<>>}]

-----------------------------------------------------------------------------
(* Every command of up to six phrases, every expression of up to four.     *)

TextsOf(phrases, n) ==
    {FlattenSeq(t) : t \in UNION {[1 .. i -> phrases] : i \in 0 .. n}}

Commands == TextsOf({Dollar, HalX, <<".", "hal", ".">>, <<x>>}, 6)
Expressions == TextsOf({<<"&">>, <<"!">>, <<"(">>, <<")">>, HalX, <<" ">>, <<"=", x>>, <<".">>}, 4)

(* So many atoms that both buffers grow several times, and two commands    *)
(* with their properties side by side.                                     *)
Many(n) == FlattenSeq([i \in 1 .. n |-> HalX \o <<" ", "=", " ", ToString(i), "|">>]) \o HalY
ManySides == {FlattenSeq([i \in 1 .. n |-> p]) :
                 n \in 1 .. 5, p \in {Dollar \o HalX, RunX, RunXY}}

ExecStarts ==
    Given({Valid(<<Device(MatchX, <<Element("Insertion", t)>>)>>) :
              t \in Commands \cup ManySides})
MatchStarts ==
    Given({Valid(<<Device(t, <<Element("Removal", RunX)>>)>>) :
              t \in Expressions \cup {Many(n) : n \in 1 .. 20}})

-----------------------------------------------------------------------------
(* Devices with up to three elements of different kinds, some with a       *)
(* mistake: a bad command or expression, an attribute missing.             *)

Bad == Dollar \o HalPrefix \o Dollar
PropertyElement(name, actions) ==
    [Element("Property", Missing) EXCEPT !.name = name, !.actions = actions]

SomeElements ==
    {Element("Insertion", RunX), Element("Insertion", <<x>> \o Bad),
     Element("Removal", RunXY), Element("OnInit", Missing), Element("OnInit", <<x>>),
     Element("Comment", Missing),
     [Element("Condition", <<x>>) EXCEPT !.name = <<"hot">>],
     [Element("Condition", RunX) EXCEPT !.name = <<"hot">>, !.value = <<x>>],
     Element("Condition", <<x>>),
     PropertyElement(HalX, <<Act(<<"1">>, <<x>>), Act(<<"2">>, Missing),
                             [Act(<<"3">>, <<x>>) EXCEPT !.tag = "Text"],
                             Act(<<"4">>, RunX), Act(<<"5">>, Bad)>>),
     PropertyElement(<<x>>, <<Act(<<"1">>, <<x>>)>>),
     PropertyElement(HalY, <<>>)}

RuleStarts ==
    Given({Valid(<<Device(Missing, <<Element("Insertion", <<x>>)>>),
                   Device(m, <<a, b, c>>),
                   [Device(HalY, <<Element("Insertion", <<x>>)>>) EXCEPT !.tag = "Text"],
                   Device(HalY, <<Element("Insertion", <<x>>), a>>)>>) :
              m \in {HalX, <<"&">>}, a, b, c \in SomeElements})

-----------------------------------------------------------------------------
(* Up to two names in three directories.                                   *)

File(kind, document) == [kind |-> kind, document |-> document]
Doc(t) == Valid(<<Device(HalX, <<Element("Insertion", <<t>>), Element("OnInit", <<t>>)>>)>>)
NotXml == [valid |-> FALSE, devices |-> <<>>]
XmlName == <<"a", ".xml">>
OtherNames == {<<".xml">>, <<"b", ".xml">>, <<"a", ".xml", "~">>}

Directory(t) ==
    {<<>>} \cup
    [{XmlName} -> {File("regular", Doc(t)), File("other", NotXml), File("regular", NotXml)}]
    \cup UNION {[{XmlName, n} -> {File("regular", Doc(t)), File("gone", NotXml)}] :
                   n \in OtherNames}

SearchStarts ==
    [report : {FALSE}, given : {<<>>},
     home : Directory("h"), sysconf : Directory("s"), data : Directory("d")]

ReportStarts ==
    [report : {TRUE}, given : {<<>>, <<Doc("h")>>}, home : {<<>>}, sysconf : {<<>>}, data : {<<>>}]

MCStarts == ExecStarts \cup MatchStarts \cup RuleStarts \cup SearchStarts \cup ReportStarts

=============================================================================
