----------------------------- MODULE ConfigText -----------------------------
(***************************************************************************)
(* How the texts of the configuration are taken apart: property names and  *)
(* commands (src/parse_config.c), match expressions (src/match.c).         *)
(*                                                                         *)
(* A text is a sequence of tokens: "$" "." "=" " ", the operators, the     *)
(* word "hal", other words.  What is looked for, hal. $hal. .hal. $, is a  *)
(* sequence of tokens too, so positions stand for the pointers the code    *)
(* moves through the text.  A NULL string is the empty text where the code *)
(* never takes an empty one for a string, and Missing, or none in a        *)
(* sequence of at most one text, otherwise.                                *)
(***************************************************************************)
EXTENDS SequencesExt, FiniteSetsExt, Integers

HalPrefix == <<"hal", ".">>
HalExecPrefix == <<"$", "hal", ".">>
HalSubstring == <<".", "hal", ".">>
Dollar == <<"$">>
Equal == <<"=">>

NoText == <<>>
Missing == <<"(null)">>

(* strstr: the occurrences of pat in s from position p on, and the first,  *)
(* 0 for none.                                                             *)
Occurrences(s, pat, p) ==
    {i \in p .. (Len(s) - Len(pat) + 1) : SubSeq(s, i, i + Len(pat) - 1) = pat}
StrStr(s, pat, p) ==
    LET o == Occurrences(s, pat, p) IN IF o = {} THEN 0 ELSE Min(o)

(* A set of positions, from left to right.                                 *)
InOrder(positions) ==
    [k \in 1 .. Cardinality(positions) |->
        CHOOSE i \in positions : Cardinality({j \in positions : j <= i}) = k]

-----------------------------------------------------------------------------
(* Property names.                                                         *)

(* halevt_hal_string: what follows the prefix, which must be something.    *)
HalString(s) ==
    IF IsPrefix(HalPrefix, s) /\ Len(s) > Len(HalPrefix)
    THEN SubSeq(s, Len(HalPrefix) + 1, Len(s))
    ELSE NoText

NoName == [parents |-> <<>>, name |-> NoText]

(* The parents array starts with the last piece.                           *)
PropertyName_Rotated(pieces) ==
    [parents |-> Tail(pieces), name |-> Head(pieces)]
PropertyName(pieces) == [parents |-> Front(pieces), name |-> Last(pieces)]

(* halevt_parse_property_name: a piece ends before every .hal., the next   *)
(* begins after its dot.  Each must be a hal string; the last is the name. *)
ParsePropertyName(s) ==
    LET cuts == InOrder(Occurrences(s, HalSubstring, 1))
        n == Len(cuts)
        pieces == [j \in 1 .. n + 1 |->
                     HalString(SubSeq(s, IF j = 1 THEN 1 ELSE cuts[j - 1] + 1,
                                         IF j > n THEN Len(s) ELSE cuts[j] - 1))]
    IN  IF NoText \in ToSet(pieces) THEN NoName ELSE PropertyName(pieces)

-----------------------------------------------------------------------------
(* Commands.  halevt_new_exec goes through the text twice: to count the    *)
(* elements its array needs, and to cut the text into them.                *)

Literal(t) == [hal_property |-> FALSE, string |-> t, property |-> NoName]
Property(n) == [hal_property |-> TRUE, string |-> NoText, property |-> n]

(* From position p, a property begins at the next $hal. and ends at the    *)
(* dollar after it.                                                        *)
Opening(s, p) == StrStr(s, HalExecPrefix, p)
Closing(s, p) == IF Opening(s, p) = 0 THEN 0 ELSE StrStr(s, Dollar, Opening(s, p) + 1)

(* The count forgets that text follows the property.                       *)
CountElements_Halved(s) ==
    LET count[p \in 1 .. Len(s) + 1] ==
            IF Closing(s, p) = 0 THEN 0
            ELSE IF Closing(s, p) = Len(s) THEN 1
            ELSE 1 + count[Closing(s, p)]
    IN  count[1]

(* The first pass: it goes on from the closing dollar, which may begin     *)
(* another property.                                                       *)
CountElements(s) ==
    LET count[p \in 1 .. Len(s) + 1] ==
            IF Closing(s, p) = 0 THEN 0
            ELSE IF Closing(s, p) = Len(s) THEN 1
            ELSE 2 + count[Closing(s, p)]
    IN  count[1]

(* The second pass goes on from the closing dollar, like the first.        *)
CutElements_SameDollar(s) ==
    LET cut[p \in 1 .. Len(s) + 1] ==
            LET q == Opening(s, p)
                r == Closing(s, p)
                name == ParsePropertyName(SubSeq(s, q + 1, r - 1))
                both == <<Literal(SubSeq(s, p, q - 1)), Property(name)>>
            IN  CASE r = 0 -> <<Literal(SubSeq(s, p, Len(s)))>>
                  [] r # 0 /\ (name = NoName \/ r = Len(s)) -> both
                  [] OTHER -> both \o cut[r]
    IN  cut[1]

(* The second pass goes on after the closing dollar, and stops at a bad    *)
(* property name.                                                          *)
CutElements(s) ==
    LET cut[p \in 1 .. Len(s) + 1] ==
            LET q == Opening(s, p)
                r == Closing(s, p)
                name == ParsePropertyName(SubSeq(s, q + 1, r - 1))
                both == <<Literal(SubSeq(s, p, q - 1)), Property(name)>>
            IN  CASE r = 0 -> <<Literal(SubSeq(s, p, Len(s)))>>
                  [] r # 0 /\ (name = NoName \/ r = Len(s)) -> both
                  [] OTHER -> both \o cut[r + 1]
    IN  cut[1]

(* halevt_new_exec: no element at all stands for NULL.                     *)
NewExec(s) ==
    LET elements == CutElements(s)
    IN  [string |-> s,
         elements |-> IF IsPrefix(HalExecPrefix, s) \/ Last(elements) = Property(NoName)
                      THEN <<>> ELSE elements]

ExecMade(s) == NewExec(s).elements # <<>>

-----------------------------------------------------------------------------
(* Match expressions.                                                      *)

Operators == {"&", "|", "!", "(", ")"}
Space == " "

TrimLeft(s) ==
    LET words == {i \in DOMAIN s : s[i] # Space}
    IN  IF words = {} THEN <<>> ELSE SubSeq(s, Min(words), Len(s))
TrimRight(s) ==
    LET words == {i \in DOMAIN s : s[i] # Space}
    IN  IF words = {} THEN <<>> ELSE SubSeq(s, 1, Max(words))

(* Where the scan stops: at the operators and at the end of the text.      *)
Stops(s) ==
    Append(InOrder({i \in DOMAIN s : s[i] \in Operators}), Len(s) + 1)

(* The atom before stop k, without the blanks around it; it may be none.   *)
AtomBefore(s, k) ==
    LET stops == Stops(s)
    IN  TrimLeft(TrimRight(SubSeq(s, IF k = 1 THEN 1 ELSE stops[k - 1] + 1,
                                     stops[k] - 1)))

(* The number of an atom: snprintf prints it, atoi reads what boolstuff    *)
(* has kept of it.                                                         *)
Figures == <<"0", "1", "2", "3", "4", "5", "6", "7", "8", "9">>

Printed(n) ==
    LET printed[i \in 0 .. n] ==
            IF i < 10 THEN <<Figures[i + 1]>>
            ELSE Append(printed[i \div 10], Figures[(i % 10) + 1])
    IN  printed[n]

FigureOf(c) == CHOOSE d \in 0 .. 9 : Figures[d + 1] = c

Atoi(t) ==
    LET value[k \in 0 .. Len(t)] ==
            IF k = 0 THEN 0 ELSE 10 * value[k - 1] + FigureOf(t[k])
    IN  value[Len(t)]

(* The array of atoms grows once it is full by the count before.           *)
AtomsRoom(size, matches) == IF matches >= size - 1 THEN size * 2 ELSE size

(* Room for the number of the atom, the operator and the end.              *)
ExprRoom_NoNumber(size, length, digits) ==
    IF length + 2 > size THEN size * 2 ELSE size
ExprRoom(size, length, digits) ==
    IF length + digits + 2 > size THEN size * 2 ELSE size

(* The scan of halevt_new_boolean_expression, up to each of its stops: the *)
(* atoms, the expression with a number for each atom, cut into words, its  *)
(* length, and the sizes of the two buffers.                               *)
Scan(s) ==
    LET stops == Stops(s)
        scan[k \in 0 .. Len(stops)] ==
            IF k = 0
            THEN [atoms |-> <<>>, expr |-> <<>>, length |-> 0,
                  atom_sizes |-> 4, expr_string_size |-> 10]
            ELSE LET old == scan[k - 1]
                     atom == AtomBefore(s, k)
                     ended == atom # <<>>
                     number == Len(old.atoms)
                     digits == IF ended THEN Len(Printed(number)) ELSE 0
                     last == k = Len(stops)
                 IN  [atoms |-> IF ended THEN Append(old.atoms, atom) ELSE old.atoms,
                      expr |-> old.expr
                               \o (IF ended THEN <<Printed(number)>> ELSE <<>>)
                               \o (IF last THEN <<>> ELSE <<<<s[stops[k]]>>>>),
                      length |-> old.length + digits + (IF last THEN 0 ELSE 1),
                      atom_sizes |-> IF ended THEN AtomsRoom(old.atom_sizes, number + 1)
                                     ELSE old.atom_sizes,
                      expr_string_size |->
                          ExprRoom(old.expr_string_size, old.length, digits)]
    IN  scan

Scanned(s) == Scan(s)[Len(Stops(s))]

(* The equal sign stays at the end of the name.                            *)
NewMatch_KeepsEqual(atom) ==
    LET e == StrStr(atom, Equal, 1)
        key == IF e = 0 THEN atom ELSE TrimRight(SubSeq(atom, 1, e))
    IN  [property |-> IF HalString(key) = NoText THEN NoName ELSE ParsePropertyName(key),
         value |-> IF e = 0 THEN <<>> ELSE <<TrimLeft(SubSeq(atom, e + 1, Len(atom)))>>]

(* An atom "name = value" or "name", split at its first equal sign; the    *)
(* value is there or not.                                                  *)
NewMatch(atom) ==
    LET e == StrStr(atom, Equal, 1)
        key == IF e = 0 THEN atom ELSE TrimRight(SubSeq(atom, 1, e - 1))
    IN  [property |-> IF HalString(key) = NoText THEN NoName ELSE ParsePropertyName(key),
         value |-> IF e = 0 THEN <<>> ELSE <<TrimLeft(SubSeq(atom, e + 1, Len(atom)))>>]

(* boolstuff_parse, which takes atoms, ! before a factor, & and | between  *)
(* factors, and parentheses.  wants: a factor is expected; depth: open     *)
(* parentheses; -1 once there is no way on.                                *)
Grammatical(expr) ==
    LET parse[k \in 0 .. Len(expr)] ==
            IF k = 0 THEN [wants |-> TRUE, depth |-> 0]
            ELSE LET old == parse[k - 1]
                     c == Head(expr[k])
                 IN  CASE old.depth = -1 -> old
                       [] old.depth # -1 /\ c = "!" /\ old.wants -> old
                       [] old.depth # -1 /\ c = "(" /\ old.wants ->
                              [old EXCEPT !.depth = @ + 1]
                       [] old.depth > 0 /\ c = ")" /\ ~old.wants ->
                              [old EXCEPT !.depth = @ - 1]
                       [] old.depth # -1 /\ c \in {"&", "|"} /\ ~old.wants ->
                              [old EXCEPT !.wants = TRUE]
                       [] old.depth # -1 /\ c \notin Operators /\ old.wants ->
                              [old EXCEPT !.wants = FALSE]
                       [] OTHER -> [old EXCEPT !.depth = -1]
    IN  parse[Len(expr)] = [wants |-> FALSE, depth |-> 0]

(* halevt_new_boolean_expression: no expression stands for NULL.           *)
NewBooleanExpression(s) ==
    LET scanned == Scanned(s)
        matches == [i \in DOMAIN scanned.atoms |-> NewMatch(scanned.atoms[i])]
        good == /\ \A i \in DOMAIN matches : matches[i].property # NoName
                /\ Grammatical(scanned.expr)
    IN  [expression_string |-> IF good THEN scanned.expr ELSE <<>>,
         matches |-> IF good THEN matches ELSE <<>>]

MatchMade(s) == NewBooleanExpression(s).expression_string # <<>>

-----------------------------------------------------------------------------
(* What the parts stand for: the texts they were cut from.                 *)

NameText(n) ==
    FlattenSeq([j \in DOMAIN n.parents |-> HalPrefix \o n.parents[j] \o <<".">>])
        \o HalPrefix \o n.name

ElementText(e) ==
    IF e.hal_property THEN Dollar \o NameText(e.property) \o Dollar ELSE e.string

ExecText(exec) == FlattenSeq([i \in DOMAIN exec.elements |->
                                ElementText(exec.elements[i])])

MatchText(m) ==
    NameText(m.property) \o (IF m.value = <<>> THEN <<>> ELSE Equal \o Head(m.value))

(* The match a number stands for, as halevt_value_true finds it.           *)
ExpressionText(x) ==
    FlattenSeq([k \in DOMAIN x.expression_string |->
        LET word == x.expression_string[k]
        IN  IF Head(word) \in Operators THEN word
            ELSE MatchText(x.matches[Atoi(word) + 1])])

NoBlanks(s) == FlattenSeq([i \in DOMAIN s |-> IF s[i] = Space THEN <<>> ELSE <<s[i]>>])

=============================================================================
