------------------------------ MODULE HalMatch ------------------------------
(***************************************************************************)
(* How a rule of the configuration is matched against a device             *)
(* (src/match.c, src/hal_interface.c).  The same expression is evaluated   *)
(* in two ways: against HAL, by asking it for each property ("live"), or   *)
(* against an entry of the devices list.                                   *)
(*                                                                         *)
(* A property name "hal.a.hal.b" is the record [parents |-> <<a>>,         *)
(* name |-> b]: the udi in property a names the device whose property b is *)
(* meant.  A literal adds the value to compare with (AnyValue: the         *)
(* property only has to exist) and the sign it has in the expression.  An  *)
(* expression is in disjunctive normal form, a sequence of terms, each a   *)
(* sequence of literals in the order the code looks at them.               *)
(*                                                                         *)
(* The outcome of an evaluation is "true", "false" or "null": following a  *)
(* parent whose stored values array is {NULL} hands a NULL udi to strcmp.  *)
(***************************************************************************)
EXTENDS DevicesList, FiniteSetsExt

CONSTANTS
    NoDevice,  \* the device is not in HAL's Global Device List
    Star,      \* the property name "*", which matches every device
    UdiName,   \* the name "udi", replaced by the udi itself in a command
    AnyValue,  \* no value (or the value "*" of an Action)
    Unknown    \* "UNKNOWN", what a missing property is replaced with

-----------------------------------------------------------------------------
(* Looking at HAL.  gdl maps each udi to its properties or to NoDevice.    *)

(* libhal_device_property_exists.                                          *)
LiveExists(gdl, u, k) == u \in Udis /\ gdl[u] # NoDevice /\ gdl[u][k] # NoKey

(* halevt_property_resolve_udi: NoKey stands for the NULL it returns when  *)
(* a parent property is missing.                                           *)
ResolveUdi(gdl, u, parents) ==
    LET device[n \in 0 .. Len(parents)] ==
            IF n = 0 THEN u
            ELSE IF LiveExists(gdl, device[n - 1], parents[n])
                 THEN gdl[device[n - 1]][parents[n]]
                 ELSE NoKey
    IN  device[Len(parents)]

(* halevt_property_matches_udi.                                            *)
PropertyMatchesUdi(gdl, k, v, u) ==
    LiveExists(gdl, u, k) /\ (v = AnyValue \/ gdl[u][k] = v)

(* halevt_matches for a udi, halevt_match_udi.                             *)
MatchUdi(gdl, u, lit) ==
    IF \/ lit.name = Star
       \/ PropertyMatchesUdi(gdl, lit.name, lit.value,
                             ResolveUdi(gdl, u, lit.parents))
    THEN "true" ELSE "false"

-----------------------------------------------------------------------------
(* Looking at the devices list, from its entry at position i.              *)

(* halevt_property_resolve_device: the position of the entry, 0 for NULL,  *)
(* Null when find_device was called with a NULL udi.                       *)
ResolveDevice(list, i, parents) ==
    LET device[n \in 0 .. Len(parents)] ==
            IF n = 0 THEN i
            ELSE LET d == device[n - 1]
                 IN  IF d \notin DOMAIN list THEN d
                     ELSE LET v == list[d].props[parents[n]]
                          IN  CASE v = Null -> Null
                                [] v # Null /\ Listed(list, v) -> Find(list, v)
                                [] OTHER -> 0
    IN  device[Len(parents)]

(* halevt_property_matches_device: comparing with a NULL string ends the   *)
(* walk over the values, so {NULL} exists but equals nothing.              *)
PropertyMatchesDevice(list, k, v, i) ==
    LET w == list[i].props[k]
    IN  w # NoKey /\ (v = AnyValue \/ (w # Null /\ w = v))

(* halevt_matches for an entry, halevt_match_device.                       *)
MatchDevice(list, i, lit) ==
    LET d == ResolveDevice(list, i, lit.parents)
    IN  CASE lit.name = Star -> "true"
          [] lit.name # Star /\ d = Null -> "null"
          [] lit.name # Star /\ d # Null ->
                IF d \in DOMAIN list
                   /\ PropertyMatchesDevice(list, lit.name, lit.value, d)
                THEN "true" ELSE "false"

-----------------------------------------------------------------------------
(* halevt_true_tree: terms in order, and in each term literals in order    *)
(* until one does not have the outcome its sign asks for.                  *)

TermOutcome(term, list, i) ==
    LET Outcome(lit) == MatchDevice(list, i, lit)
        Sought(lit) == IF lit.positive THEN "true" ELSE "false"
        stops == {n \in DOMAIN term : Outcome(term[n]) # Sought(term[n])}
    IN  CASE stops = {} -> "true"
          [] stops # {} /\ Outcome(term[Min(stops)]) = "null" -> "null"
          [] OTHER -> "false"

TrueTree(tree, list, i) ==
    LET stops == {n \in DOMAIN tree : TermOutcome(tree[n], list, i) # "false"}
    IN  IF stops = {} THEN "false" ELSE TermOutcome(tree[Min(stops)], list, i)

-----------------------------------------------------------------------------
(* halevt_property_name_value and the "UNKNOWN" of halevt_run_command: the *)
(* text a property name in a command is replaced with.                     *)

LiveValue(gdl, u, p) ==
    LET d == ResolveUdi(gdl, u, p.parents)
    IN  CASE p.name = UdiName /\ p.parents = <<>> -> u
          [] ~(p.name = UdiName /\ p.parents = <<>>) ->
                IF LiveExists(gdl, d, p.name) THEN gdl[d][p.name] ELSE Unknown

ListValue(list, i, p) ==
    LET d == ResolveDevice(list, i, p.parents)
    IN  CASE p.name = UdiName /\ p.parents = <<>> -> list[i].udi
          [] ~(p.name = UdiName /\ p.parents = <<>>) ->
                IF d = Null THEN Null
                ELSE IF d \in DOMAIN list
                        /\ list[d].props[p.name] \notin {NoKey, Null}
                     THEN list[d].props[p.name] ELSE Unknown

=============================================================================
