--------------------------- MODULE MCHalevtDaemon ---------------------------
(***************************************************************************)
(* Instances of HalevtDaemon for TLC: the configurations (Rules) the cfg   *)
(* files choose from, written the way parse_config.c leaves them, and the  *)
(* properties HAL gives a device.                                          *)
(***************************************************************************)
EXTENDS HalevtDaemon

CONSTANTS u1, u2, parent, state, on, off

Has(k) == [parents |-> <<>>, name |-> k, value |-> AnyValue, positive |-> TRUE]
Is(k, v) == [Has(k) EXCEPT !.value = v]
IsNot(k, v) == [Is(k, v) EXCEPT !.positive = FALSE]
ParentIs(k, v) == [Is(k, v) EXCEPT !.parents = <<parent>>]
Anything == Has(Star)

Name(k) == [parents |-> <<>>, name |-> k]

-----------------------------------------------------------------------------
(* One property: devices that are on or off, or do not say.                *)

StateProfiles == [{state} -> {on, off, NoKey}]

Overheats == {[name |-> "hot", detail |-> on], [name |-> "cold", detail |-> off]}

(* Every kind of rule, with negation, alternatives and several rules.      *)
StateRules ==
    [oninit |-> <<[match |-> <<<<Anything>>>>, exec |-> <<Name(UdiName)>>]>>,
     added |-> <<[match |-> <<<<Is(state, on)>>>>, exec |-> <<Name(state)>>],
                 [match |-> <<<<IsNot(state, on)>>>>, exec |-> <<>>]>>,
     removed |-> <<[match |-> <<<<Has(state), IsNot(state, off)>>>>,
                    exec |-> <<Name(state), Name(UdiName)>>],
                   [match |-> <<<<Is(state, off)>>, <<IsNot(state, on)>>>>,
                    exec |-> <<Name(state)>>]>>,
     property |-> <<[name |-> state, match |-> <<<<Anything>>>>,
                     actions |-> <<[value |-> on, exec |-> <<Name(state)>>],
                                   [value |-> AnyValue, exec |-> <<>>]>>],
                    [name |-> parent, match |-> <<<<Anything>>>>, actions |-> <<>>]>>,
     condition |-> <<[name |-> "hot", value |-> AnyValue,
                      match |-> <<<<Has(state)>>>>, exec |-> <<>>],
                     [name |-> "hot", value |-> off,
                      match |-> <<<<Anything>>>>, exec |-> <<>>]>>]

(* No rules at all: only the devices list is kept.                         *)
NoRules == [t \in {"oninit", "added", "removed", "property", "condition"} |-> <<>>]

(* Removal rules that look at the parent of the device: in the expression, *)
(* and in the command.                                                     *)
ParentName(k) == [parents |-> <<parent>>, name |-> k]
ParentRules ==
    [NoRules EXCEPT !["removed"] =
        <<[match |-> <<<<ParentIs(state, on)>>>>, exec |-> <<Name(UdiName)>>]>>]
ParentCommandRules ==
    [NoRules EXCEPT !["removed"] =
        <<[match |-> <<<<Has(state)>>>>, exec |-> <<ParentName(state)>>],
          ParentRules["removed"][1]>>]

ParentProfiles == {[k \in {parent, state} |-> IF k = parent THEN p ELSE s] :
                      p \in {u2, NoKey}, s \in {on, NoKey}}

=============================================================================
