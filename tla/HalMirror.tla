----------------------------- MODULE HalMirror -----------------------------
(***************************************************************************)
(* What the devices list promises to the removal rules, whoever keeps it   *)
(* and however: a copy of the things HAL knows, of which some are vouched  *)
(* for (current).  Only HAL can make the copy of such a thing wrong; the   *)
(* keeper may look at more things, never lose one it has, and forgets      *)
(* everything only by failing, for good.  HalevtDaemon is shown to be such *)
(* a keeper.                                                               *)
(***************************************************************************)
CONSTANT Things   \* what there is to know: here, aspects of devices

VARIABLES
    hal,      \* what HAL knows of each thing
    copy,     \* what the keeper has of it
    current,  \* the things the copy is vouched for
    up        \* whether the keeper has not failed

vars == <<hal, copy, current, up>>

Init ==
    /\ DOMAIN hal = Things
    /\ DOMAIN copy = Things
    /\ current = {}
    /\ up = TRUE

(* HAL changes something, and with it only the things that change stop     *)
(* being vouched for.                                                      *)
HalChanges ==
    /\ DOMAIN hal' = Things
    /\ UNCHANGED <<copy, up>>
    /\ current' = {t \in current : hal'[t] = hal[t]}

(* The keeper looks at HAL.  Things not vouched for may be copied wrongly. *)
Looks ==
    /\ up = TRUE
    /\ UNCHANGED <<hal, up>>
    /\ DOMAIN copy' = Things
    /\ current \subseteq current'
    /\ current' \subseteq Things
    /\ \A t \in current' : copy'[t] = hal[t]

(* The keeper loses everything at once.                                    *)
Fails ==
    /\ up = TRUE /\ up' = FALSE
    /\ UNCHANGED hal
    /\ DOMAIN copy' = Things
    /\ current' = {}

Next == HalChanges \/ Looks \/ Fails

Spec == Init /\ [][Next]_vars

=============================================================================
