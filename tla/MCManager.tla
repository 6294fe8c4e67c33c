----------------------------- MODULE MCManager -----------------------------
(* Three starts with the command lines of the README, the init script and  *)
(* a user who wants no pid file.                                           *)
EXTENDS Manager

CONSTANTS p1, p2, p3

Option(root, p, foreground, good) ==
    [root |-> root, p |-> p, foreground |-> foreground, good |-> good]

MCOptions ==
    {Option(TRUE, None, FALSE, TRUE),      \* halevt, by root
     Option(TRUE, Dash, FALSE, TRUE),      \* halevt -p -, by root
     Option(FALSE, PIDFILE, TRUE, TRUE),   \* halevt -f -p PIDFILE
     Option(FALSE, None, FALSE, FALSE)}    \* halevt, with a bad configuration

(* Two daemons of the same pid file, and any third process.                *)
MCPlans ==
    {[p \in Procs |-> IF p = p3 THEN o ELSE Option(TRUE, None, FALSE, TRUE)] :
        o \in MCOptions}

=============================================================================
