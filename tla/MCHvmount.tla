----------------------------- MODULE MCHvmount -----------------------------
(***************************************************************************)
(* Three runs of hvmount: one that mounts, as what is left of its mount    *)
(* command may keep the lock; one with any call of                         *)
(* automatic_mount_with_hvmount.xml and of usage(); and one that only      *)
(* reads, but takes and removes the lock as all do.                        *)
(***************************************************************************)
EXTENDS Hvmount

MCFields == {"u1", "u2", "d1", "d2", "m1", "m2", Empty}

Ask(cmd, udi, device, mountpoint) ==
    [cmd |-> cmd, udi |-> udi, device |-> device, mountpoint |-> mountpoint]

Mount == Ask("mount", "u1", "d2", "m2")
List == Ask("list", Empty, Empty, Empty)

MCRequests ==
    {Mount, List, Ask("mount", "u2", Empty, Empty), Ask("mountpoint", "u1", Empty, "m1"),
     Ask("umountpoint", "u2", "d1", Empty), Ask("remove", "u1", Empty, Empty),
     Ask("umount", Empty, "d1", Empty), Ask("clean", Empty, Empty, Empty)}

(* No table, and one with a whole line, one without a udi and one without  *)
(* a colon.                                                                *)
MCTables == {NoFile, <<<<"u1", "d1", "m1">>, <<Empty, "d1">>, <<"u2">>>>}

MCInit ==
    /\ Init
    /\ request["p1"] = Mount
    /\ request["p3"] = List

MCSpec == MCInit /\ [][Next]_vars /\ Fairness

=============================================================================
