--------------------------- MODULE MCHalevtMount ---------------------------
(***************************************************************************)
(* Instances of HalevtMount for TLC: what the runs of halevt-mount and     *)
(* halevt-umount are asked to do, the way main() leaves it after getopt.   *)
(* The calls are those of the configurations in examples/ and of the       *)
(* manual page.                                                            *)
(***************************************************************************)
EXTENDS HalevtMount, TLC

CONSTANTS p1, p2, u1, u2, d1, d2, m1, m2

Asked(cmd) == [NoRequest EXCEPT !.cmd = cmd]
AskedAll(cmd) == [Asked(cmd) EXCEPT !.all = TRUE]
AskedUdi(cmd, u) == [Asked(cmd) EXCEPT !.udi = u]
AskedDevice(cmd, d) == [Asked(cmd) EXCEPT !.device = d]
AskedArg(cmd, x) == [Asked(cmd) EXCEPT !.arg = x]

(* One of each command; "add" is part of "mount".                          *)
OverlapRequests ==
    {AskedAll("list"), Asked("sync"), AskedAll("clean"),
     AskedArg("clean", d1), AskedArg("umount", d1), AskedUdi("mount", u2)}

AddRequests == {AskedDevice("add", d1), AskedDevice("add", d2)}

(* What halevt asks for when devices come and when they change.            *)
HotplugRequests ==
    {Asked("sync"), AskedUdi("mount", u1), AskedUdi("mount", u2)} \cup AddRequests

(* Two volumes, of which at most one can be there now: there is one device *)
(* file.                                                                   *)
OldTables == {<<<<u2, d1>>, <<u1>>>>}
NoTables == {}

(* HotplugRequests treats the udis alike, and the device files.            *)
MountSymmetry ==
    Permutations({p1, p2}) \cup Permutations({u1, u2}) \cup Permutations({d1, d2})

=============================================================================
