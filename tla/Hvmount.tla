------------------------------ MODULE Hvmount ------------------------------
(***************************************************************************)
(* hvmount (src/scripts/hvmount.in), the shell version of halevt-mount:    *)
(* runs that share a lock file, a table and a copy of the table.           *)
(*                                                                         *)
(* The work is done in a subshell that has the lock file open on           *)
(* descriptor 9.  A step is a command of the script that changes a file,   *)
(* or one turn of a while loop; between any two steps another run goes on, *)
(* a shell is killed, or a run does not get its lock.                      *)
(***************************************************************************)
EXTENDS Sequences, SequencesExt, Naturals

CONSTANTS
    Procs,      \* the runs
    Requests,   \* what a run may be asked to do
    Tables,     \* what earlier runs may have left
    Fields,     \* what a field of a line or of a request may be
    MaxFaults   \* bound: how many shells are killed and locks not had

(* A line of the table is its fields: udi, device, mountpoint, of which    *)
(* halevt-mount leaves out those at the end it does not know.  A request   *)
(* is [cmd, udi, device, mountpoint].  Empty is the empty string; no line  *)
(* is without fields, as that of NoFile is.                                *)
Empty == ""
NoFile == <<<<>>>>
NoInode == "(none)"

Rewriting == {"mount", "mountpoint", "umountpoint", "remove"}

ASSUME RequestsAssumption ==
    Requests \subseteq [cmd : Rewriting \cup {"umount", "list", "clean"},
                        udi : Fields, device : Fields, mountpoint : Fields]

ASSUME FieldsAssumption == Empty \in Fields

(* Earlier runs have left no table, or one without two lines of a device.  *)
Lines == Seq(Fields) \ {<<>>}
OneEach(table) == \A i, j \in DOMAIN table : table[i][1] = table[j][1] => i = j

ASSUME TablesAssumption ==
    \A table \in Tables : table = NoFile \/ (table \in Seq(Lines) /\ OneEach(table))

ASSUME ProcsAssumption == NoInode \notin Procs

VARIABLES
    request,     \* of each run
    pc,          \* where its subshell is
    shell,       \* whether the shell that waits for the subshell is there
    lockname,    \* the inode the lock file is, known by the run that made it
    opened,      \* the inode a run has open on 9
    flocked,     \* the inodes that are locked
    left,        \* those of them that what a mount command left has locked
    dev_file,    \* the table
    tmp,         \* dev_file.tmp
    rest,        \* lines of tmp the loop has still to read
    udi_found,
    registered,  \* the udis that should have a line in dev_file or tmp
    safe,        \* whether, as the script asks of its rm, the lock still is
    faults

locks == <<lockname, opened, flocked, left, safe>>
files == <<dev_file, tmp, registered>>
loop == <<rest, udi_found>>
vars == <<request, pc, shell, locks, files, loop, faults>>

Working == {"start", "copy", "truncate", "loop", "rmtmp", "clean", "mount", "unlock"}

UdisIn(table) ==
    IF table = NoFile THEN {} ELSE {table[i][1] : i \in DOMAIN table} \ {Empty}

Init ==
    /\ request \in [Procs -> Requests]
    /\ pc = [p \in Procs |-> "none"]
    /\ shell = [p \in Procs |-> TRUE]
    /\ lockname = NoInode
    /\ opened = [p \in Procs |-> NoInode]
    /\ flocked = {}
    /\ left = {}
    /\ safe = TRUE
    /\ dev_file \in Tables
    /\ tmp = NoFile
    /\ rest = [p \in Procs |-> <<>>]
    /\ udi_found = [p \in Procs |-> FALSE]
    /\ registered = UdisIn(dev_file)
    /\ faults = 0

Goto(p, stage) == pc' = [pc EXCEPT ![p] = stage]

-----------------------------------------------------------------------------
(* The lock.                                                               *)

(* The redirection makes the file when the last one has been removed, also *)
(* when a run still has that one open: the lock is in two from here on.    *)
OpenLock(p) ==
    /\ pc[p] = "none"
    /\ lockname' = IF lockname = NoInode THEN p ELSE lockname
    /\ opened' = [opened EXCEPT ![p] = lockname']
    /\ safe' = (safe /\ (lockname = NoInode => \A q \in Procs : opened[q] = NoInode))
    /\ Goto(p, "flock")
    /\ UNCHANGED <<request, shell, flocked, left, files, loop, faults>>

(* flock as with -n, and its status is not looked at.                      *)
Flock_Tries(p) == flocked' = flocked \cup {opened[p]}
(* flock waits until no other run has the lock of this inode.              *)
Flock(p) ==
    /\ opened[p] \notin flocked
    /\ flocked' = flocked \cup {opened[p]}

Lock(p) ==
    /\ pc[p] = "flock"
    /\ Flock(p)
    /\ Goto(p, "start")
    /\ UNCHANGED <<request, shell, lockname, opened, left, safe, files, loop, faults>>

(* The descriptor is closed with the subshell, or with the mount command   *)
(* it has become; what that one leaves behind, as the server of a file     *)
(* system in user space, may still have it, and with it the lock.          *)
SubshellEnds(p) ==
    /\ \/ /\ flocked' = IF pc[p] = "flock" THEN flocked ELSE flocked \ {opened[p]}
          /\ left' = left
       \/ /\ pc[p] = "mount" /\ opened[p] # NoInode
          /\ left' = left \cup {opened[p]}
          /\ flocked' = flocked
    /\ opened' = [opened EXCEPT ![p] = NoInode]
    /\ Goto(p, IF shell[p] THEN "rmlock" ELSE "over")

Unlock(p) ==
    /\ pc[p] = "unlock"
    /\ SubshellEnds(p)
    /\ UNCHANGED <<request, shell, lockname, safe, files, loop, faults>>

(* rm waits for the lock it removes.                                       *)
RmLock_Locked(p) ==
    /\ pc[p] = "rmlock"
    /\ lockname \notin flocked
    /\ lockname' = NoInode
    /\ Goto(p, "over")
    /\ UNCHANGED <<request, shell, opened, flocked, left, safe, files, loop, faults>>
(* After the subshell, so without the lock.                                *)
RmLock(p) ==
    /\ pc[p] = "rmlock"
    /\ lockname' = NoInode
    /\ Goto(p, "over")
    /\ UNCHANGED <<request, shell, opened, flocked, left, safe, files, loop, faults>>

(* What the mount command left behind ends, some time or never.            *)
LeftEnds(inode) ==
    /\ inode \in left
    /\ left' = left \ {inode}
    /\ flocked' = flocked \ {inode}
    /\ UNCHANGED <<request, pc, shell, lockname, opened, safe, files, loop, faults>>

-----------------------------------------------------------------------------
(* The commands.                                                           *)

(* What a command that rewrites the table has to be given.                 *)
Complete(r) ==
    /\ r.udi # Empty
    /\ r.cmd = "mount" => r.device # Empty
    /\ r.cmd = "mountpoint" => r.mountpoint # Empty

(* list and umount only read the table; clean removes it, then the copy.   *)
Start(p) ==
    /\ pc[p] = "start"
    /\ LET r == request[p]
       IN  Goto(p, CASE r.cmd \in Rewriting /\ Complete(r) -> "copy"
                     [] r.cmd = "clean" -> "clean"
                     [] OTHER -> "unlock")
    /\ IF request[p].cmd = "clean"
       THEN dev_file' = NoFile /\ registered' = {}
       ELSE UNCHANGED <<dev_file, registered>>
    /\ UNCHANGED <<request, shell, locks, tmp, loop, faults>>

Clean(p) ==
    /\ pc[p] = "clean"
    /\ tmp' = NoFile
    /\ Goto(p, "unlock")
    /\ UNCHANGED <<request, shell, locks, dev_file, registered, loop, faults>>

(* cp.  What a killed run has left in tmp is gone, and with it its claims. *)
Copy(p) ==
    /\ pc[p] = "copy"
    /\ IF dev_file = NoFile /\ request[p].cmd # "mount"
       THEN Goto(p, "unlock") /\ UNCHANGED <<tmp, registered>>
       ELSE /\ tmp' = IF dev_file = NoFile THEN <<>> ELSE dev_file
            /\ registered' = IF tmp = NoFile THEN registered ELSE UdisIn(dev_file)
            /\ Goto(p, "truncate")
    /\ UNCHANGED <<request, shell, locks, dev_file, loop, faults>>

Truncate(p) ==
    /\ pc[p] = "truncate"
    /\ dev_file' = <<>>
    /\ registered' = IF request[p].cmd = "remove"
                     THEN registered \ {request[p].udi} ELSE registered
    /\ rest' = [rest EXCEPT ![p] = IF tmp = NoFile THEN <<>> ELSE tmp]
    /\ udi_found' = [udi_found EXCEPT ![p] = FALSE]
    /\ Goto(p, "loop")
    /\ UNCHANGED <<request, shell, locks, tmp, faults>>

(* cut -d: gives the whole of a line that has no colon.                    *)
Cut(line, i) ==
    CASE Len(line) = 1 -> line[1]
      [] Len(line) > 1 /\ i <= Len(line) -> line[i]
      [] OTHER -> Empty

(* A mount of the same device puts its line besides the old one.           *)
FoundLine_ByDevice(line, r) == Cut(line, 1) = r.udi /\ Cut(line, 2) = r.device
FoundLine(line, r) == Cut(line, 1) = r.udi

(* The lines a line that is about the udi is replaced by.                  *)
Replaced(line, r) ==
    LET f_device == Cut(line, 2)
        f_mountpoint == Cut(line, 3)
        device == IF Empty \in {f_device, r.device} THEN f_device ELSE r.device
    IN  CASE r.cmd = "mount" ->
                <<<<r.udi, r.device>>
                  \o (IF f_mountpoint # Empty /\ r.mountpoint \in {Empty, f_mountpoint}
                      THEN <<f_mountpoint>> ELSE <<>>)>>
          [] r.cmd = "mountpoint" -> <<<<r.udi, device, r.mountpoint>>>>
          [] r.cmd = "umountpoint" -> <<<<r.udi, device>>>>
          [] r.cmd = "remove" -> <<>>

(* One line and no other.                                                  *)
Others_Dropped(line) == <<>>
Others(line) == <<line>>

(* echo >>, which makes the table if it has gone.                          *)
Echoed(written) ==
    IF dev_file = NoFile /\ written # <<>> THEN written ELSE dev_file \o written

ReadLine(p) ==
    /\ pc[p] = "loop" /\ rest[p] # <<>>
    /\ LET line == Head(rest[p])
           r == request[p]
           written == CASE Cut(line, 1) = Empty -> <<>>
                        [] Cut(line, 1) # Empty /\ FoundLine(line, r) -> Replaced(line, r)
                        [] OTHER -> Others(line)
       IN  /\ dev_file' = Echoed(written)
           /\ udi_found' = [udi_found EXCEPT ![p] = @ \/ FoundLine(line, r)]
    /\ rest' = [rest EXCEPT ![p] = Tail(@)]
    /\ UNCHANGED <<request, pc, shell, locks, tmp, registered, faults>>

LoopEnds(p) ==
    /\ pc[p] = "loop" /\ rest[p] = <<>>
    /\ LET r == request[p]
           new == r.cmd = "mount" /\ ~udi_found[p]
       IN  /\ dev_file' = IF new THEN Echoed(<<<<r.udi, r.device>>>>) ELSE dev_file
           /\ registered' = IF r.cmd = "mount" THEN registered \cup {r.udi} ELSE registered
    /\ Goto(p, "rmtmp")
    /\ UNCHANGED <<request, shell, locks, tmp, loop, faults>>

(* The copy is removed; the lock is kept until the mount command ends.     *)
RmTmp(p) ==
    /\ pc[p] = "rmtmp"
    /\ tmp' = NoFile
    /\ Goto(p, IF request[p].cmd = "mount" THEN "mount" ELSE "unlock")
    /\ UNCHANGED <<request, shell, locks, dev_file, registered, loop, faults>>

(* The subshell is the mount command from here on; whether it fails makes  *)
(* no difference.                                                          *)
MountEnds(p) ==
    /\ pc[p] = "mount"
    /\ SubshellEnds(p)
    /\ UNCHANGED <<request, shell, lockname, safe, files, loop, faults>>

-----------------------------------------------------------------------------
(* Faults.                                                                 *)

Fault == faults < MaxFaults /\ faults' = faults + 1

(* The redirection fails, as on the lock file of another user: there is no *)
(* subshell, and what follows it is done.                                  *)
OpenFails(p) ==
    /\ pc[p] = "none"
    /\ Fault
    /\ Goto(p, "rmlock")
    /\ UNCHANGED <<request, shell, locks, files, loop>>

(* flock fails or is killed.  No one looks at its status, so the subshell  *)
(* goes on without the lock.                                               *)
FlockFails(p) ==
    /\ pc[p] = "flock"
    /\ Fault
    /\ opened' = [opened EXCEPT ![p] = NoInode]
    /\ safe' = FALSE
    /\ Goto(p, "start")
    /\ UNCHANGED <<request, shell, lockname, flocked, left, files, loop>>

KillSubshell(p) ==
    /\ pc[p] \in Working \cup {"flock"}
    /\ Fault
    /\ SubshellEnds(p)
    /\ UNCHANGED <<request, shell, lockname, safe, files, loop>>

(* The subshell goes on without the shell that waits for it.               *)
KillShell(p) ==
    /\ pc[p] \notin {"none", "over"} /\ shell[p]
    /\ Fault
    /\ shell' = [shell EXCEPT ![p] = FALSE]
    /\ IF pc[p] = "rmlock" THEN Goto(p, "over") ELSE UNCHANGED pc
    /\ UNCHANGED <<request, locks, files, loop>>

-----------------------------------------------------------------------------

Step(p) ==
    \/ Lock(p) \/ Start(p) \/ Clean(p)
    \/ Copy(p) \/ Truncate(p) \/ ReadLine(p) \/ LoopEnds(p) \/ RmTmp(p)
    \/ MountEnds(p) \/ Unlock(p) \/ RmLock(p)

Next ==
    \/ \E p \in Procs :
           OpenLock(p) \/ Step(p)
             \/ OpenFails(p) \/ FlockFails(p) \/ KillSubshell(p) \/ KillShell(p)
    \/ \E inode \in Procs : LeftEnds(inode)

(* A run that has started goes on, and its mount command ends; nothing is  *)
(* said of what the mount command leaves behind.                           *)
Fairness == \A p \in Procs : WF_vars(Step(p))

Spec == Init /\ [][Next]_vars /\ Fairness

-----------------------------------------------------------------------------
(* Properties.                                                             *)

(* One run at a time is past flock, mount commands included, whichever of  *)
(* the shells are killed and whatever the mount commands leave behind,     *)
(* unless flock has failed or the rm that comes after the lock was given   *)
(* back has let a run make a second lock file besides one in use.          *)
HvExclusive ==
    safe => \A p, q \in Procs : pc[p] \in Working /\ pc[q] \in Working => p = q

(* As long as the lock is one, a device that has a line keeps it until it  *)
(* is removed, or the table is, through every rewriting of the table in    *)
(* place: at any moment, also after a kill, its line is in the table or in *)
(* the copy.  Only the run after one that was killed may lose it, as it    *)
(* overwrites the copy.                                                    *)
LinesKept == safe => registered \subseteq UdisIn(dev_file) \cup UdisIn(tmp)

(* As long as the lock is one, no device has two lines, in whatever order  *)
(* runs come.                                                              *)
OneLineEach == safe /\ dev_file # NoFile => OneEach(dev_file)

(* In the end every run that has started is over, but for those that wait  *)
(* for ever for a lock that something the mount command of an earlier run  *)
(* has left behind never gives back.                                       *)
HvTerminates ==
    <>[](\A p \in Procs : \/ pc[p] \in {"none", "over"}
                          \/ pc[p] = "flock" /\ opened[p] \in left)

=============================================================================
