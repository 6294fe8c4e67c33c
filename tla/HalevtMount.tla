---------------------------- MODULE HalevtMount ----------------------------
(***************************************************************************)
(* Runs of halevt-mount (halevt-mount/halevt-mount.c) that share a lock    *)
(* file and a table of handled devices.                                    *)
(*                                                                         *)
(* halevt starts commands without waiting for them, so several runs can be *)
(* under way.  A run opens the lock file and waits for the lock, brings    *)
(* the table it reads up to date with HAL, does what it was asked to do,   *)
(* writes the table to "uditab.tmp" and renames that to "uditab", unlinks  *)
(* the lock file, closes it and exits.  The file it wrote is never closed: *)
(* its text leaves the stdio buffer only when the run exits.               *)
(*                                                                         *)
(* lockname, tab and tmp say which file a name stands for, so that a file  *)
(* can outlive its name, as an unlinked or renamed file does.              *)
(*                                                                         *)
(* The code has weak places: a lock that cannot be taken is no reason to   *)
(* stop, the lock file can lose its name while a run waits for it, and so  *)
(* on.  mishaps has the name of each that has struck so far; the           *)
(* properties say what holds as long as none of those that matter has.     *)
(***************************************************************************)
EXTENDS Uditab

CONSTANTS
    Procs,       \* processes, each a run at a time
    Requests,    \* what a run can be asked to do
    Tables,      \* the tables an earlier session may have left
    Gone,        \* the udi is not that of a volume with a file system in HAL
    NoFile,      \* no file has the name
    MaxRuns,     \* bound on the number of runs
    MaxChanges,  \* bound on the number of devices plugged or unplugged
    MaxFaults    \* bound on the runs that are killed or get no lock

VARIABLES
    hal,       \* HAL: what it has of each udi, or Gone
    lockname,  \* the file the lock file's name stands for
    tab, tmp,  \* the files "uditab" and "uditab.tmp" stand for
    content,   \* the lines that are in each file
    pc,        \* where main() is
    req,       \* the request of the run
    fd,        \* the file a run waits for or has locked, as fd_lock says
    front,     \* the entries dealt with, see Uditab
    rest,      \* the entries still to be dealt with
    target,    \* the udi to mount
    out,       \* the file open for writing and what is in its buffer
    counts,    \* how much has happened, for the bounds
    promised,  \* udis runs have added that nobody removed or unplugged since
    steady,    \* udis nothing has changed for in HAL since the run read the table
    mishaps    \* what has gone wrong, see Mishaps

names == <<lockname, tab, tmp, content>>
lists == <<front, rest, target>>
ghosts == <<promised, steady, mishaps>>
vars == <<hal, lockname, tab, tmp, content, pc, req, fd, front, rest, target,
          out, counts, promised, steady, mishaps>>

HalVolume == [device : Devices, mountpoint : Mountpoints \cup {None}]

(* "unlocked": a run goes on although open() or lockf() has failed.        *)
(* "split": a run makes a lock file while another waits for, or works      *)
(*    with, one that has lost its name.                                    *)
(* "unwritten": the table is read while its text is in the buffer of the   *)
(*    run that has renamed it.                                             *)
(* "killed": that run is killed and never writes the text.                 *)
(* "dropped": taking an entry out of the list takes another along.         *)
Mishaps == {"unlocked", "split", "unwritten", "killed", "dropped"}

LockFiles == 1 .. (Cardinality(Procs) + 1)
Files == 1 .. (Cardinality(Procs) + 3)

Request == [cmd : {"list", "sync", "clean", "umount", "mount", "add"},
            all : BOOLEAN,
            udi : Udis \cup {None},
            device : Devices \cup {None},
            mountpoint : Mountpoints \cup {None},
            arg : Udis \cup Devices \cup Mountpoints \cup {None}]

ASSUME MountAssumption ==
    /\ IsFiniteSet(Procs)
    /\ Requests \subseteq Request
    /\ \A lines \in Tables : lines \in Seq(Line)
    /\ Gone \notin HalVolume
    /\ NoFile \notin LockFiles \cup Files

NoRequest == [cmd |-> "list", all |-> FALSE, udi |-> None, device |-> None,
              mountpoint |-> None, arg |-> None]
NoOutput == [file |-> NoFile, lines |-> <<>>]

Cmd(p) == req[p].cmd
Known == {u \in Udis : hal[u] # Gone}

Init ==
    /\ hal \in [Udis -> {[device |-> d, mountpoint |-> None] : d \in Devices} \cup {Gone}]
    /\ \A u, v \in Known : hal[u].device = hal[v].device => u = v
    /\ lockname = NoFile /\ tmp = NoFile
    /\ \/ tab = NoFile /\ content = [f \in Files |-> <<>>]
       \/ \E lines \in Tables :
             tab = 1 /\ content = [f \in Files |-> IF f = 1 THEN lines ELSE <<>>]
    /\ pc = [p \in Procs |-> "idle"]
    /\ req = [p \in Procs |-> NoRequest]
    /\ fd = [p \in Procs |-> NoFile]
    /\ front = [p \in Procs |-> <<>>]
    /\ rest = [p \in Procs |-> <<>>]
    /\ target = [p \in Procs |-> None]
    /\ out = [p \in Procs |-> NoOutput]
    /\ counts = [runs |-> 0, changes |-> 0, faults |-> 0]
    /\ promised = {}
    /\ steady = [p \in Procs |-> {}]
    /\ mishaps = {}

-----------------------------------------------------------------------------
(* HAL: a device comes with a device file of its own, or goes.             *)

ChangedInHal(u) == steady' = [p \in Procs |-> steady[p] \ {u}]

Plug(u, d) ==
    /\ counts.changes < MaxChanges
    /\ hal[u] = Gone
    /\ \A v \in Known : hal[v].device # d
    /\ hal' = [hal EXCEPT ![u] = [device |-> d, mountpoint |-> None]]
    /\ counts' = [counts EXCEPT !.changes = @ + 1]
    /\ ChangedInHal(u)
    /\ UNCHANGED <<names, pc, req, fd, lists, out, promised, mishaps>>

Unplug(u) ==
    /\ counts.changes < MaxChanges
    /\ hal[u] # Gone
    /\ hal' = [hal EXCEPT ![u] = Gone]
    /\ counts' = [counts EXCEPT !.changes = @ + 1]
    /\ promised' = promised \ {u}
    /\ ChangedInHal(u)
    /\ UNCHANGED <<names, pc, req, fd, lists, out, mishaps>>

-----------------------------------------------------------------------------
(* The lock.                                                               *)

Goto(p, label) == pc' = [pc EXCEPT ![p] = label]

Strikes(mishap) == mishaps' = mishaps \cup {mishap}
StrikesIf(condition, mishap) ==
    mishaps' = IF condition THEN mishaps \cup {mishap} ELSE mishaps

Fault ==
    /\ counts.faults < MaxFaults
    /\ counts' = [counts EXCEPT !.faults = @ + 1]

Start(p) ==
    /\ pc[p] = "idle"
    /\ counts.runs < MaxRuns
    /\ \E r \in Requests : req' = [req EXCEPT ![p] = r]
    /\ counts' = [counts EXCEPT !.runs = @ + 1]
    /\ Goto(p, "open")
    /\ UNCHANGED <<hal, names, fd, lists, out, ghosts>>

(* The run waits for the lock of a file, or works with it.                 *)
HasOpen(p) == fd[p] # NoFile /\ pc[p] # "close"

(* open(lockfile, O_RDWR | O_CREAT): a new file if there is none.          *)
OpenLock(p) ==
    /\ pc[p] = "open"
    /\ LET file == IF lockname # NoFile THEN lockname
                   ELSE CHOOSE f \in LockFiles : \A q \in Procs : fd[q] # f
       IN  /\ lockname' = file
           /\ fd' = [fd EXCEPT ![p] = file]
    /\ StrikesIf(lockname = NoFile /\ \E q \in Procs : HasOpen(q), "split")
    /\ Goto(p, "lock")
    /\ UNCHANGED <<hal, tab, tmp, content, req, lists, out, counts, promised, steady>>

(* It cannot be opened, as when another user has made it.  That is only    *)
(* printed.                                                                *)
OpenFails(p) ==
    /\ pc[p] = "open"
    /\ Fault
    /\ Strikes("unlocked")
    /\ Goto(p, "lock")
    /\ UNCHANGED <<hal, names, req, fd, lists, out, promised, steady>>

(* The lock is on the file, and held until the file is closed.             *)
HoldsLock(p) == fd[p] # NoFile /\ pc[p] # "lock"

(* With F_TLOCK, the answer that another run has the lock comes at once.   *)
Lock_Tries(p) ==
    /\ pc[p] = "lock" /\ fd[p] # NoFile
    /\ Goto(p, "tmp")
    /\ UNCHANGED <<hal, names, req, fd, lists, out, counts, ghosts>>

Lock(p) ==
    /\ pc[p] = "lock" /\ fd[p] # NoFile
    /\ \A q \in Procs : HoldsLock(q) => fd[q] # fd[p]
    /\ Goto(p, "tmp")
    /\ UNCHANGED <<hal, names, req, fd, lists, out, counts, ghosts>>

(* lockf() fails: always when open() has, else for want of locks or by a   *)
(* signal.  That too is only printed, and the run goes on; what it has     *)
(* open makes no difference any more.                                      *)
LockUnopened(p) ==
    /\ pc[p] = "lock" /\ fd[p] = NoFile
    /\ Goto(p, "tmp")
    /\ UNCHANGED <<hal, names, req, fd, lists, out, counts, ghosts>>

LockFails(p) ==
    /\ pc[p] = "lock" /\ fd[p] # NoFile
    /\ Fault
    /\ Strikes("unlocked")
    /\ fd' = [fd EXCEPT ![p] = NoFile]
    /\ Goto(p, "tmp")
    /\ UNCHANGED <<hal, names, req, lists, out, promised, steady>>

(* What an unfinished run may have left is removed.  To list the handled   *)
(* devices nothing more has to be done but print them.                     *)
RemoveTmp(p) ==
    /\ pc[p] = "tmp"
    /\ tmp' = NoFile
    /\ Goto(p, IF req[p].all /\ Cmd(p) = "clean" THEN "cleanall"
               ELSE IF ~req[p].all /\ Cmd(p) = "list" THEN "end" ELSE "parse")
    /\ UNCHANGED <<hal, lockname, tab, content, req, fd, lists, out, counts, ghosts>>

CleanAll(p) ==
    /\ pc[p] = "cleanall"
    /\ tab' = NoFile
    /\ promised' = {}
    /\ Goto(p, "end")
    /\ UNCHANGED <<hal, lockname, tmp, content, req, fd, lists, out, counts, steady, mishaps>>

(* The end of main(): the name of the lock file goes first, then the lock. *)
UnlinkLock(p) ==
    /\ pc[p] = "end"
    /\ lockname' = NoFile
    /\ Goto(p, "close")
    /\ UNCHANGED <<hal, tab, tmp, content, req, fd, lists, out, counts, ghosts>>

(* The lock file is left open.                                             *)
CloseLock_Never(p) ==
    /\ pc[p] = "close"
    /\ Goto(p, "exit")
    /\ UNCHANGED <<hal, names, req, fd, lists, out, counts, ghosts>>

CloseLock(p) ==
    /\ pc[p] = "close"
    /\ fd' = [fd EXCEPT ![p] = NoFile]
    /\ Goto(p, "exit")
    /\ UNCHANGED <<hal, names, req, lists, out, counts, ghosts>>

-----------------------------------------------------------------------------
(* How a run ends.                                                         *)

Forget(p) ==
    /\ Goto(p, "idle")
    /\ req' = [req EXCEPT ![p] = NoRequest]
    /\ front' = [front EXCEPT ![p] = <<>>]
    /\ rest' = [rest EXCEPT ![p] = <<>>]
    /\ target' = [target EXCEPT ![p] = None]
    /\ out' = [out EXCEPT ![p] = NoOutput]
    /\ steady' = [steady EXCEPT ![p] = {}]

(* exit() writes what is in the stdio buffer.                              *)
Flush(p) ==
    content' = IF out[p].file = NoFile THEN content
               ELSE [content EXCEPT ![out[p].file] = out[p].lines]

(* return 0 from main().                                                   *)
Exit(p) ==
    /\ pc[p] = "exit"
    /\ Flush(p)
    /\ Forget(p)
    /\ UNCHANGED <<hal, lockname, tab, tmp, fd, counts, promised, mishaps>>

(* exit(1): the buffer is written before the system drops the lock.  The   *)
(* name of the lock file stays.                                            *)
Fail(p) ==
    /\ Flush(p)
    /\ fd' = [fd EXCEPT ![p] = NoFile]
    /\ Forget(p)
    /\ UNCHANGED <<hal, lockname, tab, tmp, counts, promised, mishaps>>

(* The table is a file whose text is in the buffer of the run.             *)
Unwritten(p) == tab # NoFile /\ out[p].file = tab

(* A signal ends the run where it is; the system drops the lock.           *)
Kill(p) ==
    /\ pc[p] # "idle"
    /\ Fault
    /\ fd' = [fd EXCEPT ![p] = NoFile]
    /\ StrikesIf(Unwritten(p), "killed")
    /\ Forget(p)
    /\ UNCHANGED <<hal, names, promised>>

-----------------------------------------------------------------------------
(* halevt_mount_sync_udi: read the table, ask HAL about each entry.        *)

Parse(p) ==
    /\ pc[p] = "parse"
    /\ rest' = [rest EXCEPT ![p] = IF tab = NoFile THEN <<>> ELSE ParseFile(content[tab])]
    /\ steady' = [steady EXCEPT ![p] = Udis]
    /\ StrikesIf(\E q \in Procs : Unwritten(q), "unwritten")
    /\ Goto(p, "check")
    /\ UNCHANGED <<hal, names, req, fd, front, target, out, counts, promised>>

(* HAL or the system bus cannot be reached.                                *)
NoHal(p) == pc[p] = "parse" /\ Fail(p)

Current(p) == Head(rest[p])

(* "continue", before current_udi moves on.                                *)
Drop_Again(p) ==
    /\ front' = [front EXCEPT ![p] = RemoveUdi(@)]
    /\ UNCHANGED <<rest, mishaps>>

Drop(p) ==
    /\ front' = [front EXCEPT ![p] = RemoveUdi(@)]
    /\ rest' = [rest EXCEPT ![p] = Tail(@)]
    /\ StrikesIf(RemoveUdi(front[p]) # front[p], "dropped")

Keep(p, e) ==
    /\ front' = [front EXCEPT ![p] = Append(@, e)]
    /\ rest' = [rest EXCEPT ![p] = Tail(@)]
    /\ UNCHANGED mishaps

(* An entry HAL does not know is kept as the file has it.                  *)
CheckUdi_Kept(p) ==
    /\ pc[p] = "check" /\ rest[p] # <<>>
    /\ IF Current(p).udi \notin Known
       THEN Keep(p, Current(p)) /\ UNCHANGED pc
       ELSE /\ rest' = [rest EXCEPT ![p][1].device = hal[Current(p).udi].device]
            /\ Goto(p, "ask")
            /\ UNCHANGED <<front, mishaps>>
    /\ UNCHANGED <<hal, names, req, fd, target, out, counts, promised, steady>>

(* halevt_mount_check_udi asks up to eleven questions.  Here they are two: *)
(* whether HAL has the volume and its device file, and how it is mounted.  *)
CheckUdi(p) ==
    /\ pc[p] = "check" /\ rest[p] # <<>>
    /\ IF Current(p).udi \notin Known
       THEN Drop(p) /\ UNCHANGED pc
       ELSE /\ rest' = [rest EXCEPT ![p][1].device = hal[Current(p).udi].device]
            /\ Goto(p, "ask")
            /\ UNCHANGED <<front, mishaps>>
    /\ UNCHANGED <<hal, names, req, fd, target, out, counts, promised, steady>>

(* When the volume goes in between, what comes of it depends on which      *)
(* question came first after: the entry is dropped, it is taken as not     *)
(* mounted, or the missing answer is taken as "out of memory" (Vanished).  *)
ReadUdi(p) ==
    /\ pc[p] = "ask"
    /\ IF Current(p).udi \in Known
       THEN Keep(p, [Current(p) EXCEPT !.mountpoint = hal[Current(p).udi].mountpoint])
       ELSE Drop(p) \/ Keep(p, [Current(p) EXCEPT !.mountpoint = None])
    /\ Goto(p, "check")
    /\ UNCHANGED <<hal, names, req, fd, target, out, counts, promised, steady>>

Vanished(p) ==
    /\ pc[p] = "ask"
    /\ Current(p).udi \notin Known
    /\ Fail(p)

Checked(p) == pc[p] = "check" /\ rest[p] = <<>>

-----------------------------------------------------------------------------
(* What the run was asked to do.                                           *)

(* "list" with -a when HAL gives no device to be listed besides.           *)
NoDevices(p) == Checked(p) /\ Cmd(p) = "list" /\ Fail(p)

(* "sync", and "list" with -a, which prints.                               *)
Sync(p) ==
    /\ Checked(p) /\ Cmd(p) \in {"sync", "list"}
    /\ Goto(p, IF Cmd(p) = "sync" THEN "rewrite" ELSE "end")
    /\ UNCHANGED <<hal, names, req, fd, lists, out, counts, ghosts>>

(* "mount" and "add" of a device the table has.                            *)
FindHandled(p) ==
    LET found == FindUdi(front[p], req[p].udi, req[p].device, None, None)
    IN  /\ Checked(p) /\ Cmd(p) \in {"mount", "add"}
        /\ found # <<>>
        /\ target' = [target EXCEPT ![p] = found[1].udi]
        /\ Goto(p, "write")
        /\ UNCHANGED <<hal, names, req, fd, front, rest, out, counts, ghosts>>

(* halevt_mount_add_udi: a volume with the device file, else the udi.      *)
Addable(r) ==
    LET byDevice == {u \in Known : r.device # None /\ hal[u].device = r.device}
    IN  IF byDevice # {} THEN byDevice ELSE Known \cap {r.udi}

NotHandled(p) ==
    /\ Checked(p) /\ Cmd(p) \in {"mount", "add"}
    /\ FindUdi(front[p], req[p].udi, req[p].device, None, None) = <<>>

(* new_udi->next is not set to the list there was.                         *)
AddUdi_Alone(p) ==
    /\ NotHandled(p)
    /\ \E u \in Addable(req[p]) :
          /\ target' = [target EXCEPT ![p] = u]
          /\ front' = [front EXCEPT ![p] =
                <<[udi |-> u, device |-> hal[u].device,
                   mountpoint |-> hal[u].mountpoint]>>]
    /\ Goto(p, "write")
    /\ UNCHANGED <<hal, names, req, fd, rest, out, counts, ghosts>>

AddUdi(p) ==
    /\ NotHandled(p)
    /\ \E u \in Addable(req[p]) :
          /\ target' = [target EXCEPT ![p] = u]
          /\ front' = [front EXCEPT ![p] =
                <<[udi |-> u, device |-> hal[u].device,
                   mountpoint |-> hal[u].mountpoint]>> \o @]
    /\ Goto(p, "write")
    /\ UNCHANGED <<hal, names, req, fd, rest, out, counts, ghosts>>

NothingToAdd(p) == NotHandled(p) /\ Addable(req[p]) = {} /\ Fail(p)

Found(p) == FindUdi(front[p], req[p].udi, req[p].device, req[p].mountpoint, req[p].arg)

NothingFound(p) ==
    /\ Checked(p) /\ Cmd(p) \in {"umount", "clean"}
    /\ ~req[p].all /\ Found(p) = <<>>
    /\ Fail(p)

Clean(p) ==
    /\ Checked(p) /\ Cmd(p) = "clean"
    /\ Found(p) # <<>>
    /\ front' = [front EXCEPT ![p] = RemoveAll(@, UdisOf(Found(p)))]
    /\ StrikesIf(UdisOf(front'[p]) # UdisOf(front[p]) \ UdisOf(Found(p)), "dropped")
    /\ promised' = promised \ UdisOf(Found(p))
    /\ Goto(p, "rewrite")
    /\ UNCHANGED <<hal, names, req, fd, rest, target, out, counts, steady>>

(* From here on rest has what is to be unmounted and front what was.       *)
Umount(p) ==
    /\ Checked(p) /\ Cmd(p) = "umount"
    /\ req[p].all \/ Found(p) # <<>>
    /\ rest' = [rest EXCEPT ![p] = IF req[p].all THEN front[p] ELSE Found(p)]
    /\ front' = [front EXCEPT ![p] = <<>>]
    /\ Goto(p, "umount")
    /\ UNCHANGED <<hal, names, req, fd, target, out, counts, ghosts>>

(* halevt_mount_umount: HAL unmounts the volume, or says that it cannot.   *)
UmountNext(p) ==
    /\ pc[p] = "umount" /\ rest[p] # <<>>
    /\ \/ /\ Current(p).udi \in Known
          /\ hal[Current(p).udi].mountpoint # None
          /\ hal' = [hal EXCEPT ![Current(p).udi].mountpoint = None]
          /\ ChangedInHal(Current(p).udi)
          /\ Keep(p, Current(p))
       \/ /\ rest' = [rest EXCEPT ![p] = Tail(@)]
          /\ UNCHANGED <<hal, front, steady, mishaps>>
    /\ UNCHANGED <<names, pc, req, fd, target, out, counts, promised>>

UmountDone(p) ==
    /\ pc[p] = "umount" /\ rest[p] = <<>>
    /\ IF req[p].all \/ front[p] # <<>>
       THEN /\ Goto(p, "end")
            /\ UNCHANGED <<hal, names, req, fd, lists, out, counts, ghosts>>
       ELSE Fail(p)

-----------------------------------------------------------------------------
(* Writing the table.                                                      *)

(* halevt_mount_rewrite_device_file when there is nothing to write.        *)
RemoveTable(p) ==
    /\ pc[p] = "rewrite" /\ front[p] = <<>>
    /\ tab' = NoFile
    /\ Goto(p, "end")
    /\ UNCHANGED <<hal, lockname, tmp, content, req, fd, lists, out, counts, ghosts>>

AfterWrite(p) == IF Cmd(p) = "mount" THEN "mount" ELSE "rename"

(* The table itself is opened for writing.                                 *)
WriteTmp_InPlace(p) ==
    /\ pc[p] = "write" \/ (pc[p] = "rewrite" /\ front[p] # <<>>)
    /\ LET file == IF tab # NoFile THEN tab
                   ELSE CHOOSE f \in Files : \A q \in Procs : out[q].file # f
       IN  /\ tab' = file
           /\ content' = [content EXCEPT ![file] = <<>>]
           /\ out' = [out EXCEPT ![p] = [file |-> file, lines |-> PrintUdis(front[p])]]
    /\ Goto(p, AfterWrite(p))
    /\ UNCHANGED <<hal, lockname, tmp, req, fd, lists, counts, ghosts>>

(* fopen(tmp_device_file, "w") and halevt_mount_print_udis.                *)
WriteTmp(p) ==
    /\ pc[p] = "write" \/ (pc[p] = "rewrite" /\ front[p] # <<>>)
    /\ LET file == IF tmp # NoFile THEN tmp
                   ELSE CHOOSE f \in Files :
                           f # tab /\ \A q \in Procs : out[q].file # f
       IN  /\ tmp' = file
           /\ content' = [content EXCEPT ![file] = <<>>]
           /\ out' = [out EXCEPT ![p] = [file |-> file, lines |-> PrintUdis(front[p])]]
    /\ Goto(p, AfterWrite(p))
    /\ UNCHANGED <<hal, lockname, tab, req, fd, lists, counts, ghosts>>

(* HAL mounts the volume on a mount point of its choice, or cannot.        *)
Mount(p) ==
    /\ pc[p] = "mount"
    /\ target[p] \in Known
    /\ hal[target[p]].mountpoint = None
    /\ \E m \in Mountpoints :
          /\ \A u \in Known : hal[u].mountpoint # m
          /\ hal' = [hal EXCEPT ![target[p]].mountpoint = m]
    /\ ChangedInHal(target[p])
    /\ Goto(p, "rename")
    /\ UNCHANGED <<names, req, fd, lists, out, counts, promised, mishaps>>

MountFails(p) == pc[p] = "mount" /\ Fail(p)

Rename(p) ==
    /\ pc[p] = "rename" /\ tmp # NoFile
    /\ tab' = tmp
    /\ tmp' = NoFile
    /\ promised' = IF Cmd(p) \in {"add", "mount"} /\ target[p] \in Known
                   THEN promised \cup {target[p]} ELSE promised
    /\ Goto(p, "end")
    /\ UNCHANGED <<hal, lockname, content, req, fd, lists, out, counts, steady, mishaps>>

(* Another run has removed the file: only "add" takes it as an error.      *)
RenameFails(p) ==
    /\ pc[p] = "rename" /\ tmp = NoFile
    /\ IF Cmd(p) = "add" THEN Fail(p)
       ELSE /\ Goto(p, "end")
            /\ UNCHANGED <<hal, names, req, fd, lists, out, counts, ghosts>>

-----------------------------------------------------------------------------
Run(p) ==
    \/ OpenLock(p) \/ Lock(p) \/ LockUnopened(p) \/ RemoveTmp(p) \/ CleanAll(p)
    \/ Parse(p) \/ NoHal(p) \/ CheckUdi(p) \/ ReadUdi(p) \/ Vanished(p)
    \/ Sync(p) \/ NoDevices(p) \/ FindHandled(p) \/ AddUdi(p) \/ NothingToAdd(p)
    \/ NothingFound(p) \/ Clean(p) \/ Umount(p) \/ UmountNext(p) \/ UmountDone(p)
    \/ RemoveTable(p) \/ WriteTmp(p) \/ Mount(p) \/ MountFails(p)
    \/ Rename(p) \/ RenameFails(p)
    \/ UnlinkLock(p) \/ CloseLock(p) \/ Exit(p)

Next ==
    \/ \E u \in Udis : Unplug(u) \/ \E d \in Devices : Plug(u, d)
    \/ \E p \in Procs : Start(p) \/ OpenFails(p) \/ LockFails(p) \/ Kill(p) \/ Run(p)

(* A run that has been started is scheduled until it ends, and HAL answers.*)
Spec == Init /\ [][Next]_vars /\ \A p \in Procs : WF_vars(Run(p))

-----------------------------------------------------------------------------
Table == IF tab = NoFile THEN <<>> ELSE content[tab]

(* The type invariant: what each variable holds, and at which places in    *)
(* main() the lock file is open, an entry is being asked about, there is a *)
(* udi to mount, and the table is in the stdio buffer.                     *)
MountTypeOK ==
    /\ hal \in [Udis -> HalVolume \cup {Gone}]
    /\ lockname \in LockFiles \cup {NoFile}
    /\ tab \in Files \cup {NoFile} /\ tmp \in Files \cup {NoFile}
    /\ tab # NoFile => tab # tmp
    /\ \A f \in Files : content[f] \in Seq(Line)
    /\ promised \subseteq Known /\ mishaps \subseteq Mishaps
    /\ \A p \in Procs :
          /\ req[p] \in Requests \cup {NoRequest}
          /\ fd[p] \in LockFiles \cup {NoFile}
          /\ pc[p] \in {"idle", "open", "exit"} => fd[p] = NoFile
          /\ fd[p] = NoFile => pc[p] \in {"idle", "open", "exit"} \/ "unlocked" \in mishaps
          /\ front[p] \in Seq(TableEntry) /\ rest[p] \in Seq(TableEntry)
          /\ pc[p] = "ask" => rest[p] # <<>>
          /\ pc[p] \in {"mount", "rename"} => out[p].file # NoFile
          /\ pc[p] = "mount" => target[p] \in Udis
          /\ out[p].file \in Files \cup {NoFile} /\ out[p].lines \in Seq(Line)
          /\ out[p].file # NoFile => pc[p] \in {"mount", "rename", "end", "close", "exit"}

(* What a run is about to write of a udi is what HAL has, unless HAL has   *)
(* changed since the run read the table: halevt_mount_sync_udi drops a     *)
(* volume that has gone, and halevt_mount_check_udi replaces a device file *)
(* or mount point that is out of date, for each command that writes.       *)
WrittenIsCurrent ==
    \A p \in Procs : pc[p] \in {"rewrite", "write"} =>
        \A i \in DOMAIN front[p] :
            LET u == front[p][i].udi
            IN  u \in steady[p] =>
                    /\ u \in Known
                    /\ front[p][i].device = hal[u].device
                    /\ front[p][i].mountpoint = hal[u].mountpoint

(* Where the table is read and written: between lockf() and the unlink of  *)
(* the lock file, with the lock or without.                                *)
Working(p) == pc[p] \notin {"idle", "open", "lock", "close", "exit"}
MutualExclusion == \A p, q \in Procs : Working(p) /\ Working(q) => p = q

(* Of any number of runs one at a time works, although each unlinks the    *)
(* lock file while others have it open.  Only this ends it: open() or      *)
(* lockf() fails and the run goes on, or a third run makes a lock file     *)
(* anew before a waiting one has done with the file that was unlinked.     *)
LockHolds == mishaps \cap {"unlocked", "split"} = {}
RunsExclude == LockHolds => MutualExclusion

(* When no run is under way, the devices that runs of "add" or "mount"     *)
(* have put in the table, and that were neither cleaned nor unplugged      *)
(* since, are in it.                                                       *)
AddsKept ==
    (\A p \in Procs : pc[p] = "idle") => promised \subseteq UdisIn(Table)

(* Whatever runs there are, and whatever changes in HAL, a device that was *)
(* added is lost from the table through the five mishaps only.             *)
LossesExplained == mishaps = {} => AddsKept

(* A run that fails by itself, wherever it does, changes nothing in the    *)
(* table as long as the lock holds: "mount" asks HAL before it renames the *)
(* file it has written, and exit(1) writes the buffer to that file.        *)
FailureLeavesTable ==
    [][\A p \in Procs :
          /\ LockHolds /\ counts' = counts
          /\ pc[p] \notin {"idle", "exit"} /\ pc'[p] = "idle"
          => Table' = Table]_vars

(* A run that waits for the lock gets it, and every run ends.              *)
Terminates == \A p \in Procs : pc[p] # "idle" ~> pc[p] = "idle"

=============================================================================
