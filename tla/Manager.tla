------------------------------ MODULE Manager ------------------------------
(***************************************************************************)
(* The life of halevt processes: main of src/manager.c from the options to *)
(* the return, with the pid file they share and the signals they get.      *)
(* What a process does with HAL meanwhile is HalevtDaemon.                 *)
(*                                                                         *)
(* A step is one system call on the pid file, one call of signal, or a     *)
(* stretch of main without either.  Between any two steps another process  *)
(* goes on, a signal arrives or a process is killed.                       *)
(***************************************************************************)
EXTENDS Sequences, Naturals

CONSTANTS
    Procs,      \* the starts of halevt, each a process
    Options,    \* command lines
    Plans       \* which processes may be started with which command lines

(* An option record: root whether the effective user is root, p the        *)
(* argument of -p, foreground one of -f, -d, -i, good whether the users,   *)
(* the configuration and the place of the pid file are there.              *)
None == "(none)"
Dash == "-"
PIDFILE == "PIDFILE"

ASSUME OptionsAssumption ==
    \A o \in Options : /\ o.root \in BOOLEAN /\ o.foreground \in BOOLEAN
                       /\ o.good \in BOOLEAN /\ o.p \in STRING

ASSUME PlansAssumption == Plans \subseteq [Procs -> Options]

(* None also stands for no inode and for no process.                       *)
ASSUME ProcsAssumption == None \notin Procs

VARIABLES
    opts,      \* the command line of each process
    pc,        \* where each process is in main
    handled,   \* the signals it has a handler for
    running,   \* is_running of its main loop
    files,     \* the inode each pid file name stands for
    text,      \* what is in each inode: pids, one per line
    lock,      \* the process that has the lock of each inode
    fd,        \* the inode a process has open
    told,      \* whether a signal got to it in its main loop
    alone      \* no other process has had its pid file since it opened it

vars == <<opts, pc, handled, running, files, text, lock, fd, told, alone>>

Signals == {"SIGTERM", "SIGINT", "SIGHUP"}

(* The pid file a command line asks for.  A dash is only looked at if the  *)
(* user is root.                                                           *)
PidFile(o) ==
    LET pid_file == IF o.root /\ o.p = None THEN PIDFILE ELSE o.p
    IN  IF o.root /\ pid_file = Dash THEN None ELSE pid_file

Names == {PidFile(o) : o \in Options} \ {None}

(* An inode is known by the process that created it.                       *)
NoInode == None
NoOne == None

PidFileSteps == {"lock", "flush", "close"}
Daemonized == PidFileSteps \cup {"SIGTERM", "SIGINT", "SIGHUP",
                                 "run", "loop", "clear"}
Over == {"ended", "exited", "killed"}
Stages == {"none", "daemon", "open", "cleanup"} \cup Daemonized \cup Over

Init ==
    /\ opts \in Plans
    /\ pc = [p \in Procs |-> "none"]
    /\ handled = [p \in Procs |-> {}]
    /\ running = [p \in Procs |-> FALSE]
    /\ files = [n \in Names |-> NoInode]
    /\ text = [i \in Procs |-> <<>>]
    /\ lock = [i \in Procs |-> NoOne]
    /\ fd = [p \in Procs |-> NoInode]
    /\ told = [p \in Procs |-> FALSE]
    /\ alone = [p \in Procs |-> FALSE]

Goto(p, stage) == pc' = [pc EXCEPT ![p] = stage]

(* A lock the system does not drop, as a file made with O_EXCL is.         *)
Leave_Locked(p, how) ==
    /\ Goto(p, how)
    /\ fd' = [fd EXCEPT ![p] = NoInode]
    /\ UNCHANGED lock

(* The system closes the files of a process that is over, which drops its  *)
(* lock.  What is in the buffer of a killed process is lost.               *)
Leave(p, how) ==
    /\ Goto(p, how)
    /\ fd' = [fd EXCEPT ![p] = NoInode]
    /\ lock' = [i \in Procs |-> IF lock[i] = p THEN NoOne ELSE lock[i]]

-----------------------------------------------------------------------------
(* main, up to the pid file.                                               *)

(* The user and the group are changed, the configuration is read and HAL   *)
(* is set up.                                                              *)
Start(p) ==
    /\ pc[p] = "none"
    /\ CASE ~opts[p].good -> Leave(p, "exited")
         [] opts[p].good /\ opts[p].foreground ->
                Goto(p, "SIGTERM") /\ UNCHANGED <<fd, lock>>
         [] OTHER -> Goto(p, "daemon") /\ UNCHANGED <<fd, lock>>
    /\ UNCHANGED <<opts, handled, running, files, text, told, alone>>

(* daemon forks; the start has returned to the shell from here on.         *)
Daemonize(p) ==
    /\ pc[p] = "daemon"
    /\ \/ Goto(p, IF PidFile(opts[p]) = None THEN "SIGTERM" ELSE "open")
          /\ UNCHANGED <<fd, lock>>
       \/ Leave(p, "exited")
    /\ UNCHANGED <<opts, handled, running, files, text, told, alone>>

(* Whether q is a daemon with its pid file in use.                         *)
HasPidFile(q) ==
    /\ pc[q] \in Daemonized
    /\ ~opts[q].foreground
    /\ PidFile(opts[q]) # None

SameFile(p, q) == p # q /\ PidFile(opts[p]) = PidFile(opts[q])

(* A file that is there is appended to.                                    *)
Truncated_Never(i, p) == text[i]
(* fopen with "w" leaves nothing in it, whoever has its lock.              *)
Truncated(i, p) == <<>>

OpenPidFile(p) ==
    /\ pc[p] = "open"
    /\ LET name == PidFile(opts[p])
           inode == IF files[name] = NoInode THEN p ELSE files[name]
       IN  /\ files' = [files EXCEPT ![name] = inode]
           /\ text' = [text EXCEPT ![inode] = Truncated(inode, p)]
           /\ fd' = [fd EXCEPT ![p] = inode]
    /\ alone' = [q \in Procs |->
                    IF q = p THEN \A r \in Procs : SameFile(p, r) => ~HasPidFile(r)
                    ELSE alone[q] /\ ~SameFile(p, q)]
    /\ Goto(p, "lock")
    /\ UNCHANGED <<opts, handled, running, lock, told>>

(* lockf with F_TLOCK does not wait.  Once it has the lock, the process    *)
(* prints its pid into the buffer of the stream.                           *)
LockPidFile(p) ==
    /\ pc[p] = "lock"
    /\ IF lock[fd[p]] = NoOne
       THEN /\ lock' = [lock EXCEPT ![fd[p]] = p]
            /\ Goto(p, "flush")
            /\ UNCHANGED fd
       ELSE Leave(p, "exited")
    /\ UNCHANGED <<opts, handled, running, files, text, told, alone>>

(* fclose writes it at the start of the file.  Something another process   *)
(* has written there since the file was truncated may be longer.           *)
FlushPid(p) ==
    /\ pc[p] = "flush"
    /\ \E rest \in {<<>>, text[fd[p]]} :
          text' = [text EXCEPT ![fd[p]] = <<p>> \o rest]
    /\ Goto(p, "close")
    /\ UNCHANGED <<opts, handled, running, files, lock, fd, told, alone>>

(* fclose closes the file, and that drops the lock.                        *)
ClosePidFile(p) ==
    /\ pc[p] = "close"
    /\ lock' = [lock EXCEPT ![fd[p]] = NoOne]
    /\ fd' = [fd EXCEPT ![p] = NoInode]
    /\ Goto(p, "SIGTERM")
    /\ UNCHANGED <<opts, handled, running, files, text, told, alone>>

-----------------------------------------------------------------------------
(* main, from OnInit to the end.                                           *)

(* OnInit runs, then signal is called three times; the stage is named for  *)
(* the signal that is next.                                                *)
SetHandler(p) ==
    /\ pc[p] \in Signals
    /\ handled' = [handled EXCEPT ![p] = @ \cup {pc[p]}]
    /\ Goto(p, CASE pc[p] = "SIGTERM" -> "SIGINT"
                 [] pc[p] = "SIGINT" -> "SIGHUP"
                 [] pc[p] = "SIGHUP" -> "run")
    /\ UNCHANGED <<opts, running, files, text, lock, fd, told, alone>>

(* g_main_loop_run forgets that it was asked to quit before.               *)
LoopRun(p) ==
    /\ pc[p] = "run"
    /\ running' = [running EXCEPT ![p] = TRUE]
    /\ Goto(p, "loop")
    /\ UNCHANGED <<opts, handled, files, text, lock, fd, told, alone>>

(* A foreground process has no pid file to clear.                          *)
LoopQuits(p) ==
    /\ pc[p] = "loop" /\ ~running[p]
    /\ Goto(p, IF opts[p].foreground THEN "cleanup" ELSE "clear")
    /\ UNCHANGED <<opts, handled, running, files, text, lock, fd, told, alone>>

(* The file is left where it is.                                           *)
Cleared_Never(p) == UNCHANGED files

(* halevt_clear_pidfile: the name is unlinked, whatever it stands for.     *)
Cleared(p) ==
    files' = [n \in Names |-> IF n = PidFile(opts[p]) THEN NoInode ELSE files[n]]

ClearPidFile(p) ==
    /\ pc[p] = "clear"
    /\ Cleared(p)
    /\ Goto(p, "cleanup")
    /\ UNCHANGED <<opts, handled, running, text, lock, fd, told, alone>>

Cleanup(p) ==
    /\ pc[p] = "cleanup"
    /\ Leave(p, "ended")
    /\ UNCHANGED <<opts, handled, running, files, text, told, alone>>

-----------------------------------------------------------------------------
(* Signals.                                                                *)

Alive(p) == pc[p] \notin Over \cup {"none"}

(* Only SIGTERM makes the main loop quit.                                  *)
Quits_OnTerm(sig) == sig = "SIGTERM"
(* halevt_signal_handler: every signal it is set for does.                 *)
Quits(sig) == TRUE

Signal(p) ==
    /\ Alive(p)
    /\ \E sig \in Signals :
          /\ sig \in handled[p]
          /\ running' = [running EXCEPT ![p] = @ /\ ~Quits(sig)]
          /\ told' = [told EXCEPT ![p] = @ \/ pc[p] = "loop"]
    /\ UNCHANGED <<opts, pc, handled, files, text, lock, fd, alone>>

(* A signal without a handler ends the process, SIGKILL always does.  One  *)
(* that comes after g_main_loop_unref may: its handler writes to a loop    *)
(* that is freed.                                                          *)
Killed(p) ==
    /\ Alive(p)
    /\ Leave(p, "killed")
    /\ UNCHANGED <<opts, handled, running, files, text, told, alone>>

-----------------------------------------------------------------------------

Main(p) ==
    \/ Daemonize(p)
    \/ OpenPidFile(p) \/ LockPidFile(p) \/ FlushPid(p) \/ ClosePidFile(p)
    \/ SetHandler(p) \/ LoopRun(p) \/ LoopQuits(p)
    \/ ClearPidFile(p) \/ Cleanup(p)

Next == \E p \in Procs : Start(p) \/ Main(p) \/ Signal(p) \/ Killed(p)

(* The system lets every process that is started go on.  Nobody has to     *)
(* start one, or send a signal.                                            *)
Fairness == \A p \in Procs : WF_vars(Main(p))

Spec == Init /\ [][Next]_vars /\ Fairness

-----------------------------------------------------------------------------
(* Properties.                                                             *)

(* Every variable has its type; a process that has a lock has the file     *)
(* open.                                                                   *)
ManagerTypeOK ==
    /\ opts \in [Procs -> Options]
    /\ pc \in [Procs -> Stages]
    /\ handled \in [Procs -> SUBSET Signals]
    /\ running \in [Procs -> BOOLEAN]
    /\ files \in [Names -> Procs \cup {NoInode}]
    /\ text \in [Procs -> Seq(Procs)]
    /\ lock \in [Procs -> Procs \cup {NoOne}]
    /\ fd \in [Procs -> Procs \cup {NoInode}]
    /\ told \in [Procs -> BOOLEAN]
    /\ alone \in [Procs -> BOOLEAN]
    /\ \A i \in Procs : lock[i] # NoOne => fd[lock[i]] = i

(* README: kill `cat halevt.pid` ends the daemon.  The file has the pid of *)
(* a daemon, and no other, from the moment it is written until it is       *)
(* removed, whatever became of earlier daemons and of their files, as long *)
(* as no other process had the file at the same time.                      *)
DaemonNamed ==
    \A p \in Procs :
        HasPidFile(p) /\ pc[p] \notin {"lock", "flush"} /\ alone[p] =>
            LET inode == files[PidFile(opts[p])]
            IN  inode # NoInode /\ text[inode] = <<p>>

(* No pid file names a process that has ended by itself, so that the pid   *)
(* may be another process by now: neither one that ran to its end nor one  *)
(* that was refused, in however many starts and stops overlap.             *)
NoneNamedAfterEnd ==
    \A n \in Names :
        files[n] # NoInode /\ text[files[n]] # <<>> =>
            pc[Head(text[files[n]])] \notin {"ended", "exited"}

(* A process that gets one of the three signals in its main loop ends.     *)
ToldEnds == \A p \in Procs : told[p] ~> pc[p] \in Over

=============================================================================
