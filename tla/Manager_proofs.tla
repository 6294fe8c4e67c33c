--------------------------- MODULE Manager_proofs ---------------------------
(***************************************************************************)
(* Proofs about the life of halevt processes: types, and what is in the    *)
(* pid file.                                                               *)
(*                                                                         *)
(* Most steps of a process leave every pid file alone; they are proved to  *)
(* be Quiet once, and every part of the invariant is kept by them.  Only   *)
(* OpenPidFile, FlushPid and ClearPidFile need an argument of their own.   *)
(***************************************************************************)
EXTENDS Manager, SequenceTheorems, TLAPS

FileOf(p) == PidFile(opts[p])

-----------------------------------------------------------------------------
(* The inductive invariant.                                                *)

(* Only a daemon has to do with the pid file, and it asked for one.        *)
StagesAsAsked ==
    \A p \in Procs :
        /\ pc[p] \in {"daemon", "open", "clear"} \cup PidFileSteps =>
               ~opts[p].foreground
        /\ pc[p] \in {"open"} \cup PidFileSteps => FileOf(p) # None

(* A process has an inode open exactly in its pid file steps, and every    *)
(* inode keeps the name under which it was made.                           *)
InodesKeepName ==
    /\ \A p \in Procs : pc[p] \in PidFileSteps <=> fd[p] # NoInode
    /\ \A p \in Procs : fd[p] # NoInode => FileOf(fd[p]) = FileOf(p)
    /\ \A n \in Names : files[n] # NoInode => FileOf(files[n]) = n

(* The stages of a daemon that has written its pid and not yet removed the *)
(* file; a killed one never does.                                          *)
Writers == {"close", "SIGTERM", "SIGINT", "SIGHUP", "run", "loop", "clear",
            "killed"}

(* The pid an inode begins with is that of a daemon which wrote it under   *)
(* the inode's name, and still is before its end if the inode has a name.  *)
HeadsWrote ==
    \A i \in Procs : text[i] # <<>> =>
        LET q == Head(text[i])
        IN  /\ FileOf(q) = FileOf(i)
            /\ ~opts[q].foreground
            /\ pc[q] \in Writers \cup {"cleanup", "ended"}
            /\ \A n \in Names : files[n] = i => pc[q] \in Writers

(* What a process that has its pid file alone knows about it.              *)
LoneFile(p) ==
    /\ \A q \in Procs : SameFile(p, q) => ~HasPidFile(q)
    /\ files[FileOf(p)] # NoInode
    /\ pc[p] \in PidFileSteps => fd[p] = files[FileOf(p)]
    /\ text[files[FileOf(p)]] =
           IF pc[p] \in {"lock", "flush"} THEN <<>> ELSE <<p>>

LoneKnown == \A p \in Procs : HasPidFile(p) /\ alone[p] => LoneFile(p)

IInv ==
    /\ ManagerTypeOK /\ StagesAsAsked /\ InodesKeepName
    /\ HeadsWrote /\ LoneKnown

-----------------------------------------------------------------------------

LEMMA FileNamed ==
    ASSUME ManagerTypeOK, NEW p \in Procs
    PROVE  FileOf(p) \in Names \cup {None}
  BY DEF ManagerTypeOK, FileOf, Names

(* Nothing changes but for p, which neither begins to use a pid file nor   *)
(* gets from before the writing of its pid to after it, or to its end      *)
(* while its file is there.                                                *)
Quiet(p) ==
    /\ UNCHANGED <<opts, files, text, alone>>
    /\ pc' \in [Procs -> Stages] /\ fd' \in [Procs -> Procs \cup {NoInode}]
    /\ \A q \in Procs \ {p} : pc'[q] = pc[q] /\ fd'[q] = fd[q]
    /\ pc'[p] \in {"daemon", "open", "clear"} \cup PidFileSteps => ~opts[p].foreground
    /\ pc'[p] \in {"open"} \cup PidFileSteps => FileOf(p) # None
    /\ pc'[p] \in PidFileSteps <=> fd'[p] # NoInode
    /\ fd'[p] # NoInode => fd'[p] = fd[p]
    /\ HasPidFile(p)' =>
           /\ HasPidFile(p)
           /\ pc'[p] \in {"lock", "flush"} <=> pc[p] \in {"lock", "flush"}
    /\ pc[p] \in Writers /\ ~opts[p].foreground => pc'[p] \in Writers
    /\ pc[p] \in {"cleanup", "ended"} => pc'[p] \in {"cleanup", "ended", "killed"}

QuietStep(p) ==
    \/ Start(p) \/ Daemonize(p) \/ LockPidFile(p) \/ ClosePidFile(p)
    \/ SetHandler(p) \/ LoopRun(p) \/ LoopQuits(p) \/ Cleanup(p)
    \/ Signal(p) \/ Killed(p)

LEMMA QuietSteps ==
    ASSUME IInv, NEW p \in Procs, QuietStep(p)
    PROVE  Quiet(p) /\ ManagerTypeOK'
<1>. USE DEF Goto, FileOf, NoInode, NoOne, PidFileSteps, Signals, Over,
             Daemonized, Stages
<1>. ManagerTypeOK /\ StagesAsAsked /\ InodesKeepName
  BY DEF IInv
<1>. USE DEF ManagerTypeOK, StagesAsAsked, InodesKeepName, Quiet, HasPidFile, Writers
<1>1. CASE Start(p)
  <2>1. pc[p] = "none" /\ UNCHANGED <<opts, handled, running, files, text, told, alone>>
    BY <1>1 DEF Start
  <2>2. \/ Leave(p, "exited")
        \/ ~opts[p].foreground /\ Goto(p, "daemon") /\ UNCHANGED <<fd, lock>>
        \/ opts[p].foreground /\ Goto(p, "SIGTERM") /\ UNCHANGED <<fd, lock>>
    BY <1>1 DEF Start
  <2>3. CASE Leave(p, "exited")
    BY <2>1, <2>3 DEF Leave
  <2>4. CASE ~opts[p].foreground /\ Goto(p, "daemon") /\ UNCHANGED <<fd, lock>>
    BY <2>1, <2>4
  <2>5. CASE opts[p].foreground /\ Goto(p, "SIGTERM") /\ UNCHANGED <<fd, lock>>
    BY <2>1, <2>5
  <2>. QED  BY <2>2, <2>3, <2>4, <2>5
<1>2. CASE Daemonize(p)
  <2>1. pc[p] = "daemon" /\ UNCHANGED <<opts, handled, running, files, text, told, alone>>
    BY <1>2 DEF Daemonize
  <2>2. \/ Leave(p, "exited")
        \/ FileOf(p) = None /\ Goto(p, "SIGTERM") /\ UNCHANGED <<fd, lock>>
        \/ FileOf(p) # None /\ Goto(p, "open") /\ UNCHANGED <<fd, lock>>
    BY <1>2 DEF Daemonize
  <2>3. CASE Leave(p, "exited")
    BY <2>1, <2>3 DEF Leave
  <2>4. CASE FileOf(p) = None /\ Goto(p, "SIGTERM") /\ UNCHANGED <<fd, lock>>
    BY <2>1, <2>4
  <2>5. CASE FileOf(p) # None /\ Goto(p, "open") /\ UNCHANGED <<fd, lock>>
    BY <2>1, <2>5
  <2>. QED  BY <2>2, <2>3, <2>4, <2>5
<1>3. CASE LockPidFile(p)
  <2>1. pc[p] = "lock" /\ UNCHANGED <<opts, handled, running, files, text, told, alone>>
    BY <1>3 DEF LockPidFile
  <2>2. fd[p] \in Procs
    BY <2>1
  <2>3. CASE lock[fd[p]] = NoOne
    <3>1. lock' = [lock EXCEPT ![fd[p]] = p] /\ Goto(p, "flush") /\ UNCHANGED fd
      BY <1>3, <2>3 DEF LockPidFile
    <3>. QED  BY <2>1, <2>2, <3>1
  <2>4. CASE lock[fd[p]] # NoOne
    <3>1. Leave(p, "exited")
      BY <1>3, <2>4 DEF LockPidFile
    <3>. QED  BY <2>1, <3>1 DEF Leave
  <2>. QED  BY <2>3, <2>4
<1>4. CASE ClosePidFile(p)
  BY <1>4 DEF ClosePidFile
<1>5. CASE SetHandler(p)
  BY <1>5 DEF SetHandler
<1>6. CASE LoopRun(p)
  BY <1>6 DEF LoopRun
<1>7. CASE LoopQuits(p)
  BY <1>7 DEF LoopQuits
<1>8. CASE Cleanup(p)
  BY <1>8 DEF Cleanup, Leave
<1>9. CASE Signal(p)
  BY <1>9 DEF Signal, Quits
<1>10. CASE Killed(p)
  BY <1>10 DEF Killed, Leave, Alive
<1>. QED  BY <1>1, <1>2, <1>3, <1>4, <1>5, <1>6, <1>7, <1>8, <1>9, <1>10
          DEF QuietStep

LEMMA QuietKeeps ==
    ASSUME IInv, NEW p \in Procs, QuietStep(p)
    PROVE  IInv'
<1>. USE DEF FileOf, PidFileSteps, NoInode
<1>1. Quiet(p) /\ ManagerTypeOK'
  BY QuietSteps
<1>2. StagesAsAsked'
  BY <1>1 DEF IInv, StagesAsAsked, Quiet
<1>3. InodesKeepName'
  BY <1>1 DEF IInv, ManagerTypeOK, InodesKeepName, Quiet
<1>4. HeadsWrote'
  <2>. SUFFICES ASSUME NEW i \in Procs, text'[i] # <<>>
                PROVE  /\ PidFile(opts'[Head(text'[i])]) = PidFile(opts'[i])
                       /\ ~opts'[Head(text'[i])].foreground
                       /\ pc'[Head(text'[i])] \in Writers \cup {"cleanup", "ended"}
                       /\ \A n \in Names : files'[n] = i => pc'[Head(text'[i])] \in Writers
    BY DEF HeadsWrote
  <2>. DEFINE q == Head(text[i])
  <2>1. text[i] # <<>> /\ UNCHANGED <<opts, files, text>>
    BY <1>1 DEF Quiet
  <2>2. q \in Procs
    BY <2>1, HeadTailProperties DEF IInv, ManagerTypeOK
  <2>3. /\ PidFile(opts[q]) = PidFile(opts[i])
        /\ ~opts[q].foreground
        /\ pc[q] \in Writers \cup {"cleanup", "ended"}
        /\ \A n \in Names : files[n] = i => pc[q] \in Writers
    BY <2>1 DEF IInv, HeadsWrote
  <2>4. /\ pc[q] \in Writers => pc'[q] \in Writers
        /\ pc'[q] \in Writers \cup {"cleanup", "ended"}
    BY <1>1, <2>2, <2>3 DEF Quiet, Writers
  <2>. QED  BY <2>1, <2>3, <2>4
<1>5. LoneKnown'
  <2>. SUFFICES ASSUME NEW q \in Procs, HasPidFile(q)', alone'[q]
                PROVE  LoneFile(q)'
    BY DEF LoneKnown
  <2>1. \A r \in Procs : HasPidFile(r)' => HasPidFile(r)
    BY <1>1 DEF Quiet, HasPidFile
  <2>2. LoneFile(q)
    BY <1>1, <2>1 DEF IInv, LoneKnown, Quiet
  <2>3. \A r \in Procs : SameFile(q, r)' => SameFile(q, r)
    BY <1>1 DEF Quiet, SameFile
  <2>4. pc'[q] \in PidFileSteps => fd'[q] = fd[q] /\ pc[q] \in PidFileSteps
    BY <1>1 DEF IInv, InodesKeepName, Quiet
  <2>5. pc'[q] \in {"lock", "flush"} <=> pc[q] \in {"lock", "flush"}
    BY <1>1 DEF Quiet
  <2>. QED  BY <1>1, <2>1, <2>2, <2>3, <2>4, <2>5 DEF LoneFile, Quiet
<1>. QED  BY <1>1, <1>2, <1>3, <1>4, <1>5 DEF IInv

-----------------------------------------------------------------------------
(* The steps that do something to a pid file.                              *)

LEMMA OpenKeeps ==
    ASSUME IInv, NEW p \in Procs, OpenPidFile(p)
    PROVE  IInv'
<1>. USE DEF FileOf, PidFileSteps, NoInode, NoOne
<1>. DEFINE name == FileOf(p)
            inode == IF files[name] = NoInode THEN p ELSE files[name]
<1>. ManagerTypeOK /\ StagesAsAsked /\ InodesKeepName /\ HeadsWrote /\ LoneKnown
  BY DEF IInv
<1>1. /\ name \in Names /\ name # None
      /\ inode \in Procs /\ inode # NoInode
      /\ FileOf(inode) = name
  <2>1. pc[p] = "open"
    BY DEF OpenPidFile
  <2>2. name \in Names /\ name # None
    BY <2>1, FileNamed DEF StagesAsAsked
  <2>3. inode \in Procs
    BY <2>2 DEF ManagerTypeOK
  <2>. QED  BY <2>2, <2>3, ProcsAssumption DEF InodesKeepName
<1>2. /\ files' = [files EXCEPT ![name] = inode]
      /\ text' = [text EXCEPT ![inode] = <<>>]
      /\ fd' = [fd EXCEPT ![p] = inode]
      /\ pc' = [pc EXCEPT ![p] = "lock"]
      /\ alone' = [q \in Procs |->
                     IF q = p THEN \A r \in Procs : SameFile(p, r) => ~HasPidFile(r)
                     ELSE alone[q] /\ ~SameFile(p, q)]
      /\ UNCHANGED <<opts, handled, running, lock, told>>
      /\ pc[p] = "open" /\ ~opts[p].foreground
  BY DEF OpenPidFile, Truncated, Goto, StagesAsAsked
<1>3. ManagerTypeOK'
  <2>1. fd[p] = NoInode
    BY <1>2 DEF InodesKeepName
  <2>2. \A i \in Procs : lock[i] # NoOne => fd'[lock'[i]] = i
    BY <1>2, <2>1, ProcsAssumption DEF ManagerTypeOK
  <2>3. <<>> \in Seq(Procs)
    OBVIOUS
  <2>4. text' \in [Procs -> Seq(Procs)]
    BY <1>1, <1>2, <2>3 DEF ManagerTypeOK
  <2>5. pc' \in [Procs -> Stages]
    BY <1>2 DEF ManagerTypeOK, Stages, Daemonized
  <2>6. alone' \in [Procs -> BOOLEAN]
    BY <1>2 DEF ManagerTypeOK
  <2>7. /\ files' \in [Names -> Procs \cup {NoInode}]
        /\ fd' \in [Procs -> Procs \cup {NoInode}]
    BY <1>1, <1>2 DEF ManagerTypeOK
  <2>. QED  BY <1>2, <2>2, <2>4, <2>5, <2>6, <2>7 DEF ManagerTypeOK
<1>4. StagesAsAsked'
  BY <1>1, <1>2 DEF ManagerTypeOK, StagesAsAsked
<1>5. InodesKeepName'
  <2>1. \A q \in Procs : pc'[q] \in PidFileSteps <=> fd'[q] # NoInode
    BY <1>1, <1>2 DEF ManagerTypeOK, InodesKeepName
  <2>2. \A q \in Procs : fd'[q] # NoInode => FileOf(fd'[q]) = FileOf(q)
    BY <1>1, <1>2 DEF ManagerTypeOK, InodesKeepName
  <2>3. \A n \in Names : files'[n] # NoInode => FileOf(files'[n]) = n
    BY <1>1, <1>2 DEF ManagerTypeOK, InodesKeepName
  <2>. QED  BY <1>2, <2>1, <2>2, <2>3 DEF InodesKeepName
<1>6. HeadsWrote'
  <2>. SUFFICES ASSUME NEW i \in Procs, text'[i] # <<>>
                PROVE  /\ PidFile(opts'[Head(text'[i])]) = PidFile(opts'[i])
                       /\ ~opts'[Head(text'[i])].foreground
                       /\ pc'[Head(text'[i])] \in Writers \cup {"cleanup", "ended"}
                       /\ \A n \in Names : files'[n] = i => pc'[Head(text'[i])] \in Writers
    BY DEF HeadsWrote
  <2>1. i # inode /\ text'[i] = text[i]
    BY <1>1, <1>2 DEF ManagerTypeOK
  <2>2. /\ PidFile(opts[Head(text[i])]) = PidFile(opts[i])
        /\ ~opts[Head(text[i])].foreground
        /\ pc[Head(text[i])] \in Writers \cup {"cleanup", "ended"}
        /\ \A n \in Names : files[n] = i => pc[Head(text[i])] \in Writers
    BY <2>1 DEF HeadsWrote
  <2>3. Head(text[i]) # p
    BY <1>2, <2>2 DEF Writers
  <2>4. \A n \in Names : files'[n] = i => files[n] = i
    BY <1>2, <2>1 DEF ManagerTypeOK
  <2>5. pc'[Head(text[i])] = pc[Head(text[i])]
    BY <1>2, <2>3 DEF ManagerTypeOK
  <2>. QED  BY <1>2, <2>1, <2>2, <2>4, <2>5
<1>7. LoneKnown'
  <2>. SUFFICES ASSUME NEW q \in Procs, HasPidFile(q)', alone'[q]
                PROVE  LoneFile(q)'
    BY DEF LoneKnown
  <2>1. \A r \in Procs \ {p} : HasPidFile(r)' <=> HasPidFile(r)
    BY <1>2 DEF HasPidFile
  <2>2. \A r \in Procs : SameFile(q, r)' <=> SameFile(q, r)
    BY <1>2 DEF SameFile
  <2>3. CASE q = p
    <3>1. \A r \in Procs : SameFile(q, r) => ~HasPidFile(r) /\ r # p
      BY <1>2, <2>3 DEF SameFile
    <3>2. /\ files'[FileOf(q)] = inode /\ fd'[q] = inode
          /\ text'[inode] = <<>> /\ pc'[q] = "lock"
      BY <1>1, <1>2, <2>3 DEF ManagerTypeOK
    <3>. QED  BY <1>1, <1>2, <2>1, <2>2, <3>1, <3>2 DEF LoneFile
  <2>4. CASE q # p
    <3>1. alone[q] /\ ~SameFile(p, q) /\ HasPidFile(q)
      BY <1>2, <2>1, <2>4
    <3>2. LoneFile(q)
      BY <3>1 DEF LoneKnown
    <3>3. FileOf(q) \in Names /\ FileOf(q) # name
      BY <2>4, <3>1, FileNamed DEF HasPidFile, SameFile
    <3>4. files[FileOf(q)] \in Procs /\ files[FileOf(q)] # inode
      BY <1>1, <3>2, <3>3 DEF LoneFile, InodesKeepName, ManagerTypeOK
    <3>5. /\ files'[FileOf(q)] = files[FileOf(q)]
          /\ text'[files[FileOf(q)]] = text[files[FileOf(q)]]
          /\ fd'[q] = fd[q] /\ pc'[q] = pc[q] /\ opts' = opts
      BY <1>1, <1>2, <2>4, <3>3, <3>4 DEF ManagerTypeOK
    <3>6. \A r \in Procs : SameFile(q, r)' => ~HasPidFile(r)'
      BY <2>1, <2>2, <3>1, <3>2 DEF LoneFile, SameFile
    <3>. QED  BY <3>2, <3>5, <3>6 DEF LoneFile
  <2>. QED  BY <2>3, <2>4
<1>. QED  BY <1>3, <1>4, <1>5, <1>6, <1>7 DEF IInv

(* What is flushed begins with the pid; the file had nothing else in it if *)
(* it is alone.                                                            *)
LEMMA FlushKeeps ==
    ASSUME IInv, NEW p \in Procs, FlushPid(p)
    PROVE  IInv'
<1>. USE DEF FileOf, PidFileSteps, NoInode, NoOne
<1>. ManagerTypeOK /\ StagesAsAsked /\ InodesKeepName /\ HeadsWrote /\ LoneKnown
  BY DEF IInv
<1>1. PICK rest \in {<<>>, text[fd[p]]} :
          text' = [text EXCEPT ![fd[p]] = <<p>> \o rest]
  BY DEF FlushPid
<1>2. /\ pc' = [pc EXCEPT ![p] = "close"]
      /\ UNCHANGED <<opts, handled, running, files, lock, fd, told, alone>>
      /\ pc[p] = "flush" /\ ~opts[p].foreground /\ FileOf(p) # None
  BY DEF FlushPid, Goto, StagesAsAsked
<1>3. fd[p] \in Procs /\ fd[p] # NoInode /\ FileOf(fd[p]) = FileOf(p)
  BY <1>2 DEF ManagerTypeOK, InodesKeepName
<1>4. rest \in Seq(Procs) /\ <<p>> \in Seq(Procs)
  <2>1. text[fd[p]] \in Seq(Procs)
    BY <1>3 DEF ManagerTypeOK
  <2>2. <<>> \in Seq(Procs) /\ <<p>> \in Seq(Procs)
    OBVIOUS
  <2>. QED  BY <1>1, <2>1, <2>2
<1>5. <<p>> \o rest \in Seq(Procs) /\ Head(<<p>> \o rest) = p
  <2>. DEFINE new == <<p>> \o rest
  <2>1. /\ new \in Seq(Procs)
        /\ Len(new) = 1 + Len(rest)
        /\ \A j \in 1 .. 1 + Len(rest) : new[j] = IF j <= 1 THEN <<p>>[j] ELSE rest[j - 1]
    BY <1>4, ConcatProperties
  <2>2. Len(rest) \in Nat
    BY <1>4
  <2>3. Len(new) > 0 /\ new[1] = p
    BY <2>1, <2>2
  <2>4. Head(new) = new[1]
    BY DEF Head
  <2>. HIDE DEF new
  <2>5. new \in Seq(Procs) /\ Head(new) = p
    BY <2>1, <2>3, <2>4
  <2>. QED  BY <2>5 DEF new
<1>6. ManagerTypeOK'
  <2>1. text' \in [Procs -> Seq(Procs)]
    BY <1>1, <1>3, <1>5 DEF ManagerTypeOK
  <2>2. pc' \in [Procs -> Stages]
    BY <1>2 DEF ManagerTypeOK, Stages, Daemonized
  <2>. QED  BY <1>2, <2>1, <2>2 DEF ManagerTypeOK
<1>7. StagesAsAsked'
  BY <1>2 DEF ManagerTypeOK, StagesAsAsked
<1>8. InodesKeepName'
  BY <1>2 DEF ManagerTypeOK, InodesKeepName
<1>9. HeadsWrote'
  <2>. SUFFICES ASSUME NEW i \in Procs, text'[i] # <<>>
                PROVE  /\ PidFile(opts'[Head(text'[i])]) = PidFile(opts'[i])
                       /\ ~opts'[Head(text'[i])].foreground
                       /\ pc'[Head(text'[i])] \in Writers \cup {"cleanup", "ended"}
                       /\ \A n \in Names : files'[n] = i => pc'[Head(text'[i])] \in Writers
    BY DEF HeadsWrote
  <2>1. CASE i = fd[p]
    <3>1. Head(text'[i]) = p /\ pc'[p] \in Writers
      BY <1>1, <1>2, <1>5, <2>1 DEF ManagerTypeOK, Writers
    <3>. QED  BY <1>2, <1>3, <2>1, <3>1
  <2>2. CASE i # fd[p]
    <3>1. text'[i] = text[i]
      BY <1>1, <1>3, <2>2 DEF ManagerTypeOK
    <3>2. /\ PidFile(opts[Head(text[i])]) = PidFile(opts[i])
          /\ ~opts[Head(text[i])].foreground
          /\ pc[Head(text[i])] \in Writers \cup {"cleanup", "ended"}
          /\ \A n \in Names : files[n] = i => pc[Head(text[i])] \in Writers
      BY <3>1 DEF HeadsWrote
    <3>3. pc'[Head(text[i])] = pc[Head(text[i])]
      BY <1>2, <3>2 DEF ManagerTypeOK, Writers
    <3>. QED  BY <1>2, <3>1, <3>2, <3>3
  <2>. QED  BY <2>1, <2>2
<1>10. LoneKnown'
  <2>. SUFFICES ASSUME NEW q \in Procs, HasPidFile(q)', alone'[q]
                PROVE  LoneFile(q)'
    BY DEF LoneKnown
  <2>1. \A r \in Procs : HasPidFile(r)' <=> HasPidFile(r)
    BY <1>2 DEF ManagerTypeOK, HasPidFile, Daemonized
  <2>2. \A r \in Procs : SameFile(q, r)' <=> SameFile(q, r)
    BY <1>2 DEF SameFile
  <2>3. LoneFile(q)
    BY <1>2, <2>1 DEF LoneKnown
  <2>4. FileOf(q) \in Names /\ files[FileOf(q)] \in Procs
    BY <2>1, <2>3, FileNamed DEF HasPidFile, LoneFile, ManagerTypeOK
  <2>5. CASE q = p
    <3>1. fd[p] = files[FileOf(q)] /\ text[fd[p]] = <<>>
      BY <1>2, <2>3, <2>5 DEF LoneFile
    <3>2. <<p>> \o <<>> = <<p>>
      OBVIOUS
    <3>3. text'[files[FileOf(q)]] = <<p>>
      BY <1>1, <1>3, <3>1, <3>2 DEF ManagerTypeOK
    <3>4. pc'[q] = "close"
      BY <1>2, <2>5 DEF ManagerTypeOK
    <3>. QED  BY <1>2, <2>1, <2>2, <2>3, <2>5, <3>1, <3>3, <3>4 DEF LoneFile
  <2>6. CASE q # p
    <3>1. HasPidFile(p)
      BY <1>2 DEF HasPidFile, Daemonized
    <3>2. FileOf(q) # FileOf(p)
      BY <2>3, <2>6, <3>1 DEF LoneFile, SameFile
    <3>3. fd[p] # files[FileOf(q)]
      BY <1>3, <2>3, <2>4, <3>2 DEF LoneFile, InodesKeepName
    <3>4. text'[files[FileOf(q)]] = text[files[FileOf(q)]] /\ pc'[q] = pc[q]
      BY <1>1, <1>2, <2>4, <2>6, <3>3 DEF ManagerTypeOK
    <3>. QED  BY <1>2, <2>1, <2>2, <2>3, <3>4 DEF LoneFile
  <2>. QED  BY <2>5, <2>6
<1>. QED  BY <1>6, <1>7, <1>8, <1>9, <1>10 DEF IInv

(* The name is gone with the daemon whose pid it led to.                   *)
LEMMA ClearKeeps ==
    ASSUME IInv, NEW p \in Procs, ClearPidFile(p)
    PROVE  IInv'
<1>. USE DEF FileOf, PidFileSteps, NoInode, NoOne
<1>. ManagerTypeOK /\ StagesAsAsked /\ InodesKeepName /\ HeadsWrote /\ LoneKnown
  BY DEF IInv
<1>1. /\ files' = [n \in Names |-> IF n = FileOf(p) THEN NoInode ELSE files[n]]
      /\ pc' = [pc EXCEPT ![p] = "cleanup"]
      /\ UNCHANGED <<opts, handled, running, text, lock, fd, told, alone>>
      /\ pc[p] = "clear" /\ ~opts[p].foreground
  BY DEF ClearPidFile, Cleared, Goto, StagesAsAsked
<1>2. ManagerTypeOK'
  BY <1>1 DEF ManagerTypeOK, Stages
<1>3. StagesAsAsked'
  BY <1>1 DEF ManagerTypeOK, StagesAsAsked
<1>4. InodesKeepName'
  BY <1>1 DEF ManagerTypeOK, InodesKeepName
<1>5. HeadsWrote'
  <2>. SUFFICES ASSUME NEW i \in Procs, text[i] # <<>>
                PROVE  /\ PidFile(opts[Head(text[i])]) = PidFile(opts[i])
                       /\ ~opts[Head(text[i])].foreground
                       /\ pc'[Head(text[i])] \in Writers \cup {"cleanup", "ended"}
                       /\ \A n \in Names : files'[n] = i => pc'[Head(text[i])] \in Writers
    BY <1>1 DEF HeadsWrote
  <2>. DEFINE q == Head(text[i])
  <2>1. /\ PidFile(opts[q]) = PidFile(opts[i])
        /\ ~opts[q].foreground
        /\ pc[q] \in Writers \cup {"cleanup", "ended"}
        /\ \A n \in Names : files[n] = i => pc[q] \in Writers
    BY DEF HeadsWrote
  <2>2. CASE q = p
    <3>1. \A n \in Names : files'[n] # i
      BY <1>1, <2>1, <2>2, ProcsAssumption DEF ManagerTypeOK, InodesKeepName
    <3>2. pc'[q] = "cleanup"
      BY <1>1, <2>2 DEF ManagerTypeOK
    <3>. QED  BY <2>1, <3>1, <3>2
  <2>3. CASE q # p
    <3>1. pc'[q] = pc[q]
      BY <1>1, <2>3 DEF ManagerTypeOK
    <3>2. \A n \in Names : files'[n] = i => files[n] = i
      BY <1>1, ProcsAssumption
    <3>. QED  BY <2>1, <3>1, <3>2
  <2>. QED  BY <2>2, <2>3
<1>6. LoneKnown'
  <2>. SUFFICES ASSUME NEW q \in Procs, HasPidFile(q)', alone'[q]
                PROVE  LoneFile(q)'
    BY DEF LoneKnown
  <2>1. q # p
    BY <1>1 DEF ManagerTypeOK, HasPidFile, Daemonized
  <2>2. pc'[q] = pc[q] /\ HasPidFile(q)
    BY <1>1, <2>1 DEF ManagerTypeOK, HasPidFile
  <2>3. LoneFile(q)
    BY <1>1, <2>2 DEF LoneKnown
  <2>4. FileOf(q) \in Names /\ FileOf(q) # None
    BY <2>2, FileNamed DEF HasPidFile
  <2>5. FileOf(q) # FileOf(p)
    BY <1>1, <2>1, <2>3, <2>4 DEF LoneFile, SameFile, HasPidFile, Daemonized
  <2>6. files'[FileOf(q)] = files[FileOf(q)]
    BY <1>1, <2>4, <2>5
  <2>7. \A r \in Procs : HasPidFile(r)' => HasPidFile(r)
    BY <1>1 DEF ManagerTypeOK, HasPidFile, Daemonized
  <2>8. \A r \in Procs : SameFile(q, r)' <=> SameFile(q, r)
    BY <1>1 DEF SameFile
  <2>. QED  BY <1>1, <2>2, <2>3, <2>6, <2>7, <2>8 DEF LoneFile
<1>. QED  BY <1>2, <1>3, <1>4, <1>5, <1>6 DEF IInv

-----------------------------------------------------------------------------

LEMMA InitInv == Init => IInv
<1>. SUFFICES ASSUME Init PROVE IInv
  OBVIOUS
<1>. USE DEF Init, PidFileSteps, NoInode, NoOne
<1>1. ManagerTypeOK
  BY PlansAssumption DEF ManagerTypeOK, Stages
<1>2. StagesAsAsked /\ InodesKeepName /\ HeadsWrote
  BY DEF StagesAsAsked, InodesKeepName, HeadsWrote
<1>3. LoneKnown
  BY DEF LoneKnown
<1>. QED  BY <1>1, <1>2, <1>3 DEF IInv

LEMMA NextInv == IInv /\ [Next]_vars => IInv'
<1>. SUFFICES ASSUME IInv, [Next]_vars PROVE IInv'
  OBVIOUS
<1>1. ASSUME NEW p \in Procs, QuietStep(p) PROVE IInv'
  BY <1>1, QuietKeeps
<1>2. ASSUME NEW p \in Procs, OpenPidFile(p) PROVE IInv'
  BY <1>2, OpenKeeps
<1>3. ASSUME NEW p \in Procs, FlushPid(p) PROVE IInv'
  BY <1>3, FlushKeeps
<1>4. ASSUME NEW p \in Procs, ClearPidFile(p) PROVE IInv'
  BY <1>4, ClearKeeps
<1>5. CASE UNCHANGED vars
  BY <1>5 DEF vars, IInv, ManagerTypeOK, StagesAsAsked, InodesKeepName, HeadsWrote,
              LoneKnown, LoneFile, HasPidFile, SameFile, FileOf
<1>. QED  BY <1>1, <1>2, <1>3, <1>4, <1>5 DEF Next, Main, QuietStep

LEMMA Invariance == Spec => []IInv
<1>. QED  BY InitInv, NextInv, PTL DEF Spec

(* Every variable has its type, and a process that has a lock has the file *)
(* open: no lock is left by a process that has ended or was killed.        *)
THEOREM ManagerTypes == Spec => []ManagerTypeOK
<1>1. IInv => ManagerTypeOK
  BY DEF IInv
<1>. QED  BY <1>1, Invariance, PTL

(* With any number of starts: from the moment it is written to the moment  *)
(* it is removed, the pid file has the pid of the daemon that was alone    *)
(* with it, and no other.                                                  *)
THEOREM DaemonIsNamed == Spec => []DaemonNamed
<1>1. ASSUME IInv PROVE DaemonNamed
  <2>. SUFFICES ASSUME NEW p \in Procs, HasPidFile(p), pc[p] \notin {"lock", "flush"},
                       alone[p]
                PROVE  /\ files[PidFile(opts[p])] # NoInode
                       /\ text[files[PidFile(opts[p])]] = <<p>>
    BY DEF DaemonNamed
  <2>1. LoneFile(p)
    BY <1>1 DEF IInv, LoneKnown
  <2>. QED  BY <2>1 DEF LoneFile, FileOf
<1>. QED  BY <1>1, Invariance, PTL

(* With any number of starts, of any pid files: no pid file begins with    *)
(* the pid of a process that has ended by itself.                          *)
THEOREM NamedIsNoneEnded == Spec => []NoneNamedAfterEnd
<1>1. ASSUME IInv PROVE NoneNamedAfterEnd
  <2>. SUFFICES ASSUME NEW n \in Names, files[n] # NoInode, text[files[n]] # <<>>
                PROVE  pc[Head(text[files[n]])] \notin {"ended", "exited"}
    BY DEF NoneNamedAfterEnd
  <2>1. files[n] \in Procs
    BY <1>1 DEF IInv, ManagerTypeOK
  <2>2. pc[Head(text[files[n]])] \in Writers
    BY <1>1, <2>1 DEF IInv, HeadsWrote
  <2>. QED  BY <2>2 DEF Writers
<1>. QED  BY <1>1, Invariance, PTL

=============================================================================
