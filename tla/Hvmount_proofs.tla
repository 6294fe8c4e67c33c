-------------------------- MODULE Hvmount_proofs ---------------------------
(***************************************************************************)
(* What holds of any number of runs of hvmount (src/scripts/hvmount.in),   *)
(* whatever they are asked to do and whenever their shells are killed, as  *)
(* long as the lock is one.                                                *)
(***************************************************************************)
EXTENDS Hvmount, SequenceTheorems, TLAPS

-----------------------------------------------------------------------------
(* The inductive invariant.                                                *)

Labels == Working \cup {"none", "flock", "rmlock", "over"}

Types ==
    /\ request \in [Procs -> Requests]
    /\ pc \in [Procs -> Labels]
    /\ shell \in [Procs -> BOOLEAN]
    /\ lockname \in Procs \cup {NoInode}
    /\ opened \in [Procs -> Procs \cup {NoInode}]
    /\ dev_file \in Seq(Lines) \cup {NoFile}
    /\ tmp \in Seq(Lines) \cup {NoFile}
    /\ rest \in [Procs -> Seq(Lines)]
    /\ udi_found \in [Procs -> BOOLEAN]

(* The runs that wait for the lock or have it have the same lock file      *)
(* open, and if one has the name, it is that one.                          *)
Inside(p) == pc[p] \in Working \cup {"flock"}

LockFile ==
    /\ \A p \in Procs : Inside(p) =>
          /\ opened[p] # NoInode
          /\ lockname # NoInode => opened[p] = lockname
    /\ \A p, q \in Procs : Inside(p) /\ Inside(q) => opened[p] = opened[q]

(* One run works at most; it has the lock of the inode it has open, and    *)
(* nothing that a mount command has left behind has it besides.            *)
Alone == \A p, q \in Procs : pc[p] \in Working /\ pc[q] \in Working => p = q

Holders ==
    /\ Alone
    /\ left \subseteq flocked
    /\ \A p \in Procs : pc[p] \in Working => opened[p] \in flocked \ left

(* What a run that rewrites the table may rely on: its loop has written a  *)
(* line for each registered device but those still to read.                *)
Rewrites(p) ==
    /\ dev_file # NoFile
    /\ registered \subseteq UdisIn(tmp)
    /\ registered \subseteq UdisIn(dev_file) \cup UdisIn(rest[p])
    /\ request[p].cmd = "remove" => request[p].udi \notin registered

(* What it has read is not still to read, and it knows whether the device  *)
(* it is about has a line.                                                 *)
Reads(p) ==
    /\ OneEach(rest[p])
    /\ \A i \in DOMAIN dev_file, j \in DOMAIN rest[p] : dev_file[i][1] # rest[p][j][1]
    /\ udi_found[p] /\ request[p].cmd = "mount" => request[p].udi \in UdisIn(dev_file)
    /\ ~udi_found[p] => \A i \in DOMAIN dev_file : dev_file[i][1] # request[p].udi

Place(p) ==
    /\ pc[p] \in {"copy", "truncate", "loop", "rmtmp"} =>
          request[p].cmd \in Rewriting /\ Complete(request[p])
    /\ pc[p] = "clean" => registered = {}
    /\ pc[p] = "truncate" =>
          tmp # NoFile /\ registered \subseteq UdisIn(tmp) /\ OneEach(tmp)
    /\ pc[p] = "loop" => Rewrites(p) /\ Reads(p)
    /\ pc[p] = "rmtmp" => registered \subseteq UdisIn(dev_file)

Kept == registered \subseteq UdisIn(dev_file) \cup UdisIn(tmp)
Once == dev_file # NoFile => OneEach(dev_file)

Table == Kept /\ Once /\ \A p \in Procs : Place(p)

(* Of what runs do when the lock is two locks, nothing is claimed.         *)
IInv == safe => Types /\ LockFile /\ Holders /\ Table

-----------------------------------------------------------------------------
(* The lock.                                                               *)

(* What a step does to the locks and to the place of its run, as long as   *)
(* the lock is one.                                                        *)
Locking(p) ==
    /\ pc' = [pc EXCEPT ![p] = pc'[p]] /\ pc'[p] \in Labels
    /\ opened' = [opened EXCEPT ![p] = opened'[p]]
    /\ \/ /\ pc[p] = "none" /\ pc'[p] = "flock"
          /\ lockname' = IF lockname = NoInode THEN p ELSE lockname
          /\ lockname = NoInode => \A q \in Procs : opened[q] = NoInode
          /\ opened'[p] = lockname' /\ UNCHANGED <<flocked, left>>
       \/ /\ pc[p] = "flock" /\ pc'[p] = "start"
          /\ opened[p] \notin flocked /\ flocked' = flocked \cup {opened[p]}
          /\ UNCHANGED <<lockname, opened, left>>
       \/ /\ pc[p] \in Working /\ pc'[p] \in Working
          /\ UNCHANGED <<lockname, opened, flocked, left>>
       \/ /\ Inside(p) /\ pc'[p] \in {"rmlock", "over"} /\ lockname' = lockname
          /\ \/ pc[p] = "flock" /\ UNCHANGED <<flocked, left>>
             \/ pc[p] \in Working /\ flocked' = flocked \ {opened[p]} /\ left' = left
             \/ /\ pc[p] \in Working /\ flocked' = flocked
                /\ left' = left \cup {opened[p]}
       \/ /\ pc[p] \in {"none", "rmlock"} /\ pc'[p] \in {"rmlock", "over"}
          /\ lockname' \in {lockname, NoInode} /\ UNCHANGED <<opened, flocked, left>>
       \/ UNCHANGED <<pc, lockname, opened, flocked, left>>

Moves(p) ==
    \/ OpenLock(p) \/ Step(p)
    \/ OpenFails(p) \/ FlockFails(p) \/ KillSubshell(p) \/ KillShell(p)

LEMMA LockingSteps ==
    ASSUME Types, NEW p \in Procs, Moves(p), safe'
    PROVE  safe /\ Locking(p)
<1> USE DEF Types, Goto, Labels, Working
<1>1. CASE OpenLock(p)
  BY <1>1 DEF OpenLock, Locking
<1>2. CASE Lock(p)
  BY <1>2 DEF Lock, Flock, Locking
<1>3. CASE Unlock(p) \/ MountEnds(p) \/ KillSubshell(p)
  <2>1. /\ safe' = safe /\ lockname' = lockname /\ Inside(p) /\ SubshellEnds(p)
    BY <1>3 DEF Unlock, MountEnds, KillSubshell, Inside
  <2>2. QED
    BY <2>1 DEF SubshellEnds, Locking, Inside
<1>4. CASE RmLock(p) \/ OpenFails(p)
  BY <1>4 DEF RmLock, OpenFails, Locking, locks
<1>5. CASE KillShell(p)
  BY <1>5 DEF KillShell, Locking, locks
<1>6. CASE Start(p) \/ Clean(p) \/ Copy(p) \/ Truncate(p)
  <2>1. pc[p] \in Working /\ UNCHANGED locks
    BY <1>6 DEF Start, Clean, Copy, Truncate
  <2>2. \E stage \in Working : pc' = [pc EXCEPT ![p] = stage]
    BY <1>6 DEF Start, Clean, Copy, Truncate
  <2>3. QED
    BY <2>1, <2>2 DEF Locking, locks
<1>7. CASE ReadLine(p) \/ LoopEnds(p) \/ RmTmp(p)
  <2>1. pc[p] \in Working /\ UNCHANGED locks
    BY <1>7 DEF ReadLine, LoopEnds, RmTmp
  <2>2. \E stage \in Working : pc' = [pc EXCEPT ![p] = stage]
    BY <1>7 DEF ReadLine, LoopEnds, RmTmp
  <2>3. QED
    BY <2>1, <2>2 DEF Locking, locks
<1>8. CASE FlockFails(p)
  BY <1>8 DEF FlockFails
<1>9. QED
  BY <1>1, <1>2, <1>3, <1>4, <1>5, <1>6, <1>7, <1>8 DEF Step, Moves

(* However many runs there are, no step lets a second one work: who waits  *)
(* waits for the inode that who works has locked.                          *)
LEMMA LockKeeps ==
    ASSUME Types, LockFile, Holders, NEW p \in Procs, Locking(p)
    PROVE  LockFile' /\ Holders'
<1>1. /\ pc \in [Procs -> Labels] /\ opened \in [Procs -> Procs \cup {NoInode}]
      /\ lockname \in Procs \cup {NoInode} /\ NoInode \notin Procs
      /\ pc' = [pc EXCEPT ![p] = pc'[p]]
      /\ opened' = [opened EXCEPT ![p] = opened'[p]]
  BY ProcsAssumption DEF Types, Locking
<1>2. \A q \in Procs \ {p} : pc'[q] = pc[q] /\ opened'[q] = opened[q]
  BY <1>1
<1> USE DEF Working
<1>3. CASE /\ pc[p] = "none" /\ pc'[p] = "flock"
           /\ lockname' = IF lockname = NoInode THEN p ELSE lockname
           /\ lockname = NoInode => \A q \in Procs : opened[q] = NoInode
           /\ opened'[p] = lockname' /\ UNCHANGED <<flocked, left>>
  <2>1. \A q \in Procs \ {p} : Inside(q) => opened[q] = lockname /\ lockname' = lockname
    BY <1>3 DEF LockFile
  <2>2. LockFile'
    BY <1>1, <1>2, <1>3, <2>1 DEF LockFile, Inside
  <2>3. Holders'
    BY <1>1, <1>2, <1>3 DEF Holders, Alone
  <2>4. QED
    BY <2>2, <2>3
<1>4. CASE /\ pc[p] = "flock" /\ pc'[p] = "start"
           /\ opened[p] \notin flocked /\ flocked' = flocked \cup {opened[p]}
           /\ UNCHANGED <<lockname, opened, left>>
  <2>1. LockFile'
    BY <1>1, <1>2, <1>4 DEF LockFile, Inside
  <2>2. \A q \in Procs : pc[q] \notin Working
    BY <1>4 DEF LockFile, Holders, Inside
  <2>3. Holders'
    BY <1>1, <1>2, <1>4, <2>2 DEF Holders, Alone
  <2>4. QED
    BY <2>1, <2>3
<1>5. CASE /\ pc[p] \in Working /\ pc'[p] \in Working
           /\ UNCHANGED <<lockname, opened, flocked, left>>
  <2>1. LockFile'
    BY <1>1, <1>2, <1>5 DEF LockFile, Inside
  <2>2. Holders'
    BY <1>1, <1>2, <1>5 DEF Holders, Alone
  <2>3. QED
    BY <2>1, <2>2
<1>6. CASE /\ Inside(p) /\ pc'[p] \in {"rmlock", "over"} /\ lockname' = lockname
           /\ \/ pc[p] = "flock" /\ UNCHANGED <<flocked, left>>
              \/ pc[p] \in Working /\ flocked' = flocked \ {opened[p]} /\ left' = left
              \/ /\ pc[p] \in Working /\ flocked' = flocked
                 /\ left' = left \cup {opened[p]}
  <2>1. LockFile'
    BY <1>1, <1>2, <1>6 DEF LockFile, Inside
  <2>2. Alone'
    BY <1>1, <1>2, <1>6 DEF Holders, Alone
  <2>3. left' \subseteq flocked'
    BY <1>6 DEF Holders
  <2>4. ASSUME NEW q \in Procs, pc'[q] \in Working
        PROVE  opened'[q] \in flocked' \ left'
    <3>1. q # p /\ pc[q] \in Working /\ opened'[q] = opened[q]
      BY <1>2, <1>6, <2>4
    <3>2. pc[p] = "flock" /\ UNCHANGED <<flocked, left>>
      BY <1>6, <3>1 DEF Holders, Alone
    <3>3. QED
      BY <3>1, <3>2 DEF Holders
  <2>5. QED
    BY <2>1, <2>2, <2>3, <2>4 DEF Holders
<1>7. CASE /\ pc[p] \in {"none", "rmlock"} /\ pc'[p] \in {"rmlock", "over"}
           /\ lockname' \in {lockname, NoInode} /\ UNCHANGED <<opened, flocked, left>>
  <2>1. LockFile'
    BY <1>1, <1>2, <1>7 DEF LockFile, Inside
  <2>2. Holders'
    BY <1>1, <1>2, <1>7 DEF Holders, Alone
  <2>3. QED
    BY <2>1, <2>2
<1>8. CASE UNCHANGED <<pc, lockname, opened, flocked, left>>
  BY <1>8 DEF LockFile, Holders, Alone, Inside
<1>9. QED
  BY <1>3, <1>4, <1>5, <1>6, <1>7, <1>8 DEF Locking

(* What a mount command has left behind can end: no one who works has its  *)
(* lock.                                                                   *)
LEMMA LeftEndsKeeps ==
    ASSUME LockFile, Holders, NEW inode, LeftEnds(inode)
    PROVE  LockFile' /\ Holders'
<1>1. /\ inode \in left /\ left' = left \ {inode} /\ flocked' = flocked \ {inode}
      /\ UNCHANGED <<pc, lockname, opened>>
  BY DEF LeftEnds
<1>2. LockFile'
  BY <1>1 DEF LockFile, Inside
<1>3. Holders'
  BY <1>1 DEF Holders, Alone
<1>4. QED
  BY <1>2, <1>3

-----------------------------------------------------------------------------
(* The table.                                                              *)

LEMMA TableIsFile ==
    ASSUME NEW table \in Seq(Lines)
    PROVE  /\ table # NoFile
           /\ UdisIn(table) = {table[i][1] : i \in DOMAIN table} \ {Empty}
<1>1. \A i \in DOMAIN table : table[i] # <<>>
  BY DEF Lines
<1>2. DOMAIN NoFile = {1} /\ NoFile[1] = <<>>
  BY DEF NoFile
<1>3. table # NoFile
  BY <1>1, <1>2
<1>4. QED
  BY <1>3 DEF UdisIn

(* cut gives the udi of a line, whatever else is in it.                    *)
LEMMA CutUdi ==
    ASSUME NEW line \in Lines
    PROVE  /\ Cut(line, 1) = line[1]
           /\ \A i \in 1 .. 3 : Cut(line, i) \in Fields
<1>1. Len(line) \in Nat /\ Len(line) # 0 /\ line \in Seq(Fields)
  BY DEF Lines
<1>2. \A i \in 1 .. Len(line) : line[i] \in Fields
  BY <1>1
<1>3. Len(line) = 1 \/ Len(line) > 1
  <2>1. \A n \in Nat : n # 0 => n = 1 \/ n > 1
    OBVIOUS
  <2>2. QED
    BY <1>1, <2>1, Zenon
<1>4. Cut(line, 1) = line[1]
  <2>1. CASE Len(line) = 1
    BY <2>1 DEF Cut
  <2>2. CASE Len(line) > 1
    BY <2>2 DEF Cut
  <2>3. QED
    BY <1>3, <2>1, <2>2
<1>5. ASSUME NEW i \in 1 .. 3
      PROVE  Cut(line, i) \in Fields
  <2>1. CASE Len(line) = 1
    BY <1>2, <2>1 DEF Cut
  <2>2. CASE Len(line) > 1 /\ i <= Len(line)
    <3>1. Cut(line, i) = line[i]
      BY <2>2 DEF Cut
    <3>2. i \in 1 .. Len(line)
      BY <1>1, <2>2
    <3>3. QED
      BY <1>2, <3>1, <3>2
  <2>3. CASE Len(line) > 1 /\ ~(i <= Len(line))
    <3>1. Cut(line, i) = Empty
      BY <2>3 DEF Cut
    <3>2. QED
      BY <3>1, FieldsAssumption
  <2>4. QED
    BY <1>3, <2>1, <2>2, <2>3
<1>6. QED
  BY <1>4, <1>5

(* A line that has been put together begins as its first part does.        *)
LEMMA LineOf ==
    ASSUME NEW S, NEW u \in S, NEW d \in S, NEW more \in Seq(S)
    PROVE  /\ <<u, d>> \o more \in Seq(S) \ {<<>>}
           /\ (<<u, d>> \o more)[1] = u
<1>1. <<u, d>> \in Seq(S) /\ Len(<<u, d>>) = 2 /\ <<u, d>>[1] = u
  OBVIOUS
<1>2. /\ <<u, d>> \o more \in Seq(S)
      /\ Len(<<u, d>> \o more) = Len(<<u, d>>) + Len(more)
      /\ \A i \in 1 .. Len(<<u, d>> \o more) :
             (<<u, d>> \o more)[i] = IF i <= Len(<<u, d>>) THEN <<u, d>>[i]
                                     ELSE more[i - Len(<<u, d>>)]
  BY ONLY <1>1, more \in Seq(S), ConcatProperties
<1>3. Len(more) \in Nat /\ Len(<<u, d>> \o more) = 2 + Len(more)
  BY <1>1, <1>2
<1>4. 1 \in 1 .. Len(<<u, d>> \o more) /\ Len(<<u, d>> \o more) # 0 /\ 1 <= 2
  BY <1>3
<1>5. (<<u, d>> \o more)[1] = u
  BY <1>1, <1>2, <1>4
<1>6. <<u, d>> \o more # <<>>
  BY <1>4
<1>7. QED
  BY <1>2, <1>5, <1>6

(* What is written for a line that has been read: nothing, when there is   *)
(* no udi or the line is to be removed, or else one line of its udi.       *)
Written(p) ==
    LET line == Head(rest[p])
        r == request[p]
    IN  CASE Cut(line, 1) = Empty -> <<>>
          [] Cut(line, 1) # Empty /\ FoundLine(line, r) -> Replaced(line, r)
          [] OTHER -> Others(line)

LEMMA LineWritten ==
    ASSUME Types, NEW p \in Procs, rest[p] # <<>>, request[p].cmd \in Rewriting
    PROVE  LET line == Head(rest[p])
           IN  \/ /\ Written(p) = <<>>
                  /\ \/ line[1] = Empty
                     \/ request[p].cmd = "remove" /\ line[1] = request[p].udi
               \/ \E new \in Lines : Written(p) = <<new>> /\ new[1] = line[1]
<1> DEFINE line == Head(rest[p])
           r == request[p]
<1>1. line \in Lines
  BY DEF Types
<1>2. /\ Cut(line, 1) = line[1] /\ line[1] \in Fields
      /\ Cut(line, 2) \in Fields /\ Cut(line, 3) \in Fields
  BY <1>1, CutUdi
<1>3. r \in Requests /\ r.udi \in Fields /\ r.device \in Fields /\ r.mountpoint \in Fields
  BY RequestsAssumption DEF Types
<1>4. CASE line[1] = Empty
  BY <1>2, <1>4 DEF Written
<1>5. CASE line[1] # Empty /\ ~FoundLine(line, r)
  <2>1. Written(p) = <<line>>
    BY <1>2, <1>5 DEF Written, Others
  <2>2. QED
    BY <1>1, <2>1
<1>6. CASE line[1] # Empty /\ FoundLine(line, r)
  <2>1. Written(p) = Replaced(line, r) /\ r.udi = line[1]
    BY <1>2, <1>6 DEF Written, FoundLine
  <2>2. CASE r.cmd = "remove"
    BY <2>1, <2>2 DEF Replaced
  <2>3. CASE r.cmd = "mount"
    <3> DEFINE more == IF Cut(line, 3) # Empty /\ r.mountpoint \in {Empty, Cut(line, 3)}
                       THEN <<Cut(line, 3)>> ELSE <<>>
    <3>1. more \in Seq(Fields)
      BY <1>2
    <3>2. Replaced(line, r) = <<<<r.udi, r.device>> \o more>>
      BY <2>3 DEF Replaced
    <3> HIDE DEF more
    <3>3. /\ <<r.udi, r.device>> \o more \in Lines
          /\ (<<r.udi, r.device>> \o more)[1] = r.udi
      BY <1>3, <3>1, LineOf DEF Lines
    <3>4. QED
      BY <2>1, <3>2, <3>3
  <2>4. CASE r.cmd \in {"mountpoint", "umountpoint"}
    <3>1. \E d \in Fields : \/ Replaced(line, r) = <<<<r.udi, d, r.mountpoint>>>>
                           \/ Replaced(line, r) = <<<<r.udi, d>>>>
      BY <1>2, <1>3, <2>4 DEF Replaced
    <3>2. PICK d \in Fields : \/ Replaced(line, r) = <<<<r.udi, d, r.mountpoint>>>>
                             \/ Replaced(line, r) = <<<<r.udi, d>>>>
      BY <3>1
    <3>3. <<r.udi, d, r.mountpoint>> \in Lines /\ <<r.udi, d>> \in Lines
      BY <1>3 DEF Lines
    <3>4. QED
      BY <2>1, <3>2, <3>3
  <2>5. QED
    BY <2>2, <2>3, <2>4 DEF Rewriting
<1>7. QED
  BY <1>4, <1>5, <1>6

(* A line more at the end of the table.                                    *)
More(table, line, more) ==
    /\ more \in Seq(Lines)
    /\ UdisIn(more) = UdisIn(table) \cup ({line[1]} \ {Empty})
    /\ DOMAIN more = DOMAIN table \cup {Len(table) + 1}
    /\ \A i \in DOMAIN table : i # Len(table) + 1 /\ more[i] = table[i]
    /\ more[Len(table) + 1] = line

LEMMA LineAdded ==
    ASSUME NEW table \in Seq(Lines), NEW line \in Lines
    PROVE  More(table, line, Append(table, line))
<1> DEFINE more == Append(table, line)
<1>1. /\ more \in Seq(Lines)
      /\ Len(more) = Len(table) + 1 /\ Len(table) \in Nat
      /\ DOMAIN table = 1 .. Len(table) /\ DOMAIN more = 1 .. Len(table) + 1
      /\ \A i \in DOMAIN table : more[i] = table[i]
      /\ more[Len(table) + 1] = line
  OBVIOUS
<1>2. /\ DOMAIN more = DOMAIN table \cup {Len(table) + 1}
      /\ \A i \in DOMAIN table : i # Len(table) + 1
  BY <1>1
<1> HIDE DEF more
<1>3. {more[i][1] : i \in DOMAIN more} = {table[i][1] : i \in DOMAIN table} \cup {line[1]}
  BY <1>1, <1>2
<1>4. UdisIn(more) = UdisIn(table) \cup ({line[1]} \ {Empty})
  BY <1>1, <1>3, TableIsFile
<1>5. More(table, line, more)
  BY <1>1, <1>2, <1>4 DEF More
<1>6. QED
  BY <1>5 DEF more

(* The first line and those behind it.                                     *)
LEMMA LineRead ==
    ASSUME NEW table \in Seq(Lines), table # <<>>
    PROVE  LET line == Head(table)
           IN  /\ line \in Lines /\ Tail(table) \in Seq(Lines)
               /\ DOMAIN Tail(table) = 1 .. Len(table) - 1
               /\ \A i \in DOMAIN Tail(table) :
                     i + 1 \in DOMAIN table /\ Tail(table)[i] = table[i + 1]
               /\ 1 \in DOMAIN table /\ table[1] = line
               /\ UdisIn(table) = UdisIn(Tail(table)) \cup ({line[1]} \ {Empty})
<1>1. /\ Len(table) \in Nat /\ Len(table) > 0 /\ DOMAIN table = 1 .. Len(table)
      /\ Head(table) \in Lines /\ Tail(table) \in Seq(Lines)
      /\ Head(table) = table[1] /\ Len(Tail(table)) = Len(table) - 1
      /\ \A i \in 1 .. Len(table) - 1 : Tail(table)[i] = table[i + 1]
  OBVIOUS
<1>2. DOMAIN Tail(table) = 1 .. Len(table) - 1
  BY <1>1
<1>3. ASSUME NEW i \in DOMAIN table, i # 1
      PROVE  i - 1 \in DOMAIN Tail(table) /\ table[i] = Tail(table)[i - 1]
  <2>1. i \in Nat /\ i - 1 \in 1 .. Len(table) - 1 /\ (i - 1) + 1 = i
    BY <1>1, <1>3
  <2>2. Tail(table)[i - 1] = table[(i - 1) + 1]
    BY <1>1, <2>1
  <2>3. QED
    BY <1>2, <2>1, <2>2
<1>4. {table[i][1] : i \in DOMAIN table}
        = {Tail(table)[i][1] : i \in DOMAIN Tail(table)} \cup {Head(table)[1]}
  <2>1. 1 \in DOMAIN table /\ table[1] = Head(table)
    BY <1>1
  <2>2. ASSUME NEW i \in DOMAIN Tail(table)
        PROVE  i + 1 \in DOMAIN table /\ Tail(table)[i] = table[i + 1]
    BY <1>1, <1>2
  <2>3. ASSUME NEW i \in DOMAIN table
        PROVE  \/ table[i][1] = Head(table)[1]
               \/ \E j \in DOMAIN Tail(table) : table[i][1] = Tail(table)[j][1]
    BY <1>3, <2>1
  <2>4. {table[i][1] : i \in DOMAIN table}
          \subseteq {Tail(table)[i][1] : i \in DOMAIN Tail(table)} \cup {Head(table)[1]}
    BY ONLY <2>3
  <2>5. {Tail(table)[i][1] : i \in DOMAIN Tail(table)} \cup {Head(table)[1]}
          \subseteq {table[i][1] : i \in DOMAIN table}
    BY ONLY <2>1, <2>2
  <2>6. QED
    BY <2>4, <2>5, Zenon
<1>5. UdisIn(table) = UdisIn(Tail(table)) \cup ({Head(table)[1]} \ {Empty})
  BY <1>1, <1>4, TableIsFile
<1>6. QED
  BY <1>1, <1>2, <1>5

-----------------------------------------------------------------------------
(* Each step keeps the types and what is known of the table.               *)

(* A step in which nothing is read or written.                             *)
LEMMA StepsAside ==
    ASSUME Types, Table, NEW p \in Procs,
           \/ OpenLock(p) \/ OpenFails(p) \/ Lock(p) \/ Unlock(p) \/ RmLock(p)
           \/ MountEnds(p) \/ KillSubshell(p) \/ KillShell(p)
    PROVE  Types' /\ Table'
<1>1. /\ UNCHANGED <<request, dev_file, tmp, registered, rest, udi_found>>
      /\ shell' \in [Procs -> BOOLEAN]
      /\ lockname' \in Procs \cup {NoInode}
      /\ opened' \in [Procs -> Procs \cup {NoInode}]
  <2> USE DEF Types, files, loop, locks
  <2>1. CASE OpenLock(p)
    BY <2>1 DEF OpenLock
  <2>2. CASE OpenFails(p) \/ Lock(p) \/ RmLock(p) \/ KillShell(p)
    BY <2>2 DEF OpenFails, Lock, RmLock, KillShell
  <2>3. CASE Unlock(p) \/ MountEnds(p) \/ KillSubshell(p)
    BY <2>3 DEF Unlock, MountEnds, KillSubshell, SubshellEnds
  <2>4. QED
    BY <2>1, <2>2, <2>3
<1>2. \/ pc' = pc
      \/ \E stage \in {"flock", "start", "rmlock", "over"} :
            pc' = [pc EXCEPT ![p] = stage]
  BY DEF OpenLock, OpenFails, Lock, Unlock, RmLock, MountEnds, KillSubshell, KillShell,
         SubshellEnds, Goto
<1>3. Types'
  BY <1>1, <1>2 DEF Types, Labels, Working
<1>4. ASSUME NEW q \in Procs PROVE Place(q)'
  <2>1. pc'[q] = pc[q] \/ pc'[q] \in {"flock", "start", "rmlock", "over"}
    BY <1>2 DEF Types
  <2>2. Place(q)
    BY DEF Table
  <2>3. QED
    BY <1>1, <2>1, <2>2 DEF Place, Rewrites, Reads, UdisIn, Complete
<1>5. Kept' /\ Once'
  BY <1>1 DEF Table, Kept, Once, UdisIn
<1>6. QED
  BY <1>3, <1>4, <1>5 DEF Table

(* When one run works on the table, there is nothing to know of the rest.  *)
LEMMA OthersKeep ==
    ASSUME Types, Alone, NEW p \in Procs, pc[p] \in Working,
           pc' = [pc EXCEPT ![p] = pc'[p]], Place(p)'
    PROVE  \A q \in Procs : Place(q)'
<1>1. ASSUME NEW q \in Procs, q # p PROVE Place(q)'
  <2>1. pc'[q] = pc[q] /\ pc[q] \notin Working
    BY <1>1 DEF Alone, Types
  <2>2. QED
    BY <2>1 DEF Place, Working
<1>2. QED
  BY <1>1

LEMMA StartKeeps ==
    ASSUME Types, Alone, Table, NEW p \in Procs, Start(p)
    PROVE  Types' /\ Table'
<1>1. /\ pc[p] = "start" /\ UNCHANGED <<request, shell, lockname, opened, tmp, rest, udi_found>>
  BY DEF Start, locks, loop
<1>2. \/ /\ request[p].cmd \in Rewriting /\ Complete(request[p])
         /\ pc' = [pc EXCEPT ![p] = "copy"] /\ UNCHANGED <<dev_file, registered>>
      \/ /\ pc' = [pc EXCEPT ![p] = "clean"] /\ dev_file' = NoFile /\ registered' = {}
      \/ /\ pc' = [pc EXCEPT ![p] = "unlock"] /\ UNCHANGED <<dev_file, registered>>
  BY DEF Start, Goto, Rewriting
<1>3. Types'
  BY <1>1, <1>2 DEF Types, Labels, Working
<1>4. Kept' /\ Once'
  BY <1>1, <1>2 DEF Table, Kept, Once, UdisIn
<1>5. Place(p)'
  BY <1>1, <1>2 DEF Place, Types
<1>6. pc' = [pc EXCEPT ![p] = pc'[p]] /\ pc[p] \in Working
  BY <1>1, <1>2 DEF Types, Working
<1>7. QED
  BY <1>3, <1>4, <1>5, <1>6, OthersKeep DEF Table

LEMMA CleanKeeps ==
    ASSUME Types, Alone, Table, NEW p \in Procs, Clean(p)
    PROVE  Types' /\ Table'
<1>1. /\ pc[p] = "clean" /\ pc' = [pc EXCEPT ![p] = "unlock"] /\ tmp' = NoFile
      /\ UNCHANGED <<request, shell, lockname, opened, dev_file, registered, rest, udi_found>>
  BY DEF Clean, Goto, locks, loop
<1>2. Types'
  BY <1>1 DEF Types, Labels, Working
<1>3. registered = {}
  BY <1>1 DEF Table, Place
<1>4. Kept' /\ Once'
  BY <1>1, <1>3 DEF Table, Kept, Once
<1>5. Place(p)'
  BY <1>1 DEF Place, Types
<1>6. pc' = [pc EXCEPT ![p] = pc'[p]] /\ pc[p] \in Working
  BY <1>1 DEF Types, Working
<1>7. QED
  BY <1>2, <1>4, <1>5, <1>6, OthersKeep DEF Table

(* The copy has whatever the table has, and nothing else is claimed.       *)
LEMMA CopyKeeps ==
    ASSUME Types, Alone, Table, NEW p \in Procs, Copy(p)
    PROVE  Types' /\ Table'
<1>1. /\ pc[p] = "copy"
      /\ UNCHANGED <<request, shell, lockname, opened, dev_file, rest, udi_found>>
  BY DEF Copy, locks, loop
<1>2. pc[p] \in Working /\ request[p].cmd \in Rewriting /\ Complete(request[p])
  BY <1>1 DEF Table, Place, Working
<1>3. CASE pc' = [pc EXCEPT ![p] = "unlock"] /\ UNCHANGED <<tmp, registered>>
  <2>1. Types'
    BY <1>1, <1>3 DEF Types, Labels, Working
  <2>2. Kept' /\ Once'
    BY <1>1, <1>3 DEF Table, Kept, Once, UdisIn
  <2>3. Place(p)'
    BY <1>1, <1>3 DEF Place, Types
  <2>4. pc' = [pc EXCEPT ![p] = pc'[p]]
    BY <1>3 DEF Types
  <2>5. QED
    BY <1>2, <2>1, <2>2, <2>3, <2>4, OthersKeep DEF Table
<1>4. CASE /\ tmp' = IF dev_file = NoFile THEN <<>> ELSE dev_file
           /\ registered' = IF tmp = NoFile THEN registered ELSE UdisIn(dev_file)
           /\ pc' = [pc EXCEPT ![p] = "truncate"]
  <2>1. tmp' \in Seq(Lines) /\ tmp' # NoFile
    <3>1. tmp' \in Seq(Lines)
      BY <1>4 DEF Types
    <3>2. QED
      BY <3>1, TableIsFile
  <2>2. Types'
    BY <1>1, <1>4, <2>1 DEF Types, Labels, Working
  <2>3. registered' \subseteq UdisIn(dev_file)
    BY <1>4 DEF Table, Kept, UdisIn
  <2>4. UdisIn(dev_file) \subseteq UdisIn(tmp') /\ OneEach(tmp')
    <3>1. CASE dev_file = NoFile
      BY <1>4, <3>1 DEF UdisIn, OneEach
    <3>2. CASE dev_file # NoFile
      BY <1>4, <3>2 DEF Table, Once
    <3>3. QED
      BY <3>1, <3>2
  <2>5. UdisIn(tmp)' = UdisIn(tmp') /\ UdisIn(dev_file)' = UdisIn(dev_file)
    BY <1>1 DEF UdisIn
  <2>6. Kept' /\ Once'
    BY <1>1, <2>3, <2>5 DEF Table, Kept, Once
  <2>7. Place(p)'
    BY <1>1, <1>2, <1>4, <2>1, <2>3, <2>4, <2>5 DEF Place, Types
  <2>8. pc' = [pc EXCEPT ![p] = pc'[p]]
    BY <1>4 DEF Types
  <2>9. QED
    BY <1>2, <2>2, <2>6, <2>7, <2>8, OthersKeep DEF Table
<1>5. QED
  BY <1>3, <1>4 DEF Copy, Goto

LEMMA TruncateKeeps ==
    ASSUME Types, Alone, Table, NEW p \in Procs, Truncate(p)
    PROVE  Types' /\ Table'
<1>1. /\ pc[p] = "truncate" /\ pc' = [pc EXCEPT ![p] = "loop"]
      /\ dev_file' = <<>>
      /\ registered' = IF request[p].cmd = "remove"
                       THEN registered \ {request[p].udi} ELSE registered
      /\ rest' = [rest EXCEPT ![p] = IF tmp = NoFile THEN <<>> ELSE tmp]
      /\ udi_found' = [udi_found EXCEPT ![p] = FALSE]
      /\ UNCHANGED <<request, shell, lockname, opened, tmp>>
  BY DEF Truncate, Goto, locks
<1>2. /\ request[p].cmd \in Rewriting /\ Complete(request[p])
      /\ tmp # NoFile /\ tmp \in Seq(Lines)
      /\ registered \subseteq UdisIn(tmp) /\ OneEach(tmp)
  BY <1>1 DEF Table, Place, Types
<1>3. Types'
  BY <1>1, <1>2 DEF Types, Labels, Working
<1>4. UdisIn(tmp)' = UdisIn(tmp) /\ registered' \subseteq UdisIn(tmp)
  BY <1>1, <1>2 DEF UdisIn
<1>5. Kept' /\ Once'
  BY <1>1, <1>4 DEF Kept, Once, OneEach
<1>6. dev_file' # NoFile
  <2>1. dev_file' \in Seq(Lines)
    BY <1>1
  <2>2. QED
    BY <2>1, TableIsFile
<1>7. rest'[p] = tmp /\ UdisIn(rest[p])' = UdisIn(tmp) /\ udi_found'[p] = FALSE
  BY <1>1, <1>2 DEF Types, UdisIn
<1>8. Rewrites(p)'
  BY <1>1, <1>4, <1>6, <1>7 DEF Rewrites
<1>9. Reads(p)'
  BY <1>1, <1>2, <1>7 DEF Reads, OneEach
<1>10. Place(p)'
  BY <1>1, <1>2, <1>8, <1>9 DEF Place, Types
<1>11. pc' = [pc EXCEPT ![p] = pc'[p]] /\ pc[p] \in Working
  BY <1>1 DEF Types, Working
<1>12. QED
  BY <1>3, <1>5, <1>10, <1>11, OthersKeep DEF Table

(* A turn of the loop leaves the line of a registered device where it was  *)
(* found, if it is still to be read, and else has it in the table.         *)
LEMMA ReadLineKeeps ==
    ASSUME Types, Alone, Table, NEW p \in Procs, ReadLine(p)
    PROVE  Types' /\ Table'
<1> DEFINE line == Head(rest[p])
           r == request[p]
           read == FoundLine(line, r)
<1>1. /\ pc[p] = "loop" /\ rest[p] # <<>>
      /\ dev_file' = dev_file \o Written(p)
      /\ udi_found' = [udi_found EXCEPT ![p] = udi_found[p] \/ read]
      /\ rest' = [rest EXCEPT ![p] = Tail(rest[p])]
      /\ UNCHANGED <<request, pc, shell, lockname, opened, tmp, registered>>
  <2>1. pc[p] = "loop" /\ dev_file # NoFile
    BY DEF ReadLine, Table, Place, Rewrites
  <2>2. QED
    BY <2>1 DEF ReadLine, Written, Echoed, locks
<1>2. /\ Rewrites(p) /\ Reads(p)
      /\ r.cmd \in Rewriting /\ Complete(r)
      /\ dev_file \in Seq(Lines) /\ rest[p] \in Seq(Lines) /\ r.udi # Empty
      /\ OneEach(dev_file)
  BY <1>1 DEF Table, Place, Types, Rewrites, Complete, Once
<1>3. /\ line \in Lines /\ Tail(rest[p]) \in Seq(Lines)
      /\ \A i \in DOMAIN Tail(rest[p]) :
            i + 1 \in DOMAIN rest[p] /\ Tail(rest[p])[i] = rest[p][i + 1]
      /\ DOMAIN Tail(rest[p]) \subseteq Nat \ {0}
      /\ 1 \in DOMAIN rest[p] /\ rest[p][1] = line
      /\ UdisIn(rest[p]) = UdisIn(Tail(rest[p])) \cup ({line[1]} \ {Empty})
  BY <1>1, <1>2, LineRead
<1>4. /\ rest'[p] = Tail(rest[p]) /\ udi_found'[p] = (udi_found[p] \/ read)
      /\ UdisIn(rest[p])' = UdisIn(Tail(rest[p])) /\ UdisIn(tmp)' = UdisIn(tmp)
      /\ read <=> line[1] = r.udi
  <2>1. Cut(line, 1) = line[1]
    BY <1>3, CutUdi
  <2>2. rest'[p] = Tail(rest[p]) /\ udi_found'[p] = (udi_found[p] \/ read)
    <3> HIDE DEF read
    <3>1. QED
      BY <1>1 DEF Types
  <2>3. UdisIn(rest[p])' = UdisIn(Tail(rest[p])) /\ UdisIn(tmp)' = UdisIn(tmp)
    BY <1>1, <2>2 DEF UdisIn
  <2>4. read <=> line[1] = r.udi
    BY <2>1 DEF FoundLine
  <2>5. QED
    BY <2>2, <2>3, <2>4
<1>5. OneEach(Tail(rest[p]))
      /\ \A i \in DOMAIN Tail(rest[p]) : Tail(rest[p])[i][1] # line[1]
  <2>1. \A i, j \in DOMAIN rest[p] : rest[p][i][1] = rest[p][j][1] => i = j
    BY <1>2 DEF Reads, OneEach
  <2>2. ASSUME NEW i \in DOMAIN Tail(rest[p]), NEW j \in DOMAIN Tail(rest[p]),
               Tail(rest[p])[i][1] = Tail(rest[p])[j][1]
        PROVE  i = j
    <3>1. i + 1 = j + 1 /\ i \in Nat /\ j \in Nat
      BY <1>3, <2>1, <2>2
    <3>2. QED
      BY <3>1
  <2>3. ASSUME NEW i \in DOMAIN Tail(rest[p])
        PROVE  Tail(rest[p])[i][1] # line[1]
    <3>1. i \in Nat \ {0} /\ i + 1 \in DOMAIN rest[p] /\ 1 \in DOMAIN rest[p]
      BY <1>3
    <3>2. i + 1 # 1
      BY <3>1
    <3>3. QED
      BY <1>3, <2>1, <3>1, <3>2
  <2>4. QED
    BY <2>2, <2>3 DEF OneEach
<1>6. /\ \A i \in DOMAIN dev_file, j \in DOMAIN Tail(rest[p]) :
            dev_file[i][1] # Tail(rest[p])[j][1]
      /\ \A i \in DOMAIN dev_file : dev_file[i][1] # line[1]
  BY <1>2, <1>3 DEF Reads
<1>7. ASSUME Written(p) = <<>>,
             line[1] = Empty \/ (r.cmd = "remove" /\ line[1] = r.udi)
      PROVE  Types' /\ Once' /\ Rewrites(p)' /\ Reads(p)'
  <2>1. dev_file' = dev_file /\ UdisIn(dev_file)' = UdisIn(dev_file)
    BY <1>1, <1>2, <1>7 DEF UdisIn
  <2>2. Rewrites(p)'
    BY <1>1, <1>2, <1>3, <1>4, <1>7, <2>1 DEF Rewrites
  <2>3. Reads(p)'
    <3>1. udi_found'[p] /\ r.cmd = "mount" => r.udi \in UdisIn(dev_file)
      BY <1>2, <1>4, <1>7 DEF Reads
    <3>2. ~udi_found'[p] => \A i \in DOMAIN dev_file : dev_file[i][1] # r.udi
      BY <1>2, <1>4 DEF Reads
    <3>3. UdisIn(dev_file') = UdisIn(dev_file) /\ r' = r
      BY <1>1, <2>1
    <3> HIDE DEF read, line
    <3>4. QED
      BY <1>4, <1>5, <1>6, <2>1, <3>1, <3>2, <3>3 DEF Reads
  <2>4. Types'
    BY <1>1, <1>3, <2>1 DEF Types
  <2>5. Once'
    BY <2>1 DEF Table, Once
  <2>6. QED
    BY ONLY <2>2, <2>3, <2>4, <2>5
<1>8. ASSUME \E new \in Lines : Written(p) = <<new>> /\ new[1] = line[1]
      PROVE  Types' /\ Once' /\ Rewrites(p)' /\ Reads(p)'
  <2>1. PICK new \in Lines : Written(p) = <<new>> /\ new[1] = line[1]
    BY <1>8
  <2> DEFINE n == Len(dev_file) + 1
  <2>2. /\ dev_file' \in Seq(Lines)
        /\ UdisIn(dev_file') = UdisIn(dev_file) \cup ({line[1]} \ {Empty})
        /\ DOMAIN dev_file' = DOMAIN dev_file \cup {n}
        /\ \A i \in DOMAIN dev_file : i # n /\ dev_file'[i] = dev_file[i]
        /\ dev_file'[n] = new
    <3>1. dev_file' = Append(dev_file, new)
      BY <1>1, <1>2, <2>1
    <3>2. More(dev_file, new, Append(dev_file, new))
      BY <1>2, LineAdded, Zenon
    <3>3. More(dev_file, new, dev_file')
      BY <3>1, <3>2, Zenon
    <3>4. QED
      BY <2>1, <3>3, Zenon DEF More
  <2>3. UdisIn(dev_file)' = UdisIn(dev_file')
    BY DEF UdisIn
  <2>4. dev_file' # NoFile
    BY <2>2, TableIsFile
  <2> HIDE DEF n
  <2>5. Rewrites(p)'
    BY <1>1, <1>2, <1>3, <1>4, <2>2, <2>3, <2>4 DEF Rewrites
  <2>6. Reads(p)'
    <3>1. \A i \in DOMAIN dev_file', j \in DOMAIN Tail(rest[p]) :
              dev_file'[i][1] # Tail(rest[p])[j][1]
      BY <1>5, <1>6, <2>1, <2>2
    <3>2. udi_found'[p] /\ r.cmd = "mount" => r.udi \in UdisIn(dev_file')
      BY <1>2, <1>4, <2>2 DEF Reads
    <3>3. ~udi_found'[p] => \A i \in DOMAIN dev_file' : dev_file'[i][1] # r.udi
      BY <1>2, <1>4, <2>1, <2>2 DEF Reads
    <3>4. rest'[p] = Tail(rest[p]) /\ r' = r
      BY <1>1, <1>4
    <3>5. OneEach(rest[p])'
      BY <1>5, <3>4 DEF OneEach
    <3> HIDE DEF line
    <3>6. QED
      BY <2>3, <3>1, <3>2, <3>3, <3>4, <3>5 DEF Reads
  <2>7. Once'
    BY <1>2, <1>6, <2>1, <2>2 DEF OneEach, Once
  <2>8. Types'
    BY <1>1, <1>3, <2>2 DEF Types
  <2>9. QED
    BY ONLY <2>5, <2>6, <2>7, <2>8
<1>9. Types' /\ Once' /\ Rewrites(p)' /\ Reads(p)'
  BY <1>1, <1>2, <1>7, <1>8, LineWritten, Zenon
<1>10. Kept'
  BY <1>9 DEF Kept, Rewrites
<1>11. Place(p)'
  BY <1>1, <1>2, <1>9 DEF Place
<1>12. pc' = [pc EXCEPT ![p] = pc'[p]] /\ pc[p] \in Working
  BY <1>1 DEF Types, Working
<1>13. QED
  BY <1>9, <1>10, <1>11, <1>12, OthersKeep DEF Table

LEMMA LoopEndsKeeps ==
    ASSUME Types, Alone, Table, NEW p \in Procs, LoopEnds(p)
    PROVE  Types' /\ Table'
<1> DEFINE r == request[p]
           new == r.cmd = "mount" /\ ~udi_found[p]
           line == <<r.udi, r.device>>
<1>1. /\ pc[p] = "loop" /\ rest[p] = <<>> /\ pc' = [pc EXCEPT ![p] = "rmtmp"]
      /\ dev_file' = IF new THEN Echoed(<<line>>) ELSE dev_file
      /\ registered' = IF r.cmd = "mount" THEN registered \cup {r.udi} ELSE registered
      /\ UNCHANGED <<request, shell, lockname, opened, tmp, rest, udi_found>>
  BY DEF LoopEnds, Goto, locks, loop
<1>2. /\ Rewrites(p) /\ Reads(p)
      /\ r.cmd \in Rewriting /\ Complete(r)
      /\ dev_file \in Seq(Lines) /\ r.udi # Empty /\ OneEach(dev_file)
  BY <1>1 DEF Table, Place, Types, Rewrites, Complete, Once
<1>3. line \in Lines /\ line[1] = r.udi
  <2>1. r.udi \in Fields /\ r.device \in Fields
    BY RequestsAssumption DEF Types
  <2>2. QED
    BY <2>1 DEF Lines
<1>4. registered \subseteq UdisIn(dev_file)
  BY <1>1, <1>2 DEF Rewrites, UdisIn
<1>5. /\ dev_file' \in Seq(Lines) /\ OneEach(dev_file')
      /\ registered' \subseteq UdisIn(dev_file')
  <2>1. CASE new
    <3> DEFINE n == Len(dev_file) + 1
    <3>1. /\ dev_file' \in Seq(Lines)
          /\ UdisIn(dev_file') = UdisIn(dev_file) \cup ({r.udi} \ {Empty})
          /\ DOMAIN dev_file' = DOMAIN dev_file \cup {n}
          /\ \A i \in DOMAIN dev_file : i # n /\ dev_file'[i] = dev_file[i]
          /\ dev_file'[n] = line
      <4>1. dev_file' = Append(dev_file, line)
        BY <1>1, <1>2, <2>1 DEF Echoed, Rewrites
      <4> HIDE DEF line
      <4>2. More(dev_file, line, Append(dev_file, line))
        BY <1>2, <1>3, LineAdded, Zenon
      <4>3. More(dev_file, line, dev_file')
        BY <4>1, <4>2, Zenon
      <4>4. QED
        BY <1>3, <4>3, Zenon DEF More
    <3>2. \A i \in DOMAIN dev_file : dev_file[i][1] # r.udi
      BY <1>2, <2>1 DEF Reads
    <3> HIDE DEF n, line
    <3>3. OneEach(dev_file')
      BY <1>2, <1>3, <3>1, <3>2 DEF OneEach
    <3>4. registered' \subseteq UdisIn(dev_file')
      BY <1>1, <1>2, <1>4, <2>1, <3>1
    <3>5. QED
      BY <3>1, <3>3, <3>4
  <2>2. CASE ~new
    BY <1>1, <1>2, <1>4, <2>2 DEF Reads
  <2>3. QED
    BY <2>1, <2>2
<1>6. UdisIn(dev_file)' = UdisIn(dev_file')
  BY DEF UdisIn
<1>7. Types'
  BY <1>1, <1>5 DEF Types, Labels, Working
<1>8. Kept' /\ Once'
  BY <1>5, <1>6 DEF Kept, Once
<1>9. Place(p)'
  BY <1>1, <1>2, <1>5, <1>6 DEF Place, Types
<1>10. pc' = [pc EXCEPT ![p] = pc'[p]] /\ pc[p] \in Working
  BY <1>1 DEF Types, Working
<1>11. QED
  BY <1>7, <1>8, <1>9, <1>10, OthersKeep DEF Table

(* The copy can go, as the table has everything by then.                   *)
LEMMA RmTmpKeeps ==
    ASSUME Types, Alone, Table, NEW p \in Procs, RmTmp(p)
    PROVE  Types' /\ Table'
<1>1. /\ pc[p] = "rmtmp" /\ tmp' = NoFile
      /\ pc' = [pc EXCEPT ![p] = pc'[p]] /\ pc'[p] \in {"mount", "unlock"}
      /\ UNCHANGED <<request, shell, lockname, opened, dev_file, registered, rest, udi_found>>
  BY DEF RmTmp, Goto, locks, loop, Types
<1>2. Types'
  BY <1>1 DEF Types, Labels, Working
<1>3. registered \subseteq UdisIn(dev_file)
  BY <1>1 DEF Table, Place
<1>4. Kept' /\ Once'
  BY <1>1, <1>3 DEF Table, Kept, Once, UdisIn
<1>5. Place(p)'
  BY <1>1 DEF Place
<1>6. pc[p] \in Working
  BY <1>1 DEF Working
<1>7. QED
  BY <1>1, <1>2, <1>4, <1>5, <1>6, OthersKeep DEF Table

-----------------------------------------------------------------------------
(* The invariant holds at the start and is kept.                           *)

LEMMA InitInv == Init => IInv
<1>1. SUFFICES ASSUME Init PROVE IInv
  OBVIOUS
<1>2. dev_file = NoFile \/ (dev_file \in Seq(Lines) /\ OneEach(dev_file))
  BY <1>1, TablesAssumption DEF Init
<1>3. Types
  BY <1>1, <1>2 DEF Init, Types, Labels
<1>4. LockFile /\ Holders
  BY <1>1 DEF Init, LockFile, Holders, Alone, Inside, Working
<1>5. Kept /\ Once
  BY <1>1, <1>2 DEF Init, Kept, Once
<1>6. \A p \in Procs : Place(p)
  BY <1>1 DEF Init, Place
<1>7. QED
  BY <1>3, <1>4, <1>5, <1>6 DEF IInv, Table

LEMMA NextInv == IInv /\ [Next]_vars => IInv'
<1>1. SUFFICES ASSUME IInv, [Next]_vars, safe'
               PROVE  Types' /\ LockFile' /\ Holders' /\ Table'
  BY DEF IInv
<1>2. safe /\ Types /\ LockFile /\ Holders /\ Table
  <2>1. CASE \E p \in Procs : Moves(p)
    BY <1>1, <2>1 DEF IInv, Moves, OpenLock, OpenFails, FlockFails, KillSubshell, KillShell,
                      Step, Lock, Start, Clean, Copy, Truncate, ReadLine, LoopEnds, RmTmp,
                      MountEnds, Unlock, RmLock, locks
  <2>2. CASE \E inode \in Procs : LeftEnds(inode)
    BY <1>1, <2>2 DEF IInv, LeftEnds
  <2>3. CASE UNCHANGED vars
    BY <1>1, <2>3 DEF IInv, vars, locks
  <2>4. QED
    BY <1>1, <2>1, <2>2, <2>3 DEF Next, Moves
<1>3. Alone
  BY <1>2 DEF Holders
<1>4. ASSUME NEW p \in Procs, Moves(p)
      PROVE  Types' /\ LockFile' /\ Holders' /\ Table'
  <2>1. LockFile' /\ Holders'
    BY <1>1, <1>2, <1>4, LockingSteps, LockKeeps
  <2>2. Types' /\ Table'
    <3>1. CASE \/ OpenLock(p) \/ OpenFails(p) \/ Lock(p) \/ Unlock(p) \/ RmLock(p)
               \/ MountEnds(p) \/ KillSubshell(p) \/ KillShell(p)
      BY <1>2, <3>1, StepsAside
    <3>2. CASE Start(p)
      BY <1>2, <1>3, <3>2, StartKeeps
    <3>3. CASE Clean(p)
      BY <1>2, <1>3, <3>3, CleanKeeps
    <3>4. CASE Copy(p)
      BY <1>2, <1>3, <3>4, CopyKeeps
    <3>5. CASE Truncate(p)
      BY <1>2, <1>3, <3>5, TruncateKeeps
    <3>6. CASE ReadLine(p)
      BY <1>2, <1>3, <3>6, ReadLineKeeps
    <3>7. CASE LoopEnds(p)
      BY <1>2, <1>3, <3>7, LoopEndsKeeps
    <3>8. CASE RmTmp(p)
      BY <1>2, <1>3, <3>8, RmTmpKeeps
    <3>9. CASE FlockFails(p)
      BY <1>1, <3>9 DEF FlockFails
    <3>10. QED
      BY <1>4, <3>1, <3>2, <3>3, <3>4, <3>5, <3>6, <3>7, <3>8, <3>9 DEF Step, Moves
  <2>3. QED
    BY <2>1, <2>2
<1>5. ASSUME UNCHANGED <<request, pc, shell, lockname, opened, dev_file, tmp, registered,
                         rest, udi_found>>
      PROVE  Types' /\ Table'
  <2>1. Types'
    BY <1>2, <1>5 DEF Types
  <2>2. Kept' /\ Once'
    BY <1>2, <1>5 DEF Table, Kept, Once, UdisIn
  <2>3. ASSUME NEW q \in Procs PROVE Place(q)'
    <3>1. Place(q)
      BY <1>2 DEF Table
    <3>2. QED
      BY <1>5, <3>1 DEF Place, Rewrites, Reads, UdisIn, Complete
  <2>4. QED
    BY <2>1, <2>2, <2>3 DEF Table
<1>6. ASSUME NEW inode \in Procs, LeftEnds(inode)
      PROVE  Types' /\ LockFile' /\ Holders' /\ Table'
  BY <1>2, <1>5, <1>6, LeftEndsKeeps DEF LeftEnds, files, loop
<1>7. CASE UNCHANGED vars
  <2>1. UNCHANGED <<pc, lockname, opened, flocked, left>>
    BY <1>7 DEF vars, locks
  <2>2. LockFile' /\ Holders'
    BY <1>2, <2>1 DEF LockFile, Holders, Alone, Inside
  <2>3. QED
    BY <1>5, <1>7, <2>2 DEF vars, locks, files, loop
<1>8. QED
  BY <1>1, <1>4, <1>6, <1>7 DEF Next, Moves

LEMMA Invariance == Spec => []IInv
<1>1. IInv /\ [Next]_vars => IInv'
  BY NextInv
<1>2. QED
  BY <1>1, InitInv, PTL DEF Spec

(* Of any number of runs one at a time works on the table or mounts, as    *)
(* long as no flock fails and no run makes a second lock file while        *)
(* another has the removed one open.  A killed shell or subshell, a failed *)
(* redirection, the rm without the lock and what a mount command leaves    *)
(* behind do not by themselves let a second run in.                        *)
THEOREM HvRunsExclude == Spec => []HvExclusive
<1>1. IInv => HvExclusive
  BY DEF IInv, Holders, Alone, HvExclusive
<1>2. QED
  BY <1>1, Invariance, PTL

(* Whatever the requests and the table are, how many runs and kills there  *)
(* are and when: as long as the lock is one, no line of a device is lost,  *)
(* but for what a run after a killed one overwrites.                       *)
THEOREM HvLinesKept == Spec => []LinesKept
<1>1. IInv => LinesKept
  BY DEF IInv, Table, Kept, LinesKept
<1>2. QED
  BY <1>1, Invariance, PTL

(* As long as the lock is one, no rewriting of a table that has one line   *)
(* for each device, in whatever order runs come and wherever they are      *)
(* killed, gives a device two.                                             *)
THEOREM HvOneLineEach == Spec => []OneLineEach
<1>1. IInv => OneLineEach
  BY DEF IInv, Table, Once, OneLineEach
<1>2. QED
  BY <1>1, Invariance, PTL

=============================================================================
