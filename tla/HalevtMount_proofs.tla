------------------------ MODULE HalevtMount_proofs ------------------------
(***************************************************************************)
(* What holds of the lock and of the table of halevt-mount, whatever       *)
(* number of runs there is (halevt-mount/halevt-mount.c).                  *)
(***************************************************************************)
EXTENDS HalevtMount, Loops, FiniteSetTheorems

-----------------------------------------------------------------------------
(* The table: what halevt_mount_print_udis writes,                         *)
(* halevt_mount_parse_file reads back; what the loops over the list leave. *)

(* The line written for an entry has the form parse_file expects, and no   *)
(* empty field of it is taken for a device or a mount point.               *)
LEMMA PrintedLine ==
    ASSUME NEW e \in TableEntry
    PROVE  PrintEntry(e) \in Line /\ ParseLine(PrintEntry(e)) = e
<1> DEFINE u == e.udi
           d == e.device
           m == e.mountpoint
<1>1. /\ u \in Udis /\ d \in Devices \cup {None} /\ m \in Mountpoints \cup {None}
      /\ e = [udi |-> u, device |-> d, mountpoint |-> m]
  BY DEF TableEntry
<1>2. CASE m # None
  <2>1. PrintEntry(e) = <<u, d, m>>
    BY <1>2 DEF PrintEntry
  <2>2. m \in Mountpoints
    BY <1>1, <1>2
  <2>3. QED
    BY <1>1, <2>1, <2>2 DEF Line, ParseLine
<1>3. CASE m = None /\ d # None
  <2>1. PrintEntry(e) = <<u, d>>
    BY <1>3 DEF PrintEntry
  <2>2. d \in Devices
    BY <1>1, <1>3
  <2>3. QED
    BY <1>1, <1>3, <2>1, <2>2 DEF Line, ParseLine
<1>4. CASE m = None /\ d = None
  <2>1. PrintEntry(e) = <<u>>
    BY <1>4 DEF PrintEntry
  <2>2. QED
    BY <1>1, <1>4, <2>1 DEF Line, ParseLine
<1>5. QED
  BY <1>2, <1>3, <1>4

(* Any lines of that form are read as entries.                             *)
LEMMA ReadEntries ==
    ASSUME NEW lines \in Seq(Line)
    PROVE  ParseFile(lines) \in Seq(TableEntry)
<1> DEFINE read == [i \in DOMAIN lines |-> ParseLine(lines[i])]
<1>1. ASSUME NEW line \in Line PROVE ParseLine(line) \in TableEntry
  <2>1. CASE \E u \in Udis : line = <<u>>
    BY <2>1 DEF ParseLine, TableEntry
  <2>2. CASE \E u \in Udis, d \in Devices : line = <<u, d>>
    BY <2>2 DEF ParseLine, TableEntry
  <2>3. CASE \E u \in Udis, d \in Devices \cup {None}, m \in Mountpoints :
                 line = <<u, d, m>>
    BY <2>3 DEF ParseLine, TableEntry
  <2>4. QED
    BY <2>1, <2>2, <2>3 DEF Line
<1>2. read \in Seq(TableEntry)
  <2>1. read = [i \in 1 .. Len(lines) |-> ParseLine(lines[i])]
    OBVIOUS
  <2>2. \A i \in 1 .. Len(lines) : ParseLine(lines[i]) \in TableEntry
    BY <1>1
  <2> HIDE DEF read
  <2>3. QED
    BY <2>1, <2>2
<1>3. QED
  BY <1>2 DEF ParseFile, Reverse

(* The table a run writes is the table the next run reads, in the opposite *)
(* order: halevt_mount_parse_file puts each line in front of the list.     *)
THEOREM TableRoundTrip ==
    ASSUME NEW list \in Seq(TableEntry)
    PROVE  /\ PrintUdis(list) \in Seq(Line)
           /\ ParseFile(PrintUdis(list)) = Reverse(list)
<1>1. /\ DOMAIN PrintUdis(list) = 1 .. Len(list)
      /\ \A i \in 1 .. Len(list) : /\ list[i] \in TableEntry
                                   /\ PrintUdis(list)[i] = PrintEntry(list[i])
  BY DEF PrintUdis
<1>2. \A i \in 1 .. Len(list) :
          PrintUdis(list)[i] \in Line /\ ParseLine(PrintUdis(list)[i]) = list[i]
  BY <1>1, PrintedLine
<1>3. PrintUdis(list) \in Seq(Line)
  <2>1. PrintUdis(list) = [i \in 1 .. Len(list) |-> PrintUdis(list)[i]]
    BY <1>1 DEF PrintUdis
  <2>2. QED
    BY <1>2, <2>1
<1>4. [i \in DOMAIN PrintUdis(list) |-> ParseLine(PrintUdis(list)[i])] = list
  <2>1. list = [i \in 1 .. Len(list) |-> list[i]]
    OBVIOUS
  <2>2. QED
    BY <1>1, <1>2, <2>1
<1>5. QED
  BY <1>3, <1>4 DEF ParseFile

(* What "clean" leaves are entries of the list, and not of the udis to be  *)
(* removed.                                                                *)
Members(list) == {list[i] : i \in DOMAIN list}

LEMMA RemoveAllLeaves ==
    ASSUME NEW E, NEW list \in Seq(E), NEW udis
    PROVE  RemoveAll(list, udis) \in Seq({e \in Members(list) : e.udi \notin udis})
<1> DEFINE N == Len(list)
           S == Seq({e \in Members(list) : e.udi \notin udis})
           Turn(v, n) == IF list[n].udi \in udis THEN RemoveUdi(v)
                         ELSE Append(v, list[n])
           turn == [n \in 1 .. N |-> [v \in S |-> Turn(v, n)]]
           Loop(g) == [n \in 0 .. N |->
               IF n = 0 THEN <<>>
               ELSE IF list[n].udi \in udis THEN RemoveUdi(g[n - 1])
               ELSE Append(g[n - 1], list[n])]
           kept == CHOOSE g : g = Loop(g)
<1>1. N \in Nat /\ DOMAIN list = 1 .. N
  OBVIOUS
<1>2. ASSUME NEW v \in S, NEW n \in 1 .. N PROVE Turn(v, n) \in S
  <2>1. CASE list[n].udi \in udis
    BY <2>1 DEF RemoveUdi
  <2>2. CASE list[n].udi \notin udis
    BY <1>1, <2>2 DEF Members
  <2>3. QED
    BY <2>1, <2>2
<1>3. turn \in [1 .. N -> [S -> S]]
  BY <1>2
<1>4. <<>> \in S
  OBVIOUS
<1>5. ASSUME NEW g
      PROVE  /\ DOMAIN Loop(g) = 0 .. N
             /\ Loop(g)[0] = <<>>
             /\ \A n \in 1 .. N : Loop(g)[n] = Turn(g[n - 1], n)
  <2> HIDE DEF N
  <2>1. QED
    BY <1>1
<1>6. \E g : g = Loop(g)
  <2>1. PICK g : IsLoop(g, N, S, <<>>, turn)
    <3> HIDE DEF S, turn, N
    <3>1. QED
      BY <1>1, <1>3, <1>4, LoopExists
  <2>2. \A n \in 1 .. N : g[n] = Turn(g[n - 1], n)
    <3> HIDE DEF S, Turn
    <3>1. QED
      BY <1>1, <2>1 DEF IsLoop
  <2>3. \A n \in 0 .. N : g[n] = Loop(g)[n]
    <3> HIDE DEF Turn, Loop
    <3>1. QED
      BY <1>1, <1>5, <2>1, <2>2 DEF IsLoop
  <2>4. g = [n \in 0 .. N |-> g[n]] /\ Loop(g) = [n \in 0 .. N |-> Loop(g)[n]]
    BY <2>1 DEF IsLoop
  <2>5. g = Loop(g)
    <3> HIDE DEF Loop
    <3>1. QED
      BY <2>3, <2>4
  <2>6. QED
    BY <2>5
<1>7. kept = Loop(kept)
  <2> HIDE DEF Loop
  <2>1. QED
    BY <1>6
<1> HIDE DEF kept
<1>8. ASSUME NEW n \in 1 .. N, kept[n - 1] \in S PROVE kept[n] \in S
  <2> HIDE DEF S, Turn, Loop
  <2>1. kept[n] = Turn(kept[n - 1], n)
    BY <1>5, <1>7
  <2>2. QED
    BY <1>2, <1>8, <2>1
<1>9. kept[N] \in S
  <2>1. kept[0] \in S
    <3> HIDE DEF S, Turn, Loop
    <3>1. QED
      BY <1>4, <1>5, <1>7
  <2> HIDE DEF S, N
  <2>2. QED
    BY <1>1, <1>8, <2>1, LoopKeeps
<1>10. RemoveAll(list, udis) = kept[N]
  BY DEF RemoveAll, kept
<1>11. QED
  BY <1>9, <1>10

(* halevt_mount_find_udi finds entries of the list that one of the fields  *)
(* fits.                                                                   *)
LEMMA FindUdiFinds ==
    ASSUME NEW E, NEW list \in Seq(E), NEW udi, NEW device, NEW mountpoint, NEW arg
    PROVE  FindUdi(list, udi, device, mountpoint, arg)
               \in Seq({e \in Members(list) : Fits(e, udi, device, mountpoint, arg)})
<1> DEFINE N == Len(list)
           Fit(e) == Fits(e, udi, device, mountpoint, arg)
           S == Seq({e \in Members(list) : Fit(e)})
           Turn(v, n) == IF Fit(list[n]) THEN Append(v, list[n]) ELSE v
           turn == [n \in 1 .. N |-> [v \in S |-> Turn(v, n)]]
           Loop(g) == [n \in 0 .. N |->
               IF n = 0 THEN <<>>
               ELSE IF Fits(list[n], udi, device, mountpoint, arg)
                    THEN Append(g[n - 1], list[n])
               ELSE g[n - 1]]
           found == CHOOSE g : g = Loop(g)
<1>1. N \in Nat /\ DOMAIN list = 1 .. N
  OBVIOUS
<1>2. ASSUME NEW v \in S, NEW n \in 1 .. N PROVE Turn(v, n) \in S
  <2>1. list[n] \in Members(list)
    BY <1>1 DEF Members
  <2> HIDE DEF Fit
  <2>2. QED
    BY <2>1
<1>3. turn \in [1 .. N -> [S -> S]]
  BY <1>2
<1>4. <<>> \in S
  OBVIOUS
<1>5. ASSUME NEW g
      PROVE  /\ DOMAIN Loop(g) = 0 .. N
             /\ Loop(g)[0] = <<>>
             /\ \A n \in 1 .. N : Loop(g)[n] = Turn(g[n - 1], n)
  <2> HIDE DEF N
  <2>1. QED
    BY <1>1
<1>6. \E g : g = Loop(g)
  <2>1. PICK g : IsLoop(g, N, S, <<>>, turn)
    <3> HIDE DEF S, turn, N
    <3>1. QED
      BY <1>1, <1>3, <1>4, LoopExists
  <2>2. \A n \in 1 .. N : g[n] = Turn(g[n - 1], n)
    <3> HIDE DEF S, Turn
    <3>1. QED
      BY <1>1, <2>1 DEF IsLoop
  <2>3. \A n \in 0 .. N : g[n] = Loop(g)[n]
    <3> HIDE DEF Turn, Loop
    <3>1. QED
      BY <1>1, <1>5, <2>1, <2>2 DEF IsLoop
  <2>4. g = [n \in 0 .. N |-> g[n]] /\ Loop(g) = [n \in 0 .. N |-> Loop(g)[n]]
    BY <2>1 DEF IsLoop
  <2>5. g = Loop(g)
    <3> HIDE DEF Loop
    <3>1. QED
      BY <2>3, <2>4
  <2>6. QED
    BY <2>5
<1>7. found = Loop(found)
  <2> HIDE DEF Loop
  <2>1. QED
    BY <1>6
<1> HIDE DEF found
<1>8. ASSUME NEW n \in 1 .. N, found[n - 1] \in S PROVE found[n] \in S
  <2> HIDE DEF S, Turn, Loop
  <2>1. found[n] = Turn(found[n - 1], n)
    BY <1>5, <1>7
  <2>2. QED
    BY <1>2, <1>8, <2>1
<1>9. found[N] \in S
  <2>1. found[0] \in S
    <3> HIDE DEF S, Turn, Loop
    <3>1. QED
      BY <1>4, <1>5, <1>7
  <2> HIDE DEF S, N
  <2>2. QED
    BY <1>1, <1>8, <2>1, LoopKeeps
<1>10. FindUdi(list, udi, device, mountpoint, arg) = found[N]
  BY DEF FindUdi, found
<1>11. QED
  BY <1>9, <1>10

-----------------------------------------------------------------------------
(* The invariant.                                                          *)

Labels == {"idle", "open", "lock", "tmp", "cleanall", "parse", "check", "ask",
           "umount", "rewrite", "write", "mount", "rename", "end", "close", "exit"}

(* The files, and what HAL has.                                            *)
FilesOK ==
    /\ hal \in [Udis -> HalVolume \cup {Gone}]
    /\ lockname \in LockFiles \cup {NoFile}
    /\ tab \in Files \cup {NoFile} /\ tmp \in Files \cup {NoFile}
    /\ tab # NoFile => tab # tmp
    /\ content \in [Files -> Seq(Line)]
    /\ promised \subseteq Known /\ mishaps \subseteq Mishaps

(* Every variable of the runs has a value for each run.                    *)
Shape ==
    /\ pc \in [Procs -> Labels]
    /\ req \in [Procs -> Requests \cup {NoRequest}]
    /\ fd \in [Procs -> LockFiles \cup {NoFile}]
    /\ front \in [Procs -> Seq(TableEntry)] /\ rest \in [Procs -> Seq(TableEntry)]
    /\ target \in [Procs -> Udis \cup {None}]
    /\ out \in [Procs -> [file : Files \cup {NoFile}, lines : Seq(Line)]]
    /\ steady \in [Procs -> SUBSET Udis]

(* What the place in main() says of the lock, of the list and of the file  *)
(* that is written.                                                        *)
Place(p) ==
    /\ pc[p] \in {"idle", "open", "exit"} => fd[p] = NoFile
    /\ fd[p] = NoFile => pc[p] \in {"idle", "open", "exit"} \/ "unlocked" \in mishaps
    /\ pc[p] \in {"idle", "open", "lock", "tmp", "parse"} => front[p] = <<>>
    /\ pc[p] = "ask" => rest[p] # <<>>
    /\ pc[p] \in {"write", "mount"} => target[p] \in Udis
    /\ pc[p] = "rewrite" => req[p].cmd \in {"sync", "clean"}
    /\ pc[p] \in {"mount", "rename"} => out[p].file # NoFile
    /\ out[p].file # NoFile => pc[p] \in {"mount", "rename", "end", "close", "exit"}

(* The device file of an entry is that of HAL, and the mount point is,     *)
(* unless HAL has changed for its udi.                                     *)
DeviceOf(p, e) == e.udi \in steady[p] => e.udi \in Known /\ e.device = hal[e.udi].device
MountOf(p, e) == e.udi \in steady[p] => e.mountpoint = hal[e.udi].mountpoint

(* The entries dealt with are those of HAL, and of the one that is asked   *)
(* about its device file already is.                                       *)
Read(p) ==
    /\ pc[p] \in {"check", "ask", "rewrite", "write"} =>
          \A i \in DOMAIN front[p] : DeviceOf(p, front[p][i]) /\ MountOf(p, front[p][i])
    /\ pc[p] = "ask" => DeviceOf(p, Head(rest[p]))

IInv == FilesOK /\ Shape /\ \A p \in Procs : Place(p) /\ Read(p)

(* What a step of another run, or of HAL, leaves of a run; what has gone   *)
(* wrong is not undone.                                                    *)
Untouched(q) ==
    /\ pc'[q] = pc[q] /\ req'[q] = req[q] /\ fd'[q] = fd[q]
    /\ front'[q] = front[q] /\ rest'[q] = rest[q]
    /\ target'[q] = target[q] /\ out'[q] = out[q]
    /\ \A u \in Udis : u \in steady'[q] => u \in steady[q] /\ hal'[u] = hal[u]
    /\ mishaps \subseteq mishaps'

-----------------------------------------------------------------------------
(* Among n files there is one that is not one of fewer than n.             *)
LEMMA OneIsFree ==
    ASSUME NEW n \in Nat, NEW T, IsFiniteSet(T), Cardinality(T) < n
    PROVE  \E f \in 1 .. n : f \notin T
<1>1. SUFFICES ASSUME 1 .. n \in SUBSET T PROVE FALSE
  OBVIOUS
<1>2. Cardinality(1 .. n) <= Cardinality(T)
  BY <1>1, FS_Subset
<1>3. Cardinality(1 .. n) = n
  BY FS_Interval
<1>4. Cardinality(T) \in Nat
  BY FS_CardinalityType
<1>5. QED
  BY <1>2, <1>3, <1>4

(* There are not more of something that each run has one of than runs.     *)
LEMMA OneEach ==
    ASSUME NEW f
    PROVE  LET T == {f[q] : q \in Procs}
           IN  /\ IsFiniteSet(T) /\ Cardinality(T) \in Nat
               /\ Cardinality(Procs) \in Nat
               /\ Cardinality(T) <= Cardinality(Procs)
<1> DEFINE T == {f[q] : q \in Procs}
           g == [q \in Procs |-> f[q]]
<1>1. g \in Surjection(Procs, T)
  BY DEF Surjection
<1>2. IsFiniteSet(Procs)
  BY MountAssumption
<1> HIDE DEF T, g
<1>3. IsFiniteSet(T) /\ Cardinality(T) <= Cardinality(Procs)
  BY <1>1, <1>2, FS_Surjection
<1>4. Cardinality(T) \in Nat /\ Cardinality(Procs) \in Nat
  BY <1>2, <1>3, FS_CardinalityType
<1>5. QED
  BY <1>3, <1>4 DEF T

LEMMA LockFileIsFree == \E f \in LockFiles : \A q \in Procs : fd[q] # f
<1> DEFINE T == {fd[q] : q \in Procs}
<1>1. /\ IsFiniteSet(T) /\ Cardinality(T) \in Nat /\ Cardinality(Procs) \in Nat
      /\ Cardinality(T) <= Cardinality(Procs)
  BY OneEach
<1>2. \E f \in 1 .. (Cardinality(Procs) + 1) : f \notin T
  <2> HIDE DEF T
  <2>1. QED
    BY <1>1, OneIsFree
<1>3. QED
  BY <1>2 DEF LockFiles

LEMMA FileIsFree ==
    \E f \in Files : f # tab /\ \A q \in Procs : out[q].file # f
<1> DEFINE g == [q \in Procs |-> out[q].file]
           T == {g[q] : q \in Procs}
           U == T \cup {tab}
<1>1. /\ IsFiniteSet(T) /\ Cardinality(T) \in Nat /\ Cardinality(Procs) \in Nat
      /\ Cardinality(T) <= Cardinality(Procs)
  <2> HIDE DEF g
  <2>1. QED
    BY OneEach
<1>2. IsFiniteSet(U) /\ Cardinality(U) <= Cardinality(Procs) + 1 /\ Cardinality(U) \in Nat
  <2> HIDE DEF T
  <2>1. QED
    BY <1>1, FS_AddElement, FS_CardinalityType, SMTT(30)
<1>3. \E f \in 1 .. (Cardinality(Procs) + 3) : f \notin U
  <2> HIDE DEF T, U
  <2>1. Cardinality(U) < Cardinality(Procs) + 3 /\ Cardinality(Procs) + 3 \in Nat
    BY <1>1, <1>2
  <2>2. QED
    BY <1>2, <2>1, OneIsFree
<1>4. QED
  BY <1>3 DEF Files

(* A run a step does not touch keeps its place and its list.               *)
LEMMA UntouchedKeeps ==
    ASSUME IInv, NEW q \in Procs, Untouched(q)
    PROVE  (Place(q) /\ Read(q))'
<1>1. Place(q)'
  BY DEF IInv, Place, Untouched
<1>2. ASSUME NEW e \in TableEntry, DeviceOf(q, e)
      PROVE  e.udi \in steady'[q] =>
                 e.udi \in Known' /\ e.device = hal'[e.udi].device
  BY <1>2 DEF Untouched, DeviceOf, Known, TableEntry
<1>3. ASSUME NEW e \in TableEntry, MountOf(q, e)
      PROVE  e.udi \in steady'[q] => e.mountpoint = hal'[e.udi].mountpoint
  BY <1>3 DEF Untouched, MountOf, Known, TableEntry
<1>4. front[q] \in Seq(TableEntry) /\ rest[q] \in Seq(TableEntry)
  BY DEF IInv, Shape
<1>5. \A i \in DOMAIN front[q] : front[q][i] \in TableEntry
  BY <1>4
<1>6. rest[q] # <<>> => Head(rest[q]) \in TableEntry
  BY <1>4
<1>7. pc[q] \in {"check", "ask", "rewrite", "write"} =>
          \A i \in DOMAIN front'[q] : DeviceOf(q, front[q][i])' /\ MountOf(q, front[q][i])'
  BY <1>2, <1>3, <1>5 DEF IInv, Read, Untouched, DeviceOf, MountOf
<1>8. pc[q] = "ask" => DeviceOf(q, Head(rest[q]))'
  BY <1>2, <1>6 DEF IInv, Place, Read, Untouched, DeviceOf
<1>9. QED
  BY <1>1, <1>7, <1>8 DEF Read, Untouched

(* So of a step only its effect on the files and on the run it is of has   *)
(* to be looked at.                                                        *)
LEMMA StepKeeps ==
    ASSUME IInv, NEW p \in Procs, FilesOK', Shape', Place(p)', Read(p)',
           \A q \in Procs \ {p} : Untouched(q)
    PROVE  IInv'
<1>1. \A q \in Procs \ {p} : (Place(q) /\ Read(q))'
  BY UntouchedKeeps
<1>2. QED
  BY <1>1 DEF IInv

LEMMA FilesKeep ==
    ASSUME FilesOK, UNCHANGED <<hal, names, promised, mishaps>>
    PROVE  FilesOK'
BY DEF FilesOK, names, Known

LEMMA StrikesKeep ==
    ASSUME FilesOK, UNCHANGED <<hal, names, promised>>,
           NEW mishap \in Mishaps, NEW condition,
           Strikes(mishap) \/ StrikesIf(condition, mishap)
    PROVE  FilesOK' /\ mishaps \subseteq mishaps'
BY DEF FilesOK, names, Known, Strikes, StrikesIf

(* What changes the place of a run only.                                   *)
LEMMA GotoKeeps ==
    ASSUME IInv, NEW p \in Procs, NEW label \in Labels, Goto(p, label),
           UNCHANGED <<hal, req, fd, lists, out, steady>>,
           FilesOK', Place(p)', mishaps \subseteq mishaps', label # "ask",
           label \in {"check", "rewrite", "write"} => pc[p] = "check"
    PROVE  IInv'
<1>1. Shape'
  BY DEF IInv, Shape, Goto, lists
<1>2. Read(p)'
  BY DEF IInv, Shape, Read, Goto, lists, DeviceOf, MountOf, Known
<1>3. \A q \in Procs \ {p} : Untouched(q)
  BY DEF IInv, Shape, Untouched, Goto, lists
<1>4. QED
  BY <1>1, <1>2, <1>3, StepKeeps

(* A run that has ended has forgotten everything.                          *)
LEMMA ForgetKeeps ==
    ASSUME IInv, NEW p \in Procs, Forget(p), UNCHANGED hal, FilesOK',
           mishaps \subseteq mishaps',
           fd' \in [Procs -> LockFiles \cup {NoFile}], fd'[p] = NoFile,
           \A q \in Procs \ {p} : fd'[q] = fd[q]
    PROVE  IInv'
<1>1. /\ pc' = [pc EXCEPT ![p] = "idle"]
      /\ req' = [req EXCEPT ![p] = NoRequest]
      /\ front' = [front EXCEPT ![p] = <<>>]
      /\ rest' = [rest EXCEPT ![p] = <<>>]
      /\ target' = [target EXCEPT ![p] = None]
      /\ out' = [out EXCEPT ![p] = NoOutput]
      /\ steady' = [steady EXCEPT ![p] = {}]
  BY DEF Forget, Goto
<1>2. NoOutput \in [file : Files \cup {NoFile}, lines : Seq(Line)]
  BY DEF NoOutput
<1>3. Shape'
  BY <1>1, <1>2 DEF IInv, Shape, Labels
<1>4. Place(p)'
  BY <1>1 DEF IInv, Shape, Place, NoOutput
<1>5. Read(p)'
  BY <1>1 DEF IInv, Shape, Read
<1>6. \A q \in Procs \ {p} : Untouched(q)
  BY <1>1 DEF IInv, Shape, Untouched
<1>7. QED
  BY <1>3, <1>4, <1>5, <1>6, StepKeeps

(* What exit() writes is a table.                                          *)
LEMMA FlushKeeps ==
    ASSUME IInv, NEW p \in Procs, Flush(p)
    PROVE  content' \in [Files -> Seq(Line)]
<1>1. out[p].file \in Files \cup {NoFile} /\ out[p].lines \in Seq(Line)
  BY DEF IInv, Shape
<1>2. QED
  BY <1>1 DEF Flush, IInv, FilesOK

LEMMA FailKeeps ==
    ASSUME IInv, NEW p \in Procs, Fail(p)
    PROVE  IInv'
<1>1. content' \in [Files -> Seq(Line)]
  BY FlushKeeps DEF Fail
<1>2. FilesOK'
  BY <1>1 DEF IInv, FilesOK, Fail, Known
<1>3. fd' = [fd EXCEPT ![p] = NoFile] /\ Forget(p) /\ UNCHANGED <<hal, mishaps>>
  BY DEF Fail
<1>4. QED
  BY <1>2, <1>3, ForgetKeeps DEF IInv, Shape

LEMMA KillKeeps ==
    ASSUME IInv, NEW p \in Procs, Kill(p)
    PROVE  IInv'
<1>1. UNCHANGED <<hal, names, promised>>
  BY DEF Kill
<1>2. FilesOK' /\ mishaps \subseteq mishaps'
  BY <1>1, StrikesKeep DEF Kill, IInv, Mishaps
<1>3. fd' = [fd EXCEPT ![p] = NoFile] /\ Forget(p)
  BY DEF Kill
<1>4. QED
  BY <1>1, <1>2, <1>3, ForgetKeeps DEF IInv, Shape

LEMMA ExitKeeps ==
    ASSUME IInv, NEW p \in Procs, Exit(p)
    PROVE  IInv'
<1>1. content' \in [Files -> Seq(Line)]
  BY FlushKeeps DEF Exit
<1>2. promised' \subseteq Known'
  BY DEF IInv, FilesOK, Exit, Known
<1>3. FilesOK'
  BY <1>1, <1>2 DEF IInv, FilesOK, Exit
<1>4. fd[p] = NoFile /\ fd' = fd /\ Forget(p) /\ UNCHANGED <<hal, mishaps>>
  BY DEF Exit, IInv, Place
<1>5. QED
  BY <1>3, <1>4, ForgetKeeps DEF IInv, Shape

(* The lock.                                                               *)
LEMMA StartKeeps ==
    ASSUME IInv, NEW p \in Procs, Start(p)
    PROVE  IInv'
<1>1. PICK r \in Requests : req' = [req EXCEPT ![p] = r]
  BY DEF Start
<1>2. pc[p] = "idle" /\ pc' = [pc EXCEPT ![p] = "open"]
  BY DEF Start, Goto
<1>3. UNCHANGED <<hal, names, fd, front, rest, target, out, promised, steady, mishaps>>
  BY DEF Start, lists, ghosts
<1>4. FilesOK'
  BY <1>3, FilesKeep DEF IInv
<1>5. Shape'
  BY <1>1, <1>2, <1>3 DEF IInv, Shape, Labels
<1>6. Place(p)' /\ Read(p)'
  BY <1>1, <1>2, <1>3 DEF IInv, Shape, Place, Read
<1>7. \A q \in Procs \ {p} : Untouched(q)
  BY <1>1, <1>2, <1>3 DEF IInv, Shape, Untouched
<1>8. QED
  BY <1>4, <1>5, <1>6, <1>7, StepKeeps

LEMMA OpenLockKeeps ==
    ASSUME IInv, NEW p \in Procs, OpenLock(p)
    PROVE  IInv'
<1>1. PICK file : file \in LockFiles /\ lockname' = file /\ fd' = [fd EXCEPT ![p] = file]
  BY LockFileIsFree DEF OpenLock, IInv, FilesOK
<1>2. file # NoFile
  BY <1>1, MountAssumption
<1>3. pc[p] = "open" /\ pc' = [pc EXCEPT ![p] = "lock"]
  BY DEF OpenLock, Goto
<1>4. UNCHANGED <<hal, tab, tmp, content, req, front, rest, target, out, promised, steady>>
  BY DEF OpenLock, lists
<1>5. FilesOK' /\ mishaps \subseteq mishaps'
  BY <1>1, <1>4 DEF IInv, FilesOK, Known, OpenLock, StrikesIf, Mishaps
<1>6. Shape'
  BY <1>1, <1>3, <1>4 DEF IInv, Shape, Labels
<1>7. Place(p)' /\ Read(p)'
  BY <1>1, <1>2, <1>3, <1>4 DEF IInv, Shape, Place, Read
<1>8. \A q \in Procs \ {p} : Untouched(q)
  BY <1>1, <1>3, <1>4, <1>5 DEF IInv, Shape, Untouched
<1>9. QED
  BY <1>5, <1>6, <1>7, <1>8, StepKeeps

LEMMA LockKeeps ==
    ASSUME IInv, NEW p \in Procs, Lock(p) \/ LockUnopened(p)
    PROVE  IInv'
<1>1. FilesOK' /\ mishaps' = mishaps
  BY FilesKeep DEF IInv, Lock, LockUnopened, ghosts
<1>2. Place(p)'
  BY DEF IInv, Shape, Place, Lock, LockUnopened, Goto, lists, ghosts
<1>3. QED
  BY <1>1, <1>2, GotoKeeps DEF Lock, LockUnopened, ghosts, Labels

(* What failed is not looked at, so the run has no lock where main() needs *)
(* one.                                                                    *)
LEMMA UnlockedKeeps ==
    ASSUME IInv, NEW p \in Procs, OpenFails(p) \/ LockFails(p)
    PROVE  IInv'
<1>1. UNCHANGED <<hal, names, req, front, rest, target, out, promised, steady>>
  BY DEF OpenFails, LockFails, lists
<1>2. FilesOK' /\ mishaps \subseteq mishaps' /\ "unlocked" \in mishaps'
  BY <1>1, StrikesKeep DEF OpenFails, LockFails, Strikes, IInv, Mishaps
<1>3. /\ pc[p] \in {"open", "lock"}
      /\ \E label \in {"lock", "tmp"} : pc' = [pc EXCEPT ![p] = label]
      /\ fd' = [fd EXCEPT ![p] = NoFile]
  BY DEF OpenFails, LockFails, Goto, IInv, Shape, Place
<1>4. Shape'
  BY <1>1, <1>3 DEF IInv, Shape, Labels
<1>5. Place(p)' /\ Read(p)'
  BY <1>1, <1>2, <1>3 DEF IInv, Shape, Place, Read
<1>6. \A q \in Procs \ {p} : Untouched(q)
  BY <1>1, <1>2, <1>3 DEF IInv, Shape, Untouched
<1>7. QED
  BY <1>2, <1>4, <1>5, <1>6, StepKeeps

LEMMA CloseLockKeeps ==
    ASSUME IInv, NEW p \in Procs, CloseLock(p)
    PROVE  IInv'
<1>1. FilesOK'
  BY FilesKeep DEF IInv, CloseLock, ghosts
<1>2. /\ pc[p] = "close" /\ pc' = [pc EXCEPT ![p] = "exit"]
      /\ fd' = [fd EXCEPT ![p] = NoFile]
  BY DEF CloseLock, Goto
<1>3. UNCHANGED <<hal, req, front, rest, target, out, steady, mishaps>>
  BY DEF CloseLock, lists, ghosts
<1>4. Shape'
  BY <1>2, <1>3 DEF IInv, Shape, Labels
<1>5. Place(p)' /\ Read(p)'
  BY <1>2, <1>3 DEF IInv, Shape, Place, Read
<1>6. \A q \in Procs \ {p} : Untouched(q)
  BY <1>2, <1>3 DEF IInv, Shape, Untouched
<1>7. QED
  BY <1>1, <1>4, <1>5, <1>6, StepKeeps

(* The steps that change a name and go on.                                 *)
LEMMA NameStepsKeep ==
    ASSUME IInv, NEW p \in Procs,
           \/ RemoveTmp(p) \/ CleanAll(p) \/ UnlinkLock(p) \/ RemoveTable(p) \/ Rename(p)
    PROVE  IInv'
<1>1. CASE RemoveTmp(p)
  <2>1. PICK label \in {"cleanall", "end", "parse"} : Goto(p, label)
    BY <1>1 DEF RemoveTmp
  <2>2. FilesOK'
    BY <1>1 DEF IInv, FilesOK, RemoveTmp, Known, ghosts
  <2>3. Place(p)'
    BY <1>1, <2>1 DEF IInv, Shape, Place, RemoveTmp, Goto, lists, ghosts
  <2>4. QED
    BY <1>1, <2>1, <2>2, <2>3, GotoKeeps DEF RemoveTmp, Labels, ghosts
<1>2. CASE CleanAll(p)
  <2>1. FilesOK'
    BY <1>2 DEF IInv, FilesOK, CleanAll
  <2>2. Place(p)'
    BY <1>2 DEF IInv, Shape, Place, CleanAll, Goto, lists
  <2>3. QED
    BY <1>2, <2>1, <2>2, GotoKeeps DEF CleanAll, Labels
<1>3. CASE UnlinkLock(p)
  <2>1. FilesOK'
    BY <1>3 DEF IInv, FilesOK, UnlinkLock, Known, ghosts
  <2>2. Place(p)'
    BY <1>3 DEF IInv, Shape, Place, UnlinkLock, Goto, lists, ghosts
  <2>3. QED
    BY <1>3, <2>1, <2>2, GotoKeeps DEF UnlinkLock, Labels, ghosts
<1>4. CASE RemoveTable(p)
  <2>1. FilesOK'
    BY <1>4 DEF IInv, FilesOK, RemoveTable, Known, ghosts
  <2>2. Place(p)'
    BY <1>4 DEF IInv, Shape, Place, RemoveTable, Goto, lists, ghosts
  <2>3. QED
    BY <1>4, <2>1, <2>2, GotoKeeps DEF RemoveTable, Labels, ghosts
<1>5. CASE Rename(p)
  <2>1. FilesOK'
    BY <1>5 DEF IInv, FilesOK, Rename, Known
  <2>2. Place(p)'
    BY <1>5 DEF IInv, Shape, Place, Rename, Goto, lists
  <2>3. QED
    BY <1>5, <2>1, <2>2, GotoKeeps DEF Rename, Labels
<1>6. QED
  BY <1>1, <1>2, <1>3, <1>4, <1>5

(* The loop of halevt_mount_sync_udi.                                      *)
LEMMA ParseKeeps ==
    ASSUME IInv, NEW p \in Procs, Parse(p)
    PROVE  IInv'
<1> DEFINE read == IF tab = NoFile THEN <<>> ELSE ParseFile(content[tab])
<1>1. read \in Seq(TableEntry)
  <2>1. tab # NoFile => content[tab] \in Seq(Line)
    BY DEF IInv, FilesOK
  <2>2. QED
    BY <2>1, ReadEntries
<1>2. /\ pc[p] = "parse" /\ pc' = [pc EXCEPT ![p] = "check"]
      /\ rest' = [rest EXCEPT ![p] = read]
      /\ steady' = [steady EXCEPT ![p] = Udis]
  BY DEF Parse, Goto
<1>3. UNCHANGED <<hal, names, req, fd, front, target, out, promised>>
  BY DEF Parse
<1> HIDE DEF read
<1>4. FilesOK' /\ mishaps \subseteq mishaps'
  BY <1>3, StrikesKeep DEF Parse, IInv, Mishaps
<1>5. Shape'
  BY <1>1, <1>2, <1>3 DEF IInv, Shape, Labels
<1>6. Place(p)'
  BY <1>2, <1>3, <1>4 DEF IInv, Shape, Place
<1>7. Read(p)'
  <2>1. front'[p] = <<>> /\ pc'[p] = "check"
    BY <1>2, <1>3 DEF IInv, Shape, Place
  <2>2. QED
    BY <2>1 DEF Read
<1>8. \A q \in Procs \ {p} : Untouched(q)
  BY <1>2, <1>3, <1>4 DEF IInv, Shape, Untouched
<1>9. QED
  BY <1>4, <1>5, <1>6, <1>7, <1>8, StepKeeps

(* The entry that is looked at, and what is behind it.                     *)
LEMMA CurrentEntry ==
    ASSUME IInv, NEW p \in Procs, rest[p] # <<>>
    PROVE  /\ Current(p) \in TableEntry
           /\ Tail(rest[p]) \in Seq(TableEntry)
BY DEF IInv, Shape, Current

LEMMA ListStrikes ==
    ASSUME IInv, NEW p \in Procs, UNCHANGED <<hal, names, promised>>,
           Drop(p) \/ UNCHANGED mishaps \/ \E e : Keep(p, e)
    PROVE  FilesOK' /\ mishaps \subseteq mishaps'
<1>1. CASE UNCHANGED mishaps
  BY <1>1, FilesKeep DEF IInv
<1>2. CASE Drop(p)
  BY <1>2, StrikesKeep DEF Drop, IInv, Mishaps
<1>3. QED
  BY <1>1, <1>2 DEF Keep

(* Dropped, an entry may take the one in front of it along, but the others *)
(* stay; kept, an entry that is as HAL has it comes behind them.           *)
LEMMA FrontKept ==
    ASSUME IInv, NEW p \in Procs, pc[p] \in {"check", "ask"},
           \/ Drop(p)
           \/ UNCHANGED front
           \/ \E e \in TableEntry : Keep(p, e) /\ DeviceOf(p, e) /\ MountOf(p, e)
    PROVE  /\ front' \in [Procs -> Seq(TableEntry)]
           /\ \A i \in DOMAIN front'[p] :
                 DeviceOf(p, front'[p][i]) /\ MountOf(p, front'[p][i])
<1> DEFINE Good(e) == DeviceOf(p, e) /\ MountOf(p, e)
<1>1. /\ front \in [Procs -> Seq(TableEntry)]
      /\ \A i \in DOMAIN front[p] : Good(front[p][i])
  BY DEF IInv, Shape, Read
<1>2. SUFFICES /\ front' \in [Procs -> Seq(TableEntry)]
               /\ \A i \in DOMAIN front'[p] : Good(front'[p][i])
  OBVIOUS
<1> HIDE DEF Good
<1>3. CASE Drop(p)
  <2>1. front' = [front EXCEPT ![p] = RemoveUdi(front[p])]
    BY <1>3 DEF Drop
  <2>2. RemoveUdi(front[p]) = <<>> \/ RemoveUdi(front[p]) = front[p]
    BY DEF RemoveUdi
  <2>3. CASE RemoveUdi(front[p]) = <<>>
    <3>1. front' = [front EXCEPT ![p] = <<>>] /\ <<>> \in Seq(TableEntry)
      BY <2>1, <2>3
    <3>2. DOMAIN front'[p] = {}
      BY <1>1, <3>1
    <3>3. QED
      BY <1>1, <3>1, <3>2
  <2>4. CASE RemoveUdi(front[p]) = front[p]
    BY <1>1, <2>1, <2>4
  <2>5. QED
    BY <2>2, <2>3, <2>4
<1>4. CASE UNCHANGED front
  BY <1>1, <1>4
<1>5. ASSUME NEW e \in TableEntry, Keep(p, e), Good(e)
      PROVE  /\ front' \in [Procs -> Seq(TableEntry)]
             /\ \A i \in DOMAIN front'[p] : Good(front'[p][i])
  <2> DEFINE new == Append(front[p], e)
  <2>1. front' = [front EXCEPT ![p] = new]
    BY <1>5 DEF Keep
  <2>2. front[p] \in Seq(TableEntry) /\ DOMAIN front[p] = 1 .. Len(front[p])
    BY <1>1
  <2>3. /\ new \in Seq(TableEntry)
        /\ DOMAIN new = 1 .. (Len(front[p]) + 1)
        /\ \A i \in 1 .. (Len(front[p]) + 1) :
              new[i] = IF i = Len(front[p]) + 1 THEN e ELSE front[p][i]
    BY <2>2
  <2> HIDE DEF new
  <2>4. \A i \in DOMAIN new : Good(new[i])
    BY <1>1, <1>5, <2>2, <2>3
  <2>5. front' \in [Procs -> Seq(TableEntry)] /\ front'[p] = new
    BY <1>1, <2>1, <2>3
  <2>6. QED
    BY <2>4, <2>5
<1>6. QED
  BY <1>3, <1>4, <1>5 DEF Good

LEMMA CheckUdiKeeps ==
    ASSUME IInv, NEW p \in Procs, CheckUdi(p)
    PROVE  IInv'
<1> DEFINE e == Current(p)
           d == hal[e.udi].device
<1>1. pc[p] = "check" /\ rest[p] # <<>>
  BY DEF CheckUdi
<1>2. e \in TableEntry /\ Tail(rest[p]) \in Seq(TableEntry)
  BY <1>1, CurrentEntry
<1>3. UNCHANGED <<hal, names, req, fd, target, out, promised, steady>>
  BY DEF CheckUdi
<1>4. FilesOK' /\ mishaps \subseteq mishaps'
  BY <1>3, ListStrikes DEF CheckUdi
<1>5. CASE e.udi \notin Known
  <2>1. /\ Drop(p) /\ pc' = pc
        /\ front' = [front EXCEPT ![p] = RemoveUdi(front[p])]
        /\ rest' = [rest EXCEPT ![p] = Tail(rest[p])]
    BY <1>5 DEF CheckUdi, Drop
  <2>2. /\ front' \in [Procs -> Seq(TableEntry)]
        /\ \A i \in DOMAIN front'[p] : DeviceOf(p, front'[p][i]) /\ MountOf(p, front'[p][i])
    BY <1>1, <2>1, FrontKept
  <2>3. Shape'
    BY <1>2, <1>3, <2>1, <2>2 DEF IInv, Shape
  <2>4. Place(p)'
    BY <1>1, <1>3, <1>4, <2>1 DEF IInv, Place
  <2>5. Read(p)'
    BY <1>1, <1>3, <2>1, <2>2 DEF Read, DeviceOf, MountOf, Known
  <2>6. \A q \in Procs \ {p} : Untouched(q)
    BY <1>3, <1>4, <2>1 DEF IInv, Shape, Untouched
  <2>7. QED
    BY <1>4, <2>3, <2>4, <2>5, <2>6, StepKeeps
<1>6. CASE e.udi \in Known
  <2>1. /\ pc' = [pc EXCEPT ![p] = "ask"] /\ front' = front
        /\ rest' = [rest EXCEPT ![p][1].device = d]
    BY <1>6 DEF CheckUdi, Goto
  <2>2. d \in Devices /\ hal[e.udi] # Gone
    BY <1>2, <1>6 DEF Known, IInv, FilesOK, HalVolume
  <2> DEFINE f == [e EXCEPT !.device = d]
  <2>3. f \in TableEntry /\ f.udi = e.udi /\ f.device = d
    BY <1>2, <2>2 DEF TableEntry
  <2>4. rest[p] \in Seq(TableEntry) /\ e = rest[p][1]
    BY <1>1 DEF IInv, Shape, Current
  <2>5. rest' = [rest EXCEPT ![p] = [rest[p] EXCEPT ![1] = f]]
    BY <2>1, <2>4 DEF IInv, Shape
  <2> HIDE DEF d, f, e
  <2>6. /\ [rest[p] EXCEPT ![1] = f] \in Seq(TableEntry)
        /\ [rest[p] EXCEPT ![1] = f] # <<>>
        /\ Head([rest[p] EXCEPT ![1] = f]) = f
    BY <1>1, <2>3, <2>4
  <2>7. rest' \in [Procs -> Seq(TableEntry)] /\ rest'[p] # <<>> /\ Head(rest'[p]) = f
    BY <2>5, <2>6 DEF IInv, Shape
  <2>8. Shape'
    BY <1>3, <2>1, <2>7 DEF IInv, Shape, Labels
  <2>9. Place(p)'
    BY <1>1, <1>3, <1>4, <2>1, <2>7 DEF IInv, Shape, Place
  <2>10. Read(p)'
    <3>1. \A i \in DOMAIN front[p] : DeviceOf(p, front[p][i]) /\ MountOf(p, front[p][i])
      BY <1>1 DEF IInv, Read
    <3>2. DeviceOf(p, f)
      BY <1>6, <2>3 DEF DeviceOf, d
    <3>3. QED
      BY <1>3, <2>1, <2>7, <3>1, <3>2 DEF Read, DeviceOf, MountOf, Known, IInv, Shape
  <2>11. \A q \in Procs \ {p} : Untouched(q)
    BY <1>3, <1>4, <2>1, <2>5 DEF IInv, Shape, Untouched
  <2>12. QED
    BY <1>4, <2>8, <2>9, <2>10, <2>11, StepKeeps
<1>7. QED
  BY <1>5, <1>6

LEMMA ReadUdiKeeps ==
    ASSUME IInv, NEW p \in Procs, ReadUdi(p)
    PROVE  IInv'
<1> DEFINE e == Current(p)
<1>1. /\ pc[p] = "ask" /\ rest[p] # <<>>
      /\ pc' = [pc EXCEPT ![p] = "check"]
  BY DEF ReadUdi, Goto, IInv, Place
<1>2. e \in TableEntry /\ Tail(rest[p]) \in Seq(TableEntry)
  BY <1>1, CurrentEntry
<1>3. UNCHANGED <<hal, names, req, fd, target, out, promised, steady>>
  BY DEF ReadUdi
<1>4. FilesOK' /\ mishaps \subseteq mishaps'
  BY <1>3, ListStrikes DEF ReadUdi
<1>5. DeviceOf(p, e)
  BY <1>1 DEF IInv, Read, Current
<1>6. Drop(p) \/ \E f \in TableEntry : Keep(p, f) /\ DeviceOf(p, f) /\ MountOf(p, f)
  <2>1. CASE e.udi \in Known
    <3> DEFINE m == hal[e.udi].mountpoint
               f == [e EXCEPT !.mountpoint = m]
    <3>1. Keep(p, f)
      BY <2>1 DEF ReadUdi
    <3>2. m \in Mountpoints \cup {None}
      BY <1>2, <2>1 DEF IInv, FilesOK, HalVolume, Known, TableEntry
    <3> HIDE DEF m, e
    <3>3. f \in TableEntry /\ f.udi = e.udi /\ f.device = e.device /\ f.mountpoint = m
      BY <1>2, <3>2 DEF TableEntry
    <3>4. DeviceOf(p, f) /\ MountOf(p, f)
      BY <1>5, <3>3 DEF DeviceOf, MountOf, m
    <3>5. QED
      BY <3>1, <3>3, <3>4
  <2>2. CASE e.udi \notin Known
    <3> DEFINE f == [e EXCEPT !.mountpoint = None]
    <3>1. Drop(p) \/ Keep(p, f)
      BY <2>2 DEF ReadUdi
    <3> HIDE DEF e
    <3>2. f \in TableEntry /\ f.udi = e.udi /\ f.device = e.device
      BY <1>2 DEF TableEntry
    <3>3. DeviceOf(p, f) /\ MountOf(p, f)
      BY <1>5, <2>2, <3>2 DEF DeviceOf, MountOf
    <3>4. QED
      BY <3>1, <3>2, <3>3
  <2>3. QED
    BY <2>1, <2>2
<1>7. /\ front' \in [Procs -> Seq(TableEntry)]
      /\ \A i \in DOMAIN front'[p] : DeviceOf(p, front'[p][i]) /\ MountOf(p, front'[p][i])
  BY <1>1, <1>6, FrontKept
<1>8. /\ rest' = [rest EXCEPT ![p] = Tail(rest[p])]
      /\ \A q \in Procs \ {p} : front'[q] = front[q]
  BY <1>6 DEF Drop, Keep, IInv, Shape
<1>9. Shape'
  BY <1>1, <1>2, <1>3, <1>7, <1>8 DEF IInv, Shape, Labels
<1>10. Place(p)'
  BY <1>1, <1>3, <1>4 DEF IInv, Shape, Place
<1>11. Read(p)'
  <2>1. pc'[p] = "check"
    BY <1>1 DEF IInv, Shape
  <2>2. QED
    BY <1>3, <1>7, <2>1 DEF Read, DeviceOf, MountOf, Known
<1>12. \A q \in Procs \ {p} : Untouched(q)
  BY <1>1, <1>3, <1>4, <1>8 DEF IInv, Shape, Untouched
<1>13. QED
  BY <1>4, <1>9, <1>10, <1>11, <1>12, StepKeeps

(* What the run was asked to do.                                           *)
LEMMA SyncKeeps ==
    ASSUME IInv, NEW p \in Procs, Sync(p)
    PROVE  IInv'
<1>1. FilesOK'
  BY FilesKeep DEF IInv, Sync, ghosts
<1>2. PICK label \in {"rewrite", "end"} : Goto(p, label)
  BY DEF Sync
<1>3. Place(p)'
  BY <1>2 DEF IInv, Shape, Place, Sync, Checked, Cmd, Goto, lists, ghosts
<1>4. QED
  BY <1>1, <1>2, <1>3, GotoKeeps DEF Sync, Checked, ghosts, Labels

LEMMA FindHandledKeeps ==
    ASSUME IInv, NEW p \in Procs, FindHandled(p)
    PROVE  IInv'
<1> DEFINE found == FindUdi(front[p], req[p].udi, req[p].device, None, None)
           u == found[1].udi
<1>1. /\ pc[p] = "check" /\ pc' = [pc EXCEPT ![p] = "write"]
      /\ found # <<>>
      /\ target' = [target EXCEPT ![p] = u]
  BY DEF FindHandled, Checked, Goto
<1>2. UNCHANGED <<hal, names, req, fd, front, rest, out, promised, steady, mishaps>>
  BY DEF FindHandled, ghosts
<1>3. u \in Udis
  <2>1. front[p] \in Seq(TableEntry)
    BY DEF IInv, Shape
  <2>2. found \in Seq(Members(front[p]))
    <3> DEFINE fitting == {e \in Members(front[p]) :
                              Fits(e, req[p].udi, req[p].device, None, None)}
    <3>1. found \in Seq(fitting)
      BY <2>1, FindUdiFinds
    <3>2. fitting \subseteq Members(front[p])
      OBVIOUS
    <3> HIDE DEF fitting, found
    <3>3. QED
      BY <3>1, <3>2
  <2>3. Members(front[p]) \subseteq TableEntry
    BY <2>1 DEF Members
  <2> HIDE DEF found
  <2>4. found[1] \in TableEntry
    BY <1>1, <2>2, <2>3
  <2>5. QED
    BY <2>4 DEF TableEntry
<1> HIDE DEF u, found
<1>4. FilesOK'
  BY <1>2, FilesKeep DEF IInv
<1>5. Shape'
  BY <1>1, <1>2, <1>3 DEF IInv, Shape, Labels
<1>6. Place(p)'
  BY <1>1, <1>2, <1>3 DEF IInv, Shape, Place
<1>7. Read(p)'
  <2>1. pc'[p] = "write"
    BY <1>1 DEF IInv, Shape
  <2>2. QED
    BY <1>1, <1>2, <2>1 DEF IInv, Read, DeviceOf, MountOf, Known
<1>8. \A q \in Procs \ {p} : Untouched(q)
  BY <1>1, <1>2 DEF IInv, Shape, Untouched
<1>9. QED
  BY <1>4, <1>5, <1>6, <1>7, <1>8, StepKeeps

LEMMA AddUdiKeeps ==
    ASSUME IInv, NEW p \in Procs, AddUdi(p)
    PROVE  IInv'
<1>1. PICK u \in Addable(req[p]) :
          /\ target' = [target EXCEPT ![p] = u]
          /\ front' = [front EXCEPT ![p] =
                <<[udi |-> u, device |-> hal[u].device,
                   mountpoint |-> hal[u].mountpoint]>> \o front[p]]
  BY DEF AddUdi
<1> DEFINE e == [udi |-> u, device |-> hal[u].device, mountpoint |-> hal[u].mountpoint]
           new == <<e>> \o front[p]
<1>2. pc[p] = "check" /\ pc' = [pc EXCEPT ![p] = "write"]
  BY DEF AddUdi, NotHandled, Checked, Goto
<1>3. UNCHANGED <<hal, names, req, fd, rest, out, promised, steady, mishaps>>
  BY DEF AddUdi, ghosts
<1>4. u \in Udis /\ u \in Known /\ hal[u] \in HalVolume
  BY <1>1 DEF Addable, Known, IInv, FilesOK
<1>5. e \in TableEntry /\ DeviceOf(p, e) /\ MountOf(p, e)
  BY <1>4 DEF HalVolume, TableEntry, DeviceOf, MountOf
<1>6. front' = [front EXCEPT ![p] = new]
  BY <1>1
<1> HIDE DEF e
<1>7. front[p] \in Seq(TableEntry) /\ DOMAIN front[p] = 1 .. Len(front[p])
  BY DEF IInv, Shape
<1>8. <<e>> \in Seq(TableEntry)
  BY <1>5
<1>9. /\ new \in Seq(TableEntry)
      /\ DOMAIN new = 1 .. (Len(front[p]) + 1)
      /\ \A i \in 1 .. (Len(front[p]) + 1) : new[i] = IF i = 1 THEN e ELSE front[p][i - 1]
  BY <1>7, <1>8
<1> HIDE DEF new
<1>10. \A i \in DOMAIN new : DeviceOf(p, new[i]) /\ MountOf(p, new[i])
  <2>1. \A i \in DOMAIN front[p] : DeviceOf(p, front[p][i]) /\ MountOf(p, front[p][i])
    BY <1>2 DEF IInv, Read
  <2>2. \A i \in 1 .. (Len(front[p]) + 1) : i # 1 => i - 1 \in DOMAIN front[p]
    BY <1>7
  <2>3. QED
    BY <1>5, <1>9, <2>1, <2>2
<1>11. front' \in [Procs -> Seq(TableEntry)] /\ front'[p] = new
  BY <1>6, <1>9 DEF IInv, Shape
<1>12. FilesOK'
  BY <1>3, FilesKeep DEF IInv
<1>13. Shape'
  BY <1>1, <1>2, <1>3, <1>4, <1>11 DEF IInv, Shape, Labels
<1>14. Place(p)'
  BY <1>1, <1>2, <1>3, <1>4 DEF IInv, Shape, Place
<1>15. Read(p)'
  <2>1. pc'[p] = "write"
    BY <1>2 DEF IInv, Shape
  <2>2. QED
    BY <1>3, <1>10, <1>11, <2>1 DEF Read, DeviceOf, MountOf, Known
<1>16. \A q \in Procs \ {p} : Untouched(q)
  BY <1>1, <1>2, <1>3 DEF IInv, Shape, Untouched
<1>17. QED
  BY <1>12, <1>13, <1>14, <1>15, <1>16, StepKeeps

LEMMA FoundType ==
    ASSUME IInv, NEW p \in Procs
    PROVE  Found(p) \in Seq(TableEntry)
<1> DEFINE r == req[p]
           fitting == {e \in Members(front[p]) :
                          Fits(e, r.udi, r.device, r.mountpoint, r.arg)}
<1>1. front[p] \in Seq(TableEntry)
  BY DEF IInv, Shape
<1>2. Found(p) \in Seq(fitting)
  BY <1>1, FindUdiFinds DEF Found
<1>3. fitting \subseteq TableEntry
  BY <1>1 DEF Members
<1> HIDE DEF fitting
<1>4. QED
  BY <1>2, <1>3

LEMMA CleanKeeps ==
    ASSUME IInv, NEW p \in Procs, Clean(p)
    PROVE  IInv'
<1> DEFINE new == RemoveAll(front[p], UdisOf(Found(p)))
           left == {e \in Members(front[p]) : e.udi \notin UdisOf(Found(p))}
<1>1. /\ pc[p] = "check" /\ pc' = [pc EXCEPT ![p] = "rewrite"] /\ req[p].cmd = "clean"
      /\ front' = [front EXCEPT ![p] = new]
      /\ promised' = promised \ UdisOf(Found(p))
  BY DEF Clean, Checked, Goto, Cmd
<1>2. UNCHANGED <<hal, names, req, fd, rest, target, out, steady>>
  BY DEF Clean
<1>3. front[p] \in Seq(TableEntry)
  BY DEF IInv, Shape
<1>4. new \in Seq(left)
  BY <1>3, RemoveAllLeaves
<1>5. left \subseteq Members(front[p]) /\ Members(front[p]) \subseteq TableEntry
  BY <1>3 DEF Members
<1>6. \A e \in Members(front[p]) : DeviceOf(p, e) /\ MountOf(p, e)
  BY <1>1 DEF IInv, Read, Members
<1> HIDE DEF new, left
<1>7. new \in Seq(TableEntry) /\ \A i \in DOMAIN new : new[i] \in Members(front[p])
  BY <1>4, <1>5
<1>8. front' \in [Procs -> Seq(TableEntry)] /\ front'[p] = new
  BY <1>1, <1>7 DEF IInv, Shape
<1>9. FilesOK' /\ mishaps \subseteq mishaps'
  BY <1>1, <1>2 DEF IInv, FilesOK, names, Known, Clean, StrikesIf, Mishaps
<1>10. Shape'
  BY <1>1, <1>2, <1>8 DEF IInv, Shape, Labels
<1>11. Place(p)'
  BY <1>1, <1>2, <1>9 DEF IInv, Shape, Place
<1>12. Read(p)'
  <2>1. pc'[p] = "rewrite"
    BY <1>1 DEF IInv, Shape
  <2>2. QED
    BY <1>2, <1>6, <1>7, <1>8, <2>1 DEF Read, DeviceOf, MountOf, Known
<1>13. \A q \in Procs \ {p} : Untouched(q)
  BY <1>1, <1>2, <1>9 DEF IInv, Shape, Untouched
<1>14. QED
  BY <1>9, <1>10, <1>11, <1>12, <1>13, StepKeeps

LEMMA UmountKeeps ==
    ASSUME IInv, NEW p \in Procs, Umount(p)
    PROVE  IInv'
<1> DEFINE list == IF req[p].all THEN front[p] ELSE Found(p)
<1>1. /\ pc' = [pc EXCEPT ![p] = "umount"] /\ pc[p] = "check"
      /\ rest' = [rest EXCEPT ![p] = list]
      /\ front' = [front EXCEPT ![p] = <<>>]
  BY DEF Umount, Goto, Checked
<1>2. UNCHANGED <<hal, names, req, fd, target, out, promised, steady, mishaps>>
  BY DEF Umount, ghosts
<1>3. list \in Seq(TableEntry)
  BY FoundType DEF IInv, Shape
<1> HIDE DEF list
<1>4. FilesOK'
  BY <1>2, FilesKeep DEF IInv
<1>5. Shape'
  BY <1>1, <1>2, <1>3 DEF IInv, Shape, Labels
<1>6. Place(p)' /\ Read(p)'
  BY <1>1, <1>2 DEF IInv, Shape, Place, Read
<1>7. \A q \in Procs \ {p} : Untouched(q)
  BY <1>1, <1>2 DEF IInv, Shape, Untouched
<1>8. QED
  BY <1>4, <1>5, <1>6, <1>7, StepKeeps

(* What a volume is mounted on changes: no run counts on it any more.      *)
LEMMA MountChanges ==
    ASSUME IInv, NEW u \in Known, NEW m \in Mountpoints \cup {None},
           hal' = [hal EXCEPT ![u].mountpoint = m], ChangedInHal(u),
           UNCHANGED <<names, promised, mishaps>>
    PROVE  /\ FilesOK'
           /\ steady' \in [Procs -> SUBSET Udis]
           /\ \A q \in Procs, v \in Udis :
                 v \in steady'[q] => v \in steady[q] /\ hal'[v] = hal[v]
<1>1. u \in Udis /\ hal[u] \in HalVolume
  BY DEF Known, IInv, FilesOK
<1>2. [hal[u] EXCEPT !.mountpoint = m] \in HalVolume
  BY <1>1 DEF HalVolume
<1>3. hal' = [hal EXCEPT ![u] = [hal[u] EXCEPT !.mountpoint = m]]
  OBVIOUS
<1>4. hal' \in [Udis -> HalVolume \cup {Gone}]
  BY <1>1, <1>2, <1>3 DEF IInv, FilesOK
<1>5. Known' = Known
  BY <1>1, <1>2, <1>3, MountAssumption DEF IInv, FilesOK, Known
<1>6. FilesOK'
  BY <1>4, <1>5 DEF IInv, FilesOK, names
<1>7. QED
  BY <1>1, <1>3, <1>6 DEF IInv, FilesOK, Shape, ChangedInHal

LEMMA UmountNextKeeps ==
    ASSUME IInv, NEW p \in Procs, UmountNext(p)
    PROVE  IInv'
<1>1. pc[p] = "umount" /\ rest[p] # <<>>
  BY DEF UmountNext
<1>2. Current(p) \in TableEntry /\ Tail(rest[p]) \in Seq(TableEntry)
  BY <1>1, CurrentEntry
<1>3. UNCHANGED <<names, pc, req, fd, target, out, promised, mishaps>>
  BY DEF UmountNext, Keep
<1>4. /\ FilesOK'
      /\ steady' \in [Procs -> SUBSET Udis]
      /\ \A q \in Procs, v \in Udis :
            v \in steady'[q] => v \in steady[q] /\ hal'[v] = hal[v]
      /\ front' = front \/ front' = [front EXCEPT ![p] = Append(front[p], Current(p))]
      /\ rest' = [rest EXCEPT ![p] = Tail(rest[p])]
  <2>1. CASE Current(p).udi \in Known
             /\ hal' = [hal EXCEPT ![Current(p).udi].mountpoint = None]
             /\ ChangedInHal(Current(p).udi) /\ Keep(p, Current(p))
    BY <1>3, <2>1, MountChanges DEF Keep
  <2>2. CASE rest' = [rest EXCEPT ![p] = Tail(@)] /\ UNCHANGED <<hal, front, steady>>
    BY <1>3, <2>2, FilesKeep DEF IInv, Shape
  <2>3. QED
    BY <2>1, <2>2 DEF UmountNext
<1>5. Append(front[p], Current(p)) \in Seq(TableEntry)
  BY <1>2 DEF IInv, Shape
<1>6. Shape'
  BY <1>2, <1>3, <1>4, <1>5 DEF IInv, Shape
<1>7. Place(p)' /\ Read(p)'
  BY <1>1, <1>3 DEF IInv, Shape, Place, Read
<1>8. \A q \in Procs \ {p} : Untouched(q)
  BY <1>3, <1>4 DEF IInv, Shape, Untouched
<1>9. QED
  BY <1>4, <1>6, <1>7, <1>8, StepKeeps

LEMMA MountKeeps ==
    ASSUME IInv, NEW p \in Procs, Mount(p)
    PROVE  IInv'
<1>1. PICK m \in Mountpoints : hal' = [hal EXCEPT ![target[p]].mountpoint = m]
  BY DEF Mount
<1>2. /\ target[p] \in Known /\ ChangedInHal(target[p])
      /\ pc[p] = "mount" /\ pc' = [pc EXCEPT ![p] = "rename"]
  BY DEF Mount, Goto
<1>3. UNCHANGED <<names, req, fd, front, rest, target, out, promised, mishaps>>
  BY DEF Mount, lists
<1>4. /\ FilesOK'
      /\ steady' \in [Procs -> SUBSET Udis]
      /\ \A q \in Procs, v \in Udis :
            v \in steady'[q] => v \in steady[q] /\ hal'[v] = hal[v]
  BY <1>1, <1>2, <1>3, MountChanges
<1>5. Shape'
  BY <1>2, <1>3, <1>4 DEF IInv, Shape, Labels
<1>6. Place(p)' /\ Read(p)'
  BY <1>2, <1>3 DEF IInv, Shape, Place, Read
<1>7. \A q \in Procs \ {p} : Untouched(q)
  BY <1>2, <1>3, <1>4 DEF IInv, Shape, Untouched
<1>8. QED
  BY <1>4, <1>5, <1>6, <1>7, StepKeeps

LEMMA WriteTmpKeeps ==
    ASSUME IInv, NEW p \in Procs, WriteTmp(p)
    PROVE  IInv'
<1> DEFINE lines == PrintUdis(front[p])
<1>1. PICK file : /\ file \in Files /\ tab # file
                  /\ tmp' = file
                  /\ content' = [content EXCEPT ![file] = <<>>]
                  /\ out' = [out EXCEPT ![p] = [file |-> file, lines |-> lines]]
  <2> DEFINE unused == CHOOSE f \in Files :
                           f # tab /\ \A q \in Procs : out[q].file # f
             file == IF tmp # NoFile THEN tmp ELSE unused
  <2>1. unused \in Files /\ tab # unused
    BY FileIsFree
  <2>2. file \in Files /\ tab # file
    <3> HIDE DEF unused
    <3>1. QED
      BY <2>1 DEF IInv, FilesOK
  <2>3. /\ tmp' = file
        /\ content' = [content EXCEPT ![file] = <<>>]
        /\ out' = [out EXCEPT ![p] = [file |-> file, lines |-> lines]]
    BY DEF WriteTmp
  <2> HIDE DEF file
  <2>4. QED
    BY <2>2, <2>3
<1>2. PICK label \in {"mount", "rename"} :
          /\ pc' = [pc EXCEPT ![p] = label]
          /\ label = "mount" => req[p].cmd = "mount"
  BY DEF WriteTmp, AfterWrite, Goto, Cmd
<1>3. pc[p] \in {"write", "rewrite"}
  BY DEF WriteTmp
<1>4. UNCHANGED <<hal, lockname, tab, req, fd, front, rest, target, promised, steady, mishaps>>
  BY DEF WriteTmp, lists, ghosts
<1>5. lines \in Seq(Line)
  BY TableRoundTrip DEF IInv, Shape
<1> HIDE DEF lines
<1>6. file # NoFile
  BY <1>1, MountAssumption
<1>7. FilesOK'
  BY <1>1, <1>4 DEF IInv, FilesOK, Known
<1>8. Shape'
  BY <1>1, <1>2, <1>4, <1>5 DEF IInv, Shape, Labels
<1>9. Place(p)'
  <2>1. /\ pc'[p] = label /\ fd'[p] = fd[p]
        /\ fd[p] # NoFile \/ "unlocked" \in mishaps'
        /\ out'[p] = [file |-> file, lines |-> lines]
    BY <1>1, <1>2, <1>3, <1>4 DEF IInv, Shape, Place
  <2>2. label = "mount" => target'[p] \in Udis
    BY <1>2, <1>3, <1>4 DEF IInv, Place
  <2>3. QED
    BY <1>6, <2>1, <2>2 DEF Place
<1>10. Read(p)'
  BY <1>2 DEF IInv, Shape, Read
<1>11. \A q \in Procs \ {p} : Untouched(q)
  BY <1>1, <1>2, <1>4 DEF IInv, Shape, Untouched
<1>12. QED
  BY <1>7, <1>8, <1>9, <1>10, <1>11, StepKeeps

(* The ends that fail, or go on as if nothing had happened.                *)
LEMMA UmountDoneKeeps ==
    ASSUME IInv, NEW p \in Procs, UmountDone(p)
    PROVE  IInv'
<1>1. CASE Fail(p)
  BY <1>1, FailKeeps
<1>2. CASE Goto(p, "end")
           /\ UNCHANGED <<hal, names, req, fd, lists, out, counts, ghosts>>
  <2>1. FilesOK'
    BY <1>2, FilesKeep DEF IInv, ghosts
  <2>2. pc[p] = "umount"
    BY DEF UmountDone
  <2>3. Place(p)'
    BY <1>2, <2>2 DEF IInv, Shape, Place, Goto, lists, ghosts
  <2>4. QED
    BY <1>2, <2>1, <2>3, GotoKeeps DEF ghosts, Labels
<1>3. QED
  BY <1>1, <1>2 DEF UmountDone

LEMMA RenameFailsKeeps ==
    ASSUME IInv, NEW p \in Procs, RenameFails(p)
    PROVE  IInv'
<1>1. CASE Fail(p)
  BY <1>1, FailKeeps
<1>2. CASE Goto(p, "end")
           /\ UNCHANGED <<hal, names, req, fd, lists, out, counts, ghosts>>
  <2>1. FilesOK'
    BY <1>2, FilesKeep DEF IInv, ghosts
  <2>2. pc[p] = "rename"
    BY DEF RenameFails
  <2>3. Place(p)'
    BY <1>2, <2>2 DEF IInv, Shape, Place, Goto, lists, ghosts
  <2>4. QED
    BY <1>2, <2>1, <2>3, GotoKeeps DEF ghosts, Labels
<1>3. QED
  BY <1>1, <1>2 DEF RenameFails

(* HAL.                                                                    *)
LEMMA HalKeeps ==
    ASSUME IInv, \/ \E u \in Udis : Unplug(u)
                 \/ \E u \in Udis, d \in Devices : Plug(u, d)
    PROVE  IInv'
<1>1. PICK u \in Udis : ChangedInHal(u) /\ \E v \in HalVolume \cup {Gone} :
          /\ hal' = [hal EXCEPT ![u] = v]
          /\ promised' = IF v = Gone THEN promised \ {u} ELSE promised
          /\ v # Gone => hal[u] = Gone
  <2>1. ASSUME NEW u \in Udis, Unplug(u)
        PROVE  /\ ChangedInHal(u) /\ hal' = [hal EXCEPT ![u] = Gone]
               /\ promised' = promised \ {u}
    BY <2>1 DEF Unplug
  <2>2. ASSUME NEW u \in Udis, NEW d \in Devices, Plug(u, d)
        PROVE  /\ ChangedInHal(u) /\ promised' = promised /\ hal[u] = Gone
               /\ hal' = [hal EXCEPT ![u] = [device |-> d, mountpoint |-> None]]
    BY <2>2 DEF Plug
  <2>3. ASSUME NEW d \in Devices
        PROVE  /\ [device |-> d, mountpoint |-> None] \in HalVolume
               /\ [device |-> d, mountpoint |-> None] # Gone
    BY MountAssumption DEF HalVolume
  <2>4. QED
    BY <2>1, <2>2, <2>3
<1>2. UNCHANGED <<names, pc, req, fd, front, rest, target, out, mishaps>>
  BY DEF Plug, Unplug, lists
<1>3. FilesOK'
  BY <1>1, <1>2 DEF IInv, FilesOK, names, Known
<1>4. Shape'
  BY <1>1, <1>2 DEF IInv, Shape, ChangedInHal
<1>5. \A q \in Procs : Untouched(q)
  BY <1>1, <1>2 DEF IInv, FilesOK, Shape, Untouched, ChangedInHal
<1>6. QED
  BY <1>3, <1>4, <1>5, UntouchedKeeps DEF IInv

-----------------------------------------------------------------------------
LEMMA InitInv == Init => IInv
<1>1. SUFFICES ASSUME Init PROVE IInv
  OBVIOUS
<1>2. FilesOK
  <2>1. hal \in [Udis -> HalVolume \cup {Gone}]
    <3>1. {[device |-> d, mountpoint |-> None] : d \in Devices} \subseteq HalVolume
      BY DEF HalVolume
    <3>2. QED
      BY <1>1, <3>1 DEF Init
  <2>2. Cardinality(Procs) \in Nat
    BY MountAssumption, FS_CardinalityType
  <2>3. 1 \in Files
    BY <2>2 DEF Files
  <2>4. content \in [Files -> Seq(Line)] /\ tab \in Files \cup {NoFile}
    <3>1. CASE tab = NoFile /\ content = [f \in Files |-> <<>>]
      BY <3>1
    <3>2. ASSUME NEW lines \in Tables, tab = 1,
                 content = [f \in Files |-> IF f = 1 THEN lines ELSE <<>>]
          PROVE  content \in [Files -> Seq(Line)]
      <4>1. lines \in Seq(Line)
        BY MountAssumption
      <4>2. QED
        BY <3>2, <4>1
    <3>3. QED
      BY <1>1, <2>3, <3>1, <3>2 DEF Init
  <2>5. QED
    BY <1>1, <2>1, <2>4, MountAssumption DEF FilesOK, Init
<1>3. Shape
  BY <1>1 DEF Init, Shape, Labels, NoOutput
<1>4. \A p \in Procs : Place(p) /\ Read(p)
  BY <1>1 DEF Init, Place, Read, NoOutput
<1>5. QED
  BY <1>2, <1>3, <1>4 DEF IInv

LEMMA NextInv == IInv /\ [Next]_vars => IInv'
<1>1. SUFFICES ASSUME IInv, [Next]_vars PROVE IInv'
  OBVIOUS
<1>2. CASE UNCHANGED vars
  BY <1>1, <1>2 DEF vars, IInv, FilesOK, Shape, Place, Read, DeviceOf, MountOf, Known
<1>3. CASE \E u \in Udis : Unplug(u) \/ \E d \in Devices : Plug(u, d)
  BY <1>1, <1>3, HalKeeps
<1>4. ASSUME NEW p \in Procs, Start(p) \/ OpenFails(p) \/ LockFails(p) \/ Kill(p)
      PROVE  IInv'
  BY <1>1, <1>4, StartKeeps, UnlockedKeeps, KillKeeps
<1>5. ASSUME NEW p \in Procs, Run(p) PROVE IInv'
  <2>1. CASE OpenLock(p) \/ Lock(p) \/ LockUnopened(p) \/ CloseLock(p)
    BY <1>1, <2>1, OpenLockKeeps, LockKeeps, CloseLockKeeps
  <2>2. CASE RemoveTmp(p) \/ CleanAll(p) \/ UnlinkLock(p) \/ RemoveTable(p) \/ Rename(p)
    BY <1>1, <2>2, NameStepsKeep
  <2>3. CASE Parse(p) \/ CheckUdi(p) \/ ReadUdi(p)
    BY <1>1, <2>3, ParseKeeps, CheckUdiKeeps, ReadUdiKeeps
  <2>4. CASE Sync(p) \/ FindHandled(p) \/ AddUdi(p) \/ Clean(p)
    BY <1>1, <2>4, SyncKeeps, FindHandledKeeps, AddUdiKeeps, CleanKeeps
  <2>5. CASE Umount(p) \/ UmountNext(p) \/ UmountDone(p)
    BY <1>1, <2>5, UmountKeeps, UmountNextKeeps, UmountDoneKeeps
  <2>6. CASE WriteTmp(p) \/ Mount(p) \/ RenameFails(p) \/ Exit(p)
    BY <1>1, <2>6, WriteTmpKeeps, MountKeeps, RenameFailsKeeps, ExitKeeps
  <2>7. CASE \/ NoHal(p) \/ Vanished(p) \/ NoDevices(p) \/ NothingToAdd(p)
             \/ NothingFound(p) \/ MountFails(p)
    BY <1>1, <2>7, FailKeeps
       DEF NoHal, Vanished, NoDevices, NothingToAdd, NothingFound, MountFails
  <2>8. QED
    BY <1>5, <2>1, <2>2, <2>3, <2>4, <2>5, <2>6, <2>7 DEF Run
<1>6. QED
  BY <1>1, <1>2, <1>3, <1>4, <1>5 DEF Next

THEOREM Invariance == Spec => []IInv
BY InitInv, NextInv, PTL DEF Spec

(* In every state of any number of runs the files and the lists have the   *)
(* form the parser and the printer expect, and a run has the lock file     *)
(* open, a udi to mount and a file to rename where main() needs them.      *)
THEOREM MountTypes == Spec => []MountTypeOK
<1>1. IInv => MountTypeOK
  BY DEF IInv, FilesOK, Shape, Place, MountTypeOK
<1>2. QED
  BY <1>1, Invariance, PTL

(* However many runs there are, and whatever is plugged or killed when:    *)
(* what a run is about to write of a udi is what HAL has of it, unless     *)
(* that has changed since the run read the table.                          *)
THEOREM WritesWhatHalHas == Spec => []WrittenIsCurrent
<1>1. IInv => WrittenIsCurrent
  BY DEF IInv, Read, DeviceOf, MountOf, WrittenIsCurrent
<1>2. QED
  BY <1>1, Invariance, PTL

-----------------------------------------------------------------------------
(* The lock.  The name of the lock file goes before the lock does; a run   *)
(* that waits for a file without a name is harmless until another run      *)
(* makes a new one.                                                        *)

Middle == {"tmp", "cleanall", "parse", "check", "ask", "umount", "rewrite",
           "write", "mount", "rename", "end"}

(* Those that have a lock file open have the same, and that one can be     *)
(* opened, if any can.                                                     *)
OneFile ==
    \A p, q \in Procs : HasOpen(p) =>
        /\ lockname # NoFile => fd[p] = lockname
        /\ HasOpen(q) => fd[q] = fd[p]

OneHolder ==
    \A p, q \in Procs : HoldsLock(p) /\ HoldsLock(q) /\ fd[p] = fd[q] => p = q

LockInv == LockHolds => OneFile /\ OneHolder

LEMMA Exclusion == ASSUME IInv, LockInv PROVE RunsExclude
<1>1. SUFFICES ASSUME LockHolds, NEW p \in Procs, NEW q \in Procs, Working(p), Working(q)
               PROVE  p = q
  BY DEF RunsExclude, MutualExclusion
<1>2. OneFile /\ OneHolder
  BY <1>1 DEF LockInv
<1>3. ASSUME NEW r \in Procs, Working(r) PROVE HasOpen(r) /\ HoldsLock(r)
  BY <1>1, <1>3 DEF LockHolds, Working, HasOpen, HoldsLock, IInv, Place
<1>4. QED
  BY <1>1, <1>2, <1>3 DEF OneFile, OneHolder

(* What a step of a run can do to the lock, as long as it holds.           *)
Locking(p) ==
    /\ pc' = [pc EXCEPT ![p] = pc'[p]] /\ fd' = [fd EXCEPT ![p] = fd'[p]]
    /\ mishaps \subseteq mishaps'
    /\ LockHolds' =>
         \/ /\ pc[p] = "idle" /\ pc'[p] = "open"
            /\ UNCHANGED <<lockname, fd>>
         \/ /\ pc[p] = "open" /\ pc'[p] = "lock"
            /\ fd'[p] = lockname' /\ lockname' # NoFile
            /\ lockname # NoFile => lockname' = lockname
            /\ lockname = NoFile => \A q \in Procs : ~HasOpen(q)
         \/ /\ pc[p] = "lock" /\ pc'[p] = "tmp"
            /\ \A q \in Procs : HoldsLock(q) => fd[q] # fd[p]
            /\ UNCHANGED <<lockname, fd>>
         \/ /\ pc[p] \in Middle /\ pc'[p] \in Middle
            /\ UNCHANGED <<lockname, fd>>
         \/ /\ pc[p] = "end" /\ pc'[p] = "close"
            /\ lockname' = NoFile
            /\ UNCHANGED fd
         \/ /\ pc[p] # "idle" /\ pc'[p] \in {"idle", "exit"} /\ fd'[p] = NoFile
            /\ UNCHANGED lockname

(* A step of a process, of the run it is in or of its start.               *)
Step(p) == Start(p) \/ OpenFails(p) \/ LockFails(p) \/ Kill(p) \/ Run(p)

LEMMA LockingSteps ==
    ASSUME IInv, NEW p \in Procs, Step(p)
    PROVE  Locking(p)
<1> USE DEF IInv, Shape, Goto
<1>1. CASE Start(p)
  BY <1>1 DEF Start, names, ghosts, Locking
<1>2. CASE Kill(p)
  BY <1>2 DEF Kill, Forget, names, StrikesIf, Locking
<1>3. CASE OpenLock(p)
  <2>1. lockname' \in LockFiles
    BY <1>3, LockFileIsFree DEF OpenLock, FilesOK
  <2>2. lockname' # NoFile
    BY <2>1, MountAssumption
  <2>3. /\ mishaps \subseteq mishaps'
        /\ LockHolds' /\ lockname = NoFile => \A q \in Procs : ~HasOpen(q)
    BY <1>3 DEF OpenLock, StrikesIf, LockHolds
  <2>4. QED
    BY <1>3, <2>2, <2>3 DEF OpenLock, Locking
<1>4. CASE OpenFails(p) \/ LockFails(p)
  <2>1. ~LockHolds' /\ mishaps \subseteq mishaps'
    BY <1>4 DEF OpenFails, LockFails, Strikes, LockHolds
  <2>2. QED
    BY <1>4, <2>1 DEF OpenFails, LockFails, Locking
<1>5. CASE Lock(p)
  BY <1>5 DEF Lock, names, ghosts, Locking
<1>6. CASE LockUnopened(p)
  <2>1. ~LockHolds' /\ mishaps \subseteq mishaps'
    BY <1>6 DEF LockUnopened, Place, ghosts, LockHolds
  <2>2. QED
    BY <1>6, <2>1 DEF LockUnopened, Locking
<1>7. CASE UnlinkLock(p)
  BY <1>7 DEF UnlinkLock, ghosts, Locking
<1>8. CASE CloseLock(p)
  BY <1>8 DEF CloseLock, names, ghosts, Locking
<1>9. CASE Exit(p)
  BY <1>9 DEF Exit, Forget, Place, Locking
<1>10. ASSUME Fail(p), pc[p] # "idle" PROVE Locking(p)
  BY <1>10 DEF Fail, Forget, Locking
<1>11. CASE \/ NoHal(p) \/ Vanished(p) \/ NoDevices(p) \/ NothingToAdd(p)
            \/ NothingFound(p) \/ MountFails(p)
  BY <1>10, <1>11 DEF NoHal, Vanished, NoDevices, NothingToAdd, NotHandled, NothingFound,
                      MountFails, Checked
<1>12. ASSUME NEW label \in Middle, pc[p] \in Middle, pc' = [pc EXCEPT ![p] = label],
              UNCHANGED <<lockname, fd>>, mishaps \subseteq mishaps'
       PROVE  Locking(p)
  BY <1>12 DEF Locking
<1>13. CASE RemoveTmp(p)
  BY <1>12, <1>13 DEF RemoveTmp, Middle, ghosts
<1>14. CASE CleanAll(p) \/ RemoveTable(p) \/ Rename(p)
  BY <1>12, <1>14 DEF CleanAll, RemoveTable, Rename, Middle, ghosts
<1>15. CASE Parse(p) \/ Sync(p) \/ FindHandled(p) \/ AddUdi(p)
  BY <1>12, <1>15 DEF Parse, StrikesIf, Sync, FindHandled, AddUdi, NotHandled, Checked, names,
                      ghosts, Middle
<1>16. CASE CheckUdi(p)
  <2>1. pc' = [pc EXCEPT ![p] = "ask"] \/ pc' = [pc EXCEPT ![p] = pc[p]]
    BY <1>16 DEF CheckUdi
  <2>2. pc[p] = "check" /\ UNCHANGED <<lockname, fd>> /\ mishaps \subseteq mishaps'
    BY <1>16 DEF CheckUdi, Drop, StrikesIf, names
  <2>3. QED
    BY <1>12, <2>1, <2>2 DEF Middle
<1>17. CASE ReadUdi(p) \/ Clean(p) \/ Umount(p)
  BY <1>12, <1>17 DEF ReadUdi, Drop, Keep, Clean, StrikesIf, Umount, Checked, names, ghosts,
                      Middle
<1>18. CASE UmountNext(p)
  <2>1. pc' = [pc EXCEPT ![p] = pc[p]]
    BY <1>18 DEF UmountNext
  <2>2. pc[p] = "umount" /\ UNCHANGED <<lockname, fd, mishaps>>
    BY <1>18 DEF UmountNext, Keep, names
  <2>3. QED
    BY <1>12, <2>1, <2>2 DEF Middle
<1>19. CASE UmountDone(p) \/ RenameFails(p)
  BY <1>10, <1>12, <1>19 DEF UmountDone, RenameFails, names, ghosts, Middle
<1>20. CASE WriteTmp(p) \/ Mount(p)
  BY <1>12, <1>20 DEF WriteTmp, Mount, AfterWrite, names, ghosts, Middle
<1>21. QED
  BY <1>1, <1>2, <1>3, <1>4, <1>5, <1>6, <1>7, <1>8, <1>9, <1>11, <1>13, <1>14,
     <1>15, <1>16, <1>17, <1>18, <1>19, <1>20 DEF Step, Run

LEMMA LockingKeeps ==
    ASSUME IInv, IInv', LockInv, NEW p \in Procs, Locking(p)
    PROVE  LockInv'
<1>1. SUFFICES ASSUME LockHolds' PROVE OneFile' /\ OneHolder'
  BY DEF LockInv
<1>2. LockHolds /\ OneFile /\ OneHolder
  BY <1>1 DEF Locking, LockHolds, LockInv
<1>3. /\ pc \in [Procs -> Labels] /\ fd \in [Procs -> LockFiles \cup {NoFile}]
      /\ pc'[p] \in Labels /\ fd'[p] \in LockFiles \cup {NoFile}
      /\ pc' = [pc EXCEPT ![p] = pc'[p]] /\ fd' = [fd EXCEPT ![p] = fd'[p]]
  BY DEF Locking, IInv, Shape
<1>4. \A q \in Procs : /\ fd[q] = NoFile <=> pc[q] \in {"idle", "open", "exit"}
                      /\ fd'[q] = NoFile <=> pc'[q] \in {"idle", "open", "exit"}
  BY <1>1, <1>2 DEF IInv, Place, LockHolds
<1>5. \A q \in Procs \ {p} : pc'[q] = pc[q] /\ fd'[q] = fd[q]
  BY <1>3
<1>6. CASE /\ pc[p] = "idle" /\ pc'[p] = "open"
           /\ UNCHANGED <<lockname, fd>>
  BY <1>2, <1>4, <1>5, <1>6 DEF OneFile, HasOpen, OneHolder, HoldsLock
<1>7. CASE /\ pc[p] = "open" /\ pc'[p] = "lock"
           /\ fd'[p] = lockname' /\ lockname' # NoFile
           /\ lockname # NoFile => lockname' = lockname
           /\ lockname = NoFile => \A q \in Procs : ~HasOpen(q)
  <2>1. OneFile'
    BY <1>2, <1>5, <1>7 DEF OneFile, HasOpen
  <2>2. OneHolder'
    BY <1>2, <1>4, <1>5, <1>7 DEF OneHolder, HoldsLock
  <2>3. QED
    BY <2>1, <2>2
<1>8. CASE /\ pc[p] = "lock" /\ pc'[p] = "tmp"
           /\ \A q \in Procs : HoldsLock(q) => fd[q] # fd[p]
           /\ UNCHANGED <<lockname, fd>>
  <2>1. OneFile'
    BY <1>2, <1>5, <1>8 DEF OneFile, HasOpen
  <2>2. OneHolder'
    BY <1>2, <1>5, <1>8 DEF OneHolder, HoldsLock
  <2>3. QED
    BY <2>1, <2>2
<1>9. CASE /\ pc[p] \in Middle /\ pc'[p] \in Middle
           /\ UNCHANGED <<lockname, fd>>
  <2>1. OneFile'
    BY <1>2, <1>5, <1>9 DEF OneFile, HasOpen, Middle
  <2>2. OneHolder'
    BY <1>2, <1>5, <1>9 DEF OneHolder, HoldsLock, Middle
  <2>3. QED
    BY <2>1, <2>2
<1>10. CASE /\ pc[p] = "end" /\ pc'[p] = "close"
            /\ lockname' = NoFile
            /\ UNCHANGED fd
  <2>1. OneFile'
    BY <1>2, <1>5, <1>10 DEF OneFile, HasOpen
  <2>2. OneHolder'
    BY <1>2, <1>5, <1>10 DEF OneHolder, HoldsLock
  <2>3. QED
    BY <2>1, <2>2
<1>11. CASE /\ pc[p] # "idle" /\ pc'[p] \in {"idle", "exit"} /\ fd'[p] = NoFile
            /\ UNCHANGED lockname
  <2>1. OneFile'
    BY <1>2, <1>5, <1>11 DEF OneFile, HasOpen
  <2>2. OneHolder'
    BY <1>2, <1>5, <1>11 DEF OneHolder, HoldsLock
  <2>3. QED
    BY <2>1, <2>2
<1>12. QED
  BY <1>1, <1>6, <1>7, <1>8, <1>9, <1>10, <1>11 DEF Locking

(* The name of the new table stands for nothing while a run makes up its   *)
(* list, and then for the file it has written.                             *)
Listing == {"cleanall", "parse", "check", "ask", "umount", "rewrite", "write"}

OwnTmp ==
    LockHolds => \A p \in Procs :
        /\ pc[p] \in {"mount", "rename"} => tmp = out[p].file
        /\ pc[p] \in Listing => tmp = NoFile

(* What a step of a run can do to the new table: only a run that works     *)
(* changes what its name stands for.                                       *)
Writing(p) ==
    /\ tmp' = tmp \/ pc[p] \in Middle
    /\ LockHolds' /\ pc'[p] \in {"mount", "rename"} => tmp' = out'[p].file
    /\ LockHolds' /\ pc'[p] \in Listing => tmp' = NoFile

LEMMA WritingSteps ==
    ASSUME IInv, OwnTmp, NEW p \in Procs, Step(p)
    PROVE  Writing(p)
<1>1. LockHolds' => LockHolds
  BY LockingSteps DEF Locking, LockHolds
<1>2. pc \in [Procs -> Labels]
  BY DEF IInv, Shape
<1>3. ASSUME pc'[p] \notin {"mount", "rename"} \cup Listing,
             tmp' = tmp \/ pc[p] \in Middle
      PROVE  Writing(p)
  BY <1>3 DEF Writing
<1>4. CASE Start(p) \/ OpenLock(p) \/ OpenFails(p)
  BY <1>2, <1>3, <1>4 DEF Start, OpenLock, OpenFails, Goto, names, Listing
<1>5. CASE Lock(p) \/ LockUnopened(p) \/ LockFails(p)
  BY <1>2, <1>3, <1>5 DEF Lock, LockUnopened, LockFails, Goto, names, Listing
<1>6. CASE UnlinkLock(p) \/ CloseLock(p)
  BY <1>2, <1>3, <1>6 DEF UnlinkLock, CloseLock, Goto, names, Listing
<1>7. CASE Exit(p) \/ Kill(p)
  BY <1>2, <1>3, <1>7 DEF Exit, Kill, Forget, Goto, names, Listing
<1>8. ASSUME Fail(p) PROVE Writing(p)
  BY <1>2, <1>3, <1>8 DEF Fail, Forget, Goto, Listing
<1>9. CASE \/ NoHal(p) \/ Vanished(p) \/ NoDevices(p) \/ NothingToAdd(p)
           \/ NothingFound(p) \/ MountFails(p)
  BY <1>8, <1>9 DEF NoHal, Vanished, NoDevices, NothingToAdd, NothingFound, MountFails
<1>10. CASE RemoveTmp(p)
  BY <1>2, <1>10 DEF RemoveTmp, Goto, Writing, Listing, Middle
<1>11. CASE CleanAll(p) \/ RemoveTable(p) \/ Rename(p)
  BY <1>2, <1>3, <1>11 DEF CleanAll, RemoveTable, Rename, Goto, Listing, Middle
(* The list is made up: the name stands for nothing still.                 *)
<1>12. ASSUME pc[p] \in Listing, tmp' = tmp, pc'[p] \notin {"mount", "rename"}
       PROVE  Writing(p)
  BY <1>1, <1>12 DEF OwnTmp, Writing
<1>13. CASE Parse(p) \/ Sync(p) \/ FindHandled(p) \/ AddUdi(p)
  <2>1. pc[p] \in Listing /\ tmp' = tmp
    BY <1>13 DEF Parse, Sync, FindHandled, AddUdi, NotHandled, Checked, names, Listing
  <2>2. pc'[p] \notin {"mount", "rename"}
    BY <1>2, <1>13 DEF Parse, Sync, FindHandled, AddUdi, Goto
  <2>3. QED
    BY <1>12, <2>1, <2>2
<1>14. CASE CheckUdi(p) \/ ReadUdi(p)
  BY <1>2, <1>12, <1>14 DEF CheckUdi, ReadUdi, Goto, names, Listing
<1>15. CASE Clean(p) \/ Umount(p)
  BY <1>2, <1>12, <1>15 DEF Clean, Umount, Checked, Goto, names, Listing
<1>16. CASE UmountNext(p)
  BY <1>12, <1>16 DEF UmountNext, names, Listing
<1>17. CASE UmountDone(p) \/ RenameFails(p)
  <2>1. CASE Fail(p)
    BY <1>8, <2>1
  <2>2. CASE Goto(p, "end") /\ tmp' = tmp
    BY <1>2, <1>3, <2>2 DEF Goto, Listing
  <2>3. QED
    BY <1>17, <2>1, <2>2 DEF UmountDone, RenameFails, names
<1>18. CASE WriteTmp(p)
  <2>1. PICK file : tmp' = file /\ out' = [out EXCEPT ![p] =
                        [file |-> file, lines |-> PrintUdis(front[p])]]
    BY <1>18 DEF WriteTmp
  <2>2. out'[p].file = file
    BY <2>1 DEF IInv, Shape
  <2>3. pc[p] \in Middle /\ pc'[p] \notin Listing
    BY <1>2, <1>18 DEF WriteTmp, AfterWrite, Goto, Middle, Listing
  <2>4. QED
    BY <2>1, <2>2, <2>3 DEF Writing
<1>19. CASE Mount(p)
  <2>1. pc[p] = "mount" /\ pc'[p] = "rename" /\ tmp' = tmp /\ out' = out
    BY <1>2, <1>19 DEF Mount, Goto, names
  <2>2. QED
    BY <1>1, <2>1 DEF OwnTmp, Writing, Listing
<1>20. QED
  BY <1>4, <1>5, <1>6, <1>7, <1>9, <1>10, <1>11, <1>13, <1>14, <1>15, <1>16, <1>17,
     <1>18, <1>19 DEF Step, Run

(* A step of one run leaves the rest of the others alone.  Only a run that *)
(* renames its table promises anything.                                    *)
Alone(p) ==
    /\ \A q \in Procs \ {p} :
          /\ pc'[q] = pc[q] /\ req'[q] = req[q]
          /\ front'[q] = front[q] /\ rest'[q] = rest[q]
          /\ target'[q] = target[q] /\ out'[q] = out[q]
    /\ promised' \subseteq promised \/ Rename(p)

LEMMA AloneSteps ==
    ASSUME IInv, NEW p \in Procs, Step(p)
    PROVE  Alone(p)
<1> USE DEF IInv, Shape, Goto
<1>1. CASE Start(p)
  BY <1>1 DEF Start, lists, ghosts, Alone
<1>2. CASE OpenLock(p) \/ OpenFails(p)
  BY <1>2 DEF OpenLock, OpenFails, lists, Alone
<1>3. CASE Lock(p) \/ LockUnopened(p) \/ LockFails(p)
  BY <1>3 DEF Lock, LockUnopened, LockFails, lists, ghosts, Alone
<1>4. CASE UnlinkLock(p) \/ CloseLock(p) \/ RemoveTmp(p)
  BY <1>4 DEF UnlinkLock, CloseLock, RemoveTmp, lists, ghosts, Alone
<1>5. CASE Exit(p) \/ Kill(p)
  BY <1>5 DEF Exit, Kill, Forget, Alone
<1>6. ASSUME Fail(p) PROVE Alone(p)
  BY <1>6 DEF Fail, Forget, Alone
<1>7. CASE \/ NoHal(p) \/ Vanished(p) \/ NoDevices(p) \/ NothingToAdd(p)
           \/ NothingFound(p) \/ MountFails(p)
  BY <1>6, <1>7 DEF NoHal, Vanished, NoDevices, NothingToAdd, NothingFound, MountFails
<1>8. CASE CleanAll(p) \/ RemoveTable(p) \/ Rename(p)
  BY <1>8 DEF CleanAll, RemoveTable, Rename, lists, ghosts, Alone
<1>9. CASE Parse(p) \/ Sync(p) \/ FindHandled(p)
  BY <1>9 DEF Parse, Sync, FindHandled, lists, ghosts, Alone
<1>10. CASE AddUdi(p)
  BY <1>10 DEF AddUdi, ghosts, Alone
<1>11. CASE CheckUdi(p)
  BY <1>11 DEF CheckUdi, Drop, Alone
<1>12. CASE ReadUdi(p)
  BY <1>12 DEF ReadUdi, Drop, Keep, Alone
<1>13. CASE Clean(p) \/ Umount(p)
  BY <1>13 DEF Clean, Umount, ghosts, Alone
<1>14. CASE UmountNext(p)
  BY <1>14 DEF UmountNext, Keep, Alone
<1>15. CASE UmountDone(p) \/ RenameFails(p)
  BY <1>6, <1>15 DEF UmountDone, RenameFails, lists, ghosts, Alone
<1>16. CASE WriteTmp(p) \/ Mount(p)
  BY <1>16 DEF WriteTmp, Mount, lists, ghosts, Alone
<1>17. QED
  BY <1>1, <1>2, <1>3, <1>4, <1>5, <1>7, <1>8, <1>9, <1>10, <1>11, <1>12, <1>13,
     <1>14, <1>15, <1>16 DEF Step, Run

(* Two runs do not work at the same time: neither takes the new table of   *)
(* the other away.                                                         *)
LEMMA WritingKeeps ==
    ASSUME IInv, LockInv, OwnTmp, NEW p \in Procs, Step(p)
    PROVE  OwnTmp'
<1>1. Locking(p) /\ Writing(p) /\ Alone(p)
  BY LockingSteps, WritingSteps, AloneSteps
<1>2. SUFFICES ASSUME LockHolds', NEW q \in Procs \ {p},
                      pc'[q] \in {"mount", "rename"} \cup Listing
               PROVE  tmp' = tmp
  BY <1>1 DEF OwnTmp, Writing, Alone, Locking, LockHolds
<1>3. LockHolds /\ MutualExclusion
  BY <1>1, <1>2, Exclusion DEF Locking, LockHolds, RunsExclude
<1>4. pc[q] \in {"mount", "rename"} \cup Listing
  BY <1>1, <1>2 DEF Alone
<1>5. Working(q)
  BY <1>4 DEF Working, Listing
<1>6. pc[p] \in Middle => Working(p)
  BY DEF Working, Middle
<1>7. pc[p] \notin Middle
  BY <1>3, <1>5, <1>6 DEF MutualExclusion
<1>8. QED
  BY <1>1, <1>7 DEF Writing

(* How a run can end before the end of main() by itself.                   *)
LEMMA EndsEarly ==
    ASSUME IInv, NEW p \in Procs, Step(p), ~Kill(p),
           pc[p] \notin {"idle", "exit"}, pc'[p] = "idle"
    PROVE  Fail(p) /\ pc[p] \notin {"end", "close"}
<1> USE DEF IInv, Shape, Goto
<1>1. ~Start(p) /\ ~Exit(p)
  BY DEF Start, Exit
<1>2. ~(\/ OpenLock(p) \/ OpenFails(p) \/ Lock(p) \/ LockUnopened(p) \/ LockFails(p)
        \/ UnlinkLock(p) \/ CloseLock(p))
  BY DEF OpenLock, OpenFails, Lock, LockUnopened, LockFails, UnlinkLock, CloseLock
<1>3. ~(RemoveTmp(p) \/ CleanAll(p) \/ RemoveTable(p) \/ Rename(p))
  BY DEF RemoveTmp, CleanAll, RemoveTable, Rename
<1>4. ~(Parse(p) \/ CheckUdi(p) \/ ReadUdi(p))
  BY DEF Parse, CheckUdi, ReadUdi
<1>5. ~(Sync(p) \/ FindHandled(p) \/ AddUdi(p) \/ Clean(p) \/ Umount(p) \/ UmountNext(p))
  BY DEF Sync, FindHandled, AddUdi, Clean, Umount, UmountNext
<1>6. ~(WriteTmp(p) \/ Mount(p))
  BY DEF WriteTmp, Mount, AfterWrite
<1>7. ASSUME \/ NoHal(p) \/ Vanished(p) \/ NoDevices(p) \/ NothingToAdd(p)
             \/ NothingFound(p) \/ UmountDone(p) \/ MountFails(p) \/ RenameFails(p)
      PROVE  Fail(p) /\ pc[p] \notin {"end", "close"}
  BY <1>7 DEF NoHal, Vanished, NoDevices, NothingToAdd, NotHandled, NothingFound, Checked,
              UmountDone, MountFails, RenameFails
<1>8. QED
  BY <1>1, <1>2, <1>3, <1>4, <1>5, <1>6, <1>7 DEF Step, Run

(* It leaves the table: a file it still has to write is the new table's,   *)
(* and not yet renamed.                                                    *)
LEMMA FailureLeaves ==
    ASSUME IInv, OwnTmp, LockHolds, NEW p \in Procs,
           Fail(p), pc[p] \notin {"idle", "end", "close", "exit"}
    PROVE  Table' = Table
<1>1. out[p].file = NoFile \/ out[p].file = tmp
  BY DEF IInv, Place, OwnTmp
<1>2. tab # NoFile => tab # out[p].file
  BY <1>1 DEF IInv, FilesOK
<1>3. tab' = tab /\ Flush(p)
  BY DEF Fail
<1>4. tab # NoFile => content'[tab] = content[tab]
  BY <1>2, <1>3 DEF Flush, IInv, FilesOK
<1>5. QED
  BY <1>3, <1>4 DEF Table

(* A kill is counted.                                                      *)
Counted == counts \in [runs : Nat, changes : Nat, faults : Nat]

LEMMA CountedNext == Counted /\ [Next]_vars => Counted'
<1>1. SUFFICES ASSUME Counted, [Next]_vars PROVE Counted'
  OBVIOUS
<1>2. ASSUME \/ counts' = counts
             \/ counts' = [counts EXCEPT !.runs = @ + 1]
             \/ counts' = [counts EXCEPT !.changes = @ + 1]
             \/ counts' = [counts EXCEPT !.faults = @ + 1]
      PROVE  Counted'
  BY <1>1, <1>2 DEF Counted
<1>3. CASE UNCHANGED vars
  BY <1>2, <1>3 DEF vars
<1>4. CASE \E u \in Udis : Unplug(u) \/ \E d \in Devices : Plug(u, d)
  BY <1>2, <1>4 DEF Unplug, Plug
<1>5. CASE \E p \in Procs : Start(p) \/ OpenFails(p) \/ LockFails(p) \/ Kill(p)
  BY <1>2, <1>5 DEF Start, OpenFails, LockFails, Kill, Fault
<1>6. ASSUME NEW p \in Procs, Run(p) PROVE counts' = counts
  BY <1>6 DEF Run, OpenLock, Lock, LockUnopened, RemoveTmp, CleanAll, Parse, NoHal, CheckUdi,
     ReadUdi, Vanished, Sync, NoDevices, FindHandled, AddUdi, NothingToAdd, NothingFound,
     Clean, Umount, UmountNext, UmountDone, RemoveTable, WriteTmp, Mount, MountFails, Rename,
     RenameFails, UnlinkLock, CloseLock, Exit, Fail
<1>7. QED
  BY <1>1, <1>2, <1>3, <1>4, <1>5, <1>6 DEF Next

WorkInv == IInv /\ LockInv /\ OwnTmp /\ Counted

LEMMA WorkInit == Init => WorkInv
<1>1. SUFFICES ASSUME Init PROVE LockInv /\ OwnTmp /\ Counted
  BY InitInv DEF WorkInv
<1>2. \A p \in Procs : pc[p] = "idle" /\ fd[p] = NoFile
  BY <1>1 DEF Init
<1>3. Counted
  BY <1>1 DEF Init, Counted
<1>4. QED
  BY <1>2, <1>3 DEF LockInv, OneFile, HasOpen, OneHolder, HoldsLock, OwnTmp, Listing

LEMMA WorkNext == WorkInv /\ [Next]_vars => WorkInv'
<1>1. SUFFICES ASSUME WorkInv, [Next]_vars PROVE WorkInv'
  OBVIOUS
<1>2. IInv /\ LockInv /\ OwnTmp
  BY <1>1 DEF WorkInv
<1>3. IInv' /\ Counted'
  BY <1>1, <1>2, NextInv, CountedNext DEF WorkInv
<1>4. ASSUME UNCHANGED <<lockname, tmp, pc, fd, out, mishaps>> PROVE WorkInv'
  BY <1>2, <1>3, <1>4 DEF WorkInv, LockInv, LockHolds, OneFile, HasOpen, OneHolder,
                          HoldsLock, OwnTmp
<1>5. CASE UNCHANGED vars
  BY <1>4, <1>5 DEF vars
<1>6. CASE \E u \in Udis : Unplug(u) \/ \E d \in Devices : Plug(u, d)
  BY <1>4, <1>6 DEF Plug, Unplug, names
<1>7. ASSUME NEW p \in Procs, Step(p) PROVE WorkInv'
  <2>1. LockInv'
    BY <1>2, <1>3, <1>7, LockingSteps, LockingKeeps
  <2>2. OwnTmp'
    BY <1>2, <1>7, WritingKeeps
  <2>3. QED
    BY <1>3, <2>1, <2>2 DEF WorkInv
<1>8. QED
  BY <1>1, <1>5, <1>6, <1>7 DEF Next, Step

(* However many runs of halevt-mount there are, whatever they are asked to *)
(* do and whichever of them is killed: two are between lockf() and the     *)
(* unlink of the lock file at the same time only after open() or lockf()   *)
(* has failed, or a run has made the lock file anew while another waits    *)
(* for, or works with, the file that lost the name.                        *)
THEOREM RunsExcludeAlways == Spec => []RunsExclude
<1>1. WorkInv => RunsExclude
  BY Exclusion DEF WorkInv
<1>2. QED
  BY <1>1, WorkInit, WorkNext, PTL DEF Spec

(* However many runs there are: as long as the lock holds, a run that      *)
(* fails by itself leaves the table as it was, although it may have        *)
(* written a new one and its buffer is written when it exits.              *)
THEOREM FailureChangesNothing == Spec => FailureLeavesTable
<1> DEFINE A == \A p \in Procs :
                   /\ LockHolds /\ counts' = counts
                   /\ pc[p] \notin {"idle", "exit"} /\ pc'[p] = "idle"
                   => Table' = Table
<1>1. ASSUME WorkInv, [Next]_vars PROVE [A]_vars
  <2>1. SUFFICES ASSUME NEW p \in Procs, LockHolds, counts' = counts,
                        pc[p] \notin {"idle", "exit"}, pc'[p] = "idle", Next
                 PROVE  Table' = Table
    BY <1>1
  <2>2. IInv /\ OwnTmp /\ Counted
    BY <1>1 DEF WorkInv
  <2>3. PICK q \in Procs : Step(q)
    BY <2>1 DEF Next, Step, Plug, Unplug
  <2>4. q = p
    BY <2>1, <2>2, <2>3, AloneSteps DEF Alone
  <2>5. ~Kill(p)
    BY <2>1, <2>2 DEF Kill, Fault, Counted
  <2>6. Fail(p) /\ pc[p] \notin {"end", "close"}
    BY <2>1, <2>2, <2>3, <2>4, <2>5, EndsEarly
  <2>7. QED
    BY <2>1, <2>2, <2>6, FailureLeaves
<1>2. QED
  BY <1>1, WorkInit, WorkNext, PTL DEF Spec, FailureLeavesTable

-----------------------------------------------------------------------------
(* The udis of a list, through the operations on it.                       *)
LEMMA UdisPrinted ==
    ASSUME NEW list \in Seq(TableEntry)
    PROVE  UdisIn(PrintUdis(list)) = UdisOf(list)
<1>1. ASSUME NEW e \in TableEntry PROVE PrintEntry(e)[1] = e.udi
  <2>1. e.device = None \/ e.device # None
    OBVIOUS
  <2>2. PrintEntry(e) \in {<<e.udi, e.device, e.mountpoint>>, <<e.udi, e.device>>, <<e.udi>>}
    BY <2>1 DEF PrintEntry
  <2>3. QED
    BY <2>2
<1>2. DOMAIN PrintUdis(list) = DOMAIN list
      /\ \A i \in DOMAIN list : PrintUdis(list)[i][1] = list[i].udi
  BY <1>1 DEF PrintUdis
<1>3. QED
  BY <1>2 DEF UdisIn, UdisOf

LEMMA UdisRead ==
    ASSUME NEW lines \in Seq(Line)
    PROVE  UdisOf(ParseFile(lines)) = UdisIn(lines)
<1> DEFINE read == [i \in DOMAIN lines |-> ParseLine(lines[i])]
           N == Len(lines)
<1>1. /\ N \in Nat /\ DOMAIN lines = 1 .. N /\ Len(read) = N
      /\ \A i \in 1 .. N : read[i].udi = lines[i][1]
  BY DEF ParseLine
<1>2. ParseFile(lines) = [i \in 1 .. N |-> read[(N - i) + 1]]
  BY <1>1 DEF ParseFile, Reverse
<1> HIDE DEF read, N
<1>3. /\ DOMAIN ParseFile(lines) = 1 .. N
      /\ \A i \in 1 .. N : ParseFile(lines)[i].udi = lines[(N - i) + 1][1]
  BY <1>1, <1>2
<1>4. ASSUME NEW u \in UdisIn(lines) PROVE u \in UdisOf(ParseFile(lines))
  <2>1. PICK i \in 1 .. N : u = lines[i][1]
    BY <1>1, <1>4 DEF UdisIn
  <2>2. (N - i) + 1 \in 1 .. N /\ (N - ((N - i) + 1)) + 1 = i
    BY <1>1
  <2>3. ParseFile(lines)[(N - i) + 1].udi = u
    BY <1>3, <2>1, <2>2
  <2>4. QED
    BY <1>3, <2>2, <2>3 DEF UdisOf
<1>5. ASSUME NEW u \in UdisOf(ParseFile(lines)) PROVE u \in UdisIn(lines)
  <2>1. PICK i \in 1 .. N : u = ParseFile(lines)[i].udi
    BY <1>3, <1>5 DEF UdisOf
  <2>2. (N - i) + 1 \in 1 .. N
    BY <1>1
  <2>3. u = lines[(N - i) + 1][1]
    BY <1>3, <2>1
  <2>4. lines[(N - i) + 1][1] \in UdisIn(lines)
    BY <1>1, <2>2 DEF UdisIn
  <2>5. QED
    BY <2>3, <2>4
<1>6. QED
  BY <1>4, <1>5

LEMMA UdisAhead ==
    ASSUME NEW list \in Seq(TableEntry), list # <<>>
    PROVE  /\ UdisOf(list) = {Head(list).udi} \cup UdisOf(Tail(list))
           /\ \A e \in TableEntry :
                 e.udi = Head(list).udi => UdisOf([list EXCEPT ![1] = e]) = UdisOf(list)
<1> DEFINE N == Len(list)
<1>1. /\ N \in Nat \ {0} /\ DOMAIN list = 1 .. N /\ Head(list) = list[1]
      /\ DOMAIN Tail(list) = 1 .. N - 1
      /\ \A i \in 1 .. N - 1 : Tail(list)[i] = list[i + 1]
  OBVIOUS
<1>2. ASSUME NEW e \in TableEntry, e.udi = Head(list).udi
      PROVE  UdisOf([list EXCEPT ![1] = e]) = UdisOf(list)
  BY <1>1, <1>2 DEF UdisOf
<1> HIDE DEF N
<1>3. ASSUME NEW u \in UdisOf(list) PROVE u \in {Head(list).udi} \cup UdisOf(Tail(list))
  <2>1. PICK i \in 1 .. N : u = list[i].udi
    BY <1>1, <1>3 DEF UdisOf
  <2>2. CASE i = 1
    BY <1>1, <2>1, <2>2
  <2>3. CASE i # 1
    <3>1. i - 1 \in 1 .. N - 1 /\ (i - 1) + 1 = i
      BY <1>1, <2>3
    <3>2. u = Tail(list)[i - 1].udi
      BY <1>1, <2>1, <3>1
    <3>3. QED
      BY <1>1, <3>1, <3>2 DEF UdisOf
  <2>4. QED
    BY <2>2, <2>3
<1>4. ASSUME NEW u \in {Head(list).udi} \cup UdisOf(Tail(list)) PROVE u \in UdisOf(list)
  <2>1. CASE u = Head(list).udi
    BY <1>1, <2>1 DEF UdisOf
  <2>2. CASE u \in UdisOf(Tail(list))
    <3>1. PICK i \in 1 .. N - 1 : u = Tail(list)[i].udi
      BY <1>1, <2>2 DEF UdisOf
    <3>2. i + 1 \in 1 .. N /\ u = list[i + 1].udi
      BY <1>1, <3>1
    <3>3. QED
      BY <1>1, <3>2 DEF UdisOf
  <2>3. QED
    BY <1>4, <2>1, <2>2
<1>5. QED
  BY <1>2, <1>3, <1>4

LEMMA UdisMore ==
    ASSUME NEW list \in Seq(TableEntry), NEW e \in TableEntry
    PROVE  /\ UdisOf(Append(list, e)) = UdisOf(list) \cup {e.udi}
           /\ UdisOf(<<e>> \o list) = UdisOf(list) \cup {e.udi}
<1> DEFINE N == Len(list)
           S == UdisOf(list) \cup {e.udi}
<1>1. N \in Nat /\ DOMAIN list = 1 .. N
  OBVIOUS
<1>2. UdisOf(Append(list, e)) = S
  <2> DEFINE new == Append(list, e)
  <2>1. /\ DOMAIN new = 1 .. N + 1
        /\ \A i \in 1 .. N : new[i] = list[i]
        /\ new[N + 1] = e
    OBVIOUS
  <2> HIDE DEF new, N
  <2>2. \A i \in 1 .. N : i \in 1 .. N + 1
    BY <1>1
  <2>3. \A i \in 1 .. N + 1 : i = N + 1 \/ i \in 1 .. N
    BY <1>1
  <2>4. N + 1 \in 1 .. N + 1
    BY <1>1
  <2>5. QED
    BY <1>1, <2>1, <2>2, <2>3, <2>4 DEF UdisOf, new
<1>3. UdisOf(<<e>> \o list) = S
  <2> DEFINE new == <<e>> \o list
  <2>1. /\ DOMAIN new = 1 .. N + 1
        /\ \A i \in 1 .. N : new[i + 1] = list[i]
        /\ new[1] = e
    OBVIOUS
  <2> HIDE DEF new, N
  <2>2. \A i \in 1 .. N : i + 1 \in 1 .. N + 1
    BY <1>1
  <2>3. \A i \in 1 .. N + 1 : i = 1 \/ (i - 1 \in 1 .. N /\ (i - 1) + 1 = i)
    BY <1>1
  <2>4. 1 \in 1 .. N + 1
    BY <1>1
  <2>5. ASSUME NEW u \in UdisOf(new) PROVE u \in S
    <3>1. PICK i \in 1 .. N + 1 : u = new[i].udi
      BY <2>1, <2>5 DEF UdisOf
    <3>2. CASE i = 1
      BY <2>1, <3>1, <3>2
    <3>3. CASE i - 1 \in 1 .. N /\ (i - 1) + 1 = i
      <4>1. u = list[i - 1].udi
        BY <2>1, <3>1, <3>3
      <4>2. list[i - 1].udi \in UdisOf(list)
        BY <1>1, <3>3 DEF UdisOf
      <4>3. QED
        BY <4>1, <4>2
    <3>4. QED
      BY <2>3, <3>2, <3>3
  <2>6. ASSUME NEW u \in S PROVE u \in UdisOf(new)
    <3>1. CASE u = e.udi
      BY <2>1, <2>4, <3>1 DEF UdisOf
    <3>2. CASE u \in UdisOf(list)
      <4>1. PICK i \in 1 .. N : u = list[i].udi
        BY <1>1, <3>2 DEF UdisOf
      <4>2. i + 1 \in 1 .. N + 1 /\ u = new[i + 1].udi
        BY <2>1, <2>2, <4>1
      <4>3. QED
        BY <2>1, <4>2 DEF UdisOf
    <3>3. QED
      BY <2>6, <3>1, <3>2
  <2>7. QED
    BY <2>5, <2>6 DEF new
<1>4. QED
  BY <1>2, <1>3

-----------------------------------------------------------------------------
(* What was promised, as long as nothing has gone wrong.                   *)

Tabled == UdisIn(Table)
Fronted(p) == UdisOf(front[p])
Left(p) == UdisOf(rest[p])
Printed(p) == UdisIn(out[p].lines)
Adds(p) == Cmd(p) \in {"add", "mount"}

(* A run has the promised udis in its list, as it is brought up to date    *)
(* with HAL and added to, and then in what it has printed.                 *)
Kept(p) ==
    /\ pc[p] \in {"check", "ask"} => promised \subseteq Fronted(p) \cup Left(p)
    /\ pc[p] \in {"rewrite", "write"} => promised \subseteq Fronted(p)
    /\ pc[p] = "write" => target[p] \in Fronted(p)
    /\ pc[p] \in {"mount", "rename"} =>
          promised \subseteq Printed(p) /\ (Adds(p) => target[p] \in Printed(p))

(* They are in the table, or in the buffer of the run that has renamed it. *)
OwnFile ==
    \A p, q \in Procs : out[p].file # NoFile /\ out[p].file = out[q].file => p = q

Backed ==
    /\ OwnFile
    /\ \A p \in Procs : Unwritten(p) => promised \subseteq Printed(p)
    /\ (\A p \in Procs : ~Unwritten(p)) => promised \subseteq Tabled

KeptInv == WorkInv /\ (mishaps = {} => Backed /\ \A p \in Procs : Kept(p))

LEMMA NoMishapYet ==
    ASSUME IInv, NEW p \in Procs, Step(p), mishaps' = {}
    PROVE  mishaps = {} /\ LockHolds
BY LockingSteps DEF Locking, LockHolds

-----------------------------------------------------------------------------
(* The table, and the files that runs have in their buffers.               *)

LEMMA BackedSame ==
    ASSUME Backed, UNCHANGED <<tab, content, out>>, promised' \subseteq promised
    PROVE  Backed'
BY DEF Backed, OwnFile, Unwritten, Printed, Tabled, Table, UdisIn

(* A run ends: its text is in its file, or it has not renamed it.          *)
LEMMA EndBacked ==
    ASSUME IInv, Backed, NEW p \in Procs, Forget(p), UNCHANGED <<tab, promised>>,
           Flush(p) \/ (content' = content /\ ~Unwritten(p))
    PROVE  Backed'
<1>1. /\ out'[p].file = NoFile
      /\ \A q \in Procs \ {p} : out'[q] = out[q]
  BY DEF Forget, NoOutput, IInv, Shape
<1>2. \A q \in Procs \ {p} : Unwritten(q)' = Unwritten(q) /\ Printed(q)' = Printed(q)
  BY <1>1 DEF Unwritten, Printed, UdisIn
<1>3. ~Unwritten(p)'
  BY <1>1 DEF Unwritten
<1>4. OwnFile'
  BY <1>1 DEF Backed, OwnFile
<1>5. \A q \in Procs : Unwritten(q)' => promised' \subseteq Printed(q)'
  BY <1>2, <1>3 DEF Backed
<1>6. ASSUME \A q \in Procs : ~Unwritten(q)' PROVE promised' \subseteq Tabled'
  <2>1. CASE Unwritten(p)
    <3>1. out[p].file = tab /\ tab \in Files /\ Flush(p)
      BY <2>1 DEF Unwritten, IInv, FilesOK
    <3>2. content'[tab] = out[p].lines
      BY <2>1, <3>1 DEF Flush, Unwritten, IInv, FilesOK
    <3>3. Tabled' = Printed(p)
      BY <2>1, <3>2 DEF Tabled, Table, Printed, Unwritten, UdisIn
    <3>4. QED
      BY <2>1, <3>3 DEF Backed
  <2>2. CASE ~Unwritten(p)
    <3>1. \A q \in Procs : ~Unwritten(q)
      BY <1>2, <1>6, <2>2
    <3>2. tab = NoFile \/ content'[tab] = content[tab]
      BY <2>2 DEF Unwritten, Flush, IInv, FilesOK
    <3>3. Tabled' = Tabled
      BY <3>2 DEF Tabled, Table, UdisIn
    <3>4. QED
      BY <3>1, <3>3 DEF Backed
  <2>3. QED
    BY <2>1, <2>2
<1>7. QED
  BY <1>4, <1>5, <1>6 DEF Backed

(* The new table is a file of its own.                                     *)
LEMMA WriteTmpFile ==
    ASSUME IInv, OwnTmp, LockHolds, NEW p \in Procs, WriteTmp(p)
    PROVE  /\ tmp' \in Files /\ tmp' # tab /\ tmp' # NoFile
           /\ \A q \in Procs : out[q].file # tmp'
           /\ content' = [content EXCEPT ![tmp'] = <<>>]
           /\ out' = [out EXCEPT ![p] = [file |-> tmp', lines |-> PrintUdis(front[p])]]
<1> DEFINE unused == CHOOSE f \in Files : f # tab /\ \A q \in Procs : out[q].file # f
<1>1. tmp = NoFile
  BY DEF WriteTmp, OwnTmp, Listing
<1>2. unused \in Files /\ unused # tab /\ \A q \in Procs : out[q].file # unused
  BY FileIsFree
<1>3. /\ tmp' = unused
      /\ content' = [content EXCEPT ![unused] = <<>>]
      /\ out' = [out EXCEPT ![p] = [file |-> unused, lines |-> PrintUdis(front[p])]]
  BY <1>1 DEF WriteTmp
<1> HIDE DEF unused
<1>4. unused # NoFile
  BY <1>2, MountAssumption
<1>5. QED
  BY <1>2, <1>3, <1>4

LEMMA WriteTmpBacked ==
    ASSUME IInv, OwnTmp, LockHolds, Backed, NEW p \in Procs, WriteTmp(p)
    PROVE  Backed'
<1>1. /\ tmp' \in Files /\ tmp' # tab /\ tmp' # NoFile
      /\ \A q \in Procs : out[q].file # tmp'
      /\ content' = [content EXCEPT ![tmp'] = <<>>]
      /\ out'[p] = [file |-> tmp', lines |-> PrintUdis(front[p])]
      /\ \A q \in Procs \ {p} : out'[q] = out[q]
      /\ UNCHANGED <<tab, promised>>
  BY WriteTmpFile DEF IInv, Shape, WriteTmp, ghosts
<1>2. /\ out'[p].file = tmp' /\ ~Unwritten(p)'
      /\ \A q \in Procs \ {p} : Unwritten(q)' = Unwritten(q) /\ Printed(q)' = Printed(q)
  BY <1>1 DEF Unwritten, Printed, UdisIn
<1>3. ~Unwritten(p)
  BY DEF WriteTmp, IInv, Place, Unwritten
<1>4. tab = NoFile \/ content'[tab] = content[tab]
  BY <1>1 DEF IInv, FilesOK
<1>5. Tabled' = Tabled
  BY <1>1, <1>4 DEF Tabled, Table, UdisIn
<1>6. OwnFile'
  BY <1>1, <1>2 DEF Backed, OwnFile
<1>7. \A q \in Procs : Unwritten(q)' => promised' \subseteq Printed(q)'
  BY <1>1, <1>2 DEF Backed
<1>8. (\A q \in Procs : ~Unwritten(q)') => promised' \subseteq Tabled'
  BY <1>1, <1>2, <1>3, <1>5 DEF Backed
<1>9. QED
  BY <1>6, <1>7, <1>8 DEF Backed

(* A run that renames its table has the promised udis and its own in it.   *)
LEMMA RenameBacked ==
    ASSUME IInv, OwnTmp, LockHolds, Backed, NEW p \in Procs, Kept(p), Rename(p)
    PROVE  Backed'
<1>1. /\ pc[p] = "rename" /\ tab' = tmp /\ tmp # NoFile /\ out' = out
      /\ promised' \subseteq promised \cup (IF Adds(p) THEN {target[p]} ELSE {})
  BY DEF Rename, Adds
<1>2. out[p].file = tmp
  BY <1>1 DEF OwnTmp
<1>3. promised' \subseteq Printed(p)
  BY <1>1 DEF Kept
<1>4. Unwritten(p)' /\ \A q \in Procs \ {p} : ~Unwritten(q)'
  BY <1>1, <1>2 DEF Unwritten, Backed, OwnFile
<1>5. \A q \in Procs : Printed(q)' = Printed(q)
  BY <1>1 DEF Printed, UdisIn
<1>6. OwnFile'
  BY <1>1 DEF Backed, OwnFile
<1>7. QED
  BY <1>3, <1>4, <1>5, <1>6 DEF Backed

(* There is no table any more, and nothing is promised.                    *)
LEMMA NoTableBacked ==
    ASSUME Backed, NEW p \in Procs, Kept(p), CleanAll(p) \/ RemoveTable(p)
    PROVE  Backed'
<1>1. promised' = {}
  <2>1. CASE CleanAll(p)
    BY <2>1 DEF CleanAll
  <2>2. CASE RemoveTable(p)
    BY <2>2 DEF RemoveTable, Kept, Fronted, UdisOf, ghosts
  <2>3. QED
    BY <2>1, <2>2
<1>2. OwnFile'
  BY DEF CleanAll, RemoveTable, Backed, OwnFile
<1>3. QED
  BY <1>1, <1>2 DEF Backed

LEMMA StepBacked ==
    ASSUME IInv, OwnTmp, Backed, NEW p \in Procs, Kept(p), Step(p), mishaps' = {}
    PROVE  Backed'
<1>1. LockHolds
  BY NoMishapYet
<1>2. CASE Start(p) \/ OpenLock(p) \/ OpenFails(p) \/ Lock(p) \/ LockUnopened(p)
           \/ LockFails(p)
  BY <1>2, BackedSame
     DEF Start, OpenLock, OpenFails, Lock, LockUnopened, LockFails, names, ghosts
<1>3. CASE UnlinkLock(p) \/ CloseLock(p) \/ RemoveTmp(p)
  BY <1>3, BackedSame DEF UnlinkLock, CloseLock, RemoveTmp, names, ghosts
<1>4. CASE Kill(p)
  <2>1. ~Unwritten(p)
    BY <1>4 DEF Kill, StrikesIf
  <2>2. Forget(p) /\ UNCHANGED <<tab, promised, content>>
    BY <1>4 DEF Kill, names
  <2>3. QED
    BY <2>1, <2>2, EndBacked
<1>5. CASE Exit(p)
  BY <1>5, EndBacked DEF Exit
<1>6. ASSUME Fail(p) PROVE Backed'
  BY <1>6, EndBacked DEF Fail
<1>7. CASE \/ NoHal(p) \/ Vanished(p) \/ NoDevices(p) \/ NothingToAdd(p)
           \/ NothingFound(p) \/ MountFails(p)
  BY <1>6, <1>7 DEF NoHal, Vanished, NoDevices, NothingToAdd, NothingFound, MountFails
<1>8. CASE Parse(p) \/ Sync(p) \/ FindHandled(p) \/ AddUdi(p)
  BY <1>8, BackedSame DEF Parse, Sync, FindHandled, AddUdi, names, ghosts
<1>9. CASE CheckUdi(p) \/ ReadUdi(p) \/ Umount(p)
  BY <1>9, BackedSame DEF CheckUdi, ReadUdi, Umount, names, ghosts
<1>10. CASE Clean(p)
  BY <1>10, BackedSame DEF Clean, names
<1>11. CASE UmountNext(p) \/ Mount(p)
  BY <1>11, BackedSame DEF UmountNext, Mount, names
<1>12. CASE UmountDone(p) \/ RenameFails(p)
  BY <1>6, <1>12, BackedSame DEF UmountDone, RenameFails, names, ghosts
<1>13. CASE WriteTmp(p)
  BY <1>1, <1>13, WriteTmpBacked
<1>14. CASE Rename(p)
  BY <1>1, <1>14, RenameBacked
<1>15. CASE CleanAll(p) \/ RemoveTable(p)
  BY <1>15, NoTableBacked
<1>16. QED
  BY <1>2, <1>3, <1>4, <1>5, <1>7, <1>8, <1>9, <1>10, <1>11, <1>12, <1>13, <1>14,
     <1>15 DEF Step, Run

-----------------------------------------------------------------------------
(* The list of a run.                                                      *)

(* Every line of the table is an entry of the list before sync begins.     *)
LEMMA ParseKept ==
    ASSUME IInv, Backed, NEW p \in Procs, Parse(p), mishaps' = {}
    PROVE  Kept(p)'
<1>1. /\ pc'[p] = "check" /\ front'[p] = <<>>
      /\ rest'[p] = IF tab = NoFile THEN <<>> ELSE ParseFile(content[tab])
      /\ promised' = promised
  BY DEF Parse, Goto, IInv, Shape, Place
<1>2. \A q \in Procs : ~Unwritten(q)
  BY DEF Parse, StrikesIf
<1>3. promised \subseteq Tabled
  BY <1>2 DEF Backed
<1>4. Left(p)' = Tabled
  <2>1. CASE tab = NoFile
    BY <1>1, <2>1 DEF Left, Tabled, Table, UdisOf, UdisIn
  <2>2. CASE tab # NoFile
    <3>1. UdisOf(ParseFile(content[tab])) = UdisIn(content[tab])
      BY <2>2, UdisRead DEF IInv, FilesOK
    <3>2. Left(p)' = UdisOf(rest'[p])
      BY DEF Left, UdisOf
    <3>3. QED
      BY <1>1, <2>2, <3>1, <3>2 DEF Tabled, Table
  <2>3. QED
    BY <2>1, <2>2
<1>5. QED
  BY <1>1, <1>3, <1>4 DEF Kept

(* An entry that is dropped is of a udi HAL does not know, which nothing   *)
(* is promised of, and alone goes; one that is kept stays.                 *)
LEMMA DropKept ==
    ASSUME IInv, NEW p \in Procs, Kept(p), pc[p] \in {"check", "ask"}, rest[p] # <<>>,
           Drop(p), Current(p).udi \notin Known, pc'[p] = "check", promised' = promised,
           mishaps' = {}
    PROVE  Kept(p)'
<1>1. /\ rest[p] \in Seq(TableEntry) /\ Current(p) = Head(rest[p])
      /\ rest'[p] = Tail(rest[p]) /\ front'[p] = RemoveUdi(front[p])
  BY DEF Drop, Current, IInv, Shape
<1>2. RemoveUdi(front[p]) = front[p]
  BY DEF Drop, StrikesIf
<1>3. Left(p) = {Current(p).udi} \cup UdisOf(Tail(rest[p]))
  BY <1>1, UdisAhead DEF Left
<1>4. Fronted(p)' = Fronted(p) /\ Left(p)' = UdisOf(Tail(rest[p]))
  BY <1>1, <1>2 DEF Fronted, Left, UdisOf
<1>5. Current(p).udi \notin promised
  BY DEF IInv, FilesOK
<1>6. QED
  BY <1>3, <1>4, <1>5 DEF Kept

LEMMA KeepKept ==
    ASSUME IInv, NEW p \in Procs, Kept(p), pc[p] = "ask", rest[p] # <<>>,
           NEW e \in TableEntry, e.udi = Current(p).udi, Keep(p, e),
           pc'[p] = "check", promised' = promised
    PROVE  Kept(p)'
<1>1. /\ rest[p] \in Seq(TableEntry) /\ front[p] \in Seq(TableEntry)
      /\ Current(p) = Head(rest[p])
      /\ rest'[p] = Tail(rest[p]) /\ front'[p] = Append(front[p], e)
  BY DEF Keep, Current, IInv, Shape
<1>2. Left(p) = {e.udi} \cup UdisOf(Tail(rest[p]))
  BY <1>1, UdisAhead DEF Left
<1>3. UdisOf(Append(front[p], e)) = UdisOf(front[p]) \cup {e.udi}
  BY <1>1, UdisMore
<1>4. Fronted(p)' = UdisOf(front'[p]) /\ Left(p)' = UdisOf(rest'[p])
  BY DEF Fronted, Left, UdisOf
<1>5. QED
  BY <1>1, <1>2, <1>3, <1>4 DEF Kept, Fronted

LEMMA CheckUdiKept ==
    ASSUME IInv, NEW p \in Procs, Kept(p), CheckUdi(p), mishaps' = {}
    PROVE  Kept(p)'
<1> DEFINE e == Current(p)
           d == hal[e.udi].device
           f == [e EXCEPT !.device = d]
<1>1. /\ pc[p] = "check" /\ rest[p] # <<>> /\ rest[p] \in Seq(TableEntry)
      /\ promised' = promised
  BY DEF CheckUdi, IInv, Shape
<1>2. e \in TableEntry /\ e = Head(rest[p])
  BY <1>1, CurrentEntry DEF Current
<1>3. CASE e.udi \notin Known
  <2>1. Drop(p) /\ pc'[p] = "check"
    BY <1>1, <1>3 DEF CheckUdi
  <2>2. QED
    BY <1>1, <1>3, <2>1, DropKept
<1>4. CASE e.udi \in Known
  <2>1. pc'[p] = "ask" /\ front' = front /\ rest' = [rest EXCEPT ![p][1].device = d]
    BY <1>4 DEF CheckUdi, Goto, IInv, Shape
  <2>2. f \in TableEntry /\ f.udi = e.udi
    <3>1. d \in Devices
      BY <1>2, <1>4 DEF Known, IInv, FilesOK, HalVolume
    <3> HIDE DEF e, d
    <3>2. QED
      BY <1>2, <3>1 DEF TableEntry
  <2>3. rest'[p] = [rest[p] EXCEPT ![1] = f]
    BY <1>1, <1>2, <2>1 DEF IInv, Shape
  <2> HIDE DEF e, d, f
  <2>4. Fronted(p)' = Fronted(p) /\ Left(p)' = UdisOf(rest'[p])
    BY <2>1 DEF Left, Fronted, UdisOf
  <2>5. Left(p)' = Left(p)
    BY <1>1, <1>2, <2>2, <2>3, <2>4, UdisAhead DEF Left
  <2>6. QED
    BY <1>1, <2>1, <2>4, <2>5 DEF Kept
<1>5. QED
  BY <1>3, <1>4

LEMMA ReadUdiKept ==
    ASSUME IInv, NEW p \in Procs, Kept(p), ReadUdi(p), mishaps' = {}
    PROVE  Kept(p)'
<1> DEFINE e == Current(p)
           m == IF e.udi \in Known THEN hal[e.udi].mountpoint ELSE None
           f == [e EXCEPT !.mountpoint = m]
<1>1. /\ pc[p] = "ask" /\ pc'[p] = "check" /\ rest[p] # <<>>
      /\ promised' = promised
  BY DEF ReadUdi, Goto, IInv, Shape, Place
<1>2. e \in TableEntry
  BY <1>1, CurrentEntry
<1>3. Keep(p, f) \/ (Drop(p) /\ e.udi \notin Known)
  BY DEF ReadUdi
<1>4. CASE Keep(p, f)
  <2>1. m \in Mountpoints \cup {None}
    BY <1>2 DEF Known, IInv, FilesOK, HalVolume
  <2> HIDE DEF e, m
  <2>2. f \in TableEntry /\ f.udi = e.udi
    BY <1>2, <2>1 DEF TableEntry
  <2> HIDE DEF f
  <2>3. QED
    BY <1>1, <1>4, <2>2, KeepKept DEF e
<1>5. CASE Drop(p) /\ e.udi \notin Known
  BY <1>1, <1>5, DropKept
<1>6. QED
  BY <1>3, <1>4, <1>5

(* What the run was asked to do.                                           *)
LEMMA FindHandledKept ==
    ASSUME IInv, NEW p \in Procs, Kept(p), FindHandled(p)
    PROVE  Kept(p)'
<1> DEFINE found == FindUdi(front[p], req[p].udi, req[p].device, None, None)
           fitting == {x \in Members(front[p]) :
                          Fits(x, req[p].udi, req[p].device, None, None)}
<1>1. /\ pc[p] = "check" /\ rest[p] = <<>> /\ front[p] \in Seq(TableEntry)
      /\ found # <<>> /\ Fronted(p)' = Fronted(p) /\ pc'[p] = "write"
      /\ target'[p] = found[1].udi /\ promised' = promised
  BY DEF FindHandled, Checked, Goto, IInv, Shape, Fronted, UdisOf, ghosts
<1>2. found \in Seq(fitting)
  BY <1>1, FindUdiFinds
<1>3. \A x \in fitting : x.udi \in Fronted(p)
  BY DEF Members, Fronted, UdisOf
<1> HIDE DEF found, fitting
<1>4. target'[p] \in Fronted(p)
  BY <1>1, <1>2, <1>3
<1>5. promised \subseteq Fronted(p)
  BY <1>1 DEF Kept, Left, UdisOf
<1>6. QED
  BY <1>1, <1>4, <1>5 DEF Kept

LEMMA AddUdiKept ==
    ASSUME IInv, NEW p \in Procs, Kept(p), AddUdi(p)
    PROVE  Kept(p)'
<1>1. PICK u \in Addable(req[p]) :
          /\ target' = [target EXCEPT ![p] = u]
          /\ front' = [front EXCEPT ![p] =
                <<[udi |-> u, device |-> hal[u].device,
                   mountpoint |-> hal[u].mountpoint]>> \o front[p]]
  BY DEF AddUdi
<1> DEFINE e == [udi |-> u, device |-> hal[u].device, mountpoint |-> hal[u].mountpoint]
<1>2. u \in Udis /\ u \in Known /\ hal[u] \in HalVolume
  BY <1>1 DEF Addable, Known, IInv, FilesOK
<1>3. e \in TableEntry /\ e.udi = u
  BY <1>2 DEF HalVolume, TableEntry
<1>4. front' = [front EXCEPT ![p] = <<e>> \o front[p]]
  BY <1>1
<1> HIDE DEF e
<1>5. /\ front'[p] = <<e>> \o front[p] /\ target'[p] = u /\ pc'[p] = "write"
      /\ front[p] \in Seq(TableEntry) /\ promised' = promised
      /\ pc[p] = "check" /\ rest[p] = <<>>
  BY <1>1, <1>4 DEF AddUdi, NotHandled, Checked, Goto, IInv, Shape, ghosts
<1>6. Fronted(p)' = UdisOf(front'[p])
  BY DEF Fronted, UdisOf
<1>7. Fronted(p)' = Fronted(p) \cup {u}
  BY <1>3, <1>5, <1>6, UdisMore DEF Fronted
<1>8. promised \subseteq Fronted(p)
  BY <1>5 DEF Kept, Left, UdisOf
<1>9. QED
  BY <1>5, <1>7, <1>8 DEF Kept

(* "clean" takes the udis it was asked to out, and those alone.            *)
LEMMA CleanKept ==
    ASSUME IInv, NEW p \in Procs, Kept(p), Clean(p), mishaps' = {}
    PROVE  Kept(p)'
<1>1. /\ pc[p] = "check" /\ rest[p] = <<>> /\ pc'[p] = "rewrite"
      /\ promised' = promised \ UdisOf(Found(p))
  BY DEF Clean, Checked, Goto, IInv, Shape
<1>2. UdisOf(front'[p]) = UdisOf(front[p]) \ UdisOf(Found(p))
  BY DEF Clean, StrikesIf
<1>3. Fronted(p)' = UdisOf(front'[p])
  BY DEF Fronted, UdisOf
<1>4. promised \subseteq Fronted(p)
  BY <1>1 DEF Kept, Left, UdisOf
<1>5. QED
  BY <1>1, <1>2, <1>3, <1>4 DEF Kept, Fronted

LEMMA WriteTmpKept ==
    ASSUME IInv, OwnTmp, LockHolds, NEW p \in Procs, Kept(p), WriteTmp(p)
    PROVE  Kept(p)'
<1>1. /\ pc[p] \in {"write", "rewrite"} /\ pc'[p] \in {"mount", "rename"}
      /\ front[p] \in Seq(TableEntry)
      /\ out'[p].lines = PrintUdis(front[p])
      /\ UNCHANGED <<req, target, promised>>
  BY WriteTmpFile DEF WriteTmp, AfterWrite, Goto, IInv, Shape, lists, ghosts
<1>2. Printed(p)' = UdisIn(PrintUdis(front[p]))
  BY <1>1 DEF Printed, UdisIn
<1>3. Printed(p)' = Fronted(p)
  BY <1>1, <1>2, UdisPrinted DEF Fronted
<1>4. Adds(p)' = Adds(p) /\ (pc[p] = "rewrite" => ~Adds(p))
  BY <1>1 DEF Adds, Cmd, IInv, Place
<1>5. QED
  BY <1>1, <1>3, <1>4 DEF Kept

LEMMA StepKept ==
    ASSUME IInv, OwnTmp, Backed, NEW p \in Procs, Kept(p), Step(p), mishaps' = {}
    PROVE  Kept(p)'
<1>1. LockHolds
  BY NoMishapYet
<1>2. pc \in [Procs -> Labels]
  BY DEF IInv, Shape
<1> DEFINE Bound == {"check", "ask", "rewrite", "write", "mount", "rename"}
<1>3. ASSUME pc'[p] \notin Bound PROVE Kept(p)'
  BY <1>3 DEF Kept
<1>4. CASE Start(p) \/ OpenLock(p) \/ OpenFails(p) \/ Lock(p) \/ LockUnopened(p)
           \/ LockFails(p)
  BY <1>2, <1>3, <1>4 DEF Start, OpenLock, OpenFails, Lock, LockUnopened, LockFails, Goto
<1>5. CASE UnlinkLock(p) \/ CloseLock(p) \/ RemoveTmp(p) \/ CleanAll(p) \/ RemoveTable(p)
  BY <1>2, <1>3, <1>5 DEF UnlinkLock, CloseLock, RemoveTmp, CleanAll, RemoveTable, Goto
<1>6. CASE Exit(p) \/ Kill(p) \/ Rename(p) \/ Umount(p)
  BY <1>2, <1>3, <1>6 DEF Exit, Kill, Forget, Rename, Umount, Goto
<1>7. ASSUME Fail(p) PROVE Kept(p)'
  BY <1>2, <1>3, <1>7 DEF Fail, Forget, Goto
<1>8. CASE \/ NoHal(p) \/ Vanished(p) \/ NoDevices(p) \/ NothingToAdd(p)
           \/ NothingFound(p) \/ MountFails(p)
  BY <1>7, <1>8 DEF NoHal, Vanished, NoDevices, NothingToAdd, NothingFound, MountFails
<1>9. CASE UmountDone(p) \/ RenameFails(p)
  BY <1>2, <1>3, <1>7, <1>9 DEF UmountDone, RenameFails, Goto
<1>10. CASE UmountNext(p)
  BY <1>3, <1>10 DEF UmountNext
<1>11. CASE Parse(p) \/ CheckUdi(p) \/ ReadUdi(p)
  BY <1>11, ParseKept, CheckUdiKept, ReadUdiKept
<1>12. CASE FindHandled(p) \/ AddUdi(p) \/ Clean(p)
  BY <1>12, FindHandledKept, AddUdiKept, CleanKept
<1>13. CASE Sync(p)
  <2>1. /\ pc[p] = "check" /\ rest[p] = <<>> /\ pc'[p] \in {"rewrite", "end"}
        /\ Fronted(p)' = Fronted(p) /\ promised' = promised
    BY <1>2, <1>13 DEF Sync, Checked, Goto, lists, ghosts, Fronted, UdisOf
  <2>2. QED
    BY <2>1 DEF Kept, Left, UdisOf
<1>14. CASE WriteTmp(p)
  BY <1>1, <1>14, WriteTmpKept
<1>15. CASE Mount(p)
  <2>1. /\ pc[p] = "mount" /\ pc'[p] = "rename" /\ Adds(p)' = Adds(p)
        /\ Printed(p)' = Printed(p) /\ UNCHANGED <<target, promised>>
    BY <1>2, <1>15 DEF Mount, Goto, lists, Printed, UdisIn, Adds, Cmd
  <2>2. QED
    BY <2>1 DEF Kept
<1>16. QED
  BY <1>4, <1>5, <1>6, <1>8, <1>9, <1>10, <1>11, <1>12, <1>13, <1>14, <1>15
     DEF Step, Run

(* What a run has of the table is not outdated: nobody else promises a udi *)
(* while it works.                                                         *)
LEMMA OthersKept ==
    ASSUME IInv, LockInv, NEW p \in Procs, NEW q \in Procs \ {p}, Kept(q), Step(p),
           mishaps' = {}
    PROVE  Kept(q)'
<1>1. /\ pc'[q] = pc[q] /\ Adds(q)' = Adds(q) /\ target'[q] = target[q]
      /\ Fronted(q)' = Fronted(q) /\ Left(q)' = Left(q) /\ Printed(q)' = Printed(q)
      /\ promised' \subseteq promised \/ Rename(p)
  BY AloneSteps DEF Alone, Adds, Cmd, Fronted, Left, Printed, UdisOf, UdisIn
<1>2. CASE promised' \subseteq promised
  BY <1>1, <1>2 DEF Kept
<1>3. CASE Rename(p)
  <2>1. Working(p)
    BY <1>3 DEF Rename, Working
  <2>2. ~Working(q)
    BY <2>1, NoMishapYet, Exclusion DEF RunsExclude, MutualExclusion
  <2>3. QED
    BY <1>1, <2>2 DEF Kept, Working
<1>4. QED
  BY <1>1, <1>2, <1>3

-----------------------------------------------------------------------------
LEMMA KeptInit == Init => KeptInv
<1>1. SUFFICES ASSUME Init PROVE Backed /\ \A p \in Procs : Kept(p)
  BY WorkInit DEF KeptInv
<1>2. promised = {} /\ \A p \in Procs : pc[p] = "idle" /\ out[p].file = NoFile
  BY <1>1 DEF Init, NoOutput
<1>3. QED
  BY <1>2 DEF Backed, OwnFile, Kept

LEMMA KeptNext == KeptInv /\ [Next]_vars => KeptInv'
<1>1. SUFFICES ASSUME KeptInv, [Next]_vars, mishaps' = {}
               PROVE  Backed' /\ \A q \in Procs : Kept(q)'
  BY WorkNext DEF KeptInv
<1>2. IInv /\ LockInv /\ OwnTmp
  BY <1>1 DEF KeptInv, WorkInv
<1>3. ASSUME UNCHANGED <<tab, content, pc, req, front, rest, target, out, mishaps>>,
             promised' \subseteq promised
      PROVE  Backed' /\ \A q \in Procs : Kept(q)'
  <2>1. Backed /\ \A q \in Procs : Kept(q)
    BY <1>1, <1>3 DEF KeptInv
  <2>2. Backed'
    BY <1>3, <2>1, BackedSame
  <2>3. ASSUME NEW q \in Procs PROVE Kept(q)'
    <3>1. /\ Adds(q)' = Adds(q) /\ Fronted(q)' = Fronted(q) /\ Left(q)' = Left(q)
          /\ Printed(q)' = Printed(q)
      BY <1>3 DEF Adds, Cmd, Fronted, Left, Printed, UdisOf, UdisIn
    <3>2. QED
      BY <1>3, <2>1, <3>1 DEF Kept
  <2>4. QED
    BY <2>2, <2>3
<1>4. CASE UNCHANGED vars
  BY <1>3, <1>4 DEF vars
<1>5. CASE \E u \in Udis : Unplug(u) \/ \E d \in Devices : Plug(u, d)
  BY <1>3, <1>5 DEF Plug, Unplug, names, lists
<1>6. ASSUME NEW p \in Procs, Step(p) PROVE Backed' /\ \A q \in Procs : Kept(q)'
  <2>1. Backed /\ \A q \in Procs : Kept(q)
    BY <1>1, <1>2, <1>6, NoMishapYet DEF KeptInv
  <2>2. Backed'
    BY <1>1, <1>2, <1>6, <2>1, StepBacked
  <2>3. Kept(p)'
    BY <1>1, <1>2, <1>6, <2>1, StepKept
  <2>4. \A q \in Procs \ {p} : Kept(q)'
    BY <1>1, <1>2, <1>6, <2>1, OthersKept
  <2>5. QED
    BY <2>2, <2>3, <2>4
<1>7. QED
  BY <1>1, <1>4, <1>5, <1>6 DEF Next, Step

(* However many runs of halevt-mount there are at the same time, whatever  *)
(* they are asked to do, and whatever is plugged, unmounted or killed: a   *)
(* device that "add" or "mount" has put in the table, and that was neither *)
(* cleaned nor unplugged, is missing from it when no run is under way only *)
(* after the lock was not taken or split, the table was read or its run    *)
(* killed before its text was written, or removing an entry from the list  *)
(* has taken another along.                                                *)
THEOREM LossesAreExplained == Spec => []LossesExplained
<1>1. KeptInv => LossesExplained
  <2>1. SUFFICES ASSUME KeptInv, mishaps = {}, \A p \in Procs : pc[p] = "idle"
                 PROVE  promised \subseteq UdisIn(Table)
    BY DEF LossesExplained, AddsKept
  <2>2. \A p \in Procs : ~Unwritten(p)
    BY <2>1 DEF KeptInv, WorkInv, IInv, Place, Unwritten
  <2>3. QED
    BY <2>1, <2>2 DEF KeptInv, Backed, Tabled
<1>2. QED
  BY <1>1, KeptInit, KeptNext, PTL DEF Spec

=============================================================================
