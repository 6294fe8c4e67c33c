------------------------- MODULE ParseConfig_proofs -------------------------
(***************************************************************************)
(* What holds of the configuration of halevt, whatever files there are and *)
(* whatever texts are in them.                                             *)
(***************************************************************************)
EXTENDS ParseConfig, Loops, SequenceTheorems, FiniteSetTheorems

-----------------------------------------------------------------------------
(* Which files are found.                                                  *)

Has(d, name) ==
    /\ name \in DOMAIN Directories[d]
    /\ ConfName(name)
    /\ Directories[d][name].kind = "regular"

(* Directory entries readdir has given already.                            *)
Looked(d, name) == d < dir \/ (d = dir /\ name \notin unread)

Searched == ~start.report /\ start.given = <<>>

(* A found file is the first of its name, and all names are found.         *)
FirstOfName(d, name) ==
    /\ d \in 1 .. dir /\ Has(d, name) /\ Looked(d, name)
    /\ \A e \in 1 .. d - 1 : ~Has(e, name)

SearchOK ==
    Searched =>
        /\ dir \in 0 .. 3
        /\ dir = 0 => unread = {}
        /\ dir > 0 => unread \subseteq DOMAIN Directories[dir]
        /\ pc \in {"parse", "loaded"} => unread = {} /\ dir = 3
        /\ conffiles = [i \in 1 .. Len(conffiles) |-> conffiles[i]]
        /\ Len(conffiles) \in Nat
        /\ \A i \in 1 .. Len(conffiles) :
              /\ FirstOfName(conffiles[i].dir, conffiles[i].name)
              /\ \A j \in i .. Len(conffiles) : conffiles[i].dir <= conffiles[j].dir
              /\ \A j \in 1 .. Len(conffiles) :
                    conffiles[i].name = conffiles[j].name => i = j
        /\ \A d \in 1 .. dir : \A name \in DOMAIN Directories[d] :
              Has(d, name) /\ Looked(d, name) =>
                  \E i \in 1 .. Len(conffiles) : conffiles[i].name = name

LEMMA AppendFile ==
    ASSUME NEW s, NEW f, Len(s) \in Nat, s = [i \in 1 .. Len(s) |-> s[i]]
    PROVE  LET t == Append(s, f)
           IN  /\ Len(t) = Len(s) + 1 /\ t = [i \in 1 .. Len(t) |-> t[i]]
               /\ t[Len(s) + 1] = f
               /\ \A i \in 1 .. Len(s) : t[i] = s[i]
<1>. DEFINE S == {s[i] : i \in 1 .. Len(s)} \cup {f}
<1>1. s \in Seq(S)
  <2>1. \A i \in 1 .. Len(s) : s[i] \in S
    OBVIOUS
  <2>. HIDE DEF S
  <2>2. \A n \in Nat : [i \in 1 .. n |-> s[i]] \in Seq(S) <=> \A i \in 1 .. n : s[i] \in S
    OBVIOUS
  <2>3. [i \in 1 .. Len(s) |-> s[i]] \in Seq(S)
    BY <2>1, <2>2
  <2>. QED  BY <2>3
<1>2. f \in S
  OBVIOUS
<1>. HIDE DEF S
<1>3. /\ Append(s, f) \in Seq(S) /\ Len(Append(s, f)) = Len(s) + 1
      /\ Append(s, f)[Len(s) + 1] = f /\ \A i \in 1 .. Len(s) : Append(s, f)[i] = s[i]
  BY <1>1, <1>2, AppendProperties
<1>4. Append(s, f) = [i \in 1 .. Len(s) + 1 |-> Append(s, f)[i]]
  <2>. DEFINE t == Append(s, f)
  <2>1. t \in Seq(S) /\ Len(t) = Len(s) + 1
    BY <1>3
  <2>. HIDE DEF t
  <2>2. t = [i \in 1 .. Len(t) |-> t[i]]
    BY <2>1
  <2>. QED  BY <2>1, <2>2 DEF t
<1>. QED  BY <1>3, <1>4

LEMMA SearchInit == Init => SearchOK
<1>1. SUFFICES ASSUME Init, Searched PROVE SearchOK
  BY DEF SearchOK
<1>2. conffiles = <<>> /\ Len(conffiles) = 0 /\ 1 .. 0 = {}
  BY <1>1 DEF Init, Searched
<1>3. dir = 0 /\ unread = {} /\ pc = "find"
  BY <1>1 DEF Init, Searched
<1>. QED  BY <1>2, <1>3 DEF SearchOK

LEMMA SearchNext == SearchOK /\ [Next]_vars => SearchOK'
<1>1. SUFFICES ASSUME SearchOK, [Next]_vars, Searched PROVE SearchOK'
  BY SMTT(30) DEF SearchOK, Searched, Next, vars, OpenDirectory, ReadEntry, AllFound, BadFile, FileDone,
         Loaded, AddRule, AddCondition, AddProperty, AddPropertyValue, PropertyDone, PassOver,
         AddTo, NextElement
<1>2. start' = start /\ Searched' /\ \A d, name : Has(d, name)' = Has(d, name)
  BY <1>1 DEF Searched, Next, vars, OpenDirectory, ReadEntry, AllFound, BadFile, FileDone,
         Loaded, AddRule, AddCondition, AddProperty, AddPropertyValue, PropertyDone, PassOver,
         AddTo, NextElement, Has, Directories
<1>3. /\ dir \in 0 .. 3
      /\ dir = 0 => unread = {}
      /\ dir > 0 => unread \subseteq DOMAIN Directories[dir]
      /\ pc \in {"parse", "loaded"} => unread = {} /\ dir = 3
      /\ conffiles = [i \in 1 .. Len(conffiles) |-> conffiles[i]]
      /\ Len(conffiles) \in Nat
      /\ Len(Directories) = 3 /\ Directories' = Directories
  BY <1>1, <1>2 DEF SearchOK, Directories
<1>4. CASE OpenDirectory
  <2>1. /\ unread = {} /\ dir \in 0 .. 2 /\ dir' = dir + 1 /\ pc' = pc /\ pc = "find"
        /\ unread' = DOMAIN Directories[dir + 1] /\ conffiles' = conffiles
    BY <1>3, <1>4 DEF OpenDirectory
  <2>2. ASSUME NEW d \in 1 .. dir', NEW name \in DOMAIN Directories[d]
        PROVE  Looked(d, name)' <=> d \in 1 .. dir
    <3>1. CASE d = dir + 1
      BY <1>3, <2>1, <3>1 DEF Looked
    <3>2. CASE d # dir + 1
      <4>1. d \in 1 .. dir /\ d < dir + 1 /\ dir' = dir + 1
        BY <1>3, <2>1, <3>2
      <4>. QED  BY <4>1 DEF Looked
    <3>. QED  BY <3>1, <3>2
  <2>3. \A d \in 1 .. dir : \A name : Looked(d, name)
    BY <1>3, <2>1 DEF Looked
  <2>4. ASSUME NEW d, NEW name, FirstOfName(d, name)
        PROVE  FirstOfName(d, name)'
    BY <1>2, <1>3, <2>1, <2>2, <2>4 DEF FirstOfName, Has
  <2>5. ASSUME NEW d \in 1 .. dir', NEW name \in DOMAIN Directories[d],
               Has(d, name)', Looked(d, name)'
        PROVE  \E i \in 1 .. Len(conffiles) : conffiles[i].name = name
    BY <1>1, <1>2, <2>2, <2>3, <2>5 DEF SearchOK
  <2>6. \A i \in 1 .. Len(conffiles) : FirstOfName(conffiles[i].dir, conffiles[i].name)'
    BY <1>1, <2>1, <2>4 DEF SearchOK
  <2>7. Len(conffiles') = Len(conffiles) /\ dir' \in 1 .. 3
    BY <2>1
  <2>. QED  BY <1>1, <1>2, <1>3, <2>1, <2>5, <2>6, <2>7 DEF SearchOK
<1>5. CASE ReadEntry
  <2>. DEFINE N == Len(conffiles)
  <2>1. PICK name \in unread :
            /\ unread' = unread \ {name}
            /\ conffiles' =
                  IF Has(dir, name) /\ ~AlreadyFound(name)
                  THEN Append(conffiles, [name |-> name, dir |-> dir,
                                          document |-> Directories[dir][name].document])
                  ELSE conffiles
    BY <1>3, <1>5 DEF ReadEntry, Has
  <2>2. dir' = dir /\ pc' = pc /\ dir \in 1 .. 3 /\ unread # {}
    BY <1>3, <1>5, <2>1 DEF ReadEntry
  <2>3. ASSUME NEW d \in 1 .. dir, NEW n
        PROVE  Looked(d, n)' <=> Looked(d, n) \/ (d = dir /\ n = name)
    <3>1. d \in Int /\ dir \in Int /\ ~(dir < dir)
      BY <1>3
    <3>. QED  BY <2>1, <2>2, <3>1 DEF Looked
  <2>4. ASSUME NEW d, NEW n, FirstOfName(d, n)
        PROVE  FirstOfName(d, n)'
    <3>1. /\ d \in 1 .. dir /\ Has(d, n) /\ Looked(d, n)
          /\ \A e \in 1 .. d - 1 : ~Has(e, n)
      BY <2>4 DEF FirstOfName
    <3>2. Looked(d, n)' /\ Has(d, n)'
      BY <1>2, <2>3, <3>1
    <3>. QED  BY <1>2, <2>2, <3>1, <3>2 DEF FirstOfName
  <2>5. \A i \in 1 .. N :
            /\ FirstOfName(conffiles[i].dir, conffiles[i].name)
            /\ \A j \in i .. N : conffiles[i].dir <= conffiles[j].dir
            /\ \A j \in 1 .. N : conffiles[i].name = conffiles[j].name => i = j
    BY <1>1 DEF SearchOK
  <2>6. \A d \in 1 .. dir : \A n \in DOMAIN Directories[d] :
            Has(d, n) /\ Looked(d, n) => \E i \in 1 .. N : conffiles[i].name = n
    BY <1>1 DEF SearchOK
  <2>7. /\ dir' \in 0 .. 3 /\ dir' # 0 /\ unread' \subseteq DOMAIN Directories[dir']
        /\ pc' \notin {"parse", "loaded"}
    BY <1>2, <1>3, <1>5, <2>1, <2>2 DEF ReadEntry
  <2>8. CASE Has(dir, name) /\ ~AlreadyFound(name)
    <3>. DEFINE f == [name |-> name, dir |-> dir, document |-> Directories[dir][name].document]
    <3>1. f.name = name /\ f.dir = dir
      OBVIOUS
    <3>2. /\ Len(conffiles') = N + 1
          /\ conffiles' = [i \in 1 .. N + 1 |-> conffiles'[i]]
          /\ conffiles'[N + 1].name = name /\ conffiles'[N + 1].dir = dir
          /\ \A i \in 1 .. N : conffiles'[i] = conffiles[i]
      <4>1. conffiles' = Append(conffiles, f)
        BY <2>1, <2>8
      <4>. HIDE DEF f
      <4>. QED  BY <1>3, <3>1, <4>1, AppendFile
    <3>3. \A i \in 1 .. N : conffiles[i].name # name
      <4>1. DOMAIN conffiles = 1 .. N
        BY <1>3
      <4>. QED  BY <2>8, <4>1 DEF AlreadyFound
    <3>4. \A d \in 1 .. dir - 1 : ~Has(d, name)
      <4>1. SUFFICES ASSUME NEW d \in 1 .. dir - 1, Has(d, name) PROVE FALSE
        OBVIOUS
      <4>2. d \in 1 .. dir /\ d < dir
        BY <1>3
      <4>3. Looked(d, name) /\ name \in DOMAIN Directories[d]
        BY <4>1, <4>2 DEF Looked, Has
      <4>. QED  BY <2>6, <3>3, <4>1, <4>2, <4>3
    <3>5. FirstOfName(dir, name)'
      BY <1>2, <2>2, <2>3, <2>8, <3>4 DEF FirstOfName
    <3>6. ASSUME NEW i \in 1 .. N + 1
          PROVE  /\ FirstOfName(conffiles[i].dir, conffiles[i].name)'
                 /\ \A j \in i .. N + 1 : conffiles'[i].dir <= conffiles'[j].dir
                 /\ \A j \in 1 .. N + 1 : conffiles'[i].name = conffiles'[j].name => i = j
      <4>1. CASE i = N + 1
        BY <1>3, <2>2, <3>2, <3>3, <3>5, <4>1
      <4>2. CASE i # N + 1
        <5>1. i \in 1 .. N /\ conffiles'[i] = conffiles[i]
          BY <1>3, <3>2, <4>2
        <5>2. FirstOfName(conffiles[i].dir, conffiles[i].name)'
          BY <2>4, <2>5, <5>1
        <5>3. conffiles[i].dir <= dir
          BY <2>2, <2>5, <5>1 DEF FirstOfName
        <5>4. \A j \in 1 .. N + 1 : j = N + 1 \/ (j \in 1 .. N /\ conffiles'[j] = conffiles[j])
          <6>. HIDE DEF N
          <6>1. N \in Nat
            BY <1>3 DEF N
          <6>. QED  BY <3>2, <6>1
        <5>. QED  BY <1>3, <2>5, <3>2, <3>3, <5>1, <5>2, <5>3, <5>4
      <4>. QED  BY <4>1, <4>2
    <3>7. ASSUME NEW d \in 1 .. dir', NEW n \in DOMAIN Directories[d],
                 Has(d, n)', Looked(d, n)'
          PROVE  \E i \in 1 .. N + 1 : conffiles'[i].name = n
      <4>1. CASE d = dir /\ n = name
        BY <1>3, <3>2, <4>1
      <4>2. CASE ~(d = dir /\ n = name)
        <5>1. PICK i \in 1 .. N : conffiles[i].name = n
          BY <1>2, <2>2, <2>3, <2>6, <3>7, <4>2
        <5>. QED  BY <1>3, <3>2, <5>1
      <4>. QED  BY <4>1, <4>2
    <3>. HIDE DEF N
    <3>8. Len(conffiles') \in Nat /\ Directories' = Directories
      BY <1>3, <3>2 DEF N
    <3>. QED  BY <2>7, <3>2, <3>6, <3>7, <3>8 DEF SearchOK
  <2>9. CASE ~(Has(dir, name) /\ ~AlreadyFound(name))
    <3>1. conffiles' = conffiles
      BY <2>1, <2>9
    <3>2. \A i \in 1 .. N : FirstOfName(conffiles[i].dir, conffiles[i].name)'
      BY <2>4, <2>5, <3>1
    <3>3. ASSUME NEW d \in 1 .. dir', NEW n \in DOMAIN Directories[d],
                 Has(d, n)', Looked(d, n)'
          PROVE  \E i \in 1 .. N : conffiles[i].name = n
      <4>1. CASE d = dir /\ n = name
        <5>1. AlreadyFound(name)
          BY <1>2, <2>9, <3>3, <4>1
        <5>. QED  BY <1>3, <4>1, <5>1 DEF AlreadyFound
      <4>2. CASE ~(d = dir /\ n = name)
        BY <1>2, <2>2, <2>3, <2>6, <3>3, <4>2
      <4>. QED  BY <4>1, <4>2
    <3>. QED  BY <1>3, <2>5, <2>7, <3>1, <3>2, <3>3 DEF SearchOK
  <2>. QED  BY <2>8, <2>9
<1>6. CASE AllFound
  BY <1>1, <1>2, <1>3, <1>6 DEF AllFound, SearchOK, FirstOfName, Looked
<1>7. ASSUME UNCHANGED <<dir, unread, conffiles>>,
             pc' = pc \/ pc = "parse"
      PROVE  SearchOK'
  BY <1>1, <1>2, <1>3, <1>7 DEF SearchOK, FirstOfName, Looked
<1>. QED
  BY SMTT(30), <1>1, <1>4, <1>5, <1>6, <1>7
     DEF Next, vars, BadFile, FileDone, Loaded, AddRule, AddCondition, AddProperty,
         AddPropertyValue, PropertyDone, PassOver, AddTo, NextElement, Parsing, AtElement

(* Whatever files the three directories have, in whatever order readdir    *)
(* gives them: of each name one file is read, that of the first directory. *)
THEOREM FirstFileRead == Spec => []FirstFileWins
<1>1. SearchOK => FirstFileWins
  <2>1. SUFFICES ASSUME SearchOK, pc \in {"parse", "loaded"}, Searched
                 PROVE  FirstFileWins
    BY DEF FirstFileWins, Searched
  <2>2. /\ unread = {} /\ dir = 3 /\ DOMAIN Directories = 1 .. 3
        /\ DOMAIN conffiles = 1 .. Len(conffiles)
    BY <2>1 DEF SearchOK, Directories
  <2>3. ASSUME NEW d \in 1 .. 3, NEW name \in DOMAIN Directories[d], Has(d, name)
        PROVE  Cardinality({i \in DOMAIN conffiles : conffiles[i].name = name}) = 1
    <3>1. PICK k \in 1 .. Len(conffiles) : conffiles[k].name = name
      <4>1. Looked(d, name)
        BY <2>2 DEF Looked
      <4>. QED  BY <2>1, <2>2, <2>3, <4>1 DEF SearchOK
    <3>2. {i \in DOMAIN conffiles : conffiles[i].name = name} = {k}
      BY <2>1, <2>2, <3>1 DEF SearchOK
    <3>. QED  BY <3>2, FS_Singleton
  <2>4. ASSUME NEW i \in DOMAIN conffiles
        PROVE  /\ Has(conffiles[i].dir, conffiles[i].name)
               /\ \A d \in 1 .. conffiles[i].dir - 1 : ~Has(d, conffiles[i].name)
               /\ \A j \in i .. Len(conffiles) : conffiles[i].dir <= conffiles[j].dir
    BY <2>1, <2>2 DEF SearchOK, FirstOfName
  <2>. QED  BY <2>2, <2>3, <2>4 DEF FirstFileWins, Has
<1>. QED  BY <1>1, SearchInit, SearchNext, PTL DEF Spec

LEMMA UpTo ==
    ASSUME NEW n \in Nat
    PROVE  IsFiniteSet(1 .. n) /\ Cardinality(1 .. n) = n
<1>1. 1 \in Int /\ n \in Int
  OBVIOUS
<1>2. IsFiniteSet(1 .. n) /\ Cardinality(1 .. n) = IF 1 > n THEN 0 ELSE n - 1 + 1
  BY <1>1, FS_Interval
<1>. QED  BY <1>2

-----------------------------------------------------------------------------
(* The numbers of the atoms.                                               *)

LEMMA Division ==
    ASSUME NEW i \in Nat
    PROVE  /\ i \div 10 \in Nat /\ i % 10 \in 0 .. 9
           /\ i = 10 * (i \div 10) + (i % 10)
           /\ i >= 10 => i \div 10 < i /\ i \div 10 >= 1
OBVIOUS

FigureChars == {Figures[d + 1] : d \in 0 .. 9}

LEMMA FigureIs ==
    ASSUME NEW d \in 0 .. 9
    PROVE  Figures[d + 1] \in FigureChars /\ FigureOf(Figures[d + 1]) = d
           /\ Figures[d + 1] \notin Operators
<1>1. \A e \in 0 .. 9 : Figures[e + 1] = Figures[d + 1] => e = d
  BY SMTT(30) DEF Figures
<1>2. Figures[d + 1] \notin Operators
  BY SMTT(30) DEF Figures, Operators
<1>. QED  BY <1>1, <1>2 DEF FigureOf, FigureChars

(* The figures of a number are those of a tenth of it and one more.        *)
LEMMA Printing ==
    ASSUME NEW n \in Nat
    PROVE  \E f \in [0 .. n -> Seq(FigureChars)] :
              /\ Printed(n) = f[n]
              /\ \A i \in 0 .. n :
                    f[i] = IF i < 10 THEN <<Figures[i + 1]>>
                           ELSE Append(f[i \div 10], Figures[(i % 10) + 1])
<1>. DEFINE R == Seq(FigureChars)
            N == n + 1
            goes == {m \in 1 .. N : N - m >= 10}
            next == [m \in 1 .. N |-> N - ((N - m) \div 10)]
            turn == [m \in 1 .. N |-> [t \in R |-> Append(t, Figures[((N - m) % 10) + 1])]]
            base == [m \in 1 .. N |->
                        IF N - m < 10 THEN <<Figures[(N - m) + 1]>> ELSE <<>>]
            More(f, i) == Append(f[i \div 10], Figures[(i % 10) + 1])
            Loop(f) == [i \in 0 .. n |-> IF i < 10 THEN <<Figures[i + 1]>> ELSE More(f, i)]
            printed == CHOOSE f : f = Loop(f)
<1>1. /\ N \in Nat /\ \A m \in 1 .. N : N - m \in 0 .. n
      /\ \A i \in 0 .. n : N - i \in 1 .. N /\ N - (N - i) = i
  OBVIOUS
<1>2. ASSUME NEW m \in 1 .. N, m \in goes PROVE next[m] \in (m + 1) .. N
  <2>1. N - m \in Nat /\ N - m >= 10
    BY <1>1, <1>2
  <2>2. (N - m) \div 10 \in Nat /\ (N - m) \div 10 < N - m
    BY <2>1, Division
  <2>3. next[m] = N - ((N - m) \div 10)
    OBVIOUS
  <2>. DEFINE d == (N - m) \div 10
  <2>. HIDE DEF d, next, N
  <2>. QED  BY <1>1, <2>2, <2>3 DEF d
<1>3. turn \in [1 .. N -> [R -> R]]
  <2>1. ASSUME NEW t \in R, NEW m \in 1 .. N
        PROVE  Append(t, Figures[((N - m) % 10) + 1]) \in R
    <3>1. (N - m) % 10 \in 0 .. 9
      BY <1>1, Division
    <3>2. Figures[((N - m) % 10) + 1] \in FigureChars
      BY <3>1, FigureIs
    <3>. QED  BY <3>2, AppendProperties
  <2>. QED  BY <2>1
<1>4. base \in [1 .. N -> R]
  <2>1. ASSUME NEW m \in 1 .. N, N - m < 10 PROVE <<Figures[(N - m) + 1]>> \in R
    <3>1. N - m \in 0 .. 9
      BY <1>1, <2>1
    <3>2. Figures[(N - m) + 1] \in FigureChars
      BY <3>1, FigureIs
    <3>. QED  BY <3>2
  <2>. QED  BY <2>1
<1>5. PICK g : IsWalk(g, N, R, goes, next, turn, base)
  <2>. HIDE DEF R, goes, next, turn, base, N
  <2>. QED  BY <1>1, <1>2, <1>3, <1>4, WalkExists
<1>. DEFINE f == [i \in 0 .. n |-> g[N - i]]
<1>6. ASSUME NEW h
      PROVE  /\ Loop(h) = [i \in 0 .. n |-> Loop(h)[i]]
             /\ \A i \in 0 .. n : Loop(h)[i] = IF i < 10 THEN <<Figures[i + 1]>>
                                               ELSE More(h, i)
  OBVIOUS
<1>7. f \in [0 .. n -> R]
  <2>1. g \in [1 .. N -> R]
    BY <1>5 DEF IsWalk
  <2>. HIDE DEF R, N
  <2>. QED  BY <1>1, <2>1
<1>8. ASSUME NEW i \in 0 .. n
      PROVE  f[i] = IF i < 10 THEN <<Figures[i + 1]>> ELSE More(f, i)
  <2>. DEFINE m == N - i
  <2>1. m \in 1 .. N /\ N - m = i /\ f[i] = g[m]
    BY <1>1
  <2>2. g[m] = IF m \in goes THEN turn[m][g[next[m]]] ELSE base[m]
    <3>. HIDE DEF m, goes, turn, next, base
    <3>. QED  BY <1>5, <2>1 DEF IsWalk
  <2>3. CASE i < 10
    <3>1. m \notin goes /\ base[m] = <<Figures[i + 1]>>
      <4>1. ~(i >= 10)
        BY <2>3
      <4>. HIDE DEF m, N
      <4>. QED  BY <2>1, <2>3, <4>1
    <3>. HIDE DEF m, f, goes, base
    <3>. QED  BY <2>1, <2>2, <2>3, <3>1
  <2>4. CASE ~(i < 10)
    <3>1. i \div 10 \in 0 .. n
      <4>1. i \in Nat /\ i >= 10
        BY <2>4
      <4>2. i \div 10 \in Nat /\ i \div 10 < i
        BY <4>1, Division
      <4>. DEFINE d == i \div 10
      <4>. HIDE DEF d
      <4>. QED  BY <4>2 DEF d
    <3>2. m \in goes /\ next[m] = N - (i \div 10)
      <4>1. i >= 10
        BY <2>4
      <4>. HIDE DEF m, N
      <4>. QED  BY <2>1, <4>1
    <3>3. g[next[m]] = f[i \div 10] /\ f[i \div 10] \in R
      <4>. HIDE DEF m, N, next, R
      <4>. QED  BY <1>7, <3>1, <3>2
    <3>4. turn[m][g[next[m]]] = More(f, i)
      <4>. DEFINE t == g[next[m]]
      <4>1. t \in R /\ t = f[i \div 10]
        BY <3>3
      <4>. HIDE DEF t, m, N, R, f
      <4>2. turn[m][t] = Append(t, Figures[(i % 10) + 1])
        BY <2>1, <4>1
      <4>. QED  BY <4>1, <4>2 DEF t
    <3>. HIDE DEF m, f, goes, turn, next, More
    <3>. QED  BY <2>1, <2>2, <2>4, <3>2, <3>4
  <2>. HIDE DEF f, More, m
  <2>. QED  BY <2>3, <2>4
<1>. HIDE DEF Loop, More
<1>9. f = Loop(f)
  <2>1. f = [i \in 0 .. n |-> f[i]]
    OBVIOUS
  <2>2. Loop(f) = [i \in 0 .. n |-> Loop(f)[i]]
    BY <1>6
  <2>. HIDE DEF f
  <2>3. \A i \in 0 .. n : f[i] = Loop(f)[i]
    BY <1>6, <1>8
  <2>. QED  BY <2>1, <2>2, <2>3
<1>10. printed = Loop(printed)
  <2>. HIDE DEF f
  <2>. QED  BY <1>9
<1>11. Printed(n) = printed[n]
  BY DEF Printed, printed, Loop, More
<1>. HIDE DEF printed
<1>12. \A i \in 0 .. n : printed[i] = IF i < 10 THEN <<Figures[i + 1]>> ELSE More(printed, i)
  <2>. DEFINE again == Loop(printed)
  <2>1. \A i \in 0 .. n : again[i] = IF i < 10 THEN <<Figures[i + 1]>> ELSE More(printed, i)
    BY <1>6
  <2>2. printed = again
    BY <1>10
  <2>. HIDE DEF again
  <2>. QED  BY ONLY <2>1, <2>2
<1>13. ASSUME NEW i \in 0 .. n PROVE printed[i] \in R
  <2>. DEFINE G == {k \in 0 .. n : printed[k] \in R}
  <2>1. ASSUME NEW k \in 0 .. n, \A j \in 0 .. k - 1 : printed[j] \in R
        PROVE  printed[k] \in R
    <3>1. CASE k < 10
      <4>1. k \in 0 .. 9
        BY <3>1
      <4>2. Figures[k + 1] \in FigureChars
        BY <4>1, FigureIs
      <4>3. printed[k] = <<Figures[k + 1]>>
        BY <1>12, <3>1
      <4>. QED  BY <4>2, <4>3
    <3>2. CASE ~(k < 10)
      <4>1. k \in Nat /\ k >= 10
        BY <3>2
      <4>2. k \div 10 \in Nat /\ k \div 10 < k /\ k % 10 \in 0 .. 9
        BY <4>1, Division
      <4>. DEFINE d == k \div 10
                  r == k % 10
      <4>3. Figures[r + 1] \in FigureChars
        BY <4>2, FigureIs
      <4>4. printed[k] = Append(printed[d], Figures[r + 1])
        BY <1>12, <3>2 DEF More
      <4>. HIDE DEF d, r
      <4>5. d \in 0 .. k - 1
        BY <4>1, <4>2 DEF d
      <4>6. printed[d] \in R
        BY <2>1, <4>5
      <4>. QED  BY <4>3, <4>4, <4>6, AppendProperties
    <3>. QED  BY <3>1, <3>2
  <2>. HIDE DEF R
  <2>2. \A k \in 0 .. n : (\A j \in 0 .. k - 1 : j \in G) => k \in G
    BY <2>1
  <2>. HIDE DEF G
  <2>3. i \in G
    BY <2>2, NumbersKeep
  <2>. QED  BY <2>3 DEF G
<1>14. printed \in [0 .. n -> R]
  <2>1. printed = [i \in 0 .. n |-> printed[i]]
    <3>1. Loop(printed) = [i \in 0 .. n |-> Loop(printed)[i]]
      BY <1>6
    <3>. QED  BY <1>10, <3>1
  <2>. HIDE DEF R
  <2>. QED  BY <1>13, <2>1
<1>. QED  BY <1>11, <1>12, <1>14 DEF More

(* What atoi has read after each figure.                                   *)
LEMMA Reading ==
    ASSUME NEW t \in Seq(FigureChars)
    PROVE  \E v \in [0 .. Len(t) -> Nat] :
              /\ Atoi(t) = v[Len(t)] /\ v[0] = 0
              /\ \A k \in 1 .. Len(t) : v[k] = 10 * v[k - 1] + FigureOf(t[k])
<1>. DEFINE N == Len(t)
            turn == [k \in 1 .. N |-> [x \in Nat |-> 10 * x + FigureOf(t[k])]]
            Loop(g) == [k \in 0 .. Len(t) |->
                           IF k = 0 THEN 0 ELSE 10 * g[k - 1] + FigureOf(t[k])]
            value == CHOOSE g : g = Loop(g)
<1>1. N \in Nat /\ \A k \in 1 .. N : t[k] \in FigureChars
  OBVIOUS
<1>2. \A k \in 1 .. N : FigureOf(t[k]) \in Nat
  <2>1. \A c \in FigureChars : FigureOf(c) \in 0 .. 9
    BY FigureIs DEF FigureChars
  <2>. HIDE DEF N
  <2>. QED  BY <1>1, <2>1
<1>3. turn \in [1 .. N -> [Nat -> Nat]]
  <2>. HIDE DEF N
  <2>. QED  BY <1>2
<1>4. PICK g : IsLoop(g, N, Nat, 0, turn)
  <2>. HIDE DEF N, turn
  <2>. QED  BY <1>1, <1>3, LoopExists
<1>5. /\ g \in [0 .. N -> Nat] /\ g[0] = 0
      /\ \A k \in 1 .. N : g[k] = 10 * g[k - 1] + FigureOf(t[k])
  <2>1. \A k \in 1 .. N : k - 1 \in 0 .. N
    BY <1>1
  <2>. HIDE DEF N
  <2>. QED  BY <1>4, <2>1 DEF IsLoop
<1>6. g = Loop(g)
  <2>1. \A k \in 0 .. N : k # 0 => k \in 1 .. N
    BY <1>1
  <2>2. \A k \in 0 .. N : g[k] = Loop(g)[k]
    BY <1>5, <2>1
  <2>3. g = [k \in 0 .. N |-> g[k]] /\ Loop(g) = [k \in 0 .. N |-> Loop(g)[k]]
    BY <1>5
  <2>. HIDE DEF Loop, N
  <2>. QED  BY <2>2, <2>3
<1>7. value = Loop(value)
  <2>. HIDE DEF Loop
  <2>. QED  BY <1>6
<1>8. Atoi(t) = value[N]
  BY DEF Atoi, value, Loop
<1>9. value[0] = 0 /\ \A k \in 1 .. N : value[k] = 10 * value[k - 1] + FigureOf(t[k])
  <2>1. \A k \in 0 .. N : value[k] = Loop(value)[k]
    BY <1>7
  <2>2. \A k \in 0 .. N : Loop(value)[k] =
                              IF k = 0 THEN 0 ELSE 10 * value[k - 1] + FigureOf(t[k])
    OBVIOUS
  <2>. HIDE DEF value, Loop, N
  <2>. QED  BY <1>1, <2>1, <2>2
<1>10. \A k \in 0 .. N : value[k] \in Nat
  <2>. DEFINE G == {k \in 0 .. N : value[k] \in Nat}
  <2>1. ASSUME NEW k \in 0 .. N, \A j \in 0 .. k - 1 : value[j] \in Nat
        PROVE  value[k] \in Nat
    <3>. HIDE DEF value, N
    <3>1. CASE k = 0
      BY <1>9, <3>1
    <3>2. CASE k # 0
      <4>1. k \in 1 .. N /\ k - 1 \in 0 .. k - 1
        BY <3>2
      <4>. QED  BY <1>2, <1>9, <2>1, <4>1
    <3>. QED  BY <3>1, <3>2
  <2>. HIDE DEF value, N
  <2>2. \A k \in 0 .. N : (\A j \in 0 .. k - 1 : j \in G) => k \in G
    BY <2>1
  <2>. HIDE DEF G
  <2>3. \A k \in 0 .. N : k \in G
    BY <1>1, <2>2, NumbersKeep
  <2>. QED  BY <2>3 DEF G
<1>11. value = [k \in 0 .. N |-> value[k]]
  <2>1. Loop(value) = [k \in 0 .. N |-> Loop(value)[k]]
    OBVIOUS
  <2>. HIDE DEF Loop
  <2>. QED  BY <1>7, <2>1
<1>. HIDE DEF value, N
<1>12. value \in [0 .. N -> Nat]
  BY <1>10, <1>11
<1>. QED  BY <1>8, <1>9, <1>12 DEF N

LEMMA ReadOne ==
    ASSUME NEW c \in FigureChars
    PROVE  Atoi(<<c>>) = FigureOf(c)
<1>1. <<c>> \in Seq(FigureChars) /\ Len(<<c>>) = 1 /\ <<c>>[1] = c
  OBVIOUS
<1>2. PICK v : /\ Atoi(<<c>>) = v[1] /\ v[0] = 0 /\ v[1] = 10 * v[0] + FigureOf(<<c>>[1])
  <2>1. 1 \in 1 .. 1 /\ 1 - 1 = 0
    OBVIOUS
  <2>. QED  BY <1>1, <2>1, Reading
<1>3. FigureOf(c) \in 0 .. 9
  BY FigureIs DEF FigureChars
<1>. QED  BY <1>1, <1>2, <1>3

LEMMA ReadMore ==
    ASSUME NEW t \in Seq(FigureChars), NEW c \in FigureChars
    PROVE  Atoi(Append(t, c)) = 10 * Atoi(t) + FigureOf(c)
<1>. DEFINE N == Len(t)
            u == Append(t, c)
<1>1. /\ N \in Nat /\ u \in Seq(FigureChars) /\ Len(u) = N + 1 /\ u[N + 1] = c
      /\ \A k \in 1 .. N : u[k] = t[k]
  BY AppendProperties
<1>2. PICK v \in [0 .. N -> Nat] :
          /\ Atoi(t) = v[N] /\ v[0] = 0
          /\ \A k \in 1 .. N : v[k] = 10 * v[k - 1] + FigureOf(t[k])
  BY Reading
<1>. HIDE DEF u
<1>3. PICK w \in [0 .. Len(u) -> Nat] :
          /\ Atoi(u) = w[Len(u)] /\ w[0] = 0
          /\ \A k \in 1 .. Len(u) : w[k] = 10 * w[k - 1] + FigureOf(u[k])
  BY <1>1, Reading
<1>. HIDE DEF N
<1>4. N + 1 \in 1 .. N + 1 /\ (N + 1) - 1 = N
  BY <1>1
<1>5. Atoi(u) = 10 * w[N] + FigureOf(c)
  BY <1>1, <1>3, <1>4
<1>6. w[N] = v[N]
  <2>. DEFINE G == {k \in 0 .. N : w[k] = v[k]}
  <2>1. ASSUME NEW k \in 0 .. N, \A j \in 0 .. k - 1 : w[j] = v[j]
        PROVE  w[k] = v[k]
    <3>1. CASE k = 0
      BY <1>2, <1>3, <3>1
    <3>2. CASE k # 0
      <4>1. k \in 1 .. N /\ k \in 1 .. N + 1 /\ k - 1 \in 0 .. k - 1
        BY <1>1, <3>2
      <4>2. w[k - 1] = v[k - 1]
        BY <2>1, <4>1
      <4>3. w[k] = 10 * w[k - 1] + FigureOf(t[k]) /\ v[k] = 10 * v[k - 1] + FigureOf(t[k])
        BY <1>1, <1>2, <1>3, <4>1
      <4>. QED  BY <4>2, <4>3
    <3>. QED  BY <3>1, <3>2
  <2>2. \A k \in 0 .. N : (\A j \in 0 .. k - 1 : j \in G) => k \in G
    BY <2>1
  <2>. HIDE DEF G
  <2>3. \A k \in 0 .. N : k \in G
    BY <1>1, <2>2, NumbersKeep
  <2>4. N \in 0 .. N
    BY <1>1
  <2>. QED  BY <2>3, <2>4 DEF G
<1>. QED  BY <1>2, <1>5, <1>6 DEF u

(* atoi reads the number that snprintf has printed, of one figure if it is *)
(* below ten and never of more than it counts.                             *)
LEMMA PrintedIsRead ==
    ASSUME NEW n \in Nat
    PROVE  /\ Printed(n) \in Seq(FigureChars) /\ Len(Printed(n)) >= 1
           /\ n < 10 => Len(Printed(n)) = 1
           /\ n >= 10 => Len(Printed(n)) <= n
           /\ Atoi(Printed(n)) = n
<1>. DEFINE R == Seq(FigureChars)
<1>1. PICK f \in [0 .. n -> R] :
          /\ Printed(n) = f[n]
          /\ \A i \in 0 .. n :
                f[i] = IF i < 10 THEN <<Figures[i + 1]>>
                       ELSE Append(f[i \div 10], Figures[(i % 10) + 1])
  BY Printing
<1>. DEFINE Good(i) == /\ Len(f[i]) \in Nat /\ Len(f[i]) >= 1
                       /\ i < 10 => Len(f[i]) = 1
                       /\ i >= 10 => Len(f[i]) <= i
                       /\ Atoi(f[i]) = i
            G == {i \in 0 .. n : Good(i)}
<1>2. ASSUME NEW i \in 0 .. n, \A j \in 0 .. i - 1 : Good(j)
      PROVE  Good(i)
  <2>1. CASE i < 10
    <3>1. i \in 0 .. 9
      BY <2>1
    <3>. DEFINE c == Figures[i + 1]
    <3>2. c \in FigureChars /\ FigureOf(c) = i
      BY <3>1, FigureIs
    <3>3. f[i] = <<c>>
      BY <1>1, <2>1
    <3>. HIDE DEF c
    <3>4. Atoi(f[i]) = i /\ Len(f[i]) = 1
      BY <3>2, <3>3, ReadOne
    <3>. QED  BY <2>1, <3>4
  <2>2. CASE ~(i < 10)
    <3>1. i \in Nat /\ i >= 10
      BY <2>2
    <3>. DEFINE d == i \div 10
                r == i % 10
                c == Figures[r + 1]
    <3>2. /\ d \in Nat /\ d < i /\ r \in 0 .. 9 /\ i = 10 * d + r /\ d >= 1
      BY <3>1, Division
    <3>3. c \in FigureChars /\ FigureOf(c) = r
      BY <3>2, FigureIs
    <3>4. f[i] = Append(f[d], c)
      BY <1>1, <2>2
    <3>. HIDE DEF d, r, c, Good
    <3>5. d \in 0 .. n /\ d \in 0 .. i - 1
      BY <3>1, <3>2
    <3>6. f[d] \in Seq(FigureChars) /\ Good(d)
      BY <1>1, <1>2, <3>5
    <3>7. Len(f[i]) = Len(f[d]) + 1 /\ Atoi(f[i]) = 10 * Atoi(f[d]) + FigureOf(c)
      BY <3>3, <3>4, <3>6, ReadMore, AppendProperties
    <3>8. Atoi(f[i]) = i
      BY <3>2, <3>3, <3>6, <3>7 DEF Good
    <3>9. Len(f[d]) \in Nat /\ Len(f[d]) >= 1 /\ Len(f[d]) <= d
      <4>. DEFINE l == Len(f[d])
      <4>1. l \in Nat /\ l >= 1 /\ (d < 10 => l = 1) /\ (d >= 10 => l <= d)
        BY <3>6 DEF Good
      <4>. HIDE DEF l
      <4>2. l <= d
        BY <3>2, <4>1
      <4>. QED  BY <4>1, <4>2 DEF l
    <3>10. Len(f[i]) \in Nat /\ Len(f[i]) >= 1 /\ Len(f[i]) <= i
      <4>. DEFINE l == Len(f[d])
                  u == Len(f[i])
      <4>1. l \in Nat /\ l >= 1 /\ l <= d /\ u = l + 1
        BY <3>7, <3>9
      <4>. HIDE DEF l, u
      <4>2. u \in Nat /\ u >= 1 /\ u <= i
        BY <3>2, <4>1
      <4>. QED  BY <4>2 DEF u
    <3>11. Good(i)
      BY <2>2, <3>8, <3>10 DEF Good
    <3>. QED  BY <3>11
  <2>. QED  BY <2>1, <2>2
<1>. HIDE DEF Good
<1>3. \A i \in 0 .. n : (\A j \in 0 .. i - 1 : j \in G) => i \in G
  BY <1>2
<1>4. n \in G
  <2>. HIDE DEF G
  <2>1. n \in 0 .. n
    OBVIOUS
  <2>. QED  BY <1>3, <2>1, NumbersKeep
<1>. QED  BY <1>1, <1>4 DEF Good

-----------------------------------------------------------------------------
(* The scan of a match expression.                                         *)

(* There is a first position, a second, and so on to the last.             *)
LEMMA InOrderIs ==
    ASSUME NEW N \in Nat, NEW positions \in SUBSET (1 .. N)
    PROVE  /\ InOrder(positions) \in Seq(1 .. N) /\ InOrder(positions) \in Seq(positions)
           /\ \A k \in DOMAIN InOrder(positions) :
                 Cardinality({j \in positions : j <= InOrder(positions)[k]}) = k
<1> DEFINE Upto(n) == {j \in positions : j <= n}
           C(n) == Cardinality(Upto(n))
<1>0. \A j \in positions : j \in Nat /\ 1 <= j /\ j <= N
  OBVIOUS
<1>1. IsFiniteSet(positions) /\ Cardinality(positions) \in Nat
  <2>1. IsFiniteSet(1 .. N)
    BY UpTo
  <2>2. QED
    BY <2>1, FS_Subset, FS_CardinalityType
<1>2. ASSUME NEW n \in Nat PROVE IsFiniteSet(Upto(n)) /\ C(n) \in Nat
  <2>1. Upto(n) \in SUBSET positions
    OBVIOUS
  <2> HIDE DEF Upto
  <2>2. QED
    BY <1>1, <2>1, FS_Subset, FS_CardinalityType
<1>3. C(0) = 0
  <2>1. Upto(0) = {}
    <3>1. \A j \in positions : ~(j <= 0)
      BY <1>0
    <3>2. QED
      BY <3>1
  <2> HIDE DEF Upto
  <2>2. QED
    BY <2>1, FS_EmptySet
<1>4. C(N) = Cardinality(positions)
  <2>1. Upto(N) = positions
    BY <1>0
  <2> HIDE DEF Upto
  <2>2. QED
    BY <2>1
<1>5. ASSUME NEW n \in Nat \ {0}
      PROVE  \/ n \in positions /\ C(n) = C(n - 1) + 1
             \/ C(n) = C(n - 1)
  <2>1. n - 1 \in Nat
    OBVIOUS
  <2>2. CASE n \in positions
    <3>1. Upto(n) = Upto(n - 1) \cup {n} /\ n \notin Upto(n - 1)
      <4>1. \A j \in positions : j <= n <=> j <= n - 1 \/ j = n
        BY <1>0
      <4>2. ~(n <= n - 1)
        OBVIOUS
      <4>3. QED
        BY <2>2, <4>1, <4>2
    <3>2. IsFiniteSet(Upto(n - 1))
      BY <1>2, <2>1
    <3> HIDE DEF Upto
    <3>3. QED
      BY <2>2, <3>1, <3>2, FS_AddElement
  <2>3. CASE n \notin positions
    <3>1. Upto(n) = Upto(n - 1)
      <4>1. \A j \in positions : j <= n <=> j <= n - 1
        BY <1>0, <2>3
      <4>2. QED
        BY <4>1
    <3> HIDE DEF Upto
    <3>2. QED
      BY <3>1
  <2>4. QED
    BY <2>2, <2>3
<1>6. ASSUME NEW k \in 1 .. Cardinality(positions)
      PROVE  \E i \in positions : C(i) = k
  <2> DEFINE Reached == {n \in Nat : C(n) >= k}
  <2>1. N \in Reached /\ 0 \notin Reached
    <3> HIDE DEF C
    <3>1. QED
      BY <1>1, <1>3, <1>4
  <2>2. PICK n \in Reached : \A m \in Reached : n <= m
    <3>1. Reached \subseteq Nat /\ Reached # {}
      <4> HIDE DEF C
      <4>1. QED
        BY <2>1
    <3> HIDE DEF Reached
    <3>2. QED
      BY <3>1, LeastNumber
  <2>3. n \in Nat \ {0} /\ C(n) >= k /\ n - 1 \in Nat /\ ~(C(n - 1) >= k)
    <3> HIDE DEF C
    <3>1. n \in Nat /\ n # 0 /\ C(n) >= k
      BY <2>1
    <3>2. n - 1 \in Nat /\ n - 1 \notin Reached
      BY <2>2, <3>1
    <3>3. QED
      BY <3>1, <3>2
  <2>4. n \in positions /\ C(n) = C(n - 1) + 1
    <3>1. C(n) \in Nat /\ C(n - 1) \in Nat
      BY <1>2, <2>3
    <3> HIDE DEF C
    <3>2. QED
      BY <1>1, <1>5, <2>3, <3>1
  <2>5. C(n) = k
    <3>1. C(n) \in Nat /\ C(n - 1) \in Nat
      BY <1>2, <2>3
    <3> HIDE DEF C
    <3>2. QED
      BY <1>1, <2>3, <2>4, <3>1
  <2>6. QED
    BY <2>4, <2>5
<1>7. \A k \in 1 .. Cardinality(positions) :
          LET i == CHOOSE i \in positions : C(i) = k IN i \in positions /\ C(i) = k
  <2> HIDE DEF C
  <2>1. QED
    BY <1>6
<1> DEFINE Nth(k) == CHOOSE i \in positions : C(i) = k
<1>8. InOrder(positions)
        = [k \in 1 .. Cardinality(positions) |-> Nth(k)]
  BY DEF InOrder
<1>9. \A k \in 1 .. Cardinality(positions) :
          Nth(k) \in positions /\ Nth(k) \in 1 .. N /\ C(Nth(k)) = k
  BY <1>7
<1>10. InOrder(positions) \in Seq(1 .. N) /\ InOrder(positions) \in Seq(positions)
  <2>1. \A k \in 1 .. Cardinality(positions) : Nth(k) \in positions /\ Nth(k) \in 1 .. N
    BY <1>9
  <2> HIDE DEF Nth
  <2>2. QED
    BY <1>1, <1>8, <2>1
<1>11. \A k \in DOMAIN InOrder(positions) : C(InOrder(positions)[k]) = k
  <2> HIDE DEF Nth, C
  <2>1. QED
    BY <1>8, <1>9
<1>12. QED
  BY <1>10, <1>11

LEMMA InOrderType ==
    ASSUME NEW N \in Nat, NEW positions \in SUBSET (1 .. N)
    PROVE  InOrder(positions) \in Seq(1 .. N) /\ InOrder(positions) \in Seq(positions)
BY InOrderIs

(* What is true of the buffers of the scan after any of its stops: a free  *)
(* place in each, and a digit for each atom.                               *)
Buffers(A, E) ==
    {r \in [atoms : Seq(A), expr : Seq(E), length : Nat,
            atom_sizes : Nat, expr_string_size : Nat] :
        /\ Len(r.atoms) + 2 <= r.atom_sizes /\ r.atom_sizes >= 4
        /\ r.length + 1 <= r.expr_string_size /\ r.expr_string_size >= 10
        /\ Len(r.atoms) <= r.length}

(* Growing as soon as one place is left is growing in time.                *)
LEMMA AtomsEnough ==
    ASSUME NEW number \in Nat, NEW size \in Nat, number + 2 <= size, size >= 4
    PROVE  /\ AtomsRoom(size, number + 1) \in Nat
           /\ number + 3 <= AtomsRoom(size, number + 1)
           /\ AtomsRoom(size, number + 1) >= 4
BY DEF AtomsRoom

(* Twice as much is enough for the number of an atom.                      *)
LEMMA ExprEnough ==
    ASSUME NEW room \in Nat, NEW length \in Nat, NEW digits \in Nat,
           length + 1 <= room, room >= 10, digits + 1 <= room
    PROVE  /\ ExprRoom(room, length, digits) \in Nat
           /\ ExprRoom(room, length, digits) >= 10
           /\ length + digits + 2 <= ExprRoom(room, length, digits)
BY DEF ExprRoom

(* What atoms and expressions are made of.                                 *)
AtomsOf(s) == {AtomBefore(s, k) : k \in 1 .. Len(Stops(s))}
WordsOf(s) ==
    {Printed(i) : i \in Nat} \cup {<<s[Stops(s)[k]]>> : k \in 1 .. Len(Stops(s))}

(* The scan goes from stop to stop, and its buffers have what they need.   *)
LEMMA ScanSteps ==
    ASSUME NEW T, NEW s \in Seq(T)
    PROVE  LET N == Len(Stops(s))
               scan == Scan(s)
           IN  /\ N \in Nat /\ DOMAIN scan = 0 .. N
               /\ \A k \in 0 .. N : scan[k] \in Buffers(AtomsOf(s), WordsOf(s))
               /\ scan[0].atoms = <<>> /\ scan[0].expr = <<>>
               /\ \A k \in 1 .. N :
                     LET old == scan[k - 1]
                         atom == AtomBefore(s, k)
                     IN  /\ scan[k].atoms = IF atom # <<>> THEN Append(old.atoms, atom)
                                            ELSE old.atoms
                         /\ scan[k].expr =
                               old.expr
                                \o (IF atom # <<>> THEN <<Printed(Len(old.atoms))>> ELSE <<>>)
                                \o (IF k = N THEN <<>> ELSE <<<<s[Stops(s)[k]]>>>>)
<1>. DEFINE stops == Stops(s)
            N == Len(stops)
            A == AtomsOf(s)
            E == WordsOf(s)
            S == Buffers(A, E)
            base == [atoms |-> <<>>, expr |-> <<>>, length |-> 0,
                     atom_sizes |-> 4, expr_string_size |-> 10]
            Turn(old, k) ==
                LET atom == AtomBefore(s, k)
                    ended == atom # <<>>
                    number == Len(old.atoms)
                    digits == IF ended THEN Len(Printed(number)) ELSE 0
                    last == k = N
                IN  [atoms |-> IF ended THEN Append(old.atoms, atom) ELSE old.atoms,
                     expr |-> old.expr
                              \o (IF ended THEN <<Printed(number)>> ELSE <<>>)
                              \o (IF last THEN <<>> ELSE <<<<s[stops[k]]>>>>),
                     length |-> old.length + digits + (IF last THEN 0 ELSE 1),
                     atom_sizes |-> IF ended THEN AtomsRoom(old.atom_sizes, number + 1)
                                    ELSE old.atom_sizes,
                     expr_string_size |->
                         ExprRoom(old.expr_string_size, old.length, digits)]
            turn == [k \in 1 .. N |-> [old \in S |-> Turn(old, k)]]
            Loop(g) == [k \in 0 .. N |-> IF k = 0 THEN base ELSE Turn(g[k - 1], k)]
            scan == CHOOSE g : g = Loop(g)
<1>1. N \in Nat
  <2>. DEFINE R == Nat
  <2>1. InOrder({i \in DOMAIN s : s[i] \in Operators}) \in Seq(1 .. Len(s))
    BY InOrderType
  <2>2. InOrder({i \in DOMAIN s : s[i] \in Operators}) \in Seq(R)
    BY <2>1, SeqMonotonic, 1 .. Len(s) \subseteq Nat
  <2>3. Len(s) + 1 \in R
    OBVIOUS
  <2>. HIDE DEF R
  <2>4. stops \in Seq(R)
    BY <2>2, <2>3, AppendProperties DEF Stops
  <2>. QED  BY <2>4, LenProperties
<1>2. base \in S
  <2>. HIDE DEF A, E
  <2>1. <<>> \in Seq(A) /\ <<>> \in Seq(E) /\ Len(<<>>) = 0
    OBVIOUS
  <2>. QED  BY <2>1 DEF Buffers
<1>3. ASSUME NEW old \in S, NEW k \in 1 .. N PROVE Turn(old, k) \in S
  <2>. DEFINE atom == AtomBefore(s, k)
              ended == atom # <<>>
              number == Len(old.atoms)
              digits == IF ended THEN Len(Printed(number)) ELSE 0
              char == <<s[stops[k]]>>
              new == Turn(old, k)
  <2>1. atom \in A /\ char \in E /\ Printed(number) \in E
    <3>1. number \in Nat
      <4>. HIDE DEF A, E, N
      <4>. QED  BY LenProperties DEF Buffers
    <3>. QED  BY <3>1 DEF AtomsOf, WordsOf
  <2>. HIDE DEF A, E, atom, char, N
  <2>2. /\ old.atoms \in Seq(A) /\ old.expr \in Seq(E)
        /\ number \in Nat /\ old.atom_sizes \in Nat /\ old.length \in Nat
        /\ old.expr_string_size \in Nat
        /\ number + 2 <= old.atom_sizes /\ old.atom_sizes >= 4
        /\ old.length + 1 <= old.expr_string_size /\ old.expr_string_size >= 10
        /\ number <= old.length
    BY LenProperties DEF Buffers
  <2>3. /\ AtomsRoom(old.atom_sizes, number + 1) \in Nat
        /\ number + 3 <= AtomsRoom(old.atom_sizes, number + 1)
        /\ AtomsRoom(old.atom_sizes, number + 1) >= 4
    <3>. HIDE DEF number
    <3>. QED  BY <2>2, AtomsEnough
  <2>4. digits \in Nat /\ digits + 1 <= old.expr_string_size /\ (ended => digits >= 1)
    <3>1. digits = IF ended THEN Len(Printed(number)) ELSE 0
      OBVIOUS
    <3>. DEFINE l == Len(Printed(number))
    <3>2. l \in Nat /\ l >= 1 /\ (number < 10 => l = 1) /\ (number >= 10 => l <= number)
      <4>. HIDE DEF number
      <4>. QED  BY <2>2, PrintedIsRead, LenProperties
    <3>. HIDE DEF number, digits, ended, l
    <3>3. l + 1 <= old.expr_string_size
      BY <2>2, <3>2
    <3>. QED  BY <2>2, <3>1, <3>2, <3>3 DEF l
  <2>5. /\ ExprRoom(old.expr_string_size, old.length, digits) \in Nat
        /\ ExprRoom(old.expr_string_size, old.length, digits) >= 10
        /\ old.length + digits + 2 <= ExprRoom(old.expr_string_size, old.length, digits)
    <3>. HIDE DEF number, digits
    <3>. QED  BY <2>2, <2>4, ExprEnough
  <2>6. /\ new.atoms \in Seq(A)
        /\ Len(new.atoms) = IF ended THEN number + 1 ELSE number
    <3>1. new.atoms = IF ended THEN Append(old.atoms, atom) ELSE old.atoms
      BY DEF atom
    <3>2. /\ Append(old.atoms, atom) \in Seq(A)
          /\ Len(Append(old.atoms, atom)) = number + 1
      BY <2>1, <2>2, AppendProperties
    <3>. HIDE DEF new, ended
    <3>. QED  BY <2>2, <3>1, <3>2
  <2>7. new.expr \in Seq(E)
    <3>1. new.expr = old.expr \o (IF ended THEN <<Printed(number)>> ELSE <<>>)
                              \o (IF k = N THEN <<>> ELSE <<char>>)
      BY DEF atom, char
    <3>2. /\ (IF ended THEN <<Printed(number)>> ELSE <<>>) \in Seq(E)
          /\ (IF k = N THEN <<>> ELSE <<char>>) \in Seq(E)
      BY <2>1
    <3>. HIDE DEF new, ended, number
    <3>. QED  BY <2>2, <3>1, <3>2, ConcatProperties
  <2>8. new.length = old.length + digits + (IF k = N THEN 0 ELSE 1)
    BY DEF atom, N
  <2>9. new.atom_sizes = IF ended THEN AtomsRoom(old.atom_sizes, number + 1) ELSE old.atom_sizes
    BY DEF atom
  <2>10. new.expr_string_size = ExprRoom(old.expr_string_size, old.length, digits)
    BY DEF atom
  <2>11. /\ DOMAIN new = {"atoms", "expr", "length", "atom_sizes", "expr_string_size"}
         /\ new = [atoms |-> new.atoms, expr |-> new.expr, length |-> new.length,
                   atom_sizes |-> new.atom_sizes, expr_string_size |-> new.expr_string_size]
    OBVIOUS
  <2>12. /\ new.length \in Nat /\ new.atom_sizes \in Nat /\ new.expr_string_size \in Nat
         /\ Len(new.atoms) + 2 <= new.atom_sizes /\ new.atom_sizes >= 4
         /\ new.length + 1 <= new.expr_string_size /\ new.expr_string_size >= 10
         /\ Len(new.atoms) <= new.length
    <3>. HIDE DEF new, ended, number, digits
    <3>1. new.expr_string_size \in Nat /\ new.expr_string_size >= 10
      BY <2>5, <2>10
    <3>2. /\ new.length \in Nat /\ new.length <= old.length + digits + 1
          /\ new.length >= old.length + digits
      <4>1. digits \in Nat /\ old.length \in Nat
        BY <2>2, <2>4
      <4>2. new.length = old.length + digits \/ new.length = old.length + digits + 1
        BY <2>2, <2>8, <4>1
      <4>. QED  BY <4>1, <4>2
    <3>3. new.length + 1 <= new.expr_string_size
      BY SMTT(30), <2>2, <2>4, <2>5, <2>10, <3>2
    <3>4. CASE ended
      <4>1. Len(new.atoms) = number + 1
        BY <2>6, <3>4
      <4>2. new.atom_sizes = AtomsRoom(old.atom_sizes, number + 1)
        BY <2>9, <3>4
      <4>3. /\ new.atom_sizes \in Nat /\ new.atom_sizes >= 4
            /\ Len(new.atoms) + 2 <= new.atom_sizes
        BY <2>2, <2>3, <4>1, <4>2
      <4>4. Len(new.atoms) <= new.length
        BY <2>2, <2>4, <3>2, <3>4, <4>1, SMTT(30)
      <4>. QED  BY <3>1, <3>2, <3>3, <4>3, <4>4
    <3>5. CASE ~ended
      <4>1. Len(new.atoms) = number /\ new.atom_sizes = old.atom_sizes
        BY <2>6, <2>9, <3>5
      <4>2. digits \in Nat
        BY <2>4
      <4>3. Len(new.atoms) <= new.length
        BY SMTT(30), <2>2, <3>2, <4>1, <4>2
      <4>. QED  BY <2>2, <3>1, <3>2, <3>3, <4>1, <4>3
    <3>. QED  BY <3>4, <3>5
  <2>. HIDE DEF new
  <2>13. new \in S
    BY <2>6, <2>7, <2>11, <2>12 DEF Buffers
  <2>. QED  BY <2>13 DEF new
<1>. HIDE DEF S, Turn, base
<1>4. turn \in [1 .. N -> [S -> S]]
  BY <1>3
<1>5. \E g : g = Loop(g)
  <2>1. PICK g : IsLoop(g, N, S, base, turn)
    <3>. HIDE DEF turn, N
    <3>. QED  BY <1>1, <1>2, <1>4, LoopExists
  <2>. HIDE DEF N
  <2>2. \A k \in 1 .. N : g[k - 1] \in S /\ g[k] = Turn(g[k - 1], k)
    BY <1>1, <2>1 DEF IsLoop
  <2>3. \A k \in 0 .. N : g[k] = Loop(g)[k]
    BY <1>1, <2>1, <2>2 DEF IsLoop
  <2>4. g = [k \in 0 .. N |-> g[k]] /\ Loop(g) = [k \in 0 .. N |-> Loop(g)[k]]
    BY <2>1 DEF IsLoop
  <2>. HIDE DEF Loop
  <2>. QED  BY <2>3, <2>4
<1>6. scan = Loop(scan)
  <2>. HIDE DEF Loop
  <2>. QED  BY <1>5
<1>7. Scan(s) = scan
  BY DEF Scan, scan, Turn, base
<1>. HIDE DEF scan
<1>8. scan[0] \in S /\ \A k \in 1 .. N : scan[k - 1] \in S => scan[k] \in S
  <2>. HIDE DEF N
  <2>. QED  BY <1>1, <1>2, <1>3, <1>6
<1>9. ASSUME NEW n \in 0 .. N PROVE scan[n] \in S
  <2>. HIDE DEF N
  <2>1. n \in Nat /\ \A k \in 1 .. n : scan[k - 1] \in S => scan[k] \in S
    BY <1>1, <1>8
  <2>. QED  BY <1>8, <2>1, LoopKeeps
<1>10. DOMAIN scan = 0 .. N
  <2>. HIDE DEF N
  <2>. QED  BY <1>6
<1>. HIDE DEF N
<1>11. ASSUME NEW k \in 1 .. N
       PROVE  scan[k] = Turn(scan[k - 1], k)
  <2>1. scan[k] = Loop(scan)[k]
    BY <1>6
  <2>. QED  BY <1>1, <2>1
<1>12. ASSUME NEW old, NEW k \in 1 .. N
       PROVE  /\ Turn(old, k).atoms = IF AtomBefore(s, k) # <<>>
                                      THEN Append(old.atoms, AtomBefore(s, k)) ELSE old.atoms
              /\ Turn(old, k).expr =
                    old.expr
                     \o (IF AtomBefore(s, k) # <<>> THEN <<Printed(Len(old.atoms))>> ELSE <<>>)
                     \o (IF k = N THEN <<>> ELSE <<<<s[stops[k]]>>>>)
  BY DEF Turn
<1>13. scan[0].atoms = <<>> /\ scan[0].expr = <<>>
  <2>1. scan[0] = Loop(scan)[0] /\ Loop(scan)[0] = base
    <3>1. 0 \in 0 .. N
      BY <1>1
    <3>. QED  BY <1>6, <3>1
  <2>2. base.atoms = <<>> /\ base.expr = <<>>
    BY DEF base
  <2>. HIDE DEF Loop
  <2>. QED  BY <2>1, <2>2
<1>. HIDE DEF Loop
<1>14. \A k \in 1 .. N :
          /\ scan[k].atoms = IF AtomBefore(s, k) # <<>>
                             THEN Append(scan[k - 1].atoms, AtomBefore(s, k))
                             ELSE scan[k - 1].atoms
          /\ scan[k].expr =
                scan[k - 1].expr
                 \o (IF AtomBefore(s, k) # <<>> THEN <<Printed(Len(scan[k - 1].atoms))>>
                     ELSE <<>>)
                 \o (IF k = N THEN <<>> ELSE <<<<s[stops[k]]>>>>)
  <2>1. TAKE k \in 1 .. N
  <2>. DEFINE old == scan[k - 1]
              new == scan[k]
  <2>2. new = Turn(old, k)
    BY <1>11
  <2>. HIDE DEF old, new
  <2>3. /\ new.atoms = IF AtomBefore(s, k) # <<>>
                       THEN Append(old.atoms, AtomBefore(s, k)) ELSE old.atoms
        /\ new.expr =
              old.expr
               \o (IF AtomBefore(s, k) # <<>> THEN <<Printed(Len(old.atoms))>> ELSE <<>>)
               \o (IF k = N THEN <<>> ELSE <<<<s[stops[k]]>>>>)
    BY <1>12, <2>2
  <2>. QED  BY <2>3 DEF old, new
<1>15. \A k \in 0 .. N : scan[k] \in Buffers(A, E)
  BY <1>9 DEF S
<1>. QED  BY <1>1, <1>7, <1>10, <1>13, <1>14, <1>15 DEF N

LEMMA ScanBounded ==
    ASSUME NEW T, NEW s \in Seq(T)
    PROVE  \A k \in DOMAIN Scan(s) :
              /\ Len(Scan(s)[k].atoms) <= Scan(s)[k].atom_sizes
              /\ Scan(s)[k].length + 1 <= Scan(s)[k].expr_string_size
<1>. DEFINE A == AtomsOf(s)
            E == WordsOf(s)
<1>1. \A k \in DOMAIN Scan(s) : Scan(s)[k] \in Buffers(A, E)
  BY ScanSteps
<1>. HIDE DEF A, E
<1>2. ASSUME NEW r \in Buffers(A, E)
      PROVE  Len(r.atoms) <= r.atom_sizes /\ r.length + 1 <= r.expr_string_size
  <2>1. r.atoms \in Seq(A) /\ Len(r.atoms) + 2 <= r.atom_sizes /\ r.atom_sizes \in Nat
        /\ r.length + 1 <= r.expr_string_size
    BY DEF Buffers
  <2>. QED  BY <2>1, LenProperties
<1>. QED  BY <1>1, <1>2

-----------------------------------------------------------------------------
(* The two passes over a command.                                          *)

(* strstr finds the first occurrence from where it begins.                 *)
LEMMA StrStrFirst ==
    ASSUME NEW T, NEW s \in Seq(T), NEW pat, Len(pat) \in Nat \ {0}, NEW p \in Nat \ {0}
    PROVE  LET q == StrStr(s, pat, p)
               o == Occurrences(s, pat, p)
           IN  /\ q = 0 => o = {}
               /\ q # 0 => q \in o /\ q \in p .. Len(s) /\ q <= Len(s) - Len(pat) + 1
               /\ q \in Nat
               /\ \A i \in o : q <= i
<1>. DEFINE q == StrStr(s, pat, p)
            o == Occurrences(s, pat, p)
<1>1. /\ Len(s) \in Nat /\ o \subseteq Nat \ {0}
      /\ \A i \in o : i \in p .. Len(s) /\ i <= Len(s) - Len(pat) + 1
  <2>1. Len(s) \in Nat
    OBVIOUS
  <2>. QED  BY <2>1 DEF Occurrences
<1>2. q = IF o = {} THEN 0 ELSE Min(o)
  BY DEF StrStr
<1>3. ASSUME o # {} PROVE q \in o /\ \A i \in o : q <= i
  <2>. HIDE DEF o, q
  <2>1. PICK least \in o : \A i \in o : least <= i
    BY <1>1, <1>3, LeastNumber
  <2>2. Min(o) \in o /\ \A i \in o : Min(o) <= i
    BY <2>1 DEF Min
  <2>. QED  BY <1>2, <1>3, <2>2
<1>4. o = {} => q = 0
  BY <1>2
<1>. HIDE DEF o, q
<1>5. /\ q = 0 => o = {}
      /\ q # 0 => q \in o /\ q \in p .. Len(s) /\ q <= Len(s) - Len(pat) + 1
      /\ q \in Nat
      /\ \A i \in o : q <= i
  <2>1. CASE o = {}
    BY <1>4, <2>1
  <2>2. CASE o # {}
    <3>1. q \in o /\ q \in Nat /\ q # 0
      BY <1>1, <1>3, <2>2
    <3>2. q \in p .. Len(s) /\ q <= Len(s) - Len(pat) + 1
      BY <1>1, <3>1
    <3>. QED  BY <1>3, <2>2, <3>1, <3>2
  <2>. QED  BY <2>1, <2>2
<1>. QED  BY <1>5 DEF q, o

(* What is found from r is behind p, so from p it is found, or one before. *)
LEMMA StrStrBefore ==
    ASSUME NEW T, NEW s \in Seq(T), NEW pat, Len(pat) \in Nat \ {0},
           NEW p \in Nat \ {0}, NEW r \in Nat \ {0},
           StrStr(s, pat, r) # 0, p <= StrStr(s, pat, r)
    PROVE  StrStr(s, pat, p) \in p .. StrStr(s, pat, r)
<1>. DEFINE q == StrStr(s, pat, p)
            l == StrStr(s, pat, r)
<1>1. l \in Occurrences(s, pat, r) /\ l \in Nat /\ l <= Len(s) - Len(pat) + 1
  BY StrStrFirst
<1>2. Len(s) \in Nat
  OBVIOUS
<1>3. l \in Occurrences(s, pat, p)
  BY <1>1, <1>2 DEF Occurrences
<1>4. q # 0 /\ q \in p .. Len(s) /\ q <= l
  BY <1>3, StrStrFirst
<1>. HIDE DEF q, l
<1>5. q \in p .. l
  BY <1>1, <1>2, <1>4
<1>. QED  BY <1>5 DEF q, l

LEMMA Patterns == Len(HalExecPrefix) = 3 /\ Len(Dollar) = 1
BY DEF HalExecPrefix, Dollar

(* Where a property opens and closes, from any position p of a command.    *)
LEMMA Properties ==
    ASSUME NEW T, NEW s \in Seq(T), NEW p \in 1 .. Len(s) + 1
    PROVE  LET n == Len(s)
               q == Opening(s, p)
               r == Closing(s, p)
           IN  /\ n \in Nat /\ q \in Nat /\ r \in Nat
               /\ q # 0 => q \in p .. n - 2 /\ s[q] = "$"
               /\ r # 0 => q # 0 /\ r \in q + 1 .. n
<1>. DEFINE n == Len(s)
            q == Opening(s, p)
            r == Closing(s, p)
<1>1. n \in Nat /\ p \in Nat \ {0}
  OBVIOUS
<1>2. /\ q \in Nat
      /\ q # 0 => /\ q \in Occurrences(s, HalExecPrefix, p)
                  /\ q \in p .. n /\ q <= n - 2
  <2>1. Len(HalExecPrefix) \in Nat \ {0}
    BY Patterns
  <2>2. /\ q \in Nat
        /\ q # 0 => /\ q \in Occurrences(s, HalExecPrefix, p)
                    /\ q \in p .. n /\ q <= n - Len(HalExecPrefix) + 1
    BY <1>1, <2>1, StrStrFirst DEF Opening
  <2>. HIDE DEF q, n
  <2>. QED  BY <1>1, <2>2, Patterns
<1>3. ASSUME q # 0 PROVE s[q] = "$"
  <2>1. SubSeq(s, q, q + Len(HalExecPrefix) - 1) = HalExecPrefix
    BY <1>2, <1>3 DEF Occurrences
  <2>. HIDE DEF q
  <2>2. SubSeq(s, q, q + 2) = HalExecPrefix
    BY <1>2, <2>1, Patterns
  <2>3. SubSeq(s, q, q + 2)[1] = s[q]
    <3>1. q \in Int /\ q + 2 \in Int /\ \A i \in q .. q + 2 : s[i] \in T
      BY <1>1, <1>2, <1>3
    <3>2. \A i \in 1 .. (q + 2) - q + 1 : SubSeq(s, q, q + 2)[i] = s[q + i - 1]
      BY SMTT(30), <3>1, SubSeqProperties
    <3>3. 1 \in 1 .. (q + 2) - q + 1 /\ q + 1 - 1 = q
      BY <1>2
    <3>. QED  BY <3>2, <3>3
  <2>4. HalExecPrefix[1] = "$"
    BY DEF HalExecPrefix
  <2>. QED  BY <2>2, <2>3, <2>4
<1>4. r \in Nat /\ (r # 0 => q # 0 /\ r \in q + 1 .. n)
  <2>1. CASE q = 0
    BY <2>1 DEF Closing
  <2>2. CASE q # 0
    <3>1. r = StrStr(s, Dollar, q + 1)
      BY <2>2 DEF Closing
    <3>2. Len(Dollar) \in Nat \ {0} /\ q + 1 \in Nat \ {0}
      BY <1>2, Patterns
    <3>. HIDE DEF q, r
    <3>. QED  BY <2>2, <3>1, <3>2, StrStrFirst
  <2>. QED  BY <2>1, <2>2
<1>. HIDE DEF q, r, n
<1>5. /\ n \in Nat /\ q \in Nat /\ r \in Nat
      /\ q # 0 => q \in p .. n - 2 /\ s[q] = "$"
      /\ r # 0 => q # 0 /\ r \in q + 1 .. n
  BY <1>1, <1>2, <1>3, <1>4
<1>. QED  BY <1>5 DEF n, q, r

(* The property that is found from l is found from p as well if p is not   *)
(* behind its beginning, or another one that closes where it opens or      *)
(* before.                                                                 *)
LEMMA EarlierProperty ==
    ASSUME NEW T, NEW s \in Seq(T), NEW p \in 1 .. Len(s) + 1, NEW l \in 1 .. Len(s) + 1,
           Closing(s, l) # 0, p <= Opening(s, l)
    PROVE  \/ Closing(s, p) = Closing(s, l)
           \/ Closing(s, p) # 0 /\ Closing(s, p) <= Opening(s, l)
<1>. DEFINE q == Opening(s, p)
            o == Opening(s, l)
<1>1. /\ Len(s) \in Nat /\ p \in Nat \ {0} /\ l \in Nat \ {0}
      /\ o # 0 /\ o \in l .. Len(s) - 2 /\ s[o] = "$"
      /\ q \in Nat
  BY Properties
<1>2. q \in p .. o
  <2>1. Len(HalExecPrefix) \in Nat \ {0}
    BY Patterns
  <2>. QED  BY <1>1, <2>1, StrStrBefore DEF Opening
<1>3. CASE q = o
  BY <1>3 DEF Closing
<1>4. CASE q # o
  <2>1. q # 0 /\ q + 1 \in Nat \ {0} /\ q + 1 <= o /\ o \in Nat
    <3>. HIDE DEF q, o
    <3>. QED  BY <1>1, <1>2, <1>4
  <2>2. Closing(s, p) = StrStr(s, Dollar, q + 1)
    BY <2>1 DEF Closing
  <2>3. o \in Occurrences(s, Dollar, q + 1)
    <3>1. SubSeq(s, o, o) = Dollar
      <4>1. o \in 1 .. Len(s) /\ o \in Int /\ \A i \in o .. o : s[i] \in T
        BY <1>1, <2>1
      <4>2. /\ SubSeq(s, o, o) \in Seq(T) /\ Len(SubSeq(s, o, o)) = 1
            /\ SubSeq(s, o, o)[1] = s[o]
        <5>. HIDE DEF o
        <5>1. /\ SubSeq(s, o, o) \in Seq(T)
              /\ Len(SubSeq(s, o, o)) = IF o <= o THEN o - o + 1 ELSE 0
              /\ \A i \in 1 .. o - o + 1 : SubSeq(s, o, o)[i] = s[o + i - 1]
          BY <4>1, SubSeqProperties
        <5>2. o - o + 1 = 1 /\ o + 1 - 1 = o /\ o <= o /\ 1 \in 1 .. 1
          BY <4>1
        <5>. QED  BY <5>1, <5>2
      <4>. DEFINE t == SubSeq(s, o, o)
      <4>3. t \in Seq(T) /\ Len(t) = 1 /\ t[1] = "$"
        BY <1>1, <4>2
      <4>. HIDE DEF t
      <4>4. t = <<"$">>
        BY <4>3
      <4>. QED  BY <4>4 DEF t, Dollar
    <3>2. o \in q + 1 .. Len(s) - Len(Dollar) + 1 /\ o + Len(Dollar) - 1 = o
      <4>. HIDE DEF q, o
      <4>. QED  BY <1>1, <2>1, Patterns
    <3>. QED  BY <3>1, <3>2 DEF Occurrences
  <2>4. Len(Dollar) \in Nat \ {0}
    BY Patterns
  <2>. HIDE DEF q, o
  <2>5. Closing(s, p) <= o /\ Closing(s, p) # 0
    BY <2>1, <2>2, <2>3, <2>4, StrStrFirst
  <2>. QED  BY <2>5 DEF o
<1>. QED  BY <1>3, <1>4

(* The first pass, from every position: it counts two for each property    *)
(* and goes on from where it closes, unless that is the end.               *)
LEMMA Counting ==
    ASSUME NEW T, NEW s \in Seq(T)
    PROVE  \E count \in [1 .. Len(s) + 1 -> Nat] :
              /\ CountElements(s) = count[1]
              /\ \A p \in 1 .. Len(s) + 1 :
                    LET r == Closing(s, p)
                    IN  /\ r # 0 /\ r = Len(s) => count[p] = 1
                        /\ r # 0 /\ r # Len(s) => count[p] = 2 + count[r]
<1>. DEFINE n == Len(s)
            N == Len(s) + 1
            goes == {p \in 1 .. N : Closing(s, p) \notin {0, n}}
            next == [p \in 1 .. N |-> Closing(s, p)]
            turn == [p \in 1 .. N |-> [v \in Nat |-> 2 + v]]
            base == [p \in 1 .. N |-> IF Closing(s, p) = 0 THEN 0 ELSE 1]
            Loop(g) == [p \in 1 .. Len(s) + 1 |->
                IF Closing(s, p) = 0 THEN 0
                ELSE IF Closing(s, p) = Len(s) THEN 1
                ELSE 2 + g[Closing(s, p)]]
            count == CHOOSE g : g = Loop(g)
<1>1. n \in Nat /\ N \in Nat /\ N = n + 1
  OBVIOUS
<1>2. \A p \in 1 .. N : Closing(s, p) \in Nat /\ (Closing(s, p) # 0 => Closing(s, p) \in p + 1 .. n)
  <2>1. SUFFICES ASSUME NEW p \in 1 .. N
                 PROVE  Closing(s, p) \in Nat /\ (Closing(s, p) # 0 => Closing(s, p) \in p + 1 .. n)
    OBVIOUS
  <2>. DEFINE q == Opening(s, p)
              r == Closing(s, p)
  <2>2. /\ q \in Nat /\ r \in Nat /\ (q # 0 => q \in p .. n - 2)
        /\ r # 0 => q # 0 /\ r \in q + 1 .. n
    BY Properties
  <2>. HIDE DEF q, r, n
  <2>3. r \in Nat /\ (r # 0 => r \in p + 1 .. n)
    BY <1>1, <2>2
  <2>. QED  BY <2>3 DEF r
<1>3. \A p \in 1 .. N : p \in goes => next[p] \in p + 1 .. N
  <2>. HIDE DEF n, N
  <2>. QED  BY <1>1, <1>2
<1>4. turn \in [1 .. N -> [Nat -> Nat]] /\ base \in [1 .. N -> Nat]
  OBVIOUS
<1>5. ASSUME NEW g
      PROVE  /\ Loop(g) = [p \in 1 .. N |-> Loop(g)[p]]
             /\ \A p \in 1 .. N : Loop(g)[p] = IF p \in goes THEN 2 + g[Closing(s, p)] ELSE base[p]
  <2>1. ASSUME NEW p \in 1 .. N
        PROVE  Loop(g)[p] = IF p \in goes THEN 2 + g[Closing(s, p)] ELSE base[p]
    <3>1. Loop(g)[p] = IF Closing(s, p) = 0 THEN 0
                       ELSE IF Closing(s, p) = Len(s) THEN 1
                       ELSE 2 + g[Closing(s, p)]
      OBVIOUS
    <3>2. base[p] = IF Closing(s, p) = 0 THEN 0 ELSE 1
      OBVIOUS
    <3>3. p \in goes <=> Closing(s, p) # 0 /\ Closing(s, p) # Len(s)
      OBVIOUS
    <3>. HIDE DEF Loop, base, goes
    <3>. QED  BY <3>1, <3>2, <3>3
  <2>2. Loop(g) = [p \in 1 .. N |-> Loop(g)[p]]
    OBVIOUS
  <2>. QED  BY <2>1, <2>2
<1>6. \E g : g = Loop(g)
  <2>1. PICK g : IsWalk(g, N, Nat, goes, next, turn, base)
    <3>. HIDE DEF goes, next, turn, base, N
    <3>. QED  BY <1>1, <1>3, <1>4, WalkExists
  <2>2. g \in [1 .. N -> Nat]
    BY <2>1 DEF IsWalk
  <2>3. \A p \in 1 .. N : g[p] = Loop(g)[p]
    <3>1. SUFFICES ASSUME NEW p \in 1 .. N PROVE g[p] = Loop(g)[p]
      OBVIOUS
    <3>2. g[p] = IF p \in goes THEN turn[p][g[next[p]]] ELSE base[p]
      BY <2>1 DEF IsWalk
    <3>3. p \in goes => turn[p][g[next[p]]] = 2 + g[Closing(s, p)]
      <4>1. p \in goes => next[p] = Closing(s, p) /\ next[p] \in 1 .. N
        <5>. HIDE DEF goes, n
        <5>. QED  BY <1>1, <1>3
      <4>. HIDE DEF goes, next, N
      <4>. QED  BY <2>2, <4>1
    <3>. HIDE DEF goes, next, turn, base, Loop, N
    <3>. QED  BY <1>5, <3>2, <3>3
  <2>4. g = [p \in 1 .. N |-> g[p]]
    BY <2>2
  <2>5. Loop(g) = [p \in 1 .. N |-> Loop(g)[p]]
    BY <1>5
  <2>. HIDE DEF Loop, N
  <2>. QED  BY <2>3, <2>4, <2>5
<1>7. count = Loop(count)
  <2>. HIDE DEF Loop
  <2>. QED  BY <1>6
<1>8. CountElements(s) = count[1]
  BY DEF CountElements, count
<1>. HIDE DEF count
<1>9. \A p \in 1 .. N : count[p] = IF p \in goes THEN 2 + count[Closing(s, p)] ELSE base[p]
  <2>. HIDE DEF Loop, goes, base, N
  <2>. QED  BY <1>5, <1>7
<1>10. \A p \in 1 .. N : count[p] \in Nat
  <2>1. ASSUME NEW p \in 1 .. N, \A m \in p + 1 .. N : count[m] \in Nat
        PROVE  count[p] \in Nat
    <3>1. p \in goes => Closing(s, p) \in p + 1 .. N
      <4>. HIDE DEF goes, N
      <4>. QED  BY <1>3
    <3>2. base[p] \in Nat
      BY <1>4
    <3>. HIDE DEF goes, N, base
    <3>. QED  BY <1>9, <2>1, <3>1, <3>2
  <2>. HIDE DEF N
  <2>. QED  BY <1>1, <2>1, WalkKeeps
<1>11. count \in [1 .. N -> Nat]
  <2>1. count = [p \in 1 .. N |-> count[p]]
    <3>. HIDE DEF Loop, N
    <3>. QED  BY <1>5, <1>7
  <2>. HIDE DEF N
  <2>. QED  BY <1>10, <2>1
<1>12. ASSUME NEW p \in 1 .. N
       PROVE  LET r == Closing(s, p)
              IN  /\ r # 0 /\ r = n => count[p] = 1
                  /\ r # 0 /\ r # n => count[p] = 2 + count[r]
  <2>. HIDE DEF N, n
  <2>. QED  BY <1>9
<1>. HIDE DEF n
<1>. QED  BY <1>8, <1>11, <1>12 DEF n

(* The second pass, from every position: it cuts off two for each property *)
(* and goes on behind where it closes, unless that is the end or the name  *)
(* is no name.                                                             *)
LEMMA CutFrom ==
    ASSUME NEW T, NEW s \in Seq(T)
    PROVE  \E E : \E cut \in [1 .. Len(s) + 1 -> Seq(E)] :
              /\ CutElements(s) = cut[1]
              /\ \A p \in 1 .. Len(s) + 1 :
                    LET q == Opening(s, p)
                        r == Closing(s, p)
                        name == ParsePropertyName(SubSeq(s, q + 1, r - 1))
                        both == <<Literal(SubSeq(s, p, q - 1)), Property(name)>>
                        ends == name = NoName \/ r = Len(s)
                    IN  /\ both \in Seq(E) /\ <<Literal(SubSeq(s, p, Len(s)))>> \in Seq(E)
                        /\ r = 0 => cut[p] = <<Literal(SubSeq(s, p, Len(s)))>>
                        /\ r # 0 /\ ends => cut[p] = both
                        /\ r # 0 /\ ~ends => cut[p] = both \o cut[r + 1]
<1>. DEFINE n == Len(s)
            N == Len(s) + 1
            Cut(i, j) == SubSeq(s, i, j)
            Name(p) == ParsePropertyName(Cut(Opening(s, p) + 1, Closing(s, p) - 1))
            Both(p) == <<Literal(Cut(p, Opening(s, p) - 1)), Property(Name(p))>>
            Rest(p) == <<Literal(Cut(p, Len(s)))>>
            Ends(p) == Name(p) = NoName \/ Closing(s, p) = Len(s)
            E == {Literal(Cut(p, Opening(s, p) - 1)) : p \in 1 .. N}
                 \cup {Property(Name(p)) : p \in 1 .. N} \cup {Literal(Cut(p, Len(s))) : p \in 1 .. N}
            S == Seq(E)
            goes == {p \in 1 .. N : Closing(s, p) # 0 /\ ~Ends(p)}
            next == [p \in 1 .. N |-> Closing(s, p) + 1]
            turn == [p \in 1 .. N |-> [v \in S |-> Both(p) \o v]]
            base == [p \in 1 .. N |-> IF Closing(s, p) = 0 THEN Rest(p) ELSE Both(p)]
            Loop(g) == [p \in 1 .. Len(s) + 1 |->
                LET q == Opening(s, p)
                    r == Closing(s, p)
                    name == ParsePropertyName(SubSeq(s, q + 1, r - 1))
                    both == <<Literal(SubSeq(s, p, q - 1)), Property(name)>>
                IN  CASE r = 0 -> <<Literal(SubSeq(s, p, Len(s)))>>
                      [] r # 0 /\ (name = NoName \/ r = Len(s)) -> both
                      [] OTHER -> both \o g[r + 1]]
            cut == CHOOSE g : g = Loop(g)
<1>1. n \in Nat /\ N \in Nat /\ N = n + 1
  OBVIOUS
<1>2. \A p \in 1 .. N : /\ Closing(s, p) \in Nat /\ Opening(s, p) \in Nat
                        /\ Closing(s, p) # 0 => Closing(s, p) \in p + 1 .. n
  <2>1. SUFFICES ASSUME NEW p \in 1 .. N
                 PROVE  /\ Closing(s, p) \in Nat /\ Opening(s, p) \in Nat
                        /\ Closing(s, p) # 0 => Closing(s, p) \in p + 1 .. n
    OBVIOUS
  <2>. DEFINE q == Opening(s, p)
              r == Closing(s, p)
  <2>2. /\ q \in Nat /\ r \in Nat /\ (q # 0 => q \in p .. n - 2)
        /\ r # 0 => q # 0 /\ r \in q + 1 .. n
    BY Properties
  <2>. HIDE DEF q, r, n
  <2>3. r \in Nat /\ (r # 0 => r \in p + 1 .. n)
    BY <1>1, <2>2
  <2>. QED  BY <2>2, <2>3 DEF r, q
<1>3. \A p \in 1 .. N : p \in goes => next[p] \in p + 1 .. N
  <2>1. SUFFICES ASSUME NEW p \in 1 .. N, p \in goes PROVE next[p] \in p + 1 .. N
    OBVIOUS
  <2>2. Closing(s, p) # 0 /\ Closing(s, p) # n /\ next[p] = Closing(s, p) + 1
    BY <2>1
  <2>. HIDE DEF n, N, goes, next
  <2>3. Closing(s, p) \in p + 1 .. n
    BY <1>2, <2>2
  <2>. QED  BY <1>1, <2>2, <2>3
<1>4. \A p \in 1 .. N : Both(p) \in S /\ Len(Both(p)) = 2 /\ Rest(p) \in S /\ Len(Rest(p)) = 1
  <2>1. SUFFICES ASSUME NEW p \in 1 .. N
                 PROVE  Both(p) \in S /\ Len(Both(p)) = 2 /\ Rest(p) \in S /\ Len(Rest(p)) = 1
    OBVIOUS
  <2>. DEFINE a == Literal(Cut(p, Opening(s, p) - 1))
              b == Property(Name(p))
              c == Literal(Cut(p, Len(s)))
  <2>2. a \in E /\ b \in E /\ c \in E
    <3>. HIDE DEF Cut, Name, N
    <3>. QED  OBVIOUS
  <2>3. Both(p) = <<a, b>> /\ Rest(p) = <<c>>
    OBVIOUS
  <2>. HIDE DEF a, b, c, E, Both, Rest
  <2>. QED  BY <2>2, <2>3
<1>. HIDE DEF E
<1>5. base \in [1 .. N -> S] /\ turn \in [1 .. N -> [S -> S]]
  <2>1. ASSUME NEW p \in 1 .. N, NEW v \in S PROVE Both(p) \o v \in S
    <3>. HIDE DEF Both, N
    <3>. QED  BY <1>4, ConcatProperties
  <2>. HIDE DEF Both, Rest, S, N
  <2>. QED  BY <1>4, <2>1
<1>6. ASSUME NEW g
      PROVE  /\ Loop(g) = [p \in 1 .. N |-> Loop(g)[p]]
             /\ \A p \in 1 .. N :
                   Loop(g)[p] = IF p \in goes THEN Both(p) \o g[Closing(s, p) + 1] ELSE base[p]
  <2>1. ASSUME NEW p \in 1 .. N
        PROVE  Loop(g)[p] = IF p \in goes THEN Both(p) \o g[Closing(s, p) + 1] ELSE base[p]
    <3>. DEFINE r == Closing(s, p)
    <3>1. Loop(g)[p] = CASE r = 0 -> Rest(p)
                         [] r # 0 /\ Ends(p) -> Both(p)
                         [] OTHER -> Both(p) \o g[r + 1]
      OBVIOUS
    <3>2. base[p] = IF r = 0 THEN Rest(p) ELSE Both(p)
      OBVIOUS
    <3>3. p \in goes <=> r # 0 /\ ~Ends(p)
      OBVIOUS
    <3>. HIDE DEF Loop, base, goes, Rest, Both, Ends
    <3>. QED  BY <3>1, <3>2, <3>3
  <2>2. Loop(g) = [p \in 1 .. N |-> Loop(g)[p]]
    OBVIOUS
  <2>. QED  BY <2>1, <2>2
<1>. HIDE DEF Loop
<1>7. \E g : g = Loop(g)
  <2>1. PICK g : IsWalk(g, N, S, goes, next, turn, base)
    <3>. HIDE DEF goes, next, turn, base, N, S
    <3>. QED  BY <1>1, <1>3, <1>5, WalkExists
  <2>2. g \in [1 .. N -> S]
    BY <2>1 DEF IsWalk
  <2>3. \A p \in 1 .. N : g[p] = Loop(g)[p]
    <3>1. SUFFICES ASSUME NEW p \in 1 .. N PROVE g[p] = Loop(g)[p]
      OBVIOUS
    <3>2. g[p] = IF p \in goes THEN turn[p][g[next[p]]] ELSE base[p]
      BY <2>1 DEF IsWalk
    <3>3. p \in goes => turn[p][g[next[p]]] = Both(p) \o g[Closing(s, p) + 1]
      <4>1. p \in goes => next[p] = Closing(s, p) + 1 /\ next[p] \in 1 .. N
        <5>. HIDE DEF goes, n
        <5>. QED  BY <1>1, <1>3
      <4>. HIDE DEF goes, next, N, S, Both
      <4>. QED  BY <2>2, <4>1
    <3>. HIDE DEF goes, next, turn, base, N, Both
    <3>. QED  BY <1>6, <3>2, <3>3
  <2>4. g = [p \in 1 .. N |-> g[p]]
    BY <2>2
  <2>5. Loop(g) = [p \in 1 .. N |-> Loop(g)[p]]
    BY <1>6
  <2>. HIDE DEF N
  <2>. QED  BY <2>3, <2>4, <2>5
<1>8. cut = Loop(cut)
  BY <1>7
<1>9. CutElements(s) = cut[1]
  BY DEF CutElements, cut, Loop
<1>. HIDE DEF cut
<1>10. \A p \in 1 .. N : cut[p] = IF p \in goes THEN Both(p) \o cut[Closing(s, p) + 1] ELSE base[p]
  <2>. HIDE DEF goes, base, N, Both
  <2>. QED  BY <1>6, <1>8
<1>11. \A p \in 1 .. N : cut[p] \in S
  <2>1. ASSUME NEW p \in 1 .. N, \A m \in p + 1 .. N : cut[m] \in S
        PROVE  cut[p] \in S
    <3>1. p \in goes => Closing(s, p) + 1 \in p + 1 .. N
      <4>. HIDE DEF goes, N
      <4>. QED  BY <1>3
    <3>2. base[p] \in S
      BY <1>5
    <3>3. CASE p \in goes
      <4>1. cut[p] = Both(p) \o cut[Closing(s, p) + 1]
        BY <1>10, <3>3
      <4>2. Both(p) \in Seq(E) /\ cut[Closing(s, p) + 1] \in Seq(E)
        <5>. HIDE DEF goes, N, Both
        <5>. QED  BY <1>4, <2>1, <3>1, <3>3
      <4>. HIDE DEF Both, N
      <4>3. Both(p) \o cut[Closing(s, p) + 1] \in Seq(E)
        BY ONLY <4>2, ConcatProperties
      <4>. QED  BY <4>1, <4>3
    <3>4. CASE p \notin goes
      <4>. HIDE DEF goes, N, base, Both
      <4>. QED  BY <1>10, <3>2, <3>4
    <3>. QED  BY <3>3, <3>4
  <2>. HIDE DEF N, S
  <2>. QED  BY <1>1, <2>1, WalkKeeps
<1>12. cut \in [1 .. N -> Seq(E)]
  <2>1. cut = [p \in 1 .. N |-> cut[p]]
    <3>. HIDE DEF N
    <3>. QED  BY <1>6, <1>8
  <2>. HIDE DEF N
  <2>. QED  BY <1>11, <2>1
<1>13. ASSUME NEW p \in 1 .. N
       PROVE  LET r == Closing(s, p)
              IN  /\ Both(p) \in Seq(E) /\ Rest(p) \in Seq(E)
                  /\ r = 0 => cut[p] = Rest(p)
                  /\ r # 0 /\ Ends(p) => cut[p] = Both(p)
                  /\ r # 0 /\ ~Ends(p) => cut[p] = Both(p) \o cut[r + 1]
  <2>. DEFINE r == Closing(s, p)
  <2>1. p \in goes <=> r # 0 /\ ~Ends(p)
    OBVIOUS
  <2>2. base[p] = IF r = 0 THEN Rest(p) ELSE Both(p)
    OBVIOUS
  <2>3. cut[p] = IF p \in goes THEN Both(p) \o cut[r + 1] ELSE base[p]
    BY <1>10
  <2>4. Both(p) \in Seq(E) /\ Rest(p) \in Seq(E)
    BY <1>4
  <2>. HIDE DEF goes, base, Both, Rest, Ends, N
  <2>. QED  BY <2>1, <2>2, <2>3, <2>4
<1>. DEFINE Whole(e, c) ==
                  /\ CutElements(s) = c[1]
                  /\ \A p \in 1 .. N :
                        LET r == Closing(s, p)
                        IN  /\ Both(p) \in Seq(e) /\ Rest(p) \in Seq(e)
                            /\ r = 0 => c[p] = Rest(p)
                            /\ r # 0 /\ Ends(p) => c[p] = Both(p)
                            /\ r # 0 /\ ~Ends(p) => c[p] = Both(p) \o c[r + 1]
<1>14. Whole(E, cut)
  <2>. HIDE DEF Both, Rest, Ends, N
  <2>. QED  BY <1>9, <1>13
<1>15. \E e : \E c \in [1 .. N -> Seq(e)] : Whole(e, c)
  <2>. HIDE DEF Whole, N
  <2>. QED  BY <1>12, <1>14
<1>. QED  BY <1>15

LEMMA Cutting ==
    ASSUME NEW T, NEW s \in Seq(T)
    PROVE  \E length \in [1 .. Len(s) + 1 -> Nat] :
              /\ Len(CutElements(s)) = length[1]
              /\ \A p \in 1 .. Len(s) + 1 :
                    LET r == Closing(s, p)
                    IN  /\ r = 0 => length[p] = 1
                        /\ r # 0 /\ r = Len(s) => length[p] = 2
                        /\ r # 0 /\ r # Len(s) =>
                              length[p] = 2 \/ length[p] = 2 + length[r + 1]
<1>. DEFINE N == Len(s) + 1
            Rest(p) == <<Literal(SubSeq(s, p, Len(s)))>>
            Name(p) == ParsePropertyName(SubSeq(s, Opening(s, p) + 1, Closing(s, p) - 1))
            Both(p) == <<Literal(SubSeq(s, p, Opening(s, p) - 1)), Property(Name(p))>>
            Ends(p) == Name(p) = NoName \/ Closing(s, p) = Len(s)
            Whole(e, c) ==
                /\ CutElements(s) = c[1]
                /\ \A p \in 1 .. N :
                      LET r == Closing(s, p)
                      IN  /\ Both(p) \in Seq(e) /\ Rest(p) \in Seq(e)
                          /\ r = 0 => c[p] = Rest(p)
                          /\ r # 0 /\ Ends(p) => c[p] = Both(p)
                          /\ r # 0 /\ ~Ends(p) => c[p] = Both(p) \o c[r + 1]
<1>0. PICK E : \E c \in [1 .. N -> Seq(E)] : Whole(E, c)
  BY CutFrom
<1>1. PICK cut \in [1 .. N -> Seq(E)] : Whole(E, cut)
  BY <1>0
<1>. DEFINE length == [p \in 1 .. N |-> Len(cut[p])]
<1>2. /\ Len(s) \in Nat /\ N = Len(s) + 1 /\ 1 \in 1 .. N
      /\ \A p \in 1 .. N : Len(Both(p)) = 2 /\ Len(Rest(p)) = 1
  OBVIOUS
<1>3. length \in [1 .. N -> Nat] /\ Len(CutElements(s)) = length[1]
  <2>1. \A p \in 1 .. N : Len(cut[p]) \in Nat
    <3>. HIDE DEF N
    <3>. QED  BY LenProperties
  <2>. HIDE DEF N, Both, Rest, Ends
  <2>. QED  BY <1>1, <1>2, <2>1
<1>4. ASSUME NEW p \in 1 .. N
      PROVE  LET r == Closing(s, p)
             IN  /\ r = 0 => length[p] = 1
                 /\ r # 0 /\ r = Len(s) => length[p] = 2
                 /\ r # 0 /\ r # Len(s) => length[p] = 2 \/ length[p] = 2 + length[r + 1]
  <2>. DEFINE r == Closing(s, p)
  <2>1. length[p] = Len(cut[p]) /\ (r = Len(s) => Ends(p))
    OBVIOUS
  <2>. HIDE DEF Both, Rest, Ends
  <2>2. r = 0 => length[p] = 1
    BY <1>1, <1>2, <2>1
  <2>3. r # 0 /\ Ends(p) => length[p] = 2
    BY <1>1, <1>2, <2>1
  <2>4. ASSUME r # 0, r # Len(s), ~Ends(p) PROVE length[p] = 2 + length[r + 1]
    <3>1. r + 1 \in 1 .. N
      <4>1. r \in Nat /\ r <= Len(s)
        BY <2>4, Properties
      <4>. HIDE DEF r
      <4>. QED  BY <1>2, <4>1
    <3>2. cut[p] = Both(p) \o cut[r + 1] /\ Both(p) \in Seq(E) /\ Len(Both(p)) = 2
      BY <1>1, <1>2, <2>4
    <3>. DEFINE x == Both(p)
                y == cut[r + 1]
    <3>3. x \in Seq(E) /\ y \in Seq(E) /\ length[r + 1] = Len(y)
      <4>. HIDE DEF N, r
      <4>. QED  BY <3>1, <3>2
    <3>. HIDE DEF x, y
    <3>4. Len(x \o y) = Len(x) + Len(y)
      BY ONLY <3>3, ConcatProperties
    <3>. HIDE DEF length
    <3>. QED  BY <2>1, <3>2, <3>3, <3>4 DEF x, y
  <2>. HIDE DEF length
  <2>. QED  BY <2>1, <2>2, <2>3, <2>4
<1>. HIDE DEF length
<1>. QED  BY <1>3, <1>4

(* The first pass may see properties the second does not, as it goes on    *)
(* from the closing dollar itself, but none less: while it is not behind   *)
(* where the second finds its next property, its count is enough.          *)
LEMMA CountEnough ==
    ASSUME NEW T, NEW s \in Seq(T)
    PROVE  Len(CutElements(s)) <= CountElements(s) + 1
<1>. DEFINE n == Len(s)
            N == Len(s) + 1
            Before(p, l) == Closing(s, l) = 0 \/ p <= Opening(s, l)
<1>1. PICK count \in [1 .. N -> Nat] :
          /\ CountElements(s) = count[1]
          /\ \A p \in 1 .. N :
                LET r == Closing(s, p)
                IN  /\ r # 0 /\ r = n => count[p] = 1
                    /\ r # 0 /\ r # n => count[p] = 2 + count[r]
  BY Counting
<1>2. PICK length \in [1 .. N -> Nat] :
          /\ Len(CutElements(s)) = length[1]
          /\ \A p \in 1 .. N :
                LET r == Closing(s, p)
                IN  /\ r = 0 => length[p] = 1
                    /\ r # 0 /\ r = n => length[p] = 2
                    /\ r # 0 /\ r # n => length[p] = 2 \/ length[p] = 2 + length[r + 1]
  BY Cutting
<1>. DEFINE G == {k \in Nat : \A p, l \in 1 .. N :
                     (N - p) + (N - l) < k /\ Before(p, l) => length[l] <= count[p] + 1}
<1>3. n \in Nat /\ N \in Nat /\ N = n + 1
  OBVIOUS
<1>4. ASSUME NEW p \in 1 .. N
      PROVE  /\ Opening(s, p) \in Nat /\ Closing(s, p) \in Nat
             /\ Opening(s, p) # 0 => Opening(s, p) \in p .. n - 2
             /\ Closing(s, p) # 0 => Opening(s, p) # 0 /\ Closing(s, p) \in Opening(s, p) + 1 .. n
  BY Properties
<1>5. 0 \in G
  <2>1. \A p, l \in 1 .. N : ~((N - p) + (N - l) < 0)
    <3>. HIDE DEF N
    <3>. QED  BY <1>3
  <2>. QED  BY <2>1
<1>6. ASSUME NEW k \in Nat, k \in G PROVE k + 1 \in G
  <2>1. SUFFICES ASSUME NEW p \in 1 .. N, NEW l \in 1 .. N,
                        (N - p) + (N - l) < k + 1, Before(p, l)
                 PROVE  length[l] <= count[p] + 1
    OBVIOUS
  <2>. DEFINE r == Closing(s, p)
              c == Closing(s, l)
              o == Opening(s, l)
  <2>2. ASSUME NEW i \in 1 .. N, NEW j \in 1 .. N, (N - i) + (N - j) < k, Before(i, j)
        PROVE  length[j] <= count[i] + 1
    BY <1>6, <2>2
  <2>3. count[p] \in Nat /\ length[l] \in Nat
    OBVIOUS
  <2>4. CASE c = 0
    <3>1. length[l] = 1
      BY <1>2, <2>4
    <3>. HIDE DEF N
    <3>. QED  BY <2>3, <3>1
  <2>5. CASE c # 0
    <3>1. /\ p <= o /\ o \in l .. n - 2 /\ o # 0 /\ o \in Nat
          /\ c \in o + 1 .. n
      <4>1. p <= o
        BY <2>1, <2>5
      <4>2. /\ o \in Nat /\ (o # 0 => o \in l .. n - 2)
            /\ c # 0 => o # 0 /\ c \in o + 1 .. n
        BY <1>4
      <4>. HIDE DEF o, c, n
      <4>. QED  BY <2>5, <4>1, <4>2
    <3>2. r = c \/ (r # 0 /\ r <= o)
      BY <2>5, <3>1, EarlierProperty
    <3>3. /\ r \in Nat
          /\ r # 0 => r \in p + 1 .. n
      <4>. DEFINE q == Opening(s, p)
      <4>1. /\ q \in Nat /\ r \in Nat /\ (q # 0 => q \in p .. n - 2)
            /\ r # 0 => q # 0 /\ r \in q + 1 .. n
        BY <1>4
      <4>. HIDE DEF q, r, n
      <4>. QED  BY <1>3, <4>1
    <3>4. /\ r # 0 /\ r = n => count[p] = 1
          /\ r # 0 /\ r # n => count[p] = 2 + count[r]
      BY <1>1
    <3>5. /\ c = n => length[l] = 2
          /\ c # n => length[l] = 2 \/ length[l] = 2 + length[c + 1]
      BY <1>2, <2>5
    <3>6. CASE r = c /\ r = n
      <4>1. count[p] = 1 /\ length[l] = 2
        BY <2>5, <3>4, <3>5, <3>6
      <4>. QED  BY <4>1
    <3>7. CASE r = c /\ r # n
      <4>1. r \in 1 .. N /\ r + 1 \in 1 .. N /\ (N - r) + (N - (r + 1)) < k
        <5>1. r \in o + 1 .. n /\ r # n /\ r \in p + 1 .. n
          BY <2>5, <3>1, <3>3, <3>7
        <5>. HIDE DEF r, o, c, n, N
        <5>. QED  BY <1>3, <2>1, <3>1, <5>1
      <4>2. Before(r, r + 1)
        <5>1. SUFFICES ASSUME Closing(s, r + 1) # 0 PROVE r <= Opening(s, r + 1)
          OBVIOUS
        <5>. DEFINE f == Opening(s, r + 1)
        <5>2. f \in Nat /\ f # 0 /\ f \in r + 1 .. n - 2
          BY <1>4, <4>1, <5>1
        <5>. HIDE DEF f, r, n
        <5>3. r <= f
          BY <1>3, <3>3, <5>2
        <5>. QED  BY <5>3 DEF f
      <4>3. length[r + 1] <= count[r] + 1
        <5>. HIDE DEF r, Before, N
        <5>. QED  BY <2>2, <4>1, <4>2
      <4>4. /\ count[p] = 2 + count[r]
            /\ length[l] = 2 \/ length[l] = 2 + length[r + 1]
        BY <2>5, <3>4, <3>5, <3>7
      <4>5. count[r] \in Nat /\ length[r + 1] \in Nat
        BY <4>1
      <4>. HIDE DEF r, N
      <4>6. CASE length[l] = 2
        <5>1. \A a, b, d : b \in Nat /\ a = 2 + b /\ d = 2 => d <= a + 1
          OBVIOUS
        <5>. QED  BY ONLY <4>4, <4>5, <4>6, <5>1, Zenon
      <4>7. CASE length[l] = 2 + length[r + 1]
        <5>1. \A a, b, e, d :
                  b \in Nat /\ e \in Nat /\ e <= b + 1 /\ a = 2 + b /\ d = 2 + e => d <= a + 1
          OBVIOUS
        <5>. QED  BY ONLY <4>3, <4>4, <4>5, <4>7, <5>1, Zenon
      <4>. QED  BY <4>4, <4>6, <4>7
    <3>8. CASE r # 0 /\ r <= o
      <4>1. r \in 1 .. N /\ r # n /\ (N - r) + (N - l) < k
        <5>1. /\ r \in Nat /\ o \in Nat /\ n \in Nat /\ N = n + 1
              /\ p \in Nat /\ l \in Nat /\ p >= 1
          BY <1>3, <3>1, <3>3
        <5>. HIDE DEF r, o, c, n, N
        <5>2. r >= p + 1 /\ r <= n - 2
          BY <3>1, <3>3, <3>8, <5>1
        <5>3. (N - r) + (N - l) < k
          BY <2>1, <5>1, <5>2
        <5>. QED  BY <5>1, <5>2, <5>3
      <4>2. Before(r, l)
        BY <3>8
      <4>3. length[l] <= count[r] + 1
        <5>. HIDE DEF r, Before, N
        <5>. QED  BY <2>2, <4>1, <4>2
      <4>4. count[p] = 2 + count[r]
        BY <3>4, <3>8, <4>1
      <4>5. count[r] \in Nat
        BY <4>1
      <4>6. \A a, b, d : b \in Nat /\ d \in Nat /\ d <= b + 1 /\ a = 2 + b => d <= a + 1
        OBVIOUS
      <4>. HIDE DEF r, N
      <4>. QED  BY ONLY <2>3, <4>3, <4>4, <4>5, <4>6, Zenon
    <3>. QED  BY <3>2, <3>6, <3>7, <3>8
  <2>. QED  BY <2>4, <2>5
<1>7. Nat \subseteq G
  <2>. HIDE DEF G
  <2>. QED  BY <1>5, <1>6, AllNumbers
<1>8. 1 \in 1 .. N /\ N + N \in Nat /\ (N - 1) + (N - 1) < N + N
  <2>. HIDE DEF N
  <2>. QED  BY <1>3
<1>9. Before(1, 1)
  <2>1. Closing(s, 1) # 0 => Opening(s, 1) # 0 /\ Opening(s, 1) \in Nat
    BY <1>4, <1>8
  <2>. QED  BY <2>1
<1>10. length[1] <= count[1] + 1
  <2>. HIDE DEF N, Before
  <2>. QED  BY <1>7, <1>8, <1>9
<1>. QED  BY <1>1, <1>2, <1>10

-----------------------------------------------------------------------------
(* Parts of a text, and texts put together.                                *)

LEMMA PartType ==
    ASSUME NEW T, NEW s \in Seq(T), NEW i \in Nat \ {0}, NEW k \in Nat, k <= Len(s)
    PROVE  /\ SubSeq(s, i, k) \in Seq(T)
           /\ Len(SubSeq(s, i, k)) = IF i <= k THEN (k - i) + 1 ELSE 0
           /\ \A m \in 1 .. (k - i) + 1 : SubSeq(s, i, k)[m] = s[(i + m) - 1]
<1>1. i \in Int /\ k \in Int /\ \A m \in i .. k : s[m] \in T
  OBVIOUS
<1>2. /\ SubSeq(s, i, k) \in Seq(T)
      /\ Len(SubSeq(s, i, k)) = IF i <= k THEN k - i + 1 ELSE 0
      /\ \A m \in 1 .. k - i + 1 : SubSeq(s, i, k)[m] = s[i + m - 1]
  BY ONLY <1>1, SubSeqProperties
<1>. QED  BY <1>2

LEMMA PartOne ==
    ASSUME NEW T, NEW s \in Seq(T), NEW i \in 1 .. Len(s)
    PROVE  SubSeq(s, i, i) = <<s[i]>>
<1>. DEFINE one == SubSeq(s, i, i)
<1>1. i \in Nat \ {0} /\ i <= Len(s) /\ Len(s) \in Nat
  OBVIOUS
<1>2. /\ one \in Seq(T) /\ Len(one) = IF i <= i THEN (i - i) + 1 ELSE 0
      /\ \A m \in 1 .. (i - i) + 1 : one[m] = s[(i + m) - 1]
  BY <1>1, PartType
<1>3. (i - i) + 1 = 1 /\ (i + 1) - 1 = i /\ i <= i /\ 1 \in 1 .. 1
  BY <1>1
<1>4. one \in Seq(T) /\ Len(one) = 1 /\ one[1] = s[i]
  BY <1>2, <1>3
<1>. HIDE DEF one
<1>5. one = <<s[i]>>
  BY <1>4
<1>. QED  BY <1>5 DEF one

(* Two parts next to each other are one part.                              *)
LEMMA PartsJoin ==
    ASSUME NEW T, NEW s \in Seq(T), NEW i \in Nat \ {0}, NEW j \in Nat, NEW k \in Nat,
           i <= j + 1, j <= k, k <= Len(s)
    PROVE  SubSeq(s, i, j) \o SubSeq(s, j + 1, k) = SubSeq(s, i, k)
<1>. DEFINE a == SubSeq(s, i, j)
            b == SubSeq(s, j + 1, k)
            c == SubSeq(s, i, k)
<1>0. Len(s) \in Nat /\ j + 1 \in Nat \ {0} /\ j <= Len(s)
  OBVIOUS
<1>1. /\ a \in Seq(T) /\ Len(a) = IF i <= j THEN (j - i) + 1 ELSE 0
      /\ \A m \in 1 .. (j - i) + 1 : a[m] = s[(i + m) - 1]
  BY <1>0, PartType
<1>2. /\ b \in Seq(T) /\ Len(b) = IF j + 1 <= k THEN (k - (j + 1)) + 1 ELSE 0
      /\ \A m \in 1 .. (k - (j + 1)) + 1 : b[m] = s[((j + 1) + m) - 1]
  BY <1>0, PartType
<1>3. /\ c \in Seq(T) /\ Len(c) = IF i <= k THEN (k - i) + 1 ELSE 0
      /\ \A m \in 1 .. (k - i) + 1 : c[m] = s[(i + m) - 1]
  BY <1>0, PartType
<1>. HIDE DEF a, b, c
<1>4. Len(a) = (j - i) + 1 /\ Len(b) = k - j /\ Len(c) = (k - i) + 1
  BY <1>0, <1>1, <1>2, <1>3, SMTT(30)
<1>5. /\ a \o b \in Seq(T) /\ Len(a \o b) = Len(a) + Len(b)
      /\ \A m \in 1 .. Len(a) + Len(b) :
            (a \o b)[m] = IF m <= Len(a) THEN a[m] ELSE b[m - Len(a)]
  BY ONLY <1>1, <1>2, ConcatProperties
<1>6. Len(a \o b) = Len(c)
  BY <1>0, <1>4, <1>5
<1>7. ASSUME NEW m \in 1 .. Len(c) PROVE (a \o b)[m] = c[m]
  <2>1. c[m] = s[(i + m) - 1] /\ m \in Nat /\ m \in 1 .. Len(a) + Len(b)
    <3>1. m \in 1 .. (k - i) + 1 /\ m \in Nat /\ m \in 1 .. Len(a) + Len(b)
      BY <1>4, <1>5, <1>6, <1>7
    <3>. QED  BY <1>3, <3>1
  <2>2. CASE m <= Len(a)
    <3>1. m \in 1 .. (j - i) + 1
      BY <1>4, <2>1, <2>2
    <3>. QED  BY <1>1, <1>5, <2>1, <2>2, <3>1
  <2>3. CASE m > Len(a)
    <3>1. m - Len(a) \in 1 .. (k - (j + 1)) + 1 /\ ((j + 1) + (m - Len(a))) - 1 = (i + m) - 1
          /\ ~(m <= Len(a))
      BY <1>0, <1>4, <1>7, <2>1, <2>3
    <3>2. b[m - Len(a)] = s[((j + 1) + (m - Len(a))) - 1]
      BY <1>2, <3>1
    <3>. QED  BY <1>5, <2>1, <3>1, <3>2
  <2>4. m <= Len(a) \/ m > Len(a)
    BY <1>4, <2>1
  <2>. QED  BY <2>2, <2>3, <2>4
<1>8. a \o b = c
  <2>. DEFINE ab == a \o b
  <2>1. ab \in Seq(T) /\ Len(ab) = Len(c) /\ \A m \in 1 .. Len(c) : ab[m] = c[m]
    BY <1>5, <1>6, <1>7
  <2>. HIDE DEF ab
  <2>2. ab = c
    BY <1>3, <2>1, SeqEqual
  <2>. QED  BY <2>2 DEF ab
<1>. QED  BY <1>8 DEF a, b, c

(* A beginning of a text and the token after it.                           *)
LEMMA PartGrows ==
    ASSUME NEW T, NEW s \in Seq(T), NEW n \in Nat, n + 1 <= Len(s)
    PROVE  /\ SubSeq(s, 1, n) \in Seq(T) /\ s[n + 1] \in T
           /\ SubSeq(s, 1, n + 1) = SubSeq(s, 1, n) \o <<s[n + 1]>>
<1>. DEFINE N == Len(s)
<1>1. N \in Nat
  BY LenProperties
<1>2. 1 \in 1 .. N /\ n + 1 \in 1 .. N /\ n + 1 \in 1 .. Len(s) /\ (n + 1) - 1 = n /\ n <= N /\ 1 \in Nat \ {0}
  <2>1. n + 1 <= N
    OBVIOUS
  <2>. HIDE DEF N
  <2>2. 1 \in 1 .. N /\ n + 1 \in 1 .. N /\ (n + 1) - 1 = n /\ n <= N
    BY <1>1, <2>1
  <2>. QED  BY <2>2 DEF N
<1>3. n + 1 \in 1 .. Len(s) /\ 1 \in 1 .. Len(s) /\ n + 1 \in 1 .. Len(s)
  BY <1>2
<1>4. SubSeq(s, 1, n + 1) = SubSeq(s, 1, (n + 1) - 1) \o <<s[n + 1]>>
  <2>1. n + 1 \in 1 .. Len(s)
    BY <1>3
  <2>. QED  BY <1>3, <2>1, SubSeqRecursiveSecond
<1>5. SubSeq(s, 1, n) \in Seq(T)
  BY <1>2, PartType
<1>6. s[n + 1] \in T
  BY <1>3, ElementOfSeq
<1>. QED  BY <1>2, <1>4, <1>5, <1>6

-----------------------------------------------------------------------------
(* Flattening puts one sequence after the other.                           *)
LEMMA FlattenWalk ==
    ASSUME NEW S, NEW seqs \in Seq(Seq(S))
    PROVE  \E f \in [0 .. Len(seqs) -> Seq(S)] :
              /\ f[0] = <<>>
              /\ \A i \in 1 .. Len(seqs) : f[i] = f[i - 1] \o seqs[i]
              /\ FlattenSeq(seqs) = f[Len(seqs)]
<1>. DEFINE N == Len(seqs)
            R == Seq(S)
            turn == [i \in 1 .. N |-> [v \in R |-> v \o seqs[i]]]
            Loop(g) == [i \in 1 .. Len(seqs) |-> IF i = 1 THEN seqs[i] ELSE g[i - 1] \o seqs[i]]
            flatten == CHOOSE g : g = Loop(g)
<1>1. N \in Nat /\ \A i \in 1 .. N : seqs[i] \in R
  OBVIOUS
<1>2. CASE N = 0
  <2>. DEFINE f == [i \in 0 .. N |-> <<>>]
  <2>1. <<>> \in Seq(S) /\ FlattenSeq(seqs) = <<>>
    BY <1>2 DEF FlattenSeq
  <2>2. f \in [0 .. N -> R] /\ f[0] = <<>> /\ f[N] = <<>> /\ 1 .. N = {}
    <3>1. f \in [0 .. N -> R]
      BY <2>1
    <3>. QED  BY <1>2, <3>1
  <2>. HIDE DEF f
  <2>. QED  BY <2>1, <2>2
<1>3. CASE N # 0
  <2>1. ASSUME NEW v \in R, NEW i \in 1 .. N PROVE v \o seqs[i] \in R
    <3>1. v \in Seq(S) /\ seqs[i] \in Seq(S)
      BY <1>1
    <3>. QED  BY ONLY <3>1, ConcatProperties
  <2>2. turn \in [1 .. N -> [R -> R]] /\ <<>> \in R
    BY <2>1
  <2>3. ASSUME NEW g
        PROVE  /\ Loop(g) = [i \in 1 .. N |-> Loop(g)[i]]
               /\ \A i \in 1 .. N :
                     Loop(g)[i] = IF i = 1 THEN seqs[i] ELSE g[i - 1] \o seqs[i]
    OBVIOUS
  <2>. HIDE DEF Loop
  <2>4. PICK h : IsLoop(h, N, R, <<>>, turn)
    <3>. HIDE DEF R, N, turn
    <3>. QED  BY <1>1, <2>2, LoopExists
  <2>5. ASSUME NEW i \in 1 .. N PROVE h[i] = h[i - 1] \o seqs[i] /\ h[i - 1] \in R
    <3>1. i - 1 \in 0 .. N
      <4>. HIDE DEF N
      <4>. QED  BY <1>1
    <3>. HIDE DEF R, N
    <3>. QED  BY <1>1, <2>4, <3>1 DEF IsLoop
  <2>6. h[0] = <<>> /\ h \in [0 .. N -> R]
    BY <2>4 DEF IsLoop
  <2>7. \E g : g = Loop(g)
    <3>. DEFINE g == [i \in 1 .. N |-> h[i]]
    <3>1. h[1] = seqs[1]
      <4>1. 1 \in 1 .. N /\ 1 - 1 = 0
        <5>. HIDE DEF N
        <5>. QED  BY <1>1, <1>3
      <4>2. h[1] = h[0] \o seqs[1] /\ seqs[1] \in Seq(S)
        <5>. HIDE DEF N
        <5>. QED  BY <1>1, <2>5, <4>1
      <4>. QED  BY <2>6, <4>2, ConcatEmptySeq
    <3>2. \A i \in 1 .. N : g[i] = IF i = 1 THEN seqs[i] ELSE g[i - 1] \o seqs[i]
      <4>1. SUFFICES ASSUME NEW i \in 1 .. N
                     PROVE  g[i] = IF i = 1 THEN seqs[i] ELSE g[i - 1] \o seqs[i]
        OBVIOUS
      <4>2. i # 1 => i - 1 \in 1 .. N
        <5>. HIDE DEF N
        <5>. QED  BY <1>1
      <4>. HIDE DEF N
      <4>. QED  BY <2>5, <3>1, <4>2
    <3>3. g = [i \in 1 .. N |-> g[i]]
      OBVIOUS
    <3>4. Loop(g) = [i \in 1 .. N |-> Loop(g)[i]]
      BY <2>3
    <3>. HIDE DEF g, N
    <3>5. \A i \in 1 .. N : g[i] = Loop(g)[i]
      BY <2>3, <3>2
    <3>. QED  BY <3>3, <3>4, <3>5
  <2>8. flatten = Loop(flatten)
    BY <2>7
  <2>9. FlattenSeq(seqs) = flatten[N]
    BY <1>3 DEF FlattenSeq, flatten, Loop
  <2>. HIDE DEF flatten
  <2>. DEFINE G == {k \in Nat : k \in 1 .. N => flatten[k] = h[k]}
  <2>10. 0 \in G
    OBVIOUS
  <2>11. ASSUME NEW k \in Nat, k \in G PROVE k + 1 \in G
    <3>1. SUFFICES ASSUME k + 1 \in 1 .. N PROVE flatten[k + 1] = h[k + 1]
      OBVIOUS
    <3>2. flatten[k + 1] = IF k + 1 = 1 THEN seqs[k + 1] ELSE flatten[(k + 1) - 1] \o seqs[k + 1]
      <4>. HIDE DEF N
      <4>. QED  BY <2>3, <2>8, <3>1
    <3>3. h[k + 1] = h[(k + 1) - 1] \o seqs[k + 1]
      <4>. HIDE DEF N
      <4>. QED  BY <2>5, <3>1
    <3>4. CASE k = 0
      <4>1. (k + 1) - 1 = 0 /\ k + 1 = 1 /\ seqs[k + 1] \in Seq(S)
        <5>. HIDE DEF N
        <5>. QED  BY <1>1, <3>1, <3>4
      <4>. QED  BY <2>6, <3>2, <3>3, <4>1, ConcatEmptySeq
    <3>5. CASE k # 0
      <4>1. k \in 1 .. N /\ (k + 1) - 1 = k /\ k + 1 # 1
        <5>. HIDE DEF N
        <5>. QED  BY <1>1, <3>1, <3>5
      <4>2. flatten[k] = h[k]
        BY <2>11, <4>1
      <4>. HIDE DEF N
      <4>. QED  BY <3>2, <3>3, <4>1, <4>2
    <3>. QED  BY <3>4, <3>5
  <2>12. N \in G
    <3>. HIDE DEF G
    <3>. QED  BY <1>1, <2>10, <2>11, AllNumbers
  <2>13. flatten[N] = h[N]
    <3>1. N \in 1 .. N
      <4>. HIDE DEF N
      <4>. QED  BY <1>1, <1>3
    <3>. QED  BY <2>12, <3>1
  <2>. HIDE DEF R
  <2>. QED  BY <2>5, <2>6, <2>9, <2>13 DEF R
<1>. QED  BY <1>2, <1>3

LEMMA FlattenType ==
    ASSUME NEW S, NEW seqs \in Seq(Seq(S))
    PROVE  FlattenSeq(seqs) \in Seq(S)
<1>1. PICK f \in [0 .. Len(seqs) -> Seq(S)] : FlattenSeq(seqs) = f[Len(seqs)]
  BY FlattenWalk
<1>2. Len(seqs) \in 0 .. Len(seqs)
  BY LenProperties
<1>. QED  BY <1>1, <1>2

LEMMA FlattenOne ==
    ASSUME NEW S, NEW x \in Seq(S)
    PROVE  FlattenSeq(<<x>>) = x
<1>1. <<x>> \in Seq(Seq(S)) /\ Len(<<x>>) = 1 /\ <<x>>[1] = x
  OBVIOUS
<1>2. PICK f \in [0 .. 1 -> Seq(S)] :
         /\ f[0] = <<>>
         /\ \A i \in 1 .. 1 : f[i] = f[i - 1] \o <<x>>[i]
         /\ FlattenSeq(<<x>>) = f[1]
  <2>1. \E f \in [0 .. Len(<<x>>) -> Seq(S)] :
         /\ f[0] = <<>>
         /\ \A i \in 1 .. Len(<<x>>) : f[i] = f[i - 1] \o <<x>>[i]
         /\ FlattenSeq(<<x>>) = f[Len(<<x>>)]
    BY ONLY <1>1, FlattenWalk
  <2>. QED  BY <1>1, <2>1
<1>3. f[1] = f[1 - 1] \o <<x>>[1] /\ 1 - 1 = 0
  BY <1>2
<1>4. f[1] = <<>> \o x
  BY <1>1, <1>2, <1>3
<1>. QED  BY <1>2, <1>4, ConcatEmptySeq

LEMMA FlattenJoin ==
    ASSUME NEW S, NEW a \in Seq(Seq(S)), NEW b \in Seq(Seq(S))
    PROVE  FlattenSeq(a \o b) = FlattenSeq(a) \o FlattenSeq(b)
<1>. DEFINE ab == a \o b
            A == Len(a)
            B == Len(b)
<1>1. /\ A \in Nat /\ B \in Nat /\ ab \in Seq(Seq(S)) /\ Len(ab) = A + B
      /\ \A i \in 1 .. A + B : ab[i] = IF i <= A THEN a[i] ELSE b[i - A]
  BY LenProperties, ConcatProperties
<1>2. PICK f \in [0 .. A -> Seq(S)] :
         /\ f[0] = <<>> /\ (\A i \in 1 .. A : f[i] = f[i - 1] \o a[i])
         /\ FlattenSeq(a) = f[A]
  BY FlattenWalk
<1>3. PICK g \in [0 .. B -> Seq(S)] :
         /\ g[0] = <<>> /\ (\A i \in 1 .. B : g[i] = g[i - 1] \o b[i])
         /\ FlattenSeq(b) = g[B]
  BY FlattenWalk
<1>. HIDE DEF ab
<1>4. PICK h \in [0 .. A + B -> Seq(S)] :
         /\ h[0] = <<>> /\ (\A i \in 1 .. A + B : h[i] = h[i - 1] \o ab[i])
         /\ FlattenSeq(ab) = h[A + B]
  <2>1. \E h \in [0 .. Len(ab) -> Seq(S)] :
         /\ h[0] = <<>> /\ (\A i \in 1 .. Len(ab) : h[i] = h[i - 1] \o ab[i])
         /\ FlattenSeq(ab) = h[Len(ab)]
    BY <1>1, FlattenWalk
  <2>. HIDE DEF A, B
  <2>. QED  BY <1>1, <2>1
<1>5. \A i \in 1 .. B : b[i] \in Seq(S)
  OBVIOUS
<1>. HIDE DEF A, B
<1>. DEFINE G == {n \in Nat : n <= A => h[n] = f[n]}
            Joined(n) == h[A + n] = f[A] \o g[n]
            H == {n \in Nat : n <= B => Joined(n)}
<1>6. A \in G
  <2>1. 0 \in G
    BY <1>2, <1>4
  <2>2. ASSUME NEW n \in Nat, n \in G PROVE n + 1 \in G
    <3>1. SUFFICES ASSUME n + 1 <= A PROVE h[n + 1] = f[n + 1]
      OBVIOUS
    <3>2. /\ n + 1 \in 1 .. A /\ n + 1 \in 1 .. A + B /\ (n + 1) - 1 = n /\ n <= A
      BY <1>1, <3>1
    <3>3. h[n] = f[n] /\ ab[n + 1] = a[n + 1]
      BY <1>1, <2>2, <3>1, <3>2
    <3>4. h[n + 1] = h[n] \o ab[n + 1] /\ f[n + 1] = f[n] \o a[n + 1]
      BY <1>2, <1>4, <3>2
    <3>. QED  BY <3>3, <3>4
  <2>. HIDE DEF G
  <2>. QED  BY <1>1, <2>1, <2>2, AllNumbers
<1>7. h[A] = f[A] /\ f[A] \in Seq(S)
  BY <1>1, <1>2, <1>6
<1>8. B \in H
  <2>1. 0 \in H
    <3>1. A + 0 = A /\ f[A] \o <<>> = f[A]
      BY <1>1, <1>7, ConcatEmptySeq
    <3>. QED  BY <1>3, <1>7, <3>1
  <2>2. ASSUME NEW n \in Nat, n \in H PROVE n + 1 \in H
    <3>1. SUFFICES ASSUME n + 1 <= B PROVE Joined(n + 1)
      <4>. HIDE DEF Joined
      <4>. QED  OBVIOUS
    <3>2. /\ n + 1 \in 1 .. B /\ A + (n + 1) \in 1 .. A + B /\ (n + 1) - 1 = n /\ n <= B
          /\ (A + (n + 1)) - 1 = A + n /\ (A + (n + 1)) - A = n + 1
          /\ ~(A + (n + 1) <= A) /\ n \in 0 .. B
      <4>1. A \in Nat /\ B \in Nat /\ n \in Nat
        BY <1>1
      <4>. QED  BY ONLY <3>1, <4>1
    <3>3. h[A + n] = f[A] \o g[n] /\ ab[A + (n + 1)] = b[n + 1]
      <4>1. Joined(n)
        BY <2>2, <3>2
      <4>. QED  BY <1>1, <3>2, <4>1
    <3>4. h[A + (n + 1)] = h[A + n] \o ab[A + (n + 1)] /\ g[n + 1] = g[n] \o b[n + 1]
      BY <1>3, <1>4, <3>2
    <3>5. g[n] \in Seq(S) /\ b[n + 1] \in Seq(S)
      BY <1>3, <1>5, <3>2
    <3>6. (f[A] \o g[n]) \o b[n + 1] = f[A] \o (g[n] \o b[n + 1])
      <4>. DEFINE x == f[A]
                  y == g[n]
                  z == b[n + 1]
      <4>1. x \in Seq(S) /\ y \in Seq(S) /\ z \in Seq(S)
        BY <1>7, <3>5
      <4>. HIDE DEF x, y, z
      <4>2. (x \o y) \o z = x \o (y \o z)
        BY ONLY <4>1, ConcatAssociative, SMTT(30)
      <4>. QED  BY <4>2 DEF x, y, z
    <3>. QED  BY <3>3, <3>4, <3>6
  <2>. HIDE DEF H
  <2>. QED  BY <1>1, <2>1, <2>2, AllNumbers
<1>9. h[A + B] = f[A] \o g[B]
  BY <1>1, <1>8, SMTT(30)
<1>. QED  BY <1>2, <1>3, <1>4, <1>9 DEF ab

-----------------------------------------------------------------------------
(* A property name, put together from its pieces.                          *)

LEMMA HalPatterns ==
    /\ Len(HalPrefix) = 2 /\ HalPrefix[1] = "hal" /\ HalPrefix[2] = "."
    /\ Len(HalSubstring) = 3 /\ HalSubstring[1] = "."
BY DEF HalPrefix, HalSubstring

LEMMA HalWhole ==
    ASSUME NEW T, {"hal", "."} \subseteq T, NEW s \in Seq(T), HalString(s) # NoText
    PROVE  /\ HalPrefix \o HalString(s) = s /\ HalString(s) \in Seq(T)
           /\ HalPrefix \in Seq(T) /\ Len(s) > 2
<1>0. Len(s) \in Nat
  OBVIOUS
<1>1. IsPrefix(HalPrefix, s) /\ Len(s) > 2 /\ HalString(s) = SubSeq(s, 3, Len(s))
  BY HalPatterns DEF HalString
<1>2. HalPrefix \in Seq(T)
  BY DEF HalPrefix
<1>3. HalPrefix = SubSeq(s, 1, 2)
  <2>1. SubSeq(HalPrefix, 1, Len(HalPrefix)) = SubSeq(s, 1, Len(HalPrefix))
    BY <1>1 DEF IsPrefix
  <2>2. SubSeq(HalPrefix, 1, Len(HalPrefix)) = HalPrefix
    BY <1>2, SubSeqFull
  <2>. QED  BY <2>1, <2>2, HalPatterns
<1>4. SubSeq(s, 1, 2) \o SubSeq(s, 2 + 1, Len(s)) = SubSeq(s, 1, Len(s))
  <2>1. 1 \in Nat \ {0} /\ 2 \in Nat /\ 1 <= 2 + 1 /\ 2 <= Len(s) /\ Len(s) <= Len(s)
    BY <1>0, <1>1
  <2>. QED  BY <1>0, <2>1, PartsJoin
<1>5. SubSeq(s, 3, Len(s)) \in Seq(T)
  <2>1. 3 \in Nat \ {0} /\ Len(s) <= Len(s)
    BY <1>0
  <2>. QED  BY <1>0, <2>1, PartType
<1>6. SubSeq(s, 1, Len(s)) = s
  BY SubSeqFull
<1>. QED  BY <1>1, <1>2, <1>3, <1>4, <1>5, <1>6

(* Where a pattern occurs its first token is.                              *)
LEMMA Occurring ==
    ASSUME NEW T, NEW s \in Seq(T), NEW pat, Len(pat) \in Nat \ {0}, NEW p \in Nat \ {0},
           NEW i \in Occurrences(s, pat, p)
    PROVE  /\ i \in Nat \ {0} /\ p <= i /\ i + Len(pat) - 1 <= Len(s)
           /\ s[i] = pat[1]
<1>. DEFINE L == Len(pat)
            e == i + L - 1
<1>1. /\ Len(s) \in Nat /\ i \in p .. (Len(s) - L + 1) /\ SubSeq(s, i, e) = pat
  BY DEF Occurrences
<1>. HIDE DEF L
<1>2. /\ i \in Nat \ {0} /\ p <= i /\ e \in Nat /\ e <= Len(s) /\ i <= e
      /\ L \in Nat \ {0}
  BY <1>1 DEF L
<1>3. \A m \in 1 .. (e - i) + 1 : SubSeq(s, i, e)[m] = s[(i + m) - 1]
  <2>. HIDE DEF e
  <2>. QED  BY <1>1, <1>2, PartType
<1>4. 1 \in 1 .. (e - i) + 1 /\ (i + 1) - 1 = i
  BY <1>2
<1>5. pat[1] = s[i]
  <2>. HIDE DEF e
  <2>. QED  BY <1>1, <1>3, <1>4
<1>. QED  BY <1>1, <1>2, <1>5 DEF L, e

(* If a name is made of a text, the text is that of the name.              *)
LEMMA NameWhole ==
    ASSUME NEW T, {"hal", "."} \subseteq T, NEW s \in Seq(T), ParsePropertyName(s) # NoName
    PROVE  NameText(ParsePropertyName(s)) = s
<1>. DEFINE cuts == InOrder(Occurrences(s, HalSubstring, 1))
            n == Len(cuts)
            Part(j) == SubSeq(s, IF j = 1 THEN 1 ELSE cuts[j - 1] + 1,
                                 IF j > n THEN Len(s) ELSE cuts[j] - 1)
            pieces == [j \in 1 .. n + 1 |-> HalString(Part(j))]
            name == PropertyName(pieces)
            End(j) == IF j = 0 THEN 0 ELSE cuts[j]
<1>1. /\ n \in Nat /\ cuts \in Seq(1 .. Len(s)) /\ Len(s) \in Nat
      /\ \A j \in 1 .. n : cuts[j] \in 1 .. Len(s) /\ s[cuts[j]] = "."
  <2>. DEFINE P == Occurrences(s, HalSubstring, 1)
  <2>1. Len(HalSubstring) \in Nat \ {0} /\ 1 \in Nat \ {0} /\ Len(s) \in Nat
    BY HalPatterns
  <2>2. ASSUME NEW i \in P PROVE i \in 1 .. Len(s) /\ s[i] = "."
    <3>1. i \in Nat \ {0} /\ i + Len(HalSubstring) - 1 <= Len(s) /\ s[i] = HalSubstring[1]
      <4>. HIDE DEF P
      <4>. QED  BY <2>1, <2>2, Occurring DEF P
    <3>. HIDE DEF P
    <3>. QED  BY <2>1, <3>1, HalPatterns
  <2>. HIDE DEF P
  <2>3. P \in SUBSET (1 .. Len(s))
    BY <2>2
  <2>4. InOrder(P) \in Seq(1 .. Len(s)) /\ InOrder(P) \in Seq(P)
    BY <2>1, <2>3, InOrderType
  <2>. DEFINE o == InOrder(P)
  <2>. HIDE DEF o
  <2>5. /\ Len(o) \in Nat /\ o \in Seq(1 .. Len(s))
        /\ \A j \in 1 .. Len(o) : o[j] \in P /\ o[j] \in 1 .. Len(s) /\ s[o[j]] = "."
    BY <2>2, <2>4 DEF o
  <2>. QED  BY <2>1, <2>5 DEF o, P
<1>2. ParsePropertyName(s) = name /\ NoText \notin ToSet(pieces)
  <2>1. ParsePropertyName(s) = IF NoText \in ToSet(pieces) THEN NoName ELSE name
    BY DEF ParsePropertyName
  <2>. QED  BY <2>1
<1>. HIDE DEF cuts
<1>3. ASSUME NEW j \in 1 .. n + 1
      PROVE  pieces[j] = HalString(Part(j)) /\ pieces[j] # NoText
  <2>1. pieces[j] \in ToSet(pieces)
    BY DEF ToSet
  <2>. QED  BY <1>2, <2>1
<1>. HIDE DEF n
(* The parts, each with its prefix again.                                  *)
<1>4. ASSUME NEW j \in 1 .. n + 1, NEW k \in Nat, k = (IF j > n THEN Len(s) ELSE cuts[j] - 1)
      PROVE  /\ End(j - 1) \in Nat /\ End(j - 1) < k /\ k <= Len(s)
             /\ pieces[j] \in Seq(T) /\ HalPrefix \in Seq(T)
             /\ HalPrefix \o pieces[j] = SubSeq(s, End(j - 1) + 1, k)
  <2>1. End(j - 1) \in Nat /\ k <= Len(s) /\ Part(j) = SubSeq(s, End(j - 1) + 1, k)
    <3>1. CASE j = 1
      <4>1. j - 1 = 0 /\ 0 + 1 = 1
        BY <3>1
      <4>. QED  BY <1>1, <1>4, <3>1, <4>1
    <3>2. CASE j # 1
      <4>1. j - 1 \in 1 .. n /\ j - 1 # 0
        BY <1>1, <3>2
      <4>2. cuts[j - 1] \in 1 .. Len(s)
        BY <1>1, <4>1
      <4>3. ~(j > n) => j \in 1 .. n
        BY <1>1
      <4>4. End(j - 1) = cuts[j - 1] /\ k <= Len(s)
        BY <1>1, <1>4, <4>1, <4>3
      <4>5. Part(j) = SubSeq(s, cuts[j - 1] + 1, k)
        BY <1>4, <3>2 DEF Part
      <4>6. cuts[j - 1] \in Nat
        BY <4>2
      <4>. HIDE DEF End, Part
      <4>. QED  BY ONLY <4>4, <4>5, <4>6
    <3>. QED  BY <3>1, <3>2
  <2>. DEFINE b == End(j - 1) + 1
              part == Part(j)
  <2>2. b \in Nat \ {0} /\ part = SubSeq(s, b, k)
    <3>. HIDE DEF End, Part
    <3>. QED  BY <2>1
  <2>3. part \in Seq(T) /\ Len(part) = IF b <= k THEN (k - b) + 1 ELSE 0
    <3>. HIDE DEF b, part, Part
    <3>. QED  BY <2>1, <2>2, PartType
  <2>4. HalString(part) # NoText /\ pieces[j] = HalString(part)
    BY <1>3
  <2>. HIDE DEF part, pieces
  <2>5. HalPrefix \o HalString(part) = part /\ HalString(part) \in Seq(T)
        /\ HalPrefix \in Seq(T) /\ Len(part) > 2
    BY <2>3, <2>4, HalWhole
  <2>6. b <= k
    <3>. HIDE DEF b
    <3>. QED  BY <2>2, <2>3, <2>5
  <2>7. End(j - 1) < k
    <3>. HIDE DEF End
    <3>. QED  BY <2>1, <2>6
  <2>. QED  BY <2>1, <2>2, <2>4, <2>5, <2>7
<1>. HIDE DEF Part
<1>5. pieces \in Seq(Seq(T)) /\ Len(pieces) = n + 1
  <2>1. ASSUME NEW j \in 1 .. n + 1 PROVE pieces[j] \in Seq(T)
    <3>. DEFINE k == IF j > n THEN Len(s) ELSE cuts[j] - 1
    <3>1. k \in Nat
      <4>1. ~(j > n) => j \in 1 .. n
        BY <1>1
      <4>. QED  BY <1>1, <4>1
    <3>. HIDE DEF k, pieces, End
    <3>. QED  BY <1>4, <3>1 DEF k
  <2>2. pieces = [j \in 1 .. n + 1 |-> pieces[j]]
    OBVIOUS
  <2>3. n + 1 \in Nat
    BY <1>1
  <2>. HIDE DEF pieces
  <2>. QED  BY <2>1, <2>2, <2>3
<1>. HIDE DEF pieces
<1>. DEFINE parents == Front(pieces)
            seqs == [j \in DOMAIN parents |-> HalPrefix \o parents[j] \o <<".">>]
<1>6. /\ DOMAIN parents = 1 .. n /\ \A j \in 1 .. n : parents[j] = pieces[j]
      /\ Last(pieces) = pieces[n + 1]
  <2>1. 1 \in Nat \ {0} /\ n <= Len(pieces) /\ (n + 1) - 1 = n /\ Len(pieces) - 1 = n
        /\ (n - 1) + 1 = n /\ (1 <= n => Len(pieces) # 0) /\ n \in Nat
    BY <1>1, <1>5
  <2>2. /\ parents = SubSeq(pieces, 1, n) /\ Last(pieces) = pieces[n + 1]
    BY <1>5, <2>1 DEF Front, Last
  <2>3. /\ SubSeq(pieces, 1, n) \in Seq(Seq(T))
        /\ Len(SubSeq(pieces, 1, n)) = IF 1 <= n THEN n ELSE 0
        /\ \A m \in 1 .. n : SubSeq(pieces, 1, n)[m] = pieces[(1 + m) - 1]
    BY <1>5, <2>1, PartType
  <2>4. \A m \in 1 .. n : (1 + m) - 1 = m
    BY <2>1
  <2>5. (IF 1 <= n THEN n ELSE 0) = n
    BY <2>1
  <2>. HIDE DEF parents
  <2>6. parents \in Seq(Seq(T)) /\ Len(parents) = n
    BY <2>2, <2>3, <2>5
  <2>. QED  BY <2>2, <2>3, <2>4, <2>6, LenProperties
<1>7. ASSUME NEW j \in 1 .. n
      PROVE  /\ End(j) \in Nat /\ End(j) <= Len(s) /\ End(j - 1) \in Nat /\ End(j - 1) < End(j)
             /\ seqs[j] = SubSeq(s, End(j - 1) + 1, End(j)) /\ seqs[j] \in Seq(T)
  <2>. DEFINE k == cuts[j] - 1
  <2>1. /\ cuts[j] \in 1 .. Len(s) /\ s[cuts[j]] = "." /\ End(j) = cuts[j]
        /\ j \in 1 .. n + 1 /\ ~(j > n) /\ k \in Nat /\ cuts[j] = k + 1
    BY <1>1
  <2>2. /\ End(j - 1) \in Nat /\ End(j - 1) < k
        /\ HalPrefix \o pieces[j] = SubSeq(s, End(j - 1) + 1, k)
    <3>. HIDE DEF End, k
    <3>1. k = IF j > n THEN Len(s) ELSE cuts[j] - 1
      BY <2>1 DEF k
    <3>. QED  BY <1>4, <2>1, <3>1
  <2>3. seqs[j] = SubSeq(s, End(j - 1) + 1, k) \o <<".">>
    BY <1>6, <2>2
  <2>4. <<".">> = SubSeq(s, k + 1, k + 1)
    BY <2>1, PartOne
  <2>. DEFINE b == End(j - 1)
  <2>5. /\ b + 1 \in Nat \ {0} /\ b + 1 <= k + 1 /\ k <= k + 1 /\ k + 1 <= Len(s)
        /\ k + 1 \in Nat /\ b < k + 1
    <3>. HIDE DEF b, k
    <3>. QED  BY <1>1, <2>1, <2>2, SMTT(30) DEF b
  <2>. HIDE DEF b, k, seqs
  <2>6. SubSeq(s, b + 1, k) \o SubSeq(s, k + 1, k + 1) = SubSeq(s, b + 1, k + 1)
    BY <2>1, <2>5, PartsJoin
  <2>7. SubSeq(s, b + 1, k + 1) \in Seq(T)
    BY <2>5, PartType
  <2>. QED  BY <2>1, <2>2, <2>3, <2>4, <2>5, <2>6, <2>7 DEF b
<1>8. seqs = [j \in 1 .. n |-> seqs[j]]
  BY <1>6
<1>. HIDE DEF seqs
<1>9. seqs \in Seq(Seq(T)) /\ Len(seqs) = n
  <2>. HIDE DEF End
  <2>1. \A j \in 1 .. n : seqs[j] \in Seq(T)
    BY <1>7
  <2>2. n \in Nat
    BY <1>1
  <2>. QED  BY <1>8, <2>1, <2>2
<1>10. PICK f \in [0 .. n -> Seq(T)] :
          /\ f[0] = <<>> /\ (\A i \in 1 .. n : f[i] = f[i - 1] \o seqs[i])
          /\ FlattenSeq(seqs) = f[n]
  BY <1>9, FlattenWalk
<1>. DEFINE Upto(j) == f[j] = SubSeq(s, 1, End(j)) /\ End(j) \in Nat /\ End(j) <= Len(s)
            G == {j \in Nat : j <= n => Upto(j)}
<1>11. n \in G
  <2>1. 0 \in G
    <3>1. SubSeq(s, 1, 0) = <<>>
      BY SubSeqEmpty
    <3>. QED  BY <1>1, <1>10, <3>1
  <2>2. ASSUME NEW j \in Nat, j \in G PROVE j + 1 \in G
    <3>1. SUFFICES ASSUME j + 1 <= n PROVE Upto(j + 1)
      <4>. HIDE DEF Upto
      <4>. QED  OBVIOUS
    <3>2. j + 1 \in 1 .. n /\ (j + 1) - 1 = j /\ j <= n
      BY <1>1, <3>1
    <3>3. Upto(j)
      <4>. HIDE DEF Upto
      <4>. QED  BY <2>2, <3>2
    <3>. DEFINE e == End(j + 1)
                b == End(j)
    <3>4. /\ e \in Nat /\ e <= Len(s) /\ b \in Nat /\ b < e
          /\ seqs[j + 1] = SubSeq(s, b + 1, e)
      <4>. HIDE DEF End
      <4>. QED  BY <1>7, <3>2
    <3>5. f[j + 1] = f[j] \o seqs[j + 1] /\ f[j] = SubSeq(s, 1, b)
      <4>. HIDE DEF End
      <4>. QED  BY <1>10, <3>2, <3>3
    <3>. HIDE DEF e, b
    <3>6. 1 \in Nat \ {0} /\ 1 <= b + 1 /\ b <= e
      BY <3>4
    <3>7. SubSeq(s, 1, b) \o SubSeq(s, b + 1, e) = SubSeq(s, 1, e)
      BY <3>4, <3>6, PartsJoin
    <3>8. f[j + 1] = SubSeq(s, 1, e)
      BY <3>4, <3>5, <3>7
    <3>. QED  BY <3>4, <3>8 DEF e
  <2>. HIDE DEF G
  <2>. QED  BY <1>1, <2>1, <2>2, AllNumbers
<1>12. f[n] = SubSeq(s, 1, End(n)) /\ f[n] \in Seq(T)
  <2>. HIDE DEF End
  <2>. QED  BY <1>1, <1>10, <1>11
<1>13. /\ End(n) \in Nat /\ End(n) < Len(s) /\ pieces[n + 1] \in Seq(T) /\ HalPrefix \in Seq(T)
       /\ HalPrefix \o pieces[n + 1] = SubSeq(s, End(n) + 1, Len(s))
  <2>1. n + 1 \in 1 .. n + 1 /\ n + 1 > n /\ (n + 1) - 1 = n
    BY <1>1
  <2>. HIDE DEF End
  <2>2. Len(s) = IF n + 1 > n THEN Len(s) ELSE cuts[n + 1] - 1
    BY <2>1
  <2>3. /\ End((n + 1) - 1) \in Nat /\ End((n + 1) - 1) < Len(s)
        /\ pieces[n + 1] \in Seq(T) /\ HalPrefix \in Seq(T)
        /\ HalPrefix \o pieces[n + 1] = SubSeq(s, End((n + 1) - 1) + 1, Len(s))
    BY <1>1, <1>4, <2>1, <2>2
  <2>. QED  BY <2>1, <2>3, SMTT(30)
<1>14. NameText(name) = (f[n] \o HalPrefix) \o pieces[n + 1]
  <2>1. name.parents = parents /\ name.name = pieces[n + 1]
    BY <1>6 DEF PropertyName
  <2>2. NameText(name) = FlattenSeq(seqs) \o HalPrefix \o name.name
    BY <2>1 DEF NameText, seqs
  <2>. QED  BY <1>10, <2>1, <2>2
<1>15. NameText(name) = f[n] \o (HalPrefix \o pieces[n + 1])
  <2>. DEFINE x == f[n]
              y == pieces[n + 1]
  <2>1. x \in Seq(T) /\ y \in Seq(T) /\ HalPrefix \in Seq(T)
    BY <1>12, <1>13
  <2>. HIDE DEF x, y
  <2>2. (x \o HalPrefix) \o y = x \o (HalPrefix \o y)
    BY ONLY <2>1, ConcatAssociative
  <2>. QED  BY <1>14, <2>2 DEF x, y
<1>16. SubSeq(s, 1, End(n)) \o SubSeq(s, End(n) + 1, Len(s)) = SubSeq(s, 1, Len(s))
  <2>. DEFINE e == End(n)
  <2>1. e \in Nat /\ 1 <= e + 1 /\ e <= Len(s) /\ Len(s) <= Len(s) /\ 1 \in Nat \ {0}
        /\ Len(s) \in Nat
    <3>. HIDE DEF e
    <3>. QED  BY <1>1, <1>13 DEF e
  <2>. HIDE DEF e
  <2>2. SubSeq(s, 1, e) \o SubSeq(s, e + 1, Len(s)) = SubSeq(s, 1, Len(s))
    BY <2>1, PartsJoin
  <2>. QED  BY <2>2 DEF e
<1>17. SubSeq(s, 1, Len(s)) = s
  BY SubSeqFull
<1>. HIDE DEF End, name
<1>. QED  BY <1>2, <1>12, <1>13, <1>15, <1>16, <1>17

-----------------------------------------------------------------------------
(* The elements of a command are the command.                              *)

(* A property closes at a dollar.                                          *)
LEMMA ClosesAtDollar ==
    ASSUME NEW T, NEW s \in Seq(T), NEW p \in 1 .. Len(s) + 1, Closing(s, p) # 0
    PROVE  s[Closing(s, p)] = "$"
<1>. DEFINE q == Opening(s, p)
            r == Closing(s, p)
<1>1. q \in Nat /\ q # 0 /\ r # 0
  BY Properties
<1>2. r = StrStr(s, Dollar, q + 1)
  BY <1>1 DEF Closing
<1>3. Len(Dollar) \in Nat \ {0} /\ q + 1 \in Nat \ {0} /\ Dollar[1] = "$"
  BY <1>1, Patterns DEF Dollar
<1>. HIDE DEF q, r
<1>4. r \in Occurrences(s, Dollar, q + 1)
  BY <1>1, <1>2, <1>3, StrStrFirst
<1>5. s[r] = "$"
  BY <1>3, <1>4, Occurring
<1>. QED  BY <1>5 DEF r

TextsOf(elements) == [i \in DOMAIN elements |-> ElementText(elements[i])]
TextOf(elements) == FlattenSeq(TextsOf(elements))

(* Elements, of texts over T, that are the text t, or end with a name that *)
(* is none.                                                                *)
Stands(elements, T, t) ==
    /\ Len(elements) \in Nat \ {0}
    /\ \/ Last(elements) = Property(NoName)
       \/ /\ TextsOf(elements) \in Seq(Seq(T))
          /\ TextOf(elements) = t

LEMMA StandsOne ==
    ASSUME NEW T, NEW t \in Seq(T)
    PROVE  Stands(<<Literal(t)>>, T, t)
<1>. DEFINE es == <<Literal(t)>>
            texts == TextsOf(es)
<1>1. Len(es) = 1 /\ DOMAIN es = 1 .. 1 /\ es[1] = Literal(t)
  OBVIOUS
<1>2. ElementText(es[1]) = t
  BY DEF ElementText, Literal
<1>3. texts = <<t>>
  <2>. HIDE DEF es
  <2>. QED  BY <1>1, <1>2 DEF TextsOf
<1>. HIDE DEF es
<1>4. texts \in Seq(Seq(T)) /\ TextOf(es) = t
  BY <1>3, FlattenOne DEF TextOf
<1>. QED  BY <1>1, <1>4 DEF Stands, es

(* Two elements.                                                           *)
LEMMA StandsTwo ==
    ASSUME NEW T, NEW both, DOMAIN both = 1 .. 2,
           ElementText(both[1]) \in Seq(T), ElementText(both[2]) \in Seq(T)
    PROVE  /\ TextsOf(both) \in Seq(Seq(T)) /\ Len(TextsOf(both)) = 2
           /\ TextOf(both) = ElementText(both[1]) \o ElementText(both[2])
<1>. DEFINE t == ElementText(both[1])
            u == ElementText(both[2])
<1>1. t \in Seq(T) /\ u \in Seq(T)
  OBVIOUS
<1>2. TextsOf(both) = [i \in 1 .. 2 |-> ElementText(both[i])]
  BY DEF TextsOf
<1>. HIDE DEF t, u
<1>3. TextsOf(both) = <<t, u>>
  BY <1>2 DEF t, u
<1>4. <<t>> \in Seq(Seq(T)) /\ <<u>> \in Seq(Seq(T)) /\ <<t>> \o <<u>> = <<t, u>>
      /\ <<t, u>> \in Seq(Seq(T))
  <2>1. ASSUME NEW S, NEW a \in S, NEW b \in S PROVE <<a>> \o <<b>> = <<a, b>>
    <3>. DEFINE x == <<a>> \o <<b>>
    <3>1. <<a>> \in Seq(S) /\ <<b>> \in Seq(S) /\ Len(<<a>>) = 1 /\ Len(<<b>>) = 1
          /\ <<a>>[1] = a /\ <<b>>[1] = b
      OBVIOUS
    <3>2. /\ x \in Seq(S) /\ Len(x) = 1 + 1
          /\ \A i \in 1 .. 1 + 1 : x[i] = IF i <= 1 THEN <<a>>[i] ELSE <<b>>[i - 1]
      BY <3>1, ConcatProperties
    <3>. HIDE DEF x
    <3>3. Len(x) = 2 /\ x[1] = a /\ x[2] = b
      BY <3>1, <3>2
    <3>4. x = <<a, b>>
      BY <3>2, <3>3
    <3>. QED  BY <3>4 DEF x
  <2>2. \A S : \A a, b \in S : <<a>> \in Seq(S) /\ <<b>> \in Seq(S) /\ <<a, b>> \in Seq(S)
    OBVIOUS
  <2>. QED  BY ONLY <1>1, <2>1, <2>2
<1>5. FlattenSeq(<<t>> \o <<u>>) = FlattenSeq(<<t>>) \o FlattenSeq(<<u>>)
  BY <1>4, FlattenJoin
<1>6. FlattenSeq(<<t>>) = t /\ FlattenSeq(<<u>>) = u
  BY <1>1, FlattenOne
<1>7. TextOf(both) = t \o u /\ Len(<<t, u>>) = 2
  BY <1>3, <1>4, <1>5, <1>6 DEF TextOf
<1>. QED  BY <1>3, <1>4, <1>7 DEF t, u

(* From every position: what is cut from there on is the rest of the text. *)
LEMMA CutStands ==
    ASSUME NEW T, {"hal", ".", "$"} \subseteq T, NEW s \in Seq(T)
    PROVE  Stands(CutElements(s), T, s)
<1>. DEFINE n == Len(s)
            N == Len(s) + 1
            Rest(p) == <<Literal(SubSeq(s, p, Len(s)))>>
            Name(p) == ParsePropertyName(SubSeq(s, Opening(s, p) + 1, Closing(s, p) - 1))
            Both(p) == <<Literal(SubSeq(s, p, Opening(s, p) - 1)), Property(Name(p))>>
            Ends(p) == Name(p) = NoName \/ Closing(s, p) = Len(s)
            Whole(e, c) ==
                /\ CutElements(s) = c[1]
                /\ \A p \in 1 .. N :
                      LET r == Closing(s, p)
                      IN  /\ Both(p) \in Seq(e) /\ Rest(p) \in Seq(e)
                          /\ r = 0 => c[p] = Rest(p)
                          /\ r # 0 /\ Ends(p) => c[p] = Both(p)
                          /\ r # 0 /\ ~Ends(p) => c[p] = Both(p) \o c[r + 1]
<1>1. PICK E : \E c \in [1 .. N -> Seq(E)] : Whole(E, c)
  BY CutFrom
<1>2. PICK cut \in [1 .. N -> Seq(E)] : Whole(E, cut)
  BY <1>1
<1>3. n \in Nat /\ N = n + 1 /\ 1 \in 1 .. N
  OBVIOUS
<1>. DEFINE From(p) == SubSeq(s, p, n)
            Good == {p \in 1 .. N : Stands(cut[p], T, From(p))}
            f == [p \in 1 .. N |-> p]
<1>. HIDE DEF Whole
(* One step of the walk.                                                   *)
<1>4. ASSUME NEW p \in 1 .. N,
             \A m \in p + 1 .. N : Stands(cut[m], T, From(m))
      PROVE  Stands(cut[p], T, From(p))
  <2>. DEFINE q == Opening(s, p)
              r == Closing(s, p)
              lit == SubSeq(s, p, q - 1)
              prop == SubSeq(s, q + 1, r - 1)
  <2>1. /\ Both(p) \in Seq(E) /\ Rest(p) \in Seq(E)
        /\ r = 0 => cut[p] = Rest(p)
        /\ r # 0 /\ Ends(p) => cut[p] = Both(p)
        /\ r # 0 /\ ~Ends(p) => cut[p] = Both(p) \o cut[r + 1]
    <3>. HIDE DEF Both, Rest, Ends
    <3>. QED  BY <1>2 DEF Whole
  <2>2. CASE r = 0
    <3>1. From(p) \in Seq(T)
      BY <1>3, PartType
    <3>2. cut[p] = <<Literal(From(p))>>
      BY <2>1, <2>2
    <3>. QED  BY <3>1, <3>2, StandsOne
  <2>3. CASE r # 0 /\ Name(p) = NoName
    <3>1. cut[p] = Both(p)
      <4>. HIDE DEF Both, Rest, r
      <4>. QED  BY <2>1, <2>3
    <3>2. Len(Both(p)) = 2 /\ Both(p)[2] = Property(Name(p))
      OBVIOUS
    <3>3. Last(cut[p]) = Property(NoName) /\ Len(cut[p]) \in Nat \ {0}
      <4>. HIDE DEF Both, Name
      <4>. QED  BY <2>3, <3>1, <3>2 DEF Last
    <3>. QED  BY <3>3 DEF Stands
  <2>4. CASE r # 0 /\ Name(p) # NoName
    <3>1. /\ q \in Nat \ {0} /\ r \in Nat \ {0} /\ p \in Nat \ {0}
          /\ p <= q /\ q < r /\ r <= n /\ s[q] = "$" /\ s[r] = "$" /\ q <= n
      <4>1. /\ q \in Nat /\ r \in Nat /\ (q # 0 => q \in p .. n - 2 /\ s[q] = "$")
            /\ r # 0 => q # 0 /\ r \in q + 1 .. n
        BY Properties
      <4>2. s[r] = "$"
        BY <2>4, ClosesAtDollar
      <4>. HIDE DEF q, r, n
      <4>. QED  BY <1>3, <2>4, <4>1, <4>2
    <3>. DEFINE u == SubSeq(s, q, r)
    <3>2. prop \in Seq(T) /\ lit \in Seq(T) /\ u \in Seq(T)
      <4>1. /\ q + 1 \in Nat \ {0} /\ r - 1 \in Nat /\ r - 1 <= n /\ q - 1 \in Nat /\ q - 1 <= n
        <5>. HIDE DEF q, r, n
        <5>. QED  BY <1>3, <3>1
      <4>. HIDE DEF q, r
      <4>. QED  BY <3>1, <4>1, PartType
    <3>3. NameText(Name(p)) = prop
      <4>1. {"hal", "."} \subseteq T /\ ParsePropertyName(prop) # NoName /\ Name(p) = ParsePropertyName(prop)
        BY <2>4
      <4>. HIDE DEF prop, Name
      <4>. QED  BY <3>2, <4>1, NameWhole
    <3>4. ElementText(Property(Name(p))) = u
      <4>1. ElementText(Property(Name(p))) = (Dollar \o prop) \o Dollar
        <5>. HIDE DEF prop, Name
        <5>. QED  BY <3>3 DEF ElementText, Property
      <4>2. Dollar = SubSeq(s, q, q) /\ Dollar = SubSeq(s, r, r)
        <5>1. q \in 1 .. Len(s) /\ r \in 1 .. Len(s)
          <6>. HIDE DEF q, r
          <6>. QED  BY <1>3, <3>1
        <5>. HIDE DEF q, r
        <5>. QED  BY <3>1, <5>1, PartOne DEF Dollar
      <4>3. SubSeq(s, q, q) \o SubSeq(s, q + 1, r - 1) = SubSeq(s, q, r - 1)
        <5>1. q \in Nat \ {0} /\ r - 1 \in Nat /\ q <= q + 1 /\ q <= r - 1 /\ r - 1 <= Len(s)
          <6>. HIDE DEF q, r
          <6>. QED  BY <1>3, <3>1
        <5>. HIDE DEF q, r
        <5>. QED  BY <5>1, PartsJoin
      <4>4. SubSeq(s, q, r - 1) \o SubSeq(s, r, r) = u
        <5>1. q \in Nat \ {0} /\ r - 1 \in Nat /\ r \in Nat /\ q <= (r - 1) + 1 /\ r - 1 <= r
              /\ r <= Len(s) /\ (r - 1) + 1 = r
          <6>. HIDE DEF q, r
          <6>. QED  BY <1>3, <3>1
        <5>. HIDE DEF q, r
        <5>. QED  BY <5>1, PartsJoin
      <4>. HIDE DEF q, r, u
      <4>. QED  BY <4>1, <4>2, <4>3, <4>4
    <3>5. lit \o u = SubSeq(s, p, r)
      <4>1. p \in Nat \ {0} /\ q - 1 \in Nat /\ r \in Nat /\ p <= (q - 1) + 1 /\ q - 1 <= r
            /\ r <= Len(s) /\ (q - 1) + 1 = q
        <5>. HIDE DEF q, r
        <5>. QED  BY <1>3, <3>1
      <4>. DEFINE k == q - 1
      <4>2. k \in Nat /\ p <= k + 1 /\ k <= r /\ q = k + 1
        BY <4>1
      <4>. HIDE DEF q, r, k
      <4>3. SubSeq(s, p, k) \o SubSeq(s, k + 1, r) = SubSeq(s, p, r)
        BY <4>1, <4>2, PartsJoin
      <4>. QED  BY <4>2, <4>3 DEF k
    <3>. DEFINE both == Both(p)
                texts == TextsOf(both)
    <3>6. /\ Len(texts) = 2 /\ texts \in Seq(Seq(T)) /\ TextOf(both) = SubSeq(s, p, r)
      <4>1. /\ DOMAIN both = 1 .. 2 /\ both[1] = Literal(lit)
            /\ both[2] = Property(Name(p))
        OBVIOUS
      <4>. HIDE DEF both, lit, u, Name, q, r
      <4>2. ElementText(both[1]) = lit
        BY <4>1 DEF ElementText, Literal
      <4>3. ElementText(both[2]) = u
        BY <3>4, <4>1
      <4>4. /\ texts \in Seq(Seq(T)) /\ Len(texts) = 2
            /\ TextOf(both) = ElementText(both[1]) \o ElementText(both[2])
        BY <3>2, <4>1, <4>2, <4>3, StandsTwo
      <4>. QED  BY <3>5, <4>2, <4>3, <4>4
    <3>7. CASE r = n
      <4>1. cut[p] = both
        BY <2>1, <3>7, <2>4
      <4>2. Len(both) = 2
        OBVIOUS
      <4>. HIDE DEF both, r
      <4>. QED  BY <3>6, <3>7, <4>1, <4>2 DEF Stands
    <3>8. CASE r # n
      <4>. DEFINE rest == cut[r + 1]
                  after == TextsOf(rest)
                  all == TextsOf(cut[p])
      <4>1. cut[p] = both \o rest /\ both \in Seq(E) /\ Len(both) = 2
        <5>1. ~Ends(p)
          BY <2>4, <3>8
        <5>2. Len(Both(p)) = 2
          OBVIOUS
        <5>. HIDE DEF Both, Ends, r
        <5>. QED  BY <2>1, <2>4, <5>1, <5>2
      <4>2. r + 1 \in p + 1 .. N /\ r + 1 \in 1 .. N
        <5>. HIDE DEF q, r, n, N
        <5>. QED  BY <1>3, <3>1, <3>8
      <4>3. Stands(rest, T, From(r + 1)) /\ rest \in Seq(E)
        <5>. HIDE DEF From, r, N
        <5>. QED  BY <1>4, <4>2
      <4>. HIDE DEF both, rest
      <4>4. Len(rest) \in Nat \ {0}
        BY <4>3 DEF Stands
      <4>5. /\ cut[p] \in Seq(E) /\ Len(cut[p]) = 2 + Len(rest)
            /\ \A i \in 1 .. 2 + Len(rest) :
                  cut[p][i] = IF i <= 2 THEN both[i] ELSE rest[i - 2]
        <5>. DEFINE x == both \o rest
        <5>1. /\ x \in Seq(E) /\ Len(x) = 2 + Len(rest)
              /\ \A i \in 1 .. 2 + Len(rest) : x[i] = IF i <= 2 THEN both[i] ELSE rest[i - 2]
          <6>1. /\ x \in Seq(E) /\ Len(x) = Len(both) + Len(rest)
                /\ \A i \in 1 .. Len(both) + Len(rest) :
                      x[i] = IF i <= Len(both) THEN both[i] ELSE rest[i - Len(both)]
            BY <4>1, <4>3, ConcatProperties
          <6>. HIDE DEF x
          <6>. QED  BY <4>1, <6>1
        <5>. HIDE DEF x
        <5>2. cut[p] = x
          BY <4>1 DEF x
        <5>. QED  BY <5>1, <5>2
      <4>6. CASE Last(rest) = Property(NoName)
        <5>1. Last(cut[p]) = Last(rest) /\ Len(cut[p]) \in Nat \ {0}
          <6>1. /\ 2 + Len(rest) \in 1 .. 2 + Len(rest) /\ ~(2 + Len(rest) <= 2)
                /\ (2 + Len(rest)) - 2 = Len(rest) /\ 2 + Len(rest) \in Nat \ {0}
            BY <4>4
          <6>. QED  BY <4>5, <6>1 DEF Last
        <5>. QED  BY <4>6, <5>1 DEF Stands
      <4>7. CASE after \in Seq(Seq(T)) /\ TextOf(rest) = From(r + 1)
        <5>1. DOMAIN rest = 1 .. Len(rest) /\ DOMAIN both = 1 .. 2
              /\ DOMAIN cut[p] = 1 .. 2 + Len(rest) /\ Len(after) = Len(rest) /\ Len(texts) = 2
          <6>1. DOMAIN rest = 1 .. Len(rest) /\ DOMAIN both = 1 .. 2
                /\ DOMAIN cut[p] = 1 .. 2 + Len(rest)
            BY <4>1, <4>3, <4>5, LenProperties
          <6>. QED  BY <3>6, <4>4, <4>7, <6>1 DEF TextsOf
        <5>2. ASSUME NEW i \in 1 .. 2 + Len(rest)
              PROVE  all[i] = IF i <= 2 THEN texts[i] ELSE after[i - 2]
          <6>1. i > 2 => i - 2 \in 1 .. Len(rest)
            BY <4>4
          <6>2. i <= 2 => i \in 1 .. 2
            BY <4>4
          <6>. QED  BY <4>4, <4>5, <5>1, <6>1, <6>2 DEF TextsOf
        <5>3. all = [i \in 1 .. 2 + Len(rest) |-> all[i]]
          BY <5>1 DEF TextsOf
        <5>4. all = texts \o after /\ all \in Seq(Seq(T))
          <6>. DEFINE x == texts \o after
          <6>1. /\ x \in Seq(Seq(T)) /\ Len(x) = 2 + Len(rest)
                /\ \A i \in 1 .. 2 + Len(rest) : x[i] = IF i <= 2 THEN texts[i] ELSE after[i - 2]
            <7>1. texts \in Seq(Seq(T)) /\ after \in Seq(Seq(T))
              BY <3>6, <4>7
            <7>2. /\ x \in Seq(Seq(T)) /\ Len(x) = Len(texts) + Len(after)
                  /\ \A i \in 1 .. Len(texts) + Len(after) :
                        x[i] = IF i <= Len(texts) THEN texts[i] ELSE after[i - Len(texts)]
              BY ONLY <7>1, ConcatProperties
            <7>. HIDE DEF x
            <7>. QED  BY <5>1, <7>2
          <6>. HIDE DEF x
          <6>2. x = [i \in 1 .. 2 + Len(rest) |-> x[i]]
            BY <6>1
          <6>3. all = x
            BY <5>2, <5>3, <6>1, <6>2
          <6>. QED  BY <6>1, <6>3 DEF x
        <5>5. FlattenSeq(all) = TextOf(both) \o TextOf(rest)
          BY <3>6, <4>7, <5>4, FlattenJoin DEF TextOf
        <5>6. SubSeq(s, p, r) \o SubSeq(s, r + 1, n) = From(p)
          <6>1. p \in Nat \ {0} /\ r \in Nat /\ n \in Nat /\ p <= r + 1 /\ r <= n /\ n <= Len(s)
            <7>. HIDE DEF q, r
            <7>. QED  BY <1>3, <3>1
          <6>. HIDE DEF r, n
          <6>. QED  BY <6>1, PartsJoin
        <5>7. TextOf(cut[p]) = From(p)
          <6>. HIDE DEF r
          <6>. QED  BY <3>6, <4>7, <5>5, <5>6 DEF TextOf
        <5>8. Len(cut[p]) \in Nat \ {0}
          BY <4>4, <4>5
        <5>. HIDE DEF From
        <5>. QED  BY <5>4, <5>7, <5>8 DEF Stands
      <4>. QED  BY <4>3, <4>6, <4>7 DEF Stands
    <3>. QED  BY <3>7, <3>8
  <2>. QED  BY <2>2, <2>3, <2>4

<1>5. \A p \in 1 .. N : f[p] \in Good
  <2>1. ASSUME NEW p \in 1 .. N, \A m \in p + 1 .. N : f[m] \in Good
        PROVE  f[p] \in Good
    <3>1. ASSUME NEW m \in p + 1 .. N PROVE Stands(cut[m], T, From(m))
      <4>1. m \in 1 .. N /\ f[m] \in Good
        <5>. HIDE DEF N, f, Good
        <5>. QED  BY <1>3, <2>1, <3>1
      <4>2. f[m] = m
        BY <4>1
      <4>. HIDE DEF f, From, N
      <4>. QED  BY <4>1, <4>2
    <3>2. Stands(cut[p], T, From(p)) /\ f[p] = p
      <4>1. f[p] = p
        OBVIOUS
      <4>. HIDE DEF f, From, N
      <4>. QED  BY <1>4, <3>1, <4>1
    <3>. HIDE DEF f, From, N
    <3>. QED  BY <3>2
  <2>. HIDE DEF f, Good, N
  <2>2. N \in Nat
    BY <1>3
  <2>. QED  BY <2>1, <2>2, WalkKeeps
<1>6. Stands(cut[1], T, From(1))
  <2>1. 1 \in 1 .. N /\ f[1] \in Good /\ f[1] = 1
    <3>. HIDE DEF Good
    <3>. QED  BY <1>3, <1>5
  <2>. HIDE DEF f, N, From
  <2>. QED  BY <2>1
<1>7. From(1) = s
  BY SubSeqFull
<1>8. CutElements(s) = cut[1]
  BY <1>2 DEF Whole
<1>. HIDE DEF From
<1>. QED  BY <1>6, <1>7, <1>8

LEMMA ExecWhole ==
    ASSUME NEW T, NEW s \in Seq(T), ExecMade(s)
    PROVE  ExecText(NewExec(s)) = s
<1>. DEFINE es == CutElements(s)
            W == T \cup {"hal", ".", "$"}
<1>1. s \in Seq(W) /\ {"hal", ".", "$"} \subseteq W
  OBVIOUS
<1>. HIDE DEF W, es
<1>2. Stands(es, W, s)
  BY <1>1, CutStands DEF es
<1>3. NewExec(s).elements = es /\ Last(es) # Property(NoName)
  BY DEF ExecMade, NewExec, es
<1>4. TextOf(es) = s
  BY <1>2, <1>3 DEF Stands
<1>. QED  BY <1>3, <1>4 DEF ExecText, TextOf, TextsOf

-----------------------------------------------------------------------------
(* A match expression, put together again.  Blanks count for nothing.      *)

(* What is left of a text without its blanks is put together from what is  *)
(* left of each token.                                                     *)
Inked(s) == [i \in DOMAIN s |-> IF s[i] = Space THEN <<>> ELSE <<s[i]>>]

LEMMA InkedType ==
    ASSUME NEW T, NEW s \in Seq(T)
    PROVE  /\ Inked(s) \in Seq(Seq(T)) /\ Len(Inked(s)) = Len(s)
           /\ NoBlanks(s) = FlattenSeq(Inked(s)) /\ NoBlanks(s) \in Seq(T)
<1>. DEFINE N == Len(s)
<1>1. N \in Nat /\ DOMAIN s = 1 .. N /\ \A i \in 1 .. N : s[i] \in T
  OBVIOUS
<1>2. Inked(s) = [i \in 1 .. N |-> IF s[i] = Space THEN <<>> ELSE <<s[i]>>]
  BY <1>1 DEF Inked
<1>3. ASSUME NEW i \in 1 .. N
      PROVE  (IF s[i] = Space THEN <<>> ELSE <<s[i]>>) \in Seq(T)
  BY <1>1
<1>. HIDE DEF N
<1>4. Inked(s) \in Seq(Seq(T)) /\ Len(Inked(s)) = N
  <2>. DEFINE R == Seq(T)
  <2>1. Inked(s) \in [1 .. N -> R]
    BY <1>2, <1>3
  <2>. HIDE DEF R
  <2>. QED  BY <1>1, <2>1 DEF R
<1>5. NoBlanks(s) = FlattenSeq(Inked(s))
  BY DEF NoBlanks, Inked
<1>. QED  BY <1>4, <1>5, FlattenType DEF N

LEMMA NoBlanksJoin ==
    ASSUME NEW T, NEW a \in Seq(T), NEW b \in Seq(T)
    PROVE  NoBlanks(a \o b) = NoBlanks(a) \o NoBlanks(b)
<1>1. a \o b \in Seq(T) /\ Len(a \o b) = Len(a) + Len(b) /\ Len(a) \in Nat /\ Len(b) \in Nat
  OBVIOUS
<1>2. /\ \A i \in 1 .. Len(a) : (a \o b)[i] = a[i]
      /\ \A i \in Len(a) + 1 .. Len(a) + Len(b) : (a \o b)[i] = b[i - Len(a)]
  OBVIOUS
<1>. DEFINE ab == a \o b
            u == Inked(a)
            v == Inked(b)
            w == Inked(ab)
<1>3. /\ u \in Seq(Seq(T)) /\ Len(u) = Len(a) /\ v \in Seq(Seq(T)) /\ Len(v) = Len(b)
      /\ w \in Seq(Seq(T)) /\ Len(w) = Len(a) + Len(b)
  BY <1>1, InkedType
<1>4. /\ \A i \in 1 .. Len(a) : u[i] = IF a[i] = Space THEN <<>> ELSE <<a[i]>>
      /\ \A i \in 1 .. Len(b) : v[i] = IF b[i] = Space THEN <<>> ELSE <<b[i]>>
      /\ \A i \in 1 .. Len(a) + Len(b) : w[i] = IF ab[i] = Space THEN <<>> ELSE <<ab[i]>>
  <2>1. DOMAIN a = 1 .. Len(a) /\ DOMAIN b = 1 .. Len(b) /\ DOMAIN ab = 1 .. Len(a) + Len(b)
    BY <1>1
  <2>. HIDE DEF ab
  <2>. QED  BY <2>1 DEF Inked
<1>. DEFINE m == Len(a)
            n == Len(b)
<1>. HIDE DEF u, v, w, ab
<1>5. w = u \o v
  <2>1. ASSUME NEW i \in 1 .. m + n PROVE w[i] = IF i <= m THEN u[i] ELSE v[i - m]
    <3>. HIDE DEF m, n
    <3>1. CASE i <= m
      <4>1. i \in 1 .. m
        BY <3>1
      <4>2. ab[i] = a[i]
        BY <1>2, <4>1 DEF m, ab
      <4>3. u[i] = IF a[i] = Space THEN <<>> ELSE <<a[i]>>
        BY <1>4, <4>1 DEF m
      <4>4. w[i] = IF ab[i] = Space THEN <<>> ELSE <<ab[i]>>
        BY <1>4 DEF m, n
      <4>. QED  BY <3>1, <4>2, <4>3, <4>4
    <3>2. CASE ~(i <= m)
      <4>1. m \in Nat /\ n \in Nat
        BY <1>1 DEF m, n
      <4>2. i \in m + 1 .. m + n /\ i - m \in 1 .. n
        BY <3>2, <4>1
      <4>3. ab[i] = b[i - m]
        BY <1>2, <4>2 DEF m, n, ab
      <4>. DEFINE j == i - m
      <4>4. v[j] = IF b[j] = Space THEN <<>> ELSE <<b[j]>>
        BY <1>4, <4>2 DEF n
      <4>5. w[i] = IF ab[i] = Space THEN <<>> ELSE <<ab[i]>>
        BY <1>4 DEF m, n
      <4>. HIDE DEF j
      <4>6. ab[i] = b[j]
        BY <4>3 DEF j
      <4>7. w[i] = v[j]
        BY <4>4, <4>5, <4>6
      <4>. QED  BY <3>2, <4>7 DEF j
    <3>. QED  BY <3>1, <3>2
  <2>. DEFINE R == Seq(T)
              uv == u \o v
  <2>2. u \in Seq(R) /\ v \in Seq(R) /\ w \in Seq(R) /\ Len(u) = m /\ Len(v) = n
        /\ Len(w) = m + n /\ m \in Nat /\ n \in Nat
    BY <1>1, <1>3
  <2>. HIDE DEF R
  <2>3. uv \in Seq(R) /\ Len(uv) = Len(u) + Len(v)
        /\ \A i \in 1 .. Len(u) + Len(v) : uv[i] = IF i <= Len(u) THEN u[i] ELSE v[i - Len(u)]
    BY <2>2, ConcatProperties
  <2>. HIDE DEF uv, m, n
  <2>4. Len(w) = Len(uv) /\ \A i \in 1 .. Len(w) : w[i] = uv[i]
    BY <2>1, <2>2, <2>3
  <2>. QED  BY <2>2, <2>3, <2>4, SeqEqual DEF uv
<1>6. FlattenSeq(w) = FlattenSeq(u) \o FlattenSeq(v)
  BY <1>3, <1>5, FlattenJoin
<1>7. NoBlanks(a) = FlattenSeq(u) /\ NoBlanks(b) = FlattenSeq(v)
  BY InkedType DEF u, v
<1>8. NoBlanks(ab) = FlattenSeq(w)
  <2>1. ab \in Seq(T)
    BY <1>1 DEF ab
  <2>. QED  BY <2>1, InkedType DEF w
<1>. QED  BY <1>6, <1>7, <1>8 DEF ab

LEMMA NoBlanksBlank ==
    ASSUME NEW s \in Seq({Space})
    PROVE  NoBlanks(s) = <<>>
<1>1. \A i \in DOMAIN s : s[i] = Space
  OBVIOUS
<1>2. Inked(s) = [i \in 1 .. Len(s) |-> <<>>]
  BY <1>1 DEF Inked
<1>3. Inked(s) \in Seq(Seq({}))
  <2>. DEFINE R == Seq({})
  <2>1. <<>> \in R /\ Len(s) \in Nat
    OBVIOUS
  <2>. HIDE DEF R
  <2>. QED  BY <1>2, <2>1 DEF R
<1>4. FlattenSeq(Inked(s)) \in Seq({})
  BY <1>3, FlattenType
<1>5. FlattenSeq(Inked(s)) = <<>>
  <2>. DEFINE f == FlattenSeq(Inked(s))
  <2>. HIDE DEF f
  <2>1. f \in Seq({})
    BY <1>4 DEF f
  <2>2. Len(f) \in Nat /\ (Len(f) # 0 => f[1] \in {})
    BY <2>1
  <2>3. Len(f) = 0
    BY <2>2
  <2>. QED  BY <2>1, <2>3 DEF f
<1>. QED  BY <1>5, InkedType

LEMMA NoBlanksNone == NoBlanks(<<>>) = <<>>
<1>1. <<>> \in Seq({Space})
  OBVIOUS
<1>. QED  BY <1>1, NoBlanksBlank

(* In a set of numbers that are not beyond N there is a greatest.          *)
LEMMA GreatestNumber ==
    ASSUME NEW N \in Nat, NEW P \in SUBSET (1 .. N), P # {}
    PROVE  \E x \in P : \A y \in P : y <= x
<1>. DEFINE T == {N - x : x \in P}
<1>1. T \subseteq Nat /\ T # {}
  <2>1. \A x \in P : x \in 1 .. N /\ N - x \in Nat
    <3>1. \A x \in 1 .. N : N - x \in Nat
      OBVIOUS
    <3>. QED  BY <3>1
  <2>. QED  BY <2>1
<1>2. PICK t \in T : \A u \in T : t <= u
  <2>. HIDE DEF T
  <2>. QED  BY <1>1, LeastNumber
<1>3. PICK x \in P : t = N - x
  OBVIOUS
<1>4. ASSUME NEW y \in P PROVE y <= x
  <2>1. N - y \in T
    OBVIOUS
  <2>2. N - x <= N - y /\ x \in 1 .. N /\ y \in 1 .. N
    <3>. HIDE DEF T
    <3>. QED  BY <1>2, <1>3, <2>1
  <2>. QED  BY <2>2
<1>. QED  BY <1>4

(* A part of nothing but blanks leaves nothing.                            *)
LEMMA BlankPart ==
    ASSUME NEW T, NEW s \in Seq(T), NEW i \in Nat \ {0}, NEW k \in Nat, k <= Len(s),
           \A m \in i .. k : s[m] = Space
    PROVE  NoBlanks(SubSeq(s, i, k)) = <<>>
<1>. DEFINE part == SubSeq(s, i, k)
<1>1. /\ part \in Seq(T) /\ Len(part) = IF i <= k THEN (k - i) + 1 ELSE 0
      /\ \A m \in 1 .. (k - i) + 1 : part[m] = s[(i + m) - 1]
  BY PartType
<1>. HIDE DEF part
<1>2. ASSUME NEW m \in 1 .. Len(part) PROVE part[m] = Space
  <2>1. m \in 1 .. (k - i) + 1 /\ (i + m) - 1 \in i .. k
    BY <1>1
  <2>. QED  BY <1>1, <2>1
<1>3. part \in Seq({Space})
  <2>1. part = [m \in 1 .. Len(part) |-> part[m]] /\ Len(part) \in Nat
    BY <1>1
  <2>. QED  BY <1>2, <2>1
<1>. QED  BY <1>3, NoBlanksBlank DEF part

(* A text is its beginning and the rest.                                   *)
LEMMA CutAt ==
    ASSUME NEW T, NEW s \in Seq(T), NEW j \in Nat, j <= Len(s)
    PROVE  /\ SubSeq(s, 1, j) \in Seq(T) /\ SubSeq(s, j + 1, Len(s)) \in Seq(T)
           /\ s = SubSeq(s, 1, j) \o SubSeq(s, j + 1, Len(s))
<1>1. /\ Len(s) \in Nat /\ 1 \in Nat \ {0} /\ j + 1 \in Nat \ {0} /\ 1 <= j + 1
      /\ Len(s) <= Len(s)
  OBVIOUS
<1>2. SubSeq(s, 1, j) \in Seq(T) /\ SubSeq(s, j + 1, Len(s)) \in Seq(T)
  BY <1>1, PartType
<1>3. SubSeq(s, 1, j) \o SubSeq(s, j + 1, Len(s)) = SubSeq(s, 1, Len(s))
  BY Zenon, <1>1, PartsJoin
<1>4. SubSeq(s, 1, Len(s)) = s
  BY SubSeqFull
<1>. QED  BY Zenon, <1>2, <1>3, <1>4

(* Trimming takes blanks away and nothing else.                            *)
LEMMA Trimmed ==
    ASSUME NEW T, NEW s \in Seq(T)
    PROVE  /\ TrimLeft(s) \in Seq(T) /\ NoBlanks(TrimLeft(s)) = NoBlanks(s)
           /\ TrimRight(s) \in Seq(T) /\ NoBlanks(TrimRight(s)) = NoBlanks(s)
<1>. DEFINE words == {i \in DOMAIN s : s[i] # Space}
            n == Len(s)
<1>1. /\ n \in Nat /\ words \in SUBSET (1 .. n)
      /\ \A i \in 1 .. n : i \notin words => s[i] = Space
      /\ SubSeq(s, 1, n) = s
  <2>1. SubSeq(s, 1, n) = s
    BY SubSeqFull
  <2>. QED  BY <2>1
<1>2. TrimLeft(s) = IF words = {} THEN <<>> ELSE SubSeq(s, Min(words), n)
  BY DEF TrimLeft
<1>3. TrimRight(s) = IF words = {} THEN <<>> ELSE SubSeq(s, 1, Max(words))
  BY DEF TrimRight
<1>. HIDE DEF words, n
<1>4. CASE words = {}
  <2>1. NoBlanks(SubSeq(s, 1, n)) = <<>>
    <3>1. \A m \in 1 .. n : s[m] = Space
      BY <1>1, <1>4
    <3>. QED  BY <1>1, <3>1, BlankPart DEF n
  <2>2. NoBlanks(s) = <<>> /\ TrimLeft(s) = <<>> /\ TrimRight(s) = <<>>
    BY <1>1, <1>2, <1>3, <1>4, <2>1
  <2>3. <<>> \in Seq(T) /\ NoBlanks(<<>>) = <<>>
    <3>1. <<>> \in Seq({Space}) /\ <<>> \in Seq(T)
      OBVIOUS
    <3>. QED  BY <3>1, NoBlanksBlank
  <2>. QED  BY <2>2, <2>3
<1>5. CASE words # {}
  <2>1. PICK least \in words : \A i \in words : least <= i
    <3>1. words \subseteq Nat
      BY <1>1
    <3>. QED  BY <1>5, <3>1, LeastNumber
  <2>2. PICK most \in words : \A i \in words : i <= most
    BY <1>1, <1>5, GreatestNumber
  <2>3. least \in 1 .. n /\ most \in 1 .. n
    BY <1>1
  <2>4. Min(words) = least
    <3>1. \A x \in words : (\A i \in words : x <= i) => x = least
      <4>1. \A x \in words : x \in Nat
        BY <1>1
      <4>. QED  BY <2>1, <4>1
    <3>. QED  BY <2>1, <3>1 DEF Min
  <2>5. Max(words) = most
    <3>1. \A x \in words : x \in Nat
      BY <1>1
    <3>2. \A x \in words : (\A i \in words : x >= i) => x = most
      BY <2>2, <3>1
    <3>3. \A i \in words : most >= i
      BY <2>2, <3>1
    <3>. QED  BY <3>2, <3>3 DEF Max
  <2>. DEFINE a == SubSeq(s, 1, least - 1)
              b == SubSeq(s, least, n)
              c == SubSeq(s, 1, most)
              d == SubSeq(s, most + 1, n)
  <2>6. a \in Seq(T) /\ b \in Seq(T) /\ s = a \o b
    <3>. DEFINE l == least - 1
    <3>1. l \in Nat /\ l <= n /\ l + 1 = least
      BY <1>1, <2>3
    <3>2. b = SubSeq(s, l + 1, n) /\ a = SubSeq(s, 1, l)
      BY <3>1
    <3>. HIDE DEF a, b, l
    <3>3. /\ SubSeq(s, 1, l) \in Seq(T) /\ SubSeq(s, l + 1, n) \in Seq(T)
          /\ s = SubSeq(s, 1, l) \o SubSeq(s, l + 1, n)
      BY <3>1, CutAt DEF n
    <3>. QED  BY <3>2, <3>3
  <2>7. c \in Seq(T) /\ d \in Seq(T) /\ s = c \o d
    <3>1. most \in Nat /\ most <= n
      BY <1>1, <2>3
    <3>. QED  BY <3>1, CutAt DEF n
  <2>9. NoBlanks(a) = <<>>
    <3>1. \A m \in 1 .. least - 1 : m \in 1 .. n /\ ~(least <= m)
      BY <1>1, <2>3
    <3>2. \A m \in 1 .. least - 1 : s[m] = Space
      BY <1>1, <2>1, <3>1
    <3>3. 1 \in Nat \ {0} /\ least - 1 \in Nat /\ least - 1 <= n
      BY <1>1, <2>3
    <3>. QED  BY <3>2, <3>3, BlankPart DEF n
  <2>10. NoBlanks(d) = <<>>
    <3>1. \A m \in most + 1 .. n : m \in 1 .. n /\ ~(m <= most)
      BY <1>1, <2>3
    <3>2. \A m \in most + 1 .. n : s[m] = Space
      BY <1>1, <2>2, <3>1
    <3>3. most + 1 \in Nat \ {0} /\ n \in Nat /\ n <= n
      BY <1>1, <2>3
    <3>. QED  BY <3>2, <3>3, BlankPart DEF n
  <2>11. TrimLeft(s) = b /\ TrimRight(s) = c
    BY <1>2, <1>3, <1>5, <2>4, <2>5
  <2>. HIDE DEF a, b, c, d
  <2>12. /\ NoBlanks(s) = NoBlanks(a) \o NoBlanks(b)
         /\ NoBlanks(s) = NoBlanks(c) \o NoBlanks(d)
    BY <2>6, <2>7, NoBlanksJoin
  <2>13. NoBlanks(b) \in Seq(T) /\ NoBlanks(c) \in Seq(T)
    BY <2>6, <2>7, InkedType
  <2>14. NoBlanks(s) = NoBlanks(b) /\ NoBlanks(s) = NoBlanks(c)
    BY <2>9, <2>10, <2>12, <2>13, ConcatEmptySeq
  <2>. QED  BY <2>6, <2>7, <2>11, <2>14
<1>. QED  BY <1>4, <1>5

(* An atom that is split at its equal sign is that match, but for blanks.  *)
LEMMA MatchWhole ==
    ASSUME NEW T, {"hal", ".", "="} \subseteq T, NEW atom \in Seq(T),
           NewMatch(atom).property # NoName
    PROVE  /\ MatchText(NewMatch(atom)) \in Seq(T)
           /\ NoBlanks(MatchText(NewMatch(atom))) = NoBlanks(atom)
<1>. DEFINE e == StrStr(atom, Equal, 1)
            n == Len(atom)
            key == IF e = 0 THEN atom ELSE TrimRight(SubSeq(atom, 1, e - 1))
            text == TrimLeft(SubSeq(atom, e + 1, n))
            match == NewMatch(atom)
<1>1. /\ match.property = IF HalString(key) = NoText THEN NoName ELSE ParsePropertyName(key)
      /\ match.value = IF e = 0 THEN <<>> ELSE <<text>>
  BY DEF NewMatch
<1>2. n \in Nat /\ e \in Nat /\ (e # 0 => e \in 1 .. n /\ atom[e] = "=")
  <2>1. Len(Equal) = 1 /\ Equal[1] = "=" /\ 1 \in Nat \ {0} /\ Len(Equal) \in Nat \ {0}
    BY DEF Equal
  <2>2. e \in Nat /\ (e # 0 => e \in Occurrences(atom, Equal, 1) /\ e \in 1 .. n)
    BY <2>1, StrStrFirst
  <2>. HIDE DEF e
  <2>3. e # 0 => atom[e] = Equal[1]
    BY <2>1, <2>2, Occurring
  <2>. QED  BY <2>1, <2>2, <2>3
<1>. HIDE DEF e, n
<1>3. ASSUME e # 0
      PROVE  /\ SubSeq(atom, 1, e - 1) \in Seq(T) /\ SubSeq(atom, e + 1, n) \in Seq(T)
             /\ atom = (SubSeq(atom, 1, e - 1) \o Equal) \o SubSeq(atom, e + 1, n)
             /\ Equal \in Seq(T)
  <2>. DEFINE l == e - 1
              begin == SubSeq(atom, 1, e)
  <2>1. e \in Nat /\ e \in 1 .. n /\ e <= n /\ l \in Nat /\ l <= e /\ l + 1 = e
    BY <1>2, <1>3
  <2>2. /\ begin \in Seq(T) /\ SubSeq(atom, e + 1, n) \in Seq(T)
        /\ atom = begin \o SubSeq(atom, e + 1, n)
    BY <2>1, CutAt DEF n
  <2>3. begin = SubSeq(atom, 1, l) \o <<atom[e]>> /\ SubSeq(atom, 1, l) \in Seq(T)
    <3>. HIDE DEF l
    <3>. QED  BY <2>1, PartGrows DEF n
  <2>4. <<atom[e]>> = Equal /\ Equal \in Seq(T)
    BY <1>2, <1>3 DEF Equal
  <2>. QED  BY <2>2, <2>3, <2>4
<1>4. key \in Seq(T)
  BY <1>3, Trimmed
<1>5. NameText(match.property) = key
  <2>1. match.property = ParsePropertyName(key) /\ ParsePropertyName(key) # NoName
    BY <1>1
  <2>. HIDE DEF key, match
  <2>2. NameText(ParsePropertyName(key)) = key
    BY <1>4, <2>1, NameWhole
  <2>. QED  BY <2>1, <2>2
<1>6. CASE e = 0
  <2>1. match.value = <<>> /\ key = atom
    BY <1>1, <1>6
  <2>2. MatchText(match) = key \o <<>>
    <3>. HIDE DEF match, key
    <3>. QED  BY <1>5, <2>1 DEF MatchText
  <2>3. MatchText(match) = atom
    BY <2>1, <2>2, ConcatEmptySeq
  <2>. QED  BY <2>3
<1>7. CASE e # 0
  <2>. DEFINE a == SubSeq(atom, 1, e - 1)
              b == SubSeq(atom, e + 1, n)
  <2>1. a \in Seq(T) /\ b \in Seq(T) /\ Equal \in Seq(T) /\ atom = (a \o Equal) \o b
    BY <1>3, <1>7
  <2>2. key = TrimRight(a) /\ text = TrimLeft(b) /\ match.value = <<text>>
    BY <1>1, <1>7
  <2>. HIDE DEF a, b, key, text, match
  <2>3. /\ key \in Seq(T) /\ NoBlanks(key) = NoBlanks(a)
        /\ text \in Seq(T) /\ NoBlanks(text) = NoBlanks(b)
    BY <2>1, <2>2, Trimmed
  <2>4. MatchText(match) = key \o (Equal \o text)
    <3>1. Head(<<text>>) = text /\ <<text>> # <<>>
      OBVIOUS
    <3>. QED  BY <1>5, <2>2, <3>1 DEF MatchText
  <2>5. /\ Equal \o text \in Seq(T) /\ key \o (Equal \o text) \in Seq(T) /\ a \o Equal \in Seq(T)
        /\ NoBlanks(a) \in Seq(T) /\ NoBlanks(b) \in Seq(T) /\ NoBlanks(Equal) \in Seq(T)
    BY <2>1, <2>3, ConcatProperties, InkedType
  <2>6. NoBlanks(key \o (Equal \o text)) = NoBlanks(key) \o (NoBlanks(Equal) \o NoBlanks(text))
    <3>1. NoBlanks(Equal \o text) = NoBlanks(Equal) \o NoBlanks(text)
      BY <2>1, <2>3, NoBlanksJoin
    <3>. DEFINE u == Equal \o text
    <3>2. u \in Seq(T)
      BY <2>5
    <3>. HIDE DEF u
    <3>3. NoBlanks(key \o u) = NoBlanks(key) \o NoBlanks(u)
      BY <2>3, <3>2, NoBlanksJoin
    <3>. QED  BY <3>1, <3>3 DEF u
  <2>7. NoBlanks((a \o Equal) \o b) = (NoBlanks(a) \o NoBlanks(Equal)) \o NoBlanks(b)
    <3>1. NoBlanks(a \o Equal) = NoBlanks(a) \o NoBlanks(Equal)
      BY <2>1, NoBlanksJoin
    <3>. DEFINE u == a \o Equal
    <3>2. u \in Seq(T)
      BY <2>5
    <3>. HIDE DEF u
    <3>3. NoBlanks(u \o b) = NoBlanks(u) \o NoBlanks(b)
      BY <2>1, <3>2, NoBlanksJoin
    <3>. QED  BY <3>1, <3>3 DEF u
  <2>8. (NoBlanks(a) \o NoBlanks(Equal)) \o NoBlanks(b) = NoBlanks(a) \o (NoBlanks(Equal) \o NoBlanks(b))
    <3>. DEFINE u == NoBlanks(a)
                v == NoBlanks(Equal)
                w == NoBlanks(b)
    <3>1. u \in Seq(T) /\ v \in Seq(T) /\ w \in Seq(T)
      BY <2>5
    <3>. HIDE DEF u, v, w
    <3>2. (u \o v) \o w = u \o (v \o w)
      BY <3>1, ConcatAssociative
    <3>. QED  BY <3>2 DEF u, v, w
  <2>. QED  BY <2>1, <2>3, <2>4, <2>5, <2>6, <2>7, <2>8 DEF match
<1>. QED  BY <1>6, <1>7

-----------------------------------------------------------------------------
(* Positions in order are one behind the other.                            *)
LEMMA InOrderGrows ==
    ASSUME NEW N \in Nat, NEW positions \in SUBSET (1 .. N),
           NEW k \in Nat \ {0}, k + 1 <= Len(InOrder(positions))
    PROVE  InOrder(positions)[k] < InOrder(positions)[k + 1]
<1>. DEFINE o == InOrder(positions)
            Upto(n) == {j \in positions : j <= n}
            C(n) == Cardinality(Upto(n))
<1>1. o \in Seq(1 .. N) /\ \A m \in DOMAIN o : C(o[m]) = m
  BY InOrderIs
<1>2. k \in DOMAIN o /\ k + 1 \in DOMAIN o /\ o[k] \in 1 .. N /\ o[k + 1] \in 1 .. N
  <2>1. DOMAIN o = 1 .. Len(o) /\ Len(o) \in Nat /\ k + 1 <= Len(o)
    BY <1>1
  <2>. HIDE DEF o
  <2>2. k \in DOMAIN o /\ k + 1 \in DOMAIN o
    BY <2>1
  <2>. QED  BY <1>1, <2>2
<1>3. IsFiniteSet(positions)
  <2>1. IsFiniteSet(1 .. N)
    BY UpTo
  <2>. QED  BY <2>1, FS_Subset
<1>. DEFINE a == o[k]
            b == o[k + 1]
<1>4. C(a) = k /\ C(b) = k + 1 /\ a \in Nat /\ b \in Nat
  <2>. HIDE DEF o, C
  <2>. QED  BY <1>1, <1>2
<1>5. ASSUME b <= a PROVE FALSE
  <2>1. Upto(b) \in SUBSET Upto(a) /\ Upto(a) \in SUBSET positions
    <3>. HIDE DEF a, b
    <3>1. \A j \in positions : j \in Nat /\ (j <= b => j <= a)
      BY <1>4, <1>5
    <3>. QED  BY <3>1
  <2>. HIDE DEF Upto, a, b
  <2>2. IsFiniteSet(Upto(a))
    BY <1>3, <2>1, FS_Subset
  <2>3. Cardinality(Upto(b)) <= Cardinality(Upto(a))
    BY <2>1, <2>2, FS_Subset
  <2>. QED  BY <1>4, <2>3
<1>. HIDE DEF a, b
<1>6. a < b
  BY <1>4, <1>5
<1>. QED  BY <1>6 DEF a, b

(* The stops of a scan are operators, one behind the other, and the end.   *)
LEMMA StopsAre ==
    ASSUME NEW T, NEW s \in Seq(T)
    PROVE  LET stops == Stops(s)
               N == Len(stops)
           IN  /\ N \in Nat \ {0} /\ stops[N] = Len(s) + 1
               /\ \A k \in 1 .. N - 1 : stops[k] \in 1 .. Len(s) /\ s[stops[k]] \in Operators
               /\ \A k \in 1 .. N : stops[k] \in Nat \ {0} /\ stops[k] <= Len(s) + 1
               /\ \A k \in 1 .. N : k # 1 => stops[k - 1] < stops[k]
<1>. DEFINE P == {i \in DOMAIN s : s[i] \in Operators}
            o == InOrder(P)
            stops == Stops(s)
            N == Len(stops)
            n == Len(s)
            m == Len(o)
<1>1. n \in Nat /\ P \in SUBSET (1 .. n) /\ \A i \in P : s[i] \in Operators
  OBVIOUS
<1>2. stops = Append(o, n + 1)
  BY DEF Stops
<1>. HIDE DEF P, n, stops
<1>3. o \in Seq(1 .. n) /\ o \in Seq(P)
  BY <1>1, InOrderType
<1>4. m \in Nat /\ \A k \in 1 .. m : o[k] \in 1 .. n /\ o[k] \in P /\ o[k] \in Nat
  BY <1>1, <1>3
<1>5. \A k \in 1 .. m : k # 1 => o[k - 1] < o[k]
  <2>1. ASSUME NEW k \in 1 .. m, k # 1 PROVE o[k - 1] < o[k]
    <3>. DEFINE l == k - 1
    <3>1. l \in Nat \ {0} /\ l + 1 = k /\ l + 1 <= m
      BY <1>4, <2>1
    <3>. HIDE DEF l, o
    <3>2. InOrder(P)[l] < InOrder(P)[l + 1]
      BY <1>1, <3>1, InOrderGrows DEF o
    <3>. QED  BY <3>1, <3>2 DEF o, l
  <2>. QED  BY <2>1
<1>6. /\ N = m + 1 /\ stops[m + 1] = n + 1 /\ \A k \in 1 .. m : stops[k] = o[k]
  <2>. DEFINE R == Nat
  <2>1. o \in Seq(R) /\ n + 1 \in R
    BY <1>1, <1>3, SeqMonotonic, 1 .. n \subseteq Nat
  <2>. HIDE DEF R, o
  <2>2. /\ Len(Append(o, n + 1)) = Len(o) + 1 /\ Append(o, n + 1)[Len(o) + 1] = n + 1
        /\ \A i \in 1 .. Len(o) : Append(o, n + 1)[i] = o[i]
    BY <2>1, AppendProperties
  <2>. QED  BY <1>2, <2>2
<1>. HIDE DEF o, N, m
<1>7. ASSUME NEW k \in 1 .. N
      PROVE  /\ stops[k] \in Nat \ {0} /\ stops[k] <= n + 1
             /\ k # 1 => stops[k - 1] < stops[k]
             /\ k # N => stops[k] \in 1 .. n /\ s[stops[k]] \in Operators
  <2>1. CASE k = N
    <3>1. stops[k] = n + 1 /\ (k # 1 => k - 1 \in 1 .. m)
      BY <1>4, <1>6, <2>1
    <3>2. k # 1 => stops[k - 1] \in 1 .. n
      BY <1>4, <1>6, <3>1
    <3>. QED  BY <1>1, <2>1, <3>1, <3>2
  <2>2. CASE k # N
    <3>1. k \in 1 .. m /\ (k # 1 => k - 1 \in 1 .. m)
      BY <1>4, <1>6, <2>2
    <3>2. stops[k] = o[k] /\ (k # 1 => stops[k - 1] = o[k - 1])
      BY <1>6, <3>1
    <3>3. o[k] \in 1 .. n /\ o[k] \in P /\ (k # 1 => o[k - 1] < o[k])
      BY <1>4, <1>5, <3>1
    <3>. QED  BY <1>1, <2>2, <3>2, <3>3
  <2>. QED  BY <2>1, <2>2
<1>8. N \in Nat \ {0} /\ stops[N] = n + 1
  BY <1>4, <1>6
<1>9. \A k \in 1 .. N - 1 : k \in 1 .. N /\ k # N
  BY <1>8
<1>. QED  BY <1>7, <1>8, <1>9 DEF stops, N, n

(* How far the scan has got after a stop.                                  *)
ReadUpTo(s, k) ==
    IF k = 0 THEN 0 ELSE IF k = Len(Stops(s)) THEN Len(s) ELSE Stops(s)[k]

(* From one stop to the next there is an atom, blanks and the operator.    *)
LEMMA ScanPart ==
    ASSUME NEW T, NEW s \in Seq(T), NEW k \in 1 .. Len(Stops(s))
    PROVE  LET ink(j) == NoBlanks(SubSeq(s, 1, ReadUpTo(s, j)))
               sign == IF k = Len(Stops(s)) THEN <<>> ELSE <<s[Stops(s)[k]]>>
           IN  /\ AtomBefore(s, k) \in Seq(T) /\ sign \in Seq(T)
               /\ ink(k - 1) \in Seq(T)
               /\ ink(k) = (ink(k - 1) \o NoBlanks(AtomBefore(s, k))) \o NoBlanks(sign)
<1>. DEFINE stops == Stops(s)
            N == Len(stops)
            n == Len(s)
            p == ReadUpTo(s, k - 1)
            q == stops[k] - 1
            sign == IF k = N THEN <<>> ELSE <<s[stops[k]]>>
            begin == SubSeq(s, 1, p)
            part == SubSeq(s, p + 1, q)
            atom == AtomBefore(s, k)
<1>1. /\ N \in Nat \ {0} /\ stops[N] = n + 1 /\ n \in Nat
      /\ \A j \in 1 .. N - 1 : stops[j] \in 1 .. n /\ s[stops[j]] \in Operators
      /\ \A j \in 1 .. N : stops[j] \in Nat \ {0} /\ stops[j] <= n + 1
      /\ \A j \in 1 .. N : j # 1 => stops[j - 1] < stops[j]
  BY StopsAre
<1>2. /\ ReadUpTo(s, 0) = 0 /\ ReadUpTo(s, N) = n
      /\ \A j \in 1 .. N - 1 : ReadUpTo(s, j) = stops[j]
  <2>. HIDE DEF stops
  <2>1. N # 0 /\ \A j \in 1 .. N - 1 : j # 0 /\ j # N
    BY <1>1
  <2>. QED  BY <2>1 DEF ReadUpTo, stops
<1>. HIDE DEF N, n, stops
<1>3. /\ p \in Nat /\ q \in Nat /\ p <= q /\ q <= n /\ q + 1 = stops[k]
      /\ part = SubSeq(s, IF k = 1 THEN 1 ELSE stops[k - 1] + 1, stops[k] - 1)
  <2>1. k \in 1 .. N
    BY DEF N, stops
  <2>2. stops[k] \in Nat \ {0} /\ stops[k] <= n + 1
    BY <1>1, <2>1
  <2>3. q \in Nat /\ q <= n /\ q + 1 = stops[k]
    BY <1>1, <2>2
  <2>4. CASE k = 1
    <3>1. k - 1 = 0 /\ p = 0 /\ p + 1 = 1
      BY <1>2, <2>4
    <3>. HIDE DEF p, q
    <3>2. SubSeq(s, p + 1, q) = SubSeq(s, 1, q)
      BY <3>1
    <3>. QED  BY <2>3, <2>4, <3>1, <3>2 DEF q
  <2>5. CASE k # 1
    <3>1. k - 1 \in 1 .. N - 1 /\ k - 1 \in 1 .. N
      BY <1>1, <2>1, <2>5
    <3>2. p = stops[k - 1] /\ stops[k - 1] \in Nat \ {0} /\ stops[k - 1] < stops[k]
      BY <1>1, <1>2, <2>1, <2>5, <3>1
    <3>. HIDE DEF p
    <3>3. p \in Nat /\ p <= q
      BY <2>2, <3>2
    <3>. QED  BY <2>3, <2>5, <3>2, <3>3
  <2>. QED  BY <2>4, <2>5
<1>. HIDE DEF p, q
<1>4. begin \in Seq(T) /\ part \in Seq(T) /\ SubSeq(s, 1, q) = begin \o part
  <2>1. p + 1 \in Nat \ {0} /\ 1 \in Nat \ {0} /\ 1 <= p + 1 /\ p <= n
    BY <1>1, <1>3
  <2>2. begin \in Seq(T) /\ part \in Seq(T)
    BY <1>3, <2>1, PartType DEF n
  <2>. HIDE DEF begin, part
  <2>3. SubSeq(s, 1, p) \o SubSeq(s, p + 1, q) = SubSeq(s, 1, q)
    BY Zenon, <1>3, <2>1, PartsJoin DEF n
  <2>. QED  BY <2>2, <2>3 DEF begin, part
<1>5. sign \in Seq(T) /\ SubSeq(s, 1, ReadUpTo(s, k)) = SubSeq(s, 1, q) \o sign
  <2>1. k \in 1 .. N
    BY DEF N, stops
  <2>2. SubSeq(s, 1, q) \in Seq(T) /\ <<>> \in Seq(T)
    <3>1. 1 \in Nat \ {0}
      OBVIOUS
    <3>. QED  BY <1>3, <3>1, PartType DEF n
  <2>3. CASE k = N
    <3>1. q = n /\ ReadUpTo(s, k) = n /\ sign = <<>>
      BY <1>1, <1>2, <1>3, <2>3
    <3>. HIDE DEF sign
    <3>2. SubSeq(s, 1, q) \o <<>> = SubSeq(s, 1, q)
      BY <2>2, ConcatEmptySeq
    <3>. QED  BY <2>2, <3>1, <3>2
  <2>4. CASE k # N
    <3>1. k \in 1 .. N - 1
      BY <1>1, <2>1, <2>4
    <3>2. ReadUpTo(s, k) = q + 1 /\ q + 1 <= n /\ sign = <<s[q + 1]>>
      <4>1. stops[k] \in 1 .. n
        BY <1>1, <3>1
      <4>. QED  BY <1>2, <1>3, <2>4, <3>1, <4>1
    <3>. HIDE DEF sign
    <3>3. s[q + 1] \in T /\ SubSeq(s, 1, q + 1) = SubSeq(s, 1, q) \o <<s[q + 1]>>
      BY <1>3, <3>2, PartGrows DEF n
    <3>4. <<s[q + 1]>> \in Seq(T)
      BY <3>3
    <3>. QED  BY <3>2, <3>3, <3>4
  <2>. QED  BY <2>3, <2>4
<1>6. atom = TrimLeft(TrimRight(part))
  BY <1>3 DEF AtomBefore, stops, atom
<1>. DEFINE most == SubSeq(s, 1, q)
            all == SubSeq(s, 1, ReadUpTo(s, k))
<1>. HIDE DEF begin, part, sign, atom, most, all
<1>7. atom \in Seq(T) /\ NoBlanks(atom) = NoBlanks(part)
  BY <1>4, <1>6, Trimmed
<1>8. most = begin \o part /\ all = most \o sign
  BY <1>4, <1>5 DEF most, all
<1>9. NoBlanks(most) = NoBlanks(begin) \o NoBlanks(atom)
  BY <1>4, <1>7, <1>8, NoBlanksJoin
<1>10. NoBlanks(all) = NoBlanks(most) \o NoBlanks(sign)
  <2>1. most \in Seq(T)
    BY <1>4, <1>8, ConcatProperties
  <2>. QED  BY <1>5, <1>8, <2>1, NoBlanksJoin
<1>11. NoBlanks(begin) \in Seq(T)
  BY <1>4, InkedType
<1>12. NoBlanks(all) = (NoBlanks(begin) \o NoBlanks(atom)) \o NoBlanks(sign)
  BY <1>9, <1>10
<1>. QED  BY <1>5, <1>7, <1>11, <1>12 DEF begin, p, atom, sign, all, N, stops

(* What a word of the expression stands for, and several of them.          *)
WordText(word, matches) ==
    IF Head(word) \in Operators THEN word ELSE MatchText(matches[Atoi(word) + 1])

WordTexts(words, matches) == [k \in DOMAIN words |-> WordText(words[k], matches)]

(* All words of V stand for texts.                                         *)
StandFor(V, matches, T) == \A w \in V : WordText(w, matches) \in Seq(T)

LEMMA WordsType ==
    ASSUME NEW T, NEW V, NEW matches, StandFor(V, matches, T),
           NEW words \in Seq(V)
    PROVE  WordTexts(words, matches) \in Seq(Seq(T)) /\ Len(WordTexts(words, matches)) = Len(words)
<1>. DEFINE n == Len(words)
            R == Seq(T)
            W(w) == WordText(w, matches)
<1>1. n \in Nat /\ \A k \in 1 .. n : words[k] \in V
  OBVIOUS
<1>2. WordTexts(words, matches) = [k \in 1 .. n |-> W(words[k])]
  BY DEF WordTexts
<1>3. \A k \in 1 .. n : W(words[k]) \in R
  BY <1>1 DEF StandFor
<1>. HIDE DEF n, R, W
<1>4. WordTexts(words, matches) \in [1 .. n -> R]
  BY <1>2, <1>3
<1>5. WordTexts(words, matches) \in Seq(R) /\ Len(WordTexts(words, matches)) = n
  BY <1>1, <1>4
<1>. QED  BY <1>5 DEF R, n

(* What is left of the texts of all words without their blanks.            *)
InkOf(words, matches) == NoBlanks(FlattenSeq(WordTexts(words, matches)))

(* The words are of V, and have the texts that ink is left of.             *)
Reads(words, ink, V, matches) == words \in Seq(V) /\ InkOf(words, matches) = ink

(* What is left of one word more is one text more.                         *)
LEMMA WordMore ==
    ASSUME NEW T, NEW V, NEW matches, StandFor(V, matches, T),
           NEW words, NEW before, Reads(words, before, V, matches),
           NEW w \in V, NEW more, more = words \o <<w>>
    PROVE  Reads(more, before \o NoBlanks(WordText(w, matches)), V, matches)
<1>. words \in Seq(V) /\ InkOf(words, matches) = before
  BY DEF Reads
<1>. DEFINE a == WordTexts(words, matches)
            c == WordTexts(more, matches)
            n == Len(words)
            R == Seq(T)
<1>1. /\ more \in Seq(V) /\ Len(more) = n + 1 /\ n \in Nat /\ more[n + 1] = w
      /\ \A i \in 1 .. n : more[i] = words[i]
  OBVIOUS
<1>2. DOMAIN more = 1 .. n + 1 /\ DOMAIN words = 1 .. n
  BY <1>1
<1>3. a \in Seq(R) /\ Len(a) = n
  BY WordsType
<1>4. c \in Seq(R) /\ Len(c) = n + 1
  <2>1. WordTexts(more, matches) \in Seq(Seq(T)) /\ Len(WordTexts(more, matches)) = Len(more)
    <3>1. more \in Seq(V)
      BY <1>1
    <3>. QED  BY ONLY <3>1, WordsType, StandFor(V, matches, T)
  <2>2. c = WordTexts(more, matches) /\ R = Seq(T)
    OBVIOUS
  <2>. HIDE DEF c, R
  <2>. QED  BY <1>1, <2>1, <2>2
<1>5. /\ c[n + 1] = WordText(w, matches)
      /\ \A i \in 1 .. n : c[i] = a[i]
  <2>1. \A i \in 1 .. n + 1 : c[i] = WordText(more[i], matches)
    BY <1>2 DEF WordTexts
  <2>2. \A i \in 1 .. n : a[i] = WordText(words[i], matches)
    BY <1>2 DEF WordTexts
  <2>3. n + 1 \in 1 .. n + 1 /\ \A i \in 1 .. n : i \in 1 .. n + 1
    BY <1>1
  <2>. HIDE DEF a, c, n
  <2>. QED  BY <1>1, <2>1, <2>2, <2>3
<1>6. WordText(w, matches) \in R
  BY DEF StandFor
<1>. DEFINE t == WordText(w, matches)
<1>. HIDE DEF a, c, n, R, t
<1>7. c = a \o <<t>>
  <2>. DEFINE d == a \o <<t>>
  <2>1. <<t>> \in Seq(R) /\ Len(<<t>>) = 1 /\ <<t>>[1] = t
    BY <1>6 DEF t
  <2>2. d \in Seq(R) /\ Len(d) = n + 1
        /\ \A i \in 1 .. n + 1 : d[i] = IF i <= n THEN a[i] ELSE <<t>>[i - n]
    BY <1>3, <2>1, ConcatProperties
  <2>. HIDE DEF d
  <2>3. \A i \in 1 .. n + 1 : c[i] = d[i]
    <3>1. SUFFICES ASSUME NEW i \in 1 .. n + 1 PROVE c[i] = d[i]
      OBVIOUS
    <3>2. CASE i <= n
      <4>1. i \in 1 .. n
        BY <1>1, <3>2
      <4>. QED  BY <1>5, <2>2, <3>2, <4>1
    <3>3. CASE ~(i <= n)
      <4>1. i = n + 1 /\ i - n = 1
        BY <1>1, <3>3
      <4>2. d[i] = <<t>>[i - n]
        BY <2>2, <3>3
      <4>3. d[i] = t
        BY <2>1, <4>1, <4>2
      <4>. QED  BY <1>5, <4>1, <4>3 DEF t
    <3>. QED  BY <3>2, <3>3
  <2>. QED  BY <1>4, <2>2, <2>3, SeqEqual DEF d
<1>8. /\ FlattenSeq(c) = FlattenSeq(a) \o t
      /\ FlattenSeq(a) \in Seq(T) /\ t \in Seq(T)
  <2>1. a \in Seq(Seq(T)) /\ t \in Seq(T)
    BY <1>3, <1>6 DEF R, t
  <2>2. <<t>> \in Seq(Seq(T)) /\ FlattenSeq(<<t>>) = t
    <3>. DEFINE S == Seq(T)
    <3>1. t \in S
      BY <2>1
    <3>2. <<t>> \in Seq(S)
      <4>. HIDE DEF S
      <4>. QED  BY <3>1
    <3>. QED  BY <2>1, <3>2, FlattenOne
  <2>3. FlattenSeq(a \o <<t>>) = FlattenSeq(a) \o FlattenSeq(<<t>>)
    BY <2>1, <2>2, FlattenJoin
  <2>4. FlattenSeq(a) \in Seq(T)
    BY <2>1, FlattenType
  <2>. QED  BY <1>7, <2>1, <2>2, <2>3, <2>4
<1>. DEFINE f == FlattenSeq(a)
<1>. HIDE DEF f
<1>9. NoBlanks(f \o t) = NoBlanks(f) \o NoBlanks(t)
  BY <1>8, NoBlanksJoin DEF f
<1>10. NoBlanks(FlattenSeq(c)) = NoBlanks(f) \o NoBlanks(t)
  BY <1>8, <1>9 DEF f
<1>. QED  BY <1>1, <1>10 DEF a, c, f, t, InkOf, Reads

(* An atom stays where it has been put.                                    *)
LEMMA AtomsStay ==
    ASSUME NEW T, NEW s \in Seq(T), NEW k \in 0 .. Len(Stops(s))
    PROVE  LET atoms == Scan(s)[k].atoms
               all == Scanned(s).atoms
           IN  /\ Len(atoms) \in Nat /\ Len(all) \in Nat /\ Len(atoms) <= Len(all)
               /\ \A i \in 1 .. Len(atoms) : all[i] = atoms[i]
<1>. DEFINE scan == Scan(s)
            N == Len(Stops(s))
            all == Scanned(s).atoms
            A == AtomsOf(s)
            Stay(j) == /\ Len(scan[j].atoms) <= Len(all)
                       /\ \A i \in 1 .. Len(scan[j].atoms) : all[i] = scan[j].atoms[i]
<1>1. /\ N \in Nat /\ \A j \in 0 .. N : scan[j] \in Buffers(A, WordsOf(s))
      /\ \A j \in 1 .. N :
            scan[j].atoms = IF AtomBefore(s, j) # <<>>
                            THEN Append(scan[j - 1].atoms, AtomBefore(s, j))
                            ELSE scan[j - 1].atoms
  BY ScanSteps
<1>2. all = scan[N].atoms
  BY DEF Scanned
<1>. HIDE DEF scan, N, all, A
<1>3. ASSUME NEW j \in 0 .. N PROVE scan[j].atoms \in Seq(A) /\ Len(scan[j].atoms) \in Nat
  <2>1. scan[j] \in Buffers(A, WordsOf(s))
    BY <1>1
  <2>2. scan[j].atoms \in Seq(A)
    BY <2>1 DEF Buffers
  <2>. QED  BY <2>2, LenProperties
<1>4. Stay(N) /\ N \in 0 .. N
  <2>1. N \in 0 .. N
    BY <1>1
  <2>2. Len(all) \in Nat
    BY <1>2, <1>3, <2>1
  <2>. QED  BY <1>2, <2>1, <2>2
<1>5. ASSUME NEW j \in 1 .. N, Stay(j) PROVE Stay(j - 1)
  <2>. DEFINE l == j - 1
              old == scan[l].atoms
              new == scan[j].atoms
              m == Len(old)
  <2>1. l \in 0 .. N /\ j \in 0 .. N
    BY <1>1
  <2>2. old \in Seq(A) /\ new \in Seq(A) /\ m \in Nat /\ Len(new) \in Nat
    BY <1>3, <2>1
  <2>3. new = old \/ \E x \in A : new = Append(old, x)
    <3>1. new = IF AtomBefore(s, j) # <<>> THEN Append(old, AtomBefore(s, j)) ELSE old
      BY <1>1
    <3>2. AtomBefore(s, j) \in A
      BY DEF A, AtomsOf, N
    <3>. HIDE DEF old, new
    <3>. QED  BY <3>1, <3>2
  <2>. HIDE DEF old, new, m
  <2>4. m <= Len(new) /\ \A i \in 1 .. m : new[i] = old[i]
    <3>1. CASE new = old
      BY <2>2, <3>1 DEF m
    <3>2. CASE \E x \in A : new = Append(old, x)
      <4>1. PICK x \in A : new = Append(old, x)
        BY <3>2
      <4>2. Len(new) = m + 1 /\ \A i \in 1 .. m : new[i] = old[i]
        BY <2>2, <4>1, AppendProperties DEF m
      <4>. QED  BY <2>2, <4>2
    <3>. QED  BY <2>3, <3>1, <3>2
  <2>5. Len(new) <= Len(all) /\ \A i \in 1 .. Len(new) : all[i] = new[i]
    BY <1>5 DEF new
  <2>6. Len(all) \in Nat
    BY <1>2, <1>3, <1>4
  <2>7. m <= Len(all) /\ \A i \in 1 .. m : all[i] = old[i]
    <3>1. \A i \in 1 .. m : i \in 1 .. Len(new)
      BY <2>2, <2>4
    <3>2. m <= Len(all)
      BY <2>2, <2>4, <2>5, <2>6
    <3>. QED  BY <2>4, <2>5, <3>1, <3>2
  <2>. QED  BY <2>7 DEF m, old
<1>. DEFINE G == {j \in 0 .. N : Stay(N - j)}
<1>. HIDE DEF Stay
<1>6. ASSUME NEW j \in 0 .. N, \A i \in 0 .. j - 1 : Stay(N - i) PROVE Stay(N - j)
  <2>1. CASE j = 0
    <3>1. N - j = N
      BY <1>1, <2>1
    <3>. QED  BY <1>4, <3>1
  <2>2. CASE j # 0
    <3>. DEFINE i == j - 1
                k1 == N - i
    <3>1. i \in 0 .. j - 1 /\ k1 \in 1 .. N /\ k1 - 1 = N - j
      BY <1>1, <2>2
    <3>2. Stay(k1)
      BY <1>6, <3>1
    <3>. HIDE DEF k1
    <3>3. Stay(k1 - 1)
      BY <1>5, <3>1, <3>2
    <3>. QED  BY <3>1, <3>3
  <2>. QED  BY <2>1, <2>2
<1>7. \A j \in 0 .. N : j \in G
  <2>1. \A j \in 0 .. N : (\A i \in 0 .. j - 1 : i \in G) => j \in G
    BY <1>6
  <2>. HIDE DEF G
  <2>. QED  BY <1>1, <2>1, NumbersKeep
<1>8. Stay(k)
  <2>1. k \in 0 .. N
    BY DEF N
  <2>2. N - k \in 0 .. N /\ N - (N - k) = k
    BY <1>1, <2>1
  <2>3. Stay(N - (N - k))
    BY <1>7, <2>2
  <2>. QED  BY <2>2, <2>3
<1>9. Len(all) \in Nat /\ Len(scan[k].atoms) \in Nat
  BY <1>2, <1>3, <1>4 DEF N
<1>. QED  BY <1>8, <1>9 DEF Stay, scan, all

(* A number stands for the match it counts, an operator for itself.        *)
LEMMA NumberWord ==
    ASSUME NEW n \in Nat, NEW matches
    PROVE  WordText(Printed(n), matches) = MatchText(matches[n + 1])
<1>. DEFINE w == Printed(n)
<1>1. w \in Seq(FigureChars) /\ Len(w) >= 1 /\ Atoi(w) = n
  BY PrintedIsRead
<1>. HIDE DEF w
<1>2. Head(w) \in FigureChars
  BY <1>1
<1>3. \A c \in FigureChars : c \notin Operators
  BY FigureIs DEF FigureChars
<1>. QED  BY <1>1, <1>2, <1>3 DEF WordText, w

LEMMA SignWord ==
    ASSUME NEW c \in Operators, NEW matches
    PROVE  WordText(<<c>>, matches) = <<c>>
<1>1. Head(<<c>>) = c
  OBVIOUS
<1>. QED  BY <1>1 DEF WordText

(* One word more or none.                                                  *)
GoesOn(words, more, ink, V, matches) ==
    \/ more = words /\ ink = <<>>
    \/ \E w \in V : more = words \o <<w>> /\ ink = NoBlanks(WordText(w, matches))

LEMMA WordOrNone ==
    ASSUME NEW T, NEW V, NEW matches, StandFor(V, matches, T),
           NEW words, NEW before, Reads(words, before, V, matches),
           NEW more, NEW ink, GoesOn(words, more, ink, V, matches)
    PROVE  Reads(more, before \o ink, V, matches)
<1>. DEFINE f == FlattenSeq(WordTexts(words, matches))
<1>. words \in Seq(V) /\ InkOf(words, matches) = before
  BY DEF Reads
<1>1. CASE \E w \in V : more = words \o <<w>> /\ ink = NoBlanks(WordText(w, matches))
  <2>1. PICK w \in V : more = words \o <<w>> /\ ink = NoBlanks(WordText(w, matches))
    BY <1>1
  <2>2. Reads(more, before \o NoBlanks(WordText(w, matches)), V, matches)
    BY <2>1, WordMore
  <2>. QED  BY <2>1, <2>2
<1>2. CASE more = words /\ ink = <<>>
  <2>1. WordTexts(words, matches) \in Seq(Seq(T))
    BY WordsType
  <2>2. f \in Seq(T)
    BY <2>1, FlattenType
  <2>. HIDE DEF f
  <2>3. NoBlanks(f) \in Seq(T)
    BY <2>2, InkedType
  <2>4. NoBlanks(f) \o <<>> = NoBlanks(f)
    BY <2>3, ConcatEmptySeq
  <2>. QED  BY <1>2, <2>4 DEF f, InkOf, Reads
<1>. QED  BY <1>1, <1>2 DEF GoesOn

(* The expression that the scan has made up to a stop is what has been     *)
(* read of the text, each number being the match of that index.            *)
LEMMA ScanText ==
    ASSUME NEW T, {"hal", ".", "="} \subseteq T, NEW s \in Seq(T), NEW matches,
           matches = [i \in DOMAIN Scanned(s).atoms |-> NewMatch(Scanned(s).atoms[i])],
           \A i \in DOMAIN matches : matches[i].property # NoName
    PROVE  InkOf(Scanned(s).expr, matches) = NoBlanks(s)
<1>. DEFINE scan == Scan(s)
            stops == Stops(s)
            N == Len(stops)
            A == AtomsOf(s)
            all == Scanned(s).atoms
            L == Len(all)
            V == {Printed(i) : i \in 0 .. L - 1} \cup {<<c>> : c \in Operators \cap T}
            ink(k) == NoBlanks(SubSeq(s, 1, ReadUpTo(s, k)))
<1>1. /\ N \in Nat
      /\ \A k \in 0 .. N : scan[k] \in Buffers(A, WordsOf(s))
      /\ scan[0].expr = <<>>
      /\ \A k \in 1 .. N :
            LET old == scan[k - 1]
                atom == AtomBefore(s, k)
            IN  /\ scan[k].atoms = IF atom # <<>> THEN Append(old.atoms, atom) ELSE old.atoms
                /\ scan[k].expr =
                      old.expr
                       \o (IF atom # <<>> THEN <<Printed(Len(old.atoms))>> ELSE <<>>)
                       \o (IF k = N THEN <<>> ELSE <<<<s[stops[k]]>>>>)
  BY ScanSteps
<1>2. A \subseteq Seq(T)
  <2>1. \A k \in 1 .. Len(Stops(s)) : AtomBefore(s, k) \in Seq(T)
    BY ScanPart
  <2>. QED  BY <2>1 DEF A, AtomsOf
<1>3. all \in Seq(A) /\ L \in Nat /\ DOMAIN all = 1 .. L /\ all = scan[N].atoms
  <2>1. scan[N] \in Buffers(A, WordsOf(s)) /\ all = scan[N].atoms
    <3>1. N \in 0 .. N
      BY <1>1
    <3>. QED  BY <1>1, <3>1 DEF Scanned
  <2>. HIDE DEF all, scan, A
  <2>2. all \in Seq(A)
    BY <2>1 DEF Buffers
  <2>. QED  BY <2>1, <2>2, LenProperties
<1>4. ASSUME NEW i \in 1 .. L
      PROVE  /\ MatchText(matches[i]) \in Seq(T)
             /\ NoBlanks(MatchText(matches[i])) = NoBlanks(all[i])
  <2>. DEFINE a == all[i]
  <2>. HIDE DEF all, L, A
  <2>1. a \in Seq(T)
    BY <1>2, <1>3
  <2>2. matches[i] = NewMatch(a) /\ NewMatch(a).property # NoName
    BY <1>3 DEF all
  <2>. HIDE DEF a
  <2>3. MatchText(NewMatch(a)) \in Seq(T) /\ NoBlanks(MatchText(NewMatch(a))) = NoBlanks(a)
    BY <2>1, <2>2, MatchWhole
  <2>. QED  BY <2>2, <2>3 DEF a
<1>. HIDE DEF scan, stops, N, A, all, L
<1>5. StandFor(V, matches, T)
  <2>1. ASSUME NEW i \in 0 .. L - 1 PROVE WordText(Printed(i), matches) \in Seq(T)
    <3>1. i \in Nat /\ i + 1 \in 1 .. L
      BY <1>3
    <3>. QED  BY <1>4, <3>1, NumberWord
  <2>2. ASSUME NEW c \in Operators \cap T PROVE WordText(<<c>>, matches) \in Seq(T)
    <3>1. <<c>> \in Seq(T)
      OBVIOUS
    <3>. QED  BY <3>1, SignWord
  <2>. QED  BY <2>1, <2>2 DEF StandFor
<1>. DEFINE Good(k) == Reads(scan[k].expr, ink(k), V, matches)
<1>6. Good(0)
  <2>1. <<>> \in Seq(V)
    OBVIOUS
  <2>3. WordTexts(<<>>, matches) = <<>>
    BY DEF WordTexts
  <2>4. FlattenSeq(<<>>) = <<>>
    <3>1. FlattenSeq(<<>>) \in Seq({})
      <4>1. <<>> \in Seq(Seq({}))
        OBVIOUS
      <4>. QED  BY <4>1, FlattenType
    <3>. DEFINE f == FlattenSeq(<<>>)
    <3>. HIDE DEF f
    <3>2. f \in Seq({})
      BY <3>1 DEF f
    <3>3. Len(f) \in Nat /\ (Len(f) # 0 => f[1] \in {})
      BY <3>2
    <3>4. f = <<>>
      BY <3>2, <3>3
    <3>. QED  BY <3>4 DEF f
  <2>5. ReadUpTo(s, 0) = 0 /\ SubSeq(s, 1, 0) = <<>>
    BY DEF ReadUpTo
  <2>. HIDE DEF V
  <2>. QED  BY <1>1, <2>1, <2>3, <2>4, <2>5, NoBlanksNone DEF InkOf, Reads
<1>7. ASSUME NEW k \in 1 .. N, Good(k - 1) PROVE Good(k)
  <2>. DEFINE old == scan[k - 1]
              n == Len(old.atoms)
              atom == AtomBefore(s, k)
              end == k = N
              c == s[stops[k]]
              sign == IF end THEN <<>> ELSE <<c>>
              mid == old.expr \o (IF atom # <<>> THEN <<Printed(n)>> ELSE <<>>)
              new == mid \o (IF ~end THEN <<<<c>>>> ELSE <<>>)
  <2>1. /\ scan[k].expr = new
        /\ scan[k].atoms = IF atom # <<>> THEN Append(old.atoms, atom) ELSE old.atoms
    <3>1. (IF k = N THEN <<>> ELSE <<<<c>>>>) = (IF ~end THEN <<<<c>>>> ELSE <<>>)
      OBVIOUS
    <3>. QED  BY <1>1, <3>1
  <2>2. /\ atom \in Seq(T) /\ sign \in Seq(T)
        /\ ink(k - 1) \in Seq(T)
        /\ ink(k) = (ink(k - 1) \o NoBlanks(atom)) \o NoBlanks(sign)
    BY ScanPart DEF N, stops
  <2>3. n \in Nat /\ old.atoms \in Seq(A)
    <3>1. k - 1 \in 0 .. N
      BY <1>1
    <3>2. old.atoms \in Seq(A)
      BY <1>1, <3>1 DEF Buffers
    <3>. QED  BY <3>2, LenProperties
  <2>4. atom # <<>> => n + 1 \in 1 .. L /\ all[n + 1] = atom
    <3>1. SUFFICES ASSUME atom # <<>> PROVE n + 1 \in 1 .. L /\ all[n + 1] = atom
      OBVIOUS
    <3>. DEFINE now == scan[k].atoms
    <3>2. now = Append(old.atoms, atom)
      BY <2>1, <3>1
    <3>3. atom \in A
      BY DEF A, AtomsOf, N, stops
    <3>4. Len(now) = n + 1 /\ now[n + 1] = atom
      BY <2>3, <3>2, <3>3, AppendProperties
    <3>5. k \in 0 .. Len(Stops(s))
      BY <1>1 DEF N, stops
    <3>6. Len(now) <= L /\ \A i \in 1 .. Len(now) : all[i] = now[i]
      BY <3>5, AtomsStay DEF scan, all, L
    <3>. HIDE DEF now, n, atom
    <3>. QED  BY <1>3, <2>3, <3>4, <3>6
  <2>. HIDE DEF old, n, atom, ink
  <2>5. atom # <<>> => Printed(n) \in V
                       /\ NoBlanks(WordText(Printed(n), matches)) = NoBlanks(atom)
    <3>1. SUFFICES ASSUME atom # <<>>
                   PROVE  Printed(n) \in V
                          /\ NoBlanks(WordText(Printed(n), matches)) = NoBlanks(atom)
      OBVIOUS
    <3>2. n \in 0 .. L - 1 /\ n + 1 \in 1 .. L
      BY <1>3, <2>3, <2>4, <3>1
    <3>3. WordText(Printed(n), matches) = MatchText(matches[n + 1])
      BY <2>3, NumberWord
    <3>4. NoBlanks(MatchText(matches[n + 1])) = NoBlanks(all[n + 1])
      BY <1>4, <3>2
    <3>. QED  BY <2>4, <3>1, <3>2, <3>3, <3>4
  <2>6. ~end => <<c>> \in V /\ WordText(<<c>>, matches) = <<c>>
    <3>1. SUFFICES ASSUME ~end PROVE <<c>> \in V /\ WordText(<<c>>, matches) = <<c>>
      OBVIOUS
    <3>2. c \in Operators /\ c \in T
      <4>1. k \in 1 .. N - 1
        BY <1>1, <3>1
      <4>2. stops[k] \in 1 .. Len(s) /\ s[stops[k]] \in Operators
        BY <4>1, StopsAre DEF N, stops
      <4>. QED  BY <4>2
    <3>. QED  BY <3>2, SignWord
  <2>. HIDE DEF V
  <2>7. Reads(old.expr, ink(k - 1), V, matches)
    BY <1>7 DEF old
  <2>8. old.expr \in Seq(V)
    BY <2>7 DEF Reads
  <2>. DEFINE first == NoBlanks(atom)
              second == NoBlanks(sign)
              before == ink(k - 1)
  <2>9. GoesOn(old.expr, mid, first, V, matches)
    <3>1. CASE atom = <<>>
      BY <2>8, <3>1, ConcatEmptySeq, NoBlanksNone DEF GoesOn
    <3>2. CASE atom # <<>>
      BY <2>5, <3>2 DEF GoesOn
    <3>. QED  BY <3>1, <3>2
  <2>. HIDE DEF mid
  <2>10. mid \in Seq(V) => GoesOn(mid, new, second, V, matches)
    <3>1. CASE end
      BY <3>1, ConcatEmptySeq, NoBlanksNone DEF GoesOn
    <3>2. CASE ~end
      BY <2>6, <3>2 DEF GoesOn
    <3>. QED  BY <3>1, <3>2
  <2>. HIDE DEF new, first, second, before
  <2>11. Reads(mid, before \o first, V, matches)
    BY <1>5, <2>7, <2>9, WordOrNone DEF before
  <2>12. GoesOn(mid, new, second, V, matches)
    BY <2>10, <2>11 DEF Reads
  <2>13. Reads(new, (before \o first) \o second, V, matches)
    BY <1>5, <2>11, <2>12, WordOrNone
  <2>14. ink(k) = (before \o first) \o second
    BY <2>2 DEF before, first, second
  <2>. QED  BY <2>1, <2>13, <2>14
<1>. HIDE DEF Good
<1>8. Good(N)
  <2>. DEFINE G == {k \in 0 .. N : Good(k)}
  <2>1. ASSUME NEW k \in 0 .. N, \A j \in 0 .. k - 1 : Good(j) PROVE Good(k)
    <3>1. CASE k = 0
      BY <1>6, <3>1
    <3>2. CASE k # 0
      <4>1. k \in 1 .. N /\ k - 1 \in 0 .. k - 1
        BY <1>1, <3>2
      <4>. QED  BY <1>7, <2>1, <4>1
    <3>. QED  BY <3>1, <3>2
  <2>2. \A k \in 0 .. N : (\A j \in 0 .. k - 1 : j \in G) => k \in G
    BY <2>1
  <2>. HIDE DEF G
  <2>3. \A k \in 0 .. N : k \in G
    BY <1>1, <2>2, NumbersKeep
  <2>4. N \in 0 .. N
    BY <1>1
  <2>. QED  BY <2>3, <2>4 DEF G
<1>9. ink(N) = NoBlanks(s)
  <2>1. ReadUpTo(s, N) = Len(s)
    <3>1. N # 0
      BY StopsAre DEF N, stops
    <3>. QED  BY <3>1 DEF ReadUpTo, N, stops
  <2>2. SubSeq(s, 1, Len(s)) = s
    BY SubSeqFull
  <2>. QED  BY <2>1, <2>2
<1>10. Scanned(s).expr = scan[N].expr
  BY DEF Scanned, scan, N, stops
<1>. QED  BY <1>8, <1>9, <1>10 DEF Good, Reads

(* Put together again, an expression that is made is the text it was made  *)
(* from, but for blanks.                                                   *)
LEMMA ExpressionWhole ==
    ASSUME NEW T, NEW s \in Seq(T), MatchMade(s)
    PROVE  NoBlanks(ExpressionText(NewBooleanExpression(s))) = NoBlanks(s)
<1>. DEFINE W == T \cup {"hal", ".", "="}
            x == NewBooleanExpression(s)
            expr == Scanned(s).expr
            atoms == Scanned(s).atoms
            matches == [i \in DOMAIN atoms |-> NewMatch(atoms[i])]
<1>1. s \in Seq(W) /\ {"hal", ".", "="} \subseteq W
  OBVIOUS
<1>. HIDE DEF W
<1>2. /\ \A i \in DOMAIN matches : matches[i].property # NoName
      /\ x.expression_string = expr /\ x.matches = matches
  BY DEF MatchMade, NewBooleanExpression
<1>3. ExpressionText(x) = FlattenSeq(WordTexts(expr, matches))
  <2>. HIDE DEF x, expr, matches
  <2>. QED  BY <1>2 DEF ExpressionText, WordTexts, WordText
<1>. DEFINE m == matches
<1>4. m = [i \in DOMAIN Scanned(s).atoms |-> NewMatch(Scanned(s).atoms[i])]
  OBVIOUS
<1>5. \A i \in DOMAIN m : m[i].property # NoName
  BY <1>2
<1>. HIDE DEF m, x, expr
<1>6. InkOf(Scanned(s).expr, m) = NoBlanks(s)
  BY <1>1, <1>4, <1>5, ScanText
<1>. QED  BY <1>3, <1>6 DEF x, expr, m, InkOf

-----------------------------------------------------------------------------
(* The texts that are read are those of the configuration.                 *)

TextsOK ==
    /\ start \in Starts
    /\ pc = "find" => Searched
    /\ \A i \in DOMAIN conffiles : conffiles[i].document \in Documents(start)
    /\ node \in Nat

LEMMA TextsInit == Init => TextsOK
<1>1. SUFFICES ASSUME Init PROVE TextsOK
  OBVIOUS
<1>2. start \in Starts /\ node \in Nat
  BY <1>1 DEF Init
<1>3. pc = "find" => Searched
  BY <1>1 DEF Init, Searched
<1>4. ASSUME NEW i \in DOMAIN conffiles PROVE conffiles[i].document \in Documents(start)
  <2>1. i \in DOMAIN start.given /\ conffiles[i].document = start.given[i]
    BY <1>1, <1>4 DEF Init
  <2>2. start.given[i] \in ToSet(start.given)
    BY <2>1 DEF ToSet
  <2>. QED  BY <2>1, <2>2 DEF Documents
<1>. QED  BY <1>2, <1>3, <1>4 DEF TextsOK

LEMMA TextsNext == SearchOK /\ TextsOK /\ [Next]_vars => TextsOK'
<1>1. SUFFICES ASSUME SearchOK, TextsOK, [Next]_vars PROVE TextsOK'
  OBVIOUS
<1>2. CASE ReadEntry
  <2>1. Searched /\ pc' = pc /\ start' = start /\ Searched' /\ node' = node
    BY <1>1, <1>2 DEF ReadEntry, TextsOK, Searched
  <2>2. PICK name \in unread :
            LET entry == Directories[dir][name]
            IN  conffiles' =
                    IF entry.kind = "regular" /\ ConfName(name) /\ ~AlreadyFound(name)
                    THEN Append(conffiles, [name |-> name, dir |-> dir,
                                            document |-> entry.document])
                    ELSE conffiles
    BY <1>2 DEF ReadEntry
  <2>. DEFINE f == [name |-> name, dir |-> dir, document |-> Directories[dir][name].document]
  <2>3. f.document \in Documents(start)
    <3>1. dir \in 1 .. 3 /\ name \in DOMAIN Directories[dir]
      BY <1>1, <2>1, <2>2 DEF SearchOK
    <3>2. Directories[dir] \in {start.home, start.sysconf, start.data}
      BY <3>1 DEF Directories
    <3>3. f.document = Directories[dir][name].document
      OBVIOUS
    <3>. HIDE DEF f
    <3>. QED  BY <3>1, <3>2, <3>3 DEF Documents
  <2>4. /\ Len(conffiles) \in Nat /\ conffiles = [i \in 1 .. Len(conffiles) |-> conffiles[i]]
    BY <1>1, <2>1 DEF SearchOK
  <2>5. \A i \in DOMAIN conffiles : conffiles[i].document \in Documents(start)
    BY <1>1 DEF TextsOK
  <2>6. CASE conffiles' = conffiles
    BY <1>1, <2>1, <2>6 DEF TextsOK
  <2>7. CASE conffiles' = Append(conffiles, f)
    <3>. DEFINE n == Len(conffiles)
    <3>. HIDE DEF f
    <3>1. /\ Len(conffiles') = n + 1 /\ conffiles' = [i \in 1 .. Len(conffiles') |-> conffiles'[i]]
          /\ conffiles'[n + 1] = f
          /\ \A i \in 1 .. n : conffiles'[i] = conffiles[i]
      BY <2>4, <2>7, AppendFile
    <3>2. ASSUME NEW i \in DOMAIN conffiles' PROVE conffiles'[i].document \in Documents(start)
      <4>1. i \in 1 .. n + 1
        BY <3>1, <3>2
      <4>2. CASE i = n + 1
        BY <2>3, <3>1, <4>2
      <4>3. CASE i # n + 1
        <5>1. i \in 1 .. n /\ i \in DOMAIN conffiles
          BY <2>4, <4>1, <4>3
        <5>. QED  BY <2>5, <3>1, <5>1
      <4>. QED  BY <4>2, <4>3
    <3>3. node \in Nat /\ start \in Starts
      BY <1>1 DEF TextsOK
    <3>. QED  BY <2>1, <3>2, <3>3 DEF TextsOK
  <2>. QED  BY <2>2, <2>6, <2>7
<1>3. ASSUME UNCHANGED <<start, conffiles>>, pc' = "find" => pc = "find", node' \in Nat
      PROVE  TextsOK'
  BY <1>1, <1>3 DEF TextsOK, Searched
<1>4. node \in Nat /\ node + 1 \in Nat /\ 0 \in Nat
  BY <1>1 DEF TextsOK
<1>. QED
  BY <1>1, <1>2, <1>3, <1>4
     DEF Next, vars, OpenDirectory, AllFound, BadFile, FileDone, Loaded, AddRule, AddCondition,
         AddProperty, AddPropertyValue, PropertyDone, PassOver, AddTo, NextElement,
         Parsing, AtElement

(* What there is in a document: texts.                                     *)
LEMMA RulesReadable ==
    ASSUME start \in Starts, NEW doc \in Documents(start)
    PROVE  /\ IsList(RuleElements(doc))
           /\ \A w \in ToSet(RuleElements(doc)) : IsList(w.match) /\ ReadableElement(w.element)
<1>. DEFINE devices == doc.devices
            R == [match : {d.match : d \in ToSet(devices)},
                  element : UNION {ToSet(d.children) : d \in ToSet(devices)}]
            Good(r) == IsList(r.match) /\ ReadableElement(r.element)
            S == {r \in R : Good(r)}
            Of(d) == IF devices[d].tag = "Device" /\ devices[d].match # Missing
                     THEN [c \in DOMAIN devices[d].children |->
                              [match |-> devices[d].match, element |-> devices[d].children[c]]]
                     ELSE <<>>
            seqs == [d \in DOMAIN devices |-> Of(d)]
<1>1. IsList(devices) /\ \A d \in ToSet(devices) : ReadableDevice(d)
  BY StartsAssumption
<1>2. \A d \in DOMAIN devices : Of(d) \in Seq(S)
  <2>. SUFFICES ASSUME NEW d \in DOMAIN devices PROVE Of(d) \in Seq(S)
    <3>. HIDE DEF Of, S
    <3>. QED  OBVIOUS
  <2>0. CASE ~(devices[d].tag = "Device" /\ devices[d].match # Missing)
    <3>1. Of(d) = <<>>
      BY <2>0
    <3>. HIDE DEF Of, S
    <3>. QED  BY <3>1, EmptySeq
  <2>1. SUFFICES ASSUME devices[d].tag = "Device" /\ devices[d].match # Missing
                 PROVE  Of(d) \in Seq(S)
    <3>. HIDE DEF Of, S
    <3>. QED  BY <2>0
  <2>. DEFINE device == devices[d]
  <2>2. device \in ToSet(devices)
    BY <2>1 DEF ToSet
  <2>3. ReadableDevice(device)
    BY <1>1, <2>2
  <2>4. /\ IsList(device.match) /\ IsList(device.children)
        /\ \A e \in ToSet(device.children) : ReadableElement(e)
    BY <2>3 DEF ReadableDevice
  <2>. DEFINE kids == device.children
              wanted == [c \in DOMAIN kids |-> [match |-> device.match, element |-> kids[c]]]
  <2>5. /\ kids \in Seq(ToSet(kids)) /\ Len(kids) \in Nat /\ DOMAIN kids = 1 .. Len(kids)
    BY <2>4, LenProperties DEF IsList
  <2>6. ASSUME NEW c \in DOMAIN kids PROVE [match |-> device.match, element |-> kids[c]] \in S
    <3>. DEFINE r == [match |-> device.match, element |-> kids[c]]
    <3>1. kids[c] \in ToSet(kids)
      BY <2>6 DEF ToSet
    <3>2. r.match = device.match /\ r.element = kids[c]
      OBVIOUS
    <3>3. Good(r)
      BY <2>4, <3>1, <3>2
    <3>4. r \in R
      BY <2>2, <3>1
    <3>. HIDE DEF Good, R, r
    <3>5. r \in S
      BY <3>3, <3>4
    <3>. QED  BY <3>5 DEF r
  <2>7. Of(d) = wanted
    BY <2>1
  <2>. HIDE DEF S, kids, device
  <2>8. wanted \in Seq(S)
    <3>. DEFINE m == device.match
                n == Len(kids)
    <3>1. wanted = [c \in 1 .. n |-> [match |-> m, element |-> kids[c]]]
      BY <2>5
    <3>2. \A c \in 1 .. n : [match |-> m, element |-> kids[c]] \in S
      BY <2>5, <2>6
    <3>3. n \in Nat
      BY <2>5
    <3>. HIDE DEF wanted, m, n
    <3>. QED  BY <3>1, <3>2, <3>3
  <2>. QED  BY <2>7, <2>8
<1>3. seqs \in Seq(Seq(S))
  <2>1. Len(devices) \in Nat /\ DOMAIN devices = 1 .. Len(devices)
    BY <1>1, LenProperties DEF IsList
  <2>. HIDE DEF Of, S, devices
  <2>2. seqs = [d \in 1 .. Len(devices) |-> Of(d)] /\ \A d \in 1 .. Len(devices) : Of(d) \in Seq(S)
    BY <1>2, <2>1
  <2>. HIDE DEF seqs
  <2>. QED  BY <2>1, <2>2
<1>4. RuleElements(doc) = FlattenSeq(seqs)
  BY DEF RuleElements
<1>5. RuleElements(doc) \in Seq(S)
  <2>. HIDE DEF S, seqs
  <2>. QED  BY <1>3, <1>4, FlattenType
<1>. DEFINE rules == RuleElements(doc)
<1>6. /\ Len(rules) \in Nat /\ DOMAIN rules = 1 .. Len(rules)
      /\ rules = [i \in 1 .. Len(rules) |-> rules[i]]
      /\ \A i \in 1 .. Len(rules) : rules[i] \in S
  <2>. HIDE DEF rules, S
  <2>. QED  BY <1>5 DEF rules
<1>7. rules \in Seq(ToSet(rules))
  <2>. HIDE DEF rules, S
  <2>1. \A i \in 1 .. Len(rules) : rules[i] \in ToSet(rules)
    BY <1>6 DEF ToSet
  <2>. DEFINE n == Len(rules)
              V == ToSet(rules)
  <2>2. n \in Nat /\ rules = [i \in 1 .. n |-> rules[i]] /\ \A i \in 1 .. n : rules[i] \in V
    BY <1>6, <2>1
  <2>. HIDE DEF n, V
  <2>3. rules \in Seq(V)
    BY <2>2
  <2>. QED  BY <2>3 DEF V
<1>8. \A w \in ToSet(rules) : w \in S
  <2>. HIDE DEF rules, S
  <2>. QED  BY <1>6 DEF ToSet
<1>9. \A w \in ToSet(rules) : Good(w)
  <2>. HIDE DEF rules, Good
  <2>. QED  BY <1>8
<1>. QED  BY <1>7, <1>9 DEF IsList

(* What there is at an element: texts.                                     *)
LEMMA AtHand ==
    ASSUME TextsOK, AtElement
    PROVE  /\ IsList(CurrentMatch) /\ ReadableElement(Current)
           /\ \A t \in ExecsAtHand : IsList(t)
<1>1. Document \in Documents(start) /\ start \in Starts
  BY DEF TextsOK, AtElement, Parsing, Document
<1>2. IsList(Elements) /\ \A w \in ToSet(Elements) : IsList(w.match) /\ ReadableElement(w.element)
  BY <1>1, RulesReadable DEF Elements
<1>3. node + 1 \in 1 .. Len(Elements) /\ DOMAIN Elements = 1 .. Len(Elements)
  <2>1. Len(Elements) \in Nat /\ DOMAIN Elements = 1 .. Len(Elements)
    BY <1>2, LenProperties DEF IsList
  <2>. QED  BY <2>1 DEF TextsOK, AtElement
<1>4. Elements[node + 1] \in ToSet(Elements)
  BY <1>3 DEF ToSet
<1>5. IsList(CurrentMatch) /\ ReadableElement(Current)
  BY <1>2, <1>4 DEF CurrentMatch, Current
<1>6. \A t \in ExecsAtHand : IsList(t)
  BY <1>5 DEF ExecsAtHand, ReadableElement
<1>. QED  BY <1>5, <1>6

(* Whatever the commands are: none has more pieces than the array has      *)
(* places that was made for them.                                          *)
THEOREM ElementsAlwaysFit == Spec => []ElementsFit
<1>1. TextsOK => ElementsFit
  <2>1. SUFFICES ASSUME TextsOK, NEW t \in ExecsAtHand
                 PROVE  Len(CutElements(t)) <= CountElements(t) + 1
    BY DEF ElementsFit
  <2>2. AtElement
    BY <2>1 DEF ExecsAtHand
  <2>3. t \in Seq(ToSet(t))
    BY <2>1, <2>2, AtHand DEF IsList
  <2>. QED  BY <2>3, CountEnough
<1>. QED  BY <1>1, SearchInit, SearchNext, TextsInit, TextsNext, PTL DEF Spec

(* Whatever the commands are: put together again, the elements a command   *)
(* is cut into are the command, and what is a name in it is that name.     *)
THEOREM ExecsAreWhole == Spec => []ExecFaithful
<1>1. TextsOK => ExecFaithful
  <2>1. SUFFICES ASSUME TextsOK, NEW t \in ExecsAtHand, ExecMade(t)
                 PROVE  ExecText(NewExec(t)) = t
    BY DEF ExecFaithful
  <2>2. AtElement
    BY <2>1 DEF ExecsAtHand
  <2>3. t \in Seq(ToSet(t))
    BY <2>1, <2>2, AtHand DEF IsList
  <2>. QED  BY <2>1, <2>3, ExecWhole
<1>. QED  BY <1>1, SearchInit, SearchNext, TextsInit, TextsNext, PTL DEF Spec

(* Whatever the match expressions are: the atoms and the expression they   *)
(* are put in have room enough.                                            *)
THEOREM ScansAlwaysFit == Spec => []ScanFits
<1>1. TextsOK => ScanFits
  <2>1. SUFFICES ASSUME TextsOK, AtElement PROVE ScanFits
    BY DEF ScanFits
  <2>2. CurrentMatch \in Seq(ToSet(CurrentMatch))
    BY <2>1, AtHand DEF IsList
  <2>. QED  BY <2>2, ScanBounded DEF ScanFits
<1>. QED  BY <1>1, SearchInit, SearchNext, TextsInit, TextsNext, PTL DEF Spec

(* Whatever the match expressions are: put together again, each number     *)
(* being the match that halevt_value_true finds by it, the expression is   *)
(* the text of the configuration, but for blanks.                          *)
THEOREM MatchesAreWhole == Spec => []MatchFaithful
<1>1. TextsOK => MatchFaithful
  <2>1. SUFFICES ASSUME TextsOK, AtElement, MatchMade(CurrentMatch)
                 PROVE  NoBlanks(ExpressionText(NewBooleanExpression(CurrentMatch)))
                            = NoBlanks(CurrentMatch)
    BY DEF MatchFaithful
  <2>2. CurrentMatch \in Seq(ToSet(CurrentMatch))
    BY <2>1, AtHand DEF IsList
  <2>. QED  BY <2>1, <2>2, ExpressionWhole
<1>. QED  BY <1>1, SearchInit, SearchNext, TextsInit, TextsNext, PTL DEF Spec

-----------------------------------------------------------------------------
(* The rules that are loaded: what sequences they are in.                  *)

(* What p makes of the members of a sequence, last one first.              *)
Each(p, ws) == [i \in DOMAIN ws |-> p[ws[i]]]
LastFirst(p, ws) == Reverse(FlattenSeq(Each(p, ws)))

-----------------------------------------------------------------------------
(* Sequences from the last to the first.                                   *)

LEMMA ReverseType ==
    ASSUME NEW S, NEW s \in Seq(S)
    PROVE  /\ Reverse(s) \in Seq(S) /\ Len(Reverse(s)) = Len(s)
           /\ \A i \in 1 .. Len(s) : Reverse(s)[i] = s[(Len(s) - i) + 1]
<1>. DEFINE n == Len(s)
            back == [i \in 1 .. n |-> s[(n - i) + 1]]
<1>1. n \in Nat /\ \A i \in 1 .. n : s[(n - i) + 1] \in S
  <2>1. n \in Nat /\ \A i \in 1 .. n : s[i] \in S
    OBVIOUS
  <2>2. \A i \in 1 .. n : (n - i) + 1 \in 1 .. n
    <3>. HIDE DEF n
    <3>. QED  BY <2>1
  <2>. HIDE DEF n
  <2>. QED  BY <2>1, <2>2
<1>2. Reverse(s) = back
  BY DEF Reverse
<1>3. back \in Seq(S) /\ Len(back) = n /\ \A i \in 1 .. n : back[i] = s[(n - i) + 1]
  <2>. HIDE DEF n
  <2>. QED  BY <1>1
<1>. QED  BY <1>2, <1>3

LEMMA ReverseAdd ==
    ASSUME NEW S, NEW s \in Seq(S), NEW x \in Seq(S), Len(x) <= 1
    PROVE  Reverse(s \o x) = x \o Reverse(s)
<1>. DEFINE n == Len(s)
            k == Len(x)
            sx == s \o x
            back == Reverse(s)
            all == Reverse(sx)
            xb == x \o back
<1>1. /\ n \in Nat /\ k \in {0, 1} /\ sx \in Seq(S) /\ Len(sx) = n + k
      /\ \A i \in 1 .. n + k : sx[i] = IF i <= n THEN s[i] ELSE x[i - n]
  <2>1. n \in Nat /\ k \in Nat
    BY LenProperties
  <2>2. k \in {0, 1}
    <3>1. k \in Nat /\ k <= 1
      BY <2>1
    <3>. HIDE DEF k
    <3>. QED  BY <3>1
  <2>. QED  BY <2>1, <2>2, ConcatProperties
<1>2. /\ back \in Seq(S) /\ Len(back) = n
      /\ \A i \in 1 .. n : back[i] = s[(n - i) + 1]
  BY ReverseType
<1>. HIDE DEF sx
<1>3. /\ all \in Seq(S) /\ Len(all) = n + k
      /\ \A i \in 1 .. n + k : all[i] = sx[((n + k) - i) + 1]
  <2>1. /\ Reverse(sx) \in Seq(S) /\ Len(Reverse(sx)) = Len(sx)
        /\ \A i \in 1 .. Len(sx) : Reverse(sx)[i] = sx[(Len(sx) - i) + 1]
    BY ONLY <1>1, ReverseType
  <2>. HIDE DEF n, k
  <2>. QED  BY <1>1, <2>1
<1>. HIDE DEF back, all
<1>4. /\ xb \in Seq(S) /\ Len(xb) = k + n
      /\ \A i \in 1 .. k + n : xb[i] = IF i <= k THEN x[i] ELSE back[i - k]
  BY <1>2, ConcatProperties
<1>. HIDE DEF xb, n, k
<1>5. ASSUME NEW i \in 1 .. n + k PROVE all[i] = xb[i]
  <2>1. i \in 1 .. k + n /\ ((n + k) - i) + 1 \in 1 .. n + k
    BY <1>1
  <2>2. CASE i <= k
    <3>1. k = 1 /\ i = 1 /\ ((n + k) - i) + 1 = n + 1 /\ ~(n + 1 <= n) /\ (n + 1) - n = 1
      BY <1>1, <2>2
    <3>. QED  BY <1>1, <1>3, <1>4, <2>1, <3>1
  <2>3. CASE ~(i <= k)
    <3>1. i - k \in 1 .. n /\ ((n + k) - i) + 1 = (n - (i - k)) + 1 /\ ((n + k) - i) + 1 <= n
      BY <1>1, <2>3
    <3>2. all[i] = sx[((n + k) - i) + 1]
      BY <1>3
    <3>3. sx[((n + k) - i) + 1] = s[((n + k) - i) + 1]
      BY <1>1, <2>1, <3>1
    <3>4. xb[i] = back[i - k]
      BY <1>4, <2>1, <2>3
    <3>. QED  BY <1>2, <3>1, <3>2, <3>3, <3>4
  <2>. QED  BY <2>2, <2>3
<1>6. all = xb
  <2>1. Len(all) = Len(xb)
    BY <1>1, <1>3, <1>4
  <2>. QED  BY <1>3, <1>4, <1>5, <2>1, SeqEqual
<1>. QED  BY <1>6 DEF all, xb, sx, back

(* What p makes of each.                                                   *)
LEMMA EachOne ==
    ASSUME NEW W, NEW p, NEW ws \in Seq(W)
    PROVE  /\ Len(Each(p, ws)) = Len(ws)
           /\ Each(p, ws) = [i \in 1 .. Len(ws) |-> p[ws[i]]]
<1>. DEFINE n == Len(ws)
<1>1. n \in Nat /\ DOMAIN ws = 1 .. n
  OBVIOUS
<1>. HIDE DEF n
<1>2. Each(p, ws) = [i \in 1 .. n |-> p[ws[i]]]
  BY <1>1 DEF Each
<1>3. Len([i \in 1 .. n |-> p[ws[i]]]) = n
  BY <1>1
<1>. QED  BY <1>2, <1>3 DEF n

LEMMA EachType ==
    ASSUME NEW W, NEW S, NEW p \in [W -> Seq(S)], NEW ws \in Seq(W)
    PROVE  Each(p, ws) \in Seq(Seq(S))
<1>. DEFINE n == Len(ws)
            R == Seq(S)
<1>1. n \in Nat /\ \A i \in 1 .. n : p[ws[i]] \in R
  OBVIOUS
<1>2. Each(p, ws) = [i \in 1 .. n |-> p[ws[i]]]
  BY EachOne
<1>. HIDE DEF n, R
<1>3. [i \in 1 .. n |-> p[ws[i]]] \in Seq(R)
  BY <1>1
<1>. QED  BY <1>2, <1>3 DEF n, R

LEMMA LastFirstType ==
    ASSUME NEW W, NEW S, NEW p \in [W -> Seq(S)], NEW ws \in Seq(W)
    PROVE  LastFirst(p, ws) \in Seq(S)
<1>1. Each(p, ws) \in Seq(Seq(S))
  BY EachType
<1>2. FlattenSeq(Each(p, ws)) \in Seq(S)
  BY <1>1, FlattenType
<1>. QED  BY <1>2, ReverseType DEF LastFirst

LEMMA LastFirstNone ==
    ASSUME NEW p
    PROVE  LastFirst(p, <<>>) = <<>>
<1>1. Each(p, <<>>) = <<>>
  BY DEF Each
<1>2. FlattenSeq(<<>>) = <<>>
  BY DEF FlattenSeq
<1>3. Reverse(<<>>) = <<>>
  BY DEF Reverse
<1>. QED  BY <1>1, <1>2, <1>3 DEF LastFirst

(* One more makes its rule, or none, the first.                            *)
LEMMA LastFirstMore ==
    ASSUME NEW W, NEW S, NEW p \in [W -> Seq(S)], NEW ws \in Seq(W), NEW w \in W,
           Len(p[w]) <= 1
    PROVE  LastFirst(p, Append(ws, w)) = p[w] \o LastFirst(p, ws)
<1>. DEFINE n == Len(ws)
            more == Append(ws, w)
            each == Each(p, ws)
            eachmore == Each(p, more)
            x == p[w]
<1>1. /\ n \in Nat /\ more \in Seq(W) /\ Len(more) = n + 1 /\ more[n + 1] = w
      /\ \A i \in 1 .. n : more[i] = ws[i]
  BY AppendProperties, LenProperties
<1>2. /\ each \in Seq(Seq(S)) /\ Len(each) = n
      /\ \A i \in 1 .. n : each[i] = p[ws[i]]
  <2>1. each \in Seq(Seq(S))
    BY EachType
  <2>2. Len(each) = n
    BY EachOne
  <2>3. \A i \in 1 .. n : each[i] = p[ws[i]]
    BY EachOne
  <2>. QED  BY <2>1, <2>2, <2>3
<1>. HIDE DEF more, each
<1>3. /\ eachmore \in Seq(Seq(S)) /\ Len(eachmore) = Len(more)
      /\ \A i \in 1 .. Len(more) : eachmore[i] = p[more[i]]
  <2>1. eachmore \in Seq(Seq(S))
    BY <1>1, EachType
  <2>2. Len(eachmore) = Len(more)
    BY <1>1, EachOne
  <2>3. \A i \in 1 .. Len(more) : eachmore[i] = p[more[i]]
    BY <1>1, EachOne
  <2>. QED  BY <2>1, <2>2, <2>3
<1>4. x \in Seq(S) /\ Len(x) <= 1
  OBVIOUS
<1>. HIDE DEF x, eachmore, n
<1>5. eachmore = each \o <<x>>
  <2>. DEFINE ex == each \o <<x>>
              R == Seq(S)
  <2>0. <<x>> \in Seq(R) /\ Len(<<x>>) = 1 /\ <<x>>[1] = x /\ each \in Seq(R)
    BY <1>2, <1>4
  <2>. HIDE DEF R
  <2>1. /\ ex \in Seq(R) /\ Len(ex) = Len(each) + Len(<<x>>)
        /\ \A i \in 1 .. Len(each) + Len(<<x>>) : ex[i] = IF i <= Len(each) THEN each[i] ELSE <<x>>[i - Len(each)]
    BY ONLY <2>0, ConcatProperties
  <2>. HIDE DEF ex
  <2>2. /\ Len(ex) = n + 1
        /\ \A i \in 1 .. n + 1 : ex[i] = IF i <= n THEN each[i] ELSE <<x>>[i - n]
    BY <1>2, <2>0, <2>1
  <2>3. ASSUME NEW i \in 1 .. n + 1 PROVE ex[i] = eachmore[i]
    <3>1. eachmore[i] = p[more[i]]
      BY <1>1, <1>3
    <3>2. CASE i <= n
      <4>1. i \in 1 .. n
        BY <1>1, <3>2
      <4>. QED  BY <1>1, <1>2, <2>2, <3>1, <3>2, <4>1
    <3>3. CASE ~(i <= n)
      <4>1. i = n + 1 /\ i - n = 1
        BY <1>1, <3>3
      <4>. QED  BY <1>1, <2>0, <2>2, <3>1, <3>3, <4>1 DEF x
    <3>. QED  BY <3>2, <3>3
  <2>4. eachmore \in Seq(R) /\ Len(eachmore) = n + 1
    BY <1>1, <1>3 DEF R
  <2>5. eachmore = ex
    BY <2>1, <2>2, <2>3, <2>4, SeqEqual
  <2>. QED  BY <2>5 DEF ex
<1>6. FlattenSeq(eachmore) = FlattenSeq(each) \o x
  <2>1. <<x>> \in Seq(Seq(S)) /\ FlattenSeq(<<x>>) = x
    BY <1>4, FlattenOne
  <2>. QED  BY <1>2, <1>5, <2>1, FlattenJoin, ZenonT(30)
<1>7. FlattenSeq(each) \in Seq(S)
  BY <1>2, FlattenType
<1>8. Reverse(FlattenSeq(eachmore)) = x \o Reverse(FlattenSeq(each))
  BY <1>4, <1>6, <1>7, ReverseAdd
<1>. QED  BY <1>8 DEF LastFirst, x, eachmore, each, more
-----------------------------------------------------------------------------
(* Lists that get a new first member.                                      *)

LEMMA Listed ==
    ASSUME NEW s, IsList(s)
    PROVE  Len(s) \in Nat /\ DOMAIN s = 1 .. Len(s) /\ s = [i \in 1 .. Len(s) |-> s[i]]
<1>1. s \in Seq(ToSet(s))
  BY DEF IsList
<1>2. \A V : s \in Seq(V) => Len(s) \in Nat /\ DOMAIN s = 1 .. Len(s)
                           /\ s = [i \in 1 .. Len(s) |-> s[i]]
  OBVIOUS
<1>. QED  BY <1>1, <1>2

LEMMA ListOf ==
    ASSUME NEW V, NEW s \in Seq(V)
    PROVE  IsList(s)
<1>. DEFINE n == Len(s)
            U == ToSet(s)
<1>1. n \in Nat /\ DOMAIN s = 1 .. n /\ s = [i \in 1 .. n |-> s[i]]
  OBVIOUS
<1>2. \A i \in 1 .. n : s[i] \in U
  <2>. HIDE DEF n
  <2>. QED  BY <1>1 DEF ToSet
<1>. HIDE DEF n, U
<1>3. s \in Seq(U)
  BY <1>1, <1>2
<1>. QED  BY <1>3 DEF IsList, U

LEMMA ListIs ==
    ASSUME NEW n \in Nat, NEW s, s = [i \in 1 .. n |-> s[i]]
    PROVE  IsList(s) /\ Len(s) = n
<1>. DEFINE V == {s[i] : i \in 1 .. n}
<1>1. \A i \in 1 .. n : s[i] \in V
  OBVIOUS
<1>. HIDE DEF V
<1>2. s \in Seq(V) /\ Len(s) = n
  BY <1>1
<1>. QED  BY <1>2, ListOf

LEMMA FrontAdded ==
    ASSUME NEW s, NEW r, IsList(s)
    PROVE  /\ IsList(InFront(r, s)) /\ Len(InFront(r, s)) = Len(s) + 1
           /\ InFront(r, s)[1] = r
           /\ \A i \in 1 .. Len(s) : InFront(r, s)[i + 1] = s[i]
           /\ ToSet(InFront(r, s)) = ToSet(s) \cup {r}
<1>. DEFINE V == ToSet(s) \cup {r}
            n == Len(s)
            t == InFront(r, s)
<1>1. n \in Nat /\ DOMAIN s = 1 .. n /\ s = [i \in 1 .. n |-> s[i]]
  BY Listed
<1>2. \A i \in 1 .. n : s[i] \in V
  <2>. HIDE DEF n
  <2>. QED  BY <1>1 DEF ToSet
<1>3. s \in Seq(V) /\ <<r>> \in Seq(V) /\ Len(<<r>>) = 1 /\ <<r>>[1] = r
  <2>1. r \in V
    OBVIOUS
  <2>. HIDE DEF V, n
  <2>. QED  BY <1>1, <1>2, <2>1
<1>. HIDE DEF V
<1>0. t = <<r>> \o s
  BY DEF InFront
<1>. HIDE DEF t
<1>4. /\ t \in Seq(V) /\ Len(t) = Len(<<r>>) + Len(s)
      /\ \A i \in 1 .. Len(<<r>>) + Len(s) :
            t[i] = IF i <= Len(<<r>>) THEN <<r>>[i] ELSE s[i - Len(<<r>>)]
  BY ONLY <1>0, <1>3, ConcatProperties
<1>. HIDE DEF n
<1>5. Len(t) = n + 1 /\ \A i \in 1 .. 1 + n : t[i] = IF i <= 1 THEN r ELSE s[i - 1]
  BY <1>1, <1>3, <1>4 DEF n
<1>6. t[1] = r
  BY <1>1, <1>5
<1>7. \A i \in 1 .. n : t[i + 1] = s[i]
  <2>1. SUFFICES ASSUME NEW i \in 1 .. n PROVE t[i + 1] = s[i]
    OBVIOUS
  <2>2. i + 1 \in 1 .. 1 + n /\ ~(i + 1 <= 1) /\ (i + 1) - 1 = i
    BY <1>1
  <2>. QED  BY <1>5, <2>2
<1>8. IsList(t)
  BY <1>4, ListOf
<1>9. DOMAIN t = 1 .. n + 1
  BY <1>5, <1>8, Listed
<1>10. ToSet(t) = ToSet(s) \cup {r}
  <2>1. ASSUME NEW m \in ToSet(t) PROVE m \in ToSet(s) \cup {r}
    <3>1. PICK i \in 1 .. n + 1 : m = t[i]
      BY <1>9 DEF ToSet
    <3>2. CASE i = 1
      BY <1>6, <3>1, <3>2
    <3>3. CASE i # 1
      <4>1. i - 1 \in 1 .. n /\ (i - 1) + 1 = i
        BY <1>1, <3>3
      <4>. QED  BY <1>1, <1>7, <3>1, <4>1 DEF ToSet
    <3>. QED  BY <3>2, <3>3
  <2>2. ASSUME NEW m \in ToSet(s) PROVE m \in ToSet(t)
    <3>1. PICK i \in 1 .. n : m = s[i]
      BY <1>1 DEF ToSet
    <3>2. i + 1 \in 1 .. n + 1
      BY <1>1
    <3>. QED  BY <1>7, <1>9, <3>1, <3>2 DEF ToSet
  <2>3. r \in ToSet(t)
    <3>1. 1 \in 1 .. n + 1
      BY <1>1
    <3>. QED  BY <1>6, <1>9, <3>1 DEF ToSet
  <2>. QED  BY <2>1, <2>2, <2>3
<1>. QED  BY <1>5, <1>6, <1>7, <1>8, <1>10 DEF n, t

LEMMA FrontIs ==
    ASSUME NEW u, NEW v, NEW m, IsList(u), IsList(m), Len(u) = Len(m) + 1,
           u[1] = v, \A i \in 1 .. Len(m) : u[i + 1] = m[i]
    PROVE  u = InFront(v, m)
<1>. DEFINE t == InFront(v, m)
            n == Len(m)
<1>1. n \in Nat /\ u = [i \in 1 .. n + 1 |-> u[i]]
  BY Listed
<1>2. /\ IsList(t) /\ Len(t) = n + 1 /\ t[1] = v /\ \A i \in 1 .. n : t[i + 1] = m[i]
  BY FrontAdded
<1>. HIDE DEF t
<1>3. t = [i \in 1 .. n + 1 |-> t[i]]
  BY <1>2, Listed
<1>4. ASSUME NEW i \in 1 .. n + 1 PROVE t[i] = u[i]
  <2>. HIDE DEF n
  <2>1. CASE i = 1
    BY <1>2, <2>1
  <2>2. CASE i # 1
    <3>1. i - 1 \in 1 .. n /\ (i - 1) + 1 = i
      BY <1>1, <2>2
    <3>. QED  BY <1>2, <3>1 DEF n
  <2>. QED  BY <2>1, <2>2
<1>5. t = u
  <2>. HIDE DEF n
  <2>. QED  BY <1>1, <1>3, <1>4
<1>. QED  BY <1>5 DEF t

(* A new first rule is seen as the first.                                  *)
LEMMA SeenFront ==
    ASSUME NEW kind, NEW s, NEW r, IsList(s)
    PROVE  /\ Seen(kind, InFront(r, s)) = InFront(<<r.match, ContentSeen(kind, r)>>, Seen(kind, s))
           /\ IsList(Seen(kind, s))
<1>. DEFINE n == Len(s)
            t == InFront(r, s)
            u == Seen(kind, t)
            m == Seen(kind, s)
            v == <<r.match, ContentSeen(kind, r)>>
<1>1. n \in Nat /\ DOMAIN s = 1 .. n
  BY Listed
<1>2. IsList(t) /\ Len(t) = n + 1 /\ t[1] = r /\ \A i \in 1 .. n : t[i + 1] = s[i]
  BY FrontAdded
<1>. HIDE DEF t
<1>3. DOMAIN t = 1 .. n + 1
  BY <1>2, Listed
<1>. HIDE DEF n
<1>4. /\ u = [i \in 1 .. n + 1 |-> u[i]]
      /\ \A i \in 1 .. n + 1 : u[i] = <<t[i].match, ContentSeen(kind, t[i])>>
  BY <1>3 DEF Seen
<1>5. /\ m = [i \in 1 .. n |-> m[i]]
      /\ \A i \in 1 .. n : m[i] = <<s[i].match, ContentSeen(kind, s[i])>>
  BY <1>1 DEF Seen
<1>. HIDE DEF u, m
<1>6. IsList(u) /\ Len(u) = n + 1
  BY <1>1, <1>4, ListIs
<1>7. IsList(m) /\ Len(m) = n
  BY <1>1, <1>5, ListIs
<1>8. u[1] = v
  <2>1. 1 \in 1 .. n + 1
    BY <1>1
  <2>. QED  BY <1>2, <1>4, <2>1
<1>9. \A i \in 1 .. n : u[i + 1] = m[i]
  <2>1. SUFFICES ASSUME NEW i \in 1 .. n PROVE u[i + 1] = m[i]
    OBVIOUS
  <2>2. i + 1 \in 1 .. n + 1
    BY <1>1
  <2>. QED  BY <1>2, <1>4, <1>5, <2>2
<1>. HIDE DEF v
<1>10. u = InFront(v, m)
  BY <1>6, <1>7, <1>8, <1>9, FrontIs
<1>. QED  BY <1>7, <1>10 DEF u, v, m, t

LEMMA ActionsFront ==
    ASSUME NEW s, NEW r, IsList(s)
    PROVE  /\ ActionsSeen(InFront(r, s)) = InFront(<<r.value, r.exec.string>>, ActionsSeen(s))
           /\ IsList(ActionsSeen(s))
<1>. DEFINE n == Len(s)
            t == InFront(r, s)
            u == ActionsSeen(t)
            m == ActionsSeen(s)
            v == <<r.value, r.exec.string>>
<1>1. n \in Nat /\ DOMAIN s = 1 .. n
  BY Listed
<1>2. IsList(t) /\ Len(t) = n + 1 /\ t[1] = r /\ \A i \in 1 .. n : t[i + 1] = s[i]
  BY FrontAdded
<1>. HIDE DEF t
<1>3. DOMAIN t = 1 .. n + 1
  BY <1>2, Listed
<1>. HIDE DEF n
<1>4. /\ u = [i \in 1 .. n + 1 |-> u[i]]
      /\ \A i \in 1 .. n + 1 : u[i] = <<t[i].value, t[i].exec.string>>
  BY <1>3 DEF ActionsSeen
<1>5. /\ m = [i \in 1 .. n |-> m[i]]
      /\ \A i \in 1 .. n : m[i] = <<s[i].value, s[i].exec.string>>
  BY <1>1 DEF ActionsSeen
<1>. HIDE DEF u, m
<1>6. IsList(u) /\ Len(u) = n + 1
  BY <1>1, <1>4, ListIs
<1>7. IsList(m) /\ Len(m) = n
  BY <1>1, <1>5, ListIs
<1>8. u[1] = v
  <2>1. 1 \in 1 .. n + 1
    BY <1>1
  <2>. QED  BY <1>2, <1>4, <2>1
<1>9. \A i \in 1 .. n : u[i + 1] = m[i]
  <2>1. SUFFICES ASSUME NEW i \in 1 .. n PROVE u[i + 1] = m[i]
    OBVIOUS
  <2>2. i + 1 \in 1 .. n + 1
    BY <1>1
  <2>. QED  BY <1>2, <1>4, <1>5, <2>2
<1>. HIDE DEF v
<1>10. u = InFront(v, m)
  BY <1>6, <1>7, <1>8, <1>9, FrontIs
<1>. QED  BY <1>7, <1>10 DEF u, v, m, t

-----------------------------------------------------------------------------
(* Parts that grow.                                                        *)

LEMMA AppendIs ==
    ASSUME NEW T, NEW s \in Seq(T), NEW x \in T
    PROVE  Append(s, x) = s \o <<x>>
<1>. DEFINE a == Append(s, x)
            b == s \o <<x>>
            n == Len(s)
<1>1. <<x>> \in Seq(T) /\ Len(<<x>>) = 1 /\ <<x>>[1] = x /\ n \in Nat
  OBVIOUS
<1>2. /\ a \in Seq(T) /\ Len(a) = n + 1 /\ a[n + 1] = x
      /\ \A i \in 1 .. n : a[i] = s[i]
  BY AppendProperties
<1>3. /\ b \in Seq(T) /\ Len(b) = n + Len(<<x>>)
      /\ \A i \in 1 .. n + Len(<<x>>) : b[i] = IF i <= n THEN s[i] ELSE <<x>>[i - n]
  BY <1>1, ConcatProperties
<1>. HIDE DEF a, b, n
<1>4. ASSUME NEW i \in 1 .. n + 1 PROVE a[i] = b[i]
  <2>1. b[i] = IF i <= n THEN s[i] ELSE <<x>>[i - n]
    BY <1>1, <1>3
  <2>2. CASE i \in 1 .. n
    BY <1>1, <1>2, <2>1, <2>2
  <2>3. CASE i = n + 1
    <3>1. ~(i <= n) /\ i - n = 1
      BY <1>1, <2>3
    <3>. QED  BY <1>1, <1>2, <2>1, <2>3, <3>1
  <2>. QED  BY <1>1, <2>2, <2>3
<1>5. a = b
  <2>1. Len(b) = n + 1
    BY <1>1, <1>3
  <2>. QED  BY <1>2, <1>3, <1>4, <2>1, SeqEqual
<1>. QED  BY <1>5 DEF a, b

(* A sequence of sequences, flattened up to one more.                      *)
LEMMA FlattenGrows ==
    ASSUME NEW S, NEW seqs \in Seq(Seq(S)), NEW n \in Nat, n + 1 <= Len(seqs)
    PROVE  /\ FlattenSeq(SubSeq(seqs, 1, n)) \in Seq(S)
           /\ FlattenSeq(SubSeq(seqs, 1, n + 1))
                 = FlattenSeq(SubSeq(seqs, 1, n)) \o seqs[n + 1]
<1>. DEFINE R == Seq(S)
            before == SubSeq(seqs, 1, n)
            x == seqs[n + 1]
<1>1. seqs \in Seq(R)
  OBVIOUS
<1>. HIDE DEF R
<1>2. /\ before \in Seq(R) /\ x \in R
      /\ SubSeq(seqs, 1, n + 1) = before \o <<x>>
  BY <1>1, PartGrows
<1>. HIDE DEF before, x
<1>3. x \in Seq(S) /\ before \in Seq(Seq(S)) /\ <<x>> \in Seq(Seq(S))
  <2>1. x \in R /\ <<x>> \in Seq(R)
    BY <1>2
  <2>. QED  BY <1>2, <2>1 DEF R
<1>4. FlattenSeq(<<x>>) = x /\ FlattenSeq(before) \in Seq(S)
  BY <1>3, FlattenOne, FlattenType
<1>5. FlattenSeq(before \o <<x>>) = FlattenSeq(before) \o FlattenSeq(<<x>>)
  BY <1>3, FlattenJoin
<1>. QED  BY <1>2, <1>4, <1>5 DEF before, x

-----------------------------------------------------------------------------
(* The rule elements that are done.                                        *)

(* The rule elements of each file found, and all there can be.             *)
Found == [i \in DOMAIN conffiles |-> RuleElements(conffiles[i].document)]
AllElements == UNION {ToSet(RuleElements(d)) : d \in Documents(start)}

(* The rule elements of files that are done, then those of the one at hand *)
(* up to a node.                                                           *)
DoneUpTo(n) ==
    FlattenSeq(SubSeq(Found, 1, file - 1))
        \o (IF file \in DOMAIN conffiles THEN SubSeq(Elements, 1, n) ELSE <<>>)

RulesAre(kind) == [w \in AllElements |-> RuleOf(kind, w)]
ActionsAre(x) == [a \in ToSet(x.actions) |-> ActionOf(a)]

(* The property rule whose actions are being read.                         *)
Half ==
    <<NewBooleanExpression(CurrentMatch),
      <<HalString(Current.name),
        LastFirst(ActionsAre(Current), SubSeq(Current.actions, 1, action - 1))>>>>

FilesOK ==
    /\ conffiles = [i \in 1 .. Len(conffiles) |-> conffiles[i]]
    /\ Len(conffiles) \in Nat

RulesTyped ==
    /\ DOMAIN roots = Kinds /\ roots = [kind \in Kinds |-> roots[kind]]
    /\ \A kind \in Kinds : IsList(roots[kind])
    /\ \A r \in ToSet(roots["property"]) :
          /\ r = [name |-> r.name, match |-> r.match, action |-> r.action]
          /\ IsList(r.action)

PlaceOK ==
    /\ pc = "find" =>
          file = 1 /\ node = 0 /\ action = 0 /\ \A kind \in Kinds : roots[kind] = <<>>
    /\ pc = "parse" =>
          /\ file \in 1 .. Len(conffiles) + 1
          /\ action \in Nat
          /\ file \in DOMAIN conffiles => node <= Len(Elements)
          /\ action > 0 =>
                /\ AtElement /\ Current.tag = "Property" /\ PropertyMade
                /\ action <= Len(Current.actions) + 1
                /\ roots["property"] # <<>>

ListsOK == FilesOK /\ RulesTyped /\ PlaceOK

(* Each list is what it should be of the elements that are done, and the   *)
(* property at hand is in front with those of its actions that are done.   *)
RootsOK ==
    pc = "parse" =>
        \A kind \in Kinds :
            Seen(kind, roots[kind]) =
                (IF kind = "property" /\ action > 0 THEN <<Half>> ELSE <<>>)
                    \o LastFirst(RulesAre(kind), DoneUpTo(node))

LEMMA FoundType ==
    ASSUME TextsOK, ListsOK
    PROVE  /\ Found \in Seq(Seq(AllElements)) /\ Len(Found) = Len(conffiles)
           /\ DOMAIN conffiles = 1 .. Len(conffiles)
           /\ \A i \in DOMAIN conffiles : Found[i] = RuleElements(conffiles[i].document)
<1>. DEFINE n == Len(conffiles)
            R == Seq(AllElements)
<1>1. n \in Nat /\ DOMAIN conffiles = 1 .. n
  BY DEF ListsOK, FilesOK
<1>2. ASSUME NEW i \in DOMAIN conffiles PROVE Found[i] \in R
  <2>. DEFINE doc == conffiles[i].document
              V == ToSet(RuleElements(doc))
  <2>1. doc \in Documents(start) /\ start \in Starts
    BY DEF TextsOK
  <2>2. RuleElements(doc) \in Seq(V)
    BY <2>1, RulesReadable DEF IsList
  <2>3. V \subseteq AllElements
    BY <2>1 DEF AllElements
  <2>. HIDE DEF V
  <2>4. RuleElements(doc) \in Seq(AllElements)
    BY <2>2, <2>3, SeqMonotonic
  <2>. QED  BY <2>4 DEF Found
<1>3. /\ Found = [i \in 1 .. n |-> Found[i]]
      /\ \A i \in DOMAIN conffiles : Found[i] = RuleElements(conffiles[i].document)
  BY <1>1 DEF Found
<1>. HIDE DEF n, R
<1>4. Found \in Seq(R) /\ Len(Found) = n
  <2>1. \A i \in 1 .. n : Found[i] \in R
    BY <1>1, <1>2
  <2>. DEFINE f == Found
  <2>2. f = [i \in 1 .. n |-> f[i]] /\ \A i \in 1 .. n : f[i] \in R
    BY <1>3, <2>1
  <2>. HIDE DEF f
  <2>3. f \in Seq(R) /\ Len(f) = n
    BY <1>1, <2>2
  <2>. QED  BY <2>3 DEF f
<1>. QED  BY <1>1, <1>3, <1>4 DEF n, R

(* At an element: what is done, and what will be once it is.               *)
LEMMA DoneGrows ==
    ASSUME TextsOK, ListsOK, AtElement
    PROVE  /\ DoneUpTo(node) \in Seq(AllElements)
           /\ Elements[node + 1] \in AllElements
           /\ DoneUpTo(node + 1) = Append(DoneUpTo(node), Elements[node + 1])
<1>. DEFINE before == FlattenSeq(SubSeq(Found, 1, file - 1))
            A == AllElements
            es == Elements
            w == es[node + 1]
            part == SubSeq(es, 1, node)
<1>1. /\ Found \in Seq(Seq(A)) /\ Len(Found) = Len(conffiles)
      /\ DOMAIN conffiles = 1 .. Len(conffiles)
      /\ \A i \in DOMAIN conffiles : Found[i] = RuleElements(conffiles[i].document)
  BY FoundType
<1>2. file \in DOMAIN conffiles /\ node \in Nat /\ node < Len(es) /\ Len(conffiles) \in Nat
  BY DEF AtElement, Parsing, TextsOK, ListsOK, FilesOK
<1>3. es = Found[file] /\ es \in Seq(A)
  <2>1. es = Found[file]
    BY <1>1, <1>2 DEF Elements, Document
  <2>. DEFINE R == Seq(A)
  <2>2. Found \in Seq(R) /\ file \in 1 .. Len(Found)
    BY <1>1, <1>2
  <2>. HIDE DEF R, es
  <2>3. Found[file] \in R
    BY <2>2, ElementOfSeq
  <2>. QED  BY <2>1, <2>3 DEF R
<1>. HIDE DEF A, es
<1>4. before \in Seq(A)
  <2>1. file - 1 \in Nat /\ (file - 1) + 1 <= Len(Found)
    BY <1>1, <1>2
  <2>. QED  BY <1>1, <2>1, FlattenGrows
<1>5. /\ part \in Seq(A) /\ w \in A
      /\ SubSeq(es, 1, node + 1) = part \o <<w>>
  <2>1. node + 1 <= Len(es)
    <3>1. Len(es) \in Nat
      BY <1>3, LenProperties
    <3>. QED  BY <1>2, <3>1
  <2>. QED  BY <1>2, <1>3, <2>1, PartGrows
<1>. HIDE DEF w, before, part
<1>6. DoneUpTo(node) = before \o part /\ DoneUpTo(node + 1) = before \o (part \o <<w>>)
  BY <1>2, <1>5 DEF DoneUpTo, before, part, es
<1>7. before \o (part \o <<w>>) = (before \o part) \o <<w>> /\ before \o part \in Seq(A)
  <2>1. <<w>> \in Seq(A)
    BY <1>5
  <2>2. (before \o part) \o <<w>> = before \o (part \o <<w>>)
    BY ONLY <1>4, <1>5, <2>1, ConcatAssociative, SMTT(30)
  <2>3. before \o part \in Seq(A)
    BY ONLY <1>4, <1>5, ConcatProperties
  <2>. QED  BY <2>2, <2>3
<1>8. Append(before \o part, w) = (before \o part) \o <<w>>
  <2>. DEFINE d == before \o part
  <2>1. d \in Seq(A) /\ w \in A
    BY <1>5, <1>7
  <2>. HIDE DEF d
  <2>2. Append(d, w) = d \o <<w>>
    BY <2>1, AppendIs
  <2>. QED  BY <2>2 DEF d
<1>. QED  BY <1>5, <1>6, <1>7, <1>8 DEF w, A, es

(* A file read to its end is done as a whole.                              *)
LEMMA DoneFile ==
    ASSUME TextsOK, ListsOK, FileDone
    PROVE  DoneUpTo(node)' = DoneUpTo(node)
<1>. DEFINE before == FlattenSeq(SubSeq(Found, 1, file - 1))
            after == FlattenSeq(SubSeq(Found, 1, file))
            A == AllElements
            es == Elements
<1>1. /\ Found \in Seq(Seq(A)) /\ Len(Found) = Len(conffiles)
      /\ DOMAIN conffiles = 1 .. Len(conffiles)
      /\ \A i \in DOMAIN conffiles : Found[i] = RuleElements(conffiles[i].document)
  BY FoundType
<1>2. /\ file \in DOMAIN conffiles /\ node = Len(es) /\ Len(conffiles) \in Nat
      /\ file' = file + 1 /\ node' = 0 /\ conffiles' = conffiles
  BY DEF FileDone, Parsing, ListsOK, FilesOK
<1>3. es = Found[file] /\ es \in Seq(A)
  <2>1. es = Found[file]
    BY <1>1, <1>2 DEF Elements, Document
  <2>. DEFINE R == Seq(A)
  <2>2. Found \in Seq(R) /\ file \in 1 .. Len(Found)
    BY <1>1, <1>2
  <2>. HIDE DEF R, es
  <2>3. Found[file] \in R
    BY <2>2, ElementOfSeq
  <2>. QED  BY <2>1, <2>3 DEF R
<1>. HIDE DEF A, es
<1>4. before \in Seq(A) /\ after = before \o es
  <2>. DEFINE f == file - 1
  <2>1. f \in Nat /\ f + 1 <= Len(Found) /\ f + 1 = file
    BY <1>1, <1>2
  <2>. HIDE DEF f
  <2>2. /\ FlattenSeq(SubSeq(Found, 1, f)) \in Seq(A)
        /\ FlattenSeq(SubSeq(Found, 1, f + 1)) = FlattenSeq(SubSeq(Found, 1, f)) \o Found[f + 1]
    BY <1>1, <2>1, FlattenGrows
  <2>. QED  BY <1>3, <2>1, <2>2 DEF f
<1>5. DoneUpTo(node) = before \o es
  <2>1. SubSeq(es, 1, node) = es
    BY <1>2, <1>3, SubSeqFull
  <2>. QED  BY <1>2, <2>1 DEF DoneUpTo, es
<1>6. DoneUpTo(node)' = after \o <<>>
  <2>1. Found' = Found
    BY <1>2 DEF Found
  <2>2. (file + 1) - 1 = file
    BY <1>1, <1>2
  <2>3. FlattenSeq(SubSeq(Found', 1, file' - 1)) = after
    BY <1>2, <2>1, <2>2
  <2>4. SubSeq(Elements', 1, node') = <<>>
    BY <1>2, SubSeqEmpty
  <2>. QED  BY <2>3, <2>4 DEF DoneUpTo
<1>7. after \o <<>> = after
  <2>1. before \o es \in Seq(A)
    <3>. HIDE DEF before
    <3>. QED  BY ONLY <1>3, <1>4, ConcatProperties
  <2>. HIDE DEF before
  <2>2. after \in Seq(A)
    BY <1>4, <2>1
  <2>. HIDE DEF after
  <2>. QED  BY <2>2, ConcatEmptySeq
<1>. QED  BY <1>4, <1>5, <1>6, <1>7

LEMMA DoneNone ==
    ASSUME file = 1, node = 0
    PROVE  DoneUpTo(node) = <<>>
<1>1. SubSeq(Found, 1, file - 1) = <<>> /\ SubSeq(Elements, 1, node) = <<>>
  BY SubSeqEmpty
<1>2. FlattenSeq(<<>>) = <<>>
  BY DEF FlattenSeq
<1>3. <<>> \o <<>> = <<>>
  <2>1. <<>> \in Seq({})
    BY EmptySeq
  <2>. QED  BY <2>1, ConcatEmptySeq
<1>. QED  BY <1>1, <1>2, <1>3 DEF DoneUpTo

(* After the last file all of the configuration is done.                   *)
LEMMA DoneAll ==
    ASSUME TextsOK, ListsOK, pc = "parse", file \notin DOMAIN conffiles
    PROVE  DoneUpTo(node) = Written /\ Written \in Seq(AllElements)
<1>1. /\ Found \in Seq(Seq(AllElements)) /\ Len(Found) = Len(conffiles)
      /\ DOMAIN conffiles = 1 .. Len(conffiles)
  BY FoundType
<1>2. file - 1 = Len(Found)
  BY <1>1 DEF ListsOK, FilesOK, PlaceOK
<1>3. SubSeq(Found, 1, file - 1) = Found
  BY <1>1, <1>2, SubSeqFull
<1>4. FlattenSeq(Found) = Written /\ Written \in Seq(AllElements)
  <2>1. FlattenSeq(Found) = Written
    BY DEF Found, Written
  <2>. QED  BY <1>1, <2>1, FlattenType
<1>5. Written \o <<>> = Written
  BY <1>4, ConcatEmptySeq
<1>. QED  BY <1>3, <1>4, <1>5 DEF DoneUpTo

-----------------------------------------------------------------------------
(* What each kind of rule list should be.                                  *)

LEMMA RulesType ==
    ASSUME NEW kind
    PROVE  \E S : /\ RulesAre(kind) \in [AllElements -> Seq(S)]
                  /\ \A w \in AllElements : /\ RulesAre(kind)[w] = RuleOf(kind, w)
                                            /\ Len(RulesAre(kind)[w]) <= 1
<1>. DEFINE S == UNION {ToSet(RuleOf(kind, w)) : w \in AllElements}
<1>1. ASSUME NEW w \in AllElements
      PROVE  RuleOf(kind, w) \in Seq(S) /\ Len(RuleOf(kind, w)) <= 1
  <2>1. PICK v : RuleOf(kind, w) = <<>> \/ RuleOf(kind, w) = <<v>>
    BY DEF RuleOf
  <2>2. CASE RuleOf(kind, w) = <<>>
    <3>. HIDE DEF S
    <3>. QED  BY <2>2, EmptySeq
  <2>3. CASE RuleOf(kind, w) = <<v>>
    <3>1. v \in ToSet(<<v>>)
      BY DEF ToSet
    <3>2. v \in S
      BY <2>3, <3>1
    <3>. HIDE DEF S
    <3>3. <<v>> \in Seq(S) /\ Len(<<v>>) = 1
      BY <3>2
    <3>. QED  BY <2>3, <3>3
  <2>. QED  BY <2>1, <2>2, <2>3
<1>. HIDE DEF S
<1>2. \A w \in AllElements : RulesAre(kind)[w] = RuleOf(kind, w)
  BY DEF RulesAre
<1>3. RulesAre(kind) \in [AllElements -> Seq(S)]
  BY <1>1 DEF RulesAre
<1>4. \A w \in AllElements : Len(RulesAre(kind)[w]) <= 1
  BY <1>1, <1>2
<1>. QED  BY <1>2, <1>3, <1>4

LEMMA ActionsType ==
    ASSUME NEW x
    PROVE  \E S : /\ ActionsAre(x) \in [ToSet(x.actions) -> Seq(S)]
                  /\ \A a \in ToSet(x.actions) : /\ ActionsAre(x)[a] = ActionOf(a)
                                                 /\ Len(ActionsAre(x)[a]) <= 1
<1>. DEFINE A == ToSet(x.actions)
            S == UNION {ToSet(ActionOf(a)) : a \in A}
<1>1. ASSUME NEW a \in A
      PROVE  ActionOf(a) \in Seq(S) /\ Len(ActionOf(a)) <= 1
  <2>1. PICK v : ActionOf(a) = <<>> \/ ActionOf(a) = <<v>>
    BY DEF ActionOf
  <2>2. CASE ActionOf(a) = <<>>
    <3>. HIDE DEF S
    <3>. QED  BY <2>2, EmptySeq
  <2>3. CASE ActionOf(a) = <<v>>
    <3>1. v \in ToSet(<<v>>)
      BY DEF ToSet
    <3>2. v \in S
      BY <2>3, <3>1
    <3>. HIDE DEF S
    <3>3. <<v>> \in Seq(S) /\ Len(<<v>>) = 1
      BY <3>2
    <3>. QED  BY <2>3, <3>3
  <2>. QED  BY <2>1, <2>2, <2>3
<1>. HIDE DEF S
<1>2. \A a \in A : ActionsAre(x)[a] = ActionOf(a)
  BY DEF ActionsAre
<1>3. ActionsAre(x) \in [A -> Seq(S)]
  <2>. HIDE DEF A
  <2>. QED  BY <1>1 DEF ActionsAre, A
<1>4. \A a \in A : Len(ActionsAre(x)[a]) <= 1
  BY <1>1, <1>2
<1>. QED  BY <1>2, <1>3, <1>4

(* The element that is next brings its rule, if it has one.                *)
LEMMA RulesGrow ==
    ASSUME TextsOK, ListsOK, AtElement, NEW kind
    PROVE  /\ LastFirst(RulesAre(kind), DoneUpTo(node + 1))
                 = RuleOf(kind, Elements[node + 1])
                      \o LastFirst(RulesAre(kind), DoneUpTo(node))
           /\ IsList(LastFirst(RulesAre(kind), DoneUpTo(node)))
<1>. DEFINE p == RulesAre(kind)
            ws == DoneUpTo(node)
            w == Elements[node + 1]
            A == AllElements
<1>1. PICK S : /\ p \in [A -> Seq(S)]
               /\ \A v \in A : p[v] = RuleOf(kind, v) /\ Len(p[v]) <= 1
  BY RulesType
<1>2. ws \in Seq(A) /\ w \in A /\ DoneUpTo(node + 1) = Append(ws, w)
  BY DoneGrows
<1>. HIDE DEF p, ws, w, A
<1>3. p[w] = RuleOf(kind, w) /\ Len(p[w]) <= 1
  BY <1>1, <1>2
<1>4. LastFirst(p, Append(ws, w)) = p[w] \o LastFirst(p, ws)
  BY <1>1, <1>2, <1>3, LastFirstMore
<1>5. LastFirst(p, ws) \in Seq(S)
  BY <1>1, <1>2, LastFirstType
<1>6. IsList(LastFirst(p, ws))
  BY <1>5, ListOf
<1>. QED  BY <1>2, <1>3, <1>4, <1>6 DEF p, ws, w

LEMMA RulesStep ==
    ASSUME TextsOK, ListsOK, AtElement, UNCHANGED <<start, conffiles, file>>,
           node' = node + 1, NEW kind
    PROVE  LastFirst(RulesAre(kind), DoneUpTo(node))'
              = RuleOf(kind, Elements[node + 1])
                   \o LastFirst(RulesAre(kind), DoneUpTo(node))
<1>1. DoneUpTo(node)' = DoneUpTo(node + 1)
  BY DEF DoneUpTo, Found, Elements, Document
<1>2. RulesAre(kind)' = RulesAre(kind)
  BY DEF RulesAre, AllElements
<1>3. LastFirst(RulesAre(kind), DoneUpTo(node))' = LastFirst(RulesAre(kind), DoneUpTo(node + 1))
  BY <1>1, <1>2
<1>. QED  BY <1>3, RulesGrow

(* All done, the lists are what they should be.                            *)
LEMMA RulesAll ==
    ASSUME NEW kind, Written \in Seq(AllElements)
    PROVE  /\ LastFirst(RulesAre(kind), Written) = Configured(kind)
           /\ IsList(LastFirst(RulesAre(kind), Written))
<1>. DEFINE p == RulesAre(kind)
            A == AllElements
            ws == Written
<1>1. PICK S : /\ p \in [A -> Seq(S)]
               /\ \A v \in A : p[v] = RuleOf(kind, v) /\ Len(p[v]) <= 1
  BY RulesType
<1>2. \A i \in DOMAIN ws : ws[i] \in A
  <2>1. ws \in Seq(A)
    OBVIOUS
  <2>. HIDE DEF ws, A
  <2>2. DOMAIN ws = 1 .. Len(ws)
    BY <2>1, LenProperties
  <2>. QED  BY <2>1, <2>2, ElementOfSeq
<1>3. Each(p, ws) = [i \in DOMAIN Written |-> RuleOf(kind, Written[i])]
  <2>. HIDE DEF p, A
  <2>. QED  BY <1>1, <1>2 DEF Each
<1>4. LastFirst(p, ws) \in Seq(S)
  <2>1. ws \in Seq(A)
    OBVIOUS
  <2>. HIDE DEF p, A, ws
  <2>. QED  BY <1>1, <2>1, LastFirstType
<1>5. IsList(LastFirst(p, ws))
  BY <1>4, ListOf
<1>. QED  BY <1>3, <1>5 DEF LastFirst, Configured

(* The same, of the actions of a property element.                         *)
LEMMA ActionsGrow ==
    ASSUME NEW x, IsList(x.actions), NEW n \in Nat, n + 1 <= Len(x.actions)
    PROVE  /\ LastFirst(ActionsAre(x), SubSeq(x.actions, 1, n + 1))
                 = ActionOf(x.actions[n + 1])
                      \o LastFirst(ActionsAre(x), SubSeq(x.actions, 1, n))
           /\ IsList(LastFirst(ActionsAre(x), SubSeq(x.actions, 1, n)))
<1>. DEFINE p == ActionsAre(x)
            as == x.actions
            ws == SubSeq(as, 1, n)
            w == as[n + 1]
            A == ToSet(as)
<1>1. PICK S : /\ p \in [A -> Seq(S)]
               /\ \A v \in A : p[v] = ActionOf(v) /\ Len(p[v]) <= 1
  BY ActionsType
<1>2. as \in Seq(A) /\ n + 1 <= Len(as)
  BY DEF IsList
<1>. HIDE DEF as, A
<1>3. ws \in Seq(A) /\ w \in A /\ SubSeq(as, 1, n + 1) = ws \o <<w>>
  BY <1>2, PartGrows
<1>. HIDE DEF p, ws, w
<1>4. p[w] = ActionOf(w) /\ Len(p[w]) <= 1 /\ Append(ws, w) = ws \o <<w>>
  BY <1>1, <1>3, AppendIs
<1>5. LastFirst(p, Append(ws, w)) = p[w] \o LastFirst(p, ws)
  BY <1>1, <1>3, <1>4, LastFirstMore
<1>6. LastFirst(p, ws) \in Seq(S)
  BY <1>1, <1>3, LastFirstType
<1>7. IsList(LastFirst(p, ws))
  BY <1>6, ListOf
<1>. QED  BY <1>3, <1>4, <1>5, <1>7 DEF p, ws, w, as

LEMMA ActionsAll ==
    ASSUME NEW x, IsList(x.actions)
    PROVE  LastFirst(ActionsAre(x), SubSeq(x.actions, 1, Len(x.actions))) = ActionsOf(x)
<1>. DEFINE as == x.actions
            A == ToSet(as)
<1>1. as \in Seq(A)
  BY DEF IsList
<1>2. SubSeq(as, 1, Len(as)) = as
  <2>. HIDE DEF as, A
  <2>. QED  BY <1>1, SubSeqFull
<1>3. \A i \in DOMAIN as : as[i] \in A
  BY DEF ToSet
<1>4. Each(ActionsAre(x), as) = [i \in DOMAIN as |-> ActionOf(as[i])]
  <2>1. \A i \in DOMAIN as : ActionsAre(x)[as[i]] = ActionOf(as[i])
    BY <1>3 DEF ActionsAre
  <2>. QED  BY <2>1 DEF Each
<1>. QED  BY <1>2, <1>4 DEF LastFirst, ActionsOf

(* The first rule of a list gets other actions.                            *)
WithActions(list, acts) == [list EXCEPT ![1].action = acts]

LEMMA SeenChanged ==
    ASSUME NEW s, NEW acts, NEW m, NEW n, NEW old, NEW rest,
           IsList(s), s # <<>>, IsList(acts), IsList(rest),
           \A r \in ToSet(s) : /\ r = [name |-> r.name, match |-> r.match, action |-> r.action]
                               /\ IsList(r.action),
           Seen("property", s) = InFront(<<m, <<n, old>>>>, rest)
    PROVE  /\ IsList(WithActions(s, acts)) /\ WithActions(s, acts) # <<>>
           /\ \A r \in ToSet(WithActions(s, acts)) :
                 /\ r = [name |-> r.name, match |-> r.match, action |-> r.action]
                 /\ IsList(r.action)
           /\ ActionsSeen(s[1].action) = old
           /\ Seen("property", WithActions(s, acts))
                  = InFront(<<m, <<n, ActionsSeen(acts)>>>>, rest)
<1>. DEFINE N == Len(s)
            t == WithActions(s, acts)
            us == Seen("property", s)
            ut == Seen("property", t)
            v == <<m, <<n, ActionsSeen(acts)>>>>
            f == s[1]
            g == [f EXCEPT !.action = acts]
<1>1. N \in Nat /\ DOMAIN s = 1 .. N /\ s = [i \in 1 .. N |-> s[i]]
  BY Listed
<1>2. N # 0
  <2>1. s \in Seq(ToSet(s))
    BY DEF IsList
  <2>. QED  BY <2>1, EmptySeq
<1>3. 1 \in 1 .. N
  <2>. HIDE DEF N
  <2>. QED  BY <1>1, <1>2
<1>4. f \in ToSet(s) /\ f = [name |-> f.name, match |-> f.match, action |-> f.action]
  <2>1. f \in ToSet(s)
    BY <1>1, <1>3 DEF ToSet
  <2>. QED  BY <2>1
<1>5. g = [name |-> f.name, match |-> f.match, action |-> acts]
  <2>. HIDE DEF f
  <2>. QED  BY <1>4
<1>6. t = [i \in 1 .. N |-> IF i = 1 THEN g ELSE s[i]]
  <2>. HIDE DEF N
  <2>. QED  BY <1>1 DEF WithActions
<1>. HIDE DEF t, g, f, N
<1>7. t = [i \in 1 .. N |-> t[i]] /\ t[1] = g /\ \A i \in 1 .. N : i # 1 => t[i] = s[i]
  BY <1>3, <1>6
<1>8. IsList(t) /\ Len(t) = N /\ DOMAIN t = 1 .. N
  BY <1>1, <1>7, ListIs
<1>9. t # <<>>
  <2>1. Len(<<>>) = 0
    OBVIOUS
  <2>. QED  BY <1>2, <1>8, <2>1
<1>10. ASSUME NEW r \in ToSet(t)
       PROVE  /\ r = [name |-> r.name, match |-> r.match, action |-> r.action]
              /\ IsList(r.action)
  <2>1. PICK i \in 1 .. N : r = t[i]
    BY <1>8 DEF ToSet
  <2>2. CASE i = 1
    <3>1. r = g
      BY <1>7, <2>1, <2>2
    <3>. QED  BY <1>5, <3>1
  <2>3. CASE i # 1
    <3>1. r = s[i] /\ s[i] \in ToSet(s)
      BY <1>1, <1>7, <2>1, <2>3 DEF ToSet
    <3>. QED  BY <3>1
  <2>. QED  BY <2>2, <2>3
<1>11. /\ us = [i \in 1 .. N |-> us[i]]
       /\ \A i \in 1 .. N : us[i] = <<s[i].match, ContentSeen("property", s[i])>>
  BY <1>1 DEF Seen
<1>12. /\ ut = [i \in 1 .. N |-> ut[i]]
       /\ \A i \in 1 .. N : ut[i] = <<t[i].match, ContentSeen("property", t[i])>>
  BY <1>8 DEF Seen
<1>13. us = InFront(<<m, <<n, old>>>>, rest)
  OBVIOUS
<1>. HIDE DEF us, ut
<1>14. IsList(us) /\ Len(us) = N /\ IsList(ut) /\ Len(ut) = N
  BY <1>1, <1>11, <1>12, ListIs
<1>15. /\ Len(us) = Len(rest) + 1 /\ us[1] = <<m, <<n, old>>>>
       /\ \A i \in 1 .. Len(rest) : us[i + 1] = rest[i]
  BY <1>13, FrontAdded
<1>16. us[1] = <<f.match, <<f.name, ActionsSeen(f.action)>>>>
  BY <1>3, <1>11 DEF ContentSeen, f
<1>17. f.match = m /\ f.name = n /\ ActionsSeen(f.action) = old
  BY <1>15, <1>16
<1>18. ut[1] = v
  <2>1. ut[1] = <<g.match, <<g.name, ActionsSeen(g.action)>>>>
    BY <1>3, <1>7, <1>12 DEF ContentSeen
  <2>. QED  BY <1>5, <1>17, <2>1
<1>19. \A i \in 1 .. Len(rest) : ut[i + 1] = rest[i]
  <2>1. SUFFICES ASSUME NEW i \in 1 .. Len(rest) PROVE ut[i + 1] = rest[i]
    OBVIOUS
  <2>2. i + 1 \in 1 .. N /\ i + 1 # 1
    <3>1. Len(rest) \in Nat /\ Len(rest) + 1 = N
      BY <1>14, <1>15, Listed
    <3>. QED  BY <3>1
  <2>3. t[i + 1] = s[i + 1]
    BY <1>7, <2>2
  <2>4. ut[i + 1] = us[i + 1]
    BY <1>11, <1>12, <2>2, <2>3
  <2>. QED  BY <1>15, <2>4
<1>. HIDE DEF v
<1>20. ut = InFront(v, rest)
  <2>1. Len(ut) = Len(rest) + 1
    BY <1>14, <1>15
  <2>. QED  BY <1>14, <1>18, <1>19, <2>1, FrontIs, SMTT(30)
<1>. QED  BY <1>8, <1>9, <1>10, <1>17, <1>20 DEF t, ut, v, f

-----------------------------------------------------------------------------
(* The steps.                                                              *)

LEMMA KindTags ==
    /\ Kinds = {"insertion", "removal", "oninit", "condition", "property"}
    /\ TagOf["insertion"] = "Insertion" /\ TagOf["removal"] = "Removal"
    /\ TagOf["oninit"] = "OnInit" /\ TagOf["condition"] = "Condition"
    /\ TagOf["property"] = "Property"
  BY DEF Kinds, TagOf

LEMMA SeenNone ==
    ASSUME NEW kind
    PROVE  Seen(kind, <<>>) = <<>>
  BY DEF Seen

LEMMA NoneList == IsList(<<>>)
<1>1. <<>> \in Seq({})
  BY EmptySeq
<1>. QED  BY <1>1, ListOf

LEMMA NoneInFront ==
    ASSUME NEW s, IsList(s)
    PROVE  <<>> \o s = s
<1>1. s \in Seq(ToSet(s))
  BY DEF IsList
<1>2. \A V : s \in Seq(V) => <<>> \o s = s
  <2>. SUFFICES ASSUME NEW V, s \in Seq(V) PROVE <<>> \o s = s
    OBVIOUS
  <2>. QED  BY ConcatEmptySeq
<1>. QED  BY <1>1, <1>2

(* Before anything is parsed the lists are what they should be.            *)
LEMMA RootsAtStart ==
    ASSUME file = 1, node = 0, action = 0, \A kind \in Kinds : roots[kind] = <<>>
    PROVE  \A kind \in Kinds :
               Seen(kind, roots[kind]) =
                   (IF kind = "property" /\ action > 0 THEN <<Half>> ELSE <<>>)
                       \o LastFirst(RulesAre(kind), DoneUpTo(node))
<1>1. SUFFICES ASSUME NEW kind \in Kinds
               PROVE  Seen(kind, roots[kind]) = <<>> \o LastFirst(RulesAre(kind), DoneUpTo(node))
  BY DEF Kinds
<1>2. LastFirst(RulesAre(kind), DoneUpTo(node)) = <<>>
  BY DoneNone, LastFirstNone
<1>3. <<>> \o <<>> = <<>>
  BY NoneList, NoneInFront
<1>. QED  BY <1>2, <1>3, SeenNone

LEMMA ListsInit == Init => ListsOK /\ RootsOK
<1>1. SUFFICES ASSUME Init PROVE ListsOK /\ RootsOK
  OBVIOUS
<1>2. FilesOK
  <2>1. IsList(start.given)
    BY <1>1, StartsAssumption DEF Init
  <2>. DEFINE n == Len(start.given)
  <2>2. n \in Nat /\ DOMAIN start.given = 1 .. n
    BY <2>1, Listed
  <2>. HIDE DEF n
  <2>3. conffiles = [i \in 1 .. n |-> conffiles[i]]
    BY <1>1, <2>2 DEF Init
  <2>4. Len(conffiles) = n
    BY <2>2, <2>3, ListIs
  <2>. QED  BY <2>2, <2>3, <2>4 DEF FilesOK
<1>3. file = 1 /\ node = 0 /\ action = 0 /\ roots = [k \in Kinds |-> <<>>]
  BY <1>1 DEF Init
<1>4. \A kind \in Kinds : roots[kind] = <<>>
  BY <1>3
<1>5. RulesTyped
  <2>1. "property" \in Kinds /\ ToSet(<<>>) = {}
    BY KindTags DEF ToSet
  <2>. QED  BY <1>3, <1>4, <2>1, NoneList DEF RulesTyped
<1>6. PlaceOK
  <2>1. file \in 1 .. Len(conffiles) + 1
    BY <1>2, <1>3 DEF FilesOK
  <2>2. file \in DOMAIN conffiles => node <= Len(Elements)
    <3>1. SUFFICES ASSUME file \in DOMAIN conffiles PROVE 0 <= Len(Elements)
      BY <1>3
    <3>2. conffiles[file].document \in Documents(start) /\ start \in Starts
      BY <1>1, <3>1, TextsInit DEF TextsOK
    <3>3. IsList(Elements)
      BY <3>2, RulesReadable DEF Elements, Document
    <3>4. Len(Elements) \in Nat
      BY <3>3, Listed
    <3>. QED  BY <3>4
  <2>. QED  BY <1>3, <1>4, <2>1, <2>2 DEF PlaceOK
<1>7. RootsOK
  BY <1>3, <1>4, RootsAtStart DEF RootsOK
<1>. QED  BY <1>2, <1>5, <1>6, <1>7 DEF ListsOK

LEMMA FilesNext == FilesOK /\ [Next]_vars => FilesOK'
<1>1. SUFFICES ASSUME FilesOK, [Next]_vars PROVE FilesOK'
  OBVIOUS
<1>2. CASE ReadEntry
  <2>1. PICK f : conffiles' = conffiles \/ conffiles' = Append(conffiles, f)
    BY <1>2 DEF ReadEntry
  <2>2. CASE conffiles' = Append(conffiles, f)
    <3>1. Len(conffiles) \in Nat /\ conffiles = [i \in 1 .. Len(conffiles) |-> conffiles[i]]
      BY <1>1 DEF FilesOK
    <3>2. /\ Len(conffiles') = Len(conffiles) + 1
          /\ conffiles' = [i \in 1 .. Len(conffiles') |-> conffiles'[i]]
      BY <2>2, <3>1, AppendFile
    <3>. QED  BY <3>1, <3>2 DEF FilesOK
  <2>. QED  BY <1>1, <2>1, <2>2 DEF FilesOK
<1>3. CASE UNCHANGED conffiles
  BY <1>1, <1>3 DEF FilesOK
<1>. QED
  BY <1>1, <1>2, <1>3
     DEF Next, vars, OpenDirectory, AllFound, BadFile, FileDone, Loaded, AddRule, AddCondition,
         AddProperty, AddPropertyValue, PropertyDone, PassOver, AddTo, NextElement

(* A rule of a kind comes in front.                                        *)
LEMMA TypedAdd ==
    ASSUME RulesTyped, NEW kind \in Kinds, NEW rule,
           roots' = [roots EXCEPT ![kind] = InFront(rule, @)],
           kind = "property" =>
               /\ rule = [name |-> rule.name, match |-> rule.match, action |-> rule.action]
               /\ IsList(rule.action)
    PROVE  RulesTyped'
<1>1. DOMAIN roots = Kinds /\ \A k \in Kinds : IsList(roots[k])
  BY DEF RulesTyped
<1>2. roots'[kind] = InFront(rule, roots[kind]) /\ \A k \in Kinds \ {kind} : roots'[k] = roots[k]
  BY <1>1
<1>3. DOMAIN roots' = Kinds /\ roots' = [k \in Kinds |-> roots'[k]]
  BY <1>1
<1>4. \A k \in Kinds : IsList(roots'[k])
  BY <1>1, <1>2, FrontAdded
<1>5. ASSUME NEW r \in ToSet(roots'["property"])
      PROVE  r = [name |-> r.name, match |-> r.match, action |-> r.action] /\ IsList(r.action)
  <2>1. r \in ToSet(roots["property"]) \/ (kind = "property" /\ r = rule)
    <3>1. CASE kind = "property"
      <4>1. ToSet(roots'["property"]) = ToSet(roots["property"]) \cup {rule}
        BY <1>1, <1>2, <3>1, FrontAdded
      <4>. QED  BY <1>5, <3>1, <4>1
    <3>2. CASE kind # "property"
      BY <1>2, <1>5, <3>2, KindTags
    <3>. QED  BY <3>1, <3>2
  <2>. QED  BY <2>1 DEF RulesTyped
<1>. QED  BY <1>3, <1>4, <1>5 DEF RulesTyped

(* A rule element has become a rule, or none, of one kind and none of the  *)
(* others.                                                                 *)
LEMMA Added ==
    ASSUME TextsOK, ListsOK, RootsOK, AtElement, action = 0, NEW kind \in Kinds \ {"property"},
           NEW rule, NEW made, AddTo(kind, rule, made),
           RuleOf(kind, Elements[node + 1])
               = IF made THEN << <<rule.match, ContentSeen(kind, rule)>> >> ELSE <<>>,
           \A k \in Kinds \ {kind} : RuleOf(k, Elements[node + 1]) = <<>>
    PROVE  RulesTyped' /\ RootsOK'
<1>. DEFINE L(k) == LastFirst(RulesAre(k), DoneUpTo(node))
            w == Elements[node + 1]
<1>1. /\ roots' = IF made THEN [roots EXCEPT ![kind] = InFront(rule, @)] ELSE roots
      /\ node' = node + 1 /\ action' = 0 /\ UNCHANGED <<start, pc, dir, unread, conffiles, file>>
  BY DEF AddTo, NextElement
<1>2. RulesTyped /\ pc = "parse"
  BY DEF ListsOK, AtElement, Parsing
<1>3. RulesTyped'
  <2>1. CASE made
    BY <1>1, <1>2, <2>1, TypedAdd
  <2>2. CASE ~made
    BY <1>1, <1>2, <2>2 DEF RulesTyped
  <2>. QED  BY <2>1, <2>2
<1>4. \A k \in Kinds : Seen(k, roots[k]) = <<>> \o L(k)
  BY <1>2 DEF RootsOK
<1>5. \A k \in Kinds : IsList(L(k)) /\ L(k)' = RuleOf(k, w) \o L(k)
  <2>1. SUFFICES ASSUME NEW k \in Kinds PROVE IsList(L(k)) /\ L(k)' = RuleOf(k, w) \o L(k)
    OBVIOUS
  <2>. QED  BY <1>1, RulesGrow, RulesStep
<1>6. \A k \in Kinds : Seen(k, roots[k]) = L(k)
  BY <1>4, <1>5, NoneInFront
<1>. HIDE DEF L, w
<1>7. ASSUME NEW k \in Kinds PROVE Seen(k, roots'[k]) = L(k)'
  <2>1. CASE k # kind \/ ~made
    <3>1. roots'[k] = roots[k]
      BY <1>1, <1>2, <2>1 DEF RulesTyped
    <3>2. RuleOf(k, w) = <<>>
      BY <2>1 DEF w
    <3>. QED  BY <1>5, <1>6, <3>1, <3>2, NoneInFront
  <2>2. CASE k = kind /\ made
    <3>1. roots'[k] = InFront(rule, roots[k]) /\ IsList(roots[k])
      BY <1>1, <1>2, <2>2 DEF RulesTyped
    <3>2. Seen(k, roots'[k]) = InFront(<<rule.match, ContentSeen(k, rule)>>, Seen(k, roots[k]))
      BY <3>1, SeenFront
    <3>3. RuleOf(k, w) = << <<rule.match, ContentSeen(k, rule)>> >>
      BY <2>2 DEF w
    <3>. QED  BY <1>5, <1>6, <3>2, <3>3 DEF InFront
  <2>. QED  BY <2>1, <2>2
<1>8. \A k \in Kinds : IsList(L(k)')
  <2>1. SUFFICES ASSUME NEW k \in Kinds PROVE IsList(L(k)')
    OBVIOUS
  <2>2. IsList(Seen(k, roots'[k]))
    <3>1. IsList(roots'[k])
      BY <1>3 DEF RulesTyped
    <3>. QED  BY <3>1, SeenFront
  <2>. QED  BY <1>7, <2>2
<1>9. ASSUME NEW k \in Kinds PROVE Seen(k, roots'[k]) = <<>> \o L(k)'
  BY <1>7, <1>8, NoneInFront
<1>10. RootsOK'
  <2>1. ~(action' > 0)
    BY <1>1
  <2>. QED  BY <1>9, <2>1 DEF RootsOK, L
<1>. QED  BY <1>3, <1>10

LEMMA ElementsCount ==
    ASSUME TextsOK, file \in DOMAIN conffiles
    PROVE  Len(Elements) \in Nat
<1>1. conffiles[file].document \in Documents(start) /\ start \in Starts
  BY DEF TextsOK
<1>2. IsList(Elements)
  BY <1>1, RulesReadable DEF Elements, Document
<1>. QED  BY <1>2, Listed

(* Another element than a property at hand: no property is being read.     *)
LEMMA NoHalf ==
    ASSUME ListsOK, pc = "parse", ~AtElement \/ Current.tag # "Property"
    PROVE  action = 0
  BY DEF ListsOK, PlaceOK

LEMMA PlaceOn ==
    ASSUME TextsOK, ListsOK, AtElement, UNCHANGED <<pc, conffiles, file>>,
           node' = node + 1, action' = 0
    PROVE  PlaceOK'
<1>1. pc' = "parse" /\ file \in DOMAIN conffiles /\ node < Len(Elements) /\ node \in Nat
  BY DEF AtElement, Parsing, TextsOK
<1>2. Len(Elements) \in Nat
  BY <1>1, ElementsCount
<1>3. Elements' = Elements /\ node' <= Len(Elements)
  BY <1>1, <1>2 DEF Elements, Document
<1>4. file' \in 1 .. Len(conffiles') + 1
  BY <1>1 DEF ListsOK, PlaceOK, AtElement, Parsing
<1>. QED  BY <1>1, <1>3, <1>4 DEF PlaceOK

LEMMA RuleStep ==
    ASSUME TextsOK, ListsOK, RootsOK, AddRule
    PROVE  RulesTyped' /\ PlaceOK' /\ RootsOK'
<1>. DEFINE w == Elements[node + 1]
            made == Current.exec # Missing /\ MatchMade(CurrentMatch) /\ ExecMade(Current.exec)
            rule == [match |-> NewBooleanExpression(CurrentMatch),
                     exec |-> NewExec(Current.exec)]
<1>1. PICK kind \in Commanded : Current.tag = TagOf[kind] /\ AddTo(kind, rule, made)
  BY DEF AddRule
<1>2. AtElement /\ pc = "parse"
  BY DEF AddRule, AtElement, Parsing
<1>3. kind \in Kinds \ {"property"} /\ kind # "condition" /\ Current.tag # "Property"
  BY <1>1, KindTags DEF Commanded
<1>4. action = 0
  BY <1>2, <1>3, NoHalf
<1>5. RuleOf(kind, w) = IF made THEN << <<rule.match, ContentSeen(kind, rule)>> >> ELSE <<>>
  <2>1. ContentSeen(kind, rule) = <<Current.exec>> /\ rule.match = NewBooleanExpression(CurrentMatch)
    BY <1>3 DEF ContentSeen, NewExec
  <2>2. /\ Content(kind, Current) = <<Current.exec>>
        /\ RuleWhole(kind, Current) <=> Current.exec # Missing /\ ExecMade(Current.exec)
    BY <1>3 DEF Content, RuleWhole
  <2>. HIDE DEF rule
  <2>3. RuleOf(kind, w) = IF made THEN << <<NewBooleanExpression(CurrentMatch), <<Current.exec>>>> >>
                          ELSE <<>>
    BY <1>1, <2>2 DEF RuleOf, Current, CurrentMatch
  <2>. QED  BY <2>1, <2>3
<1>6. \A k \in Kinds \ {kind} : RuleOf(k, w) = <<>>
  <2>1. \A k \in Kinds \ {kind} : w.element.tag # TagOf[k]
    BY <1>1, <1>3, KindTags DEF Current
  <2>. QED  BY <2>1 DEF RuleOf
<1>7. UNCHANGED <<pc, conffiles, file>> /\ node' = node + 1 /\ action' = 0
  BY <1>1 DEF AddTo, NextElement
<1>8. PlaceOK'
  BY <1>2, <1>7, PlaceOn
<1>. HIDE DEF rule, made
<1>9. RulesTyped' /\ RootsOK'
  BY <1>1, <1>2, <1>3, <1>4, <1>5, <1>6, Added
<1>. QED  BY <1>8, <1>9

LEMMA ConditionStep ==
    ASSUME TextsOK, ListsOK, RootsOK, AddCondition
    PROVE  RulesTyped' /\ PlaceOK' /\ RootsOK'
<1>. DEFINE w == Elements[node + 1]
            kind == "condition"
            made == ConditionWhole(Current) /\ MatchMade(CurrentMatch) /\ ExecMade(Current.exec)
            rule == [match |-> NewBooleanExpression(CurrentMatch),
                     exec |-> NewExec(Current.exec),
                     name |-> Current.name, value |-> Current.value]
<1>1. Current.tag = "Condition" /\ AddTo(kind, rule, made)
  BY DEF AddCondition
<1>2. AtElement /\ pc = "parse"
  BY DEF AddCondition, AtElement, Parsing
<1>3. kind \in Kinds \ {"property"} /\ Current.tag # "Property"
  BY <1>1, KindTags
<1>4. action = 0
  BY <1>2, <1>3, NoHalf
<1>5. RuleOf(kind, w) = IF made THEN << <<rule.match, ContentSeen(kind, rule)>> >> ELSE <<>>
  <2>1. /\ ContentSeen(kind, rule) = <<Current.exec, Current.name, Current.value>>
        /\ rule.match = NewBooleanExpression(CurrentMatch)
    BY DEF ContentSeen, NewExec
  <2>2. /\ Content(kind, Current) = <<Current.exec, Current.name, Current.value>>
        /\ RuleWhole(kind, Current) <=> ConditionWhole(Current) /\ ExecMade(Current.exec)
    BY DEF Content, RuleWhole, ConditionWhole
  <2>. HIDE DEF rule
  <2>3. RuleOf(kind, w) = IF made THEN << <<NewBooleanExpression(CurrentMatch),
                                           <<Current.exec, Current.name, Current.value>>>> >>
                          ELSE <<>>
    BY <1>1, <2>2, KindTags DEF RuleOf, Current, CurrentMatch
  <2>. QED  BY <2>1, <2>3
<1>6. \A k \in Kinds \ {kind} : RuleOf(k, w) = <<>>
  <2>1. \A k \in Kinds \ {kind} : w.element.tag # TagOf[k]
    BY <1>1, KindTags DEF Current
  <2>. QED  BY <2>1 DEF RuleOf
<1>7. UNCHANGED <<pc, conffiles, file>> /\ node' = node + 1 /\ action' = 0
  BY <1>1 DEF AddTo, NextElement
<1>8. PlaceOK'
  BY <1>2, <1>7, PlaceOn
<1>. HIDE DEF rule, made, kind
<1>9. RulesTyped' /\ RootsOK'
  BY <1>1, <1>2, <1>3, <1>4, <1>5, <1>6, Added
<1>. QED  BY <1>8, <1>9

(* An element that becomes no rule.                                        *)
LEMMA NothingAdded ==
    ASSUME TextsOK, ListsOK, RootsOK, AtElement, action = 0,
           NextElement(TRUE), UNCHANGED roots,
           \A k \in Kinds : RuleOf(k, Elements[node + 1]) = <<>>
    PROVE  RulesTyped' /\ PlaceOK' /\ RootsOK'
<1>. DEFINE kind == "insertion"
            rule == Missing
            made == FALSE
<1>1. AddTo(kind, rule, made)
  BY DEF AddTo, NextElement
<1>2. kind \in Kinds \ {"property"}
  BY KindTags
<1>3. RuleOf(kind, Elements[node + 1])
         = IF made THEN << <<rule.match, ContentSeen(kind, rule)>> >> ELSE <<>>
  BY <1>2
<1>4. UNCHANGED <<pc, conffiles, file>> /\ node' = node + 1 /\ action' = 0
  BY DEF NextElement
<1>5. PlaceOK'
  BY <1>4, PlaceOn
<1>. HIDE DEF kind, rule, made
<1>6. RulesTyped' /\ RootsOK'
  BY <1>1, <1>2, <1>3, Added
<1>. QED  BY <1>5, <1>6

LEMMA PassStep ==
    ASSUME TextsOK, ListsOK, RootsOK, PassOver
    PROVE  RulesTyped' /\ PlaceOK' /\ RootsOK'
<1>1. AtElement /\ pc = "parse" /\ NextElement(TRUE) /\ UNCHANGED roots
  BY DEF PassOver, AtElement, Parsing
<1>2. \A k \in Kinds : Current.tag # TagOf[k]
  BY DEF PassOver
<1>3. action = 0
  BY <1>1, <1>2, NoHalf, KindTags
<1>4. \A k \in Kinds : RuleOf(k, Elements[node + 1]) = <<>>
  BY <1>2 DEF RuleOf, Current
<1>. QED  BY <1>1, <1>3, <1>4, NothingAdded

(* A property: of the other kinds it is no rule.                           *)
LEMMA PropertyOnly ==
    ASSUME Current.tag = "Property"
    PROVE  \A k \in Kinds \ {"property"} : RuleOf(k, Elements[node + 1]) = <<>>
<1>1. \A k \in Kinds \ {"property"} : Current.tag # TagOf[k]
  BY KindTags
<1>. QED  BY <1>1 DEF RuleOf, Current

LEMMA PropertyRule ==
    ASSUME Current.tag = "Property"
    PROVE  RuleOf("property", Elements[node + 1])
              = IF PropertyMade
                THEN << <<NewBooleanExpression(CurrentMatch),
                          <<HalString(Current.name), ActionsOf(Current)>>>> >>
                ELSE <<>>
<1>1. /\ Content("property", Current) = <<HalString(Current.name), ActionsOf(Current)>>
      /\ RuleWhole("property", Current) <=> Current.name # Missing /\ HalString(Current.name) # NoText
  BY DEF Content, RuleWhole
<1>2. TagOf["property"] = "Property"
  BY KindTags
<1>. QED  BY <1>1, <1>2 DEF RuleOf, PropertyMade, Current, CurrentMatch

LEMMA PropertyStep ==
    ASSUME TextsOK, ListsOK, RootsOK, AddProperty
    PROVE  RulesTyped' /\ PlaceOK' /\ RootsOK'
<1>1. AtElement /\ pc = "parse" /\ Current.tag = "Property" /\ action = 0
  BY DEF AddProperty, AtElement, Parsing
<1>2. CASE ~PropertyMade
  <2>1. NextElement(TRUE) /\ UNCHANGED roots
    BY <1>2 DEF AddProperty, NextElement
  <2>2. \A k \in Kinds : RuleOf(k, Elements[node + 1]) = <<>>
    BY <1>1, <1>2, PropertyOnly, PropertyRule
  <2>. QED  BY <1>1, <2>1, <2>2, NothingAdded
<1>3. CASE PropertyMade
  <2>. DEFINE rule == [name |-> HalString(Current.name),
                       match |-> NewBooleanExpression(CurrentMatch), action |-> <<>>]
              list == roots["property"]
              L(k) == LastFirst(RulesAre(k), DoneUpTo(node))
  <2>1. /\ roots' = [roots EXCEPT !["property"] = InFront(rule, @)] /\ action' = 1
        /\ UNCHANGED <<start, pc, dir, unread, conffiles, file, node>>
    BY <1>3 DEF AddProperty
  <2>2. RulesTyped /\ "property" \in Kinds /\ IsList(list)
    BY KindTags DEF ListsOK, RulesTyped
  <2>3. /\ rule = [name |-> rule.name, match |-> rule.match, action |-> rule.action]
        /\ IsList(rule.action) /\ rule.action = <<>>
        /\ rule.match = NewBooleanExpression(CurrentMatch) /\ rule.name = HalString(Current.name)
    BY NoneList
  <2>. HIDE DEF rule
  <2>4. RulesTyped'
    BY <2>1, <2>2, <2>3, TypedAdd
  <2>5. roots'["property"] = InFront(rule, list) /\ \A k \in Kinds \ {"property"} : roots'[k] = roots[k]
    BY <2>1, <2>2 DEF RulesTyped
  <2>6. /\ AtElement' /\ Current' = Current /\ CurrentMatch' = CurrentMatch
        /\ Elements' = Elements /\ PropertyMade'
    BY <1>1, <1>3, <2>1
       DEF AtElement, Parsing, Current, CurrentMatch, Elements, Document, PropertyMade
  <2>7. PlaceOK'
    <3>1. roots'["property"] # <<>>
      <4>1. Len(roots'["property"]) = Len(list) + 1 /\ Len(list) \in Nat
        BY <2>2, <2>5, FrontAdded, Listed
      <4>. QED  BY <4>1
    <3>2. 1 <= Len(Current.actions) + 1
      <4>1. IsList(Current.actions)
        BY <1>1, AtHand DEF ReadableElement
      <4>2. Len(Current.actions) \in Nat
        BY <4>1, Listed
      <4>. QED  BY <4>2
    <3>3. /\ file' \in 1 .. Len(conffiles') + 1
          /\ file' \in DOMAIN conffiles' => node' <= Len(Elements')
      BY <1>1, <2>1, <2>6 DEF ListsOK, PlaceOK
    <3>. QED  BY <1>1, <2>1, <2>6, <3>1, <3>2, <3>3 DEF PlaceOK
  <2>8. /\ RulesAre("property")' = RulesAre("property")
        /\ DoneUpTo(node)' = DoneUpTo(node)
        /\ \A k \in Kinds : L(k)' = L(k)
    BY <2>1 DEF RulesAre, AllElements, DoneUpTo, Found, Elements, Document
  <2>9. \A k \in Kinds : IsList(L(k)) /\ Seen(k, roots[k]) = L(k)
    <3>1. SUFFICES ASSUME NEW k \in Kinds PROVE IsList(L(k)) /\ Seen(k, roots[k]) = L(k)
      OBVIOUS
    <3>2. Seen(k, roots[k]) = <<>> \o L(k)
      BY <1>1 DEF RootsOK
    <3>3. IsList(L(k))
      BY <1>1, RulesGrow
    <3>. QED  BY <3>2, <3>3, NoneInFront
  <2>10. Half' = <<rule.match, ContentSeen("property", rule)>>
    <3>1. SubSeq(Current.actions, 1, 1 - 1) = <<>>
      BY SubSeqEmpty
    <3>2. LastFirst(ActionsAre(Current), <<>>) = <<>>
      BY LastFirstNone
    <3>3. ActionsSeen(<<>>) = <<>>
      BY DEF ActionsSeen
    <3>4. ContentSeen("property", rule) = <<rule.name, ActionsSeen(rule.action)>>
      BY DEF ContentSeen
    <3>5. Half' = <<NewBooleanExpression(CurrentMatch), <<HalString(Current.name),
                     LastFirst(ActionsAre(Current), SubSeq(Current.actions, 1, 1 - 1))>>>>
      BY <2>1, <2>6 DEF Half
    <3>. QED  BY <2>3, <3>1, <3>2, <3>3, <3>4, <3>5
  <2>. HIDE DEF L
  <2>11. ASSUME NEW k \in Kinds
         PROVE  Seen(k, roots'[k]) = (IF k = "property" THEN <<Half'>> ELSE <<>>) \o L(k)'
    <3>1. CASE k = "property"
      <4>1. Seen(k, roots'[k]) = InFront(<<rule.match, ContentSeen(k, rule)>>, Seen(k, list))
        BY <2>2, <2>5, <3>1, SeenFront
      <4>. QED  BY <2>8, <2>9, <2>10, <3>1, <4>1 DEF InFront
    <3>2. CASE k # "property"
      BY <2>5, <2>8, <2>9, <3>2, NoneInFront
    <3>. QED  BY <3>1, <3>2
  <2>12. RootsOK'
    <3>1. action' > 0
      BY <2>1
    <3>. QED  BY <2>11, <3>1 DEF RootsOK, L
  <2>. QED  BY <2>4, <2>7, <2>12
<1>. QED  BY <1>2, <1>3

LEMMA ValueStep ==
    ASSUME TextsOK, ListsOK, RootsOK, AddPropertyValue
    PROVE  RulesTyped' /\ PlaceOK' /\ RootsOK'
<1>. DEFINE as == Current.actions
            a == as[action]
            rule == [value |-> a.value, exec |-> NewExec(a.exec)]
            list == roots["property"]
            L(k) == LastFirst(RulesAre(k), DoneUpTo(node))
            so(n) == LastFirst(ActionsAre(Current), SubSeq(as, 1, n))
            m == NewBooleanExpression(CurrentMatch)
            name == HalString(Current.name)
            Read ==
               /\ RulesTyped' /\ roots'["property"] # <<>>
               /\ \A k \in Kinds :
                     Seen(k, roots'[k]) = (IF k = "property" THEN <<Half'>> ELSE <<>>) \o L(k)'
<1>1. AtElement /\ pc = "parse" /\ Current.tag = "Property" /\ action \in DOMAIN as
  BY DEF AddPropertyValue, AtElement, Parsing
<1>2. IsList(as)
  BY <1>1, AtHand DEF ReadableElement
<1>3. Len(as) \in Nat /\ action \in 1 .. Len(as)
  BY <1>1, <1>2, Listed
<1>4. /\ action' = action + 1 /\ UNCHANGED <<start, pc, dir, unread, conffiles, file, node>>
      /\ roots' = IF ActionMade(a)
                  THEN [roots EXCEPT !["property"][1].action = InFront(rule, @)] ELSE roots
  BY DEF AddPropertyValue
<1>5. /\ AtElement' /\ Current' = Current /\ CurrentMatch' = CurrentMatch
      /\ Elements' = Elements /\ PropertyMade' = PropertyMade
  BY <1>1, <1>4 DEF AtElement, Parsing, Current, CurrentMatch, Elements, Document, PropertyMade
<1>6. RulesTyped /\ "property" \in Kinds /\ IsList(list) /\ list # <<>> /\ PropertyMade
  BY <1>1, <1>3, KindTags DEF ListsOK, RulesTyped, PlaceOK
<1>7. \A k \in Kinds : L(k)' = L(k)
  BY <1>4 DEF RulesAre, AllElements, DoneUpTo, Found, Elements, Document
<1>8. \A k \in Kinds : IsList(L(k))
  BY <1>1, RulesGrow
<1>9. so(action) = ActionOf(a) \o so(action - 1) /\ IsList(so(action - 1))
  <2>. DEFINE n == action - 1
  <2>1. n \in Nat /\ n + 1 <= Len(as) /\ n + 1 = action
    <3>. DEFINE N == Len(as)
    <3>1. N \in Nat /\ action \in 1 .. N
      BY <1>3
    <3>. HIDE DEF N
    <3>2. n \in Nat /\ n + 1 <= N /\ n + 1 = action
      BY <3>1
    <3>. QED  BY <3>2 DEF N
  <2>. HIDE DEF n
  <2>2. /\ LastFirst(ActionsAre(Current), SubSeq(Current.actions, 1, n + 1))
             = ActionOf(Current.actions[n + 1])
                 \o LastFirst(ActionsAre(Current), SubSeq(Current.actions, 1, n))
        /\ IsList(LastFirst(ActionsAre(Current), SubSeq(Current.actions, 1, n)))
    BY <1>2, <2>1, ActionsGrow
  <2>. QED  BY <2>1, <2>2 DEF n
<1>10. Half = <<m, <<name, so(action - 1)>>>> /\ Half' = <<m, <<name, so(action)>>>>
  <2>1. (action + 1) - 1 = action
    BY <1>3
  <2>2. Half' = <<m, <<name, so((action + 1) - 1)>>>>
    BY <1>4, <1>5 DEF Half
  <2>. QED  BY <2>1, <2>2 DEF Half
<1>11. /\ Seen("property", list) = InFront(Half, L("property"))
       /\ \A k \in Kinds \ {"property"} : Seen(k, roots[k]) = <<>> \o L(k)
  <2>1. action > 0
    BY <1>3
  <2>. QED  BY <1>1, <1>6, <2>1 DEF RootsOK, InFront
<1>. HIDE DEF L, so, m, name
<1>12. ASSUME ~ActionMade(a) PROVE Read
  <2>1. ActionOf(a) = <<>> /\ roots' = roots
    BY <1>4, <1>12 DEF ActionOf
  <2>2. Half' = Half
    BY <1>9, <1>10, <2>1, NoneInFront
  <2>3. RulesTyped'
    BY <1>6, <2>1 DEF RulesTyped
  <2>4. roots'["property"] # <<>>
    BY <1>6, <2>1
  <2>5. ASSUME NEW k \in Kinds
        PROVE  Seen(k, roots'[k]) = (IF k = "property" THEN <<Half'>> ELSE <<>>) \o L(k)'
    BY <1>7, <1>11, <2>1, <2>2 DEF InFront
  <2>. QED  BY <2>3, <2>4, <2>5
<1>13. ASSUME ActionMade(a) PROVE Read
  <2>. DEFINE acts == InFront(rule, list[1].action)
              t == WithActions(list, acts)
  <2>1. /\ roots'["property"] = t
        /\ \A k \in Kinds \ {"property"} : roots'[k] = roots[k]
        /\ DOMAIN roots' = Kinds /\ roots' = [k \in Kinds |-> roots'[k]]
    <3>1. roots' = [roots EXCEPT !["property"][1].action = InFront(rule, @)]
      BY <1>4, <1>13
    <3>2. roots = [k \in Kinds |-> roots[k]]
      BY <1>6 DEF RulesTyped
    <3>. HIDE DEF rule
    <3>. QED  BY <1>6, <3>1, <3>2 DEF WithActions
  <2>2. IsList(list[1].action)
    <3>1. list[1] \in ToSet(list)
      <4>1. DOMAIN list = 1 .. Len(list) /\ Len(list) \in Nat
        BY <1>6, Listed
      <4>2. Len(list) # 0
        <5>1. list \in Seq(ToSet(list))
          BY <1>6 DEF IsList
        <5>. QED  BY <1>6, <5>1, EmptySeq
      <4>3. 1 \in DOMAIN list
        <5>. HIDE DEF list
        <5>. QED  BY <4>1, <4>2
      <4>. QED  BY <4>3 DEF ToSet
    <3>. QED  BY <1>6, <3>1 DEF RulesTyped
  <2>3. IsList(acts) /\ ActionsSeen(acts)
           = InFront(<<rule.value, rule.exec.string>>, ActionsSeen(list[1].action))
    BY <2>2, FrontAdded, ActionsFront
  <2>4. \A r \in ToSet(list) : /\ r = [name |-> r.name, match |-> r.match, action |-> r.action]
                               /\ IsList(r.action)
    BY <1>6 DEF RulesTyped
  <2>5. rule.value = a.value /\ rule.exec.string = a.exec
    BY DEF NewExec
  <2>6. Seen("property", list) = InFront(<<m, <<name, so(action - 1)>>>>, L("property"))
        /\ IsList(L("property"))
    BY <1>6, <1>8, <1>10, <1>11
  <2>. HIDE DEF rule, acts, list
  <2>7. /\ IsList(t) /\ t # <<>>
        /\ \A r \in ToSet(t) : /\ r = [name |-> r.name, match |-> r.match, action |-> r.action]
                               /\ IsList(r.action)
        /\ ActionsSeen(list[1].action) = so(action - 1)
        /\ Seen("property", t) = InFront(<<m, <<name, ActionsSeen(acts)>>>>, L("property"))
    BY <1>6, <2>3, <2>4, <2>6, SeenChanged
  <2>. HIDE DEF t
  <2>8. RulesTyped'
    <3>1. \A k \in Kinds : IsList(roots'[k])
      BY <1>6, <2>1, <2>7 DEF RulesTyped
    <3>. QED  BY <2>1, <2>7, <3>1 DEF RulesTyped
  <2>9. ActionsSeen(acts) = so(action)
    <3>1. ActionOf(a) = << <<a.value, a.exec>> >>
      BY <1>13 DEF ActionOf
    <3>. QED  BY <1>9, <2>3, <2>5, <2>7, <3>1 DEF InFront
  <2>10. Seen("property", t) = InFront(Half', L("property"))
    BY <1>10, <2>7, <2>9
  <2>11. ASSUME NEW k \in Kinds
         PROVE  Seen(k, roots'[k]) = (IF k = "property" THEN <<Half'>> ELSE <<>>) \o L(k)'
    <3>1. CASE k = "property"
      BY <1>6, <1>7, <2>1, <2>10, <3>1 DEF InFront
    <3>2. CASE k # "property"
      BY <1>7, <1>11, <2>1, <3>2
    <3>. QED  BY <3>1, <3>2
  <2>12. roots'["property"] # <<>>
    BY <2>1, <2>7
  <2>. QED  BY <2>8, <2>11, <2>12
<1>14. Read
  <2>. HIDE DEF Read, a
  <2>. QED  BY <1>12, <1>13
<1>15. PlaceOK'
  <2>1. /\ file' \in 1 .. Len(conffiles') + 1
        /\ file' \in DOMAIN conffiles' => node' <= Len(Elements')
    BY <1>1, <1>4, <1>5 DEF ListsOK, PlaceOK
  <2>2. action' \in Nat /\ action' <= Len(as) + 1
    <3>. DEFINE N == Len(as)
    <3>1. N \in Nat /\ action \in 1 .. N /\ action' = action + 1
      BY <1>3, <1>4
    <3>. HIDE DEF N
    <3>2. action' \in Nat /\ action' <= N + 1
      BY <3>1
    <3>. QED  BY <3>2 DEF N
  <2>3. Current'.tag = "Property" /\ Current'.actions = as /\ pc' = "parse" /\ PropertyMade'
    BY <1>1, <1>4, <1>5, <1>6
  <2>. QED  BY <1>5, <1>14, <2>1, <2>2, <2>3 DEF PlaceOK
<1>16. RootsOK'
  <2>1. action' > 0
    <3>. HIDE DEF as
    <3>. QED  BY <1>3, <1>4
  <2>. QED  BY <1>14, <2>1 DEF RootsOK, L
<1>. QED  BY <1>14, <1>15, <1>16

LEMMA PropertyDoneStep ==
    ASSUME TextsOK, ListsOK, RootsOK, PropertyDone
    PROVE  RulesTyped' /\ PlaceOK' /\ RootsOK'
<1>. DEFINE as == Current.actions
            w == Elements[node + 1]
            L(k) == LastFirst(RulesAre(k), DoneUpTo(node))
<1>1. /\ AtElement /\ pc = "parse" /\ Current.tag = "Property" /\ action > Len(as) /\ action # 0
      /\ UNCHANGED <<start, pc, dir, unread, conffiles, file, roots>>
      /\ node' = node + 1 /\ action' = 0
  BY DEF PropertyDone, AtElement, Parsing, NextElement
<1>2. IsList(as)
  BY <1>1, AtHand DEF ReadableElement
<1>3. Len(as) \in Nat
  BY <1>2, Listed
<1>4. action > 0 /\ action <= Len(as) + 1 /\ action \in Nat /\ PropertyMade
  <2>1. action \in Nat /\ action > 0
    BY <1>1 DEF ListsOK, PlaceOK
  <2>. QED  BY <1>1, <2>1 DEF ListsOK, PlaceOK
<1>5. action - 1 = Len(as)
  <2>. DEFINE N == Len(as)
  <2>1. N \in Nat /\ action > N /\ action <= N + 1 /\ action \in Nat
    BY <1>1, <1>3, <1>4
  <2>. HIDE DEF N
  <2>2. action - 1 = N
    BY <2>1
  <2>. QED  BY <2>2 DEF N
<1>6. RuleOf("property", w) = <<Half>>
  <2>1. LastFirst(ActionsAre(Current), SubSeq(as, 1, action - 1)) = ActionsOf(Current)
    BY <1>2, <1>5, ActionsAll
  <2>. QED  BY <1>1, <1>4, <2>1, PropertyRule DEF Half
<1>7. \A k \in Kinds \ {"property"} : RuleOf(k, w) = <<>>
  BY <1>1, PropertyOnly
<1>8. \A k \in Kinds : Seen(k, roots[k]) = (IF k = "property" THEN <<Half>> ELSE <<>>) \o L(k)
  BY <1>1, <1>4 DEF RootsOK
<1>9. \A k \in Kinds : L(k)' = RuleOf(k, w) \o L(k)
  BY <1>1, RulesStep
<1>. HIDE DEF L, w
<1>10. \A k \in Kinds : Seen(k, roots'[k]) = L(k)'
  BY <1>1, <1>6, <1>7, <1>8, <1>9
<1>11. RulesTyped'
  BY <1>1 DEF ListsOK, RulesTyped
<1>12. ASSUME NEW k \in Kinds PROVE Seen(k, roots'[k]) = <<>> \o L(k)'
  <2>1. IsList(Seen(k, roots'[k]))
    <3>1. IsList(roots'[k])
      BY <1>11 DEF RulesTyped
    <3>. QED  BY <3>1, SeenFront
  <2>. QED  BY <1>10, <2>1, NoneInFront
<1>13. RootsOK'
  <2>1. ~(action' > 0)
    BY <1>1
  <2>. QED  BY <1>12, <2>1 DEF RootsOK, L
<1>14. PlaceOK'
  BY <1>1, PlaceOn
<1>. QED  BY <1>11, <1>13, <1>14

LEMMA FileDoneStep ==
    ASSUME TextsOK, ListsOK, RootsOK, FileDone
    PROVE  RulesTyped' /\ PlaceOK' /\ RootsOK'
<1>1. /\ pc = "parse" /\ file \in DOMAIN conffiles /\ node = Len(Elements)
      /\ file' = file + 1 /\ node' = 0
      /\ UNCHANGED <<start, pc, dir, unread, conffiles, action, roots>>
  BY DEF FileDone, Parsing
<1>2. ~AtElement
  <2>1. Len(Elements) \in Nat
    BY <1>1, ElementsCount
  <2>. QED  BY <1>1, <2>1 DEF AtElement
<1>3. action = 0
  BY <1>1, <1>2, NoHalf
<1>4. RulesTyped'
  BY <1>1 DEF ListsOK, RulesTyped
<1>5. PlaceOK'
  <2>1. DOMAIN conffiles = 1 .. Len(conffiles) /\ Len(conffiles) \in Nat
    BY DEF ListsOK, FilesOK
  <2>2. file' \in 1 .. Len(conffiles') + 1
    BY <1>1, <2>1
  <2>3. file' \in DOMAIN conffiles' => node' <= Len(Elements')
    <3>1. SUFFICES ASSUME file + 1 \in DOMAIN conffiles PROVE 0 <= Len(Elements')
      BY <1>1
    <3>2. conffiles[file + 1].document \in Documents(start) /\ start \in Starts
      BY <3>1 DEF TextsOK
    <3>3. IsList(RuleElements(conffiles[file + 1].document))
      BY <3>2, RulesReadable
    <3>4. Len(RuleElements(conffiles[file + 1].document)) \in Nat
      BY <3>3, Listed
    <3>5. Elements' = RuleElements(conffiles[file + 1].document)
      BY <1>1 DEF Elements, Document
    <3>. QED  BY <3>4, <3>5
  <2>. QED  BY <1>1, <1>3, <2>2, <2>3 DEF PlaceOK
<1>6. RootsOK'
  <2>1. DoneUpTo(node)' = DoneUpTo(node)
    BY DoneFile
  <2>2. ASSUME NEW k \in Kinds
        PROVE  LastFirst(RulesAre(k), DoneUpTo(node))' = LastFirst(RulesAre(k), DoneUpTo(node))
    BY <1>1, <2>1 DEF RulesAre, AllElements
  <2>3. \A k \in Kinds : Seen(k, roots[k]) = <<>> \o LastFirst(RulesAre(k), DoneUpTo(node))
    BY <1>1, <1>3 DEF RootsOK
  <2>. QED  BY <1>1, <1>3, <2>2, <2>3 DEF RootsOK
<1>. QED  BY <1>4, <1>5, <1>6

LEMMA FoundStep ==
    ASSUME TextsOK, ListsOK, AllFound
    PROVE  RulesTyped' /\ PlaceOK' /\ RootsOK'
<1>1. /\ pc = "find" /\ pc' \in {"exit", "parse"}
      /\ UNCHANGED <<start, dir, unread, conffiles, file, node, action, roots>>
  BY DEF AllFound
<1>2. file = 1 /\ node = 0 /\ action = 0 /\ \A kind \in Kinds : roots[kind] = <<>>
  BY <1>1 DEF ListsOK, PlaceOK
<1>3. RulesTyped'
  BY <1>1 DEF ListsOK, RulesTyped
<1>4. PlaceOK'
  <2>1. file' \in 1 .. Len(conffiles') + 1
    BY <1>1, <1>2 DEF ListsOK, FilesOK
  <2>2. file' \in DOMAIN conffiles' => node' <= Len(Elements')
    <3>1. Elements' = Elements
      BY <1>1 DEF Elements, Document
    <3>2. file \in DOMAIN conffiles => Len(Elements) \in Nat
      BY ElementsCount
    <3>. QED  BY <1>1, <1>2, <3>1, <3>2
  <2>. QED  BY <1>1, <1>2, <2>1, <2>2 DEF PlaceOK
<1>5. RootsOK'
  <2>1. \A k \in Kinds : Seen(k, roots[k]) = <<>> \o LastFirst(RulesAre(k), DoneUpTo(node))
    <3>1. ASSUME NEW k \in Kinds
          PROVE  Seen(k, roots[k]) = <<>> \o LastFirst(RulesAre(k), DoneUpTo(node))
      BY <1>2, RootsAtStart
    <3>. QED  BY <3>1
  <2>2. \A k \in Kinds : LastFirst(RulesAre(k), DoneUpTo(node))' = LastFirst(RulesAre(k), DoneUpTo(node))
    BY <1>1 DEF RulesAre, AllElements, DoneUpTo, Found, Elements, Document
  <2>. QED  BY <1>1, <1>2, <2>1, <2>2 DEF RootsOK
<1>. QED  BY <1>3, <1>4, <1>5

LEMMA ListsNext == TextsOK /\ ListsOK /\ RootsOK /\ [Next]_vars => ListsOK' /\ RootsOK'
<1>1. SUFFICES ASSUME TextsOK, ListsOK, RootsOK, [Next]_vars
               PROVE  RulesTyped' /\ PlaceOK' /\ RootsOK'
  BY FilesNext DEF ListsOK
<1>2. CASE pc' \notin {"find", "parse"} /\ UNCHANGED roots
  BY <1>1, <1>2 DEF ListsOK, RulesTyped, PlaceOK, RootsOK
<1>3. CASE pc = "find" /\ UNCHANGED <<pc, file, node, action, roots>>
  BY <1>1, <1>3 DEF ListsOK, RulesTyped, PlaceOK, RootsOK
<1>4. CASE UNCHANGED vars
  <2>1. RulesTyped'
    BY <1>1, <1>4 DEF ListsOK, RulesTyped, vars
  <2>2. PlaceOK'
    BY <1>1, <1>4
       DEF ListsOK, PlaceOK, vars, AtElement, Parsing, Elements, Document, Current, CurrentMatch,
           PropertyMade
  <2>3. RootsOK'
    BY <1>1, <1>4
       DEF RootsOK, vars, Half, RulesAre, AllElements, DoneUpTo, Found, Elements, Document,
           Current, CurrentMatch
  <2>. QED  BY <2>1, <2>2, <2>3
<1>5. CASE OpenDirectory
  BY <1>3, <1>5 DEF OpenDirectory
<1>6. CASE ReadEntry
  BY <1>3, <1>6 DEF ReadEntry
<1>7. CASE BadFile \/ Loaded
  BY <1>2, <1>7 DEF BadFile, Loaded
<1>. QED
  BY <1>1, <1>4, <1>5, <1>6, <1>7, FoundStep, FileDoneStep, RuleStep, ConditionStep,
     PropertyStep, ValueStep, PropertyDoneStep, PassStep DEF Next

(* Once all files are read, the lists are what the files say.              *)
LEMMA LoadedInit == Init => LoadedAsWritten
  BY DEF Init, LoadedAsWritten

LEMMA LoadedNext ==
    TextsOK /\ ListsOK /\ RootsOK /\ LoadedAsWritten /\ [Next]_vars => LoadedAsWritten'
<1>1. SUFFICES ASSUME TextsOK, ListsOK, RootsOK, LoadedAsWritten, [Next]_vars PROVE LoadedAsWritten'
  OBVIOUS
<1>2. CASE Loaded
  <2>1. /\ pc = "parse" /\ file \notin DOMAIN conffiles /\ UNCHANGED <<start, conffiles, roots>>
    BY <1>2 DEF Loaded
  <2>2. action = 0
    BY <1>1, <2>1, NoHalf DEF AtElement, Parsing
  <2>3. DoneUpTo(node) = Written /\ Written \in Seq(AllElements)
    BY <1>1, <2>1, DoneAll
  <2>4. ASSUME NEW kind \in Kinds PROVE Seen(kind, roots[kind]) = Configured(kind)
    <3>1. Seen(kind, roots[kind]) = <<>> \o LastFirst(RulesAre(kind), Written)
      BY <1>1, <2>1, <2>2, <2>3 DEF RootsOK
    <3>. QED  BY <2>3, <3>1, RulesAll, NoneInFront
  <2>5. Written' = Written /\ roots' = roots
    BY <2>1 DEF Written
  <2>. QED  BY <2>4, <2>5 DEF LoadedAsWritten, Configured
<1>3. CASE UNCHANGED <<start, pc, conffiles, roots>>
  BY <1>1, <1>3 DEF LoadedAsWritten, Configured, Written
<1>4. CASE pc' # "loaded"
  BY <1>4 DEF LoadedAsWritten
<1>. QED
  BY <1>1, <1>2, <1>3, <1>4
     DEF Next, vars, OpenDirectory, ReadEntry, AllFound, BadFile, FileDone, AddRule, AddCondition,
         AddProperty, AddPropertyValue, PropertyDone, PassOver, AddTo, NextElement,
         Parsing, AtElement

(* Whatever the configuration is, and however many files, devices, rules   *)
(* and actions there are: when it is loaded every list has, last one       *)
(* first, the rules that are written, and those that cannot be made have   *)
(* taken nothing else with them.                                           *)
THEOREM RulesAreLoaded == Spec => []LoadedAsWritten
<1>. QED
  BY ListsInit, ListsNext, LoadedInit, LoadedNext, SearchInit, SearchNext, TextsInit, TextsNext,
     PTL DEF Spec

=============================================================================
