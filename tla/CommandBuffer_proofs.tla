------------------------ MODULE CommandBuffer_proofs ------------------------
(***************************************************************************)
(* Theorems about CommandBuffer, for every command, every width of an int, *)
(* and every amount of memory.                                             *)
(***************************************************************************)
EXTENDS CommandBuffer, TLAPS

LEMMA InitBuffer == Init => BufferIInv
<1>. SUFFICES ASSUME Init PROVE BufferIInv
  OBVIOUS
<1>1. exec \in Seq(0 .. IntMax) /\ Len(exec) \in Nat
  BY BufferAssumption DEF Init
<1>2. /\ next = 1 /\ copied = 0 /\ length = 0 /\ current_size = 1
      /\ string_size = StartSize /\ room = StartSize /\ outcome = "building"
  BY DEF Init
<1>3. BufferOK /\ CommandFits
  BY <1>1, <1>2, BufferAssumption DEF BufferOK, CommandFits
<1>4. current_size < string_size /\ copied = next - 1
  BY <1>2, BufferAssumption
<1>5. QED
  BY <1>2, <1>3, <1>4 DEF BufferIInv

LEMMA ElementType ==
    ASSUME NEW S, NEW s \in Seq(S), NEW i \in DOMAIN s
    PROVE  s[i] \in S
OBVIOUS

LEMMA ElementInt ==
    ASSUME BufferOK, Building
    PROVE  Element \in 0 .. IntMax
<1>1. exec \in Seq(0 .. IntMax) /\ next \in DOMAIN exec
  BY DEF BufferOK, Building
<1>2. exec[next] \in 0 .. IntMax
  BY ONLY <1>1, ElementType
<1>3. QED
  BY <1>2 DEF Element

(* An element that Grows takes in has not made the sum overflow, and the   *)
(* doubled sum is either exact or negative.                                *)
LEMMA Doubling ==
    ASSUME BufferIInv, Building, Grows
    PROVE  /\ Element \in 0 .. IntMax
           /\ Element + string_size <= IntMax
           /\ NewSize \in 1 .. Memory => NewSize = 2 * (Element + string_size)
<1>1. /\ Element \in 0 .. IntMax
      /\ string_size \in 1 .. Memory /\ current_size \in Nat \ {0}
  BY ElementInt DEF BufferIInv, BufferOK, Building
<1>2. Element + string_size <= IntMax
  BY <1>1, BufferAssumption DEF Grows, ToInt
<1>3. ASSUME NewSize \in 1 .. Memory
      PROVE  NewSize = 2 * (Element + string_size)
  BY <1>1, <1>2, <1>3, BufferAssumption DEF NewSize, ToInt
<1>4. QED
  BY <1>1, <1>2, <1>3

LEMMA NextBuffer == BufferIInv /\ [Next]_vars => BufferIInv'
<1>. SUFFICES ASSUME BufferIInv, [Next]_vars PROVE BufferIInv'
  OBVIOUS
<1>0. /\ exec \in Seq(0 .. IntMax) /\ Len(exec) \in Nat
      /\ DOMAIN exec = 1 .. Len(exec)
      /\ next \in 1 .. Len(exec) + 1
  BY DEF BufferIInv, BufferOK
<1>1. CASE AppendElement
  <2>1. /\ Building /\ Grows
        /\ NewSize = 2 * (Element + string_size) /\ NewSize \in 1 .. Memory
        /\ Element \in 0 .. IntMax
    BY <1>1, Doubling DEF AppendElement
  <2>2. BufferOK'
    BY <1>0, <1>1, <2>1 DEF AppendElement, BufferIInv, BufferOK, Building
  <2>3. CommandFits'
    BY <1>1, <2>1, BufferAssumption
    DEF AppendElement, BufferIInv, BufferOK, CommandFits, Building
  <2>4. current_size' < string_size'
    BY <1>1, <2>1, BufferAssumption
    DEF AppendElement, BufferIInv, BufferOK, Building
  <2>5. Moderate' => copied' = next' - 1
    <3>1. Moderate' => Moderate
      BY <1>1 DEF AppendElement, Moderate
    <3>2. QED
      BY <1>0, <1>1, <3>1 DEF AppendElement, BufferIInv, BufferOK
  <2>6. outcome' = "building"
    BY <1>1, <2>1 DEF AppendElement, Building
  <2>7. QED
    BY <2>2, <2>3, <2>4, <2>5, <2>6 DEF BufferIInv
<1>2. CASE OutOfMemory
  BY <1>2 DEF OutOfMemory, Building, BufferIInv, BufferOK, CommandFits, Moderate
<1>3. CASE LeaveOut
  <2>1. BufferOK' /\ CommandFits'
    BY <1>0, <1>3 DEF LeaveOut, BufferIInv, BufferOK, CommandFits, Building
  <2>2. ~Moderate
    <3>1. SUFFICES ASSUME Moderate PROVE FALSE
      OBVIOUS
    <3>2. /\ Element \in 0 .. IntMax /\ 2 * Element <= IntMax
          /\ 2 * Memory <= IntMax
      BY <1>3, <3>1, ElementInt DEF LeaveOut, Building, Element, Moderate, BufferIInv
    <3>3. /\ string_size \in 1 .. Memory
          /\ current_size \in Nat /\ current_size < string_size
      BY <1>3 DEF LeaveOut, Building, BufferIInv, BufferOK
    <3>4. /\ ToInt(Element + string_size) = Element + string_size
          /\ ~(Element + string_size > current_size)
      BY <1>3, <3>2, <3>3, BufferAssumption DEF LeaveOut, Grows, ToInt
    <3>5. QED
      BY <3>2, <3>3, <3>4, BufferAssumption
  <2>3. QED
    BY <1>3, <2>1, <2>2 DEF LeaveOut, BufferIInv, Moderate, Building
<1>4. CASE Start
  BY <1>0, <1>4 DEF Start, BufferIInv, BufferOK, CommandFits, Moderate
<1>5. CASE UNCHANGED vars
  BY <1>5 DEF vars, BufferIInv, BufferOK, CommandFits, Moderate
<1>6. QED
  BY <1>1, <1>2, <1>3, <1>4, <1>5 DEF Next

LEMMA BufferInvariance == Spec => []BufferIInv
BY InitBuffer, NextBuffer, PTL DEF Spec

(* string_size and current_size are what they are used for.                *)
THEOREM SizesRight == Spec => []BufferOK
<1>1. BufferIInv => BufferOK
  BY DEF BufferIInv
<1>2. QED
  BY <1>1, BufferInvariance, PTL

(* halevt_run_command never writes past its buffer.                        *)
THEOREM NoOverrun == Spec => []CommandFits
<1>1. BufferIInv => CommandFits
  BY DEF BufferIInv
<1>2. QED
  BY <1>1, BufferInvariance, PTL

(* halevt_run_command starts no command that lacks an element.             *)
THEOREM NothingLeftOut == Spec => []StartedWhole
<1>1. BufferIInv => StartedWhole
  BY DEF BufferIInv, BufferOK, StartedWhole
<1>2. QED
  BY <1>1, BufferInvariance, PTL

=============================================================================
