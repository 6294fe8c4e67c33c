--------------------------- MODULE CommandBuffer ---------------------------
(***************************************************************************)
(* The buffer halevt_run_command puts a command together in                *)
(* (src/hal_interface.c).  The command is a sequence of elements, texts of *)
(* the configuration and values of properties; what matters of an element  *)
(* is its length.  For each the code compares and doubles string_size, an  *)
(* int, and asks realloc for as much.  HalevtDaemon takes all this as the  *)
(* one step RunCommand.                                                    *)
(*                                                                         *)
(* Overflow of an int is undefined; what gcc makes of this code wraps.     *)
(***************************************************************************)
EXTENDS Integers, Sequences

CONSTANTS
    Commands,   \* the lengths of the elements of each command
    IntMax,     \* INT_MAX
    StartSize,  \* 255, the size of the first buffer
    Memory      \* realloc gives no more than this

ASSUME BufferAssumption ==
    /\ IntMax \in Nat /\ Memory \in 0 .. IntMax /\ StartSize \in 2 .. Memory
    /\ Commands \subseteq Seq(0 .. IntMax)

VARIABLES
    exec,          \* the command
    next,          \* the element that comes next
    string_size, current_size,
    room,          \* how much realloc has given
    length,        \* strlen(command)
    copied,        \* how many elements are in the command
    outcome        \* "building", "started", or "failed" for want of memory

vars == <<exec, next, string_size, current_size, room, length, copied, outcome>>

Init ==
    /\ exec \in Commands
    /\ next = 1
    /\ string_size = StartSize
    /\ current_size = 1
    /\ room = StartSize
    /\ length = 0
    /\ copied = 0
    /\ outcome = "building"

(* An int that has taken the value x, which is less than twice too large.  *)
ToInt(x) == IF x <= IntMax THEN x ELSE x - IntMax - IntMax - 2

Building == outcome = "building" /\ next \in DOMAIN exec
Element == exec[next]

(* string_size and current_size the other way round, as their names say.   *)
Grows_Swapped == ToInt(Element + current_size) > string_size

Grows == ToInt(Element + string_size) > current_size

(* The doubled size does not count the element.                            *)
NewSize_Short == ToInt(2 * string_size)

NewSize == ToInt(2 * (Element + string_size))

AppendElement ==
    /\ Building /\ Grows
    /\ NewSize \in 1 .. Memory
    /\ string_size' = NewSize
    /\ current_size' = current_size + Element
    /\ room' = NewSize
    /\ length' = length + Element
    /\ copied' = copied + 1
    /\ next' = next + 1
    /\ UNCHANGED <<exec, outcome>>

OutOfMemory ==
    /\ Building /\ Grows
    /\ NewSize \notin 1 .. Memory
    /\ string_size' = NewSize
    /\ current_size' = ToInt(current_size + Element)
    /\ outcome' = "failed"
    /\ UNCHANGED <<exec, next, room, length, copied>>

(* The strcat is inside the if: an element that is not taken to need room  *)
(* is left out, and not counted (..._Counted: it is).                      *)
LeaveOut_Counted ==
    /\ Building /\ ~Grows
    /\ next' = next + 1
    /\ current_size' = current_size + Element
    /\ UNCHANGED <<exec, string_size, room, length, copied, outcome>>

LeaveOut ==
    /\ Building /\ ~Grows
    /\ next' = next + 1
    /\ UNCHANGED <<exec, string_size, current_size, room, length, copied, outcome>>

Start ==
    /\ outcome = "building" /\ next \notin DOMAIN exec
    /\ outcome' = "started"
    /\ UNCHANGED <<exec, next, string_size, current_size, room, length, copied>>

Next == AppendElement \/ OutOfMemory \/ LeaveOut \/ Start

Spec == Init /\ [][Next]_vars

-----------------------------------------------------------------------------
(* What the sizes stand for: string_size is the room there is, and         *)
(* current_size the room that is needed, while the command grows.          *)
BufferOK ==
    /\ exec \in Seq(0 .. IntMax)
    /\ next \in 1 .. Len(exec) + 1 /\ copied \in Nat /\ length \in Nat
    /\ room \in 1 .. Memory
    /\ outcome \in {"building", "started", "failed"}
    /\ outcome = "building" =>
          string_size = room /\ current_size = length + 1

(* The text and its end fit in the buffer strcat writes to, whatever int   *)
(* arithmetic has made of the size: a size that has overflowed is never    *)
(* handed to realloc with success.                                         *)
CommandFits == length + 1 <= room

(* With less memory than half of INT_MAX, and no text of that length, a    *)
(* command that is started is complete: no element is left out.            *)
Moderate ==
    /\ 2 * Memory <= IntMax
    /\ \A n \in DOMAIN exec : 2 * exec[n] <= IntMax

StartedWhole == outcome = "started" /\ Moderate => copied = Len(exec)

(* What every step keeps: nothing is left out while the command grows.     *)
BufferIInv ==
    /\ BufferOK /\ CommandFits
    /\ outcome = "building" => current_size < string_size
    /\ outcome = "started" => next = Len(exec) + 1
    /\ Moderate => copied = next - 1

=============================================================================
