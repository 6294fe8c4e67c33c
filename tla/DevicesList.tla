---------------------------- MODULE DevicesList ----------------------------
(***************************************************************************)
(* The devices list of halevt (src/devices_list.c): the daemon's own copy  *)
(* of every HAL device and of its properties, kept so that a removal rule  *)
(* can still look at the properties of a device HAL has forgotten.         *)
(*                                                                         *)
(* The C list is singly linked, newest entry first; here it is a sequence  *)
(* whose first element is halevt_device_root.  Entries of one udi may be   *)
(* repeated: nothing in the code prevents it, and every operation works on *)
(* the first entry it meets.  The property list of an entry is a function  *)
(* from keys: get_all_properties delivers a key once, set_property         *)
(* replaces the entry of a key it finds.                                   *)
(***************************************************************************)
EXTENDS Naturals, Sequences, FiniteSets

CONSTANTS
    Udis,      \* unique device identifiers
    Keys,      \* property keys
    Values,    \* property values; a value that names a device is its udi
    NoKey,     \* the key is not among the properties of the device
    Null       \* a values array whose first string is NULL

ASSUME ValuesAssumption == /\ NoKey \notin Values
                           /\ Null \notin Values
                           /\ NoKey # Null

(* What HAL holds for a device, and what an entry of the list may hold.    *)
Props == [Keys -> Values \cup {NoKey}]
CopyProps == [Keys -> Values \cup {NoKey, Null}]
Entry == [udi : Udis, props : CopyProps]

-----------------------------------------------------------------------------

(* Entry i is the one a walk from the root meets first for udi u.          *)
FirstAt(list, u, i) ==
    /\ i \in DOMAIN list
    /\ list[i].udi = u
    /\ \A j \in 1 .. (i - 1) : list[j].udi # u

(* halevt_device_list_find_device: Listed says whether it returns an entry,*)
(* Find which one.                                                         *)
Listed(list, u) == \E i \in DOMAIN list : FirstAt(list, u, i)
Find(list, u) == CHOOSE i \in DOMAIN list : FirstAt(list, u, i)

(* Some definitions have a form with a mistake beside them, named          *)
(* ..._...; the runs are checked to notice it.                             *)

(* The new entry goes to the end of the list.                              *)
AddDevice_AtTail(list, u, props) == Append(list, [udi |-> u, props |-> props])

(* halevt_device_list_add_device, once HAL has answered with props.        *)
AddDevice(list, u, props) == <<[udi |-> u, props |-> props]>> \o list

(* The entry is freed and stays in the list.                               *)
RemoveDevice_NotUnlinked(list, u) == list

(* The root becomes the entry after the one removed, whichever that is.    *)
RemoveDevice_MovesRoot(list, u) ==
    IF Listed(list, u) THEN SubSeq(list, Find(list, u) + 1, Len(list)) ELSE list

(* halevt_device_list_remove_device: the first entry only.                 *)
RemoveDevice(list, u) ==
    IF Listed(list, u)
    THEN LET i == Find(list, u)
         IN  SubSeq(list, 1, i - 1) \o SubSeq(list, i + 1, Len(list))
    ELSE list

(* The entry found is that of the root, whatever its udi.                  *)
SetProperty_AtRoot(list, u, k, v) ==
    IF Listed(list, u) THEN [list EXCEPT ![1].props[k] = v] ELSE list

(* halevt_device_list_set_property, once HAL has answered with v.          *)
SetProperty(list, u, k, v) ==
    IF Listed(list, u)
    THEN [list EXCEPT ![Find(list, u)].props[k] = v]
    ELSE list

(* halevt_device_list_remove_property.                                     *)
RemoveProperty(list, u, k) == SetProperty(list, u, k, NoKey)

(* The number of entries of one udi.                                       *)
CopiesOf(list, u) == Cardinality({i \in DOMAIN list : list[i].udi = u})

(* What there is to know about a device: that it is there, and each of its *)
(* properties.                                                             *)
There == "there"
Aspects == Keys \cup {There}

(* What the list has to say of aspect a of u, value v for a property.      *)
Agrees(list, u, a, v) ==
    \E i \in DOMAIN list :
        /\ FirstAt(list, u, i)
        /\ a # There => list[i].props[a] = v

=============================================================================
