------------------------------- MODULE Uditab -------------------------------
(***************************************************************************)
(* The table of handled devices of halevt-mount, in its file "uditab" and  *)
(* in memory (halevt-mount/halevt-mount.c).                                *)
(*                                                                         *)
(* The file has a line "udi:device:mountpoint" for each device; a line is  *)
(* a sequence of fields here, and None stands for an empty field or a NULL *)
(* pointer.  In memory the table is a linked list; a sequence whose first  *)
(* element is udi_device_mountpoint_root.                                  *)
(***************************************************************************)
EXTENDS Naturals, Sequences, SequencesExt

CONSTANTS Udis, Devices, Mountpoints, None

ASSUME NoneAssumption == None \notin Udis \cup Devices \cup Mountpoints

TableEntry == [udi : Udis,
               device : Devices \cup {None},
               mountpoint : Mountpoints \cup {None}]

Line == {<<u>> : u \in Udis}
        \cup {<<u, d>> : u \in Udis, d \in Devices}
        \cup {<<u, d, m>> : u \in Udis, d \in Devices \cup {None}, m \in Mountpoints}

-----------------------------------------------------------------------------
(* One line of halevt_mount_print_udis and of halevt_mount_parse_file.     *)

PrintEntry(e) ==
    CASE e.mountpoint # None -> <<e.udi, e.device, e.mountpoint>>
      [] e.mountpoint = None /\ e.device # None -> <<e.udi, e.device>>
      [] e.mountpoint = None /\ e.device = None -> <<e.udi>>

ParseLine(line) ==
    [udi |-> line[1],
     device |-> IF Len(line) > 1 THEN line[2] ELSE None,
     mountpoint |-> IF Len(line) > 2 THEN line[3] ELSE None]

PrintUdis(list) == [i \in DOMAIN list |-> PrintEntry(list[i])]

(* Every line goes in front of those already read.                         *)
ParseFile(lines) == Reverse([i \in DOMAIN lines |-> ParseLine(lines[i])])

-----------------------------------------------------------------------------
(* The loops of halevt_mount_sync_udi and of "clean" go through the list   *)
(* with previous_udi behind current_udi.  What is in front of current_udi  *)
(* is a sequence: previous_udi is its last element, or, when it is empty,  *)
(* previous_udi and the root are current_udi itself.                       *)

(* halevt_mount_remove_udi.  When previous_udi is the root, the root moves *)
(* on to current_udi->next, also if previous_udi is not current_udi.       *)
RemoveUdi(front) == IF Len(front) <= 1 THEN <<>> ELSE front

(* The loop of "clean" over a whole list, for the entries of some udis:    *)
(* front[n] is what is in front of current_udi after n entries.            *)
RemoveAll(list, udis) ==
    LET front[n \in 0 .. Len(list)] ==
            IF n = 0 THEN <<>>
            ELSE IF list[n].udi \in udis THEN RemoveUdi(front[n - 1])
            ELSE Append(front[n - 1], list[n])
    IN  front[Len(list)]

-----------------------------------------------------------------------------
(* halevt_mount_find_udi: the entries one of the given fields fits, after  *)
(* n entries those in found[n].                                            *)
Fits(e, udi, device, mountpoint, arg) ==
    \/ udi # None /\ e.udi = udi
    \/ device # None /\ e.device = device
    \/ mountpoint # None /\ e.mountpoint = mountpoint
    \/ arg # None /\ arg \in {e.udi, e.device, e.mountpoint}

FindUdi(list, udi, device, mountpoint, arg) ==
    LET found[n \in 0 .. Len(list)] ==
            IF n = 0 THEN <<>>
            ELSE IF Fits(list[n], udi, device, mountpoint, arg)
                 THEN Append(found[n - 1], list[n])
            ELSE found[n - 1]
    IN  found[Len(list)]

UdisOf(list) == {list[i].udi : i \in DOMAIN list}
UdisIn(lines) == {lines[i][1] : i \in DOMAIN lines}

=============================================================================
