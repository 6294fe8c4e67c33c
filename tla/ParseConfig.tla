---------------------------- MODULE ParseConfig ----------------------------
(***************************************************************************)
(* The configuration of halevt as it starts: which files are read          *)
(* (halevt_find_conf_files in src/manager.c) and what becomes of the rules *)
(* in them (src/parse_config.c).  The daemon of HalevtDaemon works with    *)
(* the rule lists this leaves behind.                                      *)
(*                                                                         *)
(* A step is a directory opened, a directory entry looked at, a file or a  *)
(* rule element read.  The disk does not change meanwhile; readdir gives   *)
(* the entries of a directory in any order.                                *)
(***************************************************************************)
EXTENDS ConfigText

CONSTANTS
    Starts    \* the command lines and disks a start may meet

(* A start is a record                                                     *)
(*   report  the option -i                                                 *)
(*   given   the document of the option -c, a sequence of at most one      *)
(*   home, sysconf, data  functions from file names to entries             *)
(* An entry has a kind, "regular", "other" or "gone" (stat fails), and a   *)
(* document.  A document is valid or not (not XML, empty, another root),   *)
(* and is a sequence of devices: [tag, match, children], where children    *)
(* are [tag, exec, name, value, actions] and actions [tag, exec, value].   *)
(* Missing is an attribute that is not there.  Text, comments and unknown  *)
(* elements are elements with other tags.                                  *)

Documents(s) ==
    ToSet(s.given) \cup
    UNION {{d[name].document : name \in DOMAIN d} : d \in {s.home, s.sysconf, s.data}}

(* Of what is in a document, what is read as a text is one.                *)
IsList(s) == s \in Seq(ToSet(s))

ReadableElement(e) ==
    /\ IsList(e.exec) /\ IsList(e.actions)
    /\ \A a \in ToSet(e.actions) : IsList(a.exec)

ReadableDevice(d) ==
    /\ IsList(d.match) /\ IsList(d.children)
    /\ \A e \in ToSet(d.children) : ReadableElement(e)

ASSUME StartsAssumption ==
    \A s \in Starts :
        /\ IsList(s.given)
        /\ \A document \in Documents(s) :
              /\ IsList(document.devices)
              /\ \A d \in ToSet(document.devices) : ReadableDevice(d)

VARIABLES
    start,      \* the command line and the disk
    pc,         \* "find", "parse", "loaded" or "exit"
    dir,        \* how many directories have been opened
    unread,     \* names readdir has still to give
    conffiles,  \* the files found: records [name, dir, document]
    file,       \* the file being parsed
    node,       \* rule elements of it that are done
    action,     \* actions of the current property element that are done
    roots       \* the rule lists

vars == <<start, pc, dir, unread, conffiles, file, node, action, roots>>

Directories == <<start.home, start.sysconf, start.data>>

(* The tag of the elements of each kind of rule.                           *)
TagOf == [insertion |-> "Insertion", removal |-> "Removal", oninit |-> "OnInit",
          condition |-> "Condition", property |-> "Property"]
Kinds == DOMAIN TagOf

Init ==
    /\ start \in Starts
    /\ dir = 0
    /\ unread = {}
    /\ conffiles = [i \in DOMAIN start.given |->
                       [name |-> Missing, dir |-> 0, document |-> start.given[i]]]
    /\ pc = CASE start.report -> "loaded"
              [] ~start.report /\ start.given # <<>> -> "parse"
              [] OTHER -> "find"
    /\ file = 1 /\ node = 0 /\ action = 0
    /\ roots = [k \in Kinds |-> <<>>]

-----------------------------------------------------------------------------
(* halevt_find_conf_files.  A directory that cannot be opened has no       *)
(* entries.                                                                *)

OpenDirectory ==
    /\ pc = "find" /\ unread = {} /\ dir < Len(Directories)
    /\ dir' = dir + 1
    /\ unread' = DOMAIN Directories[dir + 1]
    /\ UNCHANGED <<start, pc, conffiles, file, node, action, roots>>

(* Ends with .xml and is not just .xml.                                    *)
ConfName(name) == name # <<".xml">> /\ Last(name) = ".xml"

(* A file is known by its whole path.                                      *)
AlreadyFound_Path(name) ==
    \E i \in DOMAIN conffiles : conffiles[i].name = name /\ conffiles[i].dir = dir
AlreadyFound(name) == \E i \in DOMAIN conffiles : conffiles[i].name = name

ReadEntry ==
    /\ pc = "find"
    /\ \E name \in unread :
          LET entry == Directories[dir][name]
          IN  /\ unread' = unread \ {name}
              /\ conffiles' =
                    IF entry.kind = "regular" /\ ConfName(name) /\ ~AlreadyFound(name)
                    THEN Append(conffiles, [name |-> name, dir |-> dir,
                                            document |-> entry.document])
                    ELSE conffiles
    /\ UNCHANGED <<start, pc, dir, file, node, action, roots>>

AllFound ==
    /\ pc = "find" /\ unread = {} /\ dir = Len(Directories)
    /\ pc' = IF conffiles = <<>> THEN "exit" ELSE "parse"
    /\ UNCHANGED <<start, dir, unread, conffiles, file, node, action, roots>>

-----------------------------------------------------------------------------
(* halevt_parse_config.                                                    *)

(* The rule elements of a document, each with the match of its device.     *)
(* Elements that are no Device, or have no match, are passed over.         *)
RuleElements(document) ==
    FlattenSeq([d \in DOMAIN document.devices |->
        LET device == document.devices[d]
        IN  IF device.tag = "Device" /\ device.match # Missing
            THEN [c \in DOMAIN device.children |->
                     [match |-> device.match, element |-> device.children[c]]]
            ELSE <<>>])

Document == conffiles[file].document
Elements == RuleElements(Document)
Current == Elements[node + 1].element
CurrentMatch == Elements[node + 1].match

Parsing == pc = "parse" /\ file \in DOMAIN conffiles
AtElement == Parsing /\ Document.valid /\ node < Len(Elements)

BadFile ==
    /\ Parsing /\ ~Document.valid
    /\ pc' = "exit"
    /\ UNCHANGED <<start, dir, unread, conffiles, file, node, action, roots>>

FileDone ==
    /\ Parsing /\ Document.valid /\ node = Len(Elements)
    /\ file' = file + 1
    /\ node' = 0
    /\ UNCHANGED <<start, pc, dir, unread, conffiles, action, roots>>

Loaded ==
    /\ pc = "parse" /\ file \notin DOMAIN conffiles
    /\ pc' = "loaded"
    /\ UNCHANGED <<start, dir, unread, conffiles, file, node, action, roots>>

(* A new rule goes to the end of its list.                                 *)
InFront_AtEnd(rule, list) == Append(list, rule)
(* A new rule points to the one that was the root.                         *)
InFront(rule, list) == <<rule>> \o list

(* A rule that cannot be made takes the rest of its file with it.          *)
NextElement_GivesUp(made) ==
    /\ node' = IF made THEN node + 1 ELSE Len(Elements)
    /\ action' = 0
    /\ UNCHANGED <<start, pc, dir, unread, conffiles, file>>

(* Whether a rule was made makes no difference to those after it.          *)
NextElement(made) ==
    /\ node' = node + 1
    /\ action' = 0
    /\ UNCHANGED <<start, pc, dir, unread, conffiles, file>>

AddTo(kind, rule, made) ==
    /\ roots' = IF made THEN [roots EXCEPT ![kind] = InFront(rule, @)] ELSE roots
    /\ NextElement(made)

(* Insertion, Removal and OnInit: halevt_add_insertion and the like.       *)
Commanded == {"insertion", "removal", "oninit"}

AddRule ==
    /\ AtElement
    /\ \E kind \in Commanded :
          /\ Current.tag = TagOf[kind]
          /\ AddTo(kind,
                   [match |-> NewBooleanExpression(CurrentMatch),
                    exec |-> NewExec(Current.exec)],
                   Current.exec # Missing /\ MatchMade(CurrentMatch)
                       /\ ExecMade(Current.exec))

(* halevt_add_condition.  A condition need not have a value.               *)
ConditionWhole(c) == c.exec # Missing /\ c.name # Missing

AddCondition ==
    /\ AtElement /\ Current.tag = "Condition"
    /\ AddTo("condition",
             [match |-> NewBooleanExpression(CurrentMatch),
              exec |-> NewExec(Current.exec),
              name |-> Current.name, value |-> Current.value],
             ConditionWhole(Current) /\ MatchMade(CurrentMatch)
                 /\ ExecMade(Current.exec))

(* halevt_add_property; its actions are read next.  A property that cannot *)
(* be made, or has no name, takes its actions with it.                     *)
PropertyMade ==
    /\ Current.name # Missing
    /\ HalString(Current.name) # NoText
    /\ MatchMade(CurrentMatch)

AddProperty ==
    /\ AtElement /\ Current.tag = "Property" /\ action = 0
    /\ IF PropertyMade
       THEN /\ roots' = [roots EXCEPT !["property"] =
                            InFront([name |-> HalString(Current.name),
                                     match |-> NewBooleanExpression(CurrentMatch),
                                     action |-> <<>>], @)]
            /\ action' = 1
            /\ UNCHANGED <<start, pc, dir, unread, conffiles, file, node>>
       ELSE NextElement(FALSE) /\ UNCHANGED roots

(* halevt_add_property_value: the property of the element is the root.     *)
ActionMade(a) ==
    /\ a.tag = "Action"
    /\ a.exec # Missing /\ a.value # Missing
    /\ ExecMade(a.exec)

AddPropertyValue ==
    /\ AtElement /\ Current.tag = "Property" /\ action \in DOMAIN Current.actions
    /\ LET a == Current.actions[action]
       IN  roots' = IF ActionMade(a)
                    THEN [roots EXCEPT !["property"][1].action =
                             InFront([value |-> a.value, exec |-> NewExec(a.exec)], @)]
                    ELSE roots
    /\ action' = action + 1
    /\ UNCHANGED <<start, pc, dir, unread, conffiles, file, node>>

PropertyDone ==
    /\ AtElement /\ Current.tag = "Property" /\ action > Len(Current.actions)
    /\ action # 0
    /\ NextElement(TRUE)
    /\ UNCHANGED roots

(* Elements the configuration does not know.                               *)
PassOver ==
    /\ AtElement
    /\ \A kind \in Kinds : Current.tag # TagOf[kind]
    /\ NextElement(TRUE)
    /\ UNCHANGED roots

Next ==
    \/ OpenDirectory \/ ReadEntry \/ AllFound
    \/ BadFile \/ FileDone \/ Loaded
    \/ AddRule \/ AddCondition \/ AddProperty \/ AddPropertyValue \/ PropertyDone
    \/ PassOver

Spec == Init /\ [][Next]_vars /\ WF_vars(Next)

-----------------------------------------------------------------------------
(* Properties.                                                             *)

(* README: a file found in the home directory of the user stands for one   *)
(* of the same name in the directories after it.  Of every name there is a *)
(* configuration file of, one is parsed, that of the first directory which *)
(* has a regular file of the name, and directories come in their order.    *)
FirstFileWins ==
    pc \in {"parse", "loaded"} /\ ~start.report /\ start.given = <<>> =>
        LET Has(d, name) == /\ name \in DOMAIN Directories[d]
                            /\ ConfName(name)
                            /\ Directories[d][name].kind = "regular"
        IN  /\ \A d \in DOMAIN Directories : \A name \in DOMAIN Directories[d] :
                  Has(d, name) =>
                      Cardinality({i \in DOMAIN conffiles : conffiles[i].name = name}) = 1
            /\ \A i \in DOMAIN conffiles :
                  LET f == conffiles[i]
                  IN  /\ Has(f.dir, f.name)
                      /\ \A d \in 1 .. f.dir - 1 : ~Has(d, f.name)
                      /\ \A j \in i .. Len(conffiles) : f.dir <= conffiles[j].dir

(* What a whole configuration should be read as: for each kind of rule,    *)
(* those of all files that have what they need, last one first.            *)
Written ==
    FlattenSeq([i \in DOMAIN conffiles |-> RuleElements(conffiles[i].document)])

(* What a rule element should be read as, of each kind: one rule or none.  *)
ActionOf(a) == IF ActionMade(a) THEN << <<a.value, a.exec>> >> ELSE <<>>
ActionsOf(x) ==
    Reverse(FlattenSeq([i \in DOMAIN x.actions |-> ActionOf(x.actions[i])]))

RuleWhole(kind, x) ==
    CASE kind = "condition" -> x.exec # Missing /\ ExecMade(x.exec) /\ x.name # Missing
      [] kind = "property" -> x.name # Missing /\ HalString(x.name) # NoText
      [] OTHER -> x.exec # Missing /\ ExecMade(x.exec)

Content(kind, x) ==
    CASE kind = "condition" -> <<x.exec, x.name, x.value>>
      [] kind = "property" -> <<HalString(x.name), ActionsOf(x)>>
      [] OTHER -> <<x.exec>>

RuleOf(kind, w) ==
    IF w.element.tag = TagOf[kind] /\ MatchMade(w.match) /\ RuleWhole(kind, w.element)
    THEN << <<NewBooleanExpression(w.match), Content(kind, w.element)>> >>
    ELSE <<>>

Configured(kind) ==
    Reverse(FlattenSeq([i \in DOMAIN Written |-> RuleOf(kind, Written[i])]))

(* The same, of the rules of a list.                                       *)
ActionsSeen(list) == [n \in DOMAIN list |-> <<list[n].value, list[n].exec.string>>]

ContentSeen(kind, r) ==
    CASE kind = "condition" -> <<r.exec.string, r.name, r.value>>
      [] kind = "property" -> <<r.name, ActionsSeen(r.action)>>
      [] OTHER -> <<r.exec.string>>

Seen(kind, list) ==
    [i \in DOMAIN list |-> <<list[i].match, ContentSeen(kind, list[i])>>]

(* The daemon runs the rules of an event in the reverse of the order they  *)
(* are written in, over all files; a rule, action or element that is wrong *)
(* is left out and nothing else is, and a property rule keeps its actions. *)
LoadedAsWritten ==
    pc = "loaded" /\ ~start.report =>
        \A kind \in Kinds : Seen(kind, roots[kind]) = Configured(kind)

(* The texts that are being read.                                          *)
ExecsAtHand ==
    IF ~AtElement THEN {}
    ELSE {t \in {Current.exec} \cup {a.exec : a \in ToSet(Current.actions)} : t # Missing}

(* The two passes of halevt_new_exec do not go through the text the same   *)
(* way; the array sized by the first has room for what the second writes,  *)
(* also if that ends at a bad property name.                               *)
ElementsFit ==
    \A t \in ExecsAtHand :
        IsPrefix(HalExecPrefix, t) \/ Len(CutElements(t)) <= CountElements(t) + 1

(* A command is cut into its literals and property names without loss: put *)
(* together again they are the command that was written, whatever dollars  *)
(* and prefixes it has, and parents in their order.                        *)
ExecFaithful ==
    \A t \in ExecsAtHand : ExecMade(t) => ExecText(NewExec(t)) = t

(* The atoms and the numbered expression never outgrow their buffers.      *)
ScanFits ==
    AtElement =>
        LET scan == Scan(CurrentMatch)
        IN  \A k \in DOMAIN scan :
                /\ Len(scan[k].atoms) <= scan[k].atom_sizes
                /\ scan[k].length + 1 <= scan[k].expr_string_size

(* A match expression means what is written: with every number replaced by *)
(* the match of that index the text comes back, but for blanks.            *)
MatchFaithful ==
    AtElement /\ MatchMade(CurrentMatch) =>
        NoBlanks(ExpressionText(NewBooleanExpression(CurrentMatch)))
            = NoBlanks(CurrentMatch)

=============================================================================
