---------------------------- MODULE HalevtDaemon ----------------------------
(***************************************************************************)
(* The halevt daemon between HAL and the commands it runs                  *)
(* (src/hal_interface.c, with the devices list of src/devices_list.c).     *)
(*                                                                         *)
(* HAL and the daemon are separate processes.  HAL changes its Global      *)
(* Device List (gdl) whenever it likes and sends a signal for each change; *)
(* signals wait on the D-Bus connection (bus) until the daemon's main loop *)
(* dispatches them.  A handler asks HAL again for what it needs, so what   *)
(* it reads can be newer than the signal that woke it.  One step of the    *)
(* daemon is one literal of a match expression, one command put together   *)
(* and started, or one update of the devices list; HAL may act between any *)
(* two of them.                                                            *)
(*                                                                         *)
(* At start the daemon subscribes to the signals, then goes through the    *)
(* devices HAL has, twice: in halevt_setup_HAL and again in                *)
(* halevt_run_oninit.  No signal is dispatched before the main loop runs.  *)
(***************************************************************************)
EXTENDS HalMatch

CONSTANTS
    Rules,       \* the configuration: for each kind of event its rules, in list order
    Profiles,    \* the property sets HAL gives a device when it appears
    Conditions,  \* the conditions devices emit, records [name, detail]
    NoJob,       \* the daemon is not handling anything
    MaxChanges   \* bound on what HAL does: changes of the GDL and conditions

VARIABLES
    gdl,      \* HAL: the properties of each device, or NoDevice
    changes,  \* HAL: how much it has done
    bus,      \* signals not yet dispatched, oldest first
    phase,    \* where main() is
    todo,     \* devices the current start-up pass has not listed yet
    job,      \* the event being handled: a signal, or an "oninit" pseudo event
    stage,    \* which part of the handler runs
    pos,      \* position in the rules: rule, term and literal, action
    devices,  \* the devices list
    ran,      \* the commands the current handler has started
    inits     \* number of OnInit commands started for each device since start

halVars == <<gdl, changes>>
handler == <<stage, pos, ran, inits>>
vars == <<gdl, changes, bus, phase, todo, job, stage, pos, devices, ran, inits>>

-----------------------------------------------------------------------------
(* Signals.  A removed signal has the properties the device had, a         *)
(* property signal the new value; the daemon gets neither: the first is    *)
(* looked at by properties only, of the second the daemon sees whether it  *)
(* is NoKey (is_removed).                                                  *)

Signal ==
    [type : {"added"}, udi : Udis]
    \cup [type : {"removed"}, udi : Udis, was : Props]
    \cup [type : {"property"}, udi : Udis, key : Keys, value : Values \cup {NoKey}]
    \cup [type : {"condition"}, udi : Udis, condition : Conditions]
    \cup [type : {"capability"}, udi : Udis]

InitJob == [type : {"oninit"}, udi : Udis]

ASSUME ConstantsAssumption ==
    /\ NoDevice \notin Props
    /\ Profiles \subseteq Props
    /\ MaxChanges \in Nat
    /\ "there" \notin Keys
    /\ NoJob \notin Signal \cup InitJob

(* A kind of event has a list of rules, and a rule an expression in        *)
(* disjunctive normal form.  What boolstuff makes of an expression that    *)
(* contradicts itself, which may have no term left, is not modelled.       *)
IsList(s) == s \in Seq({s[n] : n \in DOMAIN s})
NormalForm(tree) ==
    /\ IsList(tree) /\ tree # <<>>
    /\ \A n \in DOMAIN tree : IsList(tree[n]) /\ tree[n] # <<>>

ASSUME RulesAssumption ==
    \A t \in {"oninit", "added", "removed", "property", "condition"} :
        IsList(Rules[t]) /\ \A r \in DOMAIN Rules[t] : NormalForm(Rules[t][r].match)

Phases == {"start", "ctx", "watching", "setup", "oninit", "loop", "crashed"}
Stages == {"match", "value", "run", "read"}

(* The devices are watched only after the first pass has listed them.      *)
DevicesWatched_Late == phase \in {"oninit", "loop"}

(* libhal_ctx_init subscribes to the signals of HAL's Manager, and         *)
(* libhal_device_property_watch_all to those of the devices.               *)
ManagerWatched == phase \in {"ctx", "watching", "setup", "oninit", "loop"}
DevicesWatched == phase \in {"watching", "setup", "oninit", "loop"}

Present == {u \in Udis : gdl[u] # NoDevice}

Position == [rule : Nat \ {0}, term : Nat \ {0}, lit : Nat \ {0}, act : Nat \ {0}]
FirstRule == [rule |-> 1, term |-> 1, lit |-> 1, act |-> 1]

Init ==
    /\ gdl \in [Udis -> Profiles \cup {NoDevice}]
    /\ changes = 0
    /\ bus = <<>>
    /\ phase = "start"
    /\ todo = {}
    /\ job = NoJob
    /\ stage = "match"
    /\ pos = FirstRule
    /\ devices = <<>>
    /\ ran = <<>>
    /\ inits = [u \in Udis |-> 0]

-----------------------------------------------------------------------------
(* HAL.  The bound MaxChanges makes the runs finite; the theorems hold for *)
(* every bound.                                                            *)

HalActs(new, watched, signal) ==
    /\ changes < MaxChanges
    /\ changes' = changes + 1
    /\ gdl' = new
    /\ bus' = IF watched THEN Append(bus, signal) ELSE bus
    /\ UNCHANGED <<phase, todo, job, devices, handler>>

HalAdd(u) ==
    /\ gdl[u] = NoDevice
    /\ \E p \in Profiles :
          HalActs([gdl EXCEPT ![u] = p], ManagerWatched, [type |-> "added", udi |-> u])

HalRemove(u) ==
    /\ gdl[u] # NoDevice
    /\ HalActs([gdl EXCEPT ![u] = NoDevice], ManagerWatched,
               [type |-> "removed", udi |-> u, was |-> gdl[u]])

(* A property appears, changes its value or disappears (v = NoKey).        *)
HalSetProperty(u, k, v) ==
    /\ gdl[u] # NoDevice
    /\ gdl[u][k] # v
    /\ HalActs([gdl EXCEPT ![u][k] = v], DevicesWatched,
               [type |-> "property", udi |-> u, key |-> k, value |-> v])

HalCondition(u, c) ==
    /\ gdl[u] # NoDevice
    /\ HalActs(gdl, DevicesWatched, [type |-> "condition", udi |-> u, condition |-> c])

(* A capability comes or goes: it is no property of its own here.          *)
HalCapability(u) ==
    /\ gdl[u] # NoDevice
    /\ HalActs(gdl, ManagerWatched, [type |-> "capability", udi |-> u])

Hal == \E u \in Udis :
    \/ HalAdd(u)
    \/ HalRemove(u)
    \/ \E k \in Keys, v \in Values \cup {NoKey} : HalSetProperty(u, k, v)
    \/ \E c \in Conditions : HalCondition(u, c)
    \/ HalCapability(u)

-----------------------------------------------------------------------------
(* Start-up: halevt_setup_HAL, then halevt_run_oninit, then the main loop. *)

CtxInit ==
    /\ phase = "start"
    /\ phase' = "ctx"
    /\ UNCHANGED <<halVars, bus, todo, job, devices, handler>>

WatchAll ==
    /\ phase = "ctx"
    /\ phase' = "watching"
    /\ UNCHANGED <<halVars, bus, todo, job, devices, handler>>

(* libhal_get_all_devices at the head of either pass.                      *)
GetAllDevices ==
    /\ \/ phase = "watching" /\ phase' = "setup"
       \/ phase = "setup" /\ todo = {} /\ phase' = "oninit"
    /\ todo' = Present
    /\ UNCHANGED <<halVars, bus, job, devices, handler>>

MainLoop ==
    /\ phase = "oninit" /\ todo = {}
    /\ phase' = "loop"
    /\ UNCHANGED <<halVars, bus, todo, job, devices, handler>>

-----------------------------------------------------------------------------
(* A handler begins with the first rule of its kind; it keeps nothing.     *)

BeginJob(j) ==
    /\ job' = j
    /\ stage' = "match"
    /\ pos' = FirstRule
    /\ ran' = <<>>

(* The loop over the devices of a start-up pass, in HAL's order.           *)
NextDevice ==
    /\ job = NoJob
    /\ \E u \in todo : BeginJob([type |-> "oninit", udi |-> u])
    /\ UNCHANGED <<halVars, bus, phase, todo, devices, inits>>

EndJob ==
    /\ job' = NoJob
    /\ stage' = "match"
    /\ pos' = FirstRule
    /\ ran' = <<>>

(* The main loop hands the oldest signal to its callback.  The callbacks   *)
(* for capabilities only report.                                           *)
Dispatch ==
    /\ phase = "loop" /\ job = NoJob /\ bus # <<>>
    /\ bus' = Tail(bus)
    /\ IF Head(bus).type = "capability"
       THEN UNCHANGED <<job, stage, pos, ran>>
       ELSE BeginJob(Head(bus))
    /\ UNCHANGED <<halVars, phase, todo, devices, inits>>

(* A removed device is looked up in the list, and only if it is not there  *)
(* in HAL.  The list does not change while a handler runs its rules.       *)
FromList == job.type = "removed" /\ Listed(devices, job.udi)

JobRules == Rules[job.type]
Rule == JobRules[pos.rule]
RulesLeft == stage = "match" /\ pos.rule \in DOMAIN JobRules
RulesDone == stage = "match" /\ pos.rule \notin DOMAIN JobRules

NextRule == [FirstRule EXCEPT !.rule = pos.rule + 1]
NextTerm == [rule |-> pos.rule, term |-> pos.term + 1, lit |-> 1, act |-> 1]

(* What a rule asks of the event itself, before the match expression.      *)
RuleConcerned ==
    CASE job.type = "property" -> Rule.name = job.key
      [] job.type = "condition" -> /\ Rule.name = job.condition.name
                                   /\ Rule.value \in {AnyValue, job.condition.detail}
      [] OTHER -> TRUE

(* The loop goes round without taking the next rule.                       *)
SkipRule_Stays ==
    /\ job # NoJob /\ RulesLeft
    /\ ~RuleConcerned
    /\ UNCHANGED vars

SkipRule ==
    /\ job # NoJob /\ RulesLeft
    /\ ~RuleConcerned
    /\ pos' = NextRule
    /\ UNCHANGED <<halVars, bus, phase, todo, job, devices, stage, ran, inits>>

(* A removed device is looked up in HAL like any other.                    *)
LiteralOutcome_Live(lit) == MatchUdi(gdl, job.udi, lit)

(* One literal of the expression, as halevt_true_tree walks it.            *)
LiteralOutcome(lit) ==
    IF FromList THEN MatchDevice(devices, Find(devices, job.udi), lit)
    ELSE MatchUdi(gdl, job.udi, lit)

Wanted(lit) == IF lit.positive THEN "true" ELSE "false"

(* The whole expression holds: on to the command, or to the actions a      *)
(* property rule has, which may be none.                                   *)
RuleMatched ==
    CASE job.type # "property" -> stage' = "run" /\ UNCHANGED pos
      [] job.type = "property" /\ Rule.actions # <<>> ->
            stage' = "value" /\ UNCHANGED pos
      [] OTHER -> pos' = NextRule /\ UNCHANGED stage

TryLiteral ==
    /\ job # NoJob /\ RulesLeft
    /\ RuleConcerned
    /\ LET term == Rule.match[pos.term]
           lit == term[pos.lit]
       IN  /\ LiteralOutcome(lit) # "null"
           /\ \/ /\ LiteralOutcome(lit) = Wanted(lit)
                 /\ pos.lit < Len(term)
                 /\ pos' = [pos EXCEPT !.lit = @ + 1]
                 /\ UNCHANGED stage
              \/ /\ LiteralOutcome(lit) = Wanted(lit)
                 /\ pos.lit = Len(term)
                 /\ RuleMatched
              \/ /\ LiteralOutcome(lit) # Wanted(lit)
                 /\ pos' = IF pos.term < Len(Rule.match)
                           THEN NextTerm
                           ELSE NextRule
                 /\ UNCHANGED stage
    /\ UNCHANGED <<halVars, bus, phase, todo, job, devices, ran, inits>>

(* A property rule has a list of actions, each for a value.                *)
Action == Rule.actions[pos.act]

NextAction ==
    IF pos.act < Len(Rule.actions)
    THEN stage' = "value" /\ pos' = [pos EXCEPT !.act = @ + 1]
    ELSE stage' = "match" /\ pos' = NextRule

TryAction ==
    /\ job # NoJob /\ stage = "value"
    /\ IF Action.value = AnyValue
          \/ PropertyMatchesUdi(gdl, job.key, Action.value, job.udi)
       THEN stage' = "run" /\ UNCHANGED pos
       ELSE NextAction
    /\ UNCHANGED <<halVars, bus, phase, todo, job, devices, ran, inits>>

Exec == IF job.type = "property" THEN Action.exec ELSE Rule.exec

(* A command takes its values from HAL, whatever the device.               *)
Substitute_Live(p) == LiveValue(gdl, job.udi, p)

(* The property names of a command are replaced one after the other.       *)
Substitute(p) ==
    IF FromList THEN ListValue(devices, Find(devices, job.udi), p)
    ELSE LiveValue(gdl, job.udi, p)

Arguments == [n \in DOMAIN Exec |-> Substitute(Exec[n])]

(* halevt_run_command: substitute and start.  The command runs on its own. *)
RunCommand ==
    /\ job # NoJob /\ stage = "run"
    /\ \A n \in DOMAIN Exec : Arguments[n] # Null
    /\ ran' = Append(ran, [rule |-> pos.rule, act |-> pos.act, args |-> Arguments])
    /\ inits' = IF job.type = "oninit"
                THEN [inits EXCEPT ![job.udi] = @ + 1] ELSE inits
    /\ IF job.type = "property"
       THEN NextAction
       ELSE stage' = "match" /\ pos' = NextRule
    /\ UNCHANGED <<halVars, bus, phase, todo, job, devices>>

(* A NULL udi reaches strcmp in halevt_device_list_find_device: SIGSEGV,   *)
(* and all the daemon knew is gone.                                        *)
Crash ==
    /\ job # NoJob
    /\ \/ /\ RulesLeft /\ RuleConcerned
          /\ LiteralOutcome(Rule.match[pos.term][pos.lit]) = "null"
       \/ /\ stage = "run"
          /\ \E n \in DOMAIN Exec : Arguments[n] = Null
    /\ phase' = "crashed"
    /\ todo' = {}
    /\ devices' = <<>>
    /\ EndJob
    /\ UNCHANGED <<halVars, bus, inits>>

-----------------------------------------------------------------------------
(* The end of a handler brings the devices list up to date.                *)

(* What HAL answers is listed without asking whether it answered at all.   *)
ListDevice_Unchecked ==
    /\ job # NoJob /\ job.type \in {"oninit", "added"}
    /\ RulesDone
    /\ devices' = AddDevice(devices, job.udi, gdl[job.udi])
    /\ todo' = IF job.type = "oninit" THEN todo \ {job.udi} ELSE todo
    /\ EndJob
    /\ UNCHANGED <<halVars, bus, phase, inits>>

(* The loop over the devices of a start-up pass stays at its device.       *)
ListDevice_SameAgain ==
    /\ job # NoJob /\ job.type \in {"oninit", "added"}
    /\ RulesDone
    /\ devices' = IF gdl[job.udi] # NoDevice
                  THEN AddDevice(devices, job.udi, gdl[job.udi]) ELSE devices
    /\ EndJob
    /\ UNCHANGED <<halVars, bus, phase, todo, inits>>

(* libhal_device_get_all_properties is one call: the entry is a snapshot.  *)
(* A device that has gone meanwhile is not listed.                         *)
ListDevice ==
    /\ job # NoJob /\ job.type \in {"oninit", "added"}
    /\ RulesDone
    /\ devices' = IF gdl[job.udi] # NoDevice
                  THEN AddDevice(devices, job.udi, gdl[job.udi]) ELSE devices
    /\ todo' = IF job.type = "oninit" THEN todo \ {job.udi} ELSE todo
    /\ EndJob
    /\ UNCHANGED <<halVars, bus, phase, inits>>

UnlistDevice ==
    /\ job # NoJob /\ job.type = "removed"
    /\ RulesDone
    /\ devices' = RemoveDevice(devices, job.udi)
    /\ EndJob
    /\ UNCHANGED <<halVars, bus, phase, todo, inits>>

(* A property that has gone stays in the list.                             *)
UnlistProperty_Kept ==
    /\ job # NoJob /\ job.type = "property" /\ job.value = NoKey
    /\ RulesDone
    /\ EndJob
    /\ UNCHANGED <<halVars, bus, phase, todo, devices, inits>>

UnlistProperty ==
    /\ job # NoJob /\ job.type = "property" /\ job.value = NoKey
    /\ RulesDone
    /\ devices' = RemoveProperty(devices, job.udi, job.key)
    /\ EndJob
    /\ UNCHANGED <<halVars, bus, phase, todo, inits>>

(* halevt_device_list_set_property asks HAL twice: does the property exist?*)
SetPropertyExists ==
    /\ job # NoJob /\ job.type = "property" /\ job.value # NoKey
    /\ RulesDone
    /\ IF Listed(devices, job.udi) /\ LiveExists(gdl, job.udi, job.key)
       THEN stage' = "read" /\ UNCHANGED <<job, pos, ran>>
       ELSE EndJob
    /\ UNCHANGED <<halVars, bus, phase, todo, devices, inits>>

(* ... and what is its value?  If it has gone in between, {NULL} is stored.*)
SetPropertyRead ==
    /\ job # NoJob /\ stage = "read"
    /\ devices' = SetProperty(devices, job.udi, job.key,
                              IF LiveExists(gdl, job.udi, job.key)
                              THEN gdl[job.udi][job.key] ELSE Null)
    /\ EndJob
    /\ UNCHANGED <<halVars, bus, phase, todo, inits>>

EndCondition ==
    /\ job # NoJob /\ job.type = "condition"
    /\ RulesDone
    /\ EndJob
    /\ UNCHANGED <<halVars, bus, phase, todo, devices, inits>>

Daemon ==
    \/ CtxInit \/ WatchAll \/ GetAllDevices \/ MainLoop
    \/ NextDevice \/ Dispatch
    \/ SkipRule \/ TryLiteral \/ TryAction \/ RunCommand \/ Crash
    \/ ListDevice \/ UnlistDevice \/ UnlistProperty
    \/ SetPropertyExists \/ SetPropertyRead \/ EndCondition

Next == Hal \/ Daemon

(* HAL is free to do nothing; the daemon is one process the system keeps   *)
(* scheduling, and every call it makes to HAL is answered.                 *)
Spec == Init /\ [][Next]_vars /\ WF_vars(Daemon)

-----------------------------------------------------------------------------
(* Properties.                                                             *)

(* The state is of the right shape.                                        *)
TypeOK ==
    /\ gdl \in [Udis -> Props \cup {NoDevice}]
    /\ changes \in 0 .. MaxChanges
    /\ bus \in Seq(Signal)
    /\ phase \in Phases
    /\ todo \in SUBSET Udis
    /\ job \in Signal \cup InitJob \cup {NoJob}
    /\ stage \in Stages
    /\ pos \in Position
    /\ devices \in Seq(Entry)
    /\ inits \in [Udis -> Nat]

(* Signals are handled in the main loop, and "read" is the second half of  *)
(* bringing a property up to date.                                         *)
HandlerOK ==
    /\ job \in Signal => phase = "loop"
    /\ stage = "read" => /\ job \in Signal /\ job.type = "property"
                         /\ job.value # NoKey

(* The signals the daemon has not finished with, oldest first.             *)
Pending == IF job \in Signal THEN <<job>> \o bus ELSE bus

(* What HAL has to say of an aspect of a device that is there.             *)
HalHas(u, a) == IF a = There THEN There ELSE gdl[u][a]

(* Signal m makes the daemon look at aspect a of device u again; it settles*)
(* the matter if what it tells, v, is how things are.                      *)
Concerns(m, u, a) ==
    /\ m.udi = u
    /\ \/ m.type \in {"added", "removed"}
       \/ m.type = "property" /\ m.key = a

Settles(m, v) == m.type = "added" \/ (m.type = "property" /\ m.value = v)

NothingPending(s, u, a) == \A i \in DOMAIN s : ~Concerns(s[i], u, a)

LastSettles(s, u, a, v) ==
    \E i \in DOMAIN s :
        /\ Concerns(s[i], u, a)
        /\ Settles(s[i], v)
        /\ \A j \in DOMAIN s : j > i => ~Concerns(s[j], u, a)

(* No signal comes before the daemon has subscribed to it.                 *)
EarlySignals ==
    /\ phase = "start" => bus = <<>>
    /\ phase \in {"start", "ctx"} => \A i \in DOMAIN bus : bus[i].type # "property"

(* What HAL and the bus give, and MirrorCurrent needs: of the signals that *)
(* wait about an aspect of a device that is there, the last one tells how  *)
(* it is now.                                                              *)
SignalsSettle ==
    phase # "crashed" =>
        \A u \in Present, a \in Aspects :
            \/ NothingPending(Pending, u, a)
            \/ LastSettles(Pending, u, a, HalHas(u, a))

(* "sync the devices list": whatever no waiting signal is about, the list  *)
(* has as HAL has it, once the first start-up pass has come to the device. *)
MirrorCurrent ==
    phase \in {"setup", "oninit", "loop"} =>
        \A u \in Present, a \in Aspects :
            NothingPending(Pending, u, a) =>
                \/ Agrees(devices, u, a, HalHas(u, a))
                \/ phase = "setup" /\ u \in todo

(* What holds of every state and is kept by every step: SignalsSettle and  *)
(* MirrorCurrent with what they rest on.                                   *)
IInv == TypeOK /\ HandlerOK /\ EarlySignals /\ SignalsSettle /\ MirrorCurrent

(* A device that is unplugged and plugged in again and again does not make *)
(* the list grow: start-up leaves up to three entries of it and no later   *)
(* sequence of signals adds one.                                           *)
CopiesBounded == \A u \in Udis : CopiesOf(devices, u) <= 3

(* The commands the entry of a removed device u calls for, of the first r  *)
(* rules: those of the rules it satisfies, each once, in their order.      *)
Command(list, u, r) ==
    LET exec == Rules["removed"][r].exec
    IN  [rule |-> r, act |-> 1,
         args |-> [n \in DOMAIN exec |-> ListValue(list, Find(list, u), exec[n])]]

Satisfied(list, u, r) ==
    TrueTree(Rules["removed"][r].match, list, Find(list, u)) = "true"

Due(list, u) ==
    LET due[r \in 0 .. Len(Rules["removed"])] ==
            IF r = 0 THEN <<>>
            ELSE IF Satisfied(list, u, r)
                 THEN Append(due[r - 1], Command(list, u, r))
                 ELSE due[r - 1]
    IN  due

(* The commands started for a removed device the list knows are those of   *)
(* the rules its entry satisfies, each once, in the order of the rules,    *)
(* with the entry's values, whatever HAL has done meanwhile.               *)
RemovalComplete ==
    job # NoJob /\ FromList /\ RulesDone =>
        ran = Due(devices, job.udi)[Len(Rules["removed"])]

(* Once HAL is quiet the daemon gets back to its main loop with nothing    *)
(* to do and a list that has every device as HAL has it.                   *)
Converges ==
    <>[](/\ phase = "loop" /\ job = NoJob /\ bus = <<>>
         /\ \A u \in Present, a \in Aspects :
               Agrees(devices, u, a, HalHas(u, a)))

-----------------------------------------------------------------------------
(* The devices list as a mirror of HAL: the abstract specification is      *)
(* HalMirror.  A thing is an aspect of a device; what is known of it is a  *)
(* set, empty for a device that is not there.  The daemon vouches for what *)
(* no waiting signal is about, from the first start-up pass on.            *)

Things == Udis \X Aspects

HalKnows == [t \in Things |->
    IF t[1] \in Present THEN {HalHas(t[1], t[2])} ELSE {}]

ListHas(u, a) == IF a = There THEN There ELSE devices[Find(devices, u)].props[a]

ListKnows == [t \in Things |->
    IF Listed(devices, t[1]) THEN {ListHas(t[1], t[2])} ELSE {}]

VouchedFor == {t \in Things :
    /\ phase \in {"setup", "oninit", "loop"}
    /\ t[1] \in Present
    /\ NothingPending(Pending, t[1], t[2])
    /\ ~(phase = "setup" /\ t[1] \in todo)}

Mirror == INSTANCE HalMirror
    WITH hal <- HalKnows, copy <- ListKnows, current <- VouchedFor,
         up <- (phase # "crashed")

(* However handlers, questions and changes interleave, no step of the      *)
(* daemon spoils or forgets what it has caught up with, other devices and  *)
(* properties included, unless it crashes, and no change of HAL makes it   *)
(* doubt more than the thing changed.                                      *)
ImplementsMirror == Mirror!Spec

(* The OnInit rules run in two places, halevt_setup_HAL and                *)
(* halevt_run_oninit, and nowhere else: no device is given to them a third *)
(* time, however often it comes back and whatever is handled later.  That  *)
(* it is not given to them twice is OnInitOnce, below, which is not so.    *)
OnInitBounded == \A u \in Udis : inits[u] <= 2 * Len(Rules["oninit"])

-----------------------------------------------------------------------------
(* What the code's documents say and the code does not do.                 *)

(* NEWS 0.1.6.2: "properly initialize property values to avoid a segfault  *)
(* when the property is not set".                                          *)
NoSegfault == phase # "crashed"

(* doc/halevt.texi, of halevt:OnInit: "for an action to perform if the     *)
(* device is already there when halevt is started": each rule starts its   *)
(* command for a device once, at the start.                                *)
OnInitOnce == \A u \in Udis : inits[u] <= Len(Rules["oninit"])

=============================================================================
