# halevt: models, checks and proofs

halevt runs commands when HAL, the hardware abstraction layer, says that a
device has appeared, gone or changed; halevt-mount, which halevt is mostly
configured to run, mounts volumes through HAL and keeps a table of those it
handles. This directory has TLA+ models of both, translated from the C source,
TLC configurations that check them, and theorems proved with TLAPS. Paths and
line numbers are those of the repository.

## Inventory

| part | source | state | operations | talks to |
|---|---|---|---|---|
| event handlers | `src/hal_interface.c` | `hal_ctx`; the five rule lists, read only | `halevt_setup_HAL`, `halevt_run_oninit`, six HAL callbacks, `halevt_run_command` | asks HAL over D-Bus (every question a blocking call), HAL's signals call it, reads and updates the devices list, starts shells |
| devices list | `src/devices_list.c` | linked list from `halevt_device_root` | add, find, remove device; get, set, remove property; free | asks HAL for the properties of a device |
| rule matching | `src/match.c` | a tree in disjunctive normal form for each rule | parse (boolstuff), `halevt_true_tree` | asks HAL, or looks in the devices list |
| configuration | `src/parse_config.c`, `halevt_find_conf_files` of `src/manager.c` | the rule lists | find files in three directories, read them, print, free | libxml2; match expressions go to `src/match.c` |
| life of the daemon | `src/manager.c` | options, pid file, main loop | start, become a daemon, signals, end | all of the above; other daemons through the pid file |
| halevt-mount | `halevt-mount/halevt-mount.c` | lock file, table file `uditab`, `uditab.tmp`, the table in memory | mount, umount, add (`-w`), clean (`-c`), sync (`-s`), list (`-l`) | other runs through the files; HAL |
| hvmount | `scripts/hvmount.in` | the same files | the same, as a shell script | as above |
| logging | `src/debug.c` | none of interest | | syslog, stderr |
| HAL, D-Bus, boolstuff, libxml2, GLib | external | HAL's Global Device List; queues of messages | | |

What is hard in it:

* **Two processes, one state.** HAL changes its list whenever it likes. A
  signal says that something has changed; the handler then asks HAL what, and
  reads a state that may be newer than the signal. The list has to be right in
  the end although no single answer is known to be of the right moment.
* **One answer, many questions.** Whether a literal holds takes a question for
  each parent, for the property, its type and its value; each can be about
  another state of HAL, and an error looks like a value.
* **Start-up.** The daemon subscribes, goes through all devices twice and only
  then reads its first signal.
* **Removal.** Rules for a device that has gone can only be evaluated on the
  daemon's own copy of it.
* **Text in two passes.** Commands are counted in one pass over the text and cut
  in another that moves differently; expressions are numbered into buffers that
  grow one step ahead of what is written.
* **Several daemons.** They share a pid file that is truncated before it is
  locked, unlocked as soon as it is written, and unlinked by name.
* **Overlapping runs.** halevt starts commands and does not wait for them, so
  several halevt-mount runs meet at one lock file and one table.
* **Failing half-way.** HAL refuses to mount, a volume vanishes while it is
  asked about, a run is killed.

What makes each part correct: the list agrees with HAL whenever no signal is
waiting; an answer was right at some moment while it was asked for; every
handler ends; what the configuration says is what the rule lists hold; a pid
file names the daemon and never one that is over; a removal rule sees the copy and nothing else; a
command fits its buffer and is whole; runs that share a table work one at a
time; a table entry that was added stays until it is cleaned or the device goes;
a table that is written is as HAL has it; a run that fails leaves the table
alone; every run ends. Not all of this is so in the code: two daemons can share
a pid file, and the lock of a table can break. There the properties name what
can go wrong, and say what holds until it does.

`PROJECT.json` lists the hazards of the code line by line, and for each the
properties that are about it, or why there is none yet.

## Modules

| module | models | constants that matter |
|---|---|---|
| `DevicesList` | the list as a sequence, newest entry first, and its operations as operators | `Udis`, `Keys`, `Values` |
| `HalMatch` | the evaluation of a rule, against HAL and against the list; values substituted in a command | |
| `HalMirror` | what a copy of HAL's list promises, whoever keeps it: the abstract specification | `Things` |
| `HalevtDaemon` | HAL, the D-Bus queue, start-up and every handler, one D-Bus question at a time | `Rules`, `Profiles`, `Conditions`, `MaxChanges` |
| `HalQuestions` | the questions of one literal and one fetched value, with types and errors | `Values`, `Questions`, `IntSize`, `LongSize`, `DoubleExact`, `DoubleStep`, `MaxChanges` |
| `ConfigText` | how names, commands and match expressions are taken apart, as operators | |
| `ParseConfig` | which configuration files are read, and the rule lists they leave | `Starts` |
| `Manager` | processes of halevt from their options to their end, pid file and signals | `Procs`, `Options`, `Plans` |
| `CommandBuffer` | the buffer of `halevt_run_command`, with the width of an int | `Commands`, `IntMax`, `Memory` |
| `Uditab` | the table of halevt-mount, its lines, reading, writing, searching, removing | |
| `HalevtMount` | runs of halevt-mount that share the lock and the files | `Procs`, `Requests`, `Tables`, `MaxRuns`, `MaxChanges`, `MaxFaults` |
| `Hvmount` | runs of hvmount, the shell script, with the same files | `Procs`, `Requests`, `Fields`, `Tables`, `MaxFaults` |
| `MCHalevtDaemon`, `MCHalQuestions`, `MCParseConfig`, `MCManager`, `MCCommandBuffer`, `MCHalevtMount`, `MCHvmount` | instances for TLC | |
| `HalevtDaemon_proofs`, `HalQuestions_proofs`, `ParseConfig_proofs`, `Manager_proofs`, `CommandBuffer_proofs`, `HalevtMount_proofs`, `Hvmount_proofs` | theorems | |
| `Loops` | lemmas about functions defined by recursion: loops over numbers and walks through a text | |

`HalevtDaemon` extends `HalMatch`, which extends `DevicesList`, and has an
instance of `HalMirror`; `ParseConfig` extends `ConfigText`; `HalevtMount`
extends `Uditab`. Definitions whose name ends in `_Something` (as
`AddDevice_AtTail`) are the neighbouring definition with a mistake; nothing
uses them, and they serve to see that each checked property would notice.

The models meet at plain data: `ParseConfig` ends with the rule lists that
`HalevtDaemon` takes as `Rules`, `Manager` leaves out what `HalevtDaemon` does
between its steps, `HalevtDaemon` starts the commands whose text
`CommandBuffer` puts together, and those commands are the runs of
`HalevtMount` and `Hvmount`.

### The daemon

`phase` is where `main` is: before and after `libhal_ctx_init` (subscribes to
devices coming and going) and `libhal_device_property_watch_all` (to their
properties), the first pass over all devices (`halevt_setup_HAL`), the second
(`halevt_run_oninit`), the main loop. `job` is the signal whose callback runs,
or a pseudo signal "oninit" for a device of a start-up pass; `stage` and `pos`
are where in the rules it is. The step of the daemon is one literal of an
expression (`TryLiteral`), one comparison for an action (`TryAction`), one
command (`RunCommand`) or one update of the list (`ListDevice`,
`UnlistDevice`, `UnlistProperty`, and for `halevt_device_list_set_property`
the two steps `SetPropertyExists` and `SetPropertyRead`). HAL (`Hal`) acts
between any two. `bus` is the queue of signals: D-Bus keeps the order of
messages of one sender. `Crash` is the `strcmp` with NULL of
`halevt_property_resolve_device`.

Abstracted: a value is a model value, and a list of strings is its first
string. The questions of one literal, one substituted command, and one listing
of properties are one step; `HalQuestions` is about what that leaves out.

### What the daemon promises

`HalMirror` knows neither signals nor rules. There are things to know (here:
whether a device is there, and each of its properties), a copy of them, and a
set of things the copy is vouched for. HAL may change anything, and a thing
that changes is no longer vouched for; the keeper of the copy may look at HAL,
which can only vouch for more; or it fails, for good. `HalevtDaemon` implements
it (`ImplementsMirror`) with the first entry of a udi as the copy. Vouched for
is, once the daemon has subscribed, everything about a device that is there
that no waiting signal and no start-up pass still to come is about. This is
more than `MirrorCurrent` says: no step of the daemon, not even one that handles
a signal about something else, takes an entry out of date.

### One answer

`HalQuestions` follows `halevt_match_udi` and `halevt_property_name_value`
through `libhal_device_property_exists`, `..._get_property_type` and
`..._get_property_*`, for the property and each parent before it, with HAL
changing properties in between. Values have types; the widths of int and
uint64 and the digits of `%g` are constants. `path` is the devices the parents
lead to at each moment, and `seen` collects the arrays that would have been
right at the moments passed since the first question, so that the properties
can say "was right at some moment". The exceptions are part of the properties:

* a property that goes before the last question is compared by the FALSE or -1
  that comes with the error, so `= false` holds for a device that has gone;
* texts that are no way HAL's value is printed compare equal with HAL and not
  with the list (`Lenient`): `yes` for a false boolean, `05` for 5;
* a uint64 is asked for as an int, so a volume size above 2 GiB never matches;
* when a parent changes meanwhile (`steady`), nothing is claimed. All of `path`
  has to stay, not only its end: with two parents the first can change between
  the two questions and the second make up for it, and then the device whose
  property is read is one the parents never led to.

For texts, and parents that do not change, the answer is thus the one
`HalMatch` gives at some moment of the asking, which is why a literal may be
one step there.

### The configuration

A text is a sequence of tokens (`"$"`, `"hal"`, `"."`, words), so that
positions stand for the pointers of the code. `CountElements` and
`CutElements` are the two passes of `halevt_new_exec`, which go on from
different places; `Scan` is the loop of `halevt_new_boolean_expression` with the
sizes of its two buffers; what it makes is a sequence of words, the operators
and the numbers of the atoms. `Printed` is the number as snprintf prints it,
figure by figure, and `Atoi` reads it back where `halevt_value_true` looks for
the match. `NewMatch` splits an atom. `Grammatical` stands for boolstuff. All
walks are recursive functions, and `InOrder` puts positions in order by counting
the smaller ones, so that all of it can be reasoned about. `ParseConfig` has an
action for each directory opened, entry read, file and element. Rules are put in
front of their list, so they run in the reverse of the order in which they are
written, which is what `LoadedAsWritten` expects too. A command that cannot be
cut, an expression boolstuff refuses and a missing attribute are inputs like any
other.

### The life of a process

`Manager` has processes that go through `main` by `pc`. Inodes have an identity
besides the names of `files`, as a lock and an open file belong to the inode.
`handled` is what `signal` has been called for; a signal without a handler is
`Killed`. `alone` is a history variable: whether a process is the only one that
has had its pid file since it opened it. The third process of an instance gets
any command line, the first two are daemons of the same pid file.

### halevt-mount

A process in `HalevtMount` goes through `main` by `pc`. Files have an identity
besides their names (`lockname`, `tab`, `tmp`): a lock is on a file, not on its
name, and a renamed file is still written to by whoever has it open. `out` is
the stdio buffer of the table being written, which `Exit` and `Fail` flush
(exit does) and `Kill` loses; the table is assumed smaller than the buffer.
`front` and `rest` are the list in memory, split where the loop over it is, so
`RemoveUdi` can do to the entries before the current one what
`halevt_mount_remove_udi` does. A run asks HAL about an entry in two steps
(`CheckUdi`, `ReadUdi`) where the code has up to eleven questions; when the
volume goes in between, all that can come of it is allowed, `Vanished`
included: a missing string is taken as "out of memory" and ends the run.
`NoHal` and `NoDevices` are the other ways a run ends over what HAL answers. A
lock file that cannot be opened (`OpenFails`) or locked (`LockFails`,
`LockUnopened`) is only a message to the code, and the run goes on without.
`promised`, `steady` and `mishaps` are history variables for the properties. A
session may begin with a table an earlier one has left (`Tables`). `RemoveAll`
and `FindUdi` are recursive functions of the place in the list.

`mishaps` has the name of each weak place of the code that has struck:

| mishap | what has happened | where |
|---|---|---|
| `unlocked` | a run goes on although `open` or `lockf` has failed | `halevt-mount.c:973-978` |
| `split` | a run makes a new lock file while another waits for, or works with, one that has been unlinked | `halevt-mount.c:1245` |
| `unwritten` | the table is read while its text is in the buffer of the run that has renamed it | `halevt-mount.c:1091` |
| `killed` | that run is killed and never writes the text | `halevt-mount.c:1091` |
| `dropped` | taking an entry out of the list takes another along | `halevt-mount.c:390` |

The first two break the lock, and each of the five can lose an entry of the
table: with any of them taken out of the condition of `LossesExplained`, or of
the first two out of `LockHolds`, TLC finds a counterexample. A kill, a change in
HAL, a failing run or an overlap by itself is none of them.

Not modelled there: mount options, the choice of user and directory, what is
printed (`list` and `list -a` change no file), the races inside
`halevt_mount_add_udi`, lines that do not fit the 1023 characters of the
reader.

### hvmount

A run is a shell that waits for a subshell, which has the lock file open on
descriptor 9; `shell` says whether the first still lives, `pc` where the second
is, and either can be killed. When the redirection fails there is no subshell
(`OpenFails`); when flock fails the subshell goes on without the lock
(`FlockFails`). The four commands that rewrite the table do so in
the same way: copy it, empty it, write it line by line from the copy, remove
the copy; `Replaced` is where they differ. `mount` becomes the mount command,
which has descriptor 9 and with it the lock until it ends; what it leaves
running, as the server of a file system in user space, can keep both (`left`)
until that ends too (`LeftEnds`), or for ever. `safe` is a history variable:
whether the lock still is one, which ends when flock fails and when a run makes a
new lock file while another has the removed one open. The loop reads the copy as
it was when it began; while `safe`, no other run writes then. From the moment
the lock is two, the files are modelled roughly only, and no property but
`HvTerminates` says anything. A line that halevt-mount has written
without a colon is read by `cut` as udi, device and mountpoint at once (`Cut`).
A table to begin with has no two lines of a device (`TablesAssumption`), which
is what `OneLineEach` says every earlier run has left.
Not modelled: for which devices `umount` calls the umount command, which changes
no file, and the choice of the mount command.

## Runs

All runs switch deadlock checking off: the changes of HAL, the number of runs
of halevt-mount, of starts of halevt and of elements of a command are bounded,
and reading a configuration ends, so every behaviour stops.

| run | shows | bounds |
|---|---|---|
| `daemon` | `TypeOK`, `MirrorCurrent`, `CopiesBounded`, `RemovalComplete`, `OnInitBounded`, `Converges` | 1 device, 1 property of 2 values or absent, rules of all kinds, 4 changes by HAL |
| `parents` | `IInv`, `RemovalComplete`, `ImplementsMirror`, with the crash | 2 devices, rules that follow a parent, 2 changes |
| `command` | `BufferOK`, `CommandFits`, `StartedWhole` | up to 5 elements of 8 lengths, a 13 bit int, so that sizes overflow; memory of half of it |
| `config` | `FirstFileWins`, `LoadedAsWritten`, `ElementsFit`, `ExecFaithful`, `ScanFits`, `MatchFaithful` | all commands of up to 6 phrases out of 4, all expressions of up to 4 out of 8, up to 21 atoms, up to 10 properties in a row; a device with any 3 of 12 elements; 3 directories with up to 2 names; `-i`, alone and with `-c` |
| `process` | `ManagerTypeOK`, `DaemonNamed`, `NoneNamedAfterEnd`, `ToldEnds` | 3 starts, 4 command lines for the third |
| `literal` | `TrueWasTrue`, `FalseWasFalse`, `FetchedWasThere` | 2 devices, up to two parents one after the other, which can lead back, a property, 15 values of all types, 10 texts, int of 4 bits, uint64 of 6, 2 changes |
| `mount_two` | `Terminates` | 2 overlapping runs of 6 requests, 1 old table or none, 1 device change, 1 fault |
| `mount_three` | `MountTypeOK`, `RunsExclude`, `LossesExplained`, `WrittenIsCurrent`, `FailureLeavesTable` | 3 runs in 2 processes, 5 requests, processes, udis and device files symmetric, 1 device change, 1 fault |
| `hvmount` | `HvExclusive`, `LinesKept`, `OneLineEach`, `HvTerminates` | 3 runs: one mounts, one has any of 8 requests, one lists; 1 old table or none, 1 fault |

Four changes let a device go, come back, and change twice while start-up and a
handler are under way, which is what it takes to have three entries of it. Six
phrases make two properties side by side with text around them, and all the
ways dollars can be adjacent; 21 atoms make the numbers two digits long and let
both buffers grow more than once. Three starts let a third process come between
the open, the lock and the write of a second. Two changes let a property go and
come back within one answer. Two devices are enough for an operation on one
entry to hit another. Three runs of halevt-mount, or of hvmount, are what it
takes to break its lock by overlapping alone: one that works and unlinks, one
that waits meanwhile and one that comes after. In `mount_three` two processes
are enough for that, as the first has let go of the lock file and can start
again; in `hvmount` a run is a process, so there are three. A lock that is not
had breaks it with two runs already, so one fault is enough. Liveness cannot be
checked under symmetry, so `Terminates` has a run of its own, with all commands
and fewer runs.

The other runs end in a counterexample to something the documentation or a
comment says:

| run | statement | what happens |
|---|---|---|
| `null_parent` | no segfault for a property that is not set | `{NULL}` is stored and given to `strcmp` |
| `oninit_twice` | an action for a device that is there when halevt is started | `halevt_setup_HAL` and `halevt_run_oninit` both start it |
| `mount_lost` | keeps track of handled devices | the next run reads the file before it is written |

More that the models show and no run is about:

* Start-up makes two entries of each device, a signal that waited from then a
  third, and a removal takes one: the list may keep a device that has gone.
  `CopiesBounded` says three is all there can be.
* When `halevt_mount_remove_udi` takes the second entry out of the table, the
  first goes with it, because `previous_udi` is the root in both cases
  (`halevt-mount.c:390`): the mishap `dropped`.
* A second daemon with the same pid file starts: closing the file has dropped
  the lock that should refuse it. On a restart that does not wait, the old
  daemon may unlink the file of the new one, and a start that is refused may
  empty the file of another. `DaemonNamed` therefore speaks of daemons that meet
  no other.
* A signal before the handlers are set kills the daemon and leaves the pid
  file; one between `signal` and `g_main_loop_run` is forgotten. `ToldEnds` is
  about the loop. One after `g_main_loop_unref` works on a freed loop.
* halevt-mount unlinks the lock file before it closes it
  (`halevt-mount.c:1245`). A run that waits has the unlinked file open and gets
  its lock, a third run makes a new file and gets the lock of that, and both
  work at once: the mishap `split`, of which `MutualExclusion` fails.
* A lock file of another user cannot be opened, and the run goes on: the mishap
  `unlocked`, for which two runs are enough.
* hvmount removes the lock file after it has released the lock (with the comment
  "is it really safe?"): with three runs two can work at once, as with
  halevt-mount, and `HvExclusive` fails without `safe`.
* A file system in user space that hvmount has mounted inherits the descriptor
  and keeps the lock. The shell then removes the lock file, so a later run makes
  a new one and is not hindered, also the `hvmount umount` meant to end that file
  system. But a run that has opened the lock file before waits as long as the
  file system is mounted, and any later run does if the shell was killed before
  the removal: `HvTerminates` says that those are all that wait.
* A run of hvmount after one that was killed overwrites the copy, and with it the
  lines not yet written back.
* `-p -` means "no pid file" to root only; for any other user it is a file of
  that name (`manager.c:313`, against `halevt.1.in:47-49`).
* The entry a removal rule looks at is the daemon's copy, which can be that of
  the device's successor, or lack the last change: a handler reads HAL's state
  of now, and a property that has gone with its device is not updated. So
  `RemovalComplete` says that the rules are decided on the copy, and
  `MirrorCurrent` when the copy is right.
* An action for a value of a property is not run when the property has changed
  again before the handler asks for it.
* `string_size` doubles with every element of a command whether or not there
  is room, so a command of 21 short elements asks for more than 256 MiB, and a
  few more overflow the int. Neither overruns the buffer (`CommandFits`); the
  command is given up.

### Fairness

`Converges` assumes weak fairness of `Daemon`: one process, which the system
keeps scheduling, and whose questions HAL answers. HAL is not fair; the bound
on its changes stands for "HAL is quiet from some time on", without which the
list is always behind. `Terminates` assumes weak fairness of each process
that has started, and that HAL answers; nobody has to start a run, and no
lock has to fail. Weak
fairness is enough for the lock because the number of runs is bounded: the
runs that could overtake a waiting one run out. `ToldEnds` assumes weak fairness
of `main` of every process, nothing of signals, starts and kills, and that
`g_main_loop_quit` called from a handler ends the loop. `HvTerminates`
assumes weak fairness of each run that has started, and that the mount command
ends; what that leaves behind need not. Nothing here has time-outs.

## Proofs

The theorems are for every value of the constants, under the assumptions stated
beside them. These say what the constants are (special values such as `NoKey`
or `Null` differ from ordinary ones, a table is a sequence of lines, a rule is
in normal form, a text a sequence), and TLC evaluates each in a run. The
theorems about halevt-mount and hvmount are for any number of processes, runs,
device changes and faults; what breaks a lock is not assumed away but named in
the properties themselves (`mishaps`, `safe`).

| property | theorem | of |
|---|---|---|
| `TypeOK`, `MirrorCurrent`, `IInv` | `TypeCorrect`, `MirrorTheorem`, `Invariance` | `HalevtDaemon_proofs` |
| `OnInitBounded`, `CopiesBounded`, `RemovalComplete` | `OnInitTwice`, `CopiesAtMostThree`, `RemovalServed` | `HalevtDaemon_proofs` |
| `ImplementsMirror` | `Refinement` | `HalevtDaemon_proofs` |
| `TrueWasTrue`, `FalseWasFalse`, `FetchedWasThere` | `FoundTrue`, `FoundFalse`, `FetchedHeld` | `HalQuestions_proofs` |
| `FirstFileWins`, `LoadedAsWritten` | `FirstFileRead`, `RulesAreLoaded` | `ParseConfig_proofs` |
| `ElementsFit`, `ExecFaithful`, `ScanFits`, `MatchFaithful` | `ElementsAlwaysFit`, `ExecsAreWhole`, `ScansAlwaysFit`, `MatchesAreWhole` | `ParseConfig_proofs` |
| `ManagerTypeOK`, `DaemonNamed`, `NoneNamedAfterEnd` | `ManagerTypes`, `DaemonIsNamed`, `NamedIsNoneEnded` | `Manager_proofs` |
| `BufferOK`, `CommandFits`, `StartedWhole` | `SizesRight`, `NoOverrun`, `NothingLeftOut` | `CommandBuffer_proofs` |
| `MountTypeOK`, `WrittenIsCurrent` | `MountTypes`, `WritesWhatHalHas` | `HalevtMount_proofs` |
| `RunsExclude`, `FailureLeavesTable`, `LossesExplained` | `RunsExcludeAlways`, `FailureChangesNothing`, `LossesAreExplained` | `HalevtMount_proofs` |
| `HvExclusive`, `LinesKept`, `OneLineEach` | `HvRunsExclude`, `HvLinesKept`, `HvOneLineEach` | `Hvmount_proofs` |

### The list follows HAL

`MirrorCurrent` says that the list has as HAL has it whatever no waiting signal
is about. By itself it is not inductive: when the last signal about a property
has been handled, all that makes the list right is that what HAL answered is
what the signal announced. `SignalsSettle` says so: the last waiting signal
about something tells its present state (an "added" signal whatever it is, a
"property" signal its value). It is a part of the invariant `IInv` only and not
a property of the daemon, as HAL and the bus give it whatever the handlers do.
The signal being handled counts as waiting (`Pending`). So a handler that ends
either was not the last, and nothing is claimed yet, or it was, and then HAL
has not changed since: the answer is the present. `SignalsSettle` in turn needs
`EarlySignals`, that no signal can precede its subscription, and `HandlerOK`,
that signals are handled in the main loop only and that the second question of
`halevt_device_list_set_property` belongs to a property signal. One more
subtlety: a device that is there but has been listed by no pass yet is in
`todo`. The first section has lemmas about the first entry of a udi: adding in
front changes the first entry of that udi alone, removing the first entry of
another udi changes nothing for this one, setting a property changes that
property alone.

`Refinement`: that initial states map is immediate, as nothing is vouched for.
In the phases in which anything is vouched for, the daemon has subscribed to
everything, so a step of HAL sends a signal, about just the things that change
(`TellsChanges`), and exactly those stop being vouched for. After a step
of the daemon, what is vouched for is right because `MirrorCurrent` holds
again, and nothing is lost from it because a step makes nothing pending that
was not. The proof needs beside `IInv` that a signal is handled, or a pass
under way, in these phases only (`HandlingActive`). The crash is the failure of
the mirror.

### Counting passes and entries

`OnInitTwice` rests on `PassInv`: up to the second pass a device has been given
to no more rules than those of the first pass, if that is over for it, and those
of the rules tried since. `CopiesAtMostThree` rests on two facts. Signals of one
device coming and going take turns, the last as HAL has it now (`TurnsOK`). Each
pass makes one entry of a device (`CopiesOK`: none or one, then one or two), and
in the loop two, or three if the device was there before the signals still
waiting, as the next of them that says so, or HAL if none does, tells. An "added"
comes when it was not, which leaves room for an entry; a "removed" takes one
away.

### Removal

`Due` is what the rules of a removed device should run, given the list: rule
after rule, the commands of those that hold. `RemovalOK` says that what has run
is the `Due` of the rules passed (`DueGrows` extends it by one), that the
terms passed in the present rule do not hold and that of the present term the
literals passed do (`Walked`); the list is the one of then, for only the
handler's end changes it. `TermHolds`, `TermFails`, `TreeHolds` and `TreeFails` turn the walk
through the normal form into the truth of the rule.

### One answer

The invariant of `HalQuestions_proofs` says, beside the types and the three
properties, that the answer of this moment is in `seen` (`Remembered`), that as
long as no parent changes the device asked about is where `path` leads
(`Position`), and what the questions so far have told (`Known`): when the value
is asked for, a property whose type is no longer the one that was told has been
away, as a property keeps its type, so the empty array is in `seen`. The rest is
a case for each type: how HAL's value is printed, how the code compares, and
where an int or `%g` cannot hold it. The attempt to prove this found that the
properties claimed too much when `steady` compared only the end of a chain of
parents, as is said above.

### The configuration

`FirstFileRead`: of the files found so far each is in the first directory that
has its name, they are in the order of the directories and no name is there
twice, and every name the search has passed is among them (`SearchOK`).

`ElementsAlwaysFit` compares two walks over one text. `CountElements` goes on
from the closing dollar itself, which it can take for the next opening one, and
`CutElements` from behind it, so the first may see properties the second does
not. But none less: a place not behind where the second finds its next property
has that property after it, or one that closes where it opens or before
(`EarlierProperty`). By induction on the length that remains, the second makes
at most one element more than the first has counted (`CountEnough`), for which
`halevt_new_exec` has room. The proof met one text for which two cases of the
definition overlapped, the empty one.

`ExecsAreWhole` goes through the second walk backwards: what is cut from a
place on is the rest of the text from there, unless it ends with a name that is
none (`CutStands`). A step takes the literal up to the opening dollar, the name
and the closing dollar, four parts of the text that join (`PartsJoin`). That the
text of a name is what the name was made of is a loop of the same kind over its
pieces (`NameWhole`): of each piece `halevt_hal_string` takes the prefix away,
and each cut takes a dot.

`ScansAlwaysFit`: the two buffers of `halevt_new_boolean_expression` grow when
one place is left; the invariant of the loop is that what is written is below
what is allocated. The most one turn writes is the number of an atom. It has no
more figures than it counts, unless it has one only (`PrintedIsRead`), and it
counts no more than has been written, as each atom before has left a number
there; so doubling the room is enough (`ExprEnough`). `TextsOK` says that every
text at hand is one of the documents.

`MatchesAreWhole` is about the same loop. Its invariant: the words so far, each
number replaced by the match of that index, are what has been read of the text,
blanks aside (`ScanText`). One turn reads an atom, blanks around it, and an
operator or the end (`ScanPart`), and adds a word for the atom, if there is
one, and a word for the operator (`WordMore`). The number in the word is that of
this atom and of no other for four reasons, each a lemma: atoi reads the number
snprintf has printed, a number cannot be taken for an operator, an atom stays
where the array had it first (`AtomsStay`), and name, equal sign and value put
together are the atom (`MatchWhole`, from `NameWhole` and `Trimmed`). That
blanks do not matter is a lemma too: what is left of two texts in a row is what
is left of each (`NoBlanksJoin`).

`RulesAreLoaded` needs to know what the lists are while they are read. `RootsOK`
says that each list, seen from outside, has the rules of the elements done so
far (`DoneUpTo`) that are of its kind, last one first (`LastFirst`). A property
is put into its list before its actions are read, and they are added to it one
by one, so until it is done the list has it in front with the actions done so
far (`Half`). `ListsOK` is what this rests on: the files found are a sequence,
the lists are sequences, and only a property that is made has actions being
read. Each action of the loop adds one rule in front, one action to the rule in
front, or nothing, where the element makes none (`RulesStep`, `FrontAdded`,
`ActionsFront`). When the last file is done the elements done are all there are
(`DoneAll`). With `-i` no file is read, whatever else is asked, so the statement
is about starts without it; that was found in the attempt to prove it, when TLC
had not been given `-i` and `-c` together.

A loop or a walk is a recursive function of a number or of what remains of a
text. `Loops` has what is used about them: that such functions exist and take
their values in a set (`LoopExists`, `WalkExists`), and that what is true at the
start and kept by each turn is true at the end (`LoopKeeps`, `WalkKeeps`,
`NumbersKeep`). The
induction theorems of the library take an operator as a parameter, which the
provers cannot instantiate, so the induction is over the set of the numbers for
which a statement holds (`AllNumbers`, from `LeastNumber`).

### Processes

The invariant of `Manager_proofs` is `ManagerTypeOK`; that only a daemon that
asked for a pid file is at the steps about one (`StagesAsAsked`); that an inode
is open in these steps only and keeps the name under which it was made
(`InodesKeepName`); that the process an inode begins with wrote it and, while the
inode has a name, is before its end (`HeadsWrote`); and that for a process which
has had its pid file alone the name stands for the inode it has open, empty or
with its pid, as its stage tells (`LoneKnown`).

`CommandBuffer_proofs` adds to its properties that `current_size <
string_size`; `Doubling` is the step where overflow matters: a
sum that has overflowed is negative and fails the comparison, and a doubled sum
that has overflowed is negative and fails in `realloc`.

### The table

`HalevtMount_proofs` has an invariant of the shape of
the files (`FilesOK`) and of what each run has (`Shape`), of what the place in
`main` says of the lock, the list and the file that is written (`Place`), and
that the entries dealt with, of devices that have not changed since the table was
read, are as HAL has them (`Read`). `RemoveAllLeaves` and `FindUdiFinds` say what
the operations of the list do.

The lock (`LockInv`): as long as it has not broken, all runs that have a lock
file open have the same one, and if the name stands for a file, it is that one
(`OneFile`); and of those one has the lock (`OneHolder`). A run that unlinks the
file takes away its name only; the next to open a lock file makes a new one,
which is a mishap unless nobody has the old one open. What a step does to the
lock is said once (`Locking`), and that `LockInv` is kept is proved from that.
For `FailureLeavesTable`, `OwnTmp` says that the new table of a run is what its
name stands for until it is renamed, so that what exit writes is not the
table.
`TableRoundTrip` says that the table that is written is read back in the
opposite order.

For `LossesExplained` the invariant (`KeptInv`) says where the udis that were
added are as long as there has been no mishap. For a run that works (`Kept`):
while the list is brought up to date with HAL, in what has been looked at and
what remains; then in the list, which "add" and "mount" have put theirs into;
then in what is printed. For the table (`Backed`): in the buffer of the run that
has renamed its file, until exit writes it, else in the file itself; no two runs
write the same file. Devices may go meanwhile, as that ends the promise; what a
drop takes along besides is the mishap. `UdisPrinted` and `UdisRead` say that a
table has the same udis after it is written and read.

`Hvmount_proofs` has the lock in the same way: while `safe`, the runs that wait
or work have one lock file open (`LockFile`), and who works has the lock of it
alone, which nothing left behind has besides (`Holders`). The table
is written in place, so what keeps the lines is about the copy: while a run
rewrites, a registered device has its line in the copy, and either in the table
or among the lines still to be read (`Rewrites`). For one line each, no device
is in both, and the run knows whether the device it is about has been found
(`Reads`). A copy outlives a killed run and does no harm, as a run makes its own.
As nothing is claimed once the lock is two, the invariant as a whole is under
`safe`, which no step restores.

### Model-checked only

`Converges`, `Terminates`, `ToldEnds` and `HvTerminates`: liveness is out of the
prover's reach. All other properties of the passing runs are proved. What the
violation runs refute is, of course, not.

## Not modelled

* **hvmount and halevt-mount at once.** They have the lock file and the table in
  common, but hvmount takes the lock with flock where halevt-mount takes it with
  lockf, so they do not exclude each other, and hvmount writes the table in
  place. No property of the table holds for the two together. `Hvmount` does
  start from tables that halevt-mount has written.
* **Out of memory**, but for the buffer of a command; full disks and errors of
  `fclose` and `fprintf`.
* **`halevt_print_*`, `halevt_free_*`**, logging, usage, translations: nothing
  depends on what they do.
* **Changing user and group**, beyond that a start may fail there.
* **Mount options, user detection and the choice of a directory** in
  halevt-mount, which affect what HAL is asked for, not the files.
* **The libraries.** boolstuff's normal form is taken as right: `HalMatch` has
  rules in that form, `ConfigText` the numbered expression it is made from. A
  rule has at least one term and a term at least one literal
  (`RulesAssumption`): expressions that contradict themselves, of which
  boolstuff may leave nothing, are left out.

## Plan

What would come next:

1. That the configuration the daemon runs with is the one `ParseConfig` loads:
   `HalevtDaemon` takes its rules as constants, in the normal form boolstuff
   makes of them.
2. hvmount and halevt-mount on one table, to find what is still true of it.
3. The files of hvmount after the lock is two, for what can still be said of
   them: the loop would have to read the copy line by line.
