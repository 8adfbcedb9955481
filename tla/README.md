# A TLA+ model of bro-spotd

bro-spotd receives records from Bro (through Broccoli), feeds the value of every
monitored feature to a SPOT instance (libspot) of its own, and answers calls on
D-Bus: list the features, read the status or the configuration of an instance,
reset one, end the daemon. This directory holds TLA+ modules of the program,
configurations that check them with TLC, and theorems checked with TLAPS.

Paths below are those of the repository (`src/main.cpp`, `include/Dispotcher.h`).
`PROJECT.json` maps every definition to the lines it stands for.

## 1. The system

| component | state | operations | talks to |
|---|---|---|---|
| feature list (`Dispotcher`) | `_features`, a `std::list<MonitoredFeature>` | constructor, `begin`/`end`, `names`, `status`, `config`, `reset` | used by both threads, no lock |
| monitored feature (`MonitoredFeature`) | name, Bro type, a `Spot` (configuration, counters); the global `req_id` | constructor, `process`, `status`, `config` | libspot, Broccoli's events |
| record handling (`callback` in `main.cpp`) | an iterator into the list, the value read, the pending event; the global `nb_events` | one call per record | the list, the record, `bro_event_send` |
| D-Bus service (`Dbuspotcher`) | the connection, the message and the reply at hand | `listen` and six methods | the list, the session bus, `exit` |
| Bro connection (`BroConnection`) | the Broccoli handle | constructor, `add_event`, `connect(wait)`, `is_connected`, `run` | Bro, `callback` |
| life cycle (`main`) | the stage reached | start-up, signal handlers, the D-Bus thread, `join` | everything |
| configuration (`get_default_config`, `get_config`, constructor) | the dictionary of iniparser | the loop over the sections | builds the list |
| command line (`cola.hpp`) | options and their values, names to find them by, the arguments and what is left of them | `define`, `alias`, `with_arg`, `delimiter`, `parse`, `get`, `is_passed`, `rest_args`, `reset` | `main` |

**Two threads.** `main` becomes the *Bro thread*: `run()` calls Broccoli, which
calls `callback()`, which walks the list and calls `process()` on every element.
`std::thread bus` is the *D-Bus thread*: `listen()` pops one message after
another and calls the handlers, which search the same list and, for `Reset`,
erase a node and append a new one. There is no lock and no atomic variable.

**What is hard.**

- *Interleaving.* `reset()` changes the list while `callback()` holds an iterator
  into it. Erasing invalidates that iterator, appending prolongs the loop, and
  the allocator may hand the node's address to the new node.
- *Atomicity.* Between `erase` and `emplace_back` the feature is in no list, and
  its settings exist only in the locals of `reset()`. `Spot::step` loads counters
  and stores them later.
- *Partial failure.* `callback()` and `process()` throw, `_send_flush_unref`
  throws; nobody catches, so one bad value or one failed send ends both threads.
  The handlers catch "unknown feature" but go on to send the reply they prepared.
- *Loss and retry.* `connect(true)` tries for ever; after it, a lost link is
  never made again. `listen()` never returns, so `join()` never does.
- *A copy in steps.* `status()` copies eleven fields one after the other while
  `Spot::step` may be storing them.
- *Representation.* `append_spot_config` hands one-byte flags to a function that
  reads four bytes.
- *Ordering and layers.* Where an option comes from depends on three layers, and
  on -1 standing for "not given". What an argument of the command line means
  depends on the one before it, and an exception may leave the parser anywhere.

**What makes it correct.**

- List: one node per feature, whatever the threads do; settings survive resets.
- Record handling: every positive value reaches its own instance once; counters
  are exact; a sweep ends; an alarm is reported; a record cannot end the daemon.
- D-Bus: calls are answered in order; the first answer is the right one; there is
  one answer; a polled counter does not go back unasked; a reset that was
  confirmed is visible; Kill is acknowledged and obeyed.
- Life cycle: the daemon waits for Bro; a loss of Bro is final but leaves the
  D-Bus service up; a daemon that listens can be called.
- Configuration: every section but `default` is monitored, with the option's
  value from the nearest layer.
- Command line: values, rest and errors are what the line as a whole means.

`PROJECT.json` lists these hazards at their lines with the properties for each.

## 2. The modules

```
ProcessLife ─┬─ Dispotcher ─┬─ Callback ──────┐      Monitor (abstract)
             │     Wire ────┴─ Dbuspotcher ───┼─ BroSpotd     ▲
             ├─ Main ─────────────────────────┘      Callback ┘
             └─ IniConfig                      Cola (by itself)

DispotcherProofs ─┬─ CallbackProofs ─── QuietProofs ─┬─ BroSpotdProofs
                  └─ DbuspotcherProofs ──────────────┤
                                          MainProofs ┘
IniConfigProofs     ColaProofs             MC* : instances for TLC
```

**ProcessLife** is what both threads share: running, ended by `exit`, or aborted.

**Dispotcher** is the list. `list` is the sequence of the nodes' addresses, `mem`
what each address holds, `SectionOrder`/`ConfOf`/`TypeOf` what the configuration
asked for. `reset()` is `ResetFind` (search, copy type and configuration),
`ResetErase`, `ResetEmplace`; `dpc`, `target` and `saved` are where it stands and
its locals. The abstractions here:

- Freeing a node leaves its content where it was, except the first word, which
  is where `std::list` keeps the link to the next node: `After` of a node that is
  not listed is `Garbage`. That is what the common allocators do; an access
  through a dangling iterator may also fault (`Fault` in Callback), so nothing
  good is ever concluded from freed content.
- The allocator is arbitrary: `ResetEmplace` takes any free address, the one just
  freed among them. Unhooking and freeing are one step, and so are allocating,
  constructing and hooking in: between them no other access of the two threads
  sees more than it sees before or after.
- Of `SpotStatus` only `n` and the alarms are kept, of `SpotConfig` an identity.

**Callback** is the Bro thread over that list. Each access to a node is an action:

| code | action |
|---|---|
| `callback` is called, `it = begin()` | `RecordArrives` |
| `bro_record_get_named_val(record, name, &type)`: reads the name, finds the value | `Lookup`, or `LookupFails` (there is none: `callback` throws) |
| reads the type and compares it | `Check`, or `CheckFails` (another type: `callback` throws) |
| writes the type; then `d = *d_ptr`, `d > 0.` | `Learn` |
| `_spot.step(d)` | `Step` (loads the counters), `Store(0)`, `Store(1)` (stores them; alarm or not) |
| event, `out_event = ev`, `bro_event_send` | `Report`, or `ReportFails` (it throws) |
| `++it`, `it != end()` | `Advance` |
| an access through an invalid iterator faults | `Fault` |
| `reset()` in the other thread | `CallReset`, `Erase`, `Emplace` |
| `exit` | `Stop` |

A type is written by `Learn`: `BRO_TYPE_UNKNOWN` is overwritten by the type Bro
has, and any other by itself, unless the node has become another feature's since its
name was read. `Learn` and `Store` write to wherever the iterator points, listed or not.
`served` and
`since` are history variables. `Stop` is the rest of the program ending the process, in
the order of things (`exit`) or not (`OthersAbort`: an exception of `main` or of the
D-Bus thread). `QuietSpec` has the same actions with two guards more (`QuietNext`): no
reset begins while a record is at hand, and no record comes before it has ended.

**Monitor** is what the two threads promise together: a record marks features, each
marked feature counts one observation, in any order, and a reset makes one
instance forget. `Callback` implements it (`MonitorImplemented`) under
`FairQuietSpec`, with `Seen` and `Pending` as the mapping: the list, the iterator,
the registers and the steps of `reset()` disappear.

**Dbuspotcher** is the D-Bus thread alone: `Poll`, one action per method, `Send` for
each reply a handler sends. An error is an ordinary method return, as in the
code. `Status`, `Config` and `Reset` of an unknown name put an error *and* the
empty reply into `todo`, a call with no string argument just one error. `Kill`
ends the process after its reply. Calls carry a method and an argument: a
feature, a name that is none, or nothing usable. `Status` of a feature copies in
two steps, `BeginStatus` (the observations) and `ReplyStatus` (the alarms), between
which the Bro thread may do anything; the node itself stays, since only this thread
erases.

**Wire** is what `append_spot_config` sends: `AppendConfig` computes the arguments of
the reply from the bytes of a `SpotConfig`, one `AppendBasic` per field. `n_init` is
taken to be below 2^16 (`TwoBytes`): its two low bytes are all that the read of a flag
can reach. The layout is the one of the common
64-bit ABIs for the eight fields in the order of libspot's header, with the padding
bytes arbitrary. libdbus is not in the repository, and reads a `DBUS_TYPE_BOOLEAN`
as four bytes; what it does with one that is neither 0 nor 1 depends on how it was
built, and the variable `library` of Dbuspotcher leaves that open: without checks
it *sends* TRUE, with checks it *refuses* the argument, or the check is *fatal*.

**Main** is the stages of `main()`, each with its way to fail, and the world: Bro comes
and goes, another process may hold the bus name, the session bus may go away,
signals, Kill, exceptions of the threads.

**IniConfig** is the constructor of `Dispotcher` over any ini file: sections in any
order, with or without `default`, each option given, not given, or given in a
way iniparser cannot read. `alert` is not among the options: the code sets it to true
without asking the file. The module justifies the assumption with which the other
modules start (`DispotcherAssumption`): one node per section, in file order.

**BroSpotd** is the daemon: Callback, Dbuspotcher and Main on one list in one
process. `raced` remembers whether a reset has ever overlapped a sweep (`Overlap`:
both are under way, or a record has come during a reset and found the list empty).
`BroSpotdAssumption` says that Callback is instantiated to bear what the other two can
do to it: as many resets as calls, and an abnormal end if any of them has one.

**Cola** is a parser and its client. The client defines options, gives them further
names, a type, a default and a delimiter, then calls `parse`, whose loop is one
action per kind of literal (`judge`), each the whole function that evaluates it, with `Throw` where
that throws. A call that throws before it has changed anything is an action that is
not enabled. A text is its dashes, its letters and what follows `=`; which texts a
`stringstream` reads as a number (`Casts`) and how `getline` cuts one at delimiters
(`Split`) are parameters. The section "What a command line means" is a second, direct
reading: which arguments stand on their own (`Alone`, a recursive function of the set of literals
that want an argument, since those take whatever comes next), what each literal speaks of
and gives, which are `Acceptable`; the properties compare the loop with it. Four facts of
the code are in the model, and the properties neither object to them nor bless them:
`is_passed()` is false for a defined option the line does not mention, where
`cola.hpp:68` says "Returns true if the name is defined or aliased"; `reset()` keeps the
options' values, so that defaults do not come back, and the note of undefined options
(`exists_undefined_`), where `cola.hpp:128` says "Reset parsed data"; and `alias()` accepts
a name another option has, without effect on `lookup_`. `main` calls neither
`is_passed` nor `reset`, and gives no two options the same name.

The operators named after a bug (`FreshLow`, `LearnStays`, `ResetEraseNot`,
`PollDrops`, `SendStays`, ...) are mutants: each stands before the operator
it distorts, and `PROJECT.json` says which property refutes it in which run.

## 3. What is checked

Deadlock is not checked: every module's system may stop, by exit or because
nobody sends anything any more.

| run | module, specification | question |
|---|---|---|
| `callback_race` | MCCallback, `FairCallbackSpec` | what survives resets in the middle of sweeps? |
| `callback_quiet` | MCCallback, `FairQuietSpec` | what holds while they keep clear of sweeps? |
| `dbus_calls` | MCDbuspotcher, `FairDbusSpec` | are three calls of any kind answered as they should be? |
| `main_life` | Main, `FairMainSpec` | how does the daemon live with Bro coming and going? |
| `ini_layers` | MCIniConfig, `IniSpec` | which features, and where does each option come from? |
| `daemon` | MCBroSpotd, `FairDaemonSpec` | does the composition behave as Callback, what do clients see of the counters, is Kill obeyed? |
| `cola` | MCCola, `FairColaSpec` | do values, rest and errors follow from the line, and does `parse` return? |

Results:

- *With resets at any moment* (`callback_race`): the list always has one node per
  feature but the one being reset (`OneNodePerFeature`), configurations stay those of
  the ini file (`ConfigsKept`), and every sweep ends (`SweepEnds`). Types do not stay:
  see the race below.
- *With resets apart from sweeps* (`callback_quiet`): the iterator is valid
  (`IteratorValid`), an instance asks for the type of the ini file, or where that gives
  none for the one of its own field (`TypesKept`), each value is fed once and to its own
  instance (`ServedOnce`), counters are exact (`CountsSinceReset`), the daemon does not
  abort (`NeverAborts`; every field present, events allocated), and the whole
  implements Monitor with its liveness (`MonitorImplemented`).
- *D-Bus* (`dbus_calls`): `AnswersInOrder`, `FirstAnswerRight`,
  `FeaturesComplete`, `KillAcknowledged`, `EveryCallHandled`. Of a Config reply
  `ConfigInitial` says what does hold: the numbers are right and in order, a flag
  that is on is never told as off, and a libdbus that checks tells none wrong.
- *Life* (`main_life`): `ConnectsEventually`, `LossIsFinal`, `ServesWithoutBro`.
- *Configuration* (`ini_layers`): `EverySectionMonitored`, `OptionsLayered`. The
  reference states -1 for what it is: an entry of -1 counts as not given.
- *The daemon* (`daemon`): the composition is a behaviour of Callback
  (`SweepsAsCallback`); counters in successive Status replies never go back unless the
  client has reset the feature in between, although the copy is not atomic
  (`StatusMonotone`; two Status calls use up the run's bound, so that a reset before
  both of them, in the middle of a sweep, is a case of the theorem and not of the run);
  as long as no reset has overlapped a sweep, no
  Status counts an observation from before the reset (`ResetVisible`); `KillObeyed`.
- *Command line* (`cola`): a name leads to an option that has it
  (`LookupLeadsHome`); after a `parse` that succeeds the values are the last ones the
  line gives, under whichever name, and the defaults of the options the first line does
  not mention (`ValuesGiven`), and what belongs to no option is
  left, once and in order (`RestIsRest`); `parse` succeeds exactly if every literal is
  acceptable (`ErrorsJustified`), and returns (`ParseReturns`).

### Where the code and its documentation disagree

Each of these runs checks what a comment or the README says, and TLC refutes it.

| run | what happens |
|---|---|
| `race_served` | a `Reset` of the feature `callback()` is at moves its node; `++it` meets `end()` and the other features of the record are skipped (`main.cpp:33`, `Dispotcher.cpp:303`). The same race lets `Spot::step` store counters it loaded before a reset into the fresh instance at the same address, which is why `CountsSinceReset` and `ResetVisible` speak of resets apart from sweeps. And it lets `bro_record_get_named_val` read the name of one feature and, two resets later, write the type of that one's field into the node of another, which then asks for a type its own field does not have, through later resets, until a sweep throws (`main.cpp:36`): `TypesKept` is false under `CallbackSpec`, with the constants of `callback_race`, and is checked and proved for `QuietSpec` |
| `config_flags` | the bytes behind a one-byte flag are read with it: with `down` off and `n_init` behind it, `Config` tells `down` as on; a libdbus that checks leaves the flag out instead (`Dbuspotcher.cpp:221`) |
| `reported` | `process()` assigns the event to its own copy of the pointer, `callback()` sends `nullptr`: no anomaly ever leaves the daemon (`MonitoredFeature.cpp:53`) |
| `optional_field` | a record without a value for a monitored `&optional` field ends the daemon (`main.cpp:38`) |
| `dbus_status` | `Status` of an unknown feature: an error, then an empty reply (`Dbuspotcher.cpp:269`); `Config` and `Reset` likewise, and a successful `Reset` is answered by a message and an empty reply |

### Bounds

- *Callback*: three features (a first, a middle and a last node: the iterator
  behaves differently at each), four addresses (one is free at any time, two
  during a reset, so that reuse and non-reuse both happen), two configurations of
  different `NInit` (one alarms at its second value), types given and
  learnt; `MaxRecords` 2 or 3, `MaxResets` 1 or 2. One reset inside one sweep
  reaches every case of the race, two let the same feature be reset twice and the
  freed address serve another feature. Records: all positive, one value not
  positive, and where absence matters one field absent.
- *Dbuspotcher*: two features, an unknown name, an unusable argument; three calls,
  enough for call, reset, call. Two configurations, the built-in profile and one
  with `up` off and `n_init` 512, whose low byte is 0; padding bytes 0 and 170; all
  three kinds of libdbus.
- *Main* has no bound. *IniConfig*: up to three sections, one option of each kind,
  numbers 3 and -1; the options are independent of each other in the code.
- *BroSpotd*: one feature, two addresses (so the fresh node may or may not be where the
  old one was), two records and two calls: two Status calls around steps of a sweep, or
  a Reset and a Status. With one feature `ResetErase` leaves an empty list, which the
  runs of Callback do not reach. The details of the parts are those of their own runs.
- *Cola*: the names `c` and `v`, of one option or of two, flags, strings and vectors of
  integers, two delimiters; every line of up to two arguments out of
  `-c -cv -c1 - --v --v=1,1 --v= -- 1` and those of three that begin with `-c` and end
  with `-c1` or `1`; after a `reset`, or after an exception, a second line of up to one
  argument. Two arguments let an option take a literal of any kind, three an option
  given twice, with its argument in between.
- `SweepEnds` rests on `MaxResets`: a client that resets for ever during one
  sweep can keep it from ending. It is stated for finitely many resets.

### Fairness

Weak fairness of each thread as a whole (`BroThread`, `Erase \/ Emplace`,
`MainThread`, `Listen`, `ParseImpl`): the operating system schedules a thread that can run,
and each thread is sequential, so that at most one of its actions, or the
alternatives of one, is enabled. Records, calls, resets, signals, Bro and the bus
are under no fairness. `callback_race` and `callback_quiet` have no fairness for
the start of a reset either, only for finishing one that has begun.

## 4. What is proved

Every safety property of section 3 that the runs confirm is also a theorem: it holds
for all values of the constants, not only the small instances. The runs came first,
and found each statement true before it was proved.

| module | theorem | statement |
|---|---|---|
| CallbackProofs | `TypeCorrect` | `CallbackSpec => []CallbackTypeOK` |
| | `FeaturesCorrect` | `CallbackSpec => []OneNodePerFeature` |
| | `ConfigsCorrect` | `CallbackSpec => []ConfigsKept` |
| | `SweepShrinks` | no step lets what a sweep has left grow, each of the Bro thread's lessens it |
| QuietProofs | `IteratorCorrect` | `QuietSpec => []IteratorValid` |
| | `TypesCorrect` | `QuietSpec => []TypesKept` |
| | `ServedCorrect` | `QuietSpec => []ServedOnce` |
| | `CountsCorrect` | `QuietSpec => []CountsSinceReset` |
| | `StaysUp` | `Healthy` implies `QuietSpec => []NeverAborts` |
| | `MonitorSafe` | `QuietSpec => Abstract!MonitorSafety` |
| DbuspotcherProofs | `DbusTypeCorrect` | `DbusSpec => []DbusTypeOK` |
| | `OrderCorrect` | `DbusSpec => []AnswersInOrder` |
| | `FirstCorrect` | `DbusSpec => []FirstAnswerRight` |
| | `NamesCorrect` | `DbusSpec => []FeaturesComplete` |
| | `ConfigCorrect` | `DbusSpec => []ConfigInitial` |
| | `KillCorrect` | `DbusSpec => []KillAcknowledged` |
| MainProofs | `MainTypeCorrect` | `MainSpec => []MainTypeOK` |
| | `LossCorrect` | `MainSpec => LossIsFinal` |
| BroSpotdProofs | `SweepsCorrect` | `DaemonSpec => SweepsAsCallback` |
| | `LifeCorrect` | `DaemonSpec => MainSpec` |
| | `ServiceNextToSweeps` | order, first answers, names and configurations in `DaemonSpec` |
| | `VisibleCorrect` | `DaemonSpec => []ResetVisible` |
| | `MonotoneCorrect` | `DaemonSpec => []StatusMonotone` |
| IniConfigProofs | `SectionsCorrect` | `IniSpec => []EverySectionMonitored` |
| | `LayersCorrect` | `IniSpec => []OptionsLayered` |
| ColaProofs | `ColaTypeCorrect` | `ColaSpec => []ColaTypeOK` |
| | `LookupCorrect` | `ColaSpec => []LookupLeadsHome` |
| | `ErrorsCorrect` | `ColaSpec => ErrorsJustified` |
| | `RestCorrect` | `ColaSpec => []RestIsRest` |
| | `ValuesCorrect` | `ColaSpec => []ValuesGiven` |
| | `LoopAdvances` | every turn of the loop leaves `parse` or moves on |

### Assumptions

On the constants, each in the module that declares them, each evaluated by TLC in every
run of that module: `DispotcherAssumption` (the constructor gives each feature one node
at its own address, which is what `SectionsCorrect` proves of it),
`CallbackAssumption` (types; a field of a record never has the type
`BRO_TYPE_UNKNOWN`), `WireAssumption`, `DbuspotcherAssumption`, `MainAssumption`,
`BroSpotdAssumption` (section 2), `IniAssumption` (types; finitely many sections; the
numeric and the Boolean options have different names), `ColaAssumption` (types; a
command line is a sequence of texts with at most two dashes). `Healthy` is a
hypothesis of `StaysUp` alone: fields present, with the types of the ini file, events
that can be allocated, and nobody else who ends the process. Without it the theorem is
false, as `optional_field` shows.

### Arguments

None of the properties but the types is inductive. What had to be added:

- *The list* (`ListInv` in DispotcherProofs). Between erase and append the list says
  nothing of the missing feature, so what is to be appended must be known; between find
  and erase the iterator of `reset()` must still stand on the node whose name was
  copied. `ListInvFrame` is the heart
  of the Bro thread's part: a step that changes no name and no configuration in memory
  keeps `ListInv`, no matter which node it writes, even a freed or reused one. That
  covers `Learn` and `Store` through a dangling iterator. The invariant has as a
  parameter the types each feature may have learnt: none for Dbuspotcher, where no
  record is read; its own field's (`OwnTypes`) while resets keep clear of sweeps; any at all
  (`AnyType`) otherwise, since `Learn` may write one feature's type into another's node.
- *The end of a sweep* (`SweepLeft`). Any interleaving of sweeps and resets has a
  measure: the nodes from the iterator's to the last, the steps left at this one, and
  the resets that may still append. An erase may take the node the iterator stands on,
  the allocator may put a new node at that address, and then the iterator stands on the
  last node of the list; an append adds a node, and costs a reset. A reset
  weighs eight and a node seven, so that an append lessens the whole.
- *A sweep* (`QuietInv`). `IteratorValid` and `ServedOnce` see the ends of a sweep; the
  invariant says how far it has come (`SweepAt(pos)`): the nodes before the iterator's
  have been fed, those behind it have not, and the register holds the counters of the
  node. That each feature has one node makes "fed once per node" the same as "once per
  feature".
- *The refinement* (`MonitorSafe`). The mapping `Seen` searches the list. Under
  `QuietInv` it needs no list (`SeenFedSince`): what an instance has seen is what was
  fed to it since it was made. Then each action maps to `Record`, `Observe`, `Forget`,
  `Stop`, or nothing.
- *The D-Bus thread* (`BusInv`, `KillInv`). What clients have got follows from three
  parts: the stage and what goes with it, the replies still to be sent (each fits its
  call, and the first of them is the first answer), and the replies sent. `Faithful`
  carries `ConfigInitial` through `AppendConfig`, argument by argument.
- *The daemon* (`DaemonInv`) is the conjunction of the parts' invariants with what ties
  them: only a popped call has reset anything, a sweep runs while `main` is in `run`.
  `SweepsCorrect` and `LifeCorrect` are refinements, proved action by action:
  whatever holds of Callback and of Main holds in the daemon. `VisibleInv` says that
  before the first overlap `QuietInv` holds, and relates to the history what `status()`
  has copied and what is about to be sent.
- *Counters that do not go back* (`MonotoneInv`) hold with any overlap. The key is
  `Growing`: what `Spot::step` is about to store is not behind what is in memory at the
  iterator, wherever resets have moved the node meanwhile, since a reset only ever writes
  zeros there. `NotAhead` carries a value shown to a client along: the node, what
  `status()` has copied, and the reply about to be sent are not behind it, until a
  Reset of the feature is popped.
- *Configuration* (`IniInv`). The features so far are those of the sections so far but
  `default`, in their order.
- *The parser* (`ColaInv`, `ReadInv`, `FreshInv`). `ColaInv` is types, the names'
  way home, and where the loop may be. `ReadInv` relates the loop's position to the
  second reading of the line: the loop stands at a literal in the sense of that reading
  (`Literals`); every literal before is acceptable; what has been set aside is what is
  left over before, in order (`Holds`); every option has the value of the last literal
  before that speaks of it (`ValueRight`). `FreshInv` says that a client can only begin
  `parse` with nothing passed. Three lemmas do the work: `LineKept` (reading a literal
  does not change what any literal means, because meaning depends on names and types,
  never on values), `NextLiteral` (which argument is the next literal), and
  `LiteralRead` (each eval function either reads its literal as the second reading says,
  or refuses one that is not acceptable).
- *Recursion.* `Alone` is a recursive function, and its defining equation is a theorem
  only once such a function exists. `AloneDefined` shows one: an argument stands on its own
  exactly if the run of takers right before it is even (`EvenRun`). The induction over
  the length of a run is `SetInduction`, induction over Nat for a set, from the minimum
  of a non-empty subset of a well-founded order.

Three definitions changed because a proof did not go through. A record that arrives while
`reset()` has the only feature out of the list is a sweep that overlaps a reset, though
an empty one; `Overlap` counts it now, without which `ResetVisible` cannot be shown
from `QuietInv`. `Expected` was a CASE whose alternatives overlapped: TLC took the first,
the definition allows either. And "no argument" was told in Cola by the value
`Refused`, which no assumption keeps apart from a text; it is a predicate now
(`GivesArgument`).

### What stays with TLC

- Liveness, and ENABLED with it: `SweepEnds`, `EveryCallHandled`,
  `ConnectsEventually`, `ServesWithoutBro`, `KillObeyed`, `ParseReturns`, and the
  fairness of Monitor in `MonitorImplemented`. For `SweepEnds` and
  `ParseReturns` the measures are proved (`SweepShrinks`, `LoopAdvances`), the step from
  there to termination is not.
- What the runs refute (section 3): a counterexample needs no proof.

## 5. What is not modelled

- Of `cola.hpp`: the texts it makes for people (`descriptions`, `easy_usage`,
  `exec_str`, `command`, `to_string`) and the mark `hidden` sets, which only they
  read. Main knows of the parser only that it may refuse the arguments.
- The Bro script, the unused `NetworkStats.h`, `colors.h`, packaging.
- `connect(false)`, `send_event`, `silent_run`, `get_ip`, `get_port`, `size()` and the
  constructor of `Dispotcher` for tests: no caller in the program.
- The SPOT algorithm (libspot): an observation counts one, an alarm is possible
  only after `n_init` observations.
- The value of a field as a `double`. `callback()` casts the address Broccoli returns
  to `double *` whatever the type. For a `double` that is the value; for a `count` it
  is the bytes of an integer, and for a type of four bytes it reads past the value,
  whose place in memory is Broccoli's. What is read cannot be told from this source,
  so a value here is positive, not positive, or absent.
- What `exit` does on its way (exit handlers, destructors) while the other thread goes
  on, and in a signal handler: the end of the process is one step.
- The other ten fields of a status: `n` and one alarm counter stand for the
  integers, which are all copied in the same way.

## 6. Plan

Done: all modules of section 2, the runs of section 3, the theorems of section 4. Next:

1. A measure for `EveryCallHandled`, as an action property: the calls and replies before
   the thread, so that only the step by fairness is left to TLC.
2. That the end of IniConfig is a beginning Dispotcher assumes (`DispotcherAssumption`),
   as one theorem over both modules.
3. What a race can do at most: bounds on `CountsSinceReset` that hold with any overlap.
