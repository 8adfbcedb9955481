------------------------------ MODULE Callback ------------------------------
(***************************************************************************)
(* The Bro thread: callback() of main.cpp runs once per record Bro sends   *)
(* and walks the Dispotcher's list, feeding each feature's value to its    *)
(* SPOT instance.  Next to it the D-Bus thread runs Dispotcher::reset      *)
(* whenever a client asks.  Nothing orders the two threads.                *)
(*                                                                         *)
(* Every access of the Bro thread to a node of the list is a step of its   *)
(* own: bro_record_get_named_val reads the name, then reads the type and   *)
(* then writes it, Spot::step reads the instance's counters and later      *)
(* stores them, ++it reads the link.                                       *)
(***************************************************************************)
EXTENDS Dispotcher

CONSTANTS Records,          \* what Bro may send: functions Feature -> Values
          FieldType,        \* the Bro type of each field of the record
          NInit,            \* n_init of each configuration
          EventAllocFails,  \* may bro_event_new return NULL?
          OthersAbort,      \* may the rest of the program end the process abnormally?
          MaxRecords,       \* bound on the records Bro sends
          MaxResets         \* bound on the calls of reset

\* The value of an &optional field may be missing from the record.
Values == {"absent", "nonpositive", "positive"}

ASSUME CallbackAssumption ==
    /\ Records \subseteq [Feature -> Values]
    /\ FieldType \in [Feature -> BroType \ {UnknownType}]
    /\ NInit \in [Conf -> Nat]
    /\ EventAllocFails \in BOOLEAN /\ OthersAbort \in BOOLEAN
    /\ MaxRecords \in Nat /\ MaxResets \in Nat

VARIABLES cpc,        \* "idle", "lookup", "check", "learn", "step", "store", "report",
                      \* "advance"
          it,         \* the iterator of the loop
          rec,        \* the record being handled
          obs,        \* the feature whose value has been found, and is in d
          reg,        \* the counters Spot::step has loaded
          anomalies,  \* events process() has built; req_id
          reported,   \* events bro_event_send has accepted
          records,    \* nb_events
          resets,     \* resets clients have asked for
          served,     \* history: times this record's value of f was fed to SPOT
          since       \* history: values of f fed since its instance was made

broVars == <<cpc, it, rec, obs, reg, anomalies, reported, records>>
callbackVars == <<proc, listVars, broVars, resets, served, since>>

-----------------------------------------------------------------------------
(* The two libraries callback() stands on, from how it uses them.          *)

\* bro_record_get_named_val refuses a field of another type than the one asked
\* for; BRO_TYPE_UNKNOWN asks for any.
Matches(t, f) == t \in {UnknownType, FieldType[f]}

\* libspot raises no alarm before the n_init observations of the calibration.
MayAlarm(node, n) == n > NInit[node.conf]

\* What the two libraries write into a node.
WithType(node, t) == [node EXCEPT !.type = t]
WithCounters(node, n, al) == [node EXCEPT !.n = n, !.al = al]

\* process() assigns the event it built to its own copy of the pointer.
NoEvent == "null"
OutEvent(ev) == NoEvent

\* bro_event_send accepts an event and refuses NULL.
Sent(ev) == IF ev = NoEvent THEN 0 ELSE 1

-----------------------------------------------------------------------------
CallbackInit ==
    /\ DispotcherInit
    /\ cpc = "idle" /\ it = End /\ obs = NoFeature
    /\ rec = [f \in Feature |-> "nonpositive"]
    /\ reg = [n |-> 0, al |-> 0]
    /\ anomalies = 0 /\ reported = 0 /\ records = 0 /\ resets = 0
    /\ served = [f \in Feature |-> 0]
    /\ since = [f \in Feature |-> 0]

\* Bro's event reaches callback(); the loop starts at begin().
RecordArrives ==
    /\ Running /\ cpc = "idle" /\ records < MaxRecords
    /\ rec' \in Records
    /\ records' = records + 1
    /\ it' = Begin
    /\ cpc' = IF it' = End THEN "idle" ELSE "lookup"
    /\ served' = [f \in Feature |-> 0]
    /\ UNCHANGED <<proc, listVars, obs, reg, anomalies, reported, resets, since>>

\* bro_record_get_named_val finds the value by the node's name.
Lookup ==
    /\ Running /\ cpc = "lookup" /\ it \in Addr
    /\ LET f == mem[it].name
       IN  f \in Feature /\ rec[f] # "absent" /\ obs' = f
    /\ cpc' = "check"
    /\ UNCHANGED <<proc, listVars, it, rec, reg, anomalies, reported, records, resets,
                   served, since>>

\* The record has no such value: NULL, callback() throws and nobody catches.
LookupFails ==
    /\ Running /\ cpc = "lookup" /\ it \in Addr
    /\ mem[it].name \in Feature => rec[mem[it].name] = "absent"
    /\ Abort
    /\ UNCHANGED <<listVars, broVars, resets, served, since>>

\* It compares the value's type with the node's.
Check ==
    /\ Running /\ cpc = "check"
    /\ Matches(mem[it].type, obs)
    /\ cpc' = "learn"
    /\ UNCHANGED <<proc, listVars, it, rec, obs, reg, anomalies, reported, records,
                   resets, served, since>>

\* The value has another type: NULL, too.
CheckFails ==
    /\ Running /\ cpc = "check"
    /\ ~Matches(mem[it].type, obs)
    /\ Abort
    /\ UNCHANGED <<listVars, broVars, resets, served, since>>

\* Mutant: the test d > 0 is dropped.
LearnKeepsAll ==
    /\ Running /\ cpc = "learn"
    /\ mem' = [mem EXCEPT ![it] = WithType(mem[it], FieldType[obs])]
    /\ cpc' = "step"
    /\ UNCHANGED <<proc, list, dpc, target, saved, it, rec, obs, reg, anomalies,
                   reported, records, resets, served, since>>

\* Mutant: a value that is not positive is skipped before ++it.
LearnStays ==
    /\ Running /\ cpc = "learn"
    /\ mem' = [mem EXCEPT ![it] = WithType(mem[it], FieldType[obs])]
    /\ cpc' = IF rec[obs] = "positive" THEN "step" ELSE "lookup"
    /\ UNCHANGED <<proc, list, dpc, target, saved, it, rec, obs, reg, anomalies,
                   reported, records, resets, served, since>>

\* It writes the value's type into the node; callback() reads d, and drops it if it
\* is not positive.
Learn ==
    /\ Running /\ cpc = "learn"
    /\ mem' = [mem EXCEPT ![it] = WithType(mem[it], FieldType[obs])]
    /\ cpc' = IF rec[obs] = "positive" THEN "step" ELSE "advance"
    /\ UNCHANGED <<proc, list, dpc, target, saved, it, rec, obs, reg, anomalies,
                   reported, records, resets, served, since>>

\* Spot::step loads the counters of the instance.
Step ==
    /\ Running /\ cpc = "step"
    /\ reg' = [n |-> mem[it].n, al |-> mem[it].al]
    /\ cpc' = "store"
    /\ UNCHANGED <<proc, listVars, it, rec, obs, anomalies, reported, records,
                   resets, served, since>>

\* Mutant: the observation is processed but not counted.
StoreLost(alarm) ==
    /\ Running /\ cpc = "store"
    /\ alarm = 1 => MayAlarm(mem[it], reg.n + 1)
    /\ mem' = [mem EXCEPT ![it] = WithCounters(mem[it], reg.n, reg.al + alarm)]
    /\ served' = [served EXCEPT ![obs] = @ + 1]
    /\ since' = [since EXCEPT ![obs] = @ + 1]
    /\ reg' = [n |-> 0, al |-> 0]
    /\ cpc' = IF alarm = 1 THEN "report" ELSE "advance"
    /\ UNCHANGED <<proc, list, dpc, target, saved, it, rec, obs, anomalies,
                   reported, records, resets>>

\* Mutant: an alarm makes the instance start its calibration again.
StoreRestarts(alarm) ==
    /\ Running /\ cpc = "store"
    /\ alarm = 1 => MayAlarm(mem[it], reg.n + 1)
    /\ mem' = [mem EXCEPT ![it] = WithCounters(mem[it], (reg.n + 1) * (1 - alarm),
                                               reg.al + alarm)]
    /\ served' = [served EXCEPT ![obs] = @ + 1]
    /\ since' = [since EXCEPT ![obs] = @ + 1]
    /\ reg' = [n |-> 0, al |-> 0]
    /\ cpc' = IF alarm = 1 THEN "report" ELSE "advance"
    /\ UNCHANGED <<proc, list, dpc, target, saved, it, rec, obs, anomalies,
                   reported, records, resets>>

\* Spot::step stores the counters, increased by this observation, and says
\* whether it is an alarm.
Store(alarm) ==
    /\ Running /\ cpc = "store"
    /\ alarm = 1 => MayAlarm(mem[it], reg.n + 1)
    /\ mem' = [mem EXCEPT ![it] = WithCounters(mem[it], reg.n + 1, reg.al + alarm)]
    /\ served' = [served EXCEPT ![obs] = @ + 1]
    /\ since' = [since EXCEPT ![obs] = @ + 1]
    /\ reg' = [n |-> 0, al |-> 0]
    /\ cpc' = IF alarm = 1 THEN "report" ELSE "advance"
    /\ UNCHANGED <<proc, list, dpc, target, saved, it, rec, obs, anomalies,
                   reported, records, resets>>

\* An alarm: process() builds the event, callback() sends what it has got.
Report ==
    /\ Running /\ cpc = "report"
    /\ anomalies' = anomalies + 1
    /\ reported' = reported + Sent(OutEvent("spot_anomaly"))
    /\ cpc' = "advance"
    /\ UNCHANGED <<proc, listVars, it, rec, obs, reg, records, resets, served, since>>

\* The event cannot be allocated: process() throws.
ReportFails ==
    /\ EventAllocFails /\ cpc = "report"
    /\ Abort
    /\ UNCHANGED <<listVars, broVars, resets, served, since>>

\* Mutant: the loop's condition it != end() is dropped.
AdvancePastEnd ==
    /\ Running /\ cpc = "advance"
    /\ it' = After(it)
    /\ cpc' = "lookup"
    /\ UNCHANGED <<proc, listVars, rec, obs, reg, anomalies, reported, records,
                   resets, served, since>>

\* ++it, and the loop's condition.
Advance ==
    /\ Running /\ cpc = "advance"
    /\ it' = After(it)
    /\ cpc' = IF it' = End THEN "idle" ELSE "lookup"
    /\ UNCHANGED <<proc, listVars, rec, obs, reg, anomalies, reported, records,
                   resets, served, since>>

\* The access through an iterator that is no longer valid faults: always if it
\* holds no address of a node, possibly if the node's memory was freed.
Fault ==
    /\ cpc # "idle" /\ ~Listed(it)
    /\ Abort
    /\ UNCHANGED <<listVars, broVars, resets, served, since>>

BroThread ==
    \/ Lookup \/ LookupFails \/ Check \/ CheckFails \/ Learn \/ Step \/ Store(0) \/ Store(1)
    \/ Report \/ ReportFails \/ Advance \/ Fault

-----------------------------------------------------------------------------
(* The D-Bus thread, as far as it changes what the Bro thread works on.    *)

CallReset(f) ==
    /\ resets < MaxResets
    /\ ResetFind(f)
    /\ resets' = resets + 1
    /\ UNCHANGED <<proc, broVars, served, since>>

Erase ==
    /\ ResetErase
    /\ UNCHANGED <<proc, broVars, resets, served, since>>

Emplace ==
    /\ ResetEmplace
    /\ since' = [since EXCEPT ![saved.name] = 0]
    /\ UNCHANGED <<proc, broVars, resets, served>>

BusThread == (\E f \in Feature : CallReset(f)) \/ Erase \/ Emplace

\* The process ends at any point of a sweep: exit(), from a signal handler or for
\* a Kill, or an exception of main() or of the D-Bus thread.
Stop ==
    /\ Exit \/ (OthersAbort /\ Abort)
    /\ UNCHANGED <<listVars, broVars, resets, served, since>>

CallbackNext == RecordArrives \/ BroThread \/ BusThread \/ Stop

CallbackSpec == CallbackInit /\ [][CallbackNext]_callbackVars

\* Each thread is scheduled as long as it has something to do; Bro and the
\* clients of the bus owe nothing.
Fairness == WF_callbackVars(BroThread) /\ WF_callbackVars(Erase \/ Emplace)

FairCallbackSpec == CallbackSpec /\ Fairness

\* The same daemon as long as no reset overlaps a sweep: none begins while a record
\* is at hand, and no record comes before it has ended.
QuietNext ==
    \/ dpc = "none" /\ RecordArrives
    \/ BroThread
    \/ cpc = "idle" /\ \E f \in Feature : CallReset(f)
    \/ Erase \/ Emplace
    \/ Stop

QuietSpec == CallbackInit /\ [][QuietNext]_callbackVars

FairQuietSpec == QuietSpec /\ Fairness

-----------------------------------------------------------------------------
(* Properties.                                                             *)

\* Types of the variables.
CallbackTypeOK ==
    /\ proc \in ProcStates /\ ListTypeOK
    /\ cpc \in {"idle", "lookup", "check", "learn", "step", "store", "report", "advance"}
    /\ it \in Addr \cup {End, Garbage}
    /\ cpc \in {"check", "learn", "step", "store", "report", "advance"} => it \in Addr
    /\ rec \in [Feature -> Values]
    /\ obs \in Feature \cup {NoFeature}
    /\ cpc \in {"check", "learn", "step", "store"} => obs \in Feature
    /\ reg \in [n : Nat, al : Nat]
    /\ {anomalies, reported, records, resets} \subseteq Nat
    /\ served \in [Feature -> Nat] /\ since \in [Feature -> Nat]

\* Whatever the two threads do, no feature is ever lost or monitored twice:
\* the list has one node per feature, and misses only the one reset() is
\* between erasing and appending (Dispotcher::reset, README "for each selected
\* feature, bro-spotd launches a SPOT instance").
OneNodePerFeature ==
    /\ IsInjective(list)
    /\ \A i, j \in DOMAIN list : mem[list[i]].name = mem[list[j]].name => i = j
    /\ \A f \in Feature : Known(f) <=> ~(dpc = "emplace" /\ f = saved.name)

\* Resets keep what the ini file configures: every instance has the configuration of
\* its feature, at whatever moment of a sweep it was reset, whatever the Bro thread
\* writes through its iterator meanwhile (the conf that reset() copies before the
\* erase; Dispotcher::get_config).
ConfigsKept == \A i \in DOMAIN list : mem[list[i]].conf = ConfOf[mem[list[i]].name]

\* MonitoredFeature.h: "Broccoli type of the feature".  Every instance asks for the
\* type the ini file gives its feature, or where it gives none for any or for the
\* one of the feature's own field, through every reset and whatever Bro sends.
TypesKept ==
    \A i \in DOMAIN list :
        LET node == mem[list[i]]
        IN  \/ node.type = TypeOf[node.name]
            \/ TypeOf[node.name] = UnknownType /\ node.type = FieldType[node.name]

\* While callback() is at a node, that node is in the list, and the value it
\* has read is a value of the feature the node monitors.
IteratorValid ==
    Running /\ cpc # "idle" =>
        /\ Listed(it)
        /\ cpc \in {"check", "learn", "step", "store", "report"} => mem[it].name = obs

\* Dispotcher.h: "dispatch input data to the correct MonitoredFeature
\* instance".  When callback() returns, every positive value of the record has
\* been fed to SPOT once, and no other.
ServedOnce ==
    Running /\ cpc = "idle" =>
        \A f \in Feature : served[f] = IF rec[f] = "positive" THEN 1 ELSE 0

\* The n of every instance is the number of values of its feature since the
\* instance was made: no observation is lost, doubled or given to another
\* feature's instance, and a reset starts from zero.
CountsSinceReset ==
    Running => \A i \in DOMAIN list :
                  mem[list[i]].n = since[mem[list[i]].name]

\* README: "When a SPOT instance detect an abnormal value, it triggers an event
\* which will be logged by Bro".  Every event process() builds is accepted.
AnomaliesReported == Running => reported = anomalies

\* The daemon never goes down by itself.
NeverAborts == proc # "aborted"

\* Every sweep ends, or the process does, as long as clients ask for finitely many
\* resets: however often a reset moves a feature to the end of the list, or gives
\* the Bro thread's node to another feature, the loop meets end() at last.
SweepEnds == cpc # "idle" ~> (cpc = "idle" \/ ~Running)

\* What the two threads implement while no reset overlaps a sweep: Monitor.
\* The instance of a feature that reset() has erased counts nothing.
Seen == [f \in Feature |->
           IF Known(f)
           THEN mem[list[CHOOSE i \in DOMAIN list : FoundAt(f, i)]].n
           ELSE 0]

Pending == {f \in Feature : rec[f] = "positive" /\ served[f] = 0}

Abstract == INSTANCE Monitor WITH seen <- Seen, pending <- Pending, up <- Running

\* The walk over the list, with its iterator and its counters in registers, and
\* reset(), with its erase and its append, are the atomic observations and the
\* atomic forgetting of Monitor; each record is worked off while the process
\* lives.
MonitorImplemented == Abstract!MonitorSpec
=============================================================================
