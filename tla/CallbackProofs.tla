--------------------------- MODULE CallbackProofs ---------------------------
(***************************************************************************)
(* Proofs about Callback, for any features, addresses, configurations and  *)
(* records and for any interleaving of the two threads.                    *)
(***************************************************************************)
EXTENDS Callback, DispotcherProofs

-----------------------------------------------------------------------------
(* Lemmas about the operators.                                             *)

\* The libraries leave a node a node, and change nothing but its type, or its
\* counters.
LEMMA WithTypeNode ==
    ASSUME NEW node \in Node, NEW t \in BroType
    PROVE  /\ WithType(node, t) \in Node
           /\ WithType(node, t).type = t
           /\ WithType(node, t).name = node.name
           /\ WithType(node, t).conf = node.conf
           /\ WithType(node, t).n = node.n
           /\ WithType(node, t).al = node.al
BY DEF WithType, Node

LEMMA WithCountersNode ==
    ASSUME NEW node \in Node, NEW n \in Nat, NEW al \in Nat
    PROVE  /\ WithCounters(node, n, al) \in Node
           /\ WithCounters(node, n, al).type = node.type
           /\ WithCounters(node, n, al).name = node.name
           /\ WithCounters(node, n, al).conf = node.conf
           /\ WithCounters(node, n, al).n = n
           /\ WithCounters(node, n, al).al = al
BY DEF WithCounters, Node

\* What Learn leaves in memory: one node of another type, perhaps.
LEMMA LearnWrites ==
    ASSUME CallbackTypeOK, Learn
    PROVE  /\ it \in Addr /\ obs \in Feature /\ mem \in [Addr -> Node]
           /\ mem' \in [Addr -> Node]
           /\ mem'[it].type = FieldType[obs]
           /\ \A a \in Addr : /\ mem'[a].name = mem[a].name
                              /\ mem'[a].conf = mem[a].conf
                              /\ mem'[a].n = mem[a].n
                              /\ mem'[a].al = mem[a].al
                              /\ a # it => mem'[a].type = mem[a].type
<1> DEFINE node == WithType(mem[it], FieldType[obs])
<1>1. /\ it \in Addr /\ obs \in Feature /\ mem \in [Addr -> Node]
      /\ mem' = [mem EXCEPT ![it] = node]
  BY DEF Learn, CallbackTypeOK, ListTypeOK
<1>2. FieldType[obs] \in BroType /\ mem[it] \in Node
  BY <1>1, CallbackAssumption
<1>3. /\ node \in Node /\ node.type = FieldType[obs] /\ node.name = mem[it].name
      /\ node.conf = mem[it].conf /\ node.n = mem[it].n /\ node.al = mem[it].al
  BY <1>2, WithTypeNode
<1> HIDE DEF node
<1>4. \A a \in Addr : mem'[a] = IF a = it THEN node ELSE mem[a]
  BY <1>1
<1> QED BY <1>1, <1>3, <1>4

-----------------------------------------------------------------------------
(* Type correctness.                                                       *)

LEMMA TypeInit == CallbackInit => CallbackTypeOK
<1> SUFFICES ASSUME CallbackInit PROVE CallbackTypeOK
  OBVIOUS
<1> USE DispotcherAssumption, CallbackAssumption
<1>1. ListTypeOK
  BY ListTypeInit DEF CallbackInit
<1>2. proc \in ProcStates
  BY DEF CallbackInit, DispotcherInit, ProcStates
<1>3. /\ cpc = "idle" /\ it = End /\ obs = NoFeature
      /\ rec \in [Feature -> Values] /\ reg \in [n : Nat, al : Nat]
      /\ {anomalies, reported, records, resets} \subseteq Nat
      /\ served \in [Feature -> Nat] /\ since \in [Feature -> Nat]
  BY DEF CallbackInit, Values
<1> QED BY <1>1, <1>2, <1>3 DEF CallbackTypeOK

LEMMA TypeStep == CallbackTypeOK /\ [CallbackNext]_callbackVars => CallbackTypeOK'
<1> SUFFICES ASSUME CallbackTypeOK, [CallbackNext]_callbackVars PROVE CallbackTypeOK'
  OBVIOUS
<1> USE DEF ListTypeOK
<1>0. /\ list \in Seq(Addr) /\ mem \in [Addr -> Node]
      /\ reg \in [n : Nat, al : Nat]
      /\ served \in [Feature -> Nat] /\ since \in [Feature -> Nat]
      /\ anomalies \in Nat /\ reported \in Nat /\ records \in Nat /\ resets \in Nat
  BY DEF CallbackTypeOK
<1>1. CASE RecordArrives
  <2>1. /\ it' = Begin /\ rec' \in Records /\ records' = records + 1
        /\ cpc' = (IF it' = End THEN "idle" ELSE "lookup")
        /\ served' = [f \in Feature |-> 0]
        /\ UNCHANGED <<proc, list, mem, dpc, target, saved, obs, reg, anomalies,
                       reported, resets, since>>
    BY <1>1 DEF RecordArrives, listVars
  <2>2. it' \in Addr \cup {End} /\ rec' \in [Feature -> Values]
        /\ records' \in Nat /\ served' \in [Feature -> Nat]
        /\ cpc' \in {"idle", "lookup"}
    BY <1>0, <2>1, BeginType, CallbackAssumption
  <2> QED BY <2>1, <2>2 DEF CallbackTypeOK
<1>2. CASE Lookup
  <2>1. /\ it \in Addr /\ obs' \in Feature /\ cpc' = "check"
        /\ UNCHANGED <<proc, list, mem, dpc, target, saved, it, rec, reg, anomalies,
                       reported, records, resets, served, since>>
    BY <1>2 DEF Lookup, listVars
  <2> QED BY <2>1 DEF CallbackTypeOK
<1>3. CASE LookupFails \/ CheckFails
  BY <1>3 DEF LookupFails, CheckFails, Abort, CallbackTypeOK, ProcStates, listVars,
     broVars
<1>4. CASE Check
  <2>1. /\ cpc = "check" /\ cpc' = "learn"
        /\ UNCHANGED <<proc, list, mem, dpc, target, saved, it, rec, obs, reg,
                       anomalies, reported, records, resets, served, since>>
    BY <1>4 DEF Check, listVars
  <2> QED BY <2>1 DEF CallbackTypeOK
<1>5. CASE Learn
  <2>1. /\ cpc = "learn" /\ cpc' \in {"step", "advance"}
        /\ UNCHANGED <<proc, list, dpc, target, saved, it, rec, obs, reg, anomalies,
                       reported, records, resets, served, since>>
    BY <1>5 DEF Learn
  <2> QED BY <1>5, <2>1, LearnWrites DEF CallbackTypeOK
<1>6. CASE Step
  <2>1. /\ cpc = "step" /\ cpc' = "store"
        /\ reg' = [n |-> mem[it].n, al |-> mem[it].al]
        /\ UNCHANGED <<proc, list, mem, dpc, target, saved, it, rec, obs, anomalies,
                       reported, records, resets, served, since>>
    BY <1>6 DEF Step, listVars
  <2>2. it \in Addr /\ obs \in Feature
    BY <2>1 DEF CallbackTypeOK
  <2>3. reg' \in [n : Nat, al : Nat]
    BY <1>0, <2>1, <2>2 DEF Node
  <2> QED BY <2>1, <2>2, <2>3 DEF CallbackTypeOK
<1>7. ASSUME NEW alarm \in {0, 1}, Store(alarm) PROVE CallbackTypeOK'
  <2>1. /\ cpc = "store" /\ cpc' \in {"report", "advance"}
        /\ mem' = [mem EXCEPT ![it] =
                     WithCounters(mem[it], reg.n + 1, reg.al + alarm)]
        /\ served' = [served EXCEPT ![obs] = served[obs] + 1]
        /\ since' = [since EXCEPT ![obs] = since[obs] + 1]
        /\ reg' = [n |-> 0, al |-> 0]
        /\ UNCHANGED <<proc, list, dpc, target, saved, it, rec, obs, anomalies,
                       reported, records, resets>>
    BY <1>7 DEF Store
  <2>2. it \in Addr /\ obs \in Feature
    BY <2>1 DEF CallbackTypeOK
  <2>3. mem' \in [Addr -> Node]
    <3>1. reg.n + 1 \in Nat /\ reg.al + alarm \in Nat
      BY <1>0
    <3> QED BY <1>0, <2>1, <2>2, <3>1, WithCountersNode
  <2>4. served' \in [Feature -> Nat] /\ since' \in [Feature -> Nat]
    <3>1. served[obs] + 1 \in Nat /\ since[obs] + 1 \in Nat
      BY <1>0, <2>2
    <3> QED BY <1>0, <2>1, <3>1
  <2> QED BY <2>1, <2>2, <2>3, <2>4 DEF CallbackTypeOK
<1>8. CASE Report
  <2>1. /\ cpc = "report" /\ cpc' = "advance"
        /\ anomalies' = anomalies + 1
        /\ reported' = reported + Sent(OutEvent("spot_anomaly"))
        /\ UNCHANGED <<proc, list, mem, dpc, target, saved, it, rec, obs, reg,
                       records, resets, served, since>>
    BY <1>8 DEF Report, listVars
  <2>2. anomalies' \in Nat /\ reported' \in Nat
    BY <1>0, <2>1 DEF Sent
  <2> QED BY <2>1, <2>2 DEF CallbackTypeOK
<1>9. CASE ReportFails
  BY <1>9 DEF ReportFails, Abort, CallbackTypeOK, ProcStates, listVars, broVars
<1>10. CASE Advance
  <2>1. /\ it' = After(it) /\ cpc' \in {"idle", "lookup"}
        /\ UNCHANGED <<proc, list, mem, dpc, target, saved, rec, obs, reg,
                       anomalies, reported, records, resets, served, since>>
    BY <1>10 DEF Advance, listVars
  <2>2. it' \in Addr \cup {End, Garbage}
    BY <1>0, <2>1, AfterType
  <2> QED BY <2>1, <2>2 DEF CallbackTypeOK
<1>11. CASE Fault
  BY <1>11 DEF Fault, Abort, CallbackTypeOK, ProcStates, listVars, broVars
<1> HIDE DEF ListTypeOK
<1>12. ASSUME NEW f \in Feature, CallReset(f) PROVE CallbackTypeOK'
  <2>1. ListTypeOK'
    BY <1>12, ListTypeFind DEF CallReset, CallbackTypeOK
  <2>2. resets' = resets + 1 /\ UNCHANGED <<proc, broVars, served, since>>
    BY <1>12 DEF CallReset
  <2> QED BY <1>0, <2>1, <2>2 DEF CallbackTypeOK, broVars
<1>13. CASE Erase
  <2>1. ListTypeOK'
    BY <1>13, ListTypeErase DEF Erase, CallbackTypeOK
  <2> QED BY <1>13, <2>1 DEF Erase, CallbackTypeOK, broVars
<1>14. CASE Emplace
  <2>1. ListTypeOK'
    BY <1>14, ListTypeEmplace DEF Emplace, CallbackTypeOK
  <2>2. /\ since' = [since EXCEPT ![saved.name] = 0]
        /\ UNCHANGED <<proc, broVars, resets, served>>
    BY <1>14 DEF Emplace
  <2>3. since' \in [Feature -> Nat]
    BY <1>0, <2>2
  <2> QED BY <2>1, <2>2, <2>3 DEF CallbackTypeOK, broVars
<1>15. CASE Stop
  BY <1>15 DEF Stop, Exit, Abort, CallbackTypeOK, ListTypeOK, ProcStates, listVars, broVars
<1>16. CASE UNCHANGED callbackVars
  BY <1>16 DEF callbackVars, CallbackTypeOK, ListTypeOK, listVars, broVars
<1> QED
  BY <1>1, <1>2, <1>3, <1>4, <1>5, <1>6, <1>7, <1>8, <1>9, <1>10, <1>11, <1>12,
     <1>13, <1>14, <1>15, <1>16 DEF CallbackNext, BroThread, BusThread

\* Every variable keeps its type, whatever the threads do: in particular the Bro
\* thread writes only into addresses, even when what it writes to was freed.
THEOREM TypeCorrect == CallbackSpec => []CallbackTypeOK
<1>1. CallbackInit => CallbackTypeOK
  BY TypeInit
<1>2. CallbackTypeOK /\ [CallbackNext]_callbackVars => CallbackTypeOK'
  BY TypeStep
<1> QED BY <1>1, <1>2, PTL DEF CallbackSpec

-----------------------------------------------------------------------------
(* The list of features.                                                   *)

\* The list's invariant, as long as the types written are among those the features
\* may learn: a sweep writes nothing else, even through an iterator that is no longer
\* valid.
LEMMA InvStep ==
    ASSUME NEW learnt, CallbackTypeOK, ListInv(learnt), [CallbackNext]_callbackVars,
           Learn /\ mem[it].name \in Feature =>
              \/ mem[it].type = FieldType[obs]
              \/ FieldType[obs] \in learnt[mem[it].name]
    PROVE  ListInv(learnt)'
<1>00. ListTypeOK
  BY DEF CallbackTypeOK
<1> DEFINE Still == UNCHANGED <<list, mem, dpc, target, saved>>
<1>0. ASSUME Still PROVE ListInv(learnt)'
  BY <1>0, <1>00, ListInvFrame
<1>1. CASE RecordArrives
  BY <1>0, <1>1 DEF RecordArrives, listVars
<1>2. CASE Learn
  <2>1. UNCHANGED <<list, dpc, target, saved>>
    BY <1>2 DEF Learn
  <2>2. /\ it \in Addr /\ mem'[it].type = FieldType[obs]
        /\ \A a \in Addr : /\ mem'[a].name = mem[a].name
                           /\ mem'[a].conf = mem[a].conf
                           /\ a # it => mem'[a].type = mem[a].type
    BY <1>2, LearnWrites
  <2>3. \A a \in Addr : mem[a].name \in Feature =>
            mem'[a].type = mem[a].type \/ mem'[a].type \in learnt[mem[a].name]
    BY <1>2, <2>2
  <2> QED BY <1>00, <2>1, <2>2, <2>3, ListInvFrame
<1>3. CASE Lookup \/ LookupFails \/ Check \/ CheckFails
  BY <1>0, <1>3 DEF Lookup, LookupFails, Check, CheckFails, listVars
<1>4. CASE Step
  BY <1>0, <1>4 DEF Step, listVars
<1>5. ASSUME NEW alarm \in {0, 1}, Store(alarm) PROVE ListInv(learnt)'
  <2> DEFINE node == WithCounters(mem[it], reg.n + 1, reg.al + alarm)
  <2>1. /\ mem' = [mem EXCEPT ![it] = node]
        /\ UNCHANGED <<list, dpc, target, saved>>
    BY <1>5 DEF Store
  <2>2. mem \in [Addr -> Node] /\ it \in Addr
    BY <1>5 DEF CallbackTypeOK, ListTypeOK, Store
  <2>3. reg.n + 1 \in Nat /\ reg.al + alarm \in Nat
    <3>1. reg \in [n : Nat, al : Nat]
      BY DEF CallbackTypeOK, ListTypeOK
    <3>2. reg.n \in Nat /\ reg.al \in Nat /\ alarm \in Nat
      BY <3>1
    <3> QED BY <3>2
  <2>4. mem[it] \in Node
    BY <2>2
  <2>5. /\ node.name = mem[it].name /\ node.conf = mem[it].conf
        /\ node.type = mem[it].type
    <3> DEFINE n == reg.n + 1
               al == reg.al + alarm
    <3>1. n \in Nat /\ al \in Nat /\ mem[it] \in Node
      BY <2>3, <2>4
    <3> HIDE DEF n, al, node
    <3>2. /\ WithCounters(mem[it], n, al).name = mem[it].name
          /\ WithCounters(mem[it], n, al).conf = mem[it].conf
          /\ WithCounters(mem[it], n, al).type = mem[it].type
      BY <3>1, WithCountersNode
    <3> QED BY <3>2 DEF n, al, node
  <2> HIDE DEF node
  <2>6. \A a \in Addr : /\ mem'[a].name = mem[a].name
                        /\ mem'[a].conf = mem[a].conf
                        /\ mem'[a].type = mem[a].type
    BY <2>1, <2>2, <2>5
  <2> QED BY <1>00, <2>1, <2>6, ListInvFrame
<1>6. CASE Report
  BY <1>0, <1>6 DEF Report, listVars
<1>7. CASE ReportFails
  BY <1>0, <1>7 DEF ReportFails, listVars
<1>8. CASE Advance
  BY <1>0, <1>8 DEF Advance, listVars
<1>9. CASE Fault
  BY <1>0, <1>9 DEF Fault, listVars
<1>10. ASSUME NEW f \in Feature, CallReset(f) PROVE ListInv(learnt)'
  BY <1>00, <1>10, ListInvFind DEF CallReset
<1>11. CASE Erase
  BY <1>00, <1>11, ListInvErase DEF Erase
<1>12. CASE Emplace
  BY <1>00, <1>12, ListInvEmplace DEF Emplace
<1>13. CASE Stop
  BY <1>0, <1>13 DEF Stop, listVars
<1>14. CASE UNCHANGED callbackVars
  BY <1>0, <1>14 DEF callbackVars, listVars
<1> QED
  BY <1>1, <1>2, <1>3, <1>4, <1>5, <1>6, <1>7, <1>8, <1>9, <1>10, <1>11, <1>12,
     <1>13, <1>14 DEF CallbackNext, BroThread, BusThread

\* Under any interleaving a feature may end up with any type: one that was found for
\* another feature is written into its node, if reset() gave it the other's address
\* meanwhile.
AnyType == [f \in Feature |-> BroType]

\* The inductive invariant: every step keeps it.
LEMMA AnyStep ==
    ASSUME CallbackTypeOK, ListInv(AnyType), [CallbackNext]_callbackVars
    PROVE  ListInv(AnyType)'
<1>1. Learn /\ mem[it].name \in Feature => FieldType[obs] \in AnyType[mem[it].name]
  BY LearnWrites, CallbackAssumption DEF AnyType
<1> QED BY <1>1, InvStep

LEMMA InvCorrect == CallbackSpec => [](CallbackTypeOK /\ ListInv(AnyType))
<1>1. CallbackInit => CallbackTypeOK /\ ListInv(AnyType)
  BY TypeInit, ListInvInit DEF CallbackInit
<1>2. CallbackTypeOK /\ ListInv(AnyType) /\ [CallbackNext]_callbackVars
        => CallbackTypeOK' /\ ListInv(AnyType)'
  BY TypeStep, AnyStep
<1> QED BY <1>1, <1>2, PTL DEF CallbackSpec

\* No interleaving of sweeps and resets loses a feature or lists one twice, for
\* any number of features, resets and records (Dispotcher::reset).
THEOREM FeaturesCorrect == CallbackSpec => []OneNodePerFeature
<1>1. ListInv(AnyType) => OneNodePerFeature
  BY DEF ListInv, NamesInv, Gone, OneNodePerFeature, IsInjective
<1> QED BY <1>1, InvCorrect, PTL

\* No interleaving of sweeps and resets gives a feature's instance a configuration
\* that is not the ini file's for it (Dispotcher::reset, Dispotcher::get_config).
THEOREM ConfigsCorrect == CallbackSpec => []ConfigsKept
<1>1. ListInv(AnyType) => ConfigsKept
  BY DEF ListInv, SettingsInv, Own, ConfigsKept
<1> QED BY <1>1, InvCorrect, PTL

-----------------------------------------------------------------------------
(* The measure behind SweepEnds.                                           *)

Position(a) == CHOOSE i \in DOMAIN list : list[i] = a

\* The nodes a sweep has before it; an iterator to a freed node leads nowhere, unless
\* the address is used again for the last node.
ToVisit ==
    IF Listed(it) THEN Len(list) - Position(it) + 1
    ELSE IF it \in Addr THEN 1 ELSE 0

\* The steps it may take at a node.
StepsAt == [idle |-> 0, advance |-> 1, report |-> 2, store |-> 3, step |-> 4, learn |-> 5,
            check |-> 6, lookup |-> 7]

\* A reset that has begun may still append a node.
ResetsLeft == MaxResets - resets + (IF dpc = "none" THEN 0 ELSE 1)

SweepLeft == 8 * ResetsLeft + 7 * ToVisit + StepsAt[cpc]

ResetsInv == resets <= MaxResets

\* The addresses in the list are different.
LEMMA Different ==
    ASSUME NamesInv
    PROVE  \A i, j \in DOMAIN list : list[i] = list[j] => i = j
BY DEF NamesInv

LEMMA ToVisitAt ==
    ASSUME list \in Seq(Addr), NamesInv, NEW pos \in DOMAIN list, it = list[pos]
    PROVE  /\ ToVisit = Len(list) - pos + 1 /\ Listed(it)
           /\ pos \in 1..Len(list) /\ Len(list) \in Nat
<1>1. Listed(it)
  BY DEF Listed, Range
<1>2. Position(it) = pos
  BY Different DEF Position
<1>3. pos \in 1..Len(list) /\ Len(list) \in Nat
  BY LenProperties
<1> QED BY <1>1, <1>2, <1>3 DEF ToVisit

LEMMA ToVisitType ==
    ASSUME list \in Seq(Addr), NamesInv
    PROVE  ToVisit \in Nat /\ (it \in Addr => ToVisit >= 1)
<1>1. CASE Listed(it)
  <2>1. PICK pos \in DOMAIN list : it = list[pos]
    BY <1>1 DEF Listed, Range
  <2> QED BY <2>1, ToVisitAt
<1>2. CASE ~Listed(it)
  BY <1>2 DEF ToVisit
<1> QED BY <1>1, <1>2

LEMMA SweepLeftType ==
    ASSUME CallbackTypeOK, NamesInv, ResetsInv
    PROVE  /\ SweepLeft \in Nat /\ ResetsLeft \in Nat /\ ToVisit \in Nat
           /\ StepsAt[cpc] \in Nat
<1>1. ToVisit \in Nat
  BY ToVisitType DEF CallbackTypeOK, ListTypeOK
<1>2. ResetsLeft \in Nat
  BY CallbackAssumption DEF CallbackTypeOK, ResetsInv, ResetsLeft
<1>3. StepsAt[cpc] \in Nat
  BY DEF CallbackTypeOK, StepsAt
<1> QED BY <1>1, <1>2, <1>3 DEF SweepLeft

\* A step of the loop at one node.
LEMMA NodeShrinks ==
    ASSUME CallbackTypeOK, NamesInv, ResetsInv,
           Lookup \/ Check \/ Learn \/ Step \/ Store(0) \/ Store(1) \/ Report
    PROVE  SweepLeft' < SweepLeft
<1>1. UNCHANGED <<list, dpc, it, resets>> /\ StepsAt[cpc'] < StepsAt[cpc]
      /\ StepsAt[cpc'] \in Nat
  BY DEF Lookup, Check, Learn, Step, Store, Report, listVars, StepsAt
<1>2. ToVisit' = ToVisit /\ ResetsLeft' = ResetsLeft
  BY <1>1 DEF ToVisit, Position, Listed, ResetsLeft
<1>3. SweepLeft' = 8 * ResetsLeft + 7 * ToVisit + StepsAt[cpc']
  BY <1>2 DEF SweepLeft
<1> QED BY <1>1, <1>3, SweepLeftType DEF SweepLeft

\* ++it.
LEMMA AdvanceShrinks ==
    ASSUME CallbackTypeOK, NamesInv, ResetsInv, Advance, cpc' # "idle"
    PROVE  SweepLeft' < SweepLeft
<1>1. /\ list \in Seq(Addr) /\ it \in Addr /\ cpc = "advance"
      /\ UNCHANGED <<list, dpc, resets>>
      /\ it' = After(it) /\ cpc' = "lookup" /\ it' # End
  BY DEF CallbackTypeOK, ListTypeOK, Advance, listVars
<1>2. ResetsLeft' = ResetsLeft /\ StepsAt[cpc] = 1 /\ StepsAt[cpc'] = 7
  BY <1>1 DEF ResetsLeft, StepsAt
<1>3. ToVisit' = ToVisit - 1
  <2>1. CASE Listed(it)
    <3>1. PICK pos \in DOMAIN list : it = list[pos]
      BY <2>1 DEF Listed, Range
    <3>2. ToVisit = Len(list) - pos + 1 /\ pos \in 1..Len(list) /\ Len(list) \in Nat
      BY <1>1, <3>1, ToVisitAt
    <3>3. pos # Len(list) /\ pos + 1 \in DOMAIN list /\ it' = list[pos + 1]
      BY <1>1, <3>1, AfterNext, Different
    <3>4. Listed(it') /\ (CHOOSE i \in DOMAIN list : list[i] = it') = pos + 1
      BY <3>3, Different DEF Listed, Range
    <3>5. ToVisit' = Len(list) - (pos + 1) + 1
      BY <1>1, <3>4 DEF ToVisit, Position, Listed
    <3> QED BY <3>2, <3>5
  <2>2. CASE ~Listed(it)
    <3>1. it' = Garbage /\ it' \notin Addr
      BY <1>1, <2>2, DispotcherAssumption DEF After
    <3>2. ~Listed(it')
      BY <1>1, <3>1, LenProperties DEF Listed, Range
    <3>3. ToVisit = 1 /\ ToVisit' = 0
      BY <1>1, <2>2, <3>1, <3>2 DEF ToVisit, Listed
    <3> QED BY <3>3
  <2> QED BY <2>1, <2>2
<1>4. SweepLeft' = 8 * ResetsLeft + 7 * ToVisit' + 7
  BY <1>2 DEF SweepLeft
<1> QED BY <1>2, <1>3, <1>4, SweepLeftType DEF SweepLeft

\* A node is erased: before the sweep's, at it, or behind it.
LEMMA EraseShrinks ==
    ASSUME CallbackTypeOK, NamesInv, NamesInv', ResetsInv, Erase
    PROVE  SweepLeft' <= SweepLeft
<1>1. /\ list \in Seq(Addr) /\ dpc = "erase" /\ dpc' = "emplace"
      /\ UNCHANGED <<it, cpc, resets>>
  BY DEF CallbackTypeOK, ListTypeOK, Erase, ResetErase, broVars
<1>2. PICK i \in DOMAIN list : list' = RemoveAt(list, i)
  BY DEF Erase, ResetErase
<1>3. /\ i \in 1..Len(list) /\ Len(list) \in Nat /\ DOMAIN list = 1..Len(list)
      /\ list' \in Seq(Addr) /\ Len(list') = Len(list) - 1
      /\ \A j \in 1..(Len(list) - 1) : list'[j] = IF j < i THEN list[j] ELSE list[j + 1]
  BY <1>1, <1>2, LenProperties, RemoveAtElements
<1>4. DOMAIN list' = 1..(Len(list) - 1)
  BY <1>3, LenProperties
<1>5. ToVisit' <= ToVisit /\ ToVisit' \in Nat
  <2>0. ToVisit \in Nat /\ (it \in Addr => ToVisit >= 1)
    BY <1>1, ToVisitType
  <2>1. ASSUME NEW k \in DOMAIN list', it = list'[k]
        PROVE  ToVisit' <= ToVisit /\ ToVisit' \in Nat
    <3>1. (CHOOSE j \in DOMAIN list' : list'[j] = it') = k /\ Listed(it)'
      BY <1>1, <2>1 DEF NamesInv, Listed, Range
    <3>2. ToVisit' = Len(list) - k
      <4>1. ToVisit' = Len(list') - k + 1
        BY <3>1 DEF ToVisit, Position
      <4> QED BY <1>3, <1>4, <2>1, <4>1
    <3>3. PICK pos \in DOMAIN list : it = list[pos] /\ pos \in {k, k + 1}
      <4>1. k \in 1..(Len(list) - 1) /\ k \in DOMAIN list /\ k + 1 \in DOMAIN list
        BY <1>3, <1>4, <2>1
      <4> QED BY <1>3, <2>1, <4>1
    <3>4. ToVisit = Len(list) - pos + 1
      BY <1>1, <3>3, ToVisitAt
    <3> QED BY <1>3, <1>4, <2>1, <3>2, <3>3, <3>4
  <2>2. CASE \A k \in DOMAIN list' : it # list'[k]
    <3>1. ~Listed(it)'
      BY <1>1, <2>2 DEF Listed, Range
    <3>2. ToVisit' = IF it \in Addr THEN 1 ELSE 0
      BY <1>1, <3>1 DEF ToVisit
    <3> QED BY <2>0, <3>2
  <2> QED BY <2>1, <2>2
<1>6. ResetsLeft' = ResetsLeft
  BY <1>1 DEF ResetsLeft
<1>7. SweepLeft' = 8 * ResetsLeft + 7 * ToVisit' + StepsAt[cpc]
  BY <1>1, <1>6 DEF SweepLeft
<1> QED BY <1>5, <1>7, SweepLeftType DEF SweepLeft

\* A node is appended: the sweep has one more to visit at most, and one reset less
\* to expect.
LEMMA EmplaceShrinks ==
    ASSUME CallbackTypeOK, NamesInv, NamesInv', ResetsInv, Emplace
    PROVE  SweepLeft' < SweepLeft
<1>1. /\ list \in Seq(Addr) /\ dpc = "emplace" /\ dpc' = "none"
      /\ UNCHANGED <<it, cpc, resets>>
  BY DEF CallbackTypeOK, ListTypeOK, Emplace, ResetEmplace, broVars
<1>2. PICK a \in Addr : list' = Append(list, a)
  BY DEF Emplace, ResetEmplace
<1>3. /\ Len(list) \in Nat /\ DOMAIN list = 1..Len(list)
      /\ Len(list') = Len(list) + 1 /\ DOMAIN list' = 1..(Len(list) + 1)
      /\ list'[Len(list) + 1] = a
      /\ \A j \in 1..Len(list) : list'[j] = list[j]
  BY <1>1, <1>2, LenProperties, AppendProperties
<1>4. ToVisit' <= ToVisit + 1 /\ ToVisit' \in Nat
  <2>0. ToVisit \in Nat /\ (it \in Addr => ToVisit >= 1)
    BY <1>1, ToVisitType
  <2>1. ASSUME NEW k \in DOMAIN list', it = list'[k]
        PROVE  ToVisit' = Len(list) - k + 2
    <3>1. (CHOOSE j \in DOMAIN list' : list'[j] = it') = k /\ Listed(it)'
      BY <1>1, <2>1 DEF NamesInv, Listed, Range
    <3>2. ToVisit' = Len(list') - k + 1
      BY <3>1 DEF ToVisit, Position
    <3> QED BY <1>3, <2>1, <3>2
  <2>2. ASSUME NEW k \in DOMAIN list, it = list[k]
        PROVE  ToVisit' <= ToVisit + 1 /\ ToVisit' \in Nat
    <3>1. ToVisit = Len(list) - k + 1
      BY <1>1, <2>2, ToVisitAt
    <3>2. ToVisit' = Len(list) - k + 2
      BY <1>3, <2>1, <2>2
    <3> QED BY <1>3, <2>2, <3>1, <3>2
  <2>3. CASE it = a
    <3>1. ToVisit' = 1
      BY <1>3, <2>1, <2>3
    <3> QED BY <2>0, <3>1
  <2>4. CASE it # a /\ \A k \in DOMAIN list : it # list[k]
    <3>1. \A k \in DOMAIN list' : it # list'[k]
      BY <1>3, <2>4
    <3>2. ~Listed(it)'
      BY <1>1, <3>1 DEF Listed, Range
    <3>3. ToVisit' = IF it \in Addr THEN 1 ELSE 0
      BY <1>1, <3>2 DEF ToVisit
    <3> QED BY <2>0, <3>3
  <2> QED BY <2>2, <2>3, <2>4
<1>5. ResetsLeft' = ResetsLeft - 1
  <2>1. MaxResets \in Nat /\ resets \in Nat
    BY CallbackAssumption DEF CallbackTypeOK
  <2> QED BY <1>1, <2>1 DEF ResetsLeft
<1>6. SweepLeft' = 8 * ResetsLeft' + 7 * ToVisit' + StepsAt[cpc]
  BY <1>1 DEF SweepLeft
<1> QED BY <1>4, <1>5, <1>6, SweepLeftType DEF SweepLeft

\* The steps that leave the sweep where it is.
LEMMA SweepStays ==
    ASSUME CallbackTypeOK,
           \/ LookupFails \/ CheckFails \/ ReportFails \/ Fault \/ Stop
           \/ \E f \in Feature : CallReset(f)
           \/ UNCHANGED callbackVars
    PROVE  SweepLeft' = SweepLeft
<1>1. UNCHANGED <<list, it, cpc>>
  BY DEF LookupFails, CheckFails, ReportFails, Fault, Stop, CallReset, ResetFind, listVars,
         broVars, callbackVars
<1>2. ToVisit' = ToVisit
  BY <1>1 DEF ToVisit, Position, Listed
<1>3. ResetsLeft' = ResetsLeft
  <2>1. CASE \E f \in Feature : CallReset(f)
    <3>1. dpc = "none" /\ dpc' = "erase" /\ resets' = resets + 1
      BY <2>1 DEF CallReset, ResetFind
    <3>2. MaxResets \in Nat /\ resets \in Nat
      BY CallbackAssumption DEF CallbackTypeOK
    <3> QED BY <3>1, <3>2 DEF ResetsLeft
  <2>2. CASE ~\E f \in Feature : CallReset(f)
    <3>1. UNCHANGED <<dpc, resets>>
      BY <2>2 DEF LookupFails, CheckFails, ReportFails, Fault, Stop, listVars, callbackVars
    <3> QED BY <3>1 DEF ResetsLeft
  <2> QED BY <2>1, <2>2
<1> QED BY <1>1, <1>2, <1>3 DEF SweepLeft

\* No more resets are begun than the bound says.
LEMMA ResetsBounded ==
    ASSUME CallbackTypeOK, ResetsInv, [CallbackNext]_callbackVars
    PROVE  ResetsInv'
<1>1. MaxResets \in Nat /\ resets \in Nat
  BY CallbackAssumption DEF CallbackTypeOK
<1>2. CASE \E f \in Feature : CallReset(f)
  BY <1>1, <1>2 DEF CallReset, ResetsInv
<1>3. CASE ~\E f \in Feature : CallReset(f)
  <2>1. resets' = resets
    BY <1>3 DEF CallbackNext, RecordArrives, BroThread, BusThread, Lookup, LookupFails,
                Check, CheckFails, Learn, Step, Store, Report, ReportFails, Advance, Fault,
                Erase, Emplace, Stop, callbackVars
  <2> QED BY <2>1 DEF ResetsInv
<1> QED BY <1>2, <1>3

\* What every step does to the measure while a record is at hand.
SweepOn ==
    cpc # "idle" /\ cpc' # "idle" =>
        /\ SweepLeft' \in Nat /\ SweepLeft' <= SweepLeft
        /\ BroThread /\ Running' => SweepLeft' < SweepLeft

LEMMA SweepStep ==
    ASSUME CallbackTypeOK, NamesInv, NamesInv', ResetsInv, SweepLeft' \in Nat,
           [CallbackNext]_callbackVars
    PROVE  SweepOn
<1> SUFFICES ASSUME cpc # "idle", cpc' # "idle"
             PROVE  /\ SweepLeft' <= SweepLeft
                    /\ BroThread /\ Running' => SweepLeft' < SweepLeft
  BY DEF SweepOn
<1> DEFINE Walks == Lookup \/ Check \/ Learn \/ Step \/ Store(0) \/ Store(1) \/ Report
                    \/ Advance
           Breaks == LookupFails \/ CheckFails \/ ReportFails \/ Fault
<1>1. SweepLeft \in Nat
  BY SweepLeftType
<1>2. ASSUME Walks
      PROVE  SweepLeft' < SweepLeft
  BY <1>2, NodeShrinks, AdvanceShrinks
<1>3. CASE Walks
  BY <1>1, <1>2, <1>3
<1>4. CASE Emplace
  BY <1>1, <1>4, EmplaceShrinks
<1>5. ASSUME Breaks PROVE ~Running'
  BY <1>5 DEF LookupFails, CheckFails, ReportFails, Fault, Abort, Running
<1>6. CASE Breaks
  BY <1>1, <1>5, <1>6, SweepStays
<1>7. CASE Erase \/ Stop \/ (\E f \in Feature : CallReset(f)) \/ UNCHANGED callbackVars
  <2>1. SweepLeft' <= SweepLeft
    BY <1>1, <1>7, EraseShrinks, SweepStays
  <2>2. CASE Walks
    BY <1>3, <2>2
  <2>3. CASE Breaks
    BY <1>6, <2>3
  <2>4. CASE ~BroThread
    BY <2>1, <2>4
  <2> QED BY <2>2, <2>3, <2>4 DEF BroThread
<1>8. ~RecordArrives
  BY DEF RecordArrives
<1> QED BY <1>3, <1>4, <1>6, <1>7, <1>8 DEF CallbackNext, BroThread, BusThread

\* While callback() has a record at hand, nothing the two threads do makes what the
\* sweep has left grow, not even a reset that moves a feature to the end of the list
\* or gives the Bro thread's node to another one, and every step of the Bro thread
\* that does not end the process makes it smaller (callback()'s loop).
THEOREM SweepShrinks ==
    CallbackSpec =>
        [][cpc # "idle" /\ cpc' # "idle" =>
             /\ SweepLeft' \in Nat /\ SweepLeft' <= SweepLeft
             /\ BroThread /\ Running' => SweepLeft' < SweepLeft]_callbackVars
<1>1. CallbackInit => ResetsInv
  BY CallbackAssumption DEF CallbackInit, ResetsInv
<1>2. CallbackTypeOK /\ ResetsInv /\ [CallbackNext]_callbackVars => ResetsInv'
  BY ResetsBounded
<1>3. CallbackTypeOK /\ ListInv(AnyType) /\ ResetsInv => NamesInv /\ SweepLeft \in Nat
  BY SweepLeftType DEF ListInv
<1>4. CallbackTypeOK /\ NamesInv /\ NamesInv' /\ ResetsInv /\ (SweepLeft \in Nat)'
      /\ [CallbackNext]_callbackVars => SweepOn
  BY SweepStep
<1>5. CallbackSpec => [][SweepOn]_callbackVars
  BY <1>1, <1>2, <1>3, <1>4, InvCorrect, PTL DEF CallbackSpec
<1> QED BY <1>5 DEF SweepOn
=============================================================================
