---------------------------- MODULE QuietProofs ----------------------------
(***************************************************************************)
(* Proofs about Callback while no reset overlaps a sweep: what the         *)
(* documentation says of the daemon holds then, for any features, records  *)
(* and resets, and the daemon implements Monitor.                          *)
(***************************************************************************)
EXTENDS CallbackProofs

\* Every value of every record can be read, events can be allocated, and nothing
\* else ends the process: what NeverAborts needs.
Healthy ==
    /\ \A r \in Records, f \in Feature : r[f] # "absent"
    /\ \A f \in Feature : TypeOf[f] \in {UnknownType, FieldType[f]}
    /\ ~EventAllocFails /\ ~OthersAbort

-----------------------------------------------------------------------------
(* The inductive invariant.  Of a sweep it says how far it has come: the   *)
(* nodes before the iterator's have been fed their values, those behind it *)
(* have not.  IteratorValid and ServedOnce only see the ends of that.      *)

NameAt(i) == mem[list[i]].name

Want(f) == IF rec[f] = "positive" THEN 1 ELSE 0

\* Has the sweep that stands at position pos been through with position i?
Passed(i, pos) == i < pos \/ (i = pos /\ cpc \in {"report", "advance"})

\* The sweep stands at position pos of the list.
SweepAt(pos) ==
    /\ it = list[pos]
    /\ \A i \in DOMAIN list :
         served[NameAt(i)] = IF Passed(i, pos) THEN Want(NameAt(i)) ELSE 0
    /\ cpc \in {"check", "learn", "step", "store", "report"} => NameAt(pos) = obs
    /\ cpc = "learn" => Matches(mem[list[pos]].type, obs)
    /\ cpc \in {"step", "store", "report"} => rec[obs] = "positive"
    /\ cpc = "store" => reg.n = mem[list[pos]].n

SweepInv ==
    /\ cpc = "idle" => \A f \in Feature : served[f] = Want(f)
    /\ cpc # "idle" => dpc = "none" /\ \E pos \in DOMAIN list : SweepAt(pos)

CountsInv == \A i \in DOMAIN list : mem[list[i]].n = since[NameAt(i)]

\* The type a feature may learn is that of its own field, if the file gives none.
OwnTypes == [f \in Feature |-> IF TypeOf[f] = UnknownType THEN {FieldType[f]} ELSE {}]

QuietInv == CallbackTypeOK /\ ListInv(OwnTypes) /\ SweepInv /\ CountsInv

\* Keeping clear of sweeps takes nothing but steps away.
LEMMA QuietIsCallback == [QuietNext]_callbackVars => [CallbackNext]_callbackVars
BY DEF QuietNext, CallbackNext, BusThread

\* Every position has a name of its own, and its address is one of a node.
LEMMA Positions ==
    ASSUME NEW learnt, CallbackTypeOK, ListInv(learnt)
    PROVE  /\ Len(list) \in Nat /\ DOMAIN list = 1..Len(list)
           /\ mem \in [Addr -> Node]
           /\ \A i \in DOMAIN list : /\ list[i] \in Addr
                                     /\ mem[list[i]] \in Node
                                     /\ NameAt(i) \in Feature
           /\ \A i, j \in DOMAIN list : NameAt(i) = NameAt(j) => i = j
           /\ \A i, j \in DOMAIN list : list[i] = list[j] => i = j
           /\ dpc = "none" => \A f \in Feature : \E i \in DOMAIN list : NameAt(i) = f
<1>1. list \in Seq(Addr) /\ mem \in [Addr -> Node]
  BY DEF CallbackTypeOK, ListTypeOK
<1>2. /\ Len(list) \in Nat /\ DOMAIN list = 1..Len(list)
      /\ \A i \in DOMAIN list : list[i] \in Addr /\ mem[list[i]] \in Node
  BY <1>1, LenProperties
<1>3. /\ \A i \in DOMAIN list : NameAt(i) \in Feature
      /\ \A i, j \in DOMAIN list : NameAt(i) = NameAt(j) => i = j
      /\ dpc = "none" => \A f \in Feature : \E i \in DOMAIN list : NameAt(i) = f
  BY DEF ListInv, NamesInv, NameAt, Known, Gone
<1>4. \A i, j \in DOMAIN list : list[i] = list[j] => i = j
  BY DistinctNodes DEF ListInv
<1> QED BY <1>1, <1>2, <1>3, <1>4

LEMMA QuietInit == CallbackInit => QuietInv
<1> SUFFICES ASSUME CallbackInit PROVE QuietInv
  OBVIOUS
<1>1. CallbackTypeOK /\ ListInv(OwnTypes)
  BY TypeInit, ListInvInit DEF CallbackInit
<1>2. SweepInv
  BY DEF CallbackInit, SweepInv, Want
<1>3. CountsInv
  <2> SUFFICES ASSUME NEW i \in DOMAIN list
               PROVE  mem[list[i]].n = since[NameAt(i)]
    BY DEF CountsInv
  <2>1. list[i] \in Addr /\ list[i] \in Range(Heap) /\ NameAt(i) \in Feature
    BY <1>1, Positions DEF CallbackInit, DispotcherInit, Range
  <2>2. mem[list[i]].n = 0
    BY <2>1 DEF CallbackInit, DispotcherInit, Fresh
  <2>3. since[NameAt(i)] = 0
    BY <2>1 DEF CallbackInit
  <2> QED BY <2>2, <2>3
<1> QED BY <1>1, <1>2, <1>3 DEF QuietInv

\* The counts only depend on the list, the names and the counters in it.
LEMMA CountsFrame ==
    ASSUME CallbackTypeOK, ListInv(OwnTypes), CountsInv,
           list' = list, since' = since,
           \A a \in Addr : mem'[a].name = mem[a].name /\ mem'[a].n = mem[a].n
    PROVE  CountsInv'
<1>1. \A i \in DOMAIN list : list[i] \in Addr
  BY Positions
<1> QED BY <1>1 DEF CountsInv, NameAt

\* What SweepAt says of the values served only depends on the list, the names and
\* on which node is served.
LEMMA SweepFrame ==
    ASSUME CallbackTypeOK, ListInv(OwnTypes), NEW pos \in DOMAIN list, SweepAt(pos),
           UNCHANGED <<list, it, rec, served>>,
           \A a \in Addr : mem'[a].name = mem[a].name,
           cpc' \in {"report", "advance"} <=> cpc \in {"report", "advance"}
    PROVE  /\ it' = list'[pos] /\ pos \in DOMAIN list'
           /\ \A i \in DOMAIN list' :
                served'[NameAt(i)'] = IF Passed(i, pos)' THEN Want(NameAt(i))' ELSE 0
<1>1. \A i \in DOMAIN list : list[i] \in Addr
  BY Positions
<1>2. \A i \in DOMAIN list : NameAt(i)' = NameAt(i)
  BY <1>1 DEF NameAt
<1>3. \A i \in DOMAIN list : Passed(i, pos)' <=> Passed(i, pos)
  BY DEF Passed
<1>4. \A i \in DOMAIN list : Want(NameAt(i))' = Want(NameAt(i))
  BY <1>2 DEF Want
<1> QED BY <1>2, <1>3, <1>4 DEF SweepAt

LEMMA SweepBegins ==
    ASSUME QuietInv, dpc = "none", RecordArrives
    PROVE  SweepInv' /\ CountsInv'
<1>1. /\ cpc = "idle" /\ it' = Begin
      /\ cpc' = (IF it' = End THEN "idle" ELSE "lookup")
      /\ served' = [f \in Feature |-> 0]
      /\ UNCHANGED <<list, mem, dpc, since>>
  BY DEF RecordArrives, listVars
<1>2. CallbackTypeOK /\ ListInv(OwnTypes)
  BY DEF QuietInv
<1>3. CountsInv'
  BY <1>1, <1>2, CountsFrame DEF QuietInv
<1>4. CASE list = << >>
  <2>1. Feature = {}
    BY <1>2, <1>4, Positions
  <2>2. cpc' = "idle"
    BY <1>1, <1>4 DEF Begin
  <2> QED BY <1>3, <2>1, <2>2 DEF SweepInv
<1>5. CASE list # << >>
  <2>1. 1 \in DOMAIN list /\ list[1] \in Addr
    <3>1. list \in Seq(Addr)
      BY <1>2 DEF CallbackTypeOK, ListTypeOK
    <3> QED BY <1>2, <1>5, <3>1, Positions, EmptySeq
  <2>2. it' = list[1] /\ cpc' = "lookup"
    BY <1>1, <1>5, <2>1, DispotcherAssumption DEF Begin
  <2>3. \A i \in DOMAIN list : ~Passed(i, 1)'
    BY <1>2, <2>2, Positions DEF Passed
  <2>4. \A i \in DOMAIN list : NameAt(i)' \in Feature
    BY <1>1, <1>2, Positions DEF NameAt
  <2>5. SweepAt(1)'
    BY <1>1, <2>2, <2>3, <2>4 DEF SweepAt
  <2> QED BY <1>1, <1>3, <2>1, <2>2, <2>5 DEF SweepInv
<1> QED BY <1>4, <1>5

LEMMA SweepLooksUp ==
    ASSUME QuietInv, Lookup
    PROVE  SweepInv' /\ CountsInv'
<1>1. /\ cpc = "lookup" /\ cpc' = "check" /\ obs' = mem[it].name
      /\ UNCHANGED <<list, mem, dpc, it, rec, served, since>>
  BY DEF Lookup, listVars
<1>2. CallbackTypeOK /\ ListInv(OwnTypes)
  BY DEF QuietInv
<1>3. PICK pos \in DOMAIN list : SweepAt(pos)
  BY <1>1 DEF QuietInv, SweepInv
<1>4. SweepAt(pos)' /\ pos \in DOMAIN list'
  <2>1. /\ it' = list'[pos] /\ pos \in DOMAIN list'
        /\ \A i \in DOMAIN list' :
             served'[NameAt(i)'] = IF Passed(i, pos)' THEN Want(NameAt(i))' ELSE 0
    BY <1>1, <1>2, <1>3, SweepFrame
  <2>2. NameAt(pos)' = obs'
    BY <1>1, <1>3 DEF SweepAt, NameAt
  <2> QED BY <1>1, <2>1, <2>2 DEF SweepAt
<1>5. CountsInv'
  BY <1>1, <1>2, CountsFrame DEF QuietInv
<1> QED BY <1>1, <1>4, <1>5 DEF QuietInv, SweepInv

LEMMA SweepChecks ==
    ASSUME QuietInv, Check
    PROVE  SweepInv' /\ CountsInv'
<1>1. /\ cpc = "check" /\ cpc' = "learn" /\ Matches(mem[it].type, obs)
      /\ UNCHANGED <<list, mem, dpc, it, rec, obs, served, since>>
  BY DEF Check, listVars
<1>2. CallbackTypeOK /\ ListInv(OwnTypes)
  BY DEF QuietInv
<1>3. PICK pos \in DOMAIN list : SweepAt(pos)
  BY <1>1 DEF QuietInv, SweepInv
<1>4. SweepAt(pos)' /\ pos \in DOMAIN list'
  <2>1. /\ it' = list'[pos] /\ pos \in DOMAIN list'
        /\ \A i \in DOMAIN list' :
             served'[NameAt(i)'] = IF Passed(i, pos)' THEN Want(NameAt(i))' ELSE 0
    BY <1>1, <1>2, <1>3, SweepFrame
  <2>2. NameAt(pos)' = obs' /\ Matches(mem[list[pos]].type, obs)'
    BY <1>1, <1>3 DEF SweepAt, NameAt, Matches
  <2> QED BY <1>1, <2>1, <2>2 DEF SweepAt
<1>5. CountsInv'
  BY <1>1, <1>2, CountsFrame DEF QuietInv
<1> QED BY <1>1, <1>4, <1>5 DEF QuietInv, SweepInv

\* The type that is written was found for the feature whose node it is written into.
LEMMA LearnsOwn ==
    ASSUME QuietInv, Learn
    PROVE  mem[it].type = FieldType[obs] \/ FieldType[obs] \in OwnTypes[mem[it].name]
<1>1. PICK pos \in DOMAIN list : SweepAt(pos)
  BY DEF Learn, QuietInv, SweepInv
<1>2. /\ mem[it].name = obs /\ obs \in Feature
      /\ mem[it].type \in {UnknownType, FieldType[obs]}
  BY <1>1, LearnWrites DEF Learn, SweepAt, NameAt, Matches, QuietInv
<1>3. mem[it].type \in {TypeOf[obs]} \cup OwnTypes[obs]
  BY <1>1, <1>2 DEF QuietInv, ListInv, SettingsInv, Own, SweepAt
<1>4. FieldType[obs] # UnknownType
  BY <1>2, CallbackAssumption
<1> QED BY <1>2, <1>3, <1>4 DEF OwnTypes

LEMMA SweepLearns ==
    ASSUME QuietInv, Learn
    PROVE  SweepInv' /\ CountsInv'
<1>1. /\ cpc = "learn"
      /\ cpc' = (IF rec[obs] = "positive" THEN "step" ELSE "advance")
      /\ UNCHANGED <<list, dpc, it, rec, obs, served, since>>
  BY DEF Learn
<1>2. CallbackTypeOK /\ ListInv(OwnTypes)
  BY DEF QuietInv
<1>3. \A a \in Addr : mem'[a].name = mem[a].name /\ mem'[a].n = mem[a].n
  BY <1>2, LearnWrites
<1>4. CountsInv'
  BY <1>1, <1>2, <1>3, CountsFrame DEF QuietInv
<1>5. PICK pos \in DOMAIN list : SweepAt(pos)
  BY <1>1 DEF QuietInv, SweepInv
<1>6. /\ NameAt(pos) = obs /\ NameAt(pos)' = obs
      /\ \A i \in DOMAIN list : NameAt(i)' = NameAt(i) /\ NameAt(i) \in Feature
  BY <1>1, <1>2, <1>3, <1>5, Positions DEF NameAt, SweepAt
<1>7. \A i \in DOMAIN list :
        served'[NameAt(i)'] = IF Passed(i, pos)' THEN Want(NameAt(i))' ELSE 0
  <2> SUFFICES ASSUME NEW i \in DOMAIN list
               PROVE  served[NameAt(i)] = IF Passed(i, pos)' THEN Want(NameAt(i)) ELSE 0
    BY <1>1, <1>6 DEF Want
  <2>1. served[NameAt(i)] = IF i < pos THEN Want(NameAt(i)) ELSE 0
    BY <1>1, <1>5 DEF SweepAt, Passed
  <2>2. CASE i = pos
    <3>1. Want(obs) = 0 \/ cpc' = "step"
      BY <1>1 DEF Want
    <3> QED BY <1>2, <1>6, <2>1, <2>2, <3>1, Positions DEF Passed
  <2>3. CASE i # pos
    BY <2>1, <2>3 DEF Passed
  <2> QED BY <2>2, <2>3
<1>8. SweepAt(pos)'
  BY <1>1, <1>5, <1>6, <1>7 DEF SweepAt
<1>9. cpc' # "idle" /\ dpc' = "none"
  BY <1>1 DEF QuietInv, SweepInv
<1> QED BY <1>1, <1>4, <1>8, <1>9 DEF SweepInv

LEMMA SweepLoads ==
    ASSUME QuietInv, Step
    PROVE  SweepInv' /\ CountsInv'
<1>1. /\ cpc = "step" /\ cpc' = "store" /\ reg' = [n |-> mem[it].n, al |-> mem[it].al]
      /\ UNCHANGED <<list, mem, dpc, it, rec, obs, served, since>>
  BY DEF Step, listVars
<1>2. CallbackTypeOK /\ ListInv(OwnTypes)
  BY DEF QuietInv
<1>3. PICK pos \in DOMAIN list : SweepAt(pos)
  BY <1>1 DEF QuietInv, SweepInv
<1>4. SweepAt(pos)' /\ pos \in DOMAIN list'
  <2>1. /\ it' = list'[pos] /\ pos \in DOMAIN list'
        /\ \A i \in DOMAIN list' :
             served'[NameAt(i)'] = IF Passed(i, pos)' THEN Want(NameAt(i))' ELSE 0
    BY <1>1, <1>2, <1>3, SweepFrame
  <2>2. NameAt(pos)' = obs' /\ rec'[obs'] = "positive"
    BY <1>1, <1>3 DEF SweepAt, NameAt
  <2>3. reg'.n = mem'[list'[pos]].n
    BY <1>1, <1>3 DEF SweepAt
  <2> QED BY <1>1, <2>1, <2>2, <2>3 DEF SweepAt
<1>5. CountsInv'
  BY <1>1, <1>2, CountsFrame DEF QuietInv
<1> QED BY <1>1, <1>4, <1>5 DEF QuietInv, SweepInv

\* The step everything rests on: the instance is that of the feature whose value it
\* is, and still has the counters that were loaded.
LEMMA SweepStores ==
    ASSUME QuietInv, NEW alarm \in {0, 1}, Store(alarm)
    PROVE  SweepInv' /\ CountsInv'
<1> DEFINE node == WithCounters(mem[it], reg.n + 1, reg.al + alarm)
<1>1. /\ cpc = "store" /\ cpc' \in {"report", "advance"}
      /\ mem' = [mem EXCEPT ![it] = node]
      /\ served' = [served EXCEPT ![obs] = served[obs] + 1]
      /\ since' = [since EXCEPT ![obs] = since[obs] + 1]
      /\ UNCHANGED <<list, dpc, it, rec, obs>>
  BY DEF Store
<1>2. CallbackTypeOK /\ ListInv(OwnTypes) /\ CountsInv
  BY DEF QuietInv
<1>3. PICK pos \in DOMAIN list : SweepAt(pos)
  BY <1>1 DEF QuietInv, SweepInv
<1>4. /\ it = list[pos] /\ it \in Addr /\ mem[it] \in Node /\ mem \in [Addr -> Node]
      /\ NameAt(pos) = obs /\ obs \in Feature /\ rec[obs] = "positive"
      /\ reg.n = mem[it].n /\ reg.n \in Nat /\ reg.al + alarm \in Nat
      /\ served \in [Feature -> Nat] /\ since \in [Feature -> Nat]
  <2>1. reg \in [n : Nat, al : Nat]
    BY <1>2 DEF CallbackTypeOK
  <2>2. reg.n \in Nat /\ reg.al + alarm \in Nat
    BY <2>1
  <2>3. /\ it = list[pos] /\ it \in Addr /\ mem[it] \in Node /\ mem \in [Addr -> Node]
        /\ NameAt(pos) = obs /\ obs \in Feature /\ rec[obs] = "positive"
        /\ reg.n = mem[it].n
    BY <1>1, <1>2, <1>3, Positions DEF SweepAt
  <2> QED BY <1>2, <2>2, <2>3 DEF CallbackTypeOK
<1>5. node.name = mem[it].name /\ node.n = mem[it].n + 1
  <2>1. reg.n + 1 \in Nat /\ reg.al + alarm \in Nat /\ mem[it] \in Node
    BY <1>4
  <2>2. WithCounters(mem[it], reg.n + 1, reg.al + alarm).n = reg.n + 1
    BY <2>1, WithCountersNode
  <2>3. WithCounters(mem[it], reg.n + 1, reg.al + alarm).name = mem[it].name
    BY <2>1, WithCountersNode
  <2> QED BY <1>4, <2>2, <2>3
<1>6. \A i \in DOMAIN list : mem'[list[i]] = IF i = pos THEN node ELSE mem[list[i]]
  <2> HIDE DEF node
  <2> QED BY <1>1, <1>2, <1>4, Positions
<1>7. \A i \in DOMAIN list :
        /\ NameAt(i)' = NameAt(i) /\ NameAt(i) \in Feature
        /\ mem'[list[i]].n = mem[list[i]].n + (IF i = pos THEN 1 ELSE 0)
        /\ (NameAt(i) = obs) <=> (i = pos)
  <2> HIDE DEF node
  <2> SUFFICES ASSUME NEW i \in DOMAIN list
               PROVE  /\ NameAt(i)' = NameAt(i) /\ NameAt(i) \in Feature
                      /\ mem'[list[i]].n = mem[list[i]].n + (IF i = pos THEN 1 ELSE 0)
                      /\ (NameAt(i) = obs) <=> (i = pos)
    OBVIOUS
  <2>1. NameAt(i) \in Feature /\ ((NameAt(i) = obs) <=> (i = pos))
    BY <1>2, <1>4, Positions
  <2>2. mem[list[i]].n \in Nat
    BY <1>2, Positions DEF Node
  <2>3. NameAt(i)' = mem'[list[i]].name
    BY <1>1 DEF NameAt
  <2>4. mem'[list[i]].name = mem[list[i]].name
    BY <1>4, <1>5, <1>6
  <2>5. mem'[list[i]].n = mem[list[i]].n + (IF i = pos THEN 1 ELSE 0)
    BY <1>4, <1>5, <1>6, <2>2
  <2> QED BY <2>1, <2>3, <2>4, <2>5 DEF NameAt
<1> HIDE DEF node
<1>8. CountsInv'
  <2> SUFFICES ASSUME NEW i \in DOMAIN list
               PROVE  mem'[list[i]].n = since'[NameAt(i)]
    BY <1>1, <1>7 DEF CountsInv
  <2>1. mem[list[i]].n = since[NameAt(i)]
    BY <1>2 DEF CountsInv
  <2>2. since'[NameAt(i)] = since[NameAt(i)] + (IF i = pos THEN 1 ELSE 0)
    BY <1>1, <1>4, <1>7
  <2> QED BY <1>7, <2>1, <2>2
<1>9. \A i \in DOMAIN list' :
        served'[NameAt(i)'] = IF Passed(i, pos)' THEN Want(NameAt(i))' ELSE 0
  <2> SUFFICES ASSUME NEW i \in DOMAIN list
               PROVE  served'[NameAt(i)] = IF Passed(i, pos)' THEN Want(NameAt(i)) ELSE 0
    BY <1>1, <1>7 DEF Want
  <2>1. served[NameAt(i)] = IF i < pos THEN Want(NameAt(i)) ELSE 0
    BY <1>1, <1>3 DEF SweepAt, Passed
  <2>2. pos \in Int /\ i \in Int
    BY <1>2, Positions
  <2>3. CASE i = pos
    <3>1. served'[NameAt(i)] = 1
      BY <1>1, <1>4, <2>1, <2>2, <2>3
    <3>2. Passed(i, pos)' /\ Want(NameAt(i)) = 1
      BY <1>1, <1>4, <2>3 DEF Passed, Want
    <3> QED BY <3>1, <3>2
  <2>4. CASE i # pos
    <3>1. served'[NameAt(i)] = served[NameAt(i)]
      BY <1>1, <1>4, <1>7, <2>4
    <3> QED BY <2>1, <2>4, <3>1 DEF Passed
  <2> QED BY <2>3, <2>4
<1>10. SweepAt(pos)'
  BY <1>1, <1>4, <1>7, <1>9 DEF SweepAt
<1>11. dpc' = "none" /\ pos \in DOMAIN list'
  BY <1>1 DEF QuietInv, SweepInv
<1> QED BY <1>1, <1>8, <1>10, <1>11 DEF SweepInv

LEMMA SweepReports ==
    ASSUME QuietInv, Report
    PROVE  SweepInv' /\ CountsInv'
<1>1. /\ cpc = "report" /\ cpc' = "advance"
      /\ UNCHANGED <<list, mem, dpc, it, rec, obs, served, since>>
  BY DEF Report, listVars
<1>2. CallbackTypeOK /\ ListInv(OwnTypes)
  BY DEF QuietInv
<1>3. PICK pos \in DOMAIN list : SweepAt(pos)
  BY <1>1 DEF QuietInv, SweepInv
<1>4. SweepAt(pos)' /\ pos \in DOMAIN list'
  BY <1>1, <1>2, <1>3, SweepFrame DEF SweepAt
<1>5. CountsInv'
  BY <1>1, <1>2, CountsFrame DEF QuietInv
<1> QED BY <1>1, <1>4, <1>5 DEF QuietInv, SweepInv

LEMMA SweepAdvances ==
    ASSUME QuietInv, Advance
    PROVE  SweepInv' /\ CountsInv'
<1>1. /\ cpc = "advance" /\ it' = After(it)
      /\ cpc' = (IF it' = End THEN "idle" ELSE "lookup")
      /\ UNCHANGED <<list, mem, dpc, rec, obs, served, since>>
  BY DEF Advance, listVars
<1>2. CallbackTypeOK /\ ListInv(OwnTypes)
  BY DEF QuietInv
<1>3. PICK pos \in DOMAIN list : SweepAt(pos)
  BY <1>1 DEF QuietInv, SweepInv
<1>4. /\ dpc = "none" /\ it = list[pos]
      /\ \A i \in DOMAIN list :
           served[NameAt(i)] = IF i <= pos THEN Want(NameAt(i)) ELSE 0
  <2>1. \A i \in DOMAIN list : Passed(i, pos) <=> i <= pos
    BY <1>1, <1>2, Positions DEF Passed
  <2> QED BY <1>1, <1>3, <2>1 DEF QuietInv, SweepInv, SweepAt
<1>5. CountsInv'
  BY <1>1, <1>2, CountsFrame DEF QuietInv
<1>6. /\ pos = Len(list) => it' = End
      /\ pos # Len(list) => pos + 1 \in DOMAIN list /\ it' = list[pos + 1]
  <2>1. list \in Seq(Addr) /\ \A i, j \in DOMAIN list : list[i] = list[j] => i = j
    BY <1>2, Positions DEF CallbackTypeOK, ListTypeOK
  <2> QED BY <1>1, <1>4, <2>1, AfterNext
<1>7. CASE pos = Len(list)
  <2>1. \A f \in Feature : served[f] = Want(f)
    BY <1>2, <1>4, <1>7, Positions
  <2> QED BY <1>1, <1>5, <1>6, <1>7, <2>1 DEF SweepInv, Want
<1>8. CASE pos # Len(list)
  <2>1. it' = list[pos + 1] /\ cpc' = "lookup" /\ pos + 1 \in DOMAIN list
    BY <1>1, <1>2, <1>6, <1>8, Positions, DispotcherAssumption
  <2>2. \A i \in DOMAIN list : Passed(i, pos + 1)' <=> i <= pos
    BY <1>2, <2>1, Positions DEF Passed
  <2>3. SweepAt(pos + 1)'
    BY <1>1, <1>4, <2>1, <2>2 DEF SweepAt, NameAt, Want
  <2> QED BY <1>1, <1>4, <1>5, <2>1, <2>3 DEF SweepInv
<1> QED BY <1>7, <1>8

\* reset(), with no record at hand.
LEMMA ResetsKeepCounts ==
    ASSUME QuietInv, cpc = "idle",
           (\E f \in Feature : CallReset(f)) \/ Erase \/ Emplace
    PROVE  SweepInv' /\ CountsInv'
<1>1. UNCHANGED <<cpc, rec, served>>
  BY DEF CallReset, Erase, Emplace, broVars
<1>2. SweepInv'
  BY <1>1 DEF QuietInv, SweepInv, Want
<1>3. CallbackTypeOK /\ ListTypeOK /\ ListInv(OwnTypes) /\ CountsInv
  BY DEF QuietInv, CallbackTypeOK
<1>4. ASSUME NEW f \in Feature, CallReset(f) PROVE CountsInv'
  BY <1>3, <1>4, CountsFrame DEF CallReset, ResetFind
<1>5. CASE Erase
  <2>1. mem' = mem /\ since' = since
    BY <1>5 DEF Erase, ResetErase
  <2>2. \A j \in DOMAIN list' : \E k \in DOMAIN list : list'[j] = list[k]
    BY <1>3, <1>5, ErasedNodes DEF Erase
  <2>3. ASSUME NEW j \in DOMAIN list'
        PROVE  mem'[list'[j]].n = since'[mem'[list'[j]].name]
    <3>1. PICK k \in DOMAIN list : list'[j] = list[k]
      BY <2>2
    <3> QED BY <1>3, <2>1, <3>1 DEF CountsInv, NameAt
  <2> QED BY <1>2, <2>3 DEF CountsInv, NameAt
<1>6. CASE Emplace
  <2> SUFFICES ASSUME NEW j \in DOMAIN list'
               PROVE  mem'[list'[j]].n = since'[mem'[list'[j]].name]
    BY <1>2 DEF CountsInv, NameAt
  <2>1. saved.name \in Feature /\ since' = [since EXCEPT ![saved.name] = 0]
    BY <1>3, <1>6 DEF Emplace, ResetEmplace, ListInv, CopyInv
  <2>2. since \in [Feature -> Nat]
    BY <1>3 DEF CallbackTypeOK
  <2>3. CASE mem'[list'[j]] = Fresh(saved.name, saved.type, saved.conf)
    BY <2>1, <2>2, <2>3 DEF Fresh, NameAt
  <2>4. CASE /\ j \in DOMAIN list
             /\ mem'[list'[j]] = mem[list[j]]
             /\ mem[list[j]].name # saved.name
    <3>1. mem[list[j]].n = since[NameAt(j)] /\ NameAt(j) \in Feature
      BY <1>3, <2>4, Positions DEF CountsInv
    <3> QED BY <2>1, <2>2, <2>4, <3>1 DEF NameAt
  <2> QED BY <1>3, <1>6, <2>3, <2>4, EmplacedNodes DEF Emplace
<1> QED BY <1>2, <1>4, <1>5, <1>6

\* A step that leaves the Bro thread and the list where they are.
LEMMA NothingMoves ==
    ASSUME QuietInv, UNCHANGED <<list, mem, dpc, cpc, it, rec, obs, reg, served, since>>
    PROVE  SweepInv' /\ CountsInv'
<1>1. CountsInv'
  BY CountsFrame DEF QuietInv
<1>2. (cpc = "idle" => \A f \in Feature : served[f] = Want(f))'
  BY DEF QuietInv, SweepInv, Want
<1>3. ASSUME cpc # "idle"
      PROVE  dpc' = "none" /\ \E pos \in DOMAIN list' : SweepAt(pos)'
  <2>1. PICK pos \in DOMAIN list : SweepAt(pos)
    BY <1>3 DEF QuietInv, SweepInv
  <2>2. SweepAt(pos)' /\ pos \in DOMAIN list'
    BY <2>1 DEF SweepAt, Passed, NameAt, Want
  <2> QED BY <1>3, <2>2 DEF QuietInv, SweepInv
<1> QED BY <1>1, <1>2, <1>3 DEF SweepInv

LEMMA QuietStep == QuietInv /\ [QuietNext]_callbackVars => QuietInv'
<1> SUFFICES ASSUME QuietInv, [QuietNext]_callbackVars PROVE QuietInv'
  OBVIOUS
<1>1. CallbackTypeOK' /\ ListInv(OwnTypes)'
  <2>1. [CallbackNext]_callbackVars
    BY QuietIsCallback
  <2>2. CallbackTypeOK /\ ListInv(OwnTypes)
    BY DEF QuietInv
  <2> QED BY <2>1, <2>2, TypeStep, InvStep, LearnsOwn
<1>2. CASE dpc = "none" /\ RecordArrives
  BY <1>1, <1>2, SweepBegins DEF QuietInv
<1>3. CASE Lookup
  BY <1>1, <1>3, SweepLooksUp DEF QuietInv
<1>4. CASE Check
  BY <1>1, <1>4, SweepChecks DEF QuietInv
<1>5. CASE Learn
  BY <1>1, <1>5, SweepLearns DEF QuietInv
<1>6. CASE Step
  BY <1>1, <1>6, SweepLoads DEF QuietInv
<1>7. ASSUME NEW alarm \in {0, 1}, Store(alarm) PROVE QuietInv'
  BY <1>1, <1>7, SweepStores DEF QuietInv
<1>8. CASE Report
  BY <1>1, <1>8, SweepReports DEF QuietInv
<1>9. CASE Advance
  BY <1>1, <1>9, SweepAdvances DEF QuietInv
<1>10. CASE LookupFails \/ CheckFails \/ ReportFails \/ Fault \/ Stop
             \/ UNCHANGED callbackVars
  <2>1. UNCHANGED <<list, mem, dpc, cpc, it, rec, obs, reg, served, since>>
    BY <1>10 DEF LookupFails, CheckFails, ReportFails, Fault, Stop, callbackVars, listVars,
       broVars
  <2> QED BY <1>1, <2>1, NothingMoves DEF QuietInv
<1>11. ASSUME (cpc = "idle" /\ \E f \in Feature : CallReset(f)) \/ Erase \/ Emplace
      PROVE  QuietInv'
  <2>1. cpc = "idle"
    BY <1>11 DEF QuietInv, SweepInv, Erase, Emplace, ResetErase, ResetEmplace
  <2> QED BY <1>1, <1>11, <2>1, ResetsKeepCounts DEF QuietInv
<1> QED
  BY <1>2, <1>3, <1>4, <1>5, <1>6, <1>7, <1>8, <1>9, <1>10, <1>11
  DEF QuietNext, BroThread

LEMMA QuietCorrect == QuietSpec => []QuietInv
<1>1. CallbackInit => QuietInv
  BY QuietInit
<1>2. QuietInv /\ [QuietNext]_callbackVars => QuietInv'
  BY QuietStep
<1> QED BY <1>1, <1>2, PTL DEF QuietSpec

\* The loop of callback() never stands on a node that is gone, and never gives a
\* value to the instance of another feature, as long as resets keep clear of it.
THEOREM IteratorCorrect == QuietSpec => []IteratorValid
<1>1. QuietInv => IteratorValid
  <2> SUFFICES ASSUME QuietInv, cpc # "idle"
               PROVE  /\ Listed(it)
                      /\ cpc \in {"check", "learn", "step", "store", "report"} =>
                           mem[it].name = obs
    BY DEF IteratorValid
  <2>1. PICK pos \in DOMAIN list : SweepAt(pos)
    BY DEF QuietInv, SweepInv
  <2> QED BY <2>1 DEF SweepAt, NameAt, Listed, Range
<1> QED BY <1>1, QuietCorrect, PTL

\* Every positive value of every record is fed to SPOT exactly once, and no other
\* value ever (callback(), process()).
THEOREM ServedCorrect == QuietSpec => []ServedOnce
<1>1. QuietInv => ServedOnce
  BY DEF QuietInv, SweepInv, Want, ServedOnce
<1> QED BY <1>1, QuietCorrect, PTL

\* Every instance has the type the ini file gives its feature or, where it gives none,
\* none or that of the feature's own field, for any fields, records and resets, as long
\* as resets keep clear of sweeps (bro_record_get_named_val, Dispotcher::reset).
THEOREM TypesCorrect == QuietSpec => []TypesKept
<1>1. QuietInv => TypesKept
  <2> SUFFICES ASSUME QuietInv, NEW i \in DOMAIN list
               PROVE  \/ mem[list[i]].type = TypeOf[NameAt(i)]
                      \/ /\ TypeOf[NameAt(i)] = UnknownType
                         /\ mem[list[i]].type = FieldType[NameAt(i)]
    BY DEF TypesKept, NameAt
  <2>1. mem[list[i]].type \in {TypeOf[NameAt(i)]} \cup OwnTypes[NameAt(i)]
    BY DEF QuietInv, ListInv, SettingsInv, Own, NameAt
  <2>2. NameAt(i) \in Feature
    BY Positions DEF QuietInv
  <2> QED BY <2>1, <2>2 DEF OwnTypes
<1> QED BY <1>1, QuietCorrect, PTL

\* No observation is lost, doubled or misdirected, and a reset starts from zero, for
\* any number of records and resets (Spot::step, Dispotcher::reset).
THEOREM CountsCorrect == QuietSpec => []CountsSinceReset
<1>1. QuietInv => CountsSinceReset
  BY DEF QuietInv, CountsInv, NameAt, CountsSinceReset
<1> QED BY <1>1, QuietCorrect, PTL

-----------------------------------------------------------------------------
(* The daemon stays up.                                                    *)

UpInv == proc # "aborted" /\ \A f \in Feature : rec[f] # "absent"

LEMMA UpStep ==
    ASSUME Healthy, QuietInv, UpInv, [QuietNext]_callbackVars
    PROVE  UpInv'
<1>1. CASE dpc = "none" /\ RecordArrives
  BY <1>1 DEF RecordArrives, UpInv, Healthy
<1>2. CASE Lookup \/ Check \/ Learn \/ Step \/ Store(0) \/ Store(1) \/ Report \/ Advance
  BY <1>2 DEF Lookup, Check, Learn, Step, Store, Report, Advance, UpInv
<1>3. ASSUME LookupFails \/ CheckFails PROVE FALSE
  <2>1. PICK pos \in DOMAIN list : SweepAt(pos)
    BY <1>3 DEF LookupFails, CheckFails, QuietInv, SweepInv
  <2>2. it = list[pos] /\ NameAt(pos) \in Feature
    BY <2>1, Positions DEF SweepAt, QuietInv
  <2>3. mem[it].type \in {TypeOf[NameAt(pos)]} \cup OwnTypes[NameAt(pos)]
    BY <2>2 DEF QuietInv, ListInv, SettingsInv, Own, NameAt
  <2>4. mem[it].type \in {UnknownType, FieldType[NameAt(pos)]}
    BY <2>2, <2>3 DEF OwnTypes, Healthy
  <2>5. CASE LookupFails
    BY <2>2, <2>5 DEF LookupFails, UpInv, NameAt
  <2>6. CASE CheckFails
    <3>1. NameAt(pos) = obs
      BY <2>1, <2>6 DEF CheckFails, SweepAt
    <3> QED BY <2>4, <2>6, <3>1 DEF CheckFails, Matches
  <2> QED BY <1>3, <2>5, <2>6
<1>4. CASE ReportFails
  BY <1>4 DEF ReportFails, Healthy
<1>5. CASE Fault
  <2>1. PICK pos \in DOMAIN list : it = list[pos]
    BY <1>5 DEF Fault, QuietInv, SweepInv, SweepAt
  <2> QED BY <1>5, <2>1 DEF Fault, Listed, Range
<1>6. CASE Stop
  BY <1>6 DEF Stop, Exit, Healthy, UpInv, broVars
<1>7. CASE (\E f \in Feature : CallReset(f)) \/ Erase \/ Emplace
  BY <1>7 DEF CallReset, Erase, Emplace, UpInv, broVars
<1>8. CASE UNCHANGED callbackVars
  BY <1>8 DEF callbackVars, broVars, UpInv
<1> QED
  BY <1>1, <1>2, <1>3, <1>4, <1>5, <1>6, <1>7, <1>8 DEF QuietNext, BroThread

\* A daemon whose records are complete, with the types the ini file gives, never goes
\* down by itself: callback() has no other way to fail while its iterator is valid.
THEOREM StaysUp ==
    ASSUME Healthy
    PROVE  QuietSpec => []NeverAborts
<1>1. CallbackInit => UpInv
  BY DEF CallbackInit, DispotcherInit, UpInv
<1>2. QuietInv /\ UpInv /\ [QuietNext]_callbackVars => UpInv'
  BY UpStep
<1>3. UpInv => NeverAborts
  BY DEF UpInv, NeverAborts
<1> QED BY <1>1, <1>2, <1>3, QuietCorrect, PTL DEF QuietSpec

-----------------------------------------------------------------------------
(* The refinement.  Under the invariant the mapping needs no list: what an *)
(* instance has seen is what was fed to it since it was made, and nothing  *)
(* while it is gone.                                                       *)

SeenFedSince == Seen = [f \in Feature |-> IF Gone(f) THEN 0 ELSE since[f]]

LEMMA SeenIsSince == QuietInv => SeenFedSince
<1> SUFFICES ASSUME QuietInv, NEW f \in Feature
             PROVE  (IF Known(f) THEN mem[list[CHOOSE i \in DOMAIN list : FoundAt(f, i)]].n
                     ELSE 0) = IF Gone(f) THEN 0 ELSE since[f]
  BY DEF Seen, SeenFedSince
<1>1. Known(f) <=> ~Gone(f)
  BY DEF QuietInv, ListInv, NamesInv
<1>2. CASE Known(f)
  <2> DEFINE k == CHOOSE i \in DOMAIN list : FoundAt(f, i)
  <2>1. PICK i \in DOMAIN list : NameAt(i) = f
    BY <1>2 DEF Known, NameAt
  <2>2. FoundAt(f, i)
    BY <2>1, Positions DEF FoundAt, NameAt, QuietInv
  <2>3. k \in DOMAIN list /\ FoundAt(f, k)
    BY <2>2
  <2> HIDE DEF k
  <2>4. mem[list[k]].n = since[f]
    BY <2>3 DEF QuietInv, CountsInv, FoundAt, NameAt
  <2> QED BY <1>1, <1>2, <2>4 DEF k
<1>3. CASE ~Known(f)
  BY <1>1, <1>3
<1> QED BY <1>2, <1>3

\* Between records nothing is pending.
LEMMA IdleIsDone ==
    ASSUME QuietInv, cpc = "idle"
    PROVE  Pending = {}
BY DEF QuietInv, SweepInv, Want, Pending

LEMMA InitImplements == CallbackInit => Abstract!MonitorInit
<1> SUFFICES ASSUME CallbackInit PROVE Abstract!MonitorInit
  OBVIOUS
<1>1. QuietInv
  BY QuietInit
<1>2. Seen = [f \in Feature |-> 0]
  BY <1>1, SeenIsSince DEF CallbackInit, DispotcherInit, Gone, SeenFedSince
<1>3. Pending = {} /\ Running
  BY <1>1, IdleIsDone DEF CallbackInit, DispotcherInit, Running
<1> QED BY <1>2, <1>3 DEF Abstract!MonitorInit

\* The same, of the state a step leads to.
LEMMA SeenNext == QuietInv' => SeenFedSince'
BY SeenIsSince, PTL

\* Each step of the two threads is a step of Monitor, or none.
LEMMA StepImplements ==
    ASSUME QuietInv, QuietInv', [QuietNext]_callbackVars
    PROVE  [Abstract!MonitorNext]_<<Seen, Pending, Running>>
<1> DEFINE Same == UNCHANGED <<Seen, Pending, Running>>
<1>1. /\ Seen = [f \in Feature |-> IF Gone(f) THEN 0 ELSE since[f]]
      /\ Seen' = [f \in Feature |-> IF Gone(f)' THEN 0 ELSE since'[f]]
  BY SeenIsSince, SeenNext DEF SeenFedSince
<1>2. /\ since \in [Feature -> Nat] /\ served \in [Feature -> Nat]
      /\ since' \in [Feature -> Nat]
      /\ obs \in Feature \cup {NoFeature}
  BY DEF QuietInv, CallbackTypeOK
\* steps that change neither what is counted nor what is to be
<1>3. ASSUME UNCHANGED <<dpc, saved, since, rec, served, proc>>
      PROVE  Same
  <2>1. Seen' = Seen
    BY <1>1, <1>3 DEF Gone
  <2>2. Pending' = Pending /\ Running' = Running
    BY <1>3 DEF Pending, Running
  <2> QED BY <2>1, <2>2
\* the ends of the process
<1>4. ASSUME Running, ~Running', UNCHANGED <<dpc, saved, since, rec, served>>
      PROVE  Abstract!Stop
  <2>1. Seen' = Seen
    BY <1>1, <1>4 DEF Gone
  <2>2. Pending' = Pending
    BY <1>4 DEF Pending
  <2> QED BY <1>4, <2>1, <2>2 DEF Abstract!Stop
<1>5. CASE dpc = "none" /\ RecordArrives
  <2>1. /\ cpc = "idle" /\ Running /\ Running' /\ served' = [f \in Feature |-> 0]
        /\ UNCHANGED <<dpc, saved, since>>
    BY <1>5 DEF RecordArrives, listVars, Running
  <2>2. Seen' = Seen /\ Pending = {}
    BY <1>1, <2>1, IdleIsDone DEF Gone
  <2>3. CASE Pending' = {}
    BY <2>1, <2>2, <2>3
  <2>4. CASE Pending' # {}
    <3>1. Pending' \in SUBSET Feature
      BY DEF Pending
    <3>2. Abstract!Record(Pending')
      BY <2>1, <2>2, <2>4 DEF Abstract!Record
    <3> QED BY <3>1, <3>2 DEF Abstract!MonitorNext
  <2> QED BY <2>3, <2>4
<1>6. CASE Lookup \/ Check \/ Learn \/ Step \/ Report \/ Advance
  <2>1. UNCHANGED <<dpc, saved, since, rec, served, proc>>
    BY <1>6 DEF Lookup, Check, Learn, Step, Report, Advance, listVars
  <2> QED BY <1>3, <2>1
<1>7. ASSUME NEW alarm \in {0, 1}, Store(alarm)
      PROVE  Abstract!Observing
  <2>1. /\ cpc = "store" /\ Running /\ Running'
        /\ served' = [served EXCEPT ![obs] = served[obs] + 1]
        /\ since' = [since EXCEPT ![obs] = since[obs] + 1]
        /\ UNCHANGED <<dpc, saved, rec>>
    BY <1>7 DEF Store, Running
  <2>2. PICK pos \in DOMAIN list : SweepAt(pos)
    BY <2>1 DEF QuietInv, SweepInv
  <2>3. /\ dpc = "none" /\ obs \in Feature /\ rec[obs] = "positive" /\ served[obs] = 0
    <3>1. NameAt(pos) = obs /\ obs \in Feature /\ rec[obs] = "positive"
      BY <2>1, <2>2, Positions DEF SweepAt, QuietInv
    <3>2. ~Passed(pos, pos)
      BY <2>1, Positions DEF Passed, QuietInv
    <3> QED BY <2>1, <2>2, <3>1, <3>2 DEF SweepAt, QuietInv, SweepInv
  <2>4. obs \in Pending /\ Pending' = Pending \ {obs}
    BY <1>2, <2>1, <2>3 DEF Pending
  <2>5. Seen' = [Seen EXCEPT ![obs] = Seen[obs] + 1]
    BY <1>1, <1>2, <2>1, <2>3 DEF Gone
  <2>6. Abstract!Observe(obs)
    BY <2>1, <2>4, <2>5 DEF Abstract!Observe
  <2> QED BY <2>3, <2>6 DEF Abstract!Observing
<1>8. CASE LookupFails \/ CheckFails \/ ReportFails \/ Fault \/ Stop
  <2>1. Running /\ ~Running' /\ UNCHANGED <<dpc, saved, since, rec, served>>
    BY <1>8 DEF LookupFails, CheckFails, ReportFails, Fault, Stop, Abort, Exit,
         Running, listVars, broVars
  <2> QED BY <1>4, <2>1 DEF Abstract!MonitorNext
<1>9. CASE cpc = "idle" /\ \E f \in Feature : CallReset(f)
  <2>1. /\ dpc = "none" /\ dpc' = "erase" /\ UNCHANGED <<since, rec, served, proc>>
    BY <1>9 DEF CallReset, ResetFind, broVars
  <2>2. Seen' = Seen /\ Pending' = Pending /\ Running' = Running
    BY <1>1, <2>1 DEF Gone, Pending, Running
  <2> QED BY <2>2
<1>10. CASE Erase
  <2>1. /\ dpc = "erase" /\ dpc' = "emplace" /\ Running
        /\ UNCHANGED <<saved, since, rec, served, proc>>
    BY <1>10 DEF Erase, ResetErase, broVars
  <2>2. saved.name \in Feature /\ cpc = "idle"
    BY <2>1 DEF QuietInv, ListInv, CopyInv, SweepInv
  <2>3. Pending = {} /\ Pending' = Pending /\ Running' = Running
    BY <2>1, <2>2, IdleIsDone DEF Pending, Running
  <2>4. Seen' = [Seen EXCEPT ![saved.name] = 0]
    BY <1>1, <2>1, <2>2 DEF Gone
  <2>5. Abstract!Forget(saved.name)
    BY <2>1, <2>3, <2>4 DEF Abstract!Forget
  <2> QED BY <2>2, <2>5 DEF Abstract!MonitorNext
<1>11. CASE Emplace
  <2>1. /\ dpc = "emplace" /\ dpc' = "none" /\ since' = [since EXCEPT ![saved.name] = 0]
        /\ UNCHANGED <<rec, served, proc>>
    BY <1>11 DEF Emplace, ResetEmplace, broVars
  <2>2. Seen' = Seen /\ Pending' = Pending /\ Running' = Running
    BY <1>1, <1>2, <2>1 DEF Gone, Pending, Running
  <2> QED BY <2>2
<1>12. CASE UNCHANGED callbackVars
  BY <1>3, <1>12 DEF callbackVars, listVars, broVars
<1> QED
  BY <1>5, <1>6, <1>7, <1>8, <1>9, <1>10, <1>11, <1>12
  DEF QuietNext, BroThread, Abstract!MonitorNext

\* The walk over the list with its iterator and registers, and reset() with its erase
\* and its append, do nothing that the atomic observations and the atomic forgetting
\* of Monitor do not: the safety half of MonitorImplemented.
THEOREM MonitorSafe == QuietSpec => Abstract!MonitorSafety
<1>1. CallbackInit => Abstract!MonitorInit
  BY InitImplements
<1>2. QuietInv /\ QuietInv' /\ [QuietNext]_callbackVars
        => [Abstract!MonitorNext]_<<Seen, Pending, Running>>
  BY StepImplements
<1> QED
  BY <1>1, <1>2, QuietCorrect, PTL
  DEF QuietSpec, Abstract!MonitorSafety, Abstract!monitorVars
=============================================================================
