----------------------------- MODULE Dispotcher -----------------------------
(***************************************************************************)
(* class Dispotcher: the std::list of the monitored features, one SPOT     *)
(* instance per feature.                                                   *)
(*                                                                         *)
(* The list is the sequence of the addresses of its nodes; mem is what     *)
(* each address holds.  Freeing a node leaves its value in memory until    *)
(* the allocator hands the address out again, but overwrites its first     *)
(* word, where std::list keeps the link to the next node: an iterator that *)
(* still points there reads a stale value and a link that leads nowhere.   *)
(*                                                                         *)
(* reset() is three steps, because the class takes no lock and the thread  *)
(* that calls it is not the only one that reads the list: it finds the     *)
(* node and copies its type and configuration, erases the node, and        *)
(* appends a fresh one.                                                    *)
(***************************************************************************)
EXTENDS ProcessLife, Integers, SequencesExt

CONSTANTS Feature,       \* names of the sections of the ini file but "default"
          Addr,          \* addresses the allocator may hand out for a node
          Conf,          \* SPOT configurations
          BroType,       \* Bro types, UnknownType among them
          SectionOrder,  \* the features in the order of the ini file
          Heap,          \* the addresses the constructor's nodes are given
          ConfOf,        \* configuration of each feature (get_config)
          TypeOf,        \* bro_type of each feature
          NoFeature,     \* name in a block that never was a node
          RawConf,       \* configuration in such a block
          UnknownType,   \* BRO_TYPE_UNKNOWN
          End,           \* the list's sentinel, end()
          Garbage        \* a word that is no link

ASSUME DispotcherAssumption ==
    /\ SectionOrder \in Seq(Feature)
    /\ Range(SectionOrder) = Feature /\ IsInjective(SectionOrder)
    /\ Heap \in Seq(Addr)
    /\ Len(Heap) = Len(SectionOrder) /\ IsInjective(Heap)
    /\ ConfOf \in [Feature -> Conf] /\ TypeOf \in [Feature -> BroType]
    /\ NoFeature \notin Feature /\ RawConf \in Conf /\ UnknownType \in BroType
    /\ End \notin Addr /\ Garbage \notin Addr /\ End # Garbage

VARIABLES list,    \* the nodes of _features, first to last
          mem,     \* what each address holds
          dpc,     \* where reset() stands: "none", "erase" or "emplace"
          target,  \* the iterator reset() holds
          saved    \* the name, type and configuration reset() has copied

listVars == <<list, mem, dpc, target, saved>>

-----------------------------------------------------------------------------
(* Nodes.  n and al are the fields of SpotStatus the properties tell apart: *)
(* observations seen and alarms raised.                                     *)

Node == [name : Feature \cup {NoFeature}, type : BroType, conf : Conf,
         n : Nat, al : Nat]

Copied == [name : Feature \cup {NoFeature}, type : BroType, conf : Conf]

\* Mutant: the counter of observations starts one too low.
FreshLow(f, t, c) == [name |-> f, type |-> t, conf |-> c, n |-> -1, al |-> 0]

\* MonitoredFeature(name, type, conf): a Spot that has seen nothing.
Fresh(f, t, c) == [name |-> f, type |-> t, conf |-> c, n |-> 0, al |-> 0]

Raw == Fresh(NoFeature, UnknownType, RawConf)

\* What the locals of reset() hold while it is not running.
NoCopy == [name |-> NoFeature, type |-> UnknownType, conf |-> RawConf]

Listed(a) == a \in Range(list)

\* begin() and ++it: the first node, and the one a node's link leads to.
Begin == IF list = << >> THEN End ELSE list[1]

After(a) ==
    IF Listed(a)
    THEN LET i == CHOOSE j \in DOMAIN list : list[j] = a
         IN  IF i = Len(list) THEN End ELSE list[i + 1]
    ELSE Garbage

\* The linear search of status, config and reset: the first node named f.
FoundAt(f, i) ==
    /\ i \in DOMAIN list
    /\ mem[list[i]].name = f
    /\ \A j \in 1..(i - 1) : mem[list[j]].name # f

Known(f) == \E i \in DOMAIN list : mem[list[i]].name = f

\* names()
Names == [i \in DOMAIN list |-> mem[list[i]].name]

-----------------------------------------------------------------------------
\* The constructor: one node per section, in the order of the file.
DispotcherInit ==
    /\ proc = "running"
    /\ list = Heap
    /\ mem = [a \in Addr |->
                IF a \in Range(Heap)
                THEN LET f == SectionOrder[CHOOSE i \in DOMAIN Heap : Heap[i] = a]
                     IN  Fresh(f, TypeOf[f], ConfOf[f])
                ELSE Raw]
    /\ dpc = "none" /\ target = End /\ saved = NoCopy

\* Mutant: the configuration is not copied from the node.
ResetFindDefault(f) ==
    /\ Running /\ dpc = "none"
    /\ \E i \in DOMAIN list :
         /\ FoundAt(f, i)
         /\ target' = list[i]
         /\ saved' = [NoCopy EXCEPT !.name = f, !.type = mem[list[i]].type]
    /\ dpc' = "erase"
    /\ UNCHANGED <<list, mem>>

\* Mutant: the type is not copied from the node.
ResetFindUntyped(f) ==
    /\ Running /\ dpc = "none"
    /\ \E i \in DOMAIN list :
         /\ FoundAt(f, i)
         /\ target' = list[i]
         /\ saved' = [NoCopy EXCEPT !.name = f, !.conf = mem[list[i]].conf]
    /\ dpc' = "erase"
    /\ UNCHANGED <<list, mem>>

\* reset(f) finds the node and copies its configuration and its type.
ResetFind(f) ==
    /\ Running /\ dpc = "none"
    /\ \E i \in DOMAIN list :
         /\ FoundAt(f, i)
         /\ target' = list[i]
         /\ saved' = [name |-> f, type |-> mem[list[i]].type,
                      conf |-> mem[list[i]].conf]
    /\ dpc' = "erase"
    /\ UNCHANGED <<list, mem>>

\* Mutant: the old node is not erased.
ResetEraseNot ==
    /\ Running /\ dpc = "erase"
    /\ dpc' = "emplace"
    /\ UNCHANGED <<list, mem, target, saved>>

\* _features.erase(it): the node is unhooked, destroyed and freed.
ResetErase ==
    /\ Running /\ dpc = "erase"
    /\ \E i \in DOMAIN list : list[i] = target /\ list' = RemoveAt(list, i)
    /\ dpc' = "emplace"
    /\ UNCHANGED <<mem, target, saved>>

\* Mutant: the new node keeps the counters of what was at its address.
ResetEmplaceKeeps ==
    /\ Running /\ dpc = "emplace"
    /\ \E a \in Addr \ Range(list) :
         /\ mem' = [mem EXCEPT ![a].name = saved.name, ![a].type = saved.type,
                              ![a].conf = saved.conf]
         /\ list' = Append(list, a)
    /\ dpc' = "none" /\ target' = End /\ saved' = NoCopy

\* _features.emplace_back(feature, type, conf), at any address that is free.
ResetEmplace ==
    /\ Running /\ dpc = "emplace"
    /\ \E a \in Addr \ Range(list) :
         /\ mem' = [mem EXCEPT ![a] = Fresh(saved.name, saved.type, saved.conf)]
         /\ list' = Append(list, a)
    /\ dpc' = "none" /\ target' = End /\ saved' = NoCopy

-----------------------------------------------------------------------------
\* Types of the variables; freed memory keeps a value of the node's type.
ListTypeOK ==
    /\ list \in Seq(Addr) /\ mem \in [Addr -> Node]
    /\ dpc \in {"none", "erase", "emplace"}
    /\ target \in Addr \cup {End} /\ saved \in Copied
=============================================================================
