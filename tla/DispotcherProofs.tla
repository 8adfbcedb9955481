-------------------------- MODULE DispotcherProofs --------------------------
(***************************************************************************)
(* What the list of features is worth whoever works on it: lemmas about    *)
(* the operators of Dispotcher, and about its four steps (construction,    *)
(* and the three of reset()) that Callback and Dbuspotcher are made of.    *)
(***************************************************************************)
EXTENDS Dispotcher, SequenceTheorems, TLAPS

-----------------------------------------------------------------------------
(* Lemmas about the operators.                                             *)

\* What RemoveAt leaves: everything but the element at i, in its order.
LEMMA RemoveAtElements ==
    ASSUME NEW S, NEW s \in Seq(S), NEW i \in 1..Len(s)
    PROVE  /\ RemoveAt(s, i) \in Seq(S)
           /\ Len(RemoveAt(s, i)) = Len(s) - 1
           /\ \A j \in 1..(Len(s) - 1) :
                RemoveAt(s, i)[j] = IF j < i THEN s[j] ELSE s[j + 1]
<1> DEFINE front == SubSeq(s, 1, i - 1)
           back  == SubSeq(s, i + 1, Len(s))
<1>1. Len(s) \in Nat
  BY LenProperties
<1>2. /\ front \in Seq(S) /\ Len(front) = i - 1
      /\ \A j \in 1..(i - 1) : front[j] = s[j]
  <2>1. CASE i = 1
    BY <1>1, <2>1, SubSeqProperties
  <2>2. CASE i # 1
    BY <1>1, <2>2, SubSeqProperties
  <2> QED BY <2>1, <2>2
<1>3. /\ back \in Seq(S) /\ Len(back) = Len(s) - i
      /\ \A j \in 1..(Len(s) - i) : back[j] = s[i + j]
  BY <1>1, SubSeqProperties
<1>4. /\ front \o back \in Seq(S)
      /\ Len(front \o back) = Len(front) + Len(back)
      /\ \A j \in 1..(Len(front) + Len(back)) :
           (front \o back)[j] = IF j <= Len(front) THEN front[j]
                                ELSE back[j - Len(front)]
  <2> HIDE DEF front, back
  <2> QED BY <1>2, <1>3, ConcatProperties
<1>5. RemoveAt(s, i) = front \o back
  BY DEF RemoveAt
<1>6. ASSUME NEW j \in 1..(Len(s) - 1)
      PROVE  (front \o back)[j] = IF j < i THEN s[j] ELSE s[j + 1]
  <2> HIDE DEF front, back
  <2>1. CASE j < i
    BY <1>1, <1>2, <1>3, <1>4, <2>1
  <2>2. CASE ~(j < i)
    <3>1. (front \o back)[j] = back[j - (i - 1)]
      BY <1>1, <1>2, <1>3, <1>4, <2>2
    <3>2. j - (i - 1) \in 1..(Len(s) - i)
      BY <1>1, <2>2
    <3>3. i + (j - (i - 1)) = j + 1
      BY <1>1
    <3> QED BY <1>3, <2>2, <3>1, <3>2, <3>3
  <2> QED BY <2>1, <2>2
<1> HIDE DEF front, back
<1> QED BY <1>1, <1>2, <1>3, <1>4, <1>5, <1>6

\* ++it leads to an address, to end() or nowhere.
LEMMA AfterType ==
    ASSUME list \in Seq(Addr), NEW a
    PROVE  After(a) \in Addr \cup {End, Garbage}
<1>1. CASE Listed(a)
  <2> DEFINE i == CHOOSE j \in DOMAIN list : list[j] = a
  <2>1. \E j \in DOMAIN list : list[j] = a
    BY <1>1 DEF Listed, Range
  <2>2. i \in DOMAIN list
    BY <2>1
  <2>3. Len(list) \in Nat /\ DOMAIN list = 1..Len(list)
        /\ list \in [1..Len(list) -> Addr]
    BY LenProperties
  <2>4. After(a) = IF i = Len(list) THEN End ELSE list[i + 1]
    BY <1>1 DEF After
  <2> HIDE DEF i
  <2>5. CASE i = Len(list)
    BY <2>4, <2>5
  <2>6. CASE i # Len(list)
    <3>1. i + 1 \in 1..Len(list)
      BY <2>2, <2>3, <2>6
    <3> QED BY <2>3, <2>4, <2>6, <3>1
  <2> QED BY <2>5, <2>6
<1>2. CASE ~Listed(a)
  BY <1>2 DEF After
<1> QED BY <1>1, <1>2

\* begin() is an address or end().
LEMMA BeginType ==
    ASSUME list \in Seq(Addr)
    PROVE  Begin \in Addr \cup {End}
<1>1. CASE list = << >>
  BY <1>1 DEF Begin
<1>2. CASE list # << >>
  <2>1. Len(list) \in Nat /\ list \in [1..Len(list) -> Addr] /\ Len(list) # 0
    BY <1>2, LenProperties, EmptySeq
  <2>2. 1 \in 1..Len(list)
    BY <2>1
  <2> QED BY <1>2, <2>1, <2>2 DEF Begin
<1> QED BY <1>1, <1>2

\* In a list of different nodes ++it leads from each node to the next, and from the
\* last to end().
LEMMA AfterNext ==
    ASSUME list \in Seq(Addr),
           \A i, j \in DOMAIN list : list[i] = list[j] => i = j,
           NEW pos \in DOMAIN list
    PROVE  /\ Listed(list[pos])
           /\ pos = Len(list) => After(list[pos]) = End
           /\ pos # Len(list) => /\ pos + 1 \in DOMAIN list
                                /\ After(list[pos]) = list[pos + 1]
<1>1. Len(list) \in Nat /\ DOMAIN list = 1..Len(list)
  BY LenProperties
<1>2. Listed(list[pos])
  BY DEF Listed, Range
<1> DEFINE i == CHOOSE j \in DOMAIN list : list[j] = list[pos]
<1>3. i = pos
  <2>1. i \in DOMAIN list /\ list[i] = list[pos]
    OBVIOUS
  <2> HIDE DEF i
  <2> QED BY <2>1
<1>4. After(list[pos]) = IF i = Len(list) THEN End ELSE list[i + 1]
  BY <1>2 DEF After
<1> HIDE DEF i
<1>5. pos # Len(list) => pos + 1 \in DOMAIN list
  BY <1>1
<1> QED BY <1>2, <1>3, <1>4, <1>5

\* A node made by the constructor or by reset() is a node.
LEMMA FreshType ==
    ASSUME NEW f \in Feature \cup {NoFeature}, NEW t \in BroType, NEW c \in Conf
    PROVE  Fresh(f, t, c) \in Node
BY DEF Fresh, Node

-----------------------------------------------------------------------------
(* Types.                                                                  *)

\* The constructor's list and memory.
LEMMA ListTypeInit == DispotcherInit => ListTypeOK
<1> SUFFICES ASSUME DispotcherInit PROVE ListTypeOK
  OBVIOUS
<1> USE DispotcherAssumption
<1>1. mem \in [Addr -> Node]
  <2>1. Raw \in Node
    BY FreshType DEF Raw
  <2>2. ASSUME NEW a \in Addr, a \in Range(Heap)
        PROVE  LET f == SectionOrder[CHOOSE i \in DOMAIN Heap : Heap[i] = a]
               IN  Fresh(f, TypeOf[f], ConfOf[f]) \in Node
    <3> DEFINE i == CHOOSE j \in DOMAIN Heap : Heap[j] = a
    <3>1. \E j \in DOMAIN Heap : Heap[j] = a
      BY <2>2 DEF Range
    <3>2. i \in DOMAIN Heap
      BY <3>1
    <3>3. DOMAIN Heap = 1..Len(Heap) /\ SectionOrder \in [1..Len(SectionOrder) -> Feature]
      BY LenProperties
    <3>4. SectionOrder[i] \in Feature
      BY <3>2, <3>3
    <3> HIDE DEF i
    <3>5. Fresh(SectionOrder[i], TypeOf[SectionOrder[i]], ConfOf[SectionOrder[i]]) \in Node
      BY <3>4, FreshType
    <3> QED BY <3>5 DEF i
  <2> QED BY <2>1, <2>2 DEF DispotcherInit
<1>2. list \in Seq(Addr) /\ dpc = "none" /\ target = End /\ saved \in Copied
  BY DEF DispotcherInit, NoCopy, Copied
<1> QED BY <1>1, <1>2 DEF ListTypeOK

\* reset() finds the node.
LEMMA ListTypeFind ==
    ASSUME ListTypeOK, NEW f \in Feature, ResetFind(f)
    PROVE  ListTypeOK'
<1>1. PICK i \in DOMAIN list :
           /\ target' = list[i]
           /\ saved' = [name |-> f, type |-> mem[list[i]].type,
                        conf |-> mem[list[i]].conf]
  BY DEF ResetFind
<1>2. dpc' = "erase" /\ UNCHANGED <<list, mem>>
  BY DEF ResetFind
<1>3. list[i] \in Addr /\ mem[list[i]] \in Node
  BY LenProperties DEF ListTypeOK
<1>4. saved' \in Copied /\ target' \in Addr
  BY <1>1, <1>3 DEF Copied, Node
<1> QED BY <1>2, <1>4 DEF ListTypeOK

\* erase() unhooks it.
LEMMA ListTypeErase ==
    ASSUME ListTypeOK, ResetErase
    PROVE  ListTypeOK'
<1>1. PICK i \in DOMAIN list : list' = RemoveAt(list, i)
  BY DEF ResetErase
<1>2. dpc' = "emplace" /\ UNCHANGED <<mem, target, saved>>
  BY DEF ResetErase
<1>3. list \in Seq(Addr) /\ i \in 1..Len(list)
  BY LenProperties DEF ListTypeOK
<1>4. list' \in Seq(Addr)
  BY <1>1, <1>3, RemoveAtElements
<1> QED BY <1>2, <1>4 DEF ListTypeOK

\* emplace_back() hooks a fresh one in.
LEMMA ListTypeEmplace ==
    ASSUME ListTypeOK, ResetEmplace
    PROVE  ListTypeOK'
<1>1. PICK a \in Addr \ Range(list) :
           /\ mem' = [mem EXCEPT ![a] = Fresh(saved.name, saved.type, saved.conf)]
           /\ list' = Append(list, a)
  BY DEF ResetEmplace
<1>2. dpc' = "none" /\ target' = End /\ saved' = NoCopy
  BY DEF ResetEmplace
<1>3. Fresh(saved.name, saved.type, saved.conf) \in Node
  BY FreshType DEF ListTypeOK, Copied
<1>4. mem' \in [Addr -> Node] /\ list' \in Seq(Addr)
  BY <1>1, <1>3, AppendProperties DEF ListTypeOK
<1>5. saved' \in Copied
  BY <1>2, DispotcherAssumption DEF NoCopy, Copied
<1> QED BY <1>2, <1>4, <1>5 DEF ListTypeOK

-----------------------------------------------------------------------------
(* The inductive invariant of the list.  That it has one node per feature, *)
(* each with the settings of its feature, is not inductive: it says        *)
(* nothing of what reset() holds between its steps.  ListInv adds it: the  *)
(* copy it made is the feature's own settings, and the node it is going to *)
(* erase is the one of the name it has copied.                             *)

\* The feature reset() has erased and not appended yet.
Gone(f) == dpc = "emplace" /\ f = saved.name

\* The settings feature f may have: the configuration of the ini file, and its type
\* or one of those that may be learnt.
Own(learnt, f, t, c) == c = ConfOf[f] /\ t \in {TypeOf[f]} \cup learnt[f]

NamesInv ==
    /\ \A i, j \in DOMAIN list : mem[list[i]].name = mem[list[j]].name => i = j
    /\ \A i \in DOMAIN list : mem[list[i]].name \in Feature
    /\ \A f \in Feature : Known(f) <=> ~Gone(f)

SettingsInv(learnt) ==
    \A i \in DOMAIN list :
        Own(learnt, mem[list[i]].name, mem[list[i]].type, mem[list[i]].conf)

CopyInv(learnt) ==
    /\ dpc # "none" => /\ saved.name \in Feature
                       /\ Own(learnt, saved.name, saved.type, saved.conf)
    /\ dpc = "erase" => /\ \E i \in DOMAIN list : list[i] = target
                        /\ mem[target].name = saved.name

ListInv(learnt) == NamesInv /\ SettingsInv(learnt) /\ CopyInv(learnt)

\* What ListInv says only depends on the list, on what reset() holds and on the
\* names, types and configurations in memory.
LEMMA ListInvFrame ==
    ASSUME NEW learnt, ListTypeOK, ListInv(learnt),
           UNCHANGED <<list, dpc, target, saved>>,
           \A a \in Addr : /\ mem'[a].name = mem[a].name
                           /\ mem'[a].conf = mem[a].conf,
           \A a \in Addr : mem[a].name \in Feature =>
                \/ mem'[a].type = mem[a].type
                \/ mem'[a].type \in learnt[mem[a].name]
    PROVE  ListInv(learnt)'
<1>1. \A i \in DOMAIN list : list[i] \in Addr
  BY LenProperties DEF ListTypeOK
<1>2. list' = list /\ dpc' = dpc /\ target' = target /\ saved' = saved
  OBVIOUS
<1>3. NamesInv'
  BY <1>1, <1>2 DEF ListInv, NamesInv, Known, Gone
<1>4. SettingsInv(learnt)'
  <2> SUFFICES ASSUME NEW i \in DOMAIN list
               PROVE  Own(learnt, mem'[list[i]].name, mem'[list[i]].type,
                          mem'[list[i]].conf)
    BY <1>2 DEF SettingsInv, Own
  <2> DEFINE old == mem[list[i]]
             new == mem'[list[i]]
  <2>1. /\ list[i] \in Addr /\ old.name \in Feature
        /\ Own(learnt, old.name, old.type, old.conf)
    BY <1>1 DEF ListInv, NamesInv, SettingsInv
  <2>2. new.name = old.name /\ new.conf = old.conf
    BY <2>1
  <2>3. new.type = old.type \/ new.type \in learnt[old.name]
    BY <2>1
  <2> QED BY <2>1, <2>2, <2>3 DEF Own
<1>5. CopyInv(learnt)'
  BY <1>1, <1>2 DEF ListInv, CopyInv, Own
<1> QED BY <1>3, <1>4, <1>5 DEF ListInv

LEMMA ListInvInit ==
    ASSUME NEW learnt, DispotcherInit
    PROVE  ListInv(learnt)
<1> USE DispotcherAssumption
<1>1. /\ list = Heap /\ dpc = "none"
      /\ DOMAIN Heap = 1..Len(Heap) /\ DOMAIN SectionOrder = 1..Len(Heap)
      /\ \A i \in 1..Len(Heap) : Heap[i] \in Addr /\ SectionOrder[i] \in Feature
  BY LenProperties DEF DispotcherInit
<1>2. ASSUME NEW i \in 1..Len(Heap)
      PROVE  mem[Heap[i]] = Fresh(SectionOrder[i], TypeOf[SectionOrder[i]],
                                  ConfOf[SectionOrder[i]])
  <2> DEFINE k == CHOOSE j \in DOMAIN Heap : Heap[j] = Heap[i]
  <2>1. k = i
    <3>1. k \in DOMAIN Heap /\ Heap[k] = Heap[i]
      BY <1>1
    <3> HIDE DEF k
    <3> QED BY <1>1, <3>1 DEF IsInjective
  <2>2. Heap[i] \in Addr /\ Heap[i] \in Range(Heap)
    BY <1>1 DEF Range
  <2>3. mem[Heap[i]] = LET f == SectionOrder[k]
                       IN  Fresh(f, TypeOf[f], ConfOf[f])
    BY <2>2 DEF DispotcherInit
  <2> QED BY <2>1, <2>3
<1>3. ASSUME NEW i \in 1..Len(Heap)
      PROVE  /\ mem[list[i]].name = SectionOrder[i]
             /\ mem[list[i]].type = TypeOf[SectionOrder[i]]
             /\ mem[list[i]].conf = ConfOf[SectionOrder[i]]
  <2>1. mem[list[i]] = Fresh(SectionOrder[i], TypeOf[SectionOrder[i]],
                             ConfOf[SectionOrder[i]])
    BY <1>1, <1>2
  <2> HIDE DispotcherAssumption
  <2> QED BY <2>1 DEF Fresh
<1>4. NamesInv
  <2>1. DOMAIN list = 1..Len(Heap)
    BY <1>1
  <2>2. \A i, j \in 1..Len(Heap) : SectionOrder[i] = SectionOrder[j] => i = j
    BY <1>1 DEF IsInjective
  <2>3. \A f \in Feature : \E i \in 1..Len(Heap) : SectionOrder[i] = f
    BY <1>1 DEF Range
  <2>4. \A i \in 1..Len(Heap) : SectionOrder[i] \in Feature
    BY <1>1
  <2>5. \A f \in Feature : ~Gone(f)
    BY <1>1 DEF Gone
  <2> HIDE DispotcherAssumption
  <2>6. \A f \in Feature : Known(f)
    BY <1>3, <2>1, <2>3 DEF Known
  <2>7. \A i, j \in DOMAIN list : mem[list[i]].name = mem[list[j]].name => i = j
    BY <1>3, <2>1, <2>2
  <2>8. \A i \in DOMAIN list : mem[list[i]].name \in Feature
    BY <1>3, <2>1, <2>4
  <2> QED BY <2>5, <2>6, <2>7, <2>8 DEF NamesInv
<1>5. SettingsInv(learnt)
  BY <1>1, <1>3 DEF SettingsInv, Own
<1>6. CopyInv(learnt)
  BY <1>1 DEF CopyInv
<1> QED BY <1>4, <1>5, <1>6 DEF ListInv

\* reset() finds the node: what it copies is the settings of the feature.
LEMMA ListInvFind ==
    ASSUME NEW learnt, ListTypeOK, ListInv(learnt), NEW f \in Feature, ResetFind(f)
    PROVE  ListInv(learnt)'
<1>1. PICK i \in DOMAIN list :
           /\ mem[list[i]].name = f
           /\ target' = list[i]
           /\ saved' = [name |-> f, type |-> mem[list[i]].type,
                        conf |-> mem[list[i]].conf]
  BY DEF ResetFind, FoundAt
<1>2. dpc = "none" /\ dpc' = "erase" /\ list' = list /\ mem' = mem
  BY DEF ResetFind
<1>3. NamesInv'
  BY <1>2 DEF ListInv, NamesInv, Known, Gone
<1>4. SettingsInv(learnt)'
  BY <1>2 DEF ListInv, SettingsInv, Own
<1>5. CopyInv(learnt)'
  <2>1. Own(learnt, f, mem[list[i]].type, mem[list[i]].conf)
    BY <1>1 DEF ListInv, SettingsInv
  <2>2. /\ saved'.name = f /\ saved'.type = mem[list[i]].type
        /\ saved'.conf = mem[list[i]].conf
    BY <1>1
  <2>3. mem'[target'].name = saved'.name
    BY <1>1, <1>2, <2>2
  <2>4. \E j \in DOMAIN list' : list'[j] = target'
    BY <1>1, <1>2
  <2> QED BY <1>2, <2>1, <2>2, <2>3, <2>4 DEF CopyInv, Own
<1> QED BY <1>3, <1>4, <1>5 DEF ListInv

\* erase() drops one node, of the name reset() has copied.
LEMMA ListInvErase ==
    ASSUME NEW learnt, ListTypeOK, ListInv(learnt), ResetErase
    PROVE  ListInv(learnt)'
<1>1. PICK i \in DOMAIN list : list[i] = target /\ list' = RemoveAt(list, i)
  BY DEF ResetErase
<1>2. dpc = "erase" /\ dpc' = "emplace" /\ UNCHANGED <<mem, target, saved>>
  BY DEF ResetErase
<1>3. /\ Len(list) \in Nat /\ DOMAIN list = 1..Len(list) /\ i \in 1..Len(list)
      /\ list \in Seq(Addr)
  BY <1>1, LenProperties DEF ListTypeOK
<1> DEFINE skip(j) == IF j < i THEN j ELSE j + 1
<1>4. /\ DOMAIN list' = 1..(Len(list) - 1)
      /\ \A j \in DOMAIN list' : /\ skip(j) \in DOMAIN list
                                 /\ skip(j) # i
                                 /\ list'[j] = list[skip(j)]
  <2>1. list' \in Seq(Addr) /\ Len(list') = Len(list) - 1
        /\ \A j \in 1..(Len(list) - 1) :
             list'[j] = IF j < i THEN list[j] ELSE list[j + 1]
    BY <1>1, <1>3, RemoveAtElements
  <2>2. DOMAIN list' = 1..(Len(list) - 1)
    BY <2>1, LenProperties
  <2>3. ASSUME NEW j \in 1..(Len(list) - 1)
        PROVE  skip(j) \in 1..Len(list) /\ skip(j) # i /\ list'[j] = list[skip(j)]
    BY <1>3, <2>1
  <2> QED BY <1>3, <2>2, <2>3
<1>5. ASSUME NEW k \in DOMAIN list, k # i
      PROVE  \E j \in DOMAIN list' : skip(j) = k
  <2>1. CASE k < i
    BY <1>3, <1>4, <1>5, <2>1
  <2>2. CASE ~(k < i)
    <3>1. k - 1 \in DOMAIN list' /\ skip(k - 1) = k
      BY <1>3, <1>4, <1>5, <2>2
    <3> QED BY <3>1
  <2> QED BY <2>1, <2>2
<1>6. \A j, k \in DOMAIN list' : skip(j) = skip(k) => j = k
  BY <1>3, <1>4
<1> HIDE DEF skip
<1> DEFINE name(j) == mem[list[j]].name
<1>7. /\ \A j, k \in DOMAIN list : name(j) = name(k) => j = k
      /\ \A j \in DOMAIN list : name(j) \in Feature
      /\ \A f \in Feature : \E j \in DOMAIN list : name(j) = f
      /\ name(i) = saved.name
  BY <1>1, <1>2 DEF ListInv, NamesInv, CopyInv, Known, Gone
<1>8. \A j \in DOMAIN list' : mem'[list'[j]] = mem[list[skip(j)]]
  BY <1>2, <1>4
<1>9. NamesInv'
  <2>1. \A j, k \in DOMAIN list' :
          mem'[list'[j]].name = mem'[list'[k]].name => j = k
    BY <1>4, <1>6, <1>7, <1>8
  <2>2. \A j \in DOMAIN list' : mem'[list'[j]].name \in Feature
    BY <1>4, <1>7, <1>8
  <2>3. ASSUME NEW f \in Feature
        PROVE  (\E j \in DOMAIN list' : mem'[list'[j]].name = f) <=> f # saved.name
    BY <1>4, <1>5, <1>7, <1>8
  <2> QED BY <1>2, <2>1, <2>2, <2>3 DEF NamesInv, Known, Gone
<1>10. SettingsInv(learnt)'
  BY <1>4, <1>8 DEF ListInv, SettingsInv, Own
<1>11. CopyInv(learnt)'
  BY <1>2 DEF ListInv, CopyInv, Own
<1> QED BY <1>9, <1>10, <1>11 DEF ListInv

\* emplace_back() appends the node of the feature that was missing.
LEMMA ListInvEmplace ==
    ASSUME NEW learnt, ListTypeOK, ListInv(learnt), ResetEmplace
    PROVE  ListInv(learnt)'
<1>1. PICK a \in Addr \ Range(list) :
           /\ mem' = [mem EXCEPT ![a] = Fresh(saved.name, saved.type, saved.conf)]
           /\ list' = Append(list, a)
  BY DEF ResetEmplace
<1>2. dpc = "emplace" /\ dpc' = "none"
  BY DEF ResetEmplace
<1> DEFINE last == Len(list) + 1
<1>3. /\ Len(list) \in Nat /\ DOMAIN list = 1..Len(list) /\ list \in Seq(Addr)
      /\ mem \in [Addr -> Node]
      /\ \A j \in DOMAIN list : list[j] \in Addr /\ list[j] # a
  BY LenProperties DEF ListTypeOK, Range
<1>4. /\ DOMAIN list' = 1..last /\ list'[last] = a
      /\ \A j \in DOMAIN list : list'[j] = list[j]
  BY <1>1, <1>3, AppendProperties, LenProperties
<1>5. \A j \in DOMAIN list : mem'[list'[j]] = mem[list[j]]
  BY <1>1, <1>3, <1>4
<1>6. /\ mem'[list'[last]].name = saved.name
      /\ mem'[list'[last]].type = saved.type
      /\ mem'[list'[last]].conf = saved.conf
  <2>1. mem'[list'[last]] = Fresh(saved.name, saved.type, saved.conf)
    BY <1>1, <1>3, <1>4
  <2> QED BY <2>1 DEF Fresh
<1>7. \A j \in DOMAIN list' : j \in DOMAIN list \/ j = last
  BY <1>3, <1>4
<1>8. last \in DOMAIN list' /\ \A j \in DOMAIN list : j \in DOMAIN list'
  BY <1>3, <1>4
<1> HIDE DEF last
<1>9. /\ saved.name \in Feature
      /\ Own(learnt, saved.name, saved.type, saved.conf)
      /\ \A j, k \in DOMAIN list : mem[list[j]].name = mem[list[k]].name => j = k
      /\ \A j \in DOMAIN list : mem[list[j]].name \in Feature \ {saved.name}
      /\ \A f \in Feature \ {saved.name} : \E j \in DOMAIN list : mem[list[j]].name = f
  BY <1>2 DEF ListInv, NamesInv, CopyInv, Known, Gone
<1>10. NamesInv'
  <2>1. \A j, k \in DOMAIN list' :
          mem'[list'[j]].name = mem'[list'[k]].name => j = k
    BY <1>5, <1>6, <1>7, <1>9
  <2>2. \A j \in DOMAIN list' : mem'[list'[j]].name \in Feature
    BY <1>5, <1>6, <1>7, <1>9
  <2>3. ASSUME NEW f \in Feature
        PROVE  \E j \in DOMAIN list' : mem'[list'[j]].name = f
    BY <1>5, <1>6, <1>8, <1>9
  <2> QED BY <1>2, <2>1, <2>2, <2>3 DEF NamesInv, Known, Gone
<1>11. SettingsInv(learnt)'
  <2> SUFFICES ASSUME NEW j \in DOMAIN list'
               PROVE  Own(learnt, mem'[list'[j]].name, mem'[list'[j]].type,
                          mem'[list'[j]].conf)
    BY DEF SettingsInv, Own
  <2>1. CASE j \in DOMAIN list
    BY <1>5, <2>1 DEF ListInv, SettingsInv
  <2>2. CASE j = last
    BY <1>6, <1>9, <2>2
  <2> QED BY <1>7, <2>1, <2>2
<1>12. CopyInv(learnt)'
  BY <1>2 DEF CopyInv
<1> QED BY <1>10, <1>11, <1>12 DEF ListInv
-----------------------------------------------------------------------------
(* What the list holds after each half of reset().                         *)

\* Different nodes have different names.
LEMMA DistinctNodes ==
    NamesInv => \A i, j \in DOMAIN list : list[i] = list[j] => i = j
BY DEF NamesInv

\* erase() leaves nodes that were there before.
LEMMA ErasedNodes ==
    ASSUME ListTypeOK, ResetErase
    PROVE  \A j \in DOMAIN list' : \E k \in DOMAIN list : list'[j] = list[k]
<1>1. PICK i \in DOMAIN list : list' = RemoveAt(list, i)
  BY DEF ResetErase
<1>2. /\ Len(list) \in Nat /\ DOMAIN list = 1..Len(list) /\ i \in 1..Len(list)
      /\ list \in Seq(Addr)
  BY <1>1, LenProperties DEF ListTypeOK
<1>3. /\ list' \in Seq(Addr) /\ Len(list') = Len(list) - 1
      /\ \A j \in 1..(Len(list) - 1) :
           list'[j] = IF j < i THEN list[j] ELSE list[j + 1]
  BY <1>1, <1>2, RemoveAtElements
<1>4. DOMAIN list' = 1..(Len(list) - 1)
  BY <1>3, LenProperties
<1>5. ASSUME NEW j \in 1..(Len(list) - 1)
      PROVE  \E k \in 1..Len(list) : list'[j] = list[k]
  <2>1. CASE j < i
    BY <1>2, <1>3, <2>1
  <2>2. CASE ~(j < i)
    <3>1. j + 1 \in 1..Len(list)
      BY <1>2
    <3> QED BY <1>3, <2>2, <3>1
  <2> QED BY <2>1, <2>2
<1> QED BY <1>2, <1>4, <1>5

\* emplace_back() leaves the nodes that were there, none of the name appended, and
\* one that has counted nothing.
LEMMA EmplacedNodes ==
    ASSUME NEW learnt, ListTypeOK, ListInv(learnt), ResetEmplace
    PROVE  \A j \in DOMAIN list' :
              \/ mem'[list'[j]] = Fresh(saved.name, saved.type, saved.conf)
              \/ /\ j \in DOMAIN list
                 /\ list'[j] = list[j]
                 /\ mem'[list'[j]] = mem[list[j]]
                 /\ mem[list[j]].name # saved.name
<1>1. PICK a \in Addr \ Range(list) :
           /\ mem' = [mem EXCEPT ![a] = Fresh(saved.name, saved.type, saved.conf)]
           /\ list' = Append(list, a)
  BY DEF ResetEmplace
<1>2. /\ Len(list) \in Nat /\ DOMAIN list = 1..Len(list) /\ list \in Seq(Addr)
      /\ mem \in [Addr -> Node]
      /\ \A j \in DOMAIN list : list[j] \in Addr /\ list[j] # a
  BY LenProperties DEF ListTypeOK, Range
<1>3. /\ DOMAIN list' = 1..(Len(list) + 1) /\ list'[Len(list) + 1] = a
      /\ \A j \in DOMAIN list : list'[j] = list[j]
  BY <1>1, <1>2, AppendProperties, LenProperties
<1>4. \A j \in DOMAIN list : mem[list[j]].name # saved.name
  BY DEF ResetEmplace, ListInv, NamesInv, CopyInv, Known, Gone
<1>5. \A j \in DOMAIN list' : j \in DOMAIN list \/ j = Len(list) + 1
  BY <1>2, <1>3
<1>6. mem'[a] = Fresh(saved.name, saved.type, saved.conf)
  BY <1>1, <1>2
<1>7. \A j \in DOMAIN list : mem'[list'[j]] = mem[list[j]]
  BY <1>1, <1>2, <1>3
<1> QED BY <1>3, <1>4, <1>5, <1>6, <1>7
=============================================================================
