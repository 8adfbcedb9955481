--------------------------- MODULE IniConfigProofs ---------------------------
(***************************************************************************)
(* Proofs about IniConfig, for any ini file: any sections in any order,    *)
(* any options and any entries.                                            *)
(***************************************************************************)
EXTENDS IniConfig, SequenceTheorems, FiniteSetTheorems, TLAPS

-----------------------------------------------------------------------------
(* The inductive invariant.                                                *)

\* The feature the constructor makes of a section.
FeatureOf(s) == [name |-> s, type |-> TypeFor(s), conf |-> GetConfig(s, GetDefaultConfig)]

FeatureSet == {FeatureOf(s) : s \in Range(order)}

\* The loop is at a section of the file, and has made features of some.
LoopInv ==
    /\ order \in Seq(Section) /\ i \in 0..Len(order)
    /\ features \in Seq(FeatureSet)

\* They are those of the sections so far but "default" ...
SoFarInv ==
    /\ \A k \in DOMAIN features :
         \E p \in 1..i : order[p] # Default /\ features[k] = FeatureOf(order[p])
    /\ \A p \in 1..i : order[p] # Default =>
         \E k \in DOMAIN features : features[k].name = order[p]

\* ... in their order.
OrderInv ==
    \A j, k \in DOMAIN features :
        j < k => \E p, q \in 1..i :
                    /\ p < q
                    /\ order[p] = features[j].name /\ order[q] = features[k].name

IniInv == LoopInv /\ SoFarInv /\ OrderInv

-----------------------------------------------------------------------------
LEMMA IniInvInit == IniInit => IniInv
<1> SUFFICES ASSUME IniInit PROVE IniInv
  OBVIOUS
<1>1. order \in Seq(Section)
  <2>1. Cardinality(Section) \in Nat
    BY IniAssumption, FS_CardinalityType
  <2>2. PICK n \in 0..Cardinality(Section) : order \in [1..n -> Section]
    BY DEF IniInit
  <2>3. n \in Nat
    BY <2>1, <2>2
  <2> QED BY <2>2, <2>3, IsASeq
<1>2. Len(order) \in Nat /\ i = 0 /\ features = << >>
  BY <1>1, LenProperties DEF IniInit
<1>3. features \in Seq(FeatureSet) /\ DOMAIN features = {}
  BY <1>2, EmptySeq, LenProperties
<1> QED BY <1>1, <1>2, <1>3 DEF IniInv, LoopInv, SoFarInv, OrderInv

\* What a section gives depends on the file alone.
LEMMA SameFeatures ==
    ASSUME UNCHANGED <<order, entry>>
    PROVE  FeatureSet' = FeatureSet /\ \A t : FeatureOf(t)' = FeatureOf(t)
<1>1. \A t, o : GetNumber(t, o)' = GetNumber(t, o) /\ GetBoolean(t, o)' = GetBoolean(t, o)
  BY DEF GetNumber, GetBoolean
<1>2. \A t, o, d : SetOr(t, o, d)' = SetOr(t, o, d)
  BY <1>1 DEF SetOr
<1>3. GetDefaultConfig' = GetDefaultConfig
  BY <1>2 DEF GetDefaultConfig
<1>4. \A t, d : GetConfig(t, d)' = GetConfig(t, d)
  BY <1>2 DEF GetConfig
<1>5. \A t : TypeFor(t)' = TypeFor(t)
  BY <1>1 DEF TypeFor, DefaultType
<1>6. \A t : FeatureOf(t)' = FeatureOf(t)
  BY <1>3, <1>4, <1>5 DEF FeatureOf
<1> QED BY <1>6 DEF FeatureSet

\* One pass of the loop over the sections.
LEMMA AddSectionStep ==
    ASSUME IniInv, AddSection
    PROVE  IniInv'
<1> DEFINE s == order[i + 1]
<1>1. /\ order \in Seq(Section) /\ Len(order) \in Nat /\ DOMAIN order = 1..Len(order)
      /\ i \in Nat /\ i + 1 \in 1..Len(order) /\ i' = i + 1
      /\ features \in Seq(FeatureSet) /\ Len(features) \in Nat
      /\ DOMAIN features = 1..Len(features)
      /\ UNCHANGED <<order, entry>>
  BY LenProperties DEF IniInv, LoopInv, AddSection
<1>2. FeatureSet' = FeatureSet /\ \A t : FeatureOf(t)' = FeatureOf(t)
  BY <1>1, SameFeatures
<1>3. \A p \in 1..i : p \in 1..i'
  BY <1>1
<1>4. s \in Range(order)
  BY <1>1 DEF Range
<1>5. features' = IF s = Default THEN features ELSE Append(features, FeatureOf(s))
  BY DEF AddSection, FeatureOf
<1> HIDE DEF s
<1>6. i' = i + 1 /\ s = order[i'] /\ i' \in 1..i' /\ i' \in 0..Len(order')
      /\ \A p \in 1..i' : p \in 1..i \/ p = i'
  BY <1>1 DEF s
<1>7. CASE s = Default
  <2>1. features' = features
    BY <1>5, <1>7
  <2>2. LoopInv'
    BY <1>1, <1>2, <1>6, <2>1 DEF LoopInv
  <2>3. SoFarInv'
    BY <1>1, <1>2, <1>3, <1>6, <1>7, <2>1 DEF IniInv, SoFarInv
  <2>4. OrderInv'
    BY <1>1, <1>3, <2>1 DEF IniInv, OrderInv
  <2> QED BY <2>2, <2>3, <2>4 DEF IniInv
<1>8. CASE s # Default
  <2> DEFINE e == FeatureOf(s)
             last == Len(features) + 1
  <2>1. e \in FeatureSet /\ e.name = s
    BY <1>4 DEF FeatureSet, FeatureOf
  <2>2. features' = Append(features, e)
    BY <1>5, <1>8
  <2> HIDE DEF e
  <2>3. /\ features' \in Seq(FeatureSet) /\ Len(features') = last
        /\ \A k \in 1..Len(features) : features'[k] = features[k]
        /\ features'[last] = e
    BY <1>1, <2>1, <2>2, AppendProperties
  <2>4. DOMAIN features' = 1..last
    BY <2>3, LenProperties
  <2>5. \A k \in DOMAIN features' :
           (k \in DOMAIN features /\ features'[k] = features[k]) \/ k = last
    BY <1>1, <2>3, <2>4
  <2>6. \A k \in DOMAIN features : k \in DOMAIN features' /\ features'[k] = features[k]
                                   /\ k < last
    BY <1>1, <2>3, <2>4
  <2>7. last \in DOMAIN features'
    BY <1>1, <2>4
  <2>8. LoopInv'
    BY <1>1, <1>2, <1>6, <2>3 DEF LoopInv
  <2>9. SoFarInv'
    <3>1. ASSUME NEW k \in DOMAIN features'
          PROVE  \E p \in 1..i' : order[p] # Default /\ features'[k] = FeatureOf(order[p])
      <4>1. CASE k \in DOMAIN features /\ features'[k] = features[k]
        BY <1>3, <4>1 DEF IniInv, SoFarInv
      <4>2. CASE k = last
        BY <1>6, <1>8, <2>3, <4>2 DEF e
      <4> QED BY <2>5, <4>1, <4>2
    <3>2. ASSUME NEW p \in 1..i', order[p] # Default
          PROVE  \E k \in DOMAIN features' : features'[k].name = order[p]
      <4>1. CASE p \in 1..i
        BY <2>6, <3>2, <4>1 DEF IniInv, SoFarInv
      <4>2. CASE p = i'
        BY <1>6, <2>1, <2>3, <2>7, <4>2
      <4> QED BY <1>6, <4>1, <4>2
    <3> QED BY <1>1, <1>2, <3>1, <3>2 DEF SoFarInv
  <2>10. OrderInv'
    <3> SUFFICES ASSUME NEW j \in DOMAIN features', NEW k \in DOMAIN features', j < k
                 PROVE  \E p, q \in 1..i' :
                           /\ p < q
                           /\ order[p] = features'[j].name
                           /\ order[q] = features'[k].name
      BY <1>1 DEF OrderInv
    <3>1. j \in DOMAIN features /\ features'[j] = features[j]
      BY <1>1, <2>4, <2>5
    <3>2. CASE k \in DOMAIN features /\ features'[k] = features[k]
      <4>1. PICK p \in 1..i, q \in 1..i :
               p < q /\ order[p] = features[j].name /\ order[q] = features[k].name
        BY <3>1, <3>2 DEF IniInv, OrderInv
      <4> QED BY <1>3, <3>1, <3>2, <4>1
    <3>3. CASE k = last
      <4>1. PICK p \in 1..i : features[j] = FeatureOf(order[p])
        BY <3>1 DEF IniInv, SoFarInv
      <4>2. order[p] = features'[j].name /\ p < i' /\ p \in 1..i'
        BY <1>1, <1>3, <3>1, <4>1 DEF FeatureOf
      <4> QED BY <1>6, <2>1, <2>3, <3>3, <4>2
    <3> QED BY <2>5, <3>2, <3>3
  <2> QED BY <2>8, <2>9, <2>10 DEF IniInv
<1> QED BY <1>7, <1>8

LEMMA IniInvStep == IniInv /\ [IniNext]_<<proc, iniVars>> => IniInv'
<1> SUFFICES ASSUME IniInv, [IniNext]_<<proc, iniVars>> PROVE IniInv'
  OBVIOUS
<1>1. CASE AddSection
  BY <1>1, AddSectionStep
<1>2. CASE LoadFails \/ UNCHANGED <<proc, iniVars>>
  <2>1. UNCHANGED <<order, entry, i, features>>
    BY <1>2 DEF LoadFails, iniVars
  <2>2. FeatureSet' = FeatureSet /\ \A t : FeatureOf(t)' = FeatureOf(t)
    BY <2>1, SameFeatures
  <2>3. LoopInv'
    BY <2>1, <2>2 DEF IniInv, LoopInv
  <2>4. SoFarInv'
    BY <2>1, <2>2 DEF IniInv, SoFarInv
  <2>5. OrderInv'
    BY <2>1 DEF IniInv, OrderInv
  <2> QED BY <2>3, <2>4, <2>5 DEF IniInv
<1> QED BY <1>1, <1>2 DEF IniNext

LEMMA IniCorrect == IniSpec => []IniInv
BY IniInvInit, IniInvStep, PTL DEF IniSpec

-----------------------------------------------------------------------------
(* Theorems.                                                               *)

\* For any ini file, every section but "default" is monitored, and the features are in
\* the order of their sections (the loop of Dispotcher's constructor).
THEOREM SectionsCorrect == IniSpec => []EverySectionMonitored
<1>1. IniInv => EverySectionMonitored
  <2> SUFFICES ASSUME IniInv, Built PROVE EverySectionMonitored
    BY DEF EverySectionMonitored
  <2> DEFINE names == [k \in DOMAIN features |-> features[k].name]
  <2>1. i = Len(order) /\ DOMAIN order = 1..i
    BY LenProperties DEF Built, IniInv, LoopInv
  <2>2. \A k \in DOMAIN features : \E p \in DOMAIN order :
           order[p] # Default /\ features[k].name = order[p]
    BY <2>1 DEF IniInv, SoFarInv, FeatureOf
  <2>3. \A p \in DOMAIN order : order[p] # Default =>
           \E k \in DOMAIN features : features[k].name = order[p]
    BY <2>1 DEF IniInv, SoFarInv
  <2>4. Range(names) = Range(order) \ {Default}
    BY <2>2, <2>3 DEF Range
  <2> QED BY <2>1, <2>4 DEF IniInv, OrderInv, EverySectionMonitored
<1> QED BY <1>1, IniCorrect, PTL

\* One option of one feature.
LEMMA OptionLayered ==
    ASSUME NEW s, NEW o \in Option
    PROVE  GetConfig(s, GetDefaultConfig)[o] =
             IF Gives(s, o) THEN Given(s, o)
             ELSE IF Gives(Default, o) THEN Given(Default, o)
             ELSE BuiltIn[o]
<1>1. /\ GetConfig(s, GetDefaultConfig)[o] = SetOr(s, o, GetDefaultConfig[o])
      /\ GetDefaultConfig[o] = SetOr(Default, o, BuiltIn[o])
  BY DEF GetConfig, GetDefaultConfig
<1>2. ASSUME NEW t, NEW fallback
      PROVE  SetOr(t, o, fallback) = IF Gives(t, o) THEN Given(t, o) ELSE fallback
  <2>1. CASE o \in Numeric
    <3>1. o \notin Switch
      BY <2>1, IniAssumption
    <3> QED BY <2>1, <3>1 DEF SetOr, GetNumber, Gives, Given, NoKey
  <2>2. CASE o \in Switch
    <3>1. o \notin Numeric
      BY <2>2, IniAssumption
    <3>2. CASE ~Gives(t, o)
      <4>1. GetBoolean(t, o) = NoKey
        BY <2>2, <3>2 DEF Gives, GetBoolean
      <4> QED BY <3>1, <3>2, <4>1 DEF SetOr
    <3>3. CASE Gives(t, o) /\ entry[t][o] = "yes"
      <4>1. GetBoolean(t, o) = 1 /\ Given(t, o) = TRUE
        BY <2>2, <3>3 DEF Gives, GetBoolean, Given
      <4>2. SetOr(t, o, fallback) = (1 = 1)
        <5>1. 1 # NoKey
          BY DEF NoKey
        <5> QED BY <3>1, <4>1, <5>1 DEF SetOr
      <4> QED BY <3>3, <4>1, <4>2
    <3>4. CASE Gives(t, o) /\ entry[t][o] = "no"
      <4>1. GetBoolean(t, o) = 0 /\ Given(t, o) = FALSE
        BY <2>2, <3>4 DEF Gives, GetBoolean, Given
      <4>2. SetOr(t, o, fallback) = (0 = 1)
        <5>1. 0 # NoKey
          BY DEF NoKey
        <5> QED BY <3>1, <4>1, <5>1 DEF SetOr
      <4>3. (0 = 1) = FALSE
        OBVIOUS
      <4> QED BY <3>4, <4>1, <4>2, <4>3
    <3> QED BY <2>2, <3>2, <3>3, <3>4 DEF Gives
  <2> QED BY <2>1, <2>2 DEF Option
<1> QED BY <1>1, <1>2

\* For any ini file, each option and the type of every instance come from its section,
\* else from the default profile, else they are built in (get_default_config,
\* get_config).
THEOREM LayersCorrect == IniSpec => []OptionsLayered
<1>1. IniInv => OptionsLayered
  <2> SUFFICES ASSUME IniInv, NEW k \in DOMAIN features, NEW o \in Option \cup {"bro_type"}
               PROVE  LET s == features[k].name
                          v == IF o = "bro_type" THEN features[k].type
                               ELSE features[k].conf[o]
                      IN  v = IF Gives(s, o) THEN Given(s, o)
                              ELSE IF Gives(Default, o) THEN Given(Default, o)
                              ELSE IF o = "bro_type" THEN BuiltInType
                              ELSE BuiltIn[o]
    BY DEF OptionsLayered
  <2>1. PICK p \in 1..i : features[k] = FeatureOf(order[p])
    BY DEF IniInv, SoFarInv
  <2> DEFINE s == order[p]
  <2>2. /\ features[k].name = s /\ features[k].type = TypeFor(s)
        /\ features[k].conf = GetConfig(s, GetDefaultConfig)
    BY <2>1 DEF FeatureOf
  <2> HIDE DEF s
  <2>3. CASE o = "bro_type"
    <3>1. o \notin Switch
      BY <2>3, IniAssumption DEF Option
    <3>2. TypeFor(s) = IF Gives(s, o) THEN Given(s, o)
                       ELSE IF Gives(Default, o) THEN Given(Default, o) ELSE BuiltInType
      BY <2>3, <3>1 DEF TypeFor, DefaultType, GetNumber, Gives, Given, NoKey
    <3> QED BY <2>2, <2>3, <3>2
  <2>4. CASE o # "bro_type"
    <3>1. o \in Option
      BY <2>4
    <3> QED BY <2>2, <2>4, <3>1, OptionLayered
  <2> QED BY <2>3, <2>4
<1> QED BY <1>1, IniCorrect, PTL
=============================================================================
