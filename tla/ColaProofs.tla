----------------------------- MODULE ColaProofs -----------------------------
(***************************************************************************)
(* Proofs about Cola, for any names, types of arguments and command lines, *)
(* whatever a stringstream reads and getline cuts.                         *)
(***************************************************************************)
EXTENDS Cola, SequenceTheorems, WellFoundedInduction, TLAPS

-----------------------------------------------------------------------------
(* Types.                                                                  *)

\* Options whose values are among V; nothing is known of the texts.
OptionSet(V) ==
    [names : Seq(Name) \ {<< >>}, type : ArgType \cup {FLAG}, value : V,
     passed : BOOLEAN, delim : Delim]

OptionsInv == (\E V : options \in Seq(OptionSet(V))) /\ Len(options) <= MaxOptions

\* A name leads to an option; the first name of an option leads to it, and a name
\* leads only to an option that has it.
LookupInv ==
    /\ lookup = [name \in DOMAIN lookup |-> lookup[name]]
    /\ \A name \in DOMAIN lookup :
         /\ lookup[name] \in DOMAIN options
         /\ name \in Range(options[lookup[name]].names)
    /\ \A o \in DOMAIN options :
         /\ options[o].names[1] \in DOMAIN lookup
         /\ lookup[options[o].names[1]] = o

\* The line, and where parse() is in it.
LineInv ==
    /\ args \in Seq(Range(args))
    /\ \A t \in Range(args) : t.dashes \in 0..2 /\ t.letters \in Seq(Range(t.letters))
    /\ it \in 0..(Len(args) + 1) /\ parses \in Nat
    /\ {parsed, undefined} \subseteq BOOLEAN /\ (parsed => it = 0)
    /\ failed \in {"none", "logic_error", "runtime_error"}

ColaInv == OptionsInv /\ LookupInv /\ LineInv

-----------------------------------------------------------------------------
(* Lemmas about the options.                                               *)

\* What every literal leaves of the options: all but their values.
SameOptions ==
    /\ DOMAIN options' = DOMAIN options
    /\ \A o \in DOMAIN options : /\ options'[o].names = options[o].names
                                 /\ options'[o].type = options[o].type
                                 /\ options'[o].delim = options[o].delim

\* An option is replaced by another.
LEMMA OptionReplaced ==
    ASSUME OptionsInv, NEW o \in DOMAIN options, NEW new,
           \E V : new \in OptionSet(V), options' = [options EXCEPT ![o] = new]
    PROVE  /\ OptionsInv'
           /\ DOMAIN options' = DOMAIN options
           /\ options'[o] = new
           /\ \A q \in DOMAIN options : q # o => options'[q] = options[q]
<1>1. PICK V : options \in Seq(OptionSet(V))
  BY DEF OptionsInv
<1>2. PICK W : new \in OptionSet(W)
  OBVIOUS
<1> DEFINE U == V \cup W
<1>3. OptionSet(V) \subseteq OptionSet(U) /\ OptionSet(W) \subseteq OptionSet(U)
  BY DEF OptionSet
<1> HIDE DEF U
<1>4. options \in Seq(OptionSet(U)) /\ new \in OptionSet(U)
  BY <1>1, <1>2, <1>3, SeqMonotonic
<1>5. DOMAIN options = 1..Len(options)
  BY <1>4, LenProperties
<1>6. options' \in Seq(OptionSet(U)) /\ Len(options') = Len(options)
  BY <1>4, <1>5, ExceptSeq
<1> QED BY <1>4, <1>5, <1>6, LenProperties DEF OptionsInv

\* All options are replaced.
LEMMA OptionsReplaced ==
    ASSUME OptionsInv, options' = [o \in DOMAIN options |-> options'[o]],
           \A V : \A o \in DOMAIN options :
              options[o] \in OptionSet(V) => options'[o] \in OptionSet(V)
    PROVE  OptionsInv' /\ DOMAIN options' = DOMAIN options
<1>1. PICK V : options \in Seq(OptionSet(V))
  BY DEF OptionsInv
<1>2. DOMAIN options = 1..Len(options) /\ Len(options) \in Nat
      /\ options \in [1..Len(options) -> OptionSet(V)]
  BY <1>1, LenProperties
<1>3. options' \in [1..Len(options) -> OptionSet(V)]
  BY <1>2
<1>4. options' \in Seq(OptionSet(V)) /\ DOMAIN options' = 1..Len(options)
  BY <1>2, <1>3, IsASeq
<1>5. Len(options') = Len(options)
  BY <1>2, <1>4, LenProperties
<1> QED BY <1>2, <1>4, <1>5 DEF OptionsInv

\* An option is one.
LEMMA OptionTypes ==
    ASSUME OptionsInv, NEW o \in DOMAIN options
    PROVE  \E V : options[o] \in OptionSet(V)
<1>1. PICK V : options \in Seq(OptionSet(V))
  BY DEF OptionsInv
<1>2. options[o] \in OptionSet(V)
  BY <1>1, LenProperties
<1> QED BY <1>2

\* passed() of an option with its value.
LEMMA OptionPassedWith ==
    ASSUME OptionsInv, NEW o \in DOMAIN options, NEW v,
           options' = [options EXCEPT ![o].passed = TRUE, ![o].value = v]
    PROVE  /\ OptionsInv' /\ SameOptions
           /\ options'[o].passed = TRUE /\ options'[o].value = v
           /\ \A q \in DOMAIN options : q # o => options'[q] = options[q]
<1> DEFINE new == [options[o] EXCEPT !.passed = TRUE, !.value = v]
<1>1. PICK V : options[o] \in OptionSet(V)
  BY OptionTypes
<1>2. new \in OptionSet({v}) /\ new.passed = TRUE /\ new.value = v
      /\ new.names = options[o].names /\ new.type = options[o].type
      /\ new.delim = options[o].delim
  BY <1>1 DEF OptionSet
<1>3. options' = [options EXCEPT ![o] = new]
  OBVIOUS
<1>4. \E W : new \in OptionSet(W)
  BY <1>2
<1> HIDE DEF new
<1> QED BY <1>2, <1>3, <1>4, OptionReplaced DEF SameOptions

\* passed() of a flag.
LEMMA OptionPassed ==
    ASSUME OptionsInv, NEW o \in DOMAIN options,
           options' = [options EXCEPT ![o].passed = TRUE]
    PROVE  /\ OptionsInv' /\ SameOptions
           /\ options'[o].passed = TRUE /\ options'[o].value = options[o].value
           /\ \A q \in DOMAIN options : q # o => options'[q] = options[q]
<1> DEFINE new == [options[o] EXCEPT !.passed = TRUE]
<1>1. PICK V : options[o] \in OptionSet(V)
  BY OptionTypes
<1>2. new \in OptionSet(V) /\ new.passed = TRUE /\ new.value = options[o].value
      /\ new.names = options[o].names /\ new.type = options[o].type
      /\ new.delim = options[o].delim
  BY <1>1 DEF OptionSet
<1>3. options' = [options EXCEPT ![o] = new]
  OBVIOUS
<1>4. \E W : new \in OptionSet(W)
  BY <1>2
<1> HIDE DEF new
<1> QED BY <1>2, <1>3, <1>4, OptionReplaced DEF SameOptions

\* A group of flags is passed, or reset() takes all back.
LEMMA OptionsPassed ==
    ASSUME OptionsInv, options' = [o \in DOMAIN options |-> options'[o]],
           \A o \in DOMAIN options : \E b \in BOOLEAN :
              options'[o] = [options[o] EXCEPT !.passed = b]
    PROVE  /\ OptionsInv' /\ SameOptions
           /\ \A o \in DOMAIN options : options'[o].value = options[o].value
<1>1. ASSUME NEW o \in DOMAIN options, NEW V, options[o] \in OptionSet(V)
      PROVE  /\ options'[o] \in OptionSet(V)
             /\ options'[o].names = options[o].names /\ options'[o].type = options[o].type
             /\ options'[o].delim = options[o].delim /\ options'[o].value = options[o].value
  <2>1. PICK b \in BOOLEAN : options'[o] = [options[o] EXCEPT !.passed = b]
    OBVIOUS
  <2> QED BY <1>1, <2>1 DEF OptionSet
<1>2. OptionsInv' /\ DOMAIN options' = DOMAIN options
  BY <1>1, OptionsReplaced
<1> QED BY <1>1, <1>2, OptionTypes DEF SameOptions

-----------------------------------------------------------------------------
(* Which arguments stand on their own.                                     *)

\* Induction over the naturals, for a set.
LEMMA SetInduction ==
    ASSUME NEW S, 0 \in S, \A n \in Nat : n \in S => n + 1 \in S
    PROVE  Nat \subseteq S
<1> DEFINE T == {n \in Nat : n \notin S}
           R == OpToRel(<, Nat)
<1>1. IsWellFoundedOn(R, Nat)
  BY NatLessThanWellFounded
<1>2. \A m, n \in Nat : m < n => <<m, n>> \in R
  BY DEF OpToRel
<1>3. T \subseteq Nat
  OBVIOUS
<1> SUFFICES ASSUME T # {} PROVE FALSE
  OBVIOUS
<1> HIDE DEF R
<1>4. PICK n \in T : \A m \in T : ~(<<m, n>> \in R)
  <2> HIDE DEF T
  <2> QED BY <1>1, <1>3, WFMin
<1>5. n - 1 \in Nat /\ (n - 1) + 1 = n
  OBVIOUS
<1>6. n - 1 \in T
  BY <1>5
<1>7. n - 1 < n /\ n \in Nat
  BY <1>5
<1> QED BY <1>2, <1>4, <1>5, <1>6, <1>7

\* The run of takers right before i starts after m.
RunFrom(T, m, i) ==
    /\ m \in 0..(i - 1)
    /\ m = 0 \/ m \notin T
    /\ \A j \in (m + 1)..(i - 1) : j \in T

EvenRun(T, i) ==
    \/ i = 0
    \/ \E m \in Nat : RunFrom(T, m, i) /\ \E h \in Nat : i - m - 1 = 2 * h

LEMMA RunExists ==
    ASSUME NEW T, NEW i \in Nat \ {0}
    PROVE  \E m \in Nat : RunFrom(T, m, i)
<1> DEFINE S == {n \in Nat : n = 0 \/ \E m \in Nat : RunFrom(T, m, n)}
<1>1. ASSUME NEW n \in Nat, n \in S
      PROVE  n + 1 \in S
  <2>1. CASE n = 0 \/ n \notin T
    <3>1. RunFrom(T, n, n + 1)
      BY <2>1 DEF RunFrom
    <3> QED BY <3>1
  <2>2. CASE n # 0 /\ n \in T
    <3>1. PICK m \in Nat : RunFrom(T, m, n)
      BY <1>1, <2>2
    <3>2. RunFrom(T, m, n + 1)
      BY <2>2, <3>1 DEF RunFrom
    <3> QED BY <3>2
  <2> QED BY <2>1, <2>2
<1>2. 0 \in S
  OBVIOUS
<1>3. Nat \subseteq S
  <2> HIDE DEF S
  <2> QED BY <1>1, <1>2, SetInduction
<1> QED BY <1>3

\* The runs before one argument and before the next.
LEMMA EvenStep ==
    ASSUME NEW T, NEW i \in Nat, i > 1
    PROVE  EvenRun(T, i) <=> ~(EvenRun(T, i - 1) /\ i - 1 \in T)
<1>1. CASE i - 1 \notin T
  <2>1. RunFrom(T, i - 1, i) /\ i - (i - 1) - 1 = 2 * 0
    BY <1>1 DEF RunFrom
  <2> QED BY <1>1, <2>1 DEF EvenRun
<1>2. CASE i - 1 \in T
  <2>1. PICK m \in Nat : RunFrom(T, m, i - 1)
    BY RunExists
  <2>2. RunFrom(T, m, i)
    BY <1>2, <2>1 DEF RunFrom
  <2>3. \A k \in Nat : RunFrom(T, k, i) \/ RunFrom(T, k, i - 1) => k = m
    BY <1>2, <2>1, <2>2 DEF RunFrom
  <2> DEFINE d == i - m - 1
  <2>4. EvenRun(T, i) <=> \E h \in Nat : d = 2 * h
    BY <2>2, <2>3 DEF EvenRun
  <2>5. EvenRun(T, i - 1) <=> \E h \in Nat : d - 1 = 2 * h
    <3>1. (i - 1) - m - 1 = d - 1
      OBVIOUS
    <3> QED BY <2>1, <2>3, <3>1 DEF EvenRun
  <2>6. d \in Nat \ {0}
    BY <2>1 DEF RunFrom
  <2> HIDE DEF d
  <2>7. (\E h \in Nat : d = 2 * h) <=> ~ \E h \in Nat : d - 1 = 2 * h
    <3>1. \E h \in Nat : d = 2 * h \/ d - 1 = 2 * h
      <4> DEFINE h == d \div 2
      <4>1. h \in Nat /\ (d = 2 * h \/ d - 1 = 2 * h)
        BY <2>6
      <4> QED BY <4>1
    <3>2. \A h, k \in Nat : ~(d = 2 * h /\ d - 1 = 2 * k)
      BY <2>6
    <3> QED BY <3>1, <3>2
  <2> QED BY <1>2, <2>4, <2>5, <2>7
<1> QED BY <1>1, <1>2

\* The recursive definition defines a function.
LEMMA AloneDefined ==
    ASSUME NEW T
    PROVE  \A i \in Nat : Alone(T)[i] <=> i <= 1 \/ ~(Alone(T)[i - 1] /\ i - 1 \in T)
<1> DEFINE IsAlone(f) == f = [i \in Nat |-> i <= 1 \/ ~(f[i - 1] /\ i - 1 \in T)]
           g == [i \in Nat |-> EvenRun(T, i)]
<1>1. \A i \in Nat : EvenRun(T, i) = (i <= 1 \/ ~(g[i - 1] /\ i - 1 \in T))
  <2> SUFFICES ASSUME NEW i \in Nat
               PROVE  EvenRun(T, i) <=> i <= 1 \/ ~(g[i - 1] /\ i - 1 \in T)
    BY DEF EvenRun
  <2>1. CASE i = 0
    BY <2>1 DEF EvenRun
  <2>2. CASE i = 1
    <3>1. RunFrom(T, 0, 1) /\ 1 - 0 - 1 = 2 * 0
      BY DEF RunFrom
    <3> QED BY <2>2, <3>1 DEF EvenRun
  <2>3. CASE i > 1
    <3>1. i - 1 \in Nat /\ ~(i <= 1)
      BY <2>3
    <3>2. g[i - 1] = EvenRun(T, i - 1)
      BY <3>1
    <3> HIDE DEF g
    <3> QED BY <2>3, <3>1, <3>2, EvenStep
  <2> QED BY <2>1, <2>2, <2>3
<1>2. IsAlone(g)
  BY <1>1
<1>3. \E f : IsAlone(f)
  BY <1>2
<1>4. Alone(T) = CHOOSE f : IsAlone(f)
  BY DEF Alone
<1>5. IsAlone(Alone(T))
  <2> HIDE DEF IsAlone
  <2> QED BY <1>3, <1>4
<1> QED BY <1>5

-----------------------------------------------------------------------------
(* The types, and the names.                                               *)

LEMMA ColaInvInit == ColaInit => ColaInv
<1> SUFFICES ASSUME ColaInit PROVE ColaInv
  OBVIOUS
<1>1. options \in Seq(OptionSet({})) /\ Len(options) = 0 /\ DOMAIN options = {}
  BY EmptySeq, LenProperties DEF ColaInit
<1>2. args \in Seq({}) /\ Len(args) = 0 /\ DOMAIN args = {}
  BY EmptySeq, LenProperties DEF ColaInit
<1>3. DOMAIN lookup = {} /\ lookup = [name \in DOMAIN lookup |-> lookup[name]]
  BY DEF ColaInit
<1>4. Range(args) = {}
  BY <1>2 DEF Range
<1>5. OptionsInv
  BY <1>1, ColaAssumption DEF OptionsInv
<1>6. LookupInv
  BY <1>1, <1>3 DEF LookupInv
<1>7. args \in Seq(Range(args)) /\ it \in 0..(Len(args) + 1)
  BY <1>2, <1>4 DEF ColaInit
<1>8. LineInv
  BY <1>4, <1>7 DEF ColaInit, LineInv
<1> QED BY <1>5, <1>6, <1>8 DEF ColaInv

\* A new name of an option enters unless it is there.
LEMMA NameEnters ==
    ASSUME LookupInv, NEW name, NEW o, lookup' = Enter(name, o)
    PROVE  /\ lookup' = [n \in DOMAIN lookup' |-> lookup'[n]]
           /\ DOMAIN lookup' = DOMAIN lookup \cup {name}
           /\ \A n \in DOMAIN lookup : lookup'[n] = lookup[n]
           /\ name \notin DOMAIN lookup => lookup'[name] = o
BY DEF Enter, IsDefined

LEMMA DefineStep ==
    ASSUME ColaInv, NEW name \in Name, Define(name)
    PROVE  OptionsInv' /\ LookupInv'
<1> DEFINE new == NewOption(name)
           last == Len(options) + 1
<1>1. PICK V : options \in Seq(OptionSet(V))
  BY DEF ColaInv, OptionsInv
<1> DEFINE U == V \cup {<< >>}
<1>2. OptionSet(V) \subseteq OptionSet(U) /\ new \in OptionSet(U) /\ new.names = <<name>>
  <2>1. name # << >> /\ <<name>> \in Seq(Name) \ {<< >>} /\ Comma \in Delim
    BY ColaAssumption
  <2> QED BY <2>1 DEF OptionSet, NewOption
<1>3. options \in Seq(OptionSet(U))
  <2> HIDE DEF U
  <2> QED BY <1>1, <1>2, SeqMonotonic
<1>4. options' = Append(options, new) /\ name \notin DOMAIN lookup
      /\ lookup' = Enter(name, last) /\ Len(options) < MaxOptions
  BY DEF Define, IsDefined
<1> HIDE DEF U, new
<1>5. /\ options' \in Seq(OptionSet(U)) /\ Len(options') = last
      /\ \A o \in 1..Len(options) : options'[o] = options[o]
      /\ options'[last] = new
  BY <1>2, <1>3, <1>4, AppendProperties
<1>6. Len(options) \in Nat /\ DOMAIN options = 1..Len(options) /\ DOMAIN options' = 1..last
  BY <1>3, <1>5, LenProperties
<1>7. \A o \in DOMAIN options' :
          o = last \/ (o \in DOMAIN options /\ options'[o] = options[o])
  BY <1>5, <1>6
<1>8. \A o \in DOMAIN options : o \in DOMAIN options' /\ options'[o] = options[o]
  BY <1>5, <1>6
<1>9. last \in DOMAIN options'
  BY <1>6
<1>10. OptionsInv'
  <2>1. Len(options') <= MaxOptions
    BY <1>4, <1>5, <1>6, ColaAssumption
  <2> QED BY <1>5, <2>1 DEF OptionsInv
<1>11. name \in Range(options'[last].names) /\ options'[last].names[1] = name
  BY <1>2, <1>5 DEF Range
<1> HIDE DEF last
<1>12. /\ lookup' = [n \in DOMAIN lookup' |-> lookup'[n]]
       /\ DOMAIN lookup' = DOMAIN lookup \cup {name}
       /\ \A n \in DOMAIN lookup : lookup'[n] = lookup[n]
       /\ lookup'[name] = last
  BY <1>4, NameEnters DEF ColaInv
<1>13. ASSUME NEW n \in DOMAIN lookup'
       PROVE  lookup'[n] \in DOMAIN options' /\ n \in Range(options'[lookup'[n]].names)
  <2>1. CASE n \in DOMAIN lookup
    BY <1>8, <1>12, <2>1 DEF ColaInv, LookupInv
  <2>2. CASE n = name
    BY <1>9, <1>11, <1>12, <2>2
  <2> QED BY <1>12, <2>1, <2>2
<1>14. ASSUME NEW o \in DOMAIN options'
       PROVE  /\ options'[o].names[1] \in DOMAIN lookup'
              /\ lookup'[options'[o].names[1]] = o
  <2>1. CASE o \in DOMAIN options /\ options'[o] = options[o]
    BY <1>12, <2>1 DEF ColaInv, LookupInv
  <2>2. CASE o = last
    BY <1>11, <1>12, <2>2
  <2> QED BY <1>7, <2>1, <2>2
<1> QED BY <1>10, <1>12, <1>13, <1>14 DEF LookupInv

LEMMA AliasStep ==
    ASSUME ColaInv, NEW o \in DOMAIN options, NEW name \in Name, Alias(o, name)
    PROVE  OptionsInv' /\ LookupInv'
<1> DEFINE names == Append(options[o].names, name)
           new == [options[o] EXCEPT !.names = names]
<1>1. PICK V : options[o] \in OptionSet(V)
  BY OptionTypes DEF ColaInv
<1>2. options[o].names \in Seq(Name) /\ options[o].names # << >>
  BY <1>1 DEF OptionSet
<1>3. /\ names \in Seq(Name) \ {<< >>} /\ names[1] = options[o].names[1]
      /\ Range(options[o].names) \cup {name} \subseteq Range(names)
  <2>1. Len(options[o].names) \in Nat \ {0}
    BY <1>2, EmptySeq, LenProperties
  <2>2. /\ names \in Seq(Name) /\ Len(names) = Len(options[o].names) + 1
        /\ \A k \in 1..Len(options[o].names) : names[k] = options[o].names[k]
        /\ names[Len(options[o].names) + 1] = name
    BY <1>2, AppendProperties
  <2>3. DOMAIN names = 1..Len(names) /\ DOMAIN options[o].names = 1..Len(options[o].names)
    BY <1>2, <2>2, LenProperties
  <2>4. names # << >>
    BY <2>1, <2>2
  <2>5. \A k \in DOMAIN options[o].names : k \in DOMAIN names
    BY <2>1, <2>2, <2>3
  <2>6. Len(options[o].names) + 1 \in DOMAIN names /\ 1 \in 1..Len(options[o].names)
    BY <2>1, <2>2, <2>3
  <2> HIDE DEF names
  <2> QED BY <2>2, <2>3, <2>4, <2>5, <2>6 DEF Range
<1> HIDE DEF names
<1>4. new \in OptionSet(V) /\ new.names = names
  BY <1>1, <1>3 DEF OptionSet
<1>5. options' = [options EXCEPT ![o] = new] /\ lookup' = Enter(name, o)
  BY DEF Alias, names
<1>6. \E W : new \in OptionSet(W)
  BY <1>4
<1> HIDE DEF new
<1>7. /\ OptionsInv' /\ DOMAIN options' = DOMAIN options /\ options'[o] = new
      /\ \A q \in DOMAIN options : q # o => options'[q] = options[q]
  BY <1>5, <1>6, OptionReplaced DEF ColaInv
<1>8. \A q \in DOMAIN options :
         /\ options'[q].names[1] = options[q].names[1]
         /\ Range(options[q].names) \subseteq Range(options'[q].names)
  BY <1>3, <1>4, <1>7
<1>9. name \in Range(options'[o].names)
  BY <1>3, <1>4, <1>7
<1>10. /\ lookup' = [n \in DOMAIN lookup' |-> lookup'[n]]
       /\ DOMAIN lookup' = DOMAIN lookup \cup {name}
       /\ \A n \in DOMAIN lookup : lookup'[n] = lookup[n]
       /\ name \notin DOMAIN lookup => lookup'[name] = o
  BY <1>5, NameEnters DEF ColaInv
<1>11. ASSUME NEW n \in DOMAIN lookup'
       PROVE  lookup'[n] \in DOMAIN options' /\ n \in Range(options'[lookup'[n]].names)
  <2>1. CASE n \in DOMAIN lookup
    BY <1>7, <1>8, <1>10, <2>1 DEF ColaInv, LookupInv
  <2>2. CASE n = name /\ n \notin DOMAIN lookup
    BY <1>7, <1>9, <1>10, <2>2
  <2> QED BY <1>10, <2>1, <2>2
<1>12. ASSUME NEW q \in DOMAIN options'
       PROVE  /\ options'[q].names[1] \in DOMAIN lookup'
              /\ lookup'[options'[q].names[1]] = q
  BY <1>7, <1>8, <1>10 DEF ColaInv, LookupInv
<1> QED BY <1>7, <1>10, <1>11, <1>12 DEF LookupInv

\* Names depend on nothing else.
LEMMA NamesKept ==
    ASSUME LookupInv, lookup' = lookup, DOMAIN options' = DOMAIN options,
           \A o \in DOMAIN options : options'[o].names = options[o].names
    PROVE  LookupInv'
BY DEF LookupInv

\* with_arg, with_arg_vector, delimiter.
LEMMA ArgumentStep ==
    ASSUME ColaInv, NEW o \in DOMAIN options,
           \/ \E type \in ArgType : WithArg(o, type)
           \/ \E type \in ArgType \cap Vectors : WithArgText(o, type)
           \/ \E d \in Delim : Delimiter(o, d)
    PROVE  OptionsInv' /\ LookupInv'
<1>1. PICK V : options[o] \in OptionSet(V)
  BY OptionTypes DEF ColaInv
<1>2. lookup' = lookup
  BY DEF WithArg, WithArgText, Delimiter
<1>3. PICK new : /\ \E W : new \in OptionSet(W)
                 /\ new.names = options[o].names
                 /\ options' = [options EXCEPT ![o] = new]
  <2>1. ASSUME NEW type \in ArgType, WithArg(o, type)
        PROVE  \E new : /\ \E W : new \in OptionSet(W)
                        /\ new.names = options[o].names
                        /\ options' = [options EXCEPT ![o] = new]
    <3> DEFINE new == [options[o] EXCEPT !.type = type, !.value = <<Default>>]
    <3>1. new \in OptionSet({<<Default>>}) /\ new.names = options[o].names
      BY <1>1 DEF OptionSet
    <3>2. options' = [options EXCEPT ![o] = new]
      BY <2>1 DEF WithArg
    <3> HIDE DEF new
    <3> QED BY <3>1, <3>2
  <2>2. ASSUME NEW type \in ArgType \cap Vectors, WithArgText(o, type)
        PROVE  \E new : /\ \E W : new \in OptionSet(W)
                        /\ new.names = options[o].names
                        /\ options' = [options EXCEPT ![o] = new]
    <3> DEFINE vector == [options[o] EXCEPT !.type = type]
               v == Pieces(vector, DefaultText)
               new == [vector EXCEPT !.value = v]
    <3>1. options' = [options EXCEPT ![o] = new]
      BY <2>2 DEF WithArgText
    <3> HIDE DEF v
    <3>2. new \in OptionSet({v}) /\ new.names = options[o].names
      BY <1>1 DEF OptionSet
    <3> HIDE DEF new
    <3> QED BY <3>1, <3>2
  <2>3. ASSUME NEW d \in Delim, Delimiter(o, d)
        PROVE  \E new : /\ \E W : new \in OptionSet(W)
                        /\ new.names = options[o].names
                        /\ options' = [options EXCEPT ![o] = new]
    <3> DEFINE new == [options[o] EXCEPT !.delim = d]
    <3>1. new \in OptionSet(V) /\ new.names = options[o].names
      BY <1>1 DEF OptionSet
    <3>2. options' = [options EXCEPT ![o] = new]
      BY <2>3 DEF Delimiter
    <3> HIDE DEF new
    <3> QED BY <3>1, <3>2
  <2> QED BY <2>1, <2>2, <2>3
<1>4. /\ OptionsInv' /\ DOMAIN options' = DOMAIN options /\ options'[o] = new
      /\ \A q \in DOMAIN options : q # o => options'[q] = options[q]
  BY <1>3, OptionReplaced DEF ColaInv
<1> QED BY <1>2, <1>3, <1>4, NamesKept DEF ColaInv

LEMMA SetUpStep ==
    ASSUME ColaInv, SetUp
    PROVE  /\ ColaInv' /\ it = 0 /\ ~parsed
           /\ UNCHANGED <<args, rest, parsed, undefined, it, parses, failed, before>>
<1>1. UNCHANGED <<args, rest, parsed, undefined, it, parses, failed, before>>
      /\ it = 0 /\ ~parsed
  BY DEF SetUp, Define, Alias, WithArg, WithArgText, Delimiter, Setup
<1>2. LineInv'
  BY <1>1 DEF ColaInv, LineInv
<1>3. OptionsInv' /\ LookupInv'
  BY DefineStep, AliasStep, ArgumentStep DEF SetUp
<1> QED BY <1>1, <1>2, <1>3 DEF ColaInv

\* What every literal keeps.
LoopKeeps ==
    /\ OptionsInv' /\ SameOptions
    /\ it' \in 0..(Len(args) + 1) /\ undefined' \in BOOLEAN
    /\ failed' \in {"none", "logic_error", "runtime_error"}

LEMMA OptionsStay ==
    ASSUME OptionsInv, options' = options
    PROVE  OptionsInv' /\ SameOptions
BY DEF OptionsInv, SameOptions

LEMMA PassWithKeeps ==
    ASSUME ColaInv, NEW o \in DOMAIN options, NEW text, NEW next \in 0..(Len(args) + 1),
           PassWith(o, text, next)
    PROVE  LoopKeeps
<1>1. undefined' \in BOOLEAN /\ failed \in {"none", "logic_error", "runtime_error"}
      /\ OptionsInv /\ Len(args) \in Nat
  BY LenProperties DEF ColaInv, LineInv, PassWith, Throw
<1>2. CASE Readable(options[o], text)
  <2>1. options' = [options EXCEPT ![o].passed = TRUE,
                                   ![o].value = Pieces(options[o], text)]
        /\ it' = next /\ failed' = failed
    BY <1>2 DEF PassWith, Goto
  <2> QED BY <1>1, <2>1, OptionPassedWith DEF LoopKeeps
<1>3. CASE ~Readable(options[o], text)
  <2>1. options' = options /\ it' = 0 /\ failed' = "runtime_error"
    BY <1>3 DEF PassWith, Throw
  <2> QED BY <1>1, <2>1, OptionsStay DEF LoopKeeps
<1> QED BY <1>2, <1>3

LEMMA EvalNameKeeps ==
    ASSUME ColaInv, it \in DOMAIN args, EvalName
    PROVE  LoopKeeps
<1>1. /\ OptionsInv /\ Len(args) \in Nat /\ it \in 1..Len(args) /\ undefined \in BOOLEAN
      /\ failed \in {"none", "logic_error", "runtime_error"}
  BY LenProperties DEF ColaInv, LineInv
<1>2. it + 1 \in 0..(Len(args) + 1) /\ (it < Len(args) => it + 2 \in 0..(Len(args) + 1))
  BY <1>1
<1> DEFINE name == args[it].letters
<1>3. CASE NoteUndefined
  BY <1>1, <1>2, <1>3, OptionsStay DEF NoteUndefined, Goto, LoopKeeps
<1>4. CASE IsDefined(name) /\ ~NoteUndefined
  <2>1. lookup[name] \in DOMAIN options
    BY <1>4 DEF IsDefined, ColaInv, LookupInv
  <2>2. CASE /\ options' = [options EXCEPT ![lookup[name]].passed = TRUE]
             /\ Goto(it + 1) /\ UNCHANGED <<rest, undefined>>
    <3>1. OptionsInv' /\ SameOptions
      BY <1>1, <2>1, <2>2, OptionPassed
    <3> QED BY <1>1, <1>2, <2>2, <3>1 DEF Goto, LoopKeeps
  <2>3. CASE it < Len(args) /\ PassWith(lookup[name], args[it + 1], it + 2)
    BY <1>2, <2>1, <2>3, PassWithKeeps
  <2>4. CASE Throw("runtime_error") /\ UNCHANGED options
    BY <1>1, <2>4, OptionsStay DEF Throw, LoopKeeps
  <2> QED BY <1>4, <2>2, <2>3, <2>4 DEF EvalName
<1> QED BY <1>3, <1>4 DEF EvalName, WantsArg, NoteUndefined

\* The flags a group of letters passes.
LEMMA GroupPassed ==
    ASSUME NEW letters, NEW done,
           options' = [o \in DOMAIN options |->
                         [options[o] EXCEPT !.passed =
                            @ \/ \E j \in done : lookup[<<letters[j]>>] = o]]
    PROVE  /\ options' = [o \in DOMAIN options |-> options'[o]]
           /\ \A o \in DOMAIN options : \E b \in BOOLEAN :
                /\ b <=> options[o].passed \/ \E j \in done : lookup[<<letters[j]>>] = o
                /\ options'[o] = [options[o] EXCEPT !.passed = b]
<1>1. options' = [o \in DOMAIN options |-> options'[o]]
  OBVIOUS
<1>2. ASSUME NEW o \in DOMAIN options
      PROVE  \E b \in BOOLEAN :
                /\ b <=> options[o].passed \/ \E j \in done : lookup[<<letters[j]>>] = o
                /\ options'[o] = [options[o] EXCEPT !.passed = b]
  <2> DEFINE b == options[o].passed \/ \E j \in done : lookup[<<letters[j]>>] = o
  <2>1. options'[o] = [options[o] EXCEPT !.passed = b]
    OBVIOUS
  <2>2. b \in BOOLEAN
    OBVIOUS
  <2> QED BY <2>1, <2>2
<1> QED BY <1>1, <1>2

LEMMA LoopFrame ==
    ASSUME ColaInv, ParseImpl
    PROVE  /\ LoopKeeps /\ UNCHANGED <<lookup, args, parses, before>>
           /\ it > 0 /\ parsed = FALSE
           /\ parsed' = FALSE \/ (parsed' = TRUE /\ it' = 0)
<1>1. /\ OptionsInv /\ Len(args) \in Nat /\ DOMAIN args = 1..Len(args)
      /\ it \in 0..(Len(args) + 1) /\ undefined \in BOOLEAN
      /\ failed \in {"none", "logic_error", "runtime_error"}
      /\ parsed \in BOOLEAN /\ (parsed => it = 0)
  BY LenProperties DEF ColaInv, LineInv
<1>2. UNCHANGED <<lookup, args, parses, before>> /\ it > 0 /\ parsed = FALSE
      /\ (parsed' = FALSE \/ (parsed' = TRUE /\ it' = 0))
  <2>1. CASE \E kind : At(kind)
    <3>1. it \in DOMAIN args /\ UNCHANGED <<lookup, args, parsed, parses, before>>
      BY <2>1 DEF At
    <3>2. it > 0 /\ it # 0
      BY <1>1, <3>1
    <3>3. parsed = FALSE
      BY <1>1, <3>2
    <3>4. parsed' = FALSE
      BY <3>1, <3>3
    <3>5. lookup' = lookup /\ args' = args /\ parses' = parses /\ before' = before
      BY <3>1
    <3> QED BY <3>2, <3>3, <3>4, <3>5
  <2>2. CASE ParseEnds
    BY <1>1, <2>2 DEF ParseEnds, Goto
  <2> QED BY <2>1, <2>2 DEF ParseImpl, EvalShort, EvalLong, EvalShortValue, EvalShorts,
             EvalLongParam, Ignore, IgnoreAfter, Else
<1>3. it \in DOMAIN args => it + 1 \in 0..(Len(args) + 1)
  BY <1>1
<1>4. CASE EvalShort \/ EvalLong
  BY <1>2, <1>4, EvalNameKeeps DEF EvalShort, EvalLong, At
<1>5. CASE EvalShortValue
  <2> DEFINE letters == args[it].letters
             o == lookup[<<letters[1]>>]
  <2>1. it \in DOMAIN args /\ WantsArg(<<letters[1]>>)
        /\ PassWith(o, Word(Tail(letters)), it + 1)
    BY <1>5 DEF EvalShortValue, At
  <2>2. o \in DOMAIN options
    BY <2>1 DEF WantsArg, IsDefined, ColaInv, LookupInv
  <2> QED BY <1>2, <1>3, <2>1, <2>2, PassWithKeeps
<1>6. CASE EvalShorts
  <2>1. /\ it \in DOMAIN args
        /\ options' = [o \in DOMAIN options |-> options'[o]]
        /\ \A o \in DOMAIN options : \E b \in BOOLEAN :
              options'[o] = [options[o] EXCEPT !.passed = b]
    BY <1>6, GroupPassed DEF EvalShorts, At
  <2>2. OptionsInv' /\ SameOptions
    BY <1>1, <2>1, OptionsPassed
  <2>3. /\ it' \in {0, it + 1} /\ undefined' = undefined
        /\ failed' \in {failed, "logic_error", "runtime_error"}
    BY <1>6 DEF EvalShorts, Goto, Throw
  <2> QED BY <1>1, <1>2, <1>3, <2>1, <2>2, <2>3 DEF LoopKeeps
<1>7. CASE EvalLongParam
  <2> DEFINE name == args[it].letters
             value == args[it].value
  <2>1. it \in DOMAIN args
    BY <1>7 DEF EvalLongParam, At
  <2>2. CASE NoteUndefined
    BY <1>1, <1>2, <1>3, <2>1, <2>2, OptionsStay DEF NoteUndefined, Goto, LoopKeeps
  <2>3. CASE \E error \in {"logic_error", "runtime_error"} :
                Throw(error) /\ UNCHANGED options
    BY <1>1, <1>2, <2>3, OptionsStay DEF Throw, LoopKeeps
  <2>4. CASE WantsArg(name) /\ PassWith(lookup[name], Word(value), it + 1)
    <3>1. lookup[name] \in DOMAIN options
      BY <2>4 DEF WantsArg, IsDefined, ColaInv, LookupInv
    <3> QED BY <1>2, <1>3, <2>1, <2>4, <3>1, PassWithKeeps
  <2> QED BY <1>7, <2>2, <2>3, <2>4 DEF EvalLongParam
<1>8. CASE Ignore \/ IgnoreAfter \/ Else
  <2>1. /\ options' = options /\ undefined' = undefined /\ failed' = failed
        /\ it \in DOMAIN args /\ it' \in {it + 1, Len(args) + 1}
    BY <1>8 DEF Ignore, IgnoreAfter, Else, At, Goto
  <2> QED BY <1>1, <1>2, <1>3, <2>1, OptionsStay DEF LoopKeeps
<1>9. CASE ParseEnds
  <2>1. options' = options /\ undefined' = undefined /\ failed' = failed /\ it' = 0
    BY <1>9 DEF ParseEnds, Goto
  <2> QED BY <1>1, <1>2, <2>1, OptionsStay DEF LoopKeeps
<1> QED BY <1>4, <1>5, <1>6, <1>7, <1>8, <1>9 DEF ParseImpl

LEMMA ColaInvStep ==
    ASSUME ColaInv, [ColaNext]_colaVars
    PROVE  ColaInv'
<1>1. CASE SetUp
  BY <1>1, SetUpStep
<1>2. ASSUME parses < Len(Argvs), NEW argv \in Argvs[parses + 1], Parse(argv)
      PROVE  ColaInv'
  <2>1. parses + 1 \in 1..Len(Argvs) /\ parses + 1 \in Nat
    <3>1. Len(Argvs) \in Nat /\ parses \in Nat
      BY ColaAssumption DEF ColaInv, LineInv
    <3> QED BY <1>2, <3>1
  <2>2. /\ argv \in Seq(Range(argv))
        /\ \A t \in Range(argv) : t.dashes \in 0..2 /\ t.letters \in Seq(Range(t.letters))
    BY <2>1, ColaAssumption
  <2>3. Len(argv) \in Nat
    BY <2>2, LenProperties
  <2>4. /\ args' = argv /\ it' = 1 /\ parses' = parses + 1
        /\ UNCHANGED <<options, lookup, parsed, undefined, failed>> /\ ~parsed
    BY <1>2 DEF Parse
  <2>5. LineInv'
    BY <2>1, <2>2, <2>3, <2>4 DEF ColaInv, LineInv
  <2> QED BY <2>4, <2>5 DEF ColaInv, OptionsInv, LookupInv
<1>3. CASE ParseImpl
  <2>1. /\ LoopKeeps /\ UNCHANGED <<lookup, args, parses, before>>
        /\ parsed' = FALSE \/ (parsed' = TRUE /\ it' = 0)
    BY <1>3, LoopFrame
  <2>2. LookupInv'
    BY <2>1, NamesKept DEF ColaInv, LoopKeeps, SameOptions
  <2>3. LineInv'
    BY <2>1 DEF ColaInv, LineInv, LoopKeeps
  <2> QED BY <2>1, <2>2, <2>3 DEF ColaInv, LoopKeeps
<1>4. CASE Reset
  <2>1. /\ options' = [o \in DOMAIN options |-> options'[o]]
        /\ \A o \in DOMAIN options : \E b \in BOOLEAN :
              options'[o] = [options[o] EXCEPT !.passed = b]
    BY <1>4 DEF Reset
  <2>2. OptionsInv' /\ SameOptions /\ lookup' = lookup
    BY <1>4, <2>1, OptionsPassed DEF ColaInv, Reset
  <2>3. LookupInv'
    BY <2>2, NamesKept DEF ColaInv, SameOptions
  <2>4. /\ args' = << >> /\ it' = 0 /\ parsed' = FALSE /\ failed' = "none"
        /\ UNCHANGED <<undefined, parses>>
    BY <1>4 DEF Reset
  <2>5. args' \in Seq(Range(args')) /\ Len(args') \in Nat /\ Range(args') = {}
    <3>1. DOMAIN << >> = {}
      BY EmptySeq, LenProperties
    <3>2. Range(args') = {}
      BY <2>4, <3>1 DEF Range
    <3> QED BY <2>4, <3>2, EmptySeq
  <2>6. it' \in 0..(Len(args') + 1)
    BY <2>4, <2>5
  <2>7. LineInv'
    BY <2>4, <2>5, <2>6 DEF ColaInv, LineInv
  <2> QED BY <2>2, <2>3, <2>7 DEF ColaInv
<1>5. CASE UNCHANGED colaVars
  BY <1>5 DEF colaVars, ColaInv, OptionsInv, LookupInv, LineInv
<1> QED BY <1>1, <1>2, <1>3, <1>4, <1>5 DEF ColaNext

LEMMA ColaCorrect == ColaSpec => []ColaInv
BY ColaInvInit, ColaInvStep, PTL DEF ColaSpec

\* Every variable of the parser keeps its type through set-up, any command line, an
\* exception and a reset; in particular lookup_ never leads past options_, and the
\* iterator of parse_impl never past the end of the line.
THEOREM ColaTypeCorrect == ColaSpec => []ColaTypeOK
<1>1. ColaInv => ColaTypeOK
  <2> SUFFICES ASSUME ColaInv PROVE ColaTypeOK
    OBVIOUS
  <2>1. \A o \in DOMAIN options :
          /\ options[o].type \in ArgType \cup {FLAG}
          /\ {options[o].passed} \subseteq BOOLEAN
          /\ options[o].names \in Seq(Name) \ {<< >>} /\ options[o].delim \in Delim
    BY OptionTypes DEF ColaInv, OptionSet
  <2>2. Range(lookup) \subseteq DOMAIN options
    BY DEF ColaInv, LookupInv, Range
  <2> QED BY <2>1, <2>2 DEF ColaTypeOK, ColaInv, OptionsInv, LineInv
<1> QED BY <1>1, ColaCorrect, PTL

\* For any names, however options share them: an option can be asked for by the name it
\* was defined with, and a name leads only to an option that has it (define, alias).
THEOREM LookupCorrect == ColaSpec => []LookupLeadsHome
<1>1. ColaInv => LookupLeadsHome
  BY DEF ColaInv, LookupInv, LookupLeadsHome
<1> QED BY <1>1, ColaCorrect, PTL

-----------------------------------------------------------------------------
(* What a literal says.                                                    *)

\* What a literal says is a matter of the line, the names and the options' types: no
\* step of parse() changes it.
LEMMA OptionsKept ==
    ASSUME ColaInv, SameOptions, UNCHANGED <<lookup, args>>
    PROVE  /\ \A name : IsDefined(name)' <=> IsDefined(name)
           /\ \A name : WantsArg(name)' <=> WantsArg(name)
           /\ \A o \in DOMAIN options : HasArg(o)' <=> HasArg(o)
           /\ \A o \in DOMAIN options : \A text :
                /\ Pieces(options'[o], text) = Pieces(options[o], text)
                /\ Readable(options'[o], text) <=> Readable(options[o], text)
<1>1. \A name : IsDefined(name)' <=> IsDefined(name)
  BY DEF IsDefined
<1>2. \A o \in DOMAIN options : HasArg(o)' <=> HasArg(o)
  BY DEF SameOptions, HasArg
<1>3. \A name : WantsArg(name)' <=> WantsArg(name)
  <2>1. \A name : IsDefined(name) => lookup[name] \in DOMAIN options
    BY DEF IsDefined, ColaInv, LookupInv
  <2> QED BY <1>1, <1>2, <2>1 DEF WantsArg
<1>4. ASSUME NEW o \in DOMAIN options, NEW text
      PROVE  /\ Pieces(options'[o], text) = Pieces(options[o], text)
             /\ Readable(options'[o], text) <=> Readable(options[o], text)
  <2>1. options'[o].type = options[o].type /\ options'[o].delim = options[o].delim
    BY DEF SameOptions
  <2>2. Pieces(options'[o], text) = Pieces(options[o], text)
    BY <2>1 DEF Pieces
  <2> QED BY <2>1, <2>2 DEF Readable
<1> QED BY <1>1, <1>2, <1>3, <1>4

LEMMA LineKept ==
    ASSUME ColaInv, SameOptions, UNCHANGED <<lookup, args>>
    PROVE  /\ Literals' = Literals
           /\ \A i : Ends(i)' <=> Ends(i)
           /\ \A i : NamesIn(i)' = NamesIn(i) /\ Argument(i)' = Argument(i)
           /\ \A i : (Single(i)' <=> Single(i)) /\ (Acceptable(i)' <=> Acceptable(i))
           /\ \A i : LeftOver(i)' <=> LeftOver(i)
           /\ \A o : Mentions(o)' = Mentions(o)
<1>1. /\ \A name : IsDefined(name)' <=> IsDefined(name)
      /\ \A name : WantsArg(name)' <=> WantsArg(name)
      /\ \A name : IsDefined(name) => lookup[name] \in DOMAIN options
  BY OptionsKept DEF IsDefined, ColaInv, LookupInv
<1>2. \A i : TakesNext(i)' <=> TakesNext(i)
  BY <1>1 DEF TakesNext
<1>3. Takers' = Takers
  BY <1>2 DEF Takers
<1>4. \A i : (OnItsOwn(i)' <=> OnItsOwn(i)) /\ (Ends(i)' <=> Ends(i))
  BY <1>3 DEF OnItsOwn, Ends
<1>5. Literals' = Literals
  BY <1>4 DEF Literals
<1>6. \A i : NamesIn(i)' = NamesIn(i)
  BY <1>1 DEF NamesIn
<1>7. \A i : (Argument(i)' = Argument(i)) /\ (Single(i)' <=> Single(i))
  BY DEF Argument, Single
<1>8. \A i : GivesArgument(i)' <=> GivesArgument(i)
  BY <1>1, <1>2 DEF GivesArgument
<1>9. ASSUME NEW i
      PROVE  Acceptable(i)' <=> Acceptable(i)
  <2>1. \A name : WantsArg(name) =>
           (Readable(options'[lookup[name]], Argument(i))
               <=> Readable(options[lookup[name]], Argument(i)))
    BY <1>1, OptionsKept DEF WantsArg
  <2> QED BY <1>1, <1>6, <1>7, <1>8, <2>1 DEF Acceptable
<1>10. \A i : LeftOver(i)' <=> LeftOver(i)
  BY <1>1, <1>4, <1>5, <1>6, <1>7 DEF LeftOver
<1>11. \A o : Mentions(o)' = Mentions(o)
  BY <1>1, <1>5, <1>6 DEF Mentions
<1> QED BY <1>4, <1>5, <1>6, <1>7, <1>9, <1>10, <1>11

\* Which literal comes after one.
LEMMA NextLiteral ==
    ASSUME ColaInv, it \in Literals
    PROVE  /\ it \in 1..Len(args) /\ ~\E j \in 1..(it - 1) : Ends(j)
           /\ ~TakesNext(it) /\ ~Ends(it) /\ it + 1 \in DOMAIN args =>
                it + 1 \in Literals
           /\ TakesNext(it) =>
                /\ ~Ends(it) /\ it + 1 \notin Literals
                /\ ~Ends(it + 1) /\ it + 2 \in 1..(Len(args) + 1)
                /\ it + 2 \in DOMAIN args => it + 2 \in Literals
           /\ Ends(it) => \A i \in Literals : i <= it
<1>1. DOMAIN args = 1..Len(args) /\ Len(args) \in Nat
  BY LenProperties DEF ColaInv, LineInv
<1>2. it \in 1..Len(args) /\ OnItsOwn(it) /\ ~\E j \in 1..(it - 1) : Ends(j)
  BY <1>1 DEF Literals
<1>3. \A i \in Nat : i > 1 => (OnItsOwn(i) <=> ~(OnItsOwn(i - 1) /\ i - 1 \in Takers))
  <2>1. \A i \in Nat : i > 1 => ~(i <= 1)
    OBVIOUS
  <2> QED BY <2>1, AloneDefined DEF OnItsOwn
<1>4. it + 1 \in Nat /\ it + 1 > 1 /\ (it + 1) - 1 = it
      /\ it + 2 \in Nat /\ it + 2 > 1 /\ (it + 2) - 1 = it + 1
  BY <1>1, <1>2
<1>5. OnItsOwn(it + 1) <=> ~(OnItsOwn(it) /\ it \in Takers)
  BY <1>3, <1>4
<1>6. OnItsOwn(it + 2) <=> ~(OnItsOwn(it + 1) /\ it + 1 \in Takers)
  BY <1>3, <1>4
<1>7. it \in Takers <=> TakesNext(it)
  BY <1>1, <1>2 DEF Takers
<1>8. ASSUME ~TakesNext(it), ~Ends(it), it + 1 \in DOMAIN args
      PROVE  it + 1 \in Literals
  <2>1. \A j \in 1..((it + 1) - 1) : j = it \/ j \in 1..(it - 1)
    BY <1>1, <1>2
  <2>2. \A j \in 1..((it + 1) - 1) : ~Ends(j)
    BY <1>2, <1>8, <2>1
  <2> QED BY <1>5, <1>7, <1>8, <2>2 DEF Literals
<1>9. ASSUME TakesNext(it)
      PROVE  /\ ~Ends(it) /\ it + 1 \notin Literals
             /\ ~Ends(it + 1) /\ it + 2 \in 1..(Len(args) + 1)
             /\ it + 2 \in DOMAIN args => it + 2 \in Literals
  <2>1. ~OnItsOwn(it + 1) /\ OnItsOwn(it + 2)
    BY <1>2, <1>5, <1>6, <1>7, <1>9
  <2>2. ~Ends(it) /\ ~Ends(it + 1) /\ it < Len(args)
    BY <1>9, <2>1 DEF Ends, TakesNext
  <2>3. \A j \in 1..((it + 2) - 1) : j = it \/ j = it + 1 \/ j \in 1..(it - 1)
    BY <1>1, <1>2
  <2>4. \A j \in 1..((it + 2) - 1) : ~Ends(j)
    BY <1>2, <2>2, <2>3
  <2>5. it + 2 \in 1..(Len(args) + 1)
    BY <1>1, <1>2, <2>2
  <2> QED BY <2>1, <2>2, <2>4, <2>5 DEF Literals
<1>10. ASSUME Ends(it), NEW i \in Literals
       PROVE  i <= it
  <2>1. i \in 1..Len(args) /\ \A j \in 1..(i - 1) : ~Ends(j)
    BY <1>1 DEF Literals
  <2> QED BY <1>1, <1>2, <1>10, <2>1
<1> QED BY <1>2, <1>8, <1>9, <1>10

-----------------------------------------------------------------------------
(* What one turn of the loop makes of its literal.                         *)

Speaks(i, o) == \E name \in NamesIn(i) : IsDefined(name) /\ lookup[name] = o

\* The options it names are passed, with their argument if they want one.
OptionsRead ==
    \A o \in DOMAIN options :
        /\ ~Speaks(it, o) => /\ options'[o].passed = options[o].passed
                             /\ options'[o].value = options[o].value
        /\ Speaks(it, o) =>
             /\ options'[o].passed = TRUE
             /\ HasArg(o) => options'[o].value = Pieces(options[o], Argument(it))
             /\ ~HasArg(o) => options'[o].value = options[o].value

UnknownIn(i) == Single(i) /\ \E name \in NamesIn(i) : ~IsDefined(name)

\* The literal is acceptable and read, and the loop goes on behind it.
Read ==
    /\ Acceptable(it) /\ OptionsRead
    /\ failed' = failed /\ parsed' = FALSE
    /\ (undefined \/ UnknownIn(it)) => undefined' = TRUE
    /\ it' = IF Ends(it) THEN Len(args) + 1 ELSE IF TakesNext(it) THEN it + 2 ELSE it + 1
    /\ rest' = IF Ends(it) THEN rest \o SubSeq(args, it + 1, Len(args))
               ELSE IF LeftOver(it) THEN Append(rest, args[it]) ELSE rest

\* The literal is not acceptable, and an exception leaves parse().
Refuse == ~Acceptable(it) /\ it' = 0 /\ parsed' = FALSE /\ failed' # "none"

\* Before the end of the options, only a literal may be left over, by itself.
LEMMA LeftOverHere ==
    ASSUME ColaInv, it \in Literals
    PROVE  LeftOver(it) <=> Judge(args[it]) = "ELSE" \/ UnknownIn(it)
BY NextLiteral DEF LeftOver, UnknownIn

\* passed() of one option by the one name of the literal.
LEMMA OneNamePassed ==
    ASSUME ColaInv, it \in Literals, NEW name, NamesIn(it) = {name}, IsDefined(name),
           \/ /\ ~WantsArg(name)
              /\ options' = [options EXCEPT ![lookup[name]].passed = TRUE]
           \/ /\ WantsArg(name)
              /\ options' = [options EXCEPT
                               ![lookup[name]].passed = TRUE,
                               ![lookup[name]].value =
                                   Pieces(options[lookup[name]], Argument(it))]
    PROVE  OptionsRead
<1> DEFINE o == lookup[name]
<1>1. o \in DOMAIN options /\ OptionsInv
  BY DEF IsDefined, ColaInv, LookupInv
<1>2. /\ options'[o].passed = TRUE
      /\ HasArg(o) => options'[o].value = Pieces(options[o], Argument(it))
      /\ ~HasArg(o) => options'[o].value = options[o].value
      /\ \A q \in DOMAIN options : q # o => options'[q] = options[q]
  <2>1. CASE ~WantsArg(name) /\ options' = [options EXCEPT ![o].passed = TRUE]
    <3>1. ~HasArg(o)
      BY <2>1 DEF WantsArg
    <3> QED BY <1>1, <2>1, <3>1, OptionPassed
  <2>2. CASE /\ WantsArg(name)
             /\ options' = [options EXCEPT ![o].passed = TRUE,
                                           ![o].value = Pieces(options[o], Argument(it))]
    <3>1. HasArg(o)
      BY <2>2 DEF WantsArg
    <3> HIDE DEF o
    <3> QED BY <1>1, <2>2, <3>1, OptionPassedWith
  <2> QED BY <2>1, <2>2
<1>3. \A q : Speaks(it, q) <=> q = o
  BY DEF Speaks
<1> QED BY <1>2, <1>3 DEF OptionsRead

\* Nothing is passed where no name is known.
LEMMA NoNamePassed ==
    ASSUME options' = options, \A name \in NamesIn(it) : ~IsDefined(name)
    PROVE  OptionsRead
BY DEF OptionsRead, Speaks

\* A literal of one name nobody has defined.
LEMMA UndefinedRead ==
    ASSUME ColaInv, it \in Literals, parsed = FALSE, NoteUndefined, parsed' = parsed,
           NamesIn(it) = {args[it].letters}, Single(it),
           ~TakesNext(it), ~Ends(it)
    PROVE  Read
<1>1. Acceptable(it) /\ UnknownIn(it) /\ LeftOver(it)
  BY LeftOverHere DEF NoteUndefined, Acceptable, UnknownIn
<1>2. OptionsRead
  BY NoNamePassed DEF NoteUndefined
<1> QED BY <1>1, <1>2 DEF Read, NoteUndefined, SetAside, Goto

LEMMA EvalNameReads ==
    ASSUME ColaInv, it \in Literals, parsed = FALSE, EvalShort \/ EvalLong
    PROVE  Read \/ Refuse
<1> DEFINE name == args[it].letters
<1>1. /\ EvalName /\ Judge(args[it]) \in {"SHORT", "LONG"}
      /\ parsed' = parsed /\ it \in 1..Len(args)
  BY NextLiteral DEF EvalShort, EvalLong, At
<1>2. NamesIn(it) = {name} /\ Single(it) /\ ~Ends(it) /\ Judge(args[it]) # "ELSE"
      /\ (TakesNext(it) <=> it < Len(args) /\ WantsArg(name))
      /\ (GivesArgument(it) <=> TakesNext(it))
      /\ Argument(it) = args[it + 1]
      /\ Judge(args[it]) # "LONG_ARG"
  BY <1>1 DEF NamesIn, Single, Ends, TakesNext, GivesArgument, Argument
<1>3. CASE NoteUndefined
  <2>1. ~TakesNext(it)
    BY <1>2, <1>3 DEF NoteUndefined, WantsArg
  <2> QED BY <1>1, <1>2, <1>3, <2>1, UndefinedRead
<1>4. CASE /\ IsDefined(name) /\ ~WantsArg(name)
           /\ options' = [options EXCEPT ![lookup[name]].passed = TRUE]
           /\ Goto(it + 1) /\ UNCHANGED <<rest, undefined>>
  <2>1. OptionsRead /\ ~UnknownIn(it) /\ Acceptable(it) /\ ~TakesNext(it)
    BY <1>2, <1>4, OneNamePassed DEF UnknownIn, Acceptable
  <2> QED BY <1>1, <1>2, <1>4, <2>1, LeftOverHere DEF Read, Goto
<1>5. CASE /\ WantsArg(name) /\ it < Len(args)
           /\ PassWith(lookup[name], args[it + 1], it + 2)
  <2>1. TakesNext(it) /\ GivesArgument(it) /\ IsDefined(name) /\ ~UnknownIn(it)
    BY <1>2, <1>5 DEF WantsArg, UnknownIn
  <2>2. Acceptable(it) <=> Readable(options[lookup[name]], args[it + 1])
    BY <1>2, <1>5, <2>1 DEF Acceptable
  <2>3. CASE Readable(options[lookup[name]], args[it + 1])
    <3>1. OptionsRead
      BY <1>2, <1>5, <2>1, <2>3, OneNamePassed DEF PassWith
    <3> QED BY <1>1, <1>2, <1>5, <2>1, <2>2, <2>3, <3>1, LeftOverHere
            DEF Read, PassWith, Goto
  <2>4. CASE ~Readable(options[lookup[name]], args[it + 1])
    BY <1>1, <1>5, <2>2, <2>4 DEF Refuse, PassWith, Throw
  <2> QED BY <2>3, <2>4
<1>6. CASE WantsArg(name) /\ it = Len(args) /\ Throw("runtime_error")
  <2>1. ~GivesArgument(it)
    BY <1>1, <1>2, <1>6
  <2>2. ~Acceptable(it)
    BY <1>2, <1>6, <2>1 DEF Acceptable, WantsArg
  <2> QED BY <1>1, <1>6, <2>2 DEF Refuse, Throw
<1> QED BY <1>1, <1>3, <1>4, <1>5, <1>6 DEF EvalName

LEMMA EvalShortValueReads ==
    ASSUME ColaInv, it \in Literals, parsed = FALSE, EvalShortValue
    PROVE  Read \/ Refuse
<1> DEFINE letters == args[it].letters
           name == <<letters[1]>>
           text == Word(Tail(letters))
<1>1. /\ Judge(args[it]) = "SHORTS" /\ WantsArg(name) /\ IsDefined(name)
      /\ PassWith(lookup[name], text, it + 1) /\ parsed' = parsed
  BY DEF EvalShortValue, At, WantsArg
<1>2. /\ NamesIn(it) = {name} /\ ~Single(it) /\ ~Ends(it) /\ ~TakesNext(it)
      /\ GivesArgument(it) /\ Argument(it) = text
  BY <1>1 DEF NamesIn, Single, Ends, TakesNext, GivesArgument, Argument
<1> HIDE DEF text, name
<1>3. Acceptable(it) <=> Readable(options[lookup[name]], text)
  BY <1>1, <1>2 DEF Acceptable
<1>4. CASE Readable(options[lookup[name]], text)
  <2>1. OptionsRead /\ ~UnknownIn(it) /\ ~LeftOver(it)
    BY <1>1, <1>2, <1>4, OneNamePassed, LeftOverHere DEF PassWith, UnknownIn
  <2> QED BY <1>1, <1>2, <1>3, <1>4, <2>1 DEF Read, PassWith, Goto
<1>5. CASE ~Readable(options[lookup[name]], text)
  BY <1>1, <1>3, <1>5 DEF Refuse, PassWith, Throw
<1> QED BY <1>4, <1>5

LEMMA EvalShortsReads ==
    ASSUME ColaInv, it \in Literals, parsed = FALSE, EvalShorts
    PROVE  Read \/ Refuse
<1> DEFINE letters == args[it].letters
           IsFlag(j) == IsDefined(<<letters[j]>>) /\ ~WantsArg(<<letters[j]>>)
           done == {j \in DOMAIN letters : \A k \in 1..j : IsFlag(k)}
<1>1. /\ Judge(args[it]) = "SHORTS" /\ ~WantsArg(<<letters[1]>>) /\ parsed' = parsed
      /\ options' = [o \in DOMAIN options |->
                         [options[o] EXCEPT !.passed =
                            @ \/ \E j \in done : lookup[<<letters[j]>>] = o]]
      /\ \/ done = DOMAIN letters /\ Goto(it + 1) /\ UNCHANGED <<rest, undefined>>
         \/ \E j \in DOMAIN letters \ done :
              /\ \A k \in 1..(j - 1) : k \in done
              /\ Throw(IF IsDefined(<<letters[j]>>) THEN "runtime_error"
                                                     ELSE "logic_error")
  BY DEF EvalShorts, At
<1>2. /\ NamesIn(it) = {<<letters[j]>> : j \in DOMAIN letters}
      /\ ~Single(it) /\ ~Ends(it) /\ ~TakesNext(it) /\ ~GivesArgument(it)
      /\ Judge(args[it]) # "LONG_ARG" /\ ~LeftOver(it) /\ ~UnknownIn(it)
  <2>1. /\ NamesIn(it) = {<<letters[j]>> : j \in DOMAIN letters}
        /\ ~Single(it) /\ ~Ends(it) /\ ~TakesNext(it) /\ ~GivesArgument(it)
        /\ Judge(args[it]) # "LONG_ARG" /\ Judge(args[it]) # "ELSE"
    BY <1>1 DEF NamesIn, Single, Ends, TakesNext, GivesArgument
  <2> QED BY <2>1, LeftOverHere DEF UnknownIn
<1>3. Acceptable(it) <=> \A j \in DOMAIN letters : IsFlag(j)
  BY <1>2 DEF Acceptable
<1>4. \A j \in DOMAIN letters : j \in Nat /\ j \in 1..j /\ 1..j \subseteq DOMAIN letters
  <2>1. args[it] \in Range(args)
    BY DEF Literals, Range
  <2>2. letters \in Seq(Range(letters))
    BY <2>1 DEF ColaInv, LineInv
  <2> HIDE DEF letters
  <2> QED BY <2>2, LenProperties
<1>5. CASE done = DOMAIN letters /\ Goto(it + 1) /\ UNCHANGED <<rest, undefined>>
  <2>1. \A j \in DOMAIN letters : IsFlag(j)
    BY <1>4, <1>5
  <2>2. \A o : Speaks(it, o) <=> \E j \in done : lookup[<<letters[j]>>] = o
    BY <1>2, <1>5, <2>1 DEF Speaks
  <2>3. \A o : Speaks(it, o) => ~HasArg(o)
    BY <1>2, <2>1 DEF Speaks, WantsArg
  <2>4. OptionsRead
    <3> HIDE DEF done
    <3>1. SUFFICES ASSUME NEW o \in DOMAIN options
                   PROVE  /\ ~Speaks(it, o) => options'[o].passed = options[o].passed
                          /\ Speaks(it, o) => options'[o].passed = TRUE
                          /\ options'[o].value = options[o].value
      BY <2>3 DEF OptionsRead
    <3>2. PICK b \in BOOLEAN :
             /\ b <=> options[o].passed \/ \E j \in done : lookup[<<letters[j]>>] = o
             /\ options'[o] = [options[o] EXCEPT !.passed = b]
      BY <1>1, GroupPassed
    <3>3. \E V : options[o] \in OptionSet(V)
      BY OptionTypes DEF ColaInv
    <3>4. options'[o].passed = b /\ options'[o].value = options[o].value
          /\ options[o].passed \in BOOLEAN
      BY <3>2, <3>3 DEF OptionSet
    <3> QED BY <2>2, <3>2, <3>4
  <2> QED BY <1>1, <1>2, <1>3, <1>5, <2>1, <2>4 DEF Read, Goto
<1>6. ASSUME NEW j \in DOMAIN letters \ done,
             \A k \in 1..(j - 1) : k \in done,
             Throw(IF IsDefined(<<letters[j]>>) THEN "runtime_error" ELSE "logic_error")
      PROVE  Refuse
  <2>1. \E k \in DOMAIN letters : ~IsFlag(k)
    BY <1>4, <1>6
  <2> QED BY <1>1, <1>3, <1>6, <2>1 DEF Refuse, Throw
<1> QED BY <1>1, <1>5, <1>6

LEMMA EvalLongParamReads ==
    ASSUME ColaInv, it \in Literals, parsed = FALSE, EvalLongParam
    PROVE  Read \/ Refuse
<1> DEFINE name == args[it].letters
           value == args[it].value
<1>1. Judge(args[it]) = "LONG_ARG" /\ parsed' = parsed
  BY DEF EvalLongParam, At
<1>2. NamesIn(it) = {name} /\ Single(it) /\ ~Ends(it) /\ ~TakesNext(it)
      /\ (GivesArgument(it) <=> value # << >>) /\ Argument(it) = Word(value)
  BY <1>1 DEF NamesIn, Single, Ends, TakesNext, GivesArgument, Argument
<1>3. CASE NoteUndefined
  BY <1>1, <1>2, <1>3, UndefinedRead
<1>4. CASE IsDefined(name) /\ value = << >> /\ Throw("runtime_error")
  <2>1. ~Acceptable(it)
    BY <1>1, <1>2, <1>4 DEF Acceptable
  <2> QED BY <1>1, <1>4, <2>1 DEF Refuse, Throw
<1>5. CASE WantsArg(name) /\ value # << >> /\ PassWith(lookup[name], Word(value), it + 1)
  <2> DEFINE text == Word(value)
  <2> HIDE DEF text
  <2>1. IsDefined(name) /\ ~UnknownIn(it) /\ ~LeftOver(it)
    BY <1>1, <1>2, <1>5, LeftOverHere DEF UnknownIn, WantsArg
  <2>2. PassWith(lookup[name], text, it + 1) /\ Argument(it) = text
    BY <1>2, <1>5 DEF text
  <2>3. Acceptable(it) <=> Readable(options[lookup[name]], text)
    BY <1>2, <1>5, <2>1, <2>2 DEF Acceptable
  <2>4. CASE Readable(options[lookup[name]], text)
    <3>1. OptionsRead
      BY <1>2, <1>5, <2>1, <2>2, <2>4, OneNamePassed DEF PassWith
    <3> QED BY <1>1, <1>2, <2>1, <2>2, <2>3, <2>4, <3>1 DEF Read, PassWith, Goto
  <2>5. CASE ~Readable(options[lookup[name]], text)
    BY <1>1, <2>2, <2>3, <2>5 DEF Refuse, PassWith, Throw
  <2> QED BY <2>4, <2>5
<1>6. CASE IsDefined(name) /\ ~WantsArg(name) /\ Throw("logic_error")
  <2>1. ~Acceptable(it)
    BY <1>1, <1>2, <1>6 DEF Acceptable
  <2> QED BY <1>1, <1>6, <2>1 DEF Refuse, Throw
<1> QED BY <1>3, <1>4, <1>5, <1>6 DEF EvalLongParam

LEMMA LiteralRead ==
    ASSUME ColaInv, it \in Literals, ParseImpl
    PROVE  Read \/ Refuse
<1>1. parsed = FALSE /\ it \in 1..Len(args) /\ Len(args) \in Nat
  BY LoopFrame, NextLiteral, LenProperties DEF ColaInv, LineInv
<1>2. ASSUME Ignore \/ IgnoreAfter \/ Else
      PROVE  Read
  <2>1. /\ Judge(args[it]) \in {"IGNORE", "IGNORE_AFTER", "ELSE"} /\ parsed' = parsed
        /\ options' = options /\ undefined' = undefined /\ failed' = failed
    BY <1>2 DEF Ignore, IgnoreAfter, Else, At, Goto
  <2>2. NamesIn(it) = {} /\ ~TakesNext(it) /\ ~UnknownIn(it)
        /\ (Ends(it) <=> Judge(args[it]) = "IGNORE_AFTER")
        /\ (LeftOver(it) <=> Judge(args[it]) = "ELSE")
    <3>1. NamesIn(it) = {} /\ ~TakesNext(it) /\ OnItsOwn(it)
      BY <2>1 DEF NamesIn, TakesNext, Literals
    <3> QED BY <3>1, LeftOverHere DEF UnknownIn, Ends
  <2>3. Acceptable(it) /\ OptionsRead
    BY <2>1, <2>2, NoNamePassed DEF Acceptable
  <2> QED BY <1>1, <1>2, <2>1, <2>2, <2>3
          DEF Read, Ignore, IgnoreAfter, Else, At, Goto, SetAside
<1>3. ~ParseEnds
  BY <1>1 DEF ParseEnds
<1> QED BY <1>1, <1>2, <1>3, EvalNameReads, EvalShortValueReads, EvalShortsReads,
        EvalLongParamReads DEF ParseImpl

-----------------------------------------------------------------------------
(* What has been read so far.                                              *)

\* parse() has read the arguments before this one.
Pos == IF it > 0 THEN it ELSE Len(args) + 1

Reading == it > 0 \/ parsed

LeftBefore(p) == {i \in DOMAIN args : LeftOver(i) /\ i < p}

\* r holds the arguments of the line that are in places, in their order.
Holds(r, places) ==
    /\ r \in Seq(Range(args))
    /\ \E left \in [DOMAIN r -> places] :
         /\ places \subseteq Range(left)
         /\ \A j, k \in DOMAIN r : j < k => left[j] < left[k]
         /\ \A k \in DOMAIN r : r[k] = args[left[k]]

MentionsBefore(o, p) == {i \in Mentions(o) : i < p}

\* The option has its value from the last literal that speaks of it.
ValueRight(o, p) ==
    LET spoken == MentionsBefore(o, p)
    IN  /\ options[o].passed <=> spoken # {}
        /\ spoken = {} => options[o].value = before[o]
        /\ spoken # {} =>
             \E last \in spoken :
                /\ \A i \in spoken : i <= last
                /\ HasArg(o) => options[o].value = Pieces(options[o], Argument(last))

ReadInv ==
    Reading =>
        /\ it \in DOMAIN args => it \in Literals
        /\ \A i \in Literals : i < Pos => Acceptable(i) /\ (UnknownIn(i) => undefined)
        /\ failed = "none" =>
             /\ Holds(rest, LeftBefore(Pos))
             /\ \A o \in DOMAIN options : ValueRight(o, Pos)

\* Before parse(), nothing is set aside or passed.
FreshInv ==
    it = 0 /\ ~parsed /\ failed = "none" =>
        rest = << >> /\ \A o \in DOMAIN options : options[o].passed = FALSE

ParseInv == ColaInv /\ ReadInv /\ FreshInv

\* More of the line is added to what r holds: the arguments m to n.
LEMMA HoldsMore ==
    ASSUME NEW r, NEW places, places \subseteq DOMAIN args, DOMAIN args \subseteq Nat,
           NEW m \in Nat, NEW n \in Nat, m <= n + 1, m..n \subseteq DOMAIN args,
           Holds(r, places), \A i \in places : i < m,
           NEW more, more \in Seq(Range(args)), Len(more) = n - m + 1,
           \A k \in 1..Len(more) : more[k] = args[m + k - 1]
    PROVE  Holds(r \o more, places \cup m..n)
<1> DEFINE s == r \o more
<1>1. r \in Seq(Range(args)) /\ Len(r) \in Nat /\ DOMAIN r = 1..Len(r)
  BY LenProperties DEF Holds
<1>2. PICK left \in [DOMAIN r -> places] :
             /\ places \subseteq Range(left)
             /\ \A j, k \in DOMAIN r : j < k => left[j] < left[k]
             /\ \A k \in DOMAIN r : r[k] = args[left[k]]
  BY DEF Holds
<1>3. /\ s \in Seq(Range(args)) /\ Len(s) = Len(r) + Len(more)
      /\ \A k \in 1..Len(r) : s[k] = r[k]
      /\ \A k \in (Len(r) + 1)..Len(s) : s[k] = more[k - Len(r)]
  <2>1. /\ s \in Seq(Range(args)) /\ Len(s) = Len(r) + Len(more)
        /\ \A k \in 1..Len(r) + Len(more) :
              s[k] = IF k <= Len(r) THEN r[k] ELSE more[k - Len(r)]
    BY <1>1, ConcatProperties
  <2>2. Len(more) \in Nat
    BY LenProperties
  <2> HIDE DEF s
  <2>3. \A k \in 1..Len(r) : s[k] = r[k]
    <3>1. \A k \in 1..Len(r) : k \in 1..(Len(r) + Len(more)) /\ k <= Len(r)
      BY <1>1, <2>2
    <3> QED BY <2>1, <3>1
  <2>4. \A k \in (Len(r) + 1)..Len(s) : s[k] = more[k - Len(r)]
    <3>1. \A k \in (Len(r) + 1)..Len(s) : k \in 1..(Len(r) + Len(more)) /\ ~(k <= Len(r))
      BY <1>1, <2>1, <2>2
    <3> QED BY <2>1, <3>1
  <2> QED BY <2>1, <2>3, <2>4
<1>4. DOMAIN s = 1..Len(s) /\ Len(s) \in Nat /\ Len(s) = Len(r) + n - m + 1
  BY <1>1, <1>3, LenProperties
<1> HIDE DEF s
<1> DEFINE new == [k \in DOMAIN s |-> IF k <= Len(r) THEN left[k] ELSE k - Len(r) + m - 1]
<1>5. \A k \in DOMAIN s :
        \/ k <= Len(r) /\ k \in DOMAIN r /\ new[k] = left[k] /\ new[k] \in places
        \/ /\ k > Len(r) /\ k - Len(r) \in 1..Len(more)
           /\ new[k] = k - Len(r) + m - 1 /\ new[k] \in m..n
  BY <1>1, <1>2, <1>4
<1>6. new \in [DOMAIN s -> places \cup m..n]
  BY <1>5
<1>7. places \cup m..n \subseteq Range(new)
  <2>1. ASSUME NEW i \in places
        PROVE  i \in Range(new)
    <3>1. PICK k \in DOMAIN r : left[k] = i
      BY <1>2 DEF Range
    <3>2. k \in DOMAIN s /\ new[k] = i
      BY <1>1, <1>4, <3>1
    <3> HIDE DEF new
    <3> QED BY <1>6, <3>2 DEF Range
  <2>2. ASSUME NEW i \in m..n
        PROVE  i \in Range(new)
    <3> DEFINE k == i + Len(r) - m + 1
    <3>1. k \in DOMAIN s /\ new[k] = i
      BY <1>1, <1>4
    <3> HIDE DEF new, k
    <3> QED BY <1>6, <3>1 DEF Range
  <2> QED BY <2>1, <2>2
<1>8. \A k \in DOMAIN s : s[k] = args[new[k]]
  <2> SUFFICES ASSUME NEW k \in DOMAIN s PROVE s[k] = args[new[k]]
    OBVIOUS
  <2> HIDE DEF new
  <2>1. CASE k <= Len(r)
    BY <1>1, <1>2, <1>3, <1>5, <2>1
  <2>2. CASE k > Len(r)
    <3>1. k \in (Len(r) + 1)..Len(s) /\ k - Len(r) \in 1..Len(more)
          /\ m + (k - Len(r)) - 1 = k - Len(r) + m - 1
      BY <1>1, <1>4, <1>5, <2>2
    <3>2. s[k] = more[k - Len(r)] /\ more[k - Len(r)] = args[m + (k - Len(r)) - 1]
      BY <1>3, <3>1
    <3>3. new[k] = k - Len(r) + m - 1
      BY <1>1, <1>4, <1>5, <2>2
    <3> QED BY <3>1, <3>2, <3>3
  <2> QED BY <1>1, <1>4, <2>1, <2>2
<1>9. \A j, k \in DOMAIN s : j < k => new[j] < new[k]
  <2> HIDE DEF new
  <2>1. places \subseteq Nat /\ \A i \in places : i < m
    OBVIOUS
  <2> SUFFICES ASSUME NEW j \in DOMAIN s, NEW k \in DOMAIN s, j < k
               PROVE  new[j] < new[k]
    OBVIOUS
  <2>2. CASE k <= Len(r)
    <3>1. j <= Len(r)
      BY <1>1, <1>4, <2>2
    <3>2. j \in DOMAIN r /\ new[j] = left[j]
      BY <1>1, <1>4, <1>5, <3>1
    <3>3. k \in DOMAIN r
      BY <1>1, <1>4, <2>2
    <3>4. new[k] = left[k]
      <4>1. ~(k > Len(r))
        BY <1>1, <1>4, <2>2
      <4> QED BY <1>5, <4>1
    <3> QED BY <1>2, <3>2, <3>3, <3>4
  <2>3. CASE k > Len(r)
    <3>1. new[k] = k - Len(r) + m - 1 /\ k - Len(r) >= 1
      BY <1>1, <1>4, <1>5, <2>3
    <3>2. CASE j <= Len(r)
      <4>1. new[j] \in places
        BY <1>1, <1>4, <1>5, <3>2
      <4> QED BY <1>1, <1>4, <2>1, <2>3, <3>1, <4>1
    <3>3. CASE j > Len(r)
      <4>1. new[j] = j - Len(r) + m - 1
        BY <1>1, <1>4, <1>5, <3>3
      <4> QED BY <1>1, <1>4, <3>1, <4>1
    <3> QED BY <1>1, <1>4, <3>2, <3>3
  <2> QED BY <1>1, <1>4, <2>2, <2>3
<1> HIDE DEF new
<1> QED BY <1>3, <1>6, <1>7, <1>8, <1>9 DEF Holds, s

\* The literal just read is all that lies between the loop's places.
LEMMA PlacesRead ==
    ASSUME ColaInv, it \in Literals, Read
    PROVE  /\ it' \in 1..(Len(args) + 1)
           /\ it' \in DOMAIN args => it' \in Literals
           /\ \A i \in Literals : i < it' <=> i < it \/ i = it
           /\ Ends(it) => LeftBefore(it') = LeftBefore(it) \cup (it + 1)..Len(args)
           /\ ~Ends(it) /\ LeftOver(it) => LeftBefore(it') = LeftBefore(it) \cup it..it
           /\ ~Ends(it) /\ ~LeftOver(it) => LeftBefore(it') = LeftBefore(it)
<1>1. DOMAIN args = 1..Len(args) /\ Len(args) \in Nat /\ it \in 1..Len(args)
  BY NextLiteral, LenProperties DEF ColaInv, LineInv
<1>2. Literals \subseteq Nat /\ LeftBefore(it) \subseteq DOMAIN args
  BY <1>1 DEF Literals, LeftBefore
<1>3. CASE Ends(it)
  <2>1. it' = Len(args) + 1 /\ ~(it' \in DOMAIN args)
    BY <1>1, <1>3 DEF Read
  <2>2. \A i \in Literals : i < it' <=> i < it \/ i = it
    <3>1. \A i \in Literals : i \in 1..Len(args) /\ i <= it
      BY <1>1, <1>3, NextLiteral DEF Literals
    <3> QED BY <1>1, <2>1, <3>1
  <2>3. ~LeftOver(it)
    <3>1. Judge(args[it]) = "IGNORE_AFTER"
      BY <1>3 DEF Ends
    <3>2. NamesIn(it) = {}
      BY <3>1 DEF NamesIn
    <3> QED BY <3>1, <3>2, LeftOverHere DEF UnknownIn
  <2>4. \A i \in (it + 1)..Len(args) : LeftOver(i)
    <3>1. \A i \in (it + 1)..Len(args) : it \in 1..(i - 1)
      BY <1>1
    <3> QED BY <1>3, <3>1 DEF LeftOver
  <2>5. LeftBefore(it') = LeftBefore(it) \cup (it + 1)..Len(args)
    BY <1>1, <2>1, <2>3, <2>4 DEF LeftBefore
  <2> QED BY <1>1, <1>3, <2>1, <2>2, <2>5
<1>4. CASE ~Ends(it) /\ TakesNext(it)
  <2>1. it' = it + 2 /\ it + 2 \in 1..(Len(args) + 1) /\ it + 1 \notin Literals
        /\ (it + 2 \in DOMAIN args => it + 2 \in Literals)
        /\ ~Ends(it + 1) /\ ~\E j \in 1..(it - 1) : Ends(j)
    BY <1>4, NextLiteral DEF Read
  <2>2. \A i \in Literals : i < it' <=> i < it \/ i = it
    <3>1. \A i \in Literals : i \in Nat /\ i # it + 1
      BY <1>2, <2>1
    <3> QED BY <1>1, <2>1, <3>1
  <2>3. ~LeftOver(it + 1)
    <3>1. \A j \in 1..((it + 1) - 1) : j = it \/ j \in 1..(it - 1)
      BY <1>1
    <3> QED BY <1>4, <2>1, <3>1 DEF LeftOver
  <2>4. \A i \in DOMAIN args : i < it' <=> i < it \/ i = it \/ i = it + 1
    BY <1>1, <2>1
  <2>5. LeftBefore(it') = LeftBefore(it) \cup {i \in {it} : LeftOver(i)}
    BY <1>1, <2>3, <2>4 DEF LeftBefore
  <2>6. it..it = {it}
    BY <1>1
  <2> QED BY <1>4, <2>1, <2>2, <2>5, <2>6
<1>5. CASE ~Ends(it) /\ ~TakesNext(it)
  <2>1. it' = it + 1 /\ it + 1 \in 1..(Len(args) + 1)
        /\ (it + 1 \in DOMAIN args => it + 1 \in Literals)
    BY <1>1, <1>5, NextLiteral DEF Read
  <2>2. \A i \in Nat : i < it' <=> i < it \/ i = it
    BY <1>1, <2>1
  <2>3. LeftBefore(it') = LeftBefore(it) \cup {i \in {it} : LeftOver(i)}
    BY <1>1, <2>2 DEF LeftBefore
  <2> QED BY <1>1, <1>2, <1>5, <2>1, <2>2, <2>3
<1> QED BY <1>3, <1>4, <1>5

\* What has been set aside so far, one literal further.
LEMMA RestRead ==
    ASSUME ColaInv, it \in Literals, Read, Holds(rest, LeftBefore(it))
    PROVE  Holds(rest', LeftBefore(it'))
<1>1. DOMAIN args = 1..Len(args) /\ Len(args) \in Nat /\ it \in 1..Len(args)
      /\ args \in Seq(Range(args)) /\ rest \in Seq(Range(args))
  BY NextLiteral, LenProperties DEF ColaInv, LineInv, Holds
<1>2. LeftBefore(it) \subseteq DOMAIN args /\ DOMAIN args \subseteq Nat
      /\ \A i \in LeftBefore(it) : i < it
  BY <1>1 DEF LeftBefore
<1>3. CASE Ends(it)
  <2> DEFINE m == it + 1
             n == Len(args)
             more == SubSeq(args, m, n)
  <2>1. m \in Nat /\ n \in Nat /\ m <= n + 1 /\ m..n \subseteq DOMAIN args
        /\ \A i \in LeftBefore(it) : i < m
    BY <1>1, <1>2
  <2>2. more \in Seq(Range(args)) /\ Len(more) = n - m + 1
        /\ \A k \in 1..Len(more) : more[k] = args[m + k - 1]
    <3>1. m \in 1..(Len(args) + 1)
      BY <1>1
    <3> HIDE DEF m
    <3>2. /\ more \in Seq(Range(args))
          /\ Len(more) = IF m <= n THEN n - m + 1 ELSE 0
          /\ \A k \in 1..(n - m + 1) : more[k] = args[m + k - 1]
      BY <1>1, <3>1, SubSeqProperties
    <3>3. n - m + 1 = IF m <= n THEN n - m + 1 ELSE 0
      BY <1>1, <3>1
    <3> QED BY <3>2, <3>3
  <2>3. rest' = rest \o more /\ LeftBefore(it') = LeftBefore(it) \cup m..n
    BY <1>3, PlacesRead DEF Read
  <2> HIDE DEF m, n, more
  <2>4. Holds(rest \o more, LeftBefore(it) \cup m..n)
    BY <1>2, <2>1, <2>2, HoldsMore
  <2> QED BY <2>3, <2>4
<1>4. CASE ~Ends(it) /\ LeftOver(it)
  <2> DEFINE more == <<args[it]>>
  <2>1. args[it] \in Range(args)
    BY <1>1 DEF Range
  <2>2. more \in Seq(Range(args)) /\ Len(more) = it - it + 1
        /\ \A k \in 1..Len(more) : more[k] = args[it + k - 1]
    BY <1>1, <2>1
  <2>3. rest' = rest \o more /\ LeftBefore(it') = LeftBefore(it) \cup it..it
    BY <1>1, <1>4, <2>1, PlacesRead, AppendIsConcat DEF Read
  <2>4. it \in Nat /\ it <= it + 1 /\ it..it \subseteq DOMAIN args
    BY <1>1
  <2> HIDE DEF more
  <2>5. Holds(rest \o more, LeftBefore(it) \cup it..it)
    BY <1>2, <2>2, <2>4, HoldsMore
  <2> QED BY <2>3, <2>5
<1>5. CASE ~Ends(it) /\ ~LeftOver(it)
  BY <1>5, PlacesRead DEF Read
<1> QED BY <1>3, <1>4, <1>5

\* The value an option has so far, one literal further.
LEMMA ValueRead ==
    ASSUME ColaInv, it \in Literals, Read, SameOptions, UNCHANGED <<lookup, args, before>>,
           NEW o \in DOMAIN options, ValueRight(o, it)
    PROVE  /\ options'[o].passed <=> MentionsBefore(o, it') # {}
           /\ MentionsBefore(o, it') = {} => options'[o].value = before[o]
           /\ MentionsBefore(o, it') # {} =>
                \E last \in MentionsBefore(o, it') :
                   /\ \A i \in MentionsBefore(o, it') : i <= last
                   /\ HasArg(o) => options'[o].value = Pieces(options[o], Argument(last))
<1>1. Mentions(o) = {i \in Literals : Speaks(i, o)}
  BY DEF Mentions, Speaks
<1>2. \A i \in Literals : i < it' <=> i < it \/ i = it
  BY PlacesRead
<1>3. \A i \in Literals : i \in Int
  BY LenProperties DEF Literals, ColaInv, LineInv
<1>4. CASE Speaks(it, o)
  <2>1. MentionsBefore(o, it') = MentionsBefore(o, it) \cup {it}
    BY <1>1, <1>2, <1>4 DEF MentionsBefore
  <2>2. options'[o].passed = TRUE
        /\ (HasArg(o) => options'[o].value = Pieces(options[o], Argument(it)))
    BY <1>4 DEF Read, OptionsRead
  <2>3. \A i \in MentionsBefore(o, it') : i <= it
    BY <1>1, <1>3, <2>1 DEF MentionsBefore
  <2> QED BY <2>1, <2>2, <2>3
<1>5. CASE ~Speaks(it, o)
  <2>1. MentionsBefore(o, it') = MentionsBefore(o, it)
    BY <1>1, <1>2, <1>5 DEF MentionsBefore
  <2>2. options'[o].passed = options[o].passed /\ options'[o].value = options[o].value
    BY <1>5 DEF Read, OptionsRead
  <2> QED BY <2>1, <2>2 DEF ValueRight
<1> QED BY <1>4, <1>5

\* A turn of the loop that reads its literal.
LEMMA ReadGoesOn ==
    ASSUME ColaInv, ReadInv, it \in Literals, ParseImpl, Read
    PROVE  ReadInv' /\ Reading'
<1>1. /\ SameOptions /\ UNCHANGED <<lookup, args, before>> /\ it > 0 /\ Reading
      /\ DOMAIN options' = DOMAIN options /\ parsed' = FALSE
  BY LoopFrame DEF LoopKeeps, SameOptions, Reading, Read
<1>2. /\ it' \in 1..(Len(args) + 1)
      /\ it' \in DOMAIN args => it' \in Literals
      /\ \A i \in Literals : i < it' <=> i < it \/ i = it
  BY PlacesRead
<1>3. Len(args) \in Nat
  BY LenProperties DEF ColaInv, LineInv
<1>4. Pos = it /\ Pos' = it' /\ it' > 0
  BY <1>1, <1>2, <1>3 DEF Pos
<1>5. /\ Literals' = Literals
      /\ \A i : Acceptable(i)' <=> Acceptable(i)
      /\ \A i : UnknownIn(i)' <=> UnknownIn(i)
  <2>1. \A name : IsDefined(name)' <=> IsDefined(name)
    BY <1>1, OptionsKept
  <2> QED BY <1>1, <2>1, LineKept DEF UnknownIn
<1>6. (it \in DOMAIN args => it \in Literals)'
  BY <1>1, <1>2, <1>5
<1>7. \A i \in Literals' : i < Pos' => Acceptable(i)' /\ (UnknownIn(i)' => undefined')
  <2>1. \A i \in Literals : i < it => Acceptable(i) /\ (UnknownIn(i) => undefined)
    BY <1>1, <1>4 DEF ReadInv
  <2>2. Acceptable(it) /\ (undefined \/ UnknownIn(it) => undefined')
    BY DEF Read
  <2> QED BY <1>2, <1>4, <1>5, <2>1, <2>2
<1>8. ASSUME failed' = "none"
      PROVE  Holds(rest, LeftBefore(Pos))' /\ \A o \in DOMAIN options' : ValueRight(o, Pos)'
  <2>1. Holds(rest, LeftBefore(it)) /\ \A o \in DOMAIN options : ValueRight(o, it)
    BY <1>1, <1>4, <1>8 DEF ReadInv, Read
  <2>2. Holds(rest, LeftBefore(Pos))'
    <3>1. LeftBefore(Pos)' = LeftBefore(it')
      BY <1>1, <1>4, LineKept DEF LeftBefore
    <3>2. Holds(rest', LeftBefore(it'))
      BY <2>1, RestRead
    <3> QED BY <1>1, <3>1, <3>2 DEF Holds
  <2>3. ASSUME NEW o \in DOMAIN options
        PROVE  ValueRight(o, Pos)'
    <3>1. MentionsBefore(o, Pos)' = MentionsBefore(o, it')
      BY <1>1, <1>4, LineKept DEF MentionsBefore
    <3>2. /\ \A i : Argument(i)' = Argument(i)
          /\ HasArg(o)' <=> HasArg(o)
          /\ \A text : Pieces(options'[o], text) = Pieces(options[o], text)
      BY <1>1, LineKept, OptionsKept
    <3>3. ValueRight(o, it)
      BY <2>1
    <3>4. /\ options'[o].passed <=> MentionsBefore(o, it') # {}
          /\ MentionsBefore(o, it') = {} => options'[o].value = before[o]
          /\ MentionsBefore(o, it') # {} =>
               \E last \in MentionsBefore(o, it') :
                  /\ \A i \in MentionsBefore(o, it') : i <= last
                  /\ HasArg(o) => options'[o].value = Pieces(options[o], Argument(last))
      BY <1>1, <3>3, ValueRead
    <3> QED BY <1>1, <3>1, <3>2, <3>4 DEF ValueRight
  <2> QED BY <1>1, <2>2, <2>3
<1>9. Reading'
  BY <1>4 DEF Reading
<1> QED BY <1>6, <1>7, <1>8, <1>9 DEF ReadInv

\* Between the turns of the loop, and when it is over, nothing that was read changes.
LEMMA ReadingKept ==
    ASSUME ColaInv, ReadInv, Reading,
           UNCHANGED <<options, lookup, args, rest, undefined, failed, before>>,
           Pos' = Pos, it' > 0 => it' = it
    PROVE  ReadInv'
<1>1. SameOptions /\ UNCHANGED <<lookup, args>>
  BY DEF SameOptions
<1>2. /\ Literals' = Literals
      /\ \A i : Acceptable(i)' <=> Acceptable(i)
      /\ \A i : UnknownIn(i)' <=> UnknownIn(i)
  <2>1. \A name : IsDefined(name)' <=> IsDefined(name)
    BY <1>1, OptionsKept
  <2> QED BY <1>1, <2>1, LineKept DEF UnknownIn
<1>3. LeftBefore(Pos)' = LeftBefore(Pos)
  BY <1>1, LineKept DEF LeftBefore
<1>4. \A o : MentionsBefore(o, Pos)' = MentionsBefore(o, Pos)
  BY <1>1, LineKept DEF MentionsBefore
<1>5. Holds(rest, LeftBefore(Pos)) => Holds(rest, LeftBefore(Pos))'
  BY <1>3 DEF Holds
<1>6. \A o \in DOMAIN options : ValueRight(o, Pos) => ValueRight(o, Pos)'
  BY <1>1, <1>4, LineKept, OptionsKept DEF ValueRight
<1>7. it' \in DOMAIN args' => it' \in Literals'
  <2>1. CASE it' > 0
    BY <1>2, <2>1 DEF ReadInv
  <2>2. CASE ~(it' > 0)
    BY <2>2, LenProperties DEF ColaInv, LineInv
  <2> QED BY <2>1, <2>2
<1> QED BY <1>2, <1>5, <1>6, <1>7 DEF ReadInv

-----------------------------------------------------------------------------
(* From call to call.                                                      *)

\* A client that defines its options passes none.
LEMMA SetUpFresh ==
    ASSUME ColaInv, SetUp, \A o \in DOMAIN options : options[o].passed = FALSE
    PROVE  \A o \in DOMAIN options' : options'[o].passed = FALSE
<1>1. OptionsInv
  BY DEF ColaInv
<1>2. ASSUME NEW name \in Name, Define(name)
      PROVE  \A o \in DOMAIN options' : options'[o].passed = FALSE
  <2> DEFINE new == NewOption(name)
  <2>1. options' = Append(options, new) /\ new.passed = FALSE
    BY <1>2 DEF Define, NewOption
  <2> HIDE DEF new
  <2>2. PICK V : options \in Seq(OptionSet(V))
    BY <1>1 DEF OptionsInv
  <2>3. /\ Len(options) \in Nat /\ DOMAIN options = 1..Len(options)
        /\ DOMAIN options' = 1..(Len(options) + 1)
        /\ \A o \in 1..Len(options) : options'[o] = options[o]
        /\ options'[Len(options) + 1] = new
    <3>1. OptionSet(V) \subseteq OptionSet(V) \cup {new}
      OBVIOUS
    <3>2. options \in Seq(OptionSet(V) \cup {new}) /\ new \in OptionSet(V) \cup {new}
      BY <2>2, <3>1, SeqMonotonic
    <3> QED BY <2>1, <3>2, AppendProperties, LenProperties
  <2>4. \A o \in DOMAIN options' : o \in DOMAIN options \/ o = Len(options) + 1
    BY <2>3
  <2> QED BY <2>1, <2>3, <2>4
<1>3. ASSUME NEW o \in DOMAIN options,
             \/ \E name \in Name : Alias(o, name)
             \/ \E type \in ArgType : WithArg(o, type)
             \/ \E type \in ArgType \cap Vectors : WithArgText(o, type)
             \/ \E d \in Delim : Delimiter(o, d)
      PROVE  \A q \in DOMAIN options' : options'[q].passed = FALSE
  <2>1. PICK V : options[o] \in OptionSet(V)
    BY <1>1, OptionTypes
  <2>2. \E new : options' = [options EXCEPT ![o] = new] /\ new.passed = FALSE
    <3>1. ASSUME NEW name \in Name, Alias(o, name)
          PROVE  \E new : options' = [options EXCEPT ![o] = new] /\ new.passed = FALSE
      <4> DEFINE new == [options[o] EXCEPT !.names = Append(@, name)]
      <4>1. options' = [options EXCEPT ![o] = new]
        BY <3>1 DEF Alias
      <4>2. new.passed = FALSE
        BY <2>1 DEF OptionSet
      <4> HIDE DEF new
      <4> QED BY <4>1, <4>2
    <3>2. ASSUME NEW type \in ArgType, WithArg(o, type)
          PROVE  \E new : options' = [options EXCEPT ![o] = new] /\ new.passed = FALSE
      <4> DEFINE new == [options[o] EXCEPT !.type = type, !.value = <<Default>>]
      <4>1. options' = [options EXCEPT ![o] = new]
        BY <3>2 DEF WithArg
      <4>2. new.passed = FALSE
        BY <2>1 DEF OptionSet
      <4> HIDE DEF new
      <4> QED BY <4>1, <4>2
    <3>3. ASSUME NEW type \in ArgType \cap Vectors, WithArgText(o, type)
          PROVE  \E new : options' = [options EXCEPT ![o] = new] /\ new.passed = FALSE
      <4> DEFINE vector == [options[o] EXCEPT !.type = type]
                 v == Pieces(vector, DefaultText)
                 new == [vector EXCEPT !.value = v]
      <4>1. options' = [options EXCEPT ![o] = new]
        BY <3>3 DEF WithArgText
      <4> HIDE DEF v
      <4>2. new.passed = FALSE
        BY <2>1 DEF OptionSet
      <4> HIDE DEF new
      <4> QED BY <4>1, <4>2
    <3>4. ASSUME NEW d \in Delim, Delimiter(o, d)
          PROVE  \E new : options' = [options EXCEPT ![o] = new] /\ new.passed = FALSE
      <4> DEFINE new == [options[o] EXCEPT !.delim = d]
      <4>1. options' = [options EXCEPT ![o] = new]
        BY <3>4 DEF Delimiter
      <4>2. new.passed = FALSE
        BY <2>1 DEF OptionSet
      <4> HIDE DEF new
      <4> QED BY <4>1, <4>2
    <3> QED BY <1>3, <3>1, <3>2, <3>3, <3>4
  <2> QED BY <2>2
<1> QED BY <1>2, <1>3 DEF SetUp

\* parse() begins with the first argument, nothing read.
LEMMA ParseBegins ==
    ASSUME ParseInv, NEW argv, Parse(argv), ColaInv'
    PROVE  ReadInv' /\ FreshInv'
<1>1. /\ it = 0 /\ ~parsed /\ it' = 1 /\ parsed' = parsed /\ failed' = failed
      /\ rest' = rest /\ options' = options
      /\ before' = [o \in DOMAIN options |-> options[o].value]
  BY DEF Parse
<1>2. Len(args)' \in Nat /\ DOMAIN args' = 1..Len(args')
  BY LenProperties DEF ColaInv, LineInv
<1>3. 1 \in DOMAIN args' => 1 \in Literals'
  <2>1. OnItsOwn(1)'
    BY AloneDefined DEF OnItsOwn
  <2> QED BY <2>1 DEF Literals
<1>4. \A i \in DOMAIN args' : ~(i < 1)
  BY <1>2
<1>5. Pos' = 1
  BY <1>1 DEF Pos
<1>6. \A i \in Literals' : ~(i < Pos')
  BY <1>4, <1>5 DEF Literals
<1>7. LeftBefore(Pos)' = {} /\ \A o : MentionsBefore(o, Pos)' = {}
  BY <1>4, <1>5, <1>6 DEF LeftBefore, MentionsBefore, Mentions
<1>8. ASSUME failed' = "none"
      PROVE  Holds(rest, LeftBefore(Pos))' /\ \A o \in DOMAIN options' : ValueRight(o, Pos)'
  <2>1. rest' = << >> /\ \A o \in DOMAIN options' : options'[o].passed = FALSE
    BY <1>1, <1>8 DEF ParseInv, FreshInv
  <2>2. Holds(rest, LeftBefore(Pos))'
    <3>1. DOMAIN << >> = {} /\ << >> \in Seq(Range(args'))
      BY EmptySeq, LenProperties
    <3>2. [k \in {} |-> k] \in [{} -> {}] /\ {} \subseteq Range([k \in {} |-> k])
      OBVIOUS
    <3> QED BY <1>7, <2>1, <3>1, <3>2 DEF Holds
  <2>3. \A o \in DOMAIN options' : ValueRight(o, Pos)'
    BY <1>1, <1>7, <2>1 DEF ValueRight
  <2> QED BY <2>2, <2>3
<1>9. ReadInv'
  BY <1>1, <1>3, <1>6, <1>8 DEF ReadInv
<1>10. FreshInv'
  BY <1>1 DEF FreshInv
<1> QED BY <1>9, <1>10

\* The loop is at a literal, or at the end of the line.
LEMMA LoopTurn ==
    ASSUME ColaInv, ReadInv, ParseImpl
    PROVE  \/ it \in Literals /\ (Read \/ Refuse)
           \/ ParseEnds
<1>1. it > 0 /\ Reading
  BY LoopFrame DEF Reading
<1>2. CASE it \in DOMAIN args
  BY <1>1, <1>2, LiteralRead DEF ReadInv
<1>3. CASE it \notin DOMAIN args
  BY <1>3 DEF ParseImpl, EvalShort, EvalLong, EvalShortValue, EvalShorts, EvalLongParam,
              Ignore, IgnoreAfter, Else, At
<1> QED BY <1>2, <1>3

LEMMA ParseInvStep ==
    ASSUME ParseInv, [ColaNext]_colaVars
    PROVE  ParseInv'
<1>1. ColaInv /\ ReadInv /\ FreshInv /\ ColaInv'
  BY ColaInvStep DEF ParseInv
<1>2. it \in Nat /\ it' \in Nat /\ Len(args) \in Nat
  BY <1>1, LenProperties DEF ColaInv, LineInv
<1>3. CASE SetUp
  <2>1. it' = 0 /\ ~parsed' /\ it = 0 /\ ~parsed /\ rest' = rest /\ failed' = failed
    BY <1>1, <1>3, SetUpStep
  <2>2. ReadInv'
    BY <2>1 DEF ReadInv, Reading
  <2>3. FreshInv'
    BY <1>1, <1>3, <2>1, SetUpFresh DEF FreshInv
  <2> QED BY <1>1, <2>2, <2>3 DEF ParseInv
<1>4. ASSUME NEW argv, Parse(argv)
      PROVE  ParseInv'
  BY <1>1, <1>4, ParseBegins DEF ParseInv
<1>5. CASE ParseImpl
  <2>1. CASE it \in Literals /\ Read
    <3>1. ReadInv' /\ Reading' /\ parsed' = FALSE
      BY <1>1, <1>5, <2>1, ReadGoesOn DEF Read
    <3>2. it' > 0
      BY <3>1 DEF Reading
    <3>3. FreshInv'
      BY <3>2 DEF FreshInv
    <3> QED BY <1>1, <3>1, <3>3 DEF ParseInv
  <2>2. CASE Refuse
    BY <1>1, <2>2 DEF ParseInv, ReadInv, FreshInv, Reading, Refuse
  <2>3. CASE ParseEnds
    <3>1. /\ it > 0 /\ Reading
          /\ UNCHANGED <<options, lookup, args, rest, undefined, failed, before>>
          /\ it = Len(args) + 1 /\ it' = 0 /\ parsed' = TRUE
      BY <1>2, <2>3 DEF ParseEnds, Goto, Reading
    <3>2. Pos' = Pos
      BY <3>1 DEF Pos
    <3>3. ReadInv'
      BY <1>1, <3>1, <3>2, ReadingKept
    <3> QED BY <1>1, <3>1, <3>3 DEF ParseInv, FreshInv
  <2> QED BY <1>1, <1>5, <2>1, <2>2, <2>3, LoopTurn
<1>6. CASE Reset
  <2>1. /\ it' = 0 /\ parsed' = FALSE /\ rest' = << >>
        /\ options' = [o \in DOMAIN options |-> [options[o] EXCEPT !.passed = FALSE]]
    BY <1>6 DEF Reset
  <2>2. \A o \in DOMAIN options' : options'[o].passed = FALSE
    <3>1. \A o \in DOMAIN options : \E V : options[o] \in OptionSet(V)
      BY <1>1, OptionTypes DEF ColaInv
    <3> QED BY <2>1, <3>1 DEF OptionSet
  <2> QED BY <1>1, <2>1, <2>2 DEF ParseInv, ReadInv, FreshInv, Reading
<1>7. CASE UNCHANGED colaVars
  <2>1. UNCHANGED <<options, lookup, args, rest, undefined, failed, before, it, parsed>>
    BY <1>7 DEF colaVars
  <2>2. CASE Reading
    <3>1. Pos' = Pos
      BY <2>1 DEF Pos
    <3>2. ReadInv'
      BY <1>1, <2>1, <2>2, <3>1, ReadingKept
    <3> QED BY <1>1, <2>1, <3>2 DEF ParseInv, FreshInv
  <2>3. CASE ~Reading
    BY <1>1, <2>1, <2>3 DEF ParseInv, ReadInv, FreshInv, Reading
  <2> QED BY <2>2, <2>3
<1> QED BY <1>3, <1>4, <1>5, <1>6, <1>7 DEF ColaNext

LEMMA ParseInvInit == ColaInit => ParseInv
<1> SUFFICES ASSUME ColaInit PROVE ParseInv
  OBVIOUS
<1>1. ColaInv
  BY ColaInvInit
<1>2. DOMAIN options = {}
  BY EmptySeq, LenProperties DEF ColaInit
<1>3. ReadInv /\ FreshInv
  BY <1>2 DEF ReadInv, FreshInv, Reading, ColaInit
<1> QED BY <1>1, <1>3 DEF ParseInv

LEMMA ParseCorrect == ColaSpec => []ParseInv
BY ParseInvInit, ParseInvStep, PTL DEF ColaSpec

\* The last of a set of places.
LEMMA MaxIs ==
    ASSUME NEW S, NEW last \in S, S \subseteq Int, \A i \in S : i <= last
    PROVE  Max(S) = last
<1>1. \A i \in S : last >= i
  OBVIOUS
<1>2. \A x \in S : (\A y \in S : x >= y) => x = last
  OBVIOUS
<1> QED BY <1>1, <1>2 DEF Max

\* parse() succeeds exactly on the lines it should: for any options and any line, if
\* every literal is acceptable it ends with parsed_ set, and otherwise an exception
\* leaves it (parse_impl and the eval functions).
THEOREM ErrorsCorrect == ColaSpec => ErrorsJustified
<1>1. ASSUME ParseInv, [ColaNext]_colaVars
      PROVE  [it > 0 /\ it' = 0 => (parsed' <=> \A i \in Literals : Acceptable(i))]_colaVars
  <2> SUFFICES ASSUME ColaNext, it > 0, it' = 0
               PROVE  parsed' <=> \A i \in Literals : Acceptable(i)
    BY <1>1
  <2>1. ColaInv /\ ReadInv /\ Reading /\ DOMAIN args = 1..Len(args) /\ Len(args) \in Nat
    BY <1>1, LenProperties DEF ParseInv, ColaInv, LineInv, Reading
  <2>2. ParseImpl
    BY SetUpStep, <2>1 DEF ColaNext, Parse, Reset
  <2>3. CASE it \in Literals /\ Read
    BY <2>1, <2>2, <2>3, PlacesRead
  <2>4. CASE it \in Literals /\ Refuse
    BY <2>4 DEF Refuse
  <2>5. CASE ParseEnds
    <3>1. Pos = Len(args) + 1 /\ parsed' = TRUE
      BY <2>5 DEF ParseEnds, Pos
    <3>2. \A i \in Literals : i < Pos
      BY <2>1, <3>1 DEF Literals
    <3> QED BY <2>1, <3>1, <3>2 DEF ReadInv
  <2> QED BY <2>1, <2>2, <2>3, <2>4, <2>5, LoopTurn
<1> QED BY <1>1, ParseCorrect, PTL DEF ColaSpec, ErrorsJustified

\* After any parse() that succeeds, rest_args() are the arguments that belong to no
\* option, all, once and in order, and an undefined name has been noted.
THEOREM RestCorrect == ColaSpec => []RestIsRest
<1>1. ParseInv => RestIsRest
  <2> SUFFICES ASSUME ParseInv, Clean PROVE RestIsRest
    BY DEF RestIsRest
  <2>1. ColaInv /\ ReadInv /\ Reading /\ failed = "none" /\ it = 0
        /\ DOMAIN args = 1..Len(args) /\ Len(args) \in Nat
    BY LenProperties DEF ParseInv, ColaInv, LineInv, Reading, Clean
  <2>2. Pos = Len(args) + 1
    BY <2>1 DEF Pos
  <2>3. LeftBefore(Pos) = {i \in DOMAIN args : LeftOver(i)}
    BY <2>1, <2>2 DEF LeftBefore
  <2>4. \A i \in Literals : i < Pos
    BY <2>1, <2>2 DEF Literals
  <2>5. Holds(rest, {i \in DOMAIN args : LeftOver(i)})
    BY <2>1, <2>3 DEF ReadInv
  <2>6. \A i \in Literals : UnknownIn(i) => undefined
    BY <2>1, <2>4 DEF ReadInv
  <2> QED BY <2>5, <2>6 DEF RestIsRest, Holds, UnknownIn
<1> QED BY <1>1, ParseCorrect, PTL

\* After any parse() that succeeds, get() returns what the line gives the option last,
\* by whatever name and in whatever form; after the first, its default if that is
\* nothing.
THEOREM ValuesCorrect == ColaSpec => []ValuesGiven
<1>1. ParseInv => ValuesGiven
  <2> SUFFICES ASSUME ParseInv, Clean, NEW name \in DOMAIN lookup
               PROVE  LET o == lookup[name]
                          last == Max(Mentions(o))
                      IN  /\ Mentions(o) # {} =>
                               /\ IsPassed(name)
                               /\ HasArg(o) => Get(name, options[o].type) =
                                                 Pieces(options[o], Argument(last))
                          /\ Mentions(o) = {} /\ HasArg(o) /\ parses = 1 =>
                               Get(name, options[o].type) = before[o]
    BY DEF ValuesGiven
  <2> DEFINE o == lookup[name]
  <2>1. ColaInv /\ ReadInv /\ Reading /\ failed = "none" /\ it = 0 /\ parsed
        /\ DOMAIN args = 1..Len(args) /\ Len(args) \in Nat /\ o \in DOMAIN options
    BY LenProperties DEF ParseInv, ColaInv, LookupInv, LineInv, Reading, Clean
  <2>2. Pos = Len(args) + 1
    BY <2>1 DEF Pos
  <2>3. MentionsBefore(o, Pos) = Mentions(o) /\ Mentions(o) \subseteq Int
    BY <2>1, <2>2 DEF MentionsBefore, Mentions, Literals
  <2>4. ValueRight(o, Pos)
    BY <2>1 DEF ReadInv
  <2>5. Get(name, options[o].type) = options[o].value /\ IsPassed(name) = options[o].passed
    BY <2>1 DEF Get, As, IsPassed, IsDefined
  <2> HIDE DEF o
  <2>6. CASE Mentions(o) = {}
    BY <2>3, <2>4, <2>5, <2>6 DEF ValueRight, o
  <2>7. CASE Mentions(o) # {}
    <3>1. PICK last \in Mentions(o) :
             /\ \A i \in Mentions(o) : i <= last
             /\ HasArg(o) => options[o].value = Pieces(options[o], Argument(last))
      BY <2>3, <2>4, <2>7 DEF ValueRight
    <3>2. Max(Mentions(o)) = last
      BY <2>3, <3>1, MaxIs
    <3>3. options[o].passed
      BY <2>3, <2>4, <2>7 DEF ValueRight
    <3> QED BY <2>5, <2>7, <3>1, <3>2, <3>3 DEF o
  <2> QED BY <2>6, <2>7
<1> QED BY <1>1, ParseCorrect, PTL

\* Every turn of the loop leaves parse() or gets further along the line, whatever the
\* literal: the measure behind ParseReturns (every eval function has to move the
\* iterator itself, parse_impl does not).
THEOREM LoopAdvances == ColaSpec => [][it > 0 => it' > it \/ it' = 0]_colaVars
<1>1. ASSUME ParseInv, [ColaNext]_colaVars
      PROVE  [it > 0 => it' > it \/ it' = 0]_colaVars
  <2> SUFFICES ASSUME ColaNext, it > 0
               PROVE  it' > it \/ it' = 0
    BY <1>1
  <2>1. ColaInv /\ ReadInv /\ it \in Nat
    BY <1>1, LenProperties DEF ParseInv, ColaInv, LineInv
  <2>2. ParseImpl
    BY SetUpStep, <2>1 DEF ColaNext, Parse, Reset
  <2>3. CASE it \in Literals /\ Read
    <3>1. it < it' /\ it' \in Int
      BY <2>1, <2>3, PlacesRead, LenProperties DEF ColaInv, LineInv
    <3> QED BY <2>1, <3>1
  <2>4. CASE Refuse \/ ParseEnds
    BY <2>4 DEF Refuse, ParseEnds, Goto
  <2> QED BY <2>1, <2>2, <2>3, <2>4, LoopTurn
<1> QED BY <1>1, ParseCorrect, PTL DEF ColaSpec
=============================================================================
