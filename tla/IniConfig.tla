------------------------------ MODULE IniConfig ------------------------------
(***************************************************************************)
(* How the constructor of Dispotcher makes one monitored feature of every  *)
(* section of the ini file but "default": the options of the section, over *)
(* those of the default profile, over the built-in ones.  Whether an       *)
(* option is given is told by asking iniparser for it with -1 as the value *)
(* to return if it is not.                                                 *)
(***************************************************************************)
EXTENDS ProcessLife, Integers, SequencesExt

CONSTANTS Section,   \* names of sections, Default among them
          Default,   \* the section "default"
          Numeric,   \* numeric options: q, max_excess, n_init, level
          Switch,    \* Boolean options: bounded, up, down
          Numbers,   \* numbers a file may give
          Absent,    \* the file has no such entry
          BuiltIn,   \* the built-in value of each option
          BuiltInType  \* BRO_TYPE_DOUBLE

\* What a file may set of a SpotConfig; alert is no option, the code sets it to true.
Option == Numeric \cup Switch

NoKey == -1        \* INIT_PARSER_NOKEY

Words == {"yes", "no", "other"}  \* how a file may write a Boolean

ASSUME IniAssumption ==
    /\ Default \in Section /\ IsFiniteSet(Section)
    /\ Numeric \cap Switch = {} /\ "bro_type" \notin Option
    /\ Numbers \subseteq Int /\ Absent \notin Numbers /\ Absent \notin Words
    /\ BuiltInType \in Nat
    /\ \A o \in Numeric : BuiltIn[o] \in Nat
    /\ \A o \in Switch : BuiltIn[o] \in BOOLEAN

VARIABLES order,    \* the sections of the file, first to last
          entry,    \* the file: [section][option] and [section]["bro_type"]
          i,        \* the loop of the constructor
          features  \* _features

iniVars == <<order, entry, i, features>>

-----------------------------------------------------------------------------
(* iniparser, from how the constructor uses it; notfound is always NoKey.  *)

GetNumber(s, o) ==
    IF s \in Range(order) /\ entry[s][o] # Absent THEN entry[s][o] ELSE NoKey

\* iniparser_getboolean: a word it cannot read is as good as none.
GetBoolean(s, o) ==
    IF s \notin Range(order) THEN NoKey
    ELSE CASE entry[s][o] = "yes" -> 1
           [] entry[s][o] = "no" -> 0
           [] OTHER -> NoKey

\* Mutant: a switch that is off is taken for one that is not given.
SetOrIfOn(s, o, fallback) ==
    IF o \in Numeric
    THEN LET v == GetNumber(s, o) IN IF v # NoKey THEN v ELSE fallback
    ELSE LET v == GetBoolean(s, o) IN IF v = 1 THEN TRUE ELSE fallback

\* One option, as get_default_config and get_config read each of theirs.
SetOr(s, o, fallback) ==
    IF o \in Numeric
    THEN LET v == GetNumber(s, o) IN IF v # NoKey THEN v ELSE fallback
    ELSE LET v == GetBoolean(s, o) IN IF v # NoKey THEN v = 1 ELSE fallback

GetDefaultConfig == [o \in Option |-> SetOr(Default, o, BuiltIn[o])]

GetConfig(s, default) == [o \in Option |-> SetOr(s, o, default[o])]

DefaultType ==
    IF GetNumber(Default, "bro_type") = NoKey THEN BuiltInType
    ELSE GetNumber(Default, "bro_type")

TypeFor(s) ==
    IF GetNumber(s, "bro_type") = NoKey THEN DefaultType
    ELSE GetNumber(s, "bro_type")

-----------------------------------------------------------------------------
Entries == [Numeric \cup {"bro_type"} -> Numbers \cup {Absent}]
Switches == [Switch -> Words \cup {Absent}]

\* Any file with each section at most once (iniparser's dictionary merges them).
IniInit ==
    /\ proc = "running"
    /\ order \in {s \in UNION {[1..n -> Section] : n \in 0..Cardinality(Section)} :
                    IsInjective(s)}
    /\ \E e \in [Range(order) -> Entries], w \in [Range(order) -> Switches] :
         entry = [s \in Range(order) |-> e[s] @@ w[s]]
    /\ i = 0 /\ features = << >>

\* Mutant: the section "default" is monitored like any other.
AddSectionAny ==
    /\ Running /\ i < Len(order)
    /\ i' = i + 1
    /\ features' = Append(features, [name |-> order[i + 1],
                                     type |-> TypeFor(order[i + 1]),
                                     conf |-> GetConfig(order[i + 1], GetDefaultConfig)])
    /\ UNCHANGED <<proc, order, entry>>

\* One pass of the loop over the sections.
AddSection ==
    /\ Running /\ i < Len(order)
    /\ i' = i + 1
    /\ LET s == order[i + 1]
       IN  features' = IF s = Default THEN features
                       ELSE Append(features, [name |-> s, type |-> TypeFor(s),
                                              conf |-> GetConfig(s, GetDefaultConfig)])
    /\ UNCHANGED <<proc, order, entry>>

\* iniparser_load returns NULL: the constructor throws, main() does not catch.
LoadFails ==
    /\ i = 0 /\ Abort
    /\ UNCHANGED iniVars

IniNext == AddSection \/ LoadFails

IniSpec == IniInit /\ [][IniNext]_<<proc, iniVars>>

-----------------------------------------------------------------------------
(* Properties, over the features the finished constructor leaves.          *)

Built == Running /\ i = Len(order)

\* The file gives option o in section s a value it can be read as.
Gives(s, o) == /\ s \in Range(order)
               /\ IF o \in Switch THEN entry[s][o] \in {"yes", "no"}
                  ELSE entry[s][o] \notin {Absent, NoKey}

Given(s, o) == IF o \in Switch THEN entry[s][o] = "yes" ELSE entry[s][o]

\* Every section of the file but "default" is monitored, once, in the order of
\* the file (README "For each selected feature, bro-spotd launches a SPOT
\* instance"); the later modules take that order as SectionOrder.
EverySectionMonitored ==
    Built =>
        /\ Range([k \in DOMAIN features |-> features[k].name]) = Range(order) \ {Default}
        /\ \A j, k \in DOMAIN features :
             j < k => \E p, q \in DOMAIN order :
                        /\ p < q
                        /\ order[p] = features[j].name /\ order[q] = features[k].name

\* Each option of an instance comes from the feature's section if that gives
\* it, else from the default profile, wherever in the file that stands, else it
\* is built in; so does the type (get_default_config, get_config; README "a
\* default profile is given to ease this step").
OptionsLayered ==
    Built =>
        \A k \in DOMAIN features, o \in Option \cup {"bro_type"} :
            LET s == features[k].name
                v == IF o = "bro_type" THEN features[k].type ELSE features[k].conf[o]
            IN  v = IF Gives(s, o) THEN Given(s, o)
                    ELSE IF Gives(Default, o) THEN Given(Default, o)
                    ELSE IF o = "bro_type" THEN BuiltInType
                    ELSE BuiltIn[o]
=============================================================================
