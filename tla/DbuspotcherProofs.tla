-------------------------- MODULE DbuspotcherProofs --------------------------
(***************************************************************************)
(* Proofs about Dbuspotcher and Wire, for any features, calls, paddings    *)
(* and libraries.  The invariant speaks of the variables of the D-Bus      *)
(* thread and of where reset() stands, never of the rest of the list: it   *)
(* is kept next to a thread that works on the nodes, too.                  *)
(***************************************************************************)
EXTENDS Dbuspotcher, DispotcherProofs

-----------------------------------------------------------------------------
(* Lemmas about sequences.                                                 *)

\* A sequence of whatever elements.
IsSequence(s) == \E S : s \in Seq(S)

LEMMA AppendAny ==
    ASSUME NEW s, IsSequence(s), NEW e
    PROVE  /\ IsSequence(Append(s, e))
           /\ Len(s) \in Nat /\ DOMAIN s = 1..Len(s)
           /\ Len(Append(s, e)) = Len(s) + 1
           /\ DOMAIN Append(s, e) = 1..(Len(s) + 1)
           /\ \A i \in 1..Len(s) : Append(s, e)[i] = s[i]
           /\ Append(s, e)[Len(s) + 1] = e
<1>1. PICK S : s \in Seq(S)
  BY DEF IsSequence
<1> DEFINE T == S \cup {e}
<1>2. S \subseteq T
  OBVIOUS
<1>3. s \in Seq(T) /\ e \in T
  BY <1>1, <1>2, SeqMonotonic
<1> HIDE DEF T
<1>4. /\ Append(s, e) \in Seq(T)
      /\ Len(Append(s, e)) = Len(s) + 1
      /\ \A i \in 1..Len(s) : Append(s, e)[i] = s[i]
      /\ Append(s, e)[Len(s) + 1] = e
  BY <1>3, AppendProperties
<1>5. Len(s) \in Nat /\ DOMAIN s = 1..Len(s)
  BY <1>1, LenProperties
<1>6. DOMAIN Append(s, e) = 1..Len(Append(s, e))
  BY <1>4, LenProperties
<1> QED BY <1>4, <1>5, <1>6 DEF IsSequence

\* The replies of a handler: one, or one and another.
LEMMA OneReply ==
    ASSUME NEW r
    PROVE  <<r>> # << >> /\ Head(<<r>>) = r /\ Tail(<<r>>) = << >>
OBVIOUS

LEMMA TwoReplies ==
    ASSUME NEW r, NEW s
    PROVE  <<r, s>> # << >> /\ Head(<<r, s>>) = r /\ Tail(<<r, s>>) = <<s>>
OBVIOUS

-----------------------------------------------------------------------------
(* What append_spot_config sends.                                          *)

\* The fields by the names.
LEMMA FieldTypes ==
    ASSUME NEW c \in ConfigFields
    PROVE  /\ \A field \in Number : c[field] \in Nat
           /\ \A flag \in Flag : c[flag] \in BOOLEAN
<1>1. /\ c.q \in Nat /\ c.max_excess \in Nat /\ c.level \in Nat
      /\ c.n_init \in TwoBytes
      /\ c.bounded \in BOOLEAN /\ c.alert \in BOOLEAN
      /\ c.up \in BOOLEAN /\ c.down \in BOOLEAN
  BY DEF ConfigFields
<1>2. c.n_init \in Nat
  <2>1. TwoBytes \subseteq Nat
    BY DEF TwoBytes
  <2> QED BY <1>1, <2>1
<1> QED BY <1>1, <1>2 DEF Number, Flag

LEMMA FlagByte ==
    ASSUME NEW c, NEW pad, NEW flag \in Flag
    PROVE  Offset[flag] \in Nat /\ Byte(c, pad, Offset[flag]) = Bit(c[flag])
<1>1. CASE flag = "bounded"
  BY <1>1 DEF Offset, Byte, PadBytes
<1>2. CASE flag = "alert"
  BY <1>2 DEF Offset, Byte, PadBytes
<1>3. CASE flag = "up"
  BY <1>3 DEF Offset, Byte, PadBytes
<1>4. CASE flag = "down"
  BY <1>4 DEF Offset, Byte, PadBytes
<1> QED BY <1>1, <1>2, <1>3, <1>4 DEF Flag

\* A flag that is on goes out as TRUE; one that is off does not, if its four bytes
\* are well formed.
LEMMA FlagSent ==
    ASSUME NEW c \in ConfigFields, NEW pad, NEW flag \in Flag
    PROVE  /\ c[flag] => SentTrue(c, pad, flag)
           /\ ~c[flag] /\ WellFormed(c, pad, flag) => ~SentTrue(c, pad, flag)
           /\ SentTrue(c, pad, flag) \in BOOLEAN
<1>1. c[flag] \in BOOLEAN
  BY FieldTypes
<1>2. Offset[flag] \in Nat /\ Byte(c, pad, Offset[flag]) = Bit(c[flag])
  BY FlagByte
<1>3. Offset[flag] + 0 = Offset[flag]
  BY <1>2
<1>4. c[flag] => SentTrue(c, pad, flag)
  <2> SUFFICES ASSUME c[flag] PROVE SentTrue(c, pad, flag)
    OBVIOUS
  <2>1. Byte(c, pad, Offset[flag] + 0) = 1
    BY <1>2, <1>3 DEF Bit
  <2>2. 0 \in 0..3
    OBVIOUS
  <2> QED BY <2>1, <2>2 DEF SentTrue
<1>5. ~c[flag] /\ WellFormed(c, pad, flag) => ~SentTrue(c, pad, flag)
  <2> SUFFICES ASSUME ~c[flag], WellFormed(c, pad, flag), NEW k \in 0..3
               PROVE  Byte(c, pad, Offset[flag] + k) = 0
    BY DEF SentTrue
  <2>1. CASE k = 0
    BY <1>2, <1>3, <2>1 DEF Bit
  <2>2. CASE k # 0
    <3>1. k \in 1..3
      BY <2>2
    <3> QED BY <3>1 DEF WellFormed
  <2> QED BY <2>1, <2>2
<1> QED BY <1>4, <1>5 DEF SentTrue

Argument == [field : Number \cup Flag, value : Nat \cup BOOLEAN]

\* An argument says what the configuration has, or it is a flag told as on by a
\* library without checks.
Tells(c, lib, a) ==
    \/ a.value = c[a.field]
    \/ a.field \in Flag /\ a.value /\ lib = "sends"

\* Arguments that stand for some of the first k fields, for every number among
\* them, in their order.
Prefix(arguments, c, lib, k) ==
    /\ arguments \in Seq(Argument)
    /\ \A i \in DOMAIN arguments :
          /\ Tells(c, lib, arguments[i])
          /\ \E p \in 1..k : Fields[p] = arguments[i].field
    /\ \A i, j \in DOMAIN arguments :
          i < j => Before(arguments[i].field, arguments[j].field)
    /\ \A p \in 1..k : Fields[p] \in Number =>
          \E i \in DOMAIN arguments : arguments[i].field = Fields[p]

\* One call of dbus_message_iter_append_basic more.
LEMMA AppendBasicPrefix ==
    ASSUME NEW arguments, NEW c \in ConfigFields, NEW pad, NEW lib,
           NEW k \in 0..7, NEW field, field = Fields[k + 1],
           Prefix(arguments, c, lib, k)
    PROVE  Prefix(AppendBasic(arguments, c, pad, lib, field), c, lib, k + 1)
<1> DEFINE value == IF field \in Number THEN c[field] ELSE SentTrue(c, pad, field)
           a == [field |-> field, value |-> value]
           takes == field \in Number \/ lib = "sends" \/ WellFormed(c, pad, field)
           result == AppendBasic(arguments, c, pad, lib, field)
<1>1. field \in Number \cup Flag /\ Number \cap Flag = {}
  BY DEF Fields, Number, Flag
<1>2. result = IF takes THEN Append(arguments, a) ELSE arguments
  BY DEF AppendBasic
<1>3. k + 1 \in 1..(k + 1) /\ \A p \in 1..(k + 1) : p \in 1..k \/ p = k + 1
  OBVIOUS
<1>4. \A p \in 1..k : p \in 1..(k + 1)
  OBVIOUS
<1>5. a.field = field /\ a.value = value
  OBVIOUS
<1>6. ASSUME takes
      PROVE  a \in Argument /\ Tells(c, lib, a)
  <2>1. CASE field \in Number
    <3>1. c[field] \in Nat
      BY <2>1, FieldTypes
    <3> QED BY <1>5, <2>1, <3>1 DEF Argument, Tells
  <2>2. CASE field \notin Number
    <3>1. field \in Flag /\ value = SentTrue(c, pad, field)
      BY <1>1, <2>2
    <3>2. c[field] \in BOOLEAN
      BY <3>1, FieldTypes
    <3>3. value \in BOOLEAN
      BY <3>1, FlagSent
    <3>4. a \in Argument
      BY <3>1, <3>3 DEF Argument
    <3>5. CASE c[field]
      <4>1. value = TRUE /\ c[field] = TRUE
        BY <3>1, <3>2, <3>5, FlagSent DEF SentTrue
      <4> QED BY <1>5, <3>4, <4>1 DEF Tells
    <3>6. CASE ~c[field] /\ value
      <4>1. ~WellFormed(c, pad, field)
        BY <3>1, <3>6, FlagSent
      <4>2. lib = "sends"
        BY <1>6, <2>2, <4>1
      <4> QED BY <1>5, <3>1, <3>4, <3>6, <4>2 DEF Tells
    <3>7. CASE ~c[field] /\ ~value
      <4>1. value = FALSE /\ c[field] = FALSE
        BY <3>2, <3>3, <3>7
      <4> QED BY <1>5, <3>4, <4>1 DEF Tells
    <3> QED BY <3>5, <3>6, <3>7
  <2> QED BY <2>1, <2>2
<1> HIDE DEF value, result
<1>7. CASE takes
  <2>1. /\ result = Append(arguments, a) /\ a \in Argument /\ Tells(c, lib, a)
        /\ arguments \in Seq(Argument)
    BY <1>2, <1>6, <1>7 DEF Prefix
  <2> HIDE DEF a
  <2>2. /\ result \in Seq(Argument)
        /\ Len(arguments) \in Nat
        /\ DOMAIN arguments = 1..Len(arguments)
        /\ DOMAIN result = 1..(Len(arguments) + 1)
        /\ \A i \in 1..Len(arguments) : result[i] = arguments[i]
        /\ result[Len(arguments) + 1] = a
    BY <2>1, AppendProperties, LenProperties
  <2>3. \A i \in DOMAIN result : i \in DOMAIN arguments \/ i = Len(arguments) + 1
    BY <2>2
  <2>4. ASSUME NEW i \in DOMAIN result
        PROVE  /\ Tells(c, lib, result[i])
               /\ \E p \in 1..(k + 1) : Fields[p] = result[i].field
    BY <1>3, <1>4, <1>5, <2>1, <2>2, <2>3 DEF Prefix
  <2>5. ASSUME NEW i \in DOMAIN result, NEW j \in DOMAIN result, i < j
        PROVE  Before(result[i].field, result[j].field)
    <3>1. i \in DOMAIN arguments
      BY <2>2, <2>5
    <3>2. CASE j \in DOMAIN arguments
      BY <2>2, <2>5, <3>1, <3>2 DEF Prefix
    <3>3. CASE j = Len(arguments) + 1
      <4>1. PICK p \in 1..k : Fields[p] = result[i].field
        BY <2>2, <3>1 DEF Prefix
      <4>2. result[j].field = Fields[k + 1]
        BY <1>5, <2>2, <3>3
      <4>3. p \in DOMAIN Fields /\ k + 1 \in DOMAIN Fields /\ p < k + 1
        BY DEF Fields
      <4> QED BY <4>1, <4>2, <4>3 DEF Before
    <3> QED BY <2>3, <3>2, <3>3
  <2>6. ASSUME NEW p \in 1..(k + 1), Fields[p] \in Number
        PROVE  \E i \in DOMAIN result : result[i].field = Fields[p]
    <3>1. CASE p \in 1..k
      <4>1. PICK i \in DOMAIN arguments : arguments[i].field = Fields[p]
        BY <2>6, <3>1 DEF Prefix
      <4> QED BY <2>2, <4>1
    <3>2. CASE p = k + 1
      BY <1>5, <2>2, <3>2
    <3> QED BY <1>3, <3>1, <3>2
  <2> QED BY <2>2, <2>4, <2>5, <2>6 DEF Prefix, result
<1>8. CASE ~takes
  <2>1. result = arguments /\ field \notin Number
    BY <1>2, <1>8
  <2> QED BY <1>3, <1>4, <2>1 DEF Prefix, result
<1> QED BY <1>7, <1>8

\* The arguments of a Config reply: every number, in order, and no flag that is on
\* told as off.
Faithful(value, c, lib) ==
    /\ \A field \in Number : \E k \in DOMAIN value : value[k].field = field
    /\ \A k, l \in DOMAIN value : k < l => Before(value[k].field, value[l].field)
    /\ \A k \in DOMAIN value : Tells(c, lib, value[k])

LEMMA ConfigFaithful ==
    ASSUME NEW c \in ConfigFields, NEW pad, NEW lib
    PROVE  Faithful(AppendConfig(c, pad, lib), c, lib)
<1> DEFINE Put(arguments, field) == AppendBasic(arguments, c, pad, lib, field)
           a1 == Put(<< >>, "q")
           a2 == Put(a1, "bounded")
           a3 == Put(a2, "max_excess")
           a4 == Put(a3, "alert")
           a5 == Put(a4, "up")
           a6 == Put(a5, "down")
           a7 == Put(a6, "n_init")
           a8 == Put(a7, "level")
<1>0. AppendConfig(c, pad, lib) = a8
  BY DEF AppendConfig
<1> HIDE DEF a1, a2, a3, a4, a5, a6, a7, a8
<1>1. Prefix(<< >>, c, lib, 0)
  <2>1. << >> \in Seq(Argument) /\ Len(<< >>) = 0
    BY EmptySeq
  <2>2. DOMAIN << >> = {}
    BY <2>1
  <2> QED BY <2>1, <2>2 DEF Prefix
<1>2. /\ Fields[1] = "q" /\ Fields[2] = "bounded" /\ Fields[3] = "max_excess"
      /\ Fields[4] = "alert" /\ Fields[5] = "up" /\ Fields[6] = "down"
      /\ Fields[7] = "n_init" /\ Fields[8] = "level"
  BY DEF Fields
<1>3. /\ Fields[0 + 1] = "q" /\ Fields[1 + 1] = "bounded"
      /\ Fields[2 + 1] = "max_excess" /\ Fields[3 + 1] = "alert"
      /\ Fields[4 + 1] = "up" /\ Fields[5 + 1] = "down"
      /\ Fields[6 + 1] = "n_init" /\ Fields[7 + 1] = "level"
  BY <1>2
<1>4. \A i \in 0..7 : i \in Nat
  OBVIOUS
<1>5. Prefix(a1, c, lib, 0 + 1)
  BY <1>1, <1>3, AppendBasicPrefix DEF a1
<1>6. Prefix(a2, c, lib, 1 + 1)
  BY <1>3, <1>5, AppendBasicPrefix DEF a2
<1>7. Prefix(a3, c, lib, 2 + 1)
  BY <1>3, <1>6, AppendBasicPrefix DEF a3
<1>8. Prefix(a4, c, lib, 3 + 1)
  BY <1>3, <1>7, AppendBasicPrefix DEF a4
<1>9. Prefix(a5, c, lib, 4 + 1)
  BY <1>3, <1>8, AppendBasicPrefix DEF a5
<1>10. Prefix(a6, c, lib, 5 + 1)
  BY <1>3, <1>9, AppendBasicPrefix DEF a6
<1>11. Prefix(a7, c, lib, 6 + 1)
  BY <1>3, <1>10, AppendBasicPrefix DEF a7
<1>12. Prefix(a8, c, lib, 8)
  <2>1. Prefix(a8, c, lib, 7 + 1)
    BY <1>3, <1>11, AppendBasicPrefix DEF a8
  <2> QED BY <2>1
<1>13. \A field \in Number : \E p \in 1..8 : Fields[p] = field
  <2>1. 1 \in 1..8 /\ 3 \in 1..8 /\ 7 \in 1..8 /\ 8 \in 1..8
    OBVIOUS
  <2> QED BY <1>2, <2>1 DEF Number
<1> QED BY <1>0, <1>12, <1>13 DEF Prefix, Faithful

-----------------------------------------------------------------------------
(* What the handlers find in the list while no reset is under way.         *)

\* The features known are those of the ini file.
LEMMA KnownFeatures ==
    ASSUME NamesInv, dpc = "none"
    PROVE  \A f : Known(f) <=> f \in Feature
BY DEF NamesInv, Known, Gone

\* The search for the argument of the call stops at the node of that name.
LEMMA FoundNode ==
    ASSUME ListTypeOK, NamesInv, Known(Call.arg)
    PROVE  \E i \in DOMAIN list :
              /\ Found = mem[list[i]]
              /\ mem[list[i]].name = Call.arg
              /\ list[i] \in Addr
<1> DEFINE k == CHOOSE i \in DOMAIN list : FoundAt(Call.arg, i)
<1>1. PICK i \in DOMAIN list : mem[list[i]].name = Call.arg
  BY DEF Known
<1>2. Len(list) \in Nat /\ DOMAIN list = 1..Len(list)
      /\ \A j \in DOMAIN list : list[j] \in Addr
  BY LenProperties DEF ListTypeOK
<1>3. \A j \in 1..(i - 1) : j \in DOMAIN list /\ j # i
  BY <1>2
<1>4. \A j \in 1..(i - 1) : mem[list[j]].name # Call.arg
  BY <1>1, <1>3 DEF NamesInv
<1>5. FoundAt(Call.arg, i)
  BY <1>1, <1>4 DEF FoundAt
<1>6. k \in DOMAIN list /\ FoundAt(Call.arg, k)
  BY <1>5
<1>7. Found = mem[list[k]]
  BY DEF Found
<1> HIDE DEF k
<1> QED BY <1>2, <1>6, <1>7 DEF FoundAt

\* names() lists every feature, once.
LEMMA NamesComplete ==
    ASSUME NamesInv, dpc = "none"
    PROVE  Range(Names) = Feature /\ IsInjective(Names)
<1>1. DOMAIN Names = DOMAIN list /\ \A i \in DOMAIN list : Names[i] = mem[list[i]].name
  BY DEF Names
<1>2. \A f \in Feature : \E i \in DOMAIN list : mem[list[i]].name = f
  BY KnownFeatures DEF Known
<1>3. /\ \A i \in DOMAIN list : mem[list[i]].name \in Feature
      /\ \A i, j \in DOMAIN list : mem[list[i]].name = mem[list[j]].name => i = j
  BY DEF NamesInv
<1>4. Range(Names) = Feature
  BY <1>1, <1>2, <1>3 DEF Range
<1>5. IsInjective(Names)
  BY <1>1, <1>3 DEF IsInjective
<1> QED BY <1>4, <1>5

\* What the steps of the D-Bus thread do to the list they do as the steps of reset().
LEMMA ListStep ==
    ASSUME NEW learnt, ListTypeOK, ListInv(learnt), DbusNext
    PROVE  ListTypeOK' /\ ListInv(learnt)'
<1>1. CASE UNCHANGED listVars
  <2>1. ListTypeOK'
    BY <1>1 DEF listVars, ListTypeOK
  <2>2. ListInv(learnt)'
    BY <1>1, ListInvFrame DEF listVars
  <2> QED BY <2>1, <2>2
<1>2. CASE BeginReset
  <2>1. ResetFind(Call.arg)
    BY <1>2 DEF BeginReset
  <2>2. Call.arg \in Feature
    BY <2>1 DEF ResetFind, FoundAt, ListInv, NamesInv
  <2> QED BY <2>1, <2>2, ListTypeFind, ListInvFind
<1>3. CASE EraseNode
  BY <1>3, ListTypeErase, ListInvErase DEF EraseNode
<1>4. CASE EmplaceNode
  BY <1>4, ListTypeEmplace, ListInvEmplace DEF EmplaceNode
<1>5. CASE ClientCalls \/ Poll \/ Answer \/ Send \/ SendOverflow
  <2>1. UNCHANGED listVars
    BY <1>5 DEF ClientCalls, Poll, Answer, Send, SendOverflow, ReplyFeatures, RefuseStatus,
       BeginStatus, ReplyStatus, RefuseConfig, ReplyConfig, ConfigFatal,
       ReplyIntrospection, ReplyKill, Ignore, RefuseReset, Refuse
  <2> QED BY <1>1, <2>1
<1> QED BY <1>2, <1>3, <1>4, <1>5 DEF DbusNext, Listen

-----------------------------------------------------------------------------
(* The inductive invariant of the thread.  What the clients have got so    *)
(* far follows from three parts: the stage of the thread and what it goes  *)
(* with; the replies still to be sent, which fit the call they answer, and *)
(* the first of which is the first answer to it; and the replies sent.     *)

\* What every reply to call c is, first or not.
Fits(c, r) ==
    /\ r.kind = "features" => Range(r.value) = Feature /\ IsInjective(r.value)
    /\ r.kind = "config" => Faithful(r.value, FieldsOf[ConfOf[c.arg]], library)

StageInv ==
    /\ library \in Libraries
    /\ asked \in Seq(Calls) /\ popped \in 0..Len(asked)
    /\ bpc \in {"poll", "handle", "status", "reset", "send"}
    /\ loaded \in [n : Nat] /\ (bpc # "status" => loaded = Nothing)
    /\ bpc = "reset" <=> dpc # "none"
    /\ bpc # "poll" => popped > 0
    /\ bpc = "status" => Call.method = "Status" /\ Call.arg \in Feature
    /\ bpc = "reset" => /\ Call.method = "Reset" /\ Call.arg \in Feature
                        /\ saved.name = Call.arg

TodoInv ==
    /\ bpc = "send" =>
          /\ \E r : todo = <<r>> \/ (todo = <<r, Empty>> /\ Call.method # "Kill")
          /\ Fits(Call, Head(todo))
          /\ Answered(popped) \/ Head(todo).kind = Expected(Call)
    /\ bpc # "send" => todo = << >>
    /\ bpc \in {"handle", "status", "reset"} => ~Answered(popped)

\* The first answer to call c has been sent, and is of the kind expected.
FirstSent(c) ==
    \E i \in DOMAIN sent :
        /\ sent[i].id = c
        /\ \A j \in DOMAIN sent : sent[j].id = c => i <= j
        /\ sent[i].reply.kind = Expected(asked[c])

SentInv ==
    /\ IsSequence(sent)
    /\ \A i \in DOMAIN sent : sent[i].id \in 1..popped
    /\ \A i \in DOMAIN sent : Fits(asked[sent[i].id], sent[i].reply)
    /\ \A i, j \in DOMAIN sent : i <= j => sent[i].id <= sent[j].id
    /\ \A c \in 1..popped :
          \/ Answered(c)
          \/ asked[c].method = "Other"
          \/ c = popped /\ bpc # "poll"
    /\ \A c \in 1..popped : Answered(c) => FirstSent(c)

BusInv == StageInv /\ TodoInv /\ SentInv

LEMMA BusInit == DbuspotcherInit /\ dpc = "none" => BusInv
<1> SUFFICES ASSUME DbuspotcherInit, dpc = "none" PROVE BusInv
  OBVIOUS
<1>1. /\ asked = << >> /\ popped = 0 /\ bpc = "poll" /\ todo = << >> /\ sent = << >>
      /\ loaded = Nothing /\ library \in Libraries
  BY DEF DbuspotcherInit
<1>2. << >> \in Seq(Calls) /\ Len(<< >>) = 0 /\ DOMAIN << >> = {}
  BY EmptySeq
<1>3. StageInv
  BY <1>1, <1>2 DEF StageInv, Nothing
<1>4. TodoInv
  BY <1>1 DEF TodoInv
<1>5. SentInv
  <2>1. IsSequence(sent)
    BY <1>1, <1>2 DEF IsSequence
  <2>2. 1..popped = {}
    BY <1>1
  <2> QED BY <1>1, <1>2, <2>1, <2>2 DEF SentInv
<1> QED BY <1>3, <1>4, <1>5 DEF BusInv

\* Steps of others.
LEMMA BusFrame == ASSUME BusInv, UNCHANGED <<dbusVars, dpc, saved>> PROVE BusInv'
BY DEF BusInv, StageInv, TodoInv, SentInv, FirstSent, Fits, Answered, Call, dbusVars

\* A handler has prepared its replies: r first, and at most the empty one after it.
LEMMA Prepared ==
    ASSUME BusInv, bpc \in {"handle", "status", "reset"},
           bpc' = "send", dpc' = "none", loaded' = Nothing,
           UNCHANGED <<asked, popped, sent, library>>,
           NEW r,
           todo' = <<r>> \/ (todo' = <<r, Empty>> /\ Call.method # "Kill"),
           Fits(Call, r), r.kind = Expected(Call)
    PROVE  BusInv'
<1>1. StageInv'
  BY DEF BusInv, StageInv, Nothing
<1>2. Head(todo') = r
  BY OneReply, TwoReplies
<1>3. Call' = Call
  BY DEF Call
<1>4. TodoInv'
  BY <1>2, <1>3 DEF TodoInv, Fits
<1>5. SentInv'
  BY DEF BusInv, SentInv, FirstSent, Fits, Answered
<1> QED BY <1>1, <1>4, <1>5 DEF BusInv

\* A reply is sent.
LEMMA SendStep == ASSUME BusInv, Send PROVE BusInv'
<1> DEFINE e == [id |-> popped, reply |-> Head(todo)]
<1>1. /\ bpc = "send" /\ sent' = Append(sent, e) /\ todo' = Tail(todo)
      /\ bpc' = (IF todo' = << >> THEN "poll" ELSE "send")
      /\ UNCHANGED <<asked, popped, loaded, library>>
      /\ dpc' = dpc
  BY DEF Send, listVars
<1>2. /\ Len(sent) \in Nat /\ DOMAIN sent = 1..Len(sent)
      /\ IsSequence(sent') /\ DOMAIN sent' = 1..(Len(sent) + 1)
      /\ \A i \in DOMAIN sent : sent'[i] = sent[i]
      /\ sent'[Len(sent) + 1] = e
  BY <1>1, AppendAny DEF BusInv, SentInv
<1>3. e.id = popped /\ e.reply = Head(todo)
  OBVIOUS
<1> DEFINE last == Len(sent) + 1
<1> HIDE DEF e
<1>4. /\ \A i \in DOMAIN sent' : i \in DOMAIN sent \/ i = last
      /\ last \in DOMAIN sent' /\ \A i \in DOMAIN sent : i < last /\ i \in DOMAIN sent'
  BY <1>2
<1>5. sent'[last].id = popped /\ sent'[last].reply = Head(todo)
  BY <1>2, <1>3
<1> HIDE DEF last
<1>6. popped \in Nat /\ popped > 0 /\ popped \in 1..popped
  BY <1>1 DEF BusInv, StageInv
<1>7. Call' = Call
  BY <1>1 DEF Call
<1>8. \A c : Answered(c)' <=> Answered(c) \/ c = popped
  BY <1>2, <1>4, <1>5 DEF Answered
<1>9. StageInv'
  <2>1. bpc' \in {"poll", "send"}
    BY <1>1
  <2> QED BY <1>1, <1>6, <2>1 DEF BusInv, StageInv
<1>10. TodoInv'
  <2>1. PICK r : todo = <<r>> \/ (todo = <<r, Empty>> /\ Call.method # "Kill")
    BY <1>1 DEF BusInv, TodoInv
  <2>2. CASE todo = <<r>>
    BY <1>1, <2>2, OneReply DEF TodoInv
  <2>3. CASE todo = <<r, Empty>> /\ Call.method # "Kill"
    <3>1. todo' = <<Empty>> /\ bpc' = "send" /\ Head(todo') = Empty
      BY <1>1, <2>3, OneReply, TwoReplies
    <3>2. Empty.kind = "empty"
      BY DEF Empty, Reply
    <3>3. Fits(Call, Empty)'
      BY <3>2 DEF Fits, Empty, Reply
    <3>4. Answered(popped)'
      BY <1>1, <1>4, <1>5 DEF Answered
    <3>5. popped' = popped
      BY <1>1
    <3> QED BY <1>7, <3>1, <3>3, <3>4, <3>5 DEF TodoInv, Answered, Fits
  <2> QED BY <2>1, <2>2, <2>3
<1>11. SentInv'
  <2>1. \A i \in DOMAIN sent' : sent'[i].id \in 1..popped
    BY <1>2, <1>4, <1>5, <1>6 DEF BusInv, SentInv
  <2>2. \A i \in DOMAIN sent' : Fits(asked[sent'[i].id], sent'[i].reply)
    <3>1. Fits(asked[popped], Head(todo))
      BY <1>1 DEF BusInv, TodoInv, Call
    <3> QED BY <1>2, <1>4, <1>5, <3>1 DEF BusInv, SentInv
  <2>3. \A i, j \in DOMAIN sent' : i <= j => sent'[i].id <= sent'[j].id
    <3> SUFFICES ASSUME NEW i \in DOMAIN sent', NEW j \in DOMAIN sent', i <= j
                 PROVE  sent'[i].id <= sent'[j].id
      OBVIOUS
    <3>1. CASE j = last
      <4>1. sent'[i].id \in 1..popped /\ sent'[j].id = popped
        BY <1>5, <2>1, <3>1
      <4> QED BY <1>6, <4>1
    <3>2. CASE j # last
      <4>1. i \in DOMAIN sent /\ j \in DOMAIN sent
        BY <1>2, <1>4, <3>2
      <4> QED BY <1>2, <4>1 DEF BusInv, SentInv
    <3> QED BY <3>1, <3>2
  <2>4. ASSUME NEW c \in 1..popped
        PROVE  Answered(c)' \/ asked[c].method = "Other"
    BY <1>8 DEF BusInv, SentInv
  <2>5. ASSUME NEW c \in 1..popped, Answered(c)'
        PROVE  FirstSent(c)'
    <3>1. CASE Answered(c)
      <4>1. PICK i \in DOMAIN sent :
                 /\ sent[i].id = c
                 /\ \A j \in DOMAIN sent : sent[j].id = c => i <= j
                 /\ sent[i].reply.kind = Expected(asked[c])
        BY <3>1 DEF BusInv, SentInv, FirstSent
      <4>2. \A j \in DOMAIN sent' : sent'[j].id = c => i <= j
        BY <1>2, <1>4, <4>1
      <4> QED BY <1>1, <1>2, <1>4, <4>1, <4>2 DEF FirstSent
    <3>2. CASE ~Answered(c)
      <4>1. c = popped /\ Head(todo).kind = Expected(asked[c])
        BY <1>1, <1>8, <2>5, <3>2 DEF BusInv, TodoInv, Call
      <4>2. \A j \in DOMAIN sent' : sent'[j].id = c => j = last
        BY <1>2, <1>4, <3>2 DEF Answered
      <4>3. last \in Nat
        BY <1>2 DEF last
      <4> QED BY <1>1, <1>4, <1>5, <4>1, <4>2, <4>3 DEF FirstSent
    <3> QED BY <3>1, <3>2
  <2> QED BY <1>1, <1>2, <2>1, <2>2, <2>3, <2>4, <2>5 DEF SentInv, Fits
<1> QED BY <1>9, <1>10, <1>11 DEF BusInv

\* Every other step of the thread, and of its clients.
LEMMA CallStep == ASSUME BusInv, ClientCalls PROVE BusInv'
<1>1. PICK c \in Calls : asked' = Append(asked, c)
  BY DEF ClientCalls
<1>2. UNCHANGED <<popped, bpc, loaded, todo, sent, dpc, saved, library>>
  BY DEF ClientCalls, listVars
<1>3. asked \in Seq(Calls) /\ popped \in 0..Len(asked) /\ Len(asked) \in Nat
  BY LenProperties DEF BusInv, StageInv
<1>4. /\ asked' \in Seq(Calls) /\ Len(asked') = Len(asked) + 1
      /\ \A i \in 1..Len(asked) : asked'[i] = asked[i]
  BY <1>1, <1>3, AppendProperties
<1>5. popped \in 0..Len(asked') /\ \A i \in 1..popped : asked'[i] = asked[i]
  BY <1>3, <1>4
<1>6. popped > 0 => Call' = Call
  <2>1. popped > 0 => popped \in 1..popped
    BY <1>3
  <2> QED BY <1>2, <1>5, <2>1 DEF Call
<1>7. bpc # "poll" => Call' = Call
  BY <1>6 DEF BusInv, StageInv
<1>8. StageInv'
  BY <1>2, <1>4, <1>5, <1>7 DEF BusInv, StageInv
<1>9. TodoInv'
  BY <1>2, <1>7 DEF BusInv, TodoInv, Fits, Answered
<1>10. SentInv'
  BY <1>2, <1>5 DEF BusInv, SentInv, FirstSent, Fits, Answered
<1> QED BY <1>8, <1>9, <1>10 DEF BusInv

LEMMA PollStep == ASSUME BusInv, Poll PROVE BusInv'
<1>1. /\ bpc = "poll" /\ popped < Len(asked) /\ popped' = popped + 1 /\ bpc' = "handle"
      /\ UNCHANGED <<asked, loaded, todo, sent, dpc, library>>
  BY DEF Poll, listVars
<1>2. popped \in 0..Len(asked) /\ Len(asked) \in Nat
  BY LenProperties DEF BusInv, StageInv
<1>3. /\ popped' \in 0..Len(asked) /\ popped' > 0
      /\ \A i \in 1..popped' : i \in 1..popped \/ i = popped'
      /\ \A i \in 1..popped : i \in 1..popped' /\ i # popped'
  BY <1>1, <1>2
<1>4. ~Answered(popped)'
  BY <1>1, <1>3 DEF BusInv, SentInv, Answered
<1>5. StageInv'
  BY <1>1, <1>3 DEF BusInv, StageInv
<1>6. TodoInv'
  BY <1>1, <1>4 DEF BusInv, TodoInv
<1>7. SentInv'
  <2>1. \A c \in 1..popped' : Answered(c)' => c \in 1..popped
    BY <1>3, <1>4 DEF Answered
  <2> QED BY <1>1, <1>3, <2>1 DEF BusInv, SentInv, FirstSent, Fits, Answered
<1> QED BY <1>5, <1>6, <1>7 DEF BusInv

\* The thread starts a reset, or goes on with it.
LEMMA ResetSteps ==
    ASSUME ListTypeOK, NamesInv, BusInv, BeginReset \/ EraseNode \/ EmplaceNode
    PROVE  BusInv'
<1>1. CASE BeginReset
  <2>1. /\ bpc = "handle" /\ bpc' = "reset" /\ dpc' = "erase"
        /\ Call.method = "Reset" /\ ResetFind(Call.arg)
        /\ UNCHANGED <<asked, popped, loaded, todo, sent, library>>
    BY <1>1 DEF BeginReset, ResetFind
  <2>2. Call.arg \in Feature /\ Call' = Call /\ saved'.name = Call.arg
    BY <2>1 DEF ResetFind, FoundAt, NamesInv, Call
  <2> QED BY <2>1, <2>2
          DEF BusInv, StageInv, TodoInv, SentInv, FirstSent, Fits, Answered
<1>2. CASE EraseNode
  <2>1. /\ bpc = "reset" /\ dpc' = "emplace" /\ UNCHANGED <<dbusVars, saved>>
    BY <1>2 DEF EraseNode, ResetErase
  <2> QED BY <2>1 DEF BusInv, StageInv, TodoInv, SentInv, FirstSent, Fits, Answered,
             Call, dbusVars
<1>3. CASE EmplaceNode
  <2>1. /\ bpc = "reset" /\ bpc' = "send" /\ dpc' = "none" /\ todo' = <<Info, Empty>>
        /\ UNCHANGED <<asked, popped, loaded, sent, library>>
    BY <1>3 DEF EmplaceNode, ResetEmplace
  <2>2. Call.method = "Reset" /\ Call.arg \in Feature /\ loaded = Nothing
    BY <2>1 DEF BusInv, StageInv
  <2>3. Info.kind = "info"
    BY DEF Info, Reply
  <2>4. Fits(Call, Info) /\ Info.kind = Expected(Call)
    BY <2>2, <2>3 DEF Fits, Expected
  <2> HIDE DEF Info
  <2> QED BY <2>1, <2>2, <2>4, Prepared
<1> QED BY <1>1, <1>2, <1>3

\* The replies of the handlers.
LEMMA AnswerStep ==
    ASSUME NEW learnt, ListTypeOK, ListInv(learnt), BusInv, Answer
    PROVE  BusInv'
<1>1. NamesInv /\ SettingsInv(learnt)
  BY DEF ListInv
<1>2. /\ bpc # "reset" => dpc = "none"
      /\ bpc # "status" => loaded = Nothing
      /\ bpc # "poll" => Call \in Calls
  <2>1. bpc # "poll" => popped \in 1..Len(asked)
    <3>1. asked \in Seq(Calls) /\ popped \in 0..Len(asked) /\ Len(asked) \in Nat
      BY LenProperties DEF BusInv, StageInv
    <3> QED BY <3>1 DEF BusInv, StageInv
  <2> QED BY <2>1, ElementOfSeq DEF BusInv, StageInv, Call
<1>3. /\ Call \in Calls /\ Call.method \in PlainMethods => Call.arg \notin Feature
      /\ Call.method \in PlainMethods => Call.method \notin SpotMethods
  BY DbuspotcherAssumption DEF Calls, PlainMethods, SpotMethods
<1>4. dpc = "none" => (KnownFeature <=> Call.arg \in Feature)
  <2>1. Malformed \notin Feature
    BY DbuspotcherAssumption
  <2> QED BY <1>1, <2>1, KnownFeatures DEF KnownFeature
<1>5. ASSUME NEW method, NEW r, Handle(method, <<r>>), UNCHANGED listVars,
             Fits(Call, r), r.kind = Expected(Call)
      PROVE  BusInv'
  <2>1. /\ bpc = "handle" /\ todo' = <<r>> /\ bpc' = "send" /\ dpc' = dpc
        /\ UNCHANGED <<asked, popped, loaded, sent, library>>
    BY <1>5, OneReply DEF Handle, listVars
  <2> QED BY <1>2, <1>5, <2>1, Prepared
<1>6. CASE ReplyFeatures
  <2> DEFINE r == Reply("features", Names)
  <2>1. Handle("Features", <<r>>) /\ UNCHANGED listVars /\ Call.method = "Features"
        /\ bpc = "handle"
    BY <1>6 DEF ReplyFeatures, Handle
  <2>2. r.kind = "features" /\ r.value = Names
    BY DEF Reply
  <2>3. Fits(Call, r)
    BY <1>1, <1>2, <2>1, <2>2, NamesComplete DEF Fits
  <2>4. r.kind = Expected(Call)
    BY <2>1, <2>2 DEF Expected, SpotMethods
  <2> HIDE DEF r
  <2> QED BY <1>5, <2>1, <2>3, <2>4
<1>7. CASE ReplyIntrospection
  <2> DEFINE r == Reply("xml", << >>)
  <2>1. Handle("Introspect", <<r>>) /\ UNCHANGED listVars /\ Call.method = "Introspect"
    BY <1>7 DEF ReplyIntrospection, Handle
  <2>2. r.kind = "xml"
    BY DEF Reply
  <2>3. Fits(Call, r) /\ r.kind = Expected(Call)
    BY <2>1, <2>2 DEF Expected, SpotMethods, Fits
  <2> HIDE DEF r
  <2> QED BY <1>5, <2>1, <2>3
<1>8. CASE ReplyKill
  <2>1. Handle("Kill", <<Info>>) /\ UNCHANGED listVars /\ Call.method = "Kill"
    BY <1>8 DEF ReplyKill, Handle
  <2>2. Info.kind = "info"
    BY DEF Info, Reply
  <2>3. Fits(Call, Info) /\ Info.kind = Expected(Call)
    BY <2>1, <2>2 DEF Expected, SpotMethods, Fits
  <2> QED BY <1>5, <2>1, <2>3
<1>9. CASE Ignore
  <2>1. /\ bpc = "handle" /\ bpc' = "poll" /\ todo' = << >> /\ Call.method = "Other"
        /\ dpc' = dpc /\ UNCHANGED <<asked, popped, loaded, sent, library>>
    BY <1>9 DEF Ignore, Handle, listVars
  <2>2. popped \in 0..Len(asked) /\ Call' = Call
    BY <2>1 DEF BusInv, StageInv, Call
  <2>3. asked[popped].method = "Other"
    BY <2>1 DEF Call
  <2> QED BY <1>2, <2>1, <2>2, <2>3
          DEF BusInv, StageInv, TodoInv, SentInv, FirstSent, Fits, Answered
<1>10. ASSUME NEW method \in SpotMethods, Refuse(method) PROVE BusInv'
  <2>1. /\ bpc = "handle" /\ ~KnownFeature /\ Call.method = method /\ todo' = Refusal
        /\ bpc' = (IF Refusal = << >> THEN "poll" ELSE "send") /\ dpc' = dpc
        /\ UNCHANGED <<asked, popped, loaded, sent, library>>
    BY <1>10 DEF Refuse, Handle, listVars
  <2>2. Error.kind = "error"
    BY DEF Error, Reply
  <2>3. Fits(Call, Error) /\ Error.kind = Expected(Call)
    BY <1>2, <1>4, <2>1, <2>2 DEF Fits, Expected
  <2>4. todo' = <<Error>> \/ todo' = <<Error, Empty>>
    BY <2>1 DEF Refusal
  <2>5. bpc' = "send"
    BY <2>1, <2>4, OneReply, TwoReplies
  <2>6. Call.method # "Kill"
    BY <2>1 DEF SpotMethods
  <2> QED BY <1>2, <2>1, <2>3, <2>4, <2>5, <2>6, Prepared
<1>11. CASE RefuseStatus \/ RefuseConfig \/ RefuseReset
  BY <1>10, <1>11 DEF RefuseStatus, RefuseConfig, RefuseReset, SpotMethods
<1>12. CASE BeginStatus
  <2>1. /\ bpc = "handle" /\ Call.method = "Status" /\ KnownFeature
        /\ loaded' = [n |-> Found.n] /\ bpc' = "status" /\ dpc' = dpc
        /\ UNCHANGED <<asked, popped, todo, sent, library>>
    BY <1>12 DEF BeginStatus, listVars
  <2>2. PICK i \in DOMAIN list : Found = mem[list[i]] /\ list[i] \in Addr
    BY <1>1, <2>1, FoundNode DEF KnownFeature
  <2>3. Found.n \in Nat
    BY <2>2 DEF ListTypeOK, Node
  <2>4. Call.arg \in Feature /\ Call' = Call
    BY <1>2, <1>4, <2>1 DEF Call
  <2> QED BY <1>2, <2>1, <2>3, <2>4
          DEF BusInv, StageInv, TodoInv, SentInv, FirstSent, Fits, Answered
<1>13. CASE ReplyStatus
  <2> DEFINE r == Reply("status", [n |-> loaded.n, al |-> Found.al])
  <2>1. /\ bpc = "status" /\ bpc' = "send" /\ loaded' = Nothing /\ todo' = <<r>>
        /\ dpc' = dpc /\ UNCHANGED <<asked, popped, sent, library>>
    BY <1>13 DEF ReplyStatus, listVars
  <2>2. r.kind = "status"
    BY DEF Reply
  <2> HIDE DEF r
  <2>3. Call.method = "Status" /\ Call.arg \in Feature
    BY <2>1 DEF BusInv, StageInv
  <2>4. Fits(Call, r) /\ r.kind = Expected(Call)
    BY <2>2, <2>3 DEF Fits, Expected
  <2> QED BY <1>2, <2>1, <2>4, Prepared
<1>14. CASE ReplyConfig
  <2>1. /\ bpc = "handle" /\ KnownFeature /\ UNCHANGED listVars
    BY <1>14 DEF ReplyConfig
  <2> DEFINE fields == FieldsOf[Found.conf]
  <2>2. PICK pad \in [PadBytes -> Paddings] :
           Handle("Config", <<Reply("config", AppendConfig(fields, pad, library))>>)
    BY <1>14 DEF ReplyConfig
  <2> DEFINE r == Reply("config", AppendConfig(fields, pad, library))
  <2>3. r.kind = "config" /\ r.value = AppendConfig(fields, pad, library)
    BY DEF Reply
  <2>4. Handle("Config", <<r>>)
    BY <2>2
  <2> HIDE DEF r
  <2>5. PICK i \in DOMAIN list :
           Found = mem[list[i]] /\ mem[list[i]].name = Call.arg /\ list[i] \in Addr
    BY <1>1, <2>1, FoundNode DEF KnownFeature
  <2>6. Found.conf = ConfOf[Call.arg] /\ Found.conf \in Conf
    BY <1>1, <2>5 DEF SettingsInv, Own, ListTypeOK, Node
  <2>7. fields \in ConfigFields
    BY <2>6, DbuspotcherAssumption
  <2>8. Faithful(r.value, FieldsOf[ConfOf[Call.arg]], library)
    BY <2>3, <2>6, <2>7, ConfigFaithful
  <2>9. Call.method = "Config"
    BY <2>4 DEF Handle
  <2>10. Fits(Call, r) /\ r.kind = Expected(Call)
    BY <1>2, <1>4, <2>1, <2>3, <2>8, <2>9 DEF Fits, Expected
  <2> QED BY <1>5, <2>1, <2>4, <2>10
<1>15. CASE ConfigFatal
  BY <1>15, BusFrame DEF ConfigFatal, listVars
<1> QED BY <1>6, <1>7, <1>8, <1>9, <1>11, <1>12, <1>13, <1>14, <1>15 DEF Answer

LEMMA BusStep ==
    ASSUME NEW learnt, ListTypeOK, ListInv(learnt), BusInv, DbusNext
    PROVE  BusInv'
<1>1. CASE SendOverflow
  BY <1>1, BusFrame DEF SendOverflow, listVars
<1> QED BY <1>1, CallStep, PollStep, AnswerStep, ResetSteps, SendStep
        DEF DbusNext, Listen, ListInv

\* What the answers are follows from the invariant of the thread alone.
LEMMA AnswersOK ==
    BusInv => AnswersInOrder /\ FirstAnswerRight /\ FeaturesComplete /\ ConfigInitial
<1> SUFFICES ASSUME BusInv
             PROVE  AnswersInOrder /\ FirstAnswerRight /\ FeaturesComplete /\ ConfigInitial
  OBVIOUS
<1>1. AnswersInOrder
  BY DEF BusInv, SentInv, AnswersInOrder
<1>2. ASSUME NEW c \in 1..popped, Answered(c)
      PROVE  sent[First(c)].reply.kind = Expected(asked[c])
  <2> DEFINE IsFirst(i) == /\ sent[i].id = c
                           /\ \A j \in DOMAIN sent : sent[j].id = c => i <= j
  <2>1. PICK i \in DOMAIN sent :
             IsFirst(i) /\ sent[i].reply.kind = Expected(asked[c])
    BY <1>2 DEF BusInv, SentInv, FirstSent
  <2>2. First(c) \in DOMAIN sent /\ IsFirst(First(c))
    BY <2>1 DEF First
  <2>3. Len(sent) \in Nat /\ DOMAIN sent = 1..Len(sent)
    BY LenProperties DEF BusInv, SentInv, IsSequence
  <2>4. First(c) = i
    BY <2>1, <2>2, <2>3
  <2> QED BY <2>1, <2>4
<1>3. FeaturesComplete
  BY DEF BusInv, SentInv, Fits, FeaturesComplete
<1>4. ConfigInitial
  <2> SUFFICES ASSUME NEW i \in DOMAIN sent, sent[i].reply.kind = "config"
               PROVE  Faithful(sent[i].reply.value, Asked(i), library)
    BY DEF ConfigInitial, Faithful, Tells
  <2> QED BY DEF BusInv, SentInv, Fits, Asked
<1> QED BY <1>1, <1>2, <1>3, <1>4 DEF FirstAnswerRight

-----------------------------------------------------------------------------
(* Kill: the answer to one is the last, and goes with the process's end.   *)

KillInv ==
    /\ proc \in ProcStates
    /\ \A i \in DOMAIN sent :
          asked[sent[i].id].method = "Kill" => proc = "exited" /\ i = Len(sent)

\* An exit of the service alone is one the client has been told of.
ExitInv ==
    proc = "exited" => sent # << >> /\ asked[sent[Len(sent)].id].method = "Kill"

LEMMA KillStep ==
    ASSUME BusInv, KillInv, DbusNext
    PROVE  KillInv' /\ (ExitInv => ExitInv')
<1>1. /\ IsSequence(sent) /\ \A i \in DOMAIN sent : sent[i].id \in 1..popped
      /\ asked \in Seq(Calls) /\ popped \in 0..Len(asked)
  BY DEF BusInv, StageInv, SentInv
<1>2. Len(sent) \in Nat /\ DOMAIN sent = 1..Len(sent)
  BY <1>1, LenProperties DEF IsSequence
<1>3. CASE Send
  <2> DEFINE e == [id |-> popped, reply |-> Head(todo)]
  <2>1. /\ Running /\ bpc = "send" /\ sent' = Append(sent, e) /\ todo' = Tail(todo)
        /\ (IF todo' = << >> /\ Call.method = "Kill" THEN Exit ELSE UNCHANGED proc)
        /\ UNCHANGED <<asked, popped>>
    BY <1>3 DEF Send
  <2>2. e.id = popped
    OBVIOUS
  <2> HIDE DEF e
  <2>3. /\ IsSequence(sent') /\ Len(sent') = Len(sent) + 1
        /\ DOMAIN sent' = 1..(Len(sent) + 1)
        /\ \A i \in 1..Len(sent) : sent'[i] = sent[i]
        /\ sent'[Len(sent')] = e
    BY <1>1, <2>1, AppendAny
  <2>4. \A i \in DOMAIN sent' : i \in DOMAIN sent \/ i = Len(sent')
    BY <1>2, <2>3
  <2>5. asked[sent'[Len(sent')].id].method = Call.method
    BY <2>1, <2>2, <2>3 DEF Call
  <2>6. \A i \in DOMAIN sent : asked[sent'[i].id].method # "Kill"
    BY <1>2, <2>1, <2>3 DEF KillInv, Running
  <2>7. sent' # << >>
    <3>1. Len(sent') # 0
      BY <1>2, <2>3
    <3> QED BY <3>1, EmptySeq
  <2>8. CASE Call.method = "Kill"
    <3>1. todo' = << >>
      <4>1. PICK r : todo = <<r>>
        BY <2>1, <2>8 DEF BusInv, TodoInv
      <4> QED BY <2>1, <4>1, OneReply
    <3>2. proc' = "exited"
      BY <2>1, <2>8, <3>1 DEF Exit
    <3> QED BY <2>1, <2>4, <2>5, <2>6, <2>7, <2>8, <3>2
            DEF KillInv, ExitInv, Running, ProcStates
  <2>9. CASE Call.method # "Kill"
    <3>1. proc' = "running"
      BY <2>1, <2>9 DEF Running
    <3> QED BY <2>1, <2>4, <2>5, <2>6, <2>9, <3>1
            DEF KillInv, ExitInv, Running, ProcStates
  <2> QED BY <2>8, <2>9
<1>4. CASE ClientCalls
  <2>1. PICK c \in Calls : asked' = Append(asked, c)
    BY <1>4 DEF ClientCalls
  <2>2. UNCHANGED <<sent, proc>> /\ Running
    BY <1>4 DEF ClientCalls
  <2>3. \A i \in 1..popped : asked'[i] = asked[i]
    <3>1. /\ Len(asked) \in Nat
          /\ \A i \in 1..Len(asked) : asked'[i] = asked[i]
      BY <1>1, <2>1, AppendProperties, LenProperties
    <3> QED BY <1>1, <3>1
  <2> QED BY <1>1, <2>2, <2>3 DEF KillInv, ExitInv, Running
<1>5. CASE ConfigFatal \/ SendOverflow
  BY <1>5 DEF ConfigFatal, SendOverflow, Abort, KillInv, ExitInv, Running, ProcStates,
     dbusVars
<1>6. CASE UNCHANGED <<asked, sent, proc>>
  BY <1>6 DEF KillInv, ExitInv, Running
<1>7. CASE Poll \/ BeginReset \/ EraseNode \/ EmplaceNode
  BY <1>6, <1>7 DEF Poll, BeginReset, EraseNode, EmplaceNode, dbusVars
<1>8. CASE Answer /\ ~ConfigFatal
  BY <1>6, <1>8 DEF Answer, ReplyFeatures, RefuseStatus, BeginStatus, ReplyStatus,
     RefuseConfig, ReplyConfig, ReplyIntrospection, ReplyKill, Ignore, RefuseReset,
     Refuse, Handle
<1> QED BY <1>3, <1>4, <1>5, <1>7, <1>8 DEF DbusNext, Listen

-----------------------------------------------------------------------------
(* The theorems.  The service alone learns no types.                       *)

NoTypes == [f \in Feature |-> {}]

ServiceInv == ListTypeOK /\ ListInv(NoTypes) /\ BusInv /\ KillInv /\ ExitInv

LEMMA ServiceCorrect == DbusSpec => []ServiceInv
<1>1. DbusInit => ServiceInv
  <2> SUFFICES ASSUME DbusInit PROVE ServiceInv
    OBVIOUS
  <2>1. ListTypeOK /\ ListInv(NoTypes) /\ BusInv
    BY ListTypeInit, ListInvInit, BusInit DEF DbusInit, DispotcherInit
  <2>2. sent = << >> /\ proc = "running"
    BY DEF DbusInit, DispotcherInit, DbuspotcherInit
  <2>3. DOMAIN << >> = {}
    BY EmptySeq, LenProperties
  <2> QED BY <2>1, <2>2, <2>3 DEF ServiceInv, KillInv, ExitInv, ProcStates
<1>2. ServiceInv /\ [DbusNext]_<<proc, listVars, dbusVars>> => ServiceInv'
  <2>1. ServiceInv /\ DbusNext => ServiceInv'
    BY ListStep, BusStep, KillStep DEF ServiceInv
  <2>2. ServiceInv /\ UNCHANGED <<proc, listVars, dbusVars>> => ServiceInv'
    <3> SUFFICES ASSUME ServiceInv, UNCHANGED <<proc, listVars, dbusVars>>
                 PROVE  ServiceInv'
      OBVIOUS
    <3>1. ListTypeOK' /\ ListInv(NoTypes)'
      BY ListInvFrame DEF ServiceInv, ListTypeOK, listVars
    <3>2. BusInv'
      BY BusFrame DEF ServiceInv, listVars
    <3>3. KillInv' /\ ExitInv'
      BY DEF ServiceInv, KillInv, ExitInv, Running, dbusVars
    <3> QED BY <3>1, <3>2, <3>3 DEF ServiceInv
  <2> QED BY <2>1, <2>2
<1> QED BY <1>1, <1>2, PTL DEF DbusSpec

\* The thread's variables keep their types, and its stages what goes with them.
THEOREM DbusTypeCorrect == DbusSpec => []DbusTypeOK
<1>1. ServiceInv => DbusTypeOK
  <2> SUFFICES ASSUME ServiceInv PROVE DbusTypeOK
    OBVIOUS
  <2>1. bpc = "send" <=> todo # << >>
    BY OneReply, TwoReplies DEF ServiceInv, BusInv, TodoInv
  <2> QED BY <2>1 DEF ServiceInv, KillInv, BusInv, StageInv, SentInv, DbusTypeOK
<1> QED BY <1>1, ServiceCorrect, PTL

\* Whatever the clients ask, in whatever order, the answers come in the order of
\* the calls and none is passed over (listen()).
THEOREM OrderCorrect == DbusSpec => []AnswersInOrder
<1>1. ServiceInv => AnswersInOrder
  BY AnswersOK DEF ServiceInv
<1> QED BY <1>1, ServiceCorrect, PTL

\* For any features and any number of resets, the first answer a client gets is the
\* one its call asks for, and an error exactly if it names no feature.
THEOREM FirstCorrect == DbusSpec => []FirstAnswerRight
<1>1. ServiceInv => FirstAnswerRight
  BY AnswersOK DEF ServiceInv
<1> QED BY <1>1, ServiceCorrect, PTL

\* Every answer to Features is all the features, each once.
THEOREM NamesCorrect == DbusSpec => []FeaturesComplete
<1>1. ServiceInv => FeaturesComplete
  BY AnswersOK DEF ServiceInv
<1> QED BY <1>1, ServiceCorrect, PTL

\* For any configurations, paddings and libraries, no Config reply has a wrong
\* number, an argument out of its place or a flag that is on told as off.
THEOREM ConfigCorrect == DbusSpec => []ConfigInitial
<1>1. ServiceInv => ConfigInitial
  BY AnswersOK DEF ServiceInv
<1> QED BY <1>1, ServiceCorrect, PTL

\* The service ends with the Kill it has acknowledged, and says nothing after it.
THEOREM KillCorrect == DbusSpec => []KillAcknowledged
<1>1. ServiceInv => KillAcknowledged
  <2> SUFFICES ASSUME ServiceInv, NEW i \in DOMAIN sent,
                      asked[sent[i].id].method = "Kill"
               PROVE  proc = "exited" /\ i = Len(sent)
    BY DEF KillAcknowledged, ServiceInv, ExitInv
  <2> QED BY DEF ServiceInv, KillInv, Running, ProcStates
<1> QED BY <1>1, ServiceCorrect, PTL
=============================================================================
