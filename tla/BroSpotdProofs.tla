--------------------------- MODULE BroSpotdProofs ---------------------------
(***************************************************************************)
(* Proofs about BroSpotd: that putting the three parts together adds       *)
(* nothing to any of them, so that what is proved of each holds in the     *)
(* daemon; and what a client of the bus may conclude from a Status reply   *)
(* about the thread that counts.                                           *)
(***************************************************************************)
EXTENDS BroSpotd, QuietProofs, DbuspotcherProofs, MainProofs

-----------------------------------------------------------------------------
(* The inductive invariant: those of the parts, and what ties them: only   *)
(* a call that has been popped has reset anything, a sweep runs while      *)
(* main() is in run(), and calls have come in under the bus name.          *)

CallsInv ==
    /\ Len(asked) <= MaxCalls
    /\ resets <= popped
    /\ bpc = "handle" => resets < popped

LifeInv ==
    /\ cpc # "idle" => mpc = "run"
    /\ asked # << >> => name = "owned"

PartsInv == CallbackTypeOK /\ ListInv(AnyType) /\ BusInv /\ KillInv /\ MainTypeOK

DaemonInv == PartsInv /\ CallsInv /\ LifeInv

LEMMA PartsList == PartsInv => ListTypeOK /\ NamesInv
BY DEF PartsInv, CallbackTypeOK, ListInv

\* The steps of the D-Bus thread but those of reset() touch nothing of the others.
LEMMA ServeSteps ==
    ASSUME BusInv, Serve
    PROVE  /\ DbusNext
           /\ UNCHANGED <<listVars, broVars, resets, served, since, mainVars, asked>>
           /\ listening
           /\ \/ bpc = "poll" /\ popped' = popped + 1
              \/ UNCHANGED popped /\ (bpc' = "handle" => bpc = "handle")
           /\ \/ UNCHANGED proc
              \/ Exit /\ popped \in DOMAIN asked
              \/ Abort /\ (SendFails \/ "fatal" \in Libraries)
<1>1. listening /\ UNCHANGED <<broVars, resets, served, since, mainVars>>
  BY DEF Serve
<1>2. CASE Poll
  BY <1>1, <1>2 DEF Poll, DbusNext, Listen
<1>3. CASE SendOverflow
  BY <1>1, <1>3 DEF SendOverflow, DbusNext, Listen, dbusVars
<1>4. CASE Send
  <2>1. /\ bpc = "send" /\ bpc' # "handle" /\ UNCHANGED <<listVars, asked, popped>>
        /\ UNCHANGED proc \/ Exit
    BY <1>4 DEF Send
  <2>2. popped \in DOMAIN asked
    <3>1. asked \in Seq(Calls) /\ popped \in 0..Len(asked) /\ popped > 0
      BY <2>1 DEF BusInv, StageInv
    <3> QED BY <3>1, LenProperties
  <2> QED BY <1>1, <1>4, <2>1, <2>2 DEF DbusNext, Listen
<1>5. CASE ConfigFatal
  <2>1. UNCHANGED <<listVars, dbusVars>> /\ Abort
    BY <1>5 DEF ConfigFatal
  <2>2. "fatal" \in Libraries
    BY <1>5 DEF ConfigFatal, Survives, BusInv, StageInv
  <2> QED BY <1>1, <1>5, <2>1, <2>2 DEF DbusNext, Listen, Answer, dbusVars
<1>6. CASE Answer /\ ~ConfigFatal
  <2>1. UNCHANGED <<listVars, asked, popped, proc>> /\ bpc' # "handle"
    BY <1>6 DEF Answer, ReplyFeatures, RefuseStatus, BeginStatus, ReplyStatus,
       RefuseConfig, ReplyConfig, ReplyIntrospection, ReplyKill, Ignore, RefuseReset,
       Refuse, Handle
  <2> QED BY <1>1, <1>6, <2>1 DEF DbusNext, Listen
<1> QED BY <1>2, <1>3, <1>4, <1>5, <1>6 DEF Serve

\* Those of reset() are those of Callback.
LEMMA ServeResetSteps ==
    ASSUME PartsInv, CallsInv, ServeReset
    PROVE  /\ DbusNext
           /\ (\E f \in Feature : CallReset(f)) \/ Erase \/ Emplace
           /\ UNCHANGED <<proc, broVars, served, mainVars, asked, popped>>
           /\ bpc' # "handle"
           /\ \/ resets' = resets
              \/ resets' = resets + 1 /\ bpc = "handle"
<1>1. UNCHANGED <<broVars, served, mainVars>>
  BY DEF ServeReset
<1>2. CASE BeginReset /\ resets' = resets + 1 /\ UNCHANGED since
  <2>1. /\ ResetFind(Call.arg) /\ bpc = "handle" /\ bpc' = "reset"
        /\ UNCHANGED <<proc, asked, popped>>
    BY <1>2 DEF BeginReset
  <2>2. Call.arg \in Feature
    BY <2>1, PartsList DEF ResetFind, FoundAt, NamesInv
  <2>3. resets < MaxResets
    <3>1. /\ resets < popped /\ popped \in 0..Len(asked) /\ Len(asked) <= MaxCalls
          /\ asked \in Seq(Calls)
      BY <2>1 DEF CallsInv, PartsInv, BusInv, StageInv
    <3>2. Len(asked) \in Nat /\ MaxCalls \in Nat /\ MaxResets \in Nat /\ resets \in Nat
          /\ MaxCalls <= MaxResets
      BY <3>1, LenProperties, DbuspotcherAssumption, CallbackAssumption,
         BroSpotdAssumption DEF PartsInv, CallbackTypeOK
    <3> QED BY <3>1, <3>2
  <2>4. CallReset(Call.arg)
    BY <1>1, <1>2, <2>1, <2>3 DEF CallReset
  <2> QED BY <1>1, <1>2, <2>1, <2>2, <2>4 DEF DbusNext, Listen
<1>3. CASE EraseNode /\ UNCHANGED <<resets, since>>
  <2>1. ResetErase /\ UNCHANGED <<proc, dbusVars>> /\ bpc = "reset"
    BY <1>3 DEF EraseNode
  <2> QED BY <1>1, <1>3, <2>1 DEF Erase, DbusNext, Listen, dbusVars
<1>4. CASE EmplaceNode /\ since' = [since EXCEPT ![saved.name] = 0] /\ UNCHANGED resets
  <2>1. ResetEmplace /\ UNCHANGED <<proc, asked, popped>> /\ bpc' = "send"
    BY <1>4 DEF EmplaceNode
  <2> QED BY <1>1, <1>4, <2>1 DEF Emplace, DbusNext, Listen
<1> QED BY <1>2, <1>3, <1>4 DEF ServeReset

\* The steps of main() leave all but its own variables alone, and it keeps the name.
LEMMA MainSteps ==
    ASSUME MainTypeOK, MainGoesOn
    PROVE  /\ MainNext
           /\ UNCHANGED <<listVars, broVars, resets, served, since, dbusVars>>
           /\ name = "owned" => name' = "owned"
           /\ mpc = "run" => cpc = "idle"
           /\ UNCHANGED proc \/ (Abort /\ Faults # {})
<1>1. /\ MainThread /\ (mpc = "run" => cpc = "idle")
      /\ UNCHANGED <<listVars, broVars, resets, served, since, dbusVars>>
  BY DEF MainGoesOn
<1>2. CASE \E stage \in StartupFaults : Fails(stage)
  BY <1>1, <1>2 DEF MainNext, Fails, mainVars
<1>3. CASE OpenBus
  <2>1. mpc = "bus" /\ UNCHANGED proc
    BY <1>3 DEF OpenBus, Stage
  <2>2. name # "owned"
    BY <2>1 DEF MainTypeOK
  <2> QED BY <1>1, <2>1, <2>2 DEF MainNext
<1>4. CASE ParseArguments \/ LoadConfig \/ NewConnection \/ TryConnect \/ Connected
           \/ StartListening \/ RunEnds
  <2>1. UNCHANGED <<proc, name>>
    BY <1>4 DEF ParseArguments, LoadConfig, NewConnection, TryConnect, Connected,
       StartListening, RunEnds, Stage
  <2> QED BY <1>1, <2>1 DEF MainNext
<1> QED BY <1>1, <1>2, <1>3, <1>4 DEF MainThread

\* Bro, the bus and the user change nothing else either; they may end the process.
LEMMA AroundSteps ==
    ASSUME Around
    PROVE  /\ MainNext
           /\ UNCHANGED <<listVars, broVars, resets, served, since, dbusVars, mpc>>
           /\ name = "owned" => name' = "owned"
           /\ UNCHANGED proc \/ Exit
<1>1. UNCHANGED <<listVars, broVars, resets, served, since, dbusVars>>
  BY DEF Around
<1>2. CASE PeerUp \/ PeerDown \/ BusLost
  BY <1>1, <1>2 DEF PeerUp, PeerDown, BusLost, MainNext
<1>3. CASE NameReleased
  BY <1>1, <1>3 DEF NameReleased, MainNext
<1>4. CASE BusLossExits \/ Signal
  BY <1>1, <1>4 DEF BusLossExits, Signal, MainNext, mainVars
<1> QED BY <1>2, <1>3, <1>4 DEF Around

\* A sweep ends the process by an exception or a fault only.
LEMMA SweepSteps ==
    ASSUME Sweep
    PROVE  /\ BroThread /\ cpc # "idle"
           /\ UNCHANGED <<list, dpc, target, saved, records, resets, dbusVars, mainVars>>
           /\ UNCHANGED proc \/ Abort
<1>1. BroThread /\ UNCHANGED <<dbusVars, mainVars>>
  BY DEF Sweep
<1>2. CASE Learn \/ Store(0) \/ Store(1)
  BY <1>1, <1>2 DEF Learn, Store
<1>3. CASE Lookup \/ Check \/ Step \/ Report \/ Advance
  BY <1>1, <1>3 DEF Lookup, Check, Step, Report, Advance, listVars
<1>4. CASE LookupFails \/ CheckFails \/ ReportFails \/ Fault
  BY <1>1, <1>4 DEF LookupFails, CheckFails, ReportFails, Fault, listVars, broVars
<1> QED BY <1>1, <1>2, <1>3, <1>4 DEF BroThread

LEMMA ReceiveSteps ==
    ASSUME Receive
    PROVE  /\ RecordArrives /\ mpc = "run"
           /\ UNCHANGED <<proc, list, mem, dpc, target, saved, resets, since, dbusVars,
                          mainVars>>
BY DEF Receive, RecordArrives, listVars

LEMMA AskSteps ==
    ASSUME Ask
    PROVE  /\ ClientCalls /\ DbusNext /\ name = "owned" /\ Running
           /\ UNCHANGED <<proc, listVars, broVars, resets, served, since, mainVars>>
           /\ UNCHANGED <<popped, bpc>>
           /\ Len(asked) < MaxCalls
BY DEF Ask, ClientCalls, DbusNext

-----------------------------------------------------------------------------
(* Each part does in the daemon what it does alone.                        *)

\* The list's two threads.
LEMMA StepAsCallback ==
    ASSUME DaemonInv, DaemonNext
    PROVE  [CallbackNext]_callbackVars
<1>1. PartsInv /\ CallsInv
  BY DEF DaemonInv
<1>2. CASE Receive
  BY <1>2, ReceiveSteps DEF CallbackNext
<1>3. CASE Sweep
  BY <1>3, SweepSteps DEF CallbackNext
<1>4. CASE MainGoesOn
  <2>1. CASE UNCHANGED proc
    BY <1>1, <1>4, <2>1, MainSteps DEF PartsInv, callbackVars
  <2>2. CASE Abort /\ Faults # {}
    BY <1>1, <1>4, <2>2, MainSteps, BroSpotdAssumption DEF PartsInv, Stop, CallbackNext
  <2> QED BY <1>1, <1>4, <2>1, <2>2, MainSteps DEF PartsInv
<1>5. CASE Around
  BY <1>5, AroundSteps DEF Stop, CallbackNext, callbackVars
<1>6. CASE Ask
  BY <1>6, AskSteps DEF callbackVars
<1>7. CASE Serve
  BY <1>1, <1>7, ServeSteps, BroSpotdAssumption
     DEF PartsInv, Stop, CallbackNext, callbackVars
<1>8. CASE ServeReset
  BY <1>1, <1>8, ServeResetSteps DEF CallbackNext, BusThread
<1> QED BY <1>2, <1>3, <1>4, <1>5, <1>6, <1>7, <1>8 DEF DaemonNext

\* The life of main(): what a sweep or the D-Bus thread does to the process is an
\* exception or a Kill to it.
LEMMA StepAsMain ==
    ASSUME DaemonInv, DaemonNext
    PROVE  [MainNext]_<<proc, mainVars>>
<1>1. PartsInv /\ CallsInv /\ LifeInv /\ MainTypeOK /\ BusInv
  BY DEF DaemonInv, PartsInv
<1>2. CASE Receive
  BY <1>2, ReceiveSteps
<1>3. CASE Sweep
  <2>1. cpc # "idle" /\ UNCHANGED mainVars /\ (UNCHANGED proc \/ Abort)
    BY <1>3, SweepSteps
  <2>2. listening
    BY <1>1, <2>1 DEF LifeInv, MainTypeOK
  <2> QED BY <2>1, <2>2 DEF MainNext, ThreadThrows
<1>4. CASE MainGoesOn
  BY <1>1, <1>4, MainSteps
<1>5. CASE Around
  BY <1>5, AroundSteps
<1>6. CASE Ask
  BY <1>6, AskSteps
<1>7. CASE Serve
  <2>1. /\ UNCHANGED mainVars /\ listening
        /\ UNCHANGED proc \/ (Exit /\ popped \in DOMAIN asked) \/ Abort
    BY <1>1, <1>7, ServeSteps
  <2>2. popped \in DOMAIN asked => name = "owned"
    <3>1. DOMAIN << >> = {}
      BY EmptySeq, LenProperties
    <3> QED BY <1>1, <3>1 DEF LifeInv
  <2> QED BY <2>1, <2>2 DEF MainNext, ThreadThrows, Kill
<1>8. CASE ServeReset
  BY <1>1, <1>8, ServeResetSteps
<1> QED BY <1>2, <1>3, <1>4, <1>5, <1>6, <1>7, <1>8 DEF DaemonNext

\* The service: its own steps, or steps that leave it alone.
LEMMA StepAsService ==
    ASSUME DaemonInv, DaemonNext
    PROVE  \/ DbusNext
           \/ /\ UNCHANGED <<dbusVars, dpc, saved>>
              /\ UNCHANGED proc \/ Exit \/ Abort
<1>1. PartsInv /\ CallsInv /\ MainTypeOK /\ BusInv
  BY DEF DaemonInv, PartsInv
<1>2. CASE Receive
  BY <1>2, ReceiveSteps
<1>3. CASE Sweep
  BY <1>3, SweepSteps
<1>4. CASE MainGoesOn
  BY <1>1, <1>4, MainSteps DEF listVars
<1>5. CASE Around
  BY <1>5, AroundSteps DEF listVars
<1>6. CASE Ask \/ Serve \/ ServeReset
  BY <1>1, <1>6, AskSteps, ServeSteps, ServeResetSteps
<1> QED BY <1>2, <1>3, <1>4, <1>5, <1>6 DEF DaemonNext

LEMMA DaemonInvInit == DaemonInit => DaemonInv
<1> SUFFICES ASSUME DaemonInit PROVE DaemonInv
  OBVIOUS
<1>1. /\ proc = "running" /\ dpc = "none" /\ cpc = "idle" /\ resets = 0
      /\ asked = << >> /\ popped = 0 /\ bpc = "poll" /\ sent = << >>
  BY DEF DaemonInit, CallbackInit, DispotcherInit, DbuspotcherInit
<1>2. Len(<< >>) = 0 /\ DOMAIN << >> = {}
  BY EmptySeq, LenProperties
<1>3. CallbackTypeOK /\ ListInv(AnyType) /\ BusInv /\ MainTypeOK
  BY <1>1, TypeInit, ListInvInit, BusInit, MainTypeInit DEF DaemonInit, CallbackInit
<1>4. KillInv
  BY <1>1, <1>2 DEF KillInv, ProcStates
<1>5. CallsInv
  <2>1. MaxCalls \in Nat
    BY DbuspotcherAssumption
  <2> QED BY <1>1, <1>2, <2>1 DEF CallsInv
<1> QED BY <1>1, <1>3, <1>4, <1>5 DEF DaemonInv, PartsInv, LifeInv

LEMMA DaemonInvStep == DaemonInv /\ [DaemonNext]_daemonVars => DaemonInv'
<1> SUFFICES ASSUME DaemonInv, [DaemonNext]_daemonVars PROVE DaemonInv'
  OBVIOUS
<1>0. /\ PartsInv /\ CallsInv /\ LifeInv
      /\ CallbackTypeOK /\ ListInv(AnyType) /\ BusInv /\ KillInv /\ MainTypeOK
      /\ ListTypeOK
  BY PartsList DEF DaemonInv, PartsInv
<1>1. CASE DaemonNext
  <2>1. CallbackTypeOK' /\ ListInv(AnyType)'
    BY <1>0, <1>1, StepAsCallback, TypeStep, AnyStep
  <2>2. MainTypeOK'
    BY <1>0, <1>1, StepAsMain, MainTypeStep
  <2>3. BusInv' /\ KillInv'
    <3>1. CASE DbusNext
      BY <1>0, <3>1, BusStep, KillStep
    <3>2. CASE UNCHANGED <<dbusVars, dpc, saved>> /\ (UNCHANGED proc \/ Exit \/ Abort)
      <4>1. BusInv'
        BY <1>0, <3>2, BusFrame
      <4>2. KillInv'
        BY <1>0, <3>2 DEF KillInv, dbusVars, Exit, Abort, Running, ProcStates
      <4> QED BY <4>1, <4>2
    <3> QED BY <1>1, <3>1, <3>2, StepAsService
  <2>4. CallsInv'
    <3>1. /\ asked \in Seq(Calls) /\ popped \in Nat /\ resets \in Nat /\ MaxCalls \in Nat
          /\ Len(asked) \in Nat
      <4>1. asked \in Seq(Calls) /\ popped \in 0..Len(asked)
        BY <1>0 DEF BusInv, StageInv
      <4> QED BY <1>0, <4>1, LenProperties, DbuspotcherAssumption DEF CallbackTypeOK
    <3>2. CASE Ask
      <4>1. PICK c \in Calls : asked' = Append(asked, c)
        BY <3>2 DEF Ask, ClientCalls
      <4>2. Len(asked') = Len(asked) + 1
        BY <3>1, <4>1, AppendProperties
      <4> QED BY <1>0, <3>1, <3>2, <4>2, AskSteps DEF CallsInv
    <3>3. CASE Serve
      BY <1>0, <3>1, <3>3, ServeSteps DEF CallsInv
    <3>4. CASE ServeReset
      BY <1>0, <3>1, <3>4, ServeResetSteps DEF CallsInv
    <3>5. CASE Receive \/ Sweep \/ MainGoesOn \/ Around
      <4>1. UNCHANGED <<asked, popped, bpc, resets>>
        BY <1>0, <3>5, ReceiveSteps, SweepSteps, MainSteps, AroundSteps DEF dbusVars
      <4> QED BY <1>0, <4>1 DEF CallsInv
    <3> QED BY <1>1, <3>2, <3>3, <3>4, <3>5 DEF DaemonNext
  <2>5. LifeInv'
    <3>1. CASE Receive
      BY <1>0, <3>1, ReceiveSteps DEF LifeInv, mainVars, dbusVars
    <3>2. CASE Sweep
      BY <1>0, <3>2, SweepSteps DEF LifeInv, mainVars, dbusVars
    <3>3. CASE MainGoesOn \/ Around
      BY <1>0, <3>3, MainSteps, AroundSteps DEF LifeInv, broVars, dbusVars
    <3>4. CASE Ask
      BY <1>0, <3>4, AskSteps DEF LifeInv, mainVars, broVars
    <3>5. CASE Serve \/ ServeReset
      BY <1>0, <3>5, ServeSteps, ServeResetSteps DEF LifeInv, mainVars, broVars
    <3> QED BY <1>1, <3>1, <3>2, <3>3, <3>4, <3>5 DEF DaemonNext
  <2> QED BY <2>1, <2>2, <2>3, <2>4, <2>5 DEF DaemonInv, PartsInv
<1>2. CASE UNCHANGED daemonVars
  <2>1. UNCHANGED <<callbackVars, dbusVars, mainVars>>
    BY <1>2 DEF daemonVars
  <2>2. CallbackTypeOK' /\ ListInv(AnyType)' /\ MainTypeOK'
    BY <1>0, <2>1, TypeStep, AnyStep, MainTypeStep DEF callbackVars
  <2>3. BusInv'
    BY <1>0, <2>1, BusFrame DEF callbackVars, listVars
  <2>4. KillInv' /\ CallsInv' /\ LifeInv'
    BY <1>0, <2>1 DEF KillInv, CallsInv, LifeInv, callbackVars, broVars, dbusVars, mainVars
  <2> QED BY <2>2, <2>3, <2>4 DEF DaemonInv, PartsInv
<1> QED BY <1>1, <1>2

LEMMA DaemonCorrect == DaemonSpec => []DaemonInv
BY DaemonInvInit, DaemonInvStep, PTL DEF DaemonSpec

\* The daemon does to its list what Callback says: its D-Bus thread asks for no reset
\* that Callback does not bear, and main() and the bus end the process in no other
\* way.  Whatever CallbackSpec implies of the list therefore holds in the daemon.
THEOREM SweepsCorrect == DaemonSpec => SweepsAsCallback
<1>1. DaemonInit => CallbackInit
  BY DEF DaemonInit
<1>2. DaemonInv /\ [DaemonNext]_daemonVars => [CallbackNext]_callbackVars
  BY StepAsCallback DEF daemonVars
<1> QED BY <1>1, <1>2, DaemonCorrect, PTL DEF DaemonSpec, CallbackSpec, SweepsAsCallback

\* The daemon lives as Main says: main() is in run() with the thread started whenever
\* a sweep brings the process down, and a Kill has come under the bus name.
THEOREM LifeCorrect == DaemonSpec => MainSpec
<1>1. DaemonInit => MainInit
  BY DEF DaemonInit
<1>2. DaemonInv /\ [DaemonNext]_daemonVars => [MainNext]_<<proc, mainVars>>
  BY StepAsMain DEF daemonVars, callbackVars
<1> QED BY <1>1, <1>2, DaemonCorrect, PTL DEF DaemonSpec, MainSpec

\* What the clients are answered stays right next to the thread that counts: no
\* interleaving with sweeps disturbs the order, the first answers, the names or the
\* configurations.
THEOREM ServiceNextToSweeps ==
    DaemonSpec =>
      [](AnswersInOrder /\ FirstAnswerRight /\ FeaturesComplete /\ ConfigInitial)
<1>1. DaemonInv => AnswersInOrder /\ FirstAnswerRight /\ FeaturesComplete /\ ConfigInitial
  BY AnswersOK DEF DaemonInv, PartsInv
<1> QED BY <1>1, DaemonCorrect, PTL

-----------------------------------------------------------------------------
(* The counters a client is shown.                                         *)

\* A status reply answers a Status call that names a feature.
FitsStatus(c, r) ==
    r.kind = "status" => /\ c.method = "Status" /\ c.arg \in Feature
                         /\ r.value \in [n : Nat, al : Nat]

StatusInv ==
    /\ bpc = "send" => FitsStatus(Call, Head(todo))
    /\ \A i \in DOMAIN sent : FitsStatus(asked[sent[i].id], sent[i].reply)

AboutToShow == bpc = "send" /\ Head(todo).kind = "status"

\* Before any reset has overlapped a sweep the invariant of QuietSpec holds, and what
\* status() has copied or is about to send was counted since the instance was made.
VisibleInv ==
    ~raced =>
        /\ QuietInv
        /\ bpc = "status" => loaded.n <= since[Call.arg]
        /\ AboutToShow => Head(todo).value.n <= since[Call.arg]

AtMost(v, w) == v.n <= w.n /\ v.al <= w.al

\* No counter of the node of feature f is behind v.
Below(f, v) == \A k \in DOMAIN list : NameAt(k) = f => AtMost(v, mem[list[k]])

\* None of the calls from c to the last one popped resets feature f.
NoReset(f, c) == \A d \in c..popped : ~(asked[d].method = "Reset" /\ asked[d].arg = f)

\* Spot::step is about to store counters that are not behind those in memory, wherever
\* resets have moved the node meanwhile.
Growing == cpc = "store" => AtMost(mem[it], reg)

\* What status() has copied, or what is about to be shown, is not ahead of the node.
LoadedInv ==
    bpc = "status" => \A k \in DOMAIN list :
                         NameAt(k) = Call.arg => loaded.n <= mem[list[k]].n

ToShowInv == AboutToShow => Below(Call.arg, Head(todo).value)

\* The i-th reply has shown counters the feature still has.
Shown(i) ==
    sent[i].reply.kind = "status" /\ NoReset(asked[sent[i].id].arg, sent[i].id)

\* Counters v shown for feature f are not ahead of the node, nor of what is on its way.
NotAhead(f, v) ==
    /\ \A k \in DOMAIN list : mem[list[k]].name = f => AtMost(v, mem[list[k]])
    /\ bpc = "status" /\ asked[popped].arg = f => v.n <= loaded.n
    /\ AboutToShow /\ asked[popped].arg = f => AtMost(v, Head(todo).value)

ShownInv ==
    \A i \in DOMAIN sent :
        Shown(i) => NotAhead(asked[sent[i].id].arg, sent[i].reply.value)

MonotoneInv == Growing /\ LoadedInv /\ ToShowInv /\ ShownInv /\ StatusMonotone

\* Every step leaves the calls that have been popped, and pops in order.
LEMMA AskedKept ==
    ASSUME DaemonInv, [DaemonNext]_daemonVars
    PROVE  /\ popped \in Nat /\ popped' \in Nat /\ popped <= popped'
           /\ \A c \in 1..popped : asked'[c] = asked[c]
<1>1. PartsInv /\ CallsInv /\ BusInv /\ MainTypeOK
  BY DEF DaemonInv, PartsInv
<1>2. asked \in Seq(Calls) /\ popped \in 0..Len(asked) /\ Len(asked) \in Nat
      /\ popped \in Nat
  BY <1>1, LenProperties DEF BusInv, StageInv
<1>3. CASE Ask
  <2>1. PICK c \in Calls : asked' = Append(asked, c)
    BY <1>3 DEF Ask, ClientCalls
  <2>2. \A k \in 1..Len(asked) : asked'[k] = asked[k]
    BY <1>2, <2>1, AppendProperties
  <2> QED BY <1>2, <1>3, <2>2, AskSteps
<1>4. CASE Serve
  BY <1>1, <1>2, <1>4, ServeSteps
<1>5. CASE ServeReset
  BY <1>1, <1>2, <1>5, ServeResetSteps
<1>6. CASE Receive \/ Sweep \/ MainGoesOn \/ Around
  BY <1>1, <1>2, <1>6, ReceiveSteps, SweepSteps, MainSteps, AroundSteps DEF dbusVars
<1>7. CASE UNCHANGED daemonVars
  BY <1>2, <1>7 DEF daemonVars, dbusVars
<1> QED BY <1>3, <1>4, <1>5, <1>6, <1>7 DEF DaemonNext

\* What is shown, copied or about to be shown stays what it is.
Kept ==
    /\ sent' = sent
    /\ bpc' = "status" => /\ bpc = "status" /\ UNCHANGED <<loaded, popped>>
                          /\ Call' = Call
    /\ AboutToShow' => AboutToShow /\ UNCHANGED <<todo, popped>> /\ Call' = Call

\* As far as the counters go, the thread copies one, copies the other, sends, or does
\* something else.
LEMMA StatusCases ==
    ASSUME DaemonInv, DaemonNext
    PROVE  Kept \/ (Serve /\ (BeginStatus \/ ReplyStatus \/ Send))
<1>1. PartsInv /\ CallsInv /\ BusInv /\ MainTypeOK
  BY DEF DaemonInv, PartsInv
<1>2. CASE UNCHANGED dbusVars
  BY <1>2 DEF dbusVars, Kept, AboutToShow, Call
<1>3. CASE Receive \/ Sweep \/ MainGoesOn \/ Around
  BY <1>1, <1>2, <1>3, ReceiveSteps, SweepSteps, MainSteps, AroundSteps
<1>4. CASE Ask
  <2>1. UNCHANGED <<popped, bpc, loaded, todo, sent>>
    BY <1>4 DEF Ask, ClientCalls
  <2>2. bpc # "poll" => Call' = Call
    <3>1. bpc # "poll" => popped \in 1..popped
      BY <1>1 DEF BusInv, StageInv
    <3> QED BY <1>4, <2>1, <3>1, AskedKept DEF Call
  <2> QED BY <2>1, <2>2 DEF Kept, AboutToShow
<1>5. CASE Serve
  <2>1. CASE Poll \/ Ignore
    BY <2>1 DEF Poll, Ignore, Handle, Kept, AboutToShow
  <2>2. CASE SendOverflow \/ ConfigFatal
    BY <1>2, <2>2 DEF SendOverflow, ConfigFatal
  <2>3. ASSUME NEW method, NEW kind, NEW value, kind # "status",
               Handle(method, <<Reply(kind, value)>>)
        PROVE  Kept
    <3>1. /\ bpc' # "status" /\ sent' = sent /\ todo' = <<Reply(kind, value)>>
      BY <2>3, OneReply DEF Handle
    <3>2. Head(todo').kind = kind
      BY <3>1, OneReply DEF Reply
    <3> QED BY <2>3, <3>1, <3>2 DEF Kept, AboutToShow
  <2>4. CASE ReplyFeatures \/ ReplyIntrospection \/ ReplyKill
    BY <2>3, <2>4 DEF ReplyFeatures, ReplyIntrospection, ReplyKill, Info
  <2>5. CASE ReplyConfig
    BY <2>3, <2>5 DEF ReplyConfig
  <2>6. CASE RefuseStatus \/ RefuseConfig \/ RefuseReset
    <3>1. PICK method : Handle(method, Refusal)
      BY <2>6 DEF RefuseStatus, RefuseConfig, RefuseReset, Refuse
    <3>2. sent' = sent /\ todo' = Refusal /\ bpc' # "status"
      BY <3>1 DEF Handle
    <3>3. Head(todo').kind = "error"
      BY <3>2, OneReply, TwoReplies DEF Refusal, Error, Reply
    <3> QED BY <3>2, <3>3 DEF Kept, AboutToShow
  <2> QED BY <1>5, <2>1, <2>2, <2>4, <2>5, <2>6 DEF Serve, Answer
<1>6. CASE ServeReset
  <2>1. CASE BeginReset
    BY <2>1 DEF BeginReset, Kept, AboutToShow
  <2>2. CASE EraseNode
    BY <1>2, <2>2 DEF EraseNode
  <2>3. CASE EmplaceNode
    <3>1. sent' = sent /\ todo' = <<Info, Empty>> /\ bpc' = "send"
      BY <2>3 DEF EmplaceNode
    <3>2. Head(todo').kind = "info"
      BY <3>1, TwoReplies DEF Info, Reply
    <3> QED BY <3>1, <3>2 DEF Kept, AboutToShow
  <2> QED BY <1>6, <2>1, <2>2, <2>3 DEF ServeReset
<1> QED BY <1>3, <1>4, <1>5, <1>6 DEF DaemonNext

\* What status() reads is the node of the feature asked for.
LEMMA StatusReads ==
    ASSUME DaemonInv, bpc = "status" \/ (BeginStatus /\ bpc = "handle")
    PROVE  /\ Call.arg \in Feature /\ Call.method = "Status"
           /\ \E k \in DOMAIN list :
                /\ Found = mem[list[k]] /\ Found \in Node
                /\ NameAt(k) = Call.arg
<1>1. /\ PartsInv /\ BusInv /\ ListTypeOK /\ NamesInv
      /\ CallbackTypeOK /\ ListInv(AnyType)
  BY PartsList DEF DaemonInv, PartsInv
<1>2. Known(Call.arg) /\ dpc = "none" /\ Call.method = "Status"
  <2>1. CASE bpc = "status"
    <3>1. Call.arg \in Feature /\ Call.method = "Status" /\ dpc = "none"
      BY <1>1, <2>1 DEF BusInv, StageInv
    <3> QED BY <1>1, <3>1, KnownFeatures
  <2>2. CASE BeginStatus /\ bpc = "handle"
    BY <1>1, <2>2 DEF BeginStatus, KnownFeature, BusInv, StageInv
  <2> QED BY <2>1, <2>2
<1>3. Call.arg \in Feature
  BY <1>1, <1>2, KnownFeatures
<1>4. PICK k \in DOMAIN list :
           Found = mem[list[k]] /\ mem[list[k]].name = Call.arg /\ list[k] \in Addr
  BY <1>1, <1>2, FoundNode
<1>5. Found \in Node
  BY <1>1, <1>4 DEF ListTypeOK
<1> QED BY <1>2, <1>3, <1>4, <1>5 DEF NameAt

LEMMA StatusInvStep ==
    ASSUME DaemonInv, StatusInv, [DaemonNext]_daemonVars
    PROVE  StatusInv'
<1>1. /\ PartsInv /\ BusInv
      /\ \A i \in DOMAIN sent : sent[i].id \in 1..popped
      /\ bpc # "poll" => popped \in 1..popped
  BY DEF DaemonInv, PartsInv, BusInv, SentInv, StageInv
<1>2. \A c \in 1..popped : asked'[c] = asked[c]
  BY AskedKept
<1>3. sent' = sent =>
        \A i \in DOMAIN sent' : FitsStatus(asked'[sent'[i].id], sent'[i].reply)
  BY <1>1, <1>2 DEF StatusInv
<1>4. CASE Kept
  <2>1. bpc' = "send" => FitsStatus(Call', Head(todo'))
    BY <1>4 DEF Kept, AboutToShow, StatusInv, FitsStatus
  <2> QED BY <1>3, <1>4, <2>1 DEF Kept, StatusInv, FitsStatus
<1>5. CASE BeginStatus
  <2>1. sent' = sent /\ bpc' = "status"
    BY <1>5 DEF BeginStatus
  <2> QED BY <1>3, <2>1 DEF StatusInv, FitsStatus
<1>6. CASE ReplyStatus
  <2> DEFINE v == [n |-> loaded.n, al |-> Found.al]
  <2>1. /\ bpc = "status" /\ bpc' = "send" /\ UNCHANGED <<asked, popped, sent>>
        /\ todo' = <<Reply("status", v)>>
    BY <1>6 DEF ReplyStatus
  <2>2. Call.arg \in Feature /\ Call.method = "Status" /\ Found \in Node /\ Call' = Call
    BY <2>1, StatusReads DEF Call
  <2>3. loaded.n \in Nat /\ Found.al \in Nat
    BY <1>1, <2>2 DEF BusInv, StageInv, Node
  <2>4. v \in [n : Nat, al : Nat]
    BY <2>3
  <2> HIDE DEF v
  <2>5. Head(todo').value = v
    BY <2>1, OneReply DEF Reply
  <2>6. FitsStatus(Call, Head(todo'))
    BY <2>2, <2>4, <2>5 DEF FitsStatus
  <2> QED BY <1>3, <2>1, <2>2, <2>6 DEF StatusInv, FitsStatus
<1>7. CASE Send
  <2> DEFINE e == [id |-> popped, reply |-> Head(todo)]
  <2>1. /\ bpc = "send" /\ sent' = Append(sent, e) /\ todo' = Tail(todo)
        /\ bpc' = (IF todo' = << >> THEN "poll" ELSE "send")
        /\ UNCHANGED <<asked, popped>>
    BY <1>7 DEF Send
  <2>2. e.id = popped /\ e.reply = Head(todo)
    OBVIOUS
  <2> HIDE DEF e
  <2>3. /\ Len(sent) \in Nat /\ DOMAIN sent = 1..Len(sent)
        /\ DOMAIN sent' = 1..(Len(sent) + 1)
        /\ \A i \in 1..Len(sent) : sent'[i] = sent[i]
        /\ sent'[Len(sent) + 1] = e
    BY <1>1, <2>1, AppendAny DEF BusInv, SentInv
  <2>4. \A i \in DOMAIN sent' : i \in DOMAIN sent \/ i = Len(sent) + 1
    BY <2>3
  <2>5. \A i \in DOMAIN sent' : FitsStatus(asked'[sent'[i].id], sent'[i].reply)
    BY <2>1, <2>2, <2>3, <2>4 DEF StatusInv, Call
  <2>6. bpc' = "send" => Head(todo').kind # "status"
    BY <1>1, <2>1, OneReply, TwoReplies DEF BusInv, TodoInv, Empty, Reply
  <2> QED BY <2>5, <2>6 DEF StatusInv, FitsStatus
<1>8. CASE UNCHANGED daemonVars
  BY <1>8 DEF daemonVars, dbusVars, StatusInv, FitsStatus, Call
<1> QED BY <1>4, <1>5, <1>6, <1>7, <1>8, StatusCases

-----------------------------------------------------------------------------
(* A reset that has been answered is visible.                              *)

\* As long as nothing has overlapped, the steps of the two threads are quiet ones.
LEMMA StepAsQuiet ==
    ASSUME DaemonInv, DaemonNext, ~raced'
    PROVE  ~raced /\ [QuietNext]_callbackVars
<1>1. ~raced /\ ~Overlap
  BY DEF DaemonNext, Remember
<1>2. [CallbackNext]_callbackVars
  BY StepAsCallback
<1>3. records \in Nat
  BY DEF DaemonInv, PartsInv, CallbackTypeOK
<1>4. CASE RecordArrives
  <2>1. records' = records + 1
    BY <1>4 DEF RecordArrives
  <2>2. dpc = "none"
    BY <1>1, <1>3, <2>1 DEF Overlap
  <2> QED BY <1>1, <1>4, <2>2 DEF QuietNext
<1>5. CASE \E f \in Feature : CallReset(f)
  <2>1. dpc' = "erase" /\ cpc' = cpc
    BY <1>5 DEF CallReset, ResetFind, broVars
  <2>2. cpc = "idle"
    BY <1>1, <2>1 DEF Overlap
  <2> QED BY <1>1, <1>5, <2>2 DEF QuietNext
<1>6. CASE BroThread \/ Erase \/ Emplace \/ Stop \/ UNCHANGED callbackVars
  BY <1>1, <1>6 DEF QuietNext
<1> QED BY <1>2, <1>4, <1>5, <1>6 DEF CallbackNext, BusThread

\* Nothing but the end of a reset takes anything from what was fed.
LEMMA SinceGrows ==
    ASSUME DaemonInv, DaemonNext, ~ServeReset
    PROVE  \A f \in Feature : since[f] <= since'[f]
<1>1. /\ PartsInv /\ MainTypeOK /\ BusInv /\ since \in [Feature -> Nat]
      /\ cpc \in {"step", "store"} => obs \in Feature
  BY DEF DaemonInv, PartsInv, CallbackTypeOK
<1>2. CASE UNCHANGED since
  BY <1>1, <1>2
<1>3. CASE Sweep
  <2>1. CASE \E alarm \in {0, 1} : Store(alarm)
    <3>1. cpc = "store" /\ since' = [since EXCEPT ![obs] = since[obs] + 1]
      BY <2>1 DEF Store
    <3> QED BY <1>1, <3>1
  <2>2. CASE \/ Lookup \/ LookupFails \/ Check \/ CheckFails \/ Learn
             \/ Step \/ Report \/ ReportFails \/ Advance \/ Fault
    <3>1. UNCHANGED since
      BY <2>2 DEF Lookup, LookupFails, Check, CheckFails, Learn, Step, Report,
         ReportFails, Advance, Fault
    <3> QED BY <1>2, <3>1
  <2>3. BroThread
    BY <1>3 DEF Sweep
  <2> QED BY <2>1, <2>2, <2>3 DEF BroThread
<1>4. CASE Receive \/ MainGoesOn \/ Around \/ Ask \/ Serve
  BY <1>1, <1>2, <1>4, ReceiveSteps, MainSteps, AroundSteps, AskSteps, ServeSteps
<1> QED BY <1>3, <1>4 DEF DaemonNext

LEMMA VisibleStep ==
    ASSUME DaemonInv, StatusInv, VisibleInv, [DaemonNext]_daemonVars
    PROVE  VisibleInv'
<1>1. /\ PartsInv /\ BusInv /\ since \in [Feature -> Nat]
      /\ CallbackTypeOK /\ CallbackTypeOK'
      /\ bpc = "status" => Call.arg \in Feature /\ loaded.n \in Nat
      /\ AboutToShow => Call.arg \in Feature /\ Head(todo).value.n \in Nat
  <2>1. DaemonInv'
    BY DaemonInvStep
  <2>2. AboutToShow => Head(todo).value \in [n : Nat, al : Nat] /\ Call.arg \in Feature
    BY DEF StatusInv, FitsStatus, AboutToShow
  <2> QED BY <2>1, <2>2 DEF DaemonInv, PartsInv, CallbackTypeOK, BusInv, StageInv
<1>2. CASE DaemonNext /\ ~raced'
  <2>1. QuietInv' /\ QuietInv /\ ~raced
    BY <1>2, StepAsQuiet, QuietStep DEF VisibleInv
  <2>2. since' \in [Feature -> Nat]
    BY <1>1 DEF CallbackTypeOK
  <2>3. CASE Kept /\ ~ServeReset
    <3>1. \A f \in Feature : since[f] <= since'[f] /\ since[f] \in Nat /\ since'[f] \in Nat
      BY <1>1, <1>2, <2>2, <2>3, SinceGrows
    <3>2. bpc' = "status" => loaded'.n <= since'[Call'.arg]
      <4> SUFFICES ASSUME bpc' = "status" PROVE loaded'.n <= since'[Call'.arg]
        OBVIOUS
      <4>1. bpc = "status" /\ loaded' = loaded /\ Call' = Call
        BY <2>3 DEF Kept
      <4>2. loaded.n <= since[Call.arg]
        BY <2>1, <4>1 DEF VisibleInv
      <4> QED BY <1>1, <3>1, <4>1, <4>2
    <3>3. AboutToShow' => Head(todo').value.n <= since'[Call'.arg]
      <4> SUFFICES ASSUME AboutToShow' PROVE Head(todo').value.n <= since'[Call'.arg]
        OBVIOUS
      <4>1. AboutToShow /\ todo' = todo /\ Call' = Call
        BY <2>3 DEF Kept
      <4>2. Head(todo).value.n <= since[Call.arg]
        BY <2>1, <4>1 DEF VisibleInv
      <4> QED BY <1>1, <3>1, <4>1, <4>2
    <3> QED BY <2>1, <3>2, <3>3 DEF VisibleInv
  <2>4. CASE Kept /\ ServeReset
    <3>1. bpc # "status" /\ bpc # "send"
      BY <1>1, <2>4 DEF ServeReset, BeginReset, EraseNode, EmplaceNode
    <3> QED BY <2>1, <2>4, <3>1 DEF Kept, VisibleInv, AboutToShow
  <2>5. CASE Serve /\ BeginStatus
    <3>1. /\ bpc = "handle" /\ bpc' = "status" /\ loaded' = [n |-> Found.n]
          /\ UNCHANGED <<asked, popped>> /\ UNCHANGED since
      BY <2>5 DEF BeginStatus, Serve
    <3>2. PICK k \in DOMAIN list : Found = mem[list[k]] /\ NameAt(k) = Call.arg
      BY <2>5, <3>1, StatusReads
    <3>3. Found.n = since[Call.arg] /\ Call.arg \in Feature /\ Call' = Call
      BY <2>1, <2>5, <3>1, <3>2, StatusReads DEF QuietInv, CountsInv, Call
    <3> QED BY <1>1, <2>1, <3>1, <3>3 DEF VisibleInv, AboutToShow
  <2>6. CASE Serve /\ ReplyStatus
    <3>1. /\ bpc = "status" /\ bpc' = "send" /\ UNCHANGED <<asked, popped, since>>
          /\ todo' = <<Reply("status", [n |-> loaded.n, al |-> Found.al])>>
      BY <2>6 DEF ReplyStatus, Serve
    <3>2. Head(todo').value.n = loaded.n /\ Call' = Call
      BY <3>1, OneReply DEF Reply, Call
    <3>3. loaded.n <= since[Call.arg]
      BY <2>1, <3>1 DEF VisibleInv
    <3> QED BY <2>1, <3>1, <3>2, <3>3 DEF VisibleInv, AboutToShow
  <2>7. CASE Serve /\ Send
    <3>1. /\ bpc = "send" /\ todo' = Tail(todo)
          /\ bpc' = (IF todo' = << >> THEN "poll" ELSE "send")
      BY <2>7 DEF Send
    <3>2. bpc' = "send" => Head(todo').kind # "status"
      BY <1>1, <3>1, OneReply, TwoReplies DEF BusInv, TodoInv, Empty, Reply
    <3> QED BY <2>1, <3>1, <3>2 DEF VisibleInv, AboutToShow
  <2> QED BY <1>2, <2>3, <2>4, <2>5, <2>6, <2>7, StatusCases
<1>3. CASE raced'
  BY <1>3 DEF VisibleInv
<1>4. CASE UNCHANGED daemonVars
  <2>1. UNCHANGED <<callbackVars, dbusVars, raced>>
    BY <1>4 DEF daemonVars
  <2>2. ~raced => QuietInv'
    BY <2>1, QuietStep DEF VisibleInv
  <2>3. UNCHANGED <<since, bpc, loaded, todo, asked, popped>>
    BY <2>1 DEF callbackVars, dbusVars
  <2> QED BY <2>1, <2>2, <2>3 DEF VisibleInv, AboutToShow, Call
<1> QED BY <1>2, <1>3, <1>4

\* A client that asks for the status after a reset sees nothing of before, unless some
\* reset has overlapped a sweep (Dispotcher::reset, Spot::step, status()).
THEOREM VisibleCorrect == DaemonSpec => []ResetVisible
<1>1. DaemonInit => StatusInv /\ VisibleInv
  <2> SUFFICES ASSUME DaemonInit PROVE StatusInv /\ VisibleInv
    OBVIOUS
  <2>1. bpc = "poll" /\ sent = << >> /\ CallbackInit
    BY DEF DaemonInit, DbuspotcherInit
  <2>2. DOMAIN << >> = {}
    BY EmptySeq, LenProperties
  <2> QED BY <2>1, <2>2, QuietInit DEF StatusInv, VisibleInv, AboutToShow
<1>2. DaemonInv /\ StatusInv /\ VisibleInv /\ [DaemonNext]_daemonVars
        => StatusInv' /\ VisibleInv'
  BY StatusInvStep, VisibleStep
<1>3. VisibleInv => ResetVisible
  BY DEF VisibleInv, ResetVisible, AboutToShow
<1> QED BY <1>1, <1>2, <1>3, DaemonCorrect, PTL DEF DaemonSpec

-----------------------------------------------------------------------------
(* The status never goes back.                                             *)

\* A sweep never takes a counter back, even through an iterator whose node was erased.
LEMMA SweepGrows ==
    ASSUME DaemonInv, Growing, Sweep
    PROVE  \A a \in Addr : mem'[a].name = mem[a].name /\ AtMost(mem[a], mem'[a])
<1>1. /\ CallbackTypeOK /\ mem \in [Addr -> Node] /\ reg \in [n : Nat, al : Nat]
      /\ cpc = "store" => it \in Addr
  BY DEF DaemonInv, PartsInv, CallbackTypeOK, ListTypeOK
<1>2. \A a \in Addr : mem[a] \in Node /\ mem[a].n \in Nat /\ mem[a].al \in Nat
  BY <1>1 DEF Node
<1>3. CASE UNCHANGED mem
  BY <1>2, <1>3 DEF AtMost
<1>4. CASE Learn
  BY <1>1, <1>2, <1>4, LearnWrites DEF AtMost
<1>5. ASSUME NEW alarm \in {0, 1}, Store(alarm)
      PROVE  \A a \in Addr : mem'[a].name = mem[a].name /\ AtMost(mem[a], mem'[a])
  <2> DEFINE node == WithCounters(mem[it], reg.n + 1, reg.al + alarm)
  <2>1. cpc = "store" /\ it \in Addr /\ mem' = [mem EXCEPT ![it] = node]
    BY <1>1, <1>5 DEF Store
  <2>2. reg.n \in Nat /\ reg.al \in Nat /\ alarm \in Nat
    BY <1>1
  <2>3. node.name = mem[it].name /\ node.n = reg.n + 1 /\ node.al = reg.al + alarm
    <3> DEFINE n == reg.n + 1
               al == reg.al + alarm
    <3>1. n \in Nat /\ al \in Nat /\ mem[it] \in Node
      BY <1>2, <2>1, <2>2
    <3> HIDE DEF n, al
    <3>2. WithCounters(mem[it], n, al).name = mem[it].name
          /\ WithCounters(mem[it], n, al).n = n
          /\ WithCounters(mem[it], n, al).al = al
      BY <3>1, WithCountersNode
    <3> QED BY <3>2 DEF n, al
  <2> HIDE DEF node
  <2>4. AtMost(mem[it], node)
    BY <1>2, <2>1, <2>2, <2>3 DEF Growing, AtMost
  <2>5. mem'[it] = node /\ \A a \in Addr : a # it => mem'[a] = mem[a]
    BY <1>1, <2>1
  <2> QED BY <1>2, <2>3, <2>4, <2>5 DEF AtMost
<1>6. CASE \/ Lookup \/ LookupFails \/ Check \/ CheckFails \/ Step \/ Report
           \/ ReportFails \/ Advance \/ Fault
  <2>1. UNCHANGED mem
    BY <1>6 DEF Lookup, LookupFails, Check, CheckFails, Step, Report, ReportFails,
       Advance, Fault, listVars
  <2> QED BY <1>3, <2>1
<1> QED BY <1>4, <1>5, <1>6 DEF Sweep, BroThread

\* The counters of a feature grow from step to step, unless it is being reset.
LEMMA NodesGrow ==
    ASSUME DaemonInv, Growing, DaemonNext, NEW f, ~(bpc = "reset" /\ Call.arg = f)
    PROVE  \A k \in DOMAIN list' : NameAt(k)' = f =>
              \E j \in DOMAIN list :
                 NameAt(j) = f /\ AtMost(mem[list[j]], mem'[list'[k]])
<1>1. /\ PartsInv /\ CallsInv /\ BusInv /\ MainTypeOK /\ ListTypeOK /\ CallbackTypeOK
      /\ ListInv(AnyType)
  BY PartsList DEF DaemonInv, PartsInv
<1>2. \A k \in DOMAIN list : /\ list[k] \in Addr
                             /\ mem[list[k]].n \in Nat /\ mem[list[k]].al \in Nat
  BY <1>1, Positions DEF Node
<1>3. CASE UNCHANGED <<list, mem>>
  BY <1>2, <1>3 DEF NameAt, AtMost
<1>4. CASE Sweep
  BY <1>2, <1>4, SweepGrows, SweepSteps DEF NameAt
<1>5. CASE Receive \/ MainGoesOn \/ Around \/ Ask \/ Serve
  BY <1>1, <1>3, <1>5, ReceiveSteps, MainSteps, AroundSteps, AskSteps, ServeSteps
     DEF listVars
<1>6. CASE ServeReset
  <2>1. CASE BeginReset
    BY <1>3, <2>1 DEF BeginReset, ResetFind
  <2>2. CASE EraseNode
    <3>1. ResetErase /\ mem' = mem
      BY <2>2 DEF EraseNode, ResetErase
    <3> QED BY <1>1, <1>2, <3>1, ErasedNodes DEF NameAt, AtMost
  <2>3. CASE EmplaceNode
    <3>1. ResetEmplace /\ bpc = "reset"
      BY <2>3 DEF EmplaceNode
    <3>2. saved.name # f
      BY <1>1, <3>1 DEF BusInv, StageInv
    <3>3. Fresh(saved.name, saved.type, saved.conf).name # f
      BY <3>2 DEF Fresh
    <3> QED BY <1>1, <1>2, <3>1, <3>3, EmplacedNodes DEF NameAt, AtMost
  <2> QED BY <1>6, <2>1, <2>2, <2>3 DEF ServeReset
<1> QED BY <1>4, <1>5, <1>6 DEF DaemonNext

LEMMA BelowKept ==
    ASSUME DaemonInv, Growing, DaemonNext,
           NEW f, ~(bpc = "reset" /\ Call.arg = f),
           NEW v, v.n \in Nat, v.al \in Nat, Below(f, v)
    PROVE  \A k \in DOMAIN list' : NameAt(k)' = f => AtMost(v, mem'[list'[k]])
<1>1. CallbackTypeOK /\ ListInv(AnyType) /\ CallbackTypeOK' /\ ListInv(AnyType)'
  BY DaemonInvStep DEF DaemonInv, PartsInv
<1>2. \A k \in DOMAIN list : mem[list[k]].n \in Nat /\ mem[list[k]].al \in Nat
  BY <1>1, Positions DEF Node
<1>3. \A k \in DOMAIN list' : mem'[list'[k]].n \in Nat /\ mem'[list'[k]].al \in Nat
  <2>1. /\ list' \in Seq(Addr) /\ mem' \in [Addr -> Node]
    BY <1>1 DEF CallbackTypeOK, ListTypeOK
  <2>2. \A k \in DOMAIN list' : list'[k] \in Addr
    BY <2>1, LenProperties
  <2> QED BY <2>1, <2>2 DEF Node
<1> SUFFICES ASSUME NEW k \in DOMAIN list', NameAt(k)' = f
             PROVE  AtMost(v, mem'[list'[k]])
  OBVIOUS
<1>4. PICK j \in DOMAIN list : NameAt(j) = f /\ AtMost(mem[list[j]], mem'[list'[k]])
  BY NodesGrow
<1>5. AtMost(v, mem[list[j]])
  BY <1>4 DEF Below
<1> QED BY <1>2, <1>3, <1>4, <1>5 DEF AtMost

\* What Spot::step is about to store stays ahead.
LEMMA GrowingStep ==
    ASSUME DaemonInv, Growing, [DaemonNext]_daemonVars
    PROVE  Growing'
<1>1. /\ PartsInv /\ CallsInv /\ BusInv /\ MainTypeOK /\ ListTypeOK
      /\ mem \in [Addr -> Node] /\ reg \in [n : Nat, al : Nat]
      /\ cpc \in {"step", "store"} => it \in Addr
  BY PartsList DEF DaemonInv, PartsInv, CallbackTypeOK, ListTypeOK
<1>2. CASE UNCHANGED <<cpc, it, reg, mem>>
  BY <1>2 DEF Growing, AtMost
<1>3. CASE Sweep
  <2>1. CASE Step
    <3>1. cpc = "step" /\ reg' = [n |-> mem[it].n, al |-> mem[it].al]
          /\ it' = it /\ mem' = mem
      BY <2>1 DEF Step, listVars
    <3>2. mem[it].n \in Nat /\ mem[it].al \in Nat
      BY <1>1, <3>1 DEF Node
    <3> QED BY <3>1, <3>2 DEF Growing, AtMost
  <2>2. CASE \/ Lookup \/ Check \/ Learn \/ Store(0) \/ Store(1)
             \/ Report \/ Advance
    <3>1. cpc' # "store"
      BY <2>2 DEF Lookup, Check, Learn, Store, Report, Advance
    <3> QED BY <3>1 DEF Growing
  <2>3. CASE LookupFails \/ CheckFails \/ ReportFails \/ Fault
    BY <1>2, <2>3 DEF LookupFails, CheckFails, ReportFails, Fault, listVars, broVars
  <2> QED BY <1>3, <2>1, <2>2, <2>3 DEF Sweep, BroThread
<1>4. CASE Receive
  <2>1. cpc' # "store"
    BY <1>4, ReceiveSteps DEF RecordArrives
  <2> QED BY <2>1 DEF Growing
<1>5. CASE MainGoesOn \/ Around \/ Ask \/ Serve
  BY <1>1, <1>2, <1>5, MainSteps, AroundSteps, AskSteps, ServeSteps
     DEF listVars, broVars
<1>6. CASE ServeReset
  <2>1. UNCHANGED <<cpc, it, reg>>
    BY <1>6 DEF ServeReset, broVars
  <2>2. CASE BeginReset \/ EraseNode
    BY <1>2, <2>1, <2>2 DEF BeginReset, ResetFind, EraseNode, ResetErase
  <2>3. CASE EmplaceNode
    <3>1. PICK a \in Addr :
             mem' = [mem EXCEPT ![a] = Fresh(saved.name, saved.type, saved.conf)]
      BY <2>3 DEF EmplaceNode, ResetEmplace
    <3>2. /\ mem'[a].n = 0 /\ mem'[a].al = 0
          /\ \A b \in Addr : b # a => mem'[b] = mem[b]
      BY <1>1, <3>1 DEF Fresh
    <3>3. reg.n \in Nat /\ reg.al \in Nat
      BY <1>1
    <3> QED BY <1>1, <2>1, <3>2, <3>3 DEF Growing, AtMost
  <2> QED BY <1>6, <2>2, <2>3 DEF ServeReset
<1>7. CASE UNCHANGED daemonVars
  BY <1>2, <1>7 DEF daemonVars, callbackVars, listVars, broVars
<1> QED BY <1>3, <1>4, <1>5, <1>6, <1>7 DEF DaemonNext

LEMMA MonotoneStep ==
    ASSUME DaemonInv, StatusInv, MonotoneInv, [DaemonNext]_daemonVars
    PROVE  MonotoneInv'
<1>1. /\ PartsInv /\ BusInv /\ Growing /\ CallbackTypeOK /\ ListInv(AnyType)
      /\ IsSequence(sent)
      /\ \A i \in DOMAIN sent : sent[i].id \in 1..popped
  BY DEF DaemonInv, PartsInv, BusInv, SentInv, MonotoneInv
<1>2. /\ popped \in Nat /\ popped' \in Nat /\ popped <= popped'
      /\ \A c \in 1..popped : asked'[c] = asked[c]
  BY AskedKept
<1>3. Growing'
  BY <1>1, GrowingStep
<1>4. CASE UNCHANGED daemonVars
  <2>1. UNCHANGED <<list, mem, bpc, loaded, todo, sent, asked, popped>>
    BY <1>4 DEF daemonVars, callbackVars, listVars, dbusVars
  <2> QED BY <1>3, <2>1
          DEF MonotoneInv, LoadedInv, ToShowInv, ShownInv, Shown, StatusMonotone,
              NotAhead, StatusReplies, ResetBetween, Below, NoReset, AtMost, NameAt,
              AboutToShow, Call
<1> SUFFICES ASSUME DaemonNext PROVE MonotoneInv'
  BY <1>4
\* replies sent before and still shown
<1>5. ASSUME NEW i \in DOMAIN sent, sent'[i] = sent[i], Shown(i)'
      PROVE  /\ Shown(i)
             /\ Below(asked[sent[i].id].arg, sent[i].reply.value)
             /\ asked'[sent[i].id] = asked[sent[i].id]
             /\ \A k \in DOMAIN list' :
                   mem'[list'[k]].name = asked[sent[i].id].arg
                     => AtMost(sent[i].reply.value, mem'[list'[k]])
             /\ sent[i].reply.value.n \in Nat /\ sent[i].reply.value.al \in Nat
  <2> DEFINE f == asked[sent[i].id].arg
             v == sent[i].reply.value
  <2>1. sent[i].id \in 1..popped /\ asked'[sent[i].id] = asked[sent[i].id]
    BY <1>1, <1>2
  <2>2. \A d \in sent[i].id..popped : d \in 1..popped /\ d \in sent[i].id..popped'
    BY <1>2, <2>1
  <2>3. Shown(i)
    BY <1>2, <1>5, <2>1, <2>2 DEF Shown, NoReset
  <2>4. Below(f, v)
    BY <2>3 DEF MonotoneInv, ShownInv, NotAhead, Below, NameAt
  <2>5. v \in [n : Nat, al : Nat]
    BY <2>3 DEF StatusInv, FitsStatus, Shown
  <2>6. ~(bpc = "reset" /\ Call.arg = f)
    <3>1. popped \in sent[i].id..popped
      BY <1>2, <2>1
    <3> QED BY <1>1, <2>3, <3>1 DEF Shown, NoReset, BusInv, StageInv, Call
  <2>7. v.n \in Nat /\ v.al \in Nat
    BY <2>5
  <2> HIDE DEF f, v
  <2>8. \A k \in DOMAIN list' : NameAt(k)' = f => AtMost(v, mem'[list'[k]])
    BY <1>1, <2>4, <2>6, <2>7, BelowKept
  <2>9. \A k \in DOMAIN list' : mem'[list'[k]].name = f => AtMost(v, mem'[list'[k]])
    BY <2>8 DEF NameAt
  <2> QED BY <2>1, <2>3, <2>4, <2>7, <2>9 DEF f, v
<1>6. sent' = sent => StatusMonotone'
  <2> SUFFICES ASSUME sent' = sent, NEW f \in Feature,
                      NEW i \in DOMAIN sent, NEW j \in DOMAIN sent,
                      sent[i].reply.kind = "status", asked'[sent[i].id].arg = f,
                      sent[j].reply.kind = "status", asked'[sent[j].id].arg = f,
                      i < j, ~ResetBetween(i, j)'
               PROVE  AtMost(sent[i].reply.value, sent[j].reply.value)
    BY DEF StatusMonotone, StatusReplies, AtMost
  <2>1. sent[i].id \in 1..popped /\ sent[j].id \in 1..popped
    BY <1>1
  <2>2. \A d \in sent[i].id..sent[j].id : d \in 1..popped
    BY <1>2, <2>1
  <2>3. ~ResetBetween(i, j)
    BY <1>2, <2>1, <2>2 DEF ResetBetween
  <2>4. asked[sent[i].id].arg = f /\ asked[sent[j].id].arg = f
    BY <1>2, <2>1
  <2> QED BY <2>3, <2>4 DEF MonotoneInv, StatusMonotone, StatusReplies, AtMost
<1>7. \A k \in DOMAIN list : mem[list[k]].n \in Nat /\ mem[list[k]].al \in Nat
  BY <1>1, Positions DEF Node
<1>8. CASE Kept
  <2>1. sent' = sent
    BY <1>8 DEF Kept
  <2>2. LoadedInv'
    <3> SUFFICES ASSUME bpc' = "status", NEW k \in DOMAIN list', NameAt(k)' = Call'.arg
                 PROVE  loaded'.n <= mem'[list'[k]].n
      BY DEF LoadedInv, NameAt
    <3>1. bpc = "status" /\ loaded' = loaded /\ Call' = Call
      BY <1>8 DEF Kept
    <3>2. PICK j \in DOMAIN list :
             NameAt(j) = Call.arg /\ AtMost(mem[list[j]], mem'[list'[k]])
      BY <1>1, <3>1, NodesGrow
    <3>3. loaded.n <= mem[list[j]].n
      BY <3>1, <3>2 DEF MonotoneInv, LoadedInv
    <3>4. mem'[list'[k]].n \in Nat
      <4>1. CallbackTypeOK'
        BY DaemonInvStep DEF DaemonInv, PartsInv
      <4>2. list'[k] \in Addr /\ mem' \in [Addr -> Node]
        BY <4>1, LenProperties DEF CallbackTypeOK, ListTypeOK
      <4> QED BY <4>2 DEF Node
    <3>5. loaded.n \in Nat
      BY <1>1 DEF BusInv, StageInv
    <3> QED BY <1>7, <3>1, <3>2, <3>3, <3>4, <3>5 DEF AtMost
  <2>3. ToShowInv'
    <3> SUFFICES ASSUME AboutToShow'
                 PROVE  Below(Call.arg, Head(todo).value)'
      BY DEF ToShowInv
    <3>1. AboutToShow /\ todo' = todo /\ Call' = Call
      BY <1>8 DEF Kept
    <3> DEFINE v == Head(todo).value
    <3>2. v.n \in Nat /\ v.al \in Nat
      BY <3>1 DEF StatusInv, FitsStatus, AboutToShow
    <3>3. Below(Call.arg, v) /\ bpc # "reset"
      BY <3>1 DEF MonotoneInv, ToShowInv, AboutToShow
    <3> HIDE DEF v
    <3>4. \A k \in DOMAIN list' : NameAt(k)' = Call.arg => AtMost(v, mem'[list'[k]])
      BY <1>1, <3>2, <3>3, BelowKept
    <3> QED BY <3>1, <3>4 DEF Below, NameAt, AtMost, v
  <2>4. ShownInv'
    <3> SUFFICES ASSUME NEW i \in DOMAIN sent, Shown(i)'
                 PROVE  NotAhead(asked[sent[i].id].arg, sent[i].reply.value)'
      BY <2>1 DEF ShownInv
    <3>1. Shown(i) /\ sent'[i] = sent[i]
      BY <1>5, <2>1
    <3>2. asked'[sent[i].id] = asked[sent[i].id]
      BY <1>5, <3>1
    <3>3. \A k \in DOMAIN list' : mem'[list'[k]].name = asked[sent[i].id].arg
             => AtMost(sent[i].reply.value, mem'[list'[k]])
      BY <1>5, <3>1
    <3>4. bpc' = "status" => bpc = "status" /\ loaded' = loaded /\ Call' = Call
      BY <1>8 DEF Kept
    <3>5. AboutToShow' => AboutToShow /\ todo' = todo /\ Call' = Call
      BY <1>8 DEF Kept
    <3>6. NotAhead(asked[sent[i].id].arg, sent[i].reply.value)
      BY <3>1 DEF MonotoneInv, ShownInv
    <3> QED BY <3>1, <3>2, <3>3, <3>4, <3>5, <3>6 DEF NotAhead, AtMost, Call
  <2> QED BY <1>3, <1>6, <2>1, <2>2, <2>3, <2>4 DEF MonotoneInv
<1>9. CASE Serve /\ BeginStatus
  <2>1. /\ bpc = "handle" /\ bpc' = "status" /\ loaded' = [n |-> Found.n]
        /\ UNCHANGED <<asked, popped, sent, list, mem>>
    BY <1>9 DEF BeginStatus, listVars
  <2>2. PICK k \in DOMAIN list : Found = mem[list[k]] /\ NameAt(k) = Call.arg
    BY <1>9, <2>1, StatusReads
  <2>3. /\ loaded'.n = mem[list[k]].n /\ Call' = Call
        /\ \A j \in DOMAIN list : NameAt(j) = Call.arg => j = k
    BY <1>1, <2>1, <2>2, Positions DEF Call
  <2>4. LoadedInv'
    BY <1>7, <2>1, <2>2, <2>3 DEF LoadedInv, NameAt
  <2>5. ToShowInv'
    BY <2>1 DEF ToShowInv, AboutToShow
  <2>6. ShownInv'
    <3> SUFFICES ASSUME NEW i \in DOMAIN sent, Shown(i)'
                 PROVE  NotAhead(asked[sent[i].id].arg, sent[i].reply.value)'
      BY <2>1 DEF ShownInv
    <3>1. /\ asked'[sent[i].id] = asked[sent[i].id] /\ sent'[i] = sent[i]
          /\ Below(asked[sent[i].id].arg, sent[i].reply.value)
          /\ \A j \in DOMAIN list' : mem'[list'[j]].name = asked[sent[i].id].arg
                => AtMost(sent[i].reply.value, mem'[list'[j]])
      BY <1>5, <2>1
    <3>2. Call.arg = asked[sent[i].id].arg => sent[i].reply.value.n <= loaded'.n
      BY <2>2, <2>3, <3>1 DEF Below, AtMost
    <3> QED BY <2>1, <3>1, <3>2 DEF NotAhead, AboutToShow, AtMost, Call
  <2> QED BY <1>3, <1>6, <2>1, <2>4, <2>5, <2>6 DEF MonotoneInv
<1>10. CASE Serve /\ ReplyStatus
  <2>1. /\ bpc = "status" /\ bpc' = "send" /\ UNCHANGED <<asked, popped, sent, list, mem>>
        /\ todo' = <<Reply("status", [n |-> loaded.n, al |-> Found.al])>>
    BY <1>10 DEF ReplyStatus, listVars
  <2>2. Head(todo').value.n = loaded.n /\ Head(todo').value.al = Found.al /\ Call' = Call
    BY <2>1, OneReply DEF Reply, Call
  <2>3. PICK k \in DOMAIN list : Found = mem[list[k]] /\ NameAt(k) = Call.arg
    BY <2>1, StatusReads
  <2>4. \A j \in DOMAIN list : NameAt(j) = Call.arg => j = k
    BY <1>1, <2>3, Positions
  <2>5. LoadedInv'
    BY <2>1 DEF LoadedInv
  <2>6. loaded.n <= mem[list[k]].n
    BY <2>1, <2>3 DEF MonotoneInv, LoadedInv
  <2>7. ToShowInv'
    BY <1>7, <2>1, <2>2, <2>3, <2>4, <2>6 DEF ToShowInv, Below, NameAt, AtMost
  <2>8. ShownInv'
    <3> SUFFICES ASSUME NEW i \in DOMAIN sent, Shown(i)'
                 PROVE  NotAhead(asked[sent[i].id].arg, sent[i].reply.value)'
      BY <2>1 DEF ShownInv
    <3>1. /\ asked'[sent[i].id] = asked[sent[i].id] /\ sent'[i] = sent[i]
          /\ Shown(i) /\ Below(asked[sent[i].id].arg, sent[i].reply.value)
          /\ \A j \in DOMAIN list' : mem'[list'[j]].name = asked[sent[i].id].arg
                => AtMost(sent[i].reply.value, mem'[list'[j]])
      BY <1>5, <2>1
    <3>2. Call.arg = asked[sent[i].id].arg => sent[i].reply.value.n <= loaded.n
      BY <2>1, <3>1 DEF MonotoneInv, ShownInv, NotAhead, Call
    <3>3. Call.arg = asked[sent[i].id].arg
            => AtMost(sent[i].reply.value, Head(todo').value)
      BY <2>2, <2>3, <3>1, <3>2 DEF Below, AtMost
    <3> QED BY <2>1, <3>1, <3>3 DEF NotAhead, AtMost, Call
  <2> QED BY <1>3, <1>6, <2>1, <2>5, <2>7, <2>8 DEF MonotoneInv
<1>11. CASE Serve /\ Send
  <2> DEFINE e == [id |-> popped, reply |-> Head(todo)]
             last == Len(sent) + 1
  <2>1. /\ bpc = "send" /\ sent' = Append(sent, e) /\ todo' = Tail(todo)
        /\ bpc' = (IF todo' = << >> THEN "poll" ELSE "send")
        /\ UNCHANGED <<asked, popped, list, mem>>
    BY <1>11 DEF Send, listVars
  <2>2. e.id = popped /\ e.reply = Head(todo)
    OBVIOUS
  <2> HIDE DEF e
  <2>3. /\ Len(sent) \in Nat /\ DOMAIN sent = 1..Len(sent)
        /\ DOMAIN sent' = 1..last
        /\ \A i \in DOMAIN sent : sent'[i] = sent[i]
        /\ sent'[last] = e
    BY <1>1, <2>1, AppendAny
  <2>4. \A i \in DOMAIN sent' : i \in DOMAIN sent \/ i = last
    BY <2>3
  <2>5. ~AboutToShow' /\ bpc' # "status"
    BY <1>1, <2>1, OneReply, TwoReplies DEF BusInv, TodoInv, Empty, Reply, AboutToShow
  <2>6. ShownInv'
    <3> SUFFICES ASSUME NEW i \in DOMAIN sent', Shown(i)'
                 PROVE  \A k \in DOMAIN list :
                           mem[list[k]].name = asked[sent'[i].id].arg
                             => AtMost(sent'[i].reply.value, mem[list[k]])
      BY <2>1, <2>5 DEF ShownInv, NotAhead, AtMost
    <3>1. CASE i \in DOMAIN sent
      <4>1. sent'[i] = sent[i]
        BY <2>3, <3>1
      <4>2. Below(asked[sent[i].id].arg, sent[i].reply.value)
        BY <1>5, <3>1, <4>1
      <4> QED BY <4>1, <4>2 DEF Below, NameAt
    <3>2. CASE i = last
      <4>1. AboutToShow /\ sent'[i].id = popped /\ sent'[i].reply = Head(todo)
        BY <2>1, <2>2, <2>3, <3>2 DEF Shown, AboutToShow
      <4>2. Below(Call.arg, Head(todo).value)
        BY <4>1 DEF MonotoneInv, ToShowInv
      <4> QED BY <4>1, <4>2 DEF Below, NameAt, Call
    <3> QED BY <2>4, <3>1, <3>2
  <2>7. StatusMonotone'
    <3> SUFFICES ASSUME NEW f \in Feature, NEW i \in DOMAIN sent', NEW j \in DOMAIN sent',
                        sent'[i].reply.kind = "status", asked[sent'[i].id].arg = f,
                        sent'[j].reply.kind = "status", asked[sent'[j].id].arg = f,
                        i < j, ~ResetBetween(i, j)'
                 PROVE  AtMost(sent'[i].reply.value, sent'[j].reply.value)
      BY <2>1 DEF StatusMonotone, StatusReplies, AtMost
    <3>1. i \in DOMAIN sent /\ sent'[i] = sent[i]
      BY <2>3
    <3>2. CASE j \in DOMAIN sent
      <4>1. sent'[j] = sent[j] /\ ~ResetBetween(i, j)
        BY <2>1, <2>3, <3>1, <3>2 DEF ResetBetween
      <4> QED BY <3>1, <3>2, <4>1 DEF MonotoneInv, StatusMonotone, StatusReplies, AtMost
    <3>3. CASE j = last
      <4>1. /\ sent'[j].id = popped /\ sent'[j].reply = Head(todo)
            /\ AboutToShow /\ Call.arg = f
        BY <2>1, <2>2, <2>3, <3>3 DEF AboutToShow, Call
      <4>2. Shown(i)
        BY <2>1, <3>1, <4>1 DEF Shown, NoReset, ResetBetween
      <4>3. AtMost(sent[i].reply.value, Head(todo).value)
        BY <3>1, <4>1, <4>2 DEF MonotoneInv, ShownInv, NotAhead, Call
      <4> QED BY <3>1, <4>1, <4>3
    <3> QED BY <2>4, <3>2, <3>3
  <2> QED BY <1>3, <2>5, <2>6, <2>7 DEF MonotoneInv, LoadedInv, ToShowInv
<1> QED BY <1>8, <1>9, <1>10, <1>11, StatusCases

\* Neither sweeps nor resets of other features, however they interleave with status()
\* and with each other, ever take a counter back that a client has been shown.
THEOREM MonotoneCorrect == DaemonSpec => []StatusMonotone
<1>1. DaemonInit => StatusInv /\ MonotoneInv
  <2> SUFFICES ASSUME DaemonInit PROVE StatusInv /\ MonotoneInv
    OBVIOUS
  <2>1. bpc = "poll" /\ sent = << >> /\ cpc = "idle"
    BY DEF DaemonInit, CallbackInit, DbuspotcherInit
  <2>2. DOMAIN << >> = {}
    BY EmptySeq, LenProperties
  <2> QED BY <2>1, <2>2 DEF StatusInv, MonotoneInv, Growing, LoadedInv, ToShowInv,
             ShownInv, StatusMonotone, StatusReplies, AboutToShow
<1>2. DaemonInv /\ StatusInv /\ MonotoneInv /\ [DaemonNext]_daemonVars
        => StatusInv' /\ MonotoneInv'
  BY StatusInvStep, MonotoneStep
<1>3. MonotoneInv => StatusMonotone
  BY DEF MonotoneInv
<1> QED BY <1>1, <1>2, <1>3, DaemonCorrect, PTL DEF DaemonSpec
=============================================================================
