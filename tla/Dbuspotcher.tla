----------------------------- MODULE Dbuspotcher -----------------------------
(***************************************************************************)
(* class Dbuspotcher: the thread that answers method calls on D-Bus.  It   *)
(* pops one call after the other, looks the feature up in the Dispotcher,  *)
(* resets it if that is what the call asks, and sends what the handler     *)
(* prepared.  The handlers of Status, Config and Reset make an empty reply *)
(* before they look the feature up, and send it last whatever else they    *)
(* have sent.                                                              *)
(***************************************************************************)
EXTENDS Dispotcher, Wire

CONSTANTS Unknown,          \* a name that is no feature
          Malformed,        \* no argument, or one that is not a string
          FieldsOf,         \* the fields of each configuration
          SendFails,        \* may dbus_connection_send run out of memory?
          MaxCalls          \* bound on the calls of the clients

ASSUME DbuspotcherAssumption ==
    /\ Unknown \notin Feature \cup {NoFeature}
    /\ Malformed \notin Feature \cup {NoFeature, Unknown}
    /\ FieldsOf \in [Conf -> ConfigFields]
    /\ SendFails \in BOOLEAN /\ MaxCalls \in Nat

\* "Other" is a method, or an interface, the daemon does not have.
PlainMethods == {"Features", "Introspect", "Kill", "Other"}
SpotMethods == {"Status", "Config", "Reset"}

Calls ==
    [method : PlainMethods, arg : {Malformed}]
      \cup [method : SpotMethods, arg : Feature \cup {Unknown, Malformed}]

VARIABLES asked,  \* history: the calls of the clients, in the order of the bus
          popped, \* how many of them listen() has taken from its queue
          bpc,    \* "poll", "handle", "status", "reset" or "send"
          loaded, \* the part of a SpotStatus status() has copied
          todo,   \* replies the handler still has to send
          sent,   \* replies on the bus: [id, kind, value]
          library \* which libdbus the program runs with

dbusVars == <<asked, popped, bpc, loaded, todo, sent, library>>

-----------------------------------------------------------------------------
(* Replies.  An error is a method return like any other, whose only         *)
(* argument is a string that starts with "[ERROR]".                        *)

Reply(kind, value) == [kind |-> kind, value |-> value]
Info == Reply("info", << >>)
Error == Reply("error", << >>)
Empty == Reply("empty", << >>)

Call == asked[popped]

\* The node the linear search for the argument stops at.  Only this thread
\* erases nodes, so it stays in the list as long as the handler needs it.
Found == mem[list[CHOOSE i \in DOMAIN list : FoundAt(Call.arg, i)]]

KnownFeature == Call.arg # Malformed /\ Known(Call.arg)

\* Status, Config and Reset: one error for a call without a name, an error and
\* the empty reply for a name the Dispotcher does not know.
Refusal == IF Call.arg = Malformed THEN <<Error>> ELSE <<Error, Empty>>

\* What Spot::status has copied while it is not running.
Nothing == [n |-> 0]

-----------------------------------------------------------------------------
DbuspotcherInit ==
    /\ asked = << >> /\ popped = 0
    /\ bpc = "poll" /\ loaded = Nothing /\ todo = << >> /\ sent = << >>
    /\ library \in Libraries

\* A client's call reaches the queue of the connection.
ClientCalls ==
    /\ Running /\ Len(asked) < MaxCalls
    /\ \E c \in Calls : asked' = Append(asked, c)
    /\ UNCHANGED <<popped, bpc, loaded, todo, sent, listVars, proc, library>>

\* Mutant: listen() drops a call that follows another one at once.
PollDrops ==
    /\ Running /\ bpc = "poll" /\ popped < Len(asked)
    /\ popped' = Len(asked)
    /\ bpc' = "handle"
    /\ UNCHANGED <<asked, loaded, todo, sent, listVars, proc, library>>

\* Mutant: the last message of the queue is left there.
PollLeavesLast ==
    /\ Running /\ bpc = "poll" /\ popped + 1 < Len(asked)
    /\ popped' = popped + 1
    /\ bpc' = "handle"
    /\ UNCHANGED <<asked, loaded, todo, sent, listVars, proc, library>>

\* dbus_connection_pop_message; while there is none, listen() sleeps.
Poll ==
    /\ Running /\ bpc = "poll" /\ popped < Len(asked)
    /\ popped' = popped + 1
    /\ bpc' = "handle"
    /\ UNCHANGED <<asked, loaded, todo, sent, listVars, proc, library>>

Handle(method, replies) ==
    /\ Running /\ bpc = "handle" /\ Call.method = method
    /\ todo' = replies
    /\ bpc' = IF replies = << >> THEN "poll" ELSE "send"
    /\ UNCHANGED <<asked, popped, loaded, sent, library>>

ReplyFeatures == Handle("Features", <<Reply("features", Names)>>)
                 /\ UNCHANGED <<listVars, proc>>

Refuse(method) ==
    /\ bpc = "handle" /\ ~KnownFeature
    /\ Handle(method, Refusal)
    /\ UNCHANGED <<listVars, proc>>

RefuseStatus == Refuse("Status")

\* Status of a feature: Spot::status copies the counters one after the other.
BeginStatus ==
    /\ Running /\ bpc = "handle" /\ Call.method = "Status" /\ KnownFeature
    /\ loaded' = [n |-> Found.n]
    /\ bpc' = "status"
    /\ UNCHANGED <<asked, popped, todo, sent, listVars, proc, library>>

ReplyStatus ==
    /\ Running /\ bpc = "status"
    /\ todo' = <<Reply("status", [n |-> loaded.n, al |-> Found.al])>>
    /\ loaded' = Nothing
    /\ bpc' = "send"
    /\ UNCHANGED <<asked, popped, sent, listVars, proc, library>>

RefuseConfig == Refuse("Config")

\* Mutant: Config is answered with the status.
ReplyConfigStatus ==
    /\ bpc = "handle" /\ KnownFeature
    /\ Handle("Config", <<Reply("status", [n |-> Found.n, al |-> Found.al])>>)
    /\ UNCHANGED <<listVars, proc>>

\* Config of a feature, for any content of the padding.
ReplyConfig ==
    /\ bpc = "handle" /\ KnownFeature
    /\ \E pad \in [PadBytes -> Paddings] :
         LET fields == FieldsOf[Found.conf]
         IN  /\ Survives(fields, pad, library)
             /\ Handle("Config", <<Reply("config", AppendConfig(fields, pad, library))>>)
    /\ UNCHANGED <<listVars, proc>>

\* The library ends the process at a flag it cannot take.
ConfigFatal ==
    /\ bpc = "handle" /\ Call.method = "Config" /\ KnownFeature
    /\ \E pad \in [PadBytes -> Paddings] :
         ~Survives(FieldsOf[Found.conf], pad, library)
    /\ Abort
    /\ UNCHANGED <<listVars, dbusVars>>

ReplyIntrospection ==
    /\ Handle("Introspect", <<Reply("xml", << >>)>>)
    /\ UNCHANGED <<listVars, proc>>

\* Mutant: Kill ends the process without a word.
ReplyKillSilently ==
    /\ Running /\ bpc = "handle" /\ Call.method = "Kill"
    /\ Exit
    /\ UNCHANGED <<listVars, dbusVars>>

\* Kill: the acknowledgement is sent before exit(0).
ReplyKill == Handle("Kill", <<Info>>) /\ UNCHANGED <<listVars, proc>>

\* No method of the daemon: the message is freed, nothing is sent.
Ignore == Handle("Other", << >>) /\ UNCHANGED <<listVars, proc>>

RefuseReset == Refuse("Reset")

\* Reset of a feature: Dispotcher::reset, then the message and the empty reply.
BeginReset ==
    /\ Running /\ bpc = "handle" /\ Call.method = "Reset"
    /\ ResetFind(Call.arg)
    /\ bpc' = "reset"
    /\ UNCHANGED <<asked, popped, loaded, todo, sent, proc, library>>

\* Mutant: the handler forgets to append the fresh node.
EraseNodeOnly ==
    /\ Running /\ bpc = "reset" /\ dpc = "erase"
    /\ \E i \in DOMAIN list : list[i] = target /\ list' = RemoveAt(list, i)
    /\ dpc' = "none" /\ target' = End /\ saved' = NoCopy
    /\ todo' = <<Info, Empty>> /\ bpc' = "send"
    /\ UNCHANGED <<mem, asked, popped, loaded, sent, proc, library>>

EraseNode ==
    /\ bpc = "reset" /\ ResetErase
    /\ UNCHANGED <<dbusVars, proc>>

EmplaceNode ==
    /\ bpc = "reset" /\ ResetEmplace
    /\ todo' = <<Info, Empty>>
    /\ bpc' = "send"
    /\ UNCHANGED <<asked, popped, loaded, sent, proc, library>>

\* Mutant: a handler that has sent its replies does not return to the loop.
SendStays ==
    /\ Running /\ bpc = "send" /\ todo # << >>
    /\ sent' = Append(sent, [id |-> popped, reply |-> Head(todo)])
    /\ todo' = Tail(todo)
    /\ IF todo' = << >> /\ Call.method = "Kill" THEN Exit ELSE UNCHANGED proc
    /\ UNCHANGED <<asked, popped, bpc, loaded, listVars, library>>

\* Mutant: Kill leaves the loop of listen() instead of calling exit().
SendKillReturns ==
    /\ Running /\ bpc = "send"
    /\ sent' = Append(sent, [id |-> popped, reply |-> Head(todo)])
    /\ todo' = Tail(todo)
    /\ bpc' = IF todo' = << >> THEN "poll" ELSE "send"
    /\ UNCHANGED <<proc, asked, popped, loaded, listVars, library>>

\* _send_flush_unref; after the last reply the message is freed, and a Kill
\* ends the process.
Send ==
    /\ Running /\ bpc = "send"
    /\ sent' = Append(sent, [id |-> popped, reply |-> Head(todo)])
    /\ todo' = Tail(todo)
    /\ bpc' = IF todo' = << >> THEN "poll" ELSE "send"
    /\ IF todo' = << >> /\ Call.method = "Kill" THEN Exit ELSE UNCHANGED proc
    /\ UNCHANGED <<asked, popped, loaded, listVars, library>>

\* The send fails: the exception leaves the thread function.
SendOverflow ==
    /\ SendFails /\ bpc = "send"
    /\ Abort
    /\ UNCHANGED <<dbusVars, listVars>>

Answer ==
    \/ ReplyFeatures \/ RefuseStatus \/ BeginStatus \/ ReplyStatus
    \/ RefuseConfig \/ ReplyConfig \/ ConfigFatal \/ ReplyIntrospection
    \/ ReplyKill \/ Ignore \/ RefuseReset

Listen == Poll \/ Answer \/ BeginReset \/ EraseNode \/ EmplaceNode \/ Send \/ SendOverflow

DbusInit == DispotcherInit /\ DbuspotcherInit

DbusNext == ClientCalls \/ Listen

DbusSpec == DbusInit /\ [][DbusNext]_<<proc, listVars, dbusVars>>

\* The thread is scheduled while it has something to do; clients owe nothing.
FairDbusSpec == DbusSpec /\ WF_<<proc, listVars, dbusVars>>(Listen)

-----------------------------------------------------------------------------
(* Properties.                                                             *)

\* Types of the thread's variables, and what goes with each of its stages.
DbusTypeOK ==
    /\ proc \in ProcStates /\ ListTypeOK
    /\ library \in Libraries
    /\ asked \in Seq(Calls) /\ popped \in 0..Len(asked)
    /\ bpc \in {"poll", "handle", "status", "reset", "send"}
    /\ loaded \in [n : Nat] /\ (bpc # "status" => loaded = Nothing)
    /\ bpc = "reset" <=> dpc # "none"
    /\ bpc = "send" <=> todo # << >>
    /\ bpc # "poll" => popped > 0
    /\ \A i \in DOMAIN sent : sent[i].id \in 1..popped

Answered(c) == \E i \in DOMAIN sent : sent[i].id = c

\* Calls are answered one after the other in the order they came, and no call
\* of one of the daemon's methods is passed over (the loop of listen()).
AnswersInOrder ==
    /\ \A i, j \in DOMAIN sent : i <= j => sent[i].id <= sent[j].id
    /\ \A c \in 1..popped :
         \/ Answered(c)
         \/ asked[c].method = "Other"
         \/ c = popped /\ bpc # "poll"

First(c) == CHOOSE i \in DOMAIN sent :
                /\ sent[i].id = c
                /\ \A j \in DOMAIN sent : sent[j].id = c => i <= j

\* What the first answer to a call has to be.
Expected(c) ==
    IF c.method \in SpotMethods /\ c.arg \notin Feature
    THEN "error"
    ELSE CASE c.method = "Features" -> "features"
           [] c.method = "Introspect" -> "xml"
           [] c.method = "Kill" -> "info"
           [] c.method = "Status" -> "status"
           [] c.method = "Config" -> "config"
           [] c.method = "Reset" -> "info"

\* The first answer a client gets to its call is the right one: an error
\* exactly if the call names no feature of the ini file, resets before it or
\* not (the handlers' argument checks and the searches they rest on).
FirstAnswerRight ==
    \A c \in 1..popped :
        Answered(c) => sent[First(c)].reply.kind = Expected(asked[c])

\* Every answer to Features names every monitored feature exactly once, in
\* whatever order earlier resets have left them (README "Get all the monitored
\* features").
FeaturesComplete ==
    \A i \in DOMAIN sent :
        LET r == sent[i].reply
        IN  r.kind = "features" => /\ Range(r.value) = Feature
                                   /\ IsInjective(r.value)

\* The configuration of the call the i-th reply answers.
Asked(i) == FieldsOf[ConfOf[asked[sent[i].id].arg]]

\* Does field a come before field b in append_spot_config?
Before(a, b) == \E k, l \in DOMAIN Fields : k < l /\ Fields[k] = a /\ Fields[l] = b

\* Every answer to Config, even after resets, has the numbers the ini file gives
\* the feature, each argument in its place, tells no flag as off that is on, and,
\* from a libdbus that checks, no flag wrong at all (Dispotcher.h "Get the initial
\* config", append_spot_config).
ConfigInitial ==
    \A i \in DOMAIN sent :
        sent[i].reply.kind = "config" =>
            LET value == sent[i].reply.value
                Right(a) == a.value = Asked(i)[a.field]
            IN  /\ \A field \in Number : \E k \in DOMAIN value : value[k].field = field
                /\ \A k, l \in DOMAIN value :
                      k < l => Before(value[k].field, value[l].field)
                /\ \A k \in DOMAIN value :
                     \/ Right(value[k])
                     \/ value[k].field \in Flag /\ value[k].value /\ library = "sends"

\* The process ends only with a Kill the client has been told of, and answers
\* nothing after it (listen(): reply, then exit).
KillAcknowledged ==
    /\ proc = "exited" => /\ sent # << >>
                          /\ asked[sent[Len(sent)].id].method = "Kill"
    /\ \A i \in DOMAIN sent :
          asked[sent[i].id].method = "Kill" => proc = "exited" /\ i = Len(sent)

\* A call that has reached the connection is answered or ignored, or the
\* process ends (the loop of listen(), every branch of it).
EveryCallHandled ==
    \A c \in 1..MaxCalls :
        Len(asked) >= c ~>
            \/ ~Running
            \/ popped > c
            \/ popped = c /\ bpc = "poll"

\* Dbuspotcher.h of the status method: "It returns (through DBUS) the status of
\* the SPOT monitoring a given feature"; what is no status is an error.
StatusReturnsStatus ==
    \A i \in DOMAIN sent :
        asked[sent[i].id].method = "Status"
          => sent[i].reply.kind \in {"status", "error"}

\* Dbuspotcher.h of the config method: "The returned information are the following:
\* q, bounded, max_excess, alert, up, down, n_init, level".  The client gets all of
\* them, and each as it is.
ConfigReturnsConfig ==
    \A i \in DOMAIN sent :
        sent[i].reply.kind = "config" =>
            LET value == sent[i].reply.value
            IN  /\ [k \in DOMAIN value |-> value[k].field] = Fields
                /\ \A k \in DOMAIN value : value[k].value = Asked(i)[value[k].field]
=============================================================================
