------------------------------ MODULE BroSpotd ------------------------------
(***************************************************************************)
(* The daemon: main() of Main, whose run() hands Bro's records to the      *)
(* callback() of Callback, and the listen() of Dbuspotcher in the thread   *)
(* main() starts, on one Dispotcher and in one process.                    *)
(***************************************************************************)
EXTENDS Callback, Dbuspotcher, Main

\* Callback bears every reset a client can ask for, and every way main() and the
\* D-Bus thread have to end the process abnormally.
ASSUME BroSpotdAssumption ==
    /\ MaxCalls <= MaxResets
    /\ SendFails \/ "fatal" \in Libraries \/ Faults # {} => OthersAbort

VARIABLE raced  \* history: has a reset overlapped a sweep?

daemonVars == <<callbackVars, dbusVars, mainVars, raced>>

DaemonInit == CallbackInit /\ DbuspotcherInit /\ MainInit /\ raced = FALSE

-----------------------------------------------------------------------------
\* run() hands a record to callback() while the link is up.
Receive ==
    /\ mpc = "run" /\ link
    /\ RecordArrives
    /\ UNCHANGED <<dbusVars, mainVars>>

\* callback() goes on to its end even if the link is lost meanwhile.
Sweep == BroThread /\ UNCHANGED <<dbusVars, mainVars>>

\* The other steps of main().
MainGoesOn ==
    /\ MainThread
    /\ mpc = "run" => cpc = "idle"
    /\ UNCHANGED <<listVars, broVars, resets, served, since, dbusVars>>

\* Bro, the bus and the user.
Around ==
    /\ PeerUp \/ PeerDown \/ NameReleased \/ BusLost \/ BusLossExits \/ Signal
    /\ UNCHANGED <<listVars, broVars, resets, served, since, dbusVars>>

\* Clients reach the daemon under the bus name.
Ask ==
    /\ bus = "up" /\ name = "owned"
    /\ ClientCalls
    /\ UNCHANGED <<broVars, resets, served, since, mainVars>>

\* listen(), in the thread main() has started.
Serve ==
    /\ listening
    /\ \/ Poll \/ Answer \/ Send \/ SendOverflow
    /\ UNCHANGED <<broVars, resets, served, since, mainVars>>

ServeReset ==
    /\ listening
    /\ \/ BeginReset /\ resets' = resets + 1 /\ UNCHANGED since
       \/ EraseNode /\ UNCHANGED <<resets, since>>
       \/ EmplaceNode /\ since' = [since EXCEPT ![saved.name] = 0] /\ UNCHANGED resets
    /\ UNCHANGED <<broVars, served, mainVars>>

\* Has this step let a reset and a sweep overlap?
Overlap ==
    \/ cpc' # "idle" /\ dpc' # "none"
    \/ records' # records /\ dpc # "none"

Remember == raced' = (raced \/ Overlap)

DaemonNext ==
    /\ \/ Receive \/ Sweep \/ MainGoesOn \/ Around
       \/ Ask \/ Serve \/ ServeReset
    /\ Remember

DaemonSpec == DaemonInit /\ [][DaemonNext]_daemonVars

\* Both threads are scheduled; Bro, the bus and its clients owe nothing.
FairDaemonSpec ==
    /\ DaemonSpec
    /\ WF_daemonVars((Sweep \/ MainGoesOn) /\ Remember)
    /\ WF_daemonVars((Serve \/ ServeReset) /\ Remember)

-----------------------------------------------------------------------------
(* Properties.                                                             *)

\* A client that has been told of a reset and asks for the status sees no
\* observation of before, unless a reset has overlapped a sweep: the n in a Status
\* reply about to be sent counts only values fed since the instance was made,
\* over both threads.
ResetVisible ==
    ~raced /\ bpc = "send" /\ Head(todo).kind = "status"
      => Head(todo).value.n <= since[Call.arg]

StatusReplies(f) ==
    {i \in DOMAIN sent : sent[i].reply.kind = "status" /\ asked[sent[i].id].arg = f}

ResetBetween(i, j) ==
    \E c \in sent[i].id..sent[j].id :
        asked[c].method = "Reset" /\ asked[c].arg = asked[sent[i].id].arg

\* A client that polls the status never sees a counter go back unless it has reset
\* the feature in between, although status() copies the counters one by one while
\* Spot::step stores them (Dbuspotcher.h "number of seen observations", "total
\* number of up alarms").
StatusMonotone ==
    \A f \in Feature : \A i, j \in StatusReplies(f) :
        i < j /\ ~ResetBetween(i, j)
          => /\ sent[i].reply.value.n <= sent[j].reply.value.n
             /\ sent[i].reply.value.al <= sent[j].reply.value.al

\* The daemon's threads do to the list what Callback says, and nothing else.
SweepsAsCallback == CallbackSpec

\* README "Kill the program".  A Kill that has been sent to the bus name ends the
\* process, whether main() is in a sweep, waits in join() without Bro, or has not
\* even started the thread that answers.
KillObeyed ==
    (\E c \in DOMAIN asked : asked[c].method = "Kill") ~> ~Running
=============================================================================
