-------------------------------- MODULE Main --------------------------------
(***************************************************************************)
(* The life of main(): arguments, config file, Broccoli handle, the loop   *)
(* that waits for Bro, the bus name, the D-Bus thread, then Broccoli's     *)
(* input until the link to Bro is gone, then join().  Around it: Bro comes *)
(* and goes, another process may hold the bus name, a signal or a Kill     *)
(* ends the process at any time.                                           *)
(*                                                                         *)
(* listen() leaves its loop through exit() alone, so join() never returns  *)
(* and has no action here.                                                 *)
(***************************************************************************)
EXTENDS ProcessLife

CONSTANT Faults   \* what may go wrong: a subset of StartupFaults

\* An argument cola rejects, a config file that does not load, a NULL handle
\* from Broccoli, no session bus or an error from it.
StartupFaults == {"arguments", "config", "broccoli", "bus"}

ASSUME MainAssumption == Faults \subseteq StartupFaults

VARIABLES mpc,        \* "arguments", "config", "broccoli", "connect", "bus",
                      \* "thread", "run" or "join"
          peer,       \* is Bro there to connect to?
          link,       \* bro_conn_alive
          listening,  \* has the D-Bus thread been started?
          name,       \* the bus name: "none", "owned" or "queued"
          taken,      \* does another process own the bus name?
          bus         \* the connection to the session bus: "none", "up", "lost"

mainVars == <<mpc, peer, link, listening, name, taken, bus>>

-----------------------------------------------------------------------------
MainInit ==
    /\ proc = "running" /\ mpc = "arguments"
    /\ peer \in BOOLEAN /\ link = FALSE
    /\ listening = FALSE
    /\ name = "none" /\ taken \in BOOLEAN /\ bus = "none"

\* A stage of main() that succeeds, or throws.
Stage(from, to) ==
    /\ Running /\ mpc = from
    /\ mpc' = to
    /\ UNCHANGED <<proc, peer, link, listening>>

Fails(stage) ==
    /\ mpc = stage /\ stage \in Faults
    /\ Abort
    /\ UNCHANGED mainVars

ParseArguments == Stage("arguments", "config") /\ UNCHANGED <<name, taken, bus>>

LoadConfig == Stage("config", "broccoli") /\ UNCHANGED <<name, taken, bus>>

\* BroConnection(ip, port) and add_event.
NewConnection == Stage("broccoli", "connect") /\ UNCHANGED <<name, taken, bus>>

IsConnected == link

\* Mutant: the loop waits for the link without calling bro_conn_connect.
TryConnectIdle ==
    /\ Running /\ mpc = "connect" /\ ~IsConnected
    /\ UNCHANGED <<proc, mainVars>>

\* connect(true): try again until is_connected().
TryConnect ==
    /\ Running /\ mpc = "connect" /\ ~IsConnected
    /\ link' = peer
    /\ UNCHANGED <<proc, mpc, peer, listening, name, taken, bus>>

Connected ==
    /\ IsConnected
    /\ Stage("connect", "bus") /\ UNCHANGED <<name, taken, bus>>

\* Mutant: no name is requested.
OpenBusUnnamed ==
    /\ Stage("bus", "thread")
    /\ bus' = "up"
    /\ UNCHANGED <<name, taken>>

\* Dbuspotcher(dsp): whether the name was granted or only queued for makes no
\* difference to the constructor.
OpenBus ==
    /\ Stage("bus", "thread")
    /\ bus' = "up"
    /\ name' = IF taken THEN "queued" ELSE "owned"
    /\ UNCHANGED taken

StartListening ==
    /\ Running /\ mpc = "thread"
    /\ listening' = TRUE /\ mpc' = "run"
    /\ UNCHANGED <<proc, peer, link, name, taken, bus>>

\* Mutant: run() asks Broccoli to reconnect instead of returning.
RunReconnects ==
    /\ Running /\ mpc = "run" /\ ~IsConnected
    /\ link' = peer
    /\ UNCHANGED <<proc, mpc, peer, listening, name, taken, bus>>

\* run() returns when the link is gone; main() waits for the D-Bus thread.
RunEnds ==
    /\ ~IsConnected
    /\ Stage("run", "join") /\ UNCHANGED <<name, taken, bus>>

MainThread ==
    \/ ParseArguments \/ LoadConfig \/ NewConnection \/ TryConnect \/ Connected
    \/ OpenBus \/ StartListening \/ RunEnds
    \/ \E stage \in StartupFaults : Fails(stage)

-----------------------------------------------------------------------------
(* The surroundings.                                                       *)

PeerUp ==
    /\ Running /\ ~peer /\ peer' = TRUE
    /\ UNCHANGED <<proc, mpc, link, listening, name, taken, bus>>

\* Bro goes away, and the link with it.
PeerDown ==
    /\ Running /\ peer /\ peer' = FALSE
    /\ link' = FALSE
    /\ UNCHANGED <<proc, mpc, listening, name, taken, bus>>

\* The other process gives the name up, and the bus passes it on.
NameReleased ==
    /\ Running /\ taken /\ taken' = FALSE
    /\ name' = IF name = "queued" THEN "owned" ELSE name
    /\ UNCHANGED <<proc, mpc, peer, link, listening, bus>>

\* The session bus goes away.
BusLost ==
    /\ Running /\ bus = "up" /\ bus' = "lost"
    /\ UNCHANGED <<proc, mpc, peer, link, listening, name, taken>>

\* listen() asks a connection for calls that is lost: libdbus ends the process,
\* as it does by default for a connection from dbus_bus_get().
BusLossExits == listening /\ bus = "lost" /\ Exit /\ UNCHANGED mainVars

\* SIGTERM, SIGHUP or SIGINT: the handler calls exit().
Signal == Exit /\ UNCHANGED mainVars

\* A Kill that came in under the bus name is answered.
Kill == listening /\ name = "owned" /\ Exit /\ UNCHANGED mainVars

\* callback() throws in run(), or a handler of listen() does in its thread.
ThreadThrows == listening /\ Abort /\ UNCHANGED mainVars

MainNext ==
    \/ MainThread
    \/ PeerUp \/ PeerDown \/ NameReleased \/ BusLost
    \/ BusLossExits \/ Signal \/ Kill \/ ThreadThrows

MainSpec == MainInit /\ [][MainNext]_<<proc, mainVars>>

\* main() is scheduled; Bro, the other process and the user owe nothing.
FairMainSpec == MainSpec /\ WF_<<proc, mainVars>>(MainThread)

-----------------------------------------------------------------------------
(* Properties.                                                             *)

Stages == {"arguments", "config", "broccoli", "connect", "bus", "thread", "run", "join"}

\* Types of the variables, and what follows from the stage main() has reached.
MainTypeOK ==
    /\ proc \in ProcStates /\ mpc \in Stages
    /\ {peer, link, listening, taken} \subseteq BOOLEAN
    /\ name \in {"none", "owned", "queued"}
    /\ (listening = TRUE) <=> mpc \in {"run", "join"}
    /\ bus \in {"none", "up", "lost"} /\ (bus = "none" <=> name = "none")
    /\ (name # "none") <=> mpc \in {"thread", "run", "join"}

Monitoring == Running /\ mpc = "run" /\ link

\* Once main() is past the loop of connect(), a lost link stays lost, although
\* Bro may come back: run() returns, nobody calls connect() again and the flags
\* of the connection ask for no reconnection.
LossIsFinal ==
    [][~link /\ mpc \in {"bus", "thread", "run", "join"} => ~Monitoring']_<<proc, mainVars>>

\* The loop of connect(true) outlasts every absence of Bro: if Bro comes and
\* stays, main() gets past it (BroConnection.h "try until connection is
\* established") or the process has ended.
ConnectsEventually ==
    <>[]peer => <>(mpc \in {"bus", "thread", "run", "join"} \/ ~Running)

\* A daemon that has lost Bro before or while monitoring still answers on the
\* bus, unless something ends it: main() gets to join() with the thread running.
ServesWithoutBro ==
    (mpc = "run" /\ ~link) ~> (~Running \/ (mpc = "join" /\ listening))
=============================================================================
