----------------------------- MODULE MainProofs -----------------------------
(***************************************************************************)
(* Proofs about Main, for any set of things that may go wrong at start.    *)
(***************************************************************************)
EXTENDS Main, TLAPS

LEMMA MainTypeInit == MainInit => MainTypeOK
BY DEF MainInit, MainTypeOK, ProcStates, Stages

\* What main() has reached, the thread, the name and the bus go together.
LEMMA MainTypeStep ==
    MainTypeOK /\ [MainNext]_<<proc, mainVars>> => MainTypeOK'
<1> SUFFICES ASSUME MainTypeOK, [MainNext]_<<proc, mainVars>> PROVE MainTypeOK'
  OBVIOUS
<1> USE DEF MainTypeOK, ProcStates, Stages
<1>1. CASE ParseArguments \/ LoadConfig \/ NewConnection
  BY <1>1 DEF ParseArguments, LoadConfig, NewConnection, Stage
<1>2. CASE TryConnect
  BY <1>2 DEF TryConnect
<1>3. CASE Connected
  BY <1>3 DEF Connected, Stage
<1>4. CASE OpenBus
  BY <1>4 DEF OpenBus, Stage
<1>5. CASE StartListening
  BY <1>5 DEF StartListening
<1>6. CASE RunEnds
  BY <1>6 DEF RunEnds, Stage
<1>7. CASE \E stage \in StartupFaults : Fails(stage)
  BY <1>7 DEF Fails, Abort, mainVars
<1>8. CASE PeerUp \/ PeerDown
  BY <1>8 DEF PeerUp, PeerDown
<1>9. CASE NameReleased
  BY <1>9 DEF NameReleased
<1>10. CASE BusLost
  BY <1>10 DEF BusLost
<1>11. CASE BusLossExits \/ Signal \/ Kill
  BY <1>11 DEF BusLossExits, Signal, Kill, Exit, mainVars
<1>12. CASE ThreadThrows
  BY <1>12 DEF ThreadThrows, Abort, mainVars
<1>13. CASE UNCHANGED <<proc, mainVars>>
  BY <1>13 DEF mainVars
<1> QED
  BY <1>1, <1>2, <1>3, <1>4, <1>5, <1>6, <1>7, <1>8, <1>9, <1>10, <1>11, <1>12, <1>13
  DEF MainNext, MainThread

\* The thread that answers, the bus name and the connection to the bus are there
\* exactly from their stage of main() on.
THEOREM MainTypeCorrect == MainSpec => []MainTypeOK
<1>1. MainTypeOK /\ [MainNext]_<<proc, mainVars>> => MainTypeOK'
  BY MainTypeStep
<1> QED BY <1>1, MainTypeInit, PTL DEF MainSpec

\* Without a link, past connect(), no step of anyone brings the link back.
LEMMA LossStep ==
    ASSUME MainTypeOK, [MainNext]_<<proc, mainVars>>,
           ~link, mpc \in {"bus", "thread", "run", "join"}
    PROVE  ~Monitoring'
<1> SUFFICES ASSUME link' = TRUE PROVE FALSE
  BY DEF Monitoring
<1>1. CASE TryConnect
  BY <1>1 DEF TryConnect
<1>2. CASE PeerDown
  BY <1>2 DEF PeerDown
<1>3. CASE UNCHANGED link
  BY <1>3
<1> QED
  BY <1>1, <1>2, <1>3
  DEF MainNext, MainThread, ParseArguments, LoadConfig, NewConnection, Connected, OpenBus,
      RunEnds, Stage, StartListening, Fails, PeerUp, NameReleased, BusLost, BusLossExits,
      Signal, Kill, ThreadThrows, mainVars

\* Once past connect(true), a daemon that has lost Bro never monitors again (run(),
\* join()).
THEOREM LossCorrect == MainSpec => LossIsFinal
<1>1. MainTypeOK /\ [MainNext]_<<proc, mainVars>>
        => [~link /\ mpc \in {"bus", "thread", "run", "join"}
              => ~Monitoring']_<<proc, mainVars>>
  BY LossStep
<1> QED BY <1>1, MainTypeCorrect, PTL DEF MainSpec, LossIsFinal
=============================================================================
