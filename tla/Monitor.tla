------------------------------- MODULE Monitor -------------------------------
(***************************************************************************)
(* What callback() and Dispotcher::reset together promise, with no list,   *)
(* no iterator and no second thread: a record names the features that have *)
(* a value to learn from, each of their instances counts that value once,  *)
(* in any order, and a reset makes one instance forget, between records.   *)
(***************************************************************************)
EXTENDS Integers

CONSTANT Feature

VARIABLES seen,     \* observations each instance counts
          pending,  \* features the record at hand has still to be fed to
          up        \* is the daemon there?

monitorVars == <<seen, pending, up>>

MonitorInit ==
    /\ seen = [f \in Feature |-> 0]
    /\ pending = {}
    /\ up = TRUE

Record(S) ==
    /\ up /\ pending = {} /\ S # {}
    /\ pending' = S
    /\ UNCHANGED <<seen, up>>

Observe(f) ==
    /\ up /\ f \in pending
    /\ pending' = pending \ {f}
    /\ seen' = [seen EXCEPT ![f] = @ + 1]
    /\ UNCHANGED up

Forget(f) ==
    /\ up /\ pending = {}
    /\ seen' = [seen EXCEPT ![f] = 0]
    /\ UNCHANGED <<pending, up>>

\* The process ends; what was pending stays undone.
Stop ==
    /\ up /\ up' = FALSE
    /\ UNCHANGED <<seen, pending>>

Observing == \E f \in Feature : Observe(f)

MonitorNext ==
    \/ \E S \in SUBSET Feature : Record(S)
    \/ Observing
    \/ \E f \in Feature : Forget(f)
    \/ Stop

MonitorSafety == MonitorInit /\ [][MonitorNext]_monitorVars

\* A record that has arrived is worked off as long as the daemon lives.
MonitorSpec == MonitorSafety /\ WF_monitorVars(Observing)
=============================================================================
