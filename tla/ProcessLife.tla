---- MODULE ProcessLife ----
(***************************************************************************)
(* The life of the bro-spotd process.  Its two threads (the Bro thread,    *)
(* that is main, and the D-Bus thread) live and die together: exit() from  *)
(* a signal handler or from the Kill method ends both, and so does an      *)
(* exception nobody catches (std::terminate) or a memory fault.  Nothing   *)
(* is persisted, so no action leads back to "running".                     *)
(***************************************************************************)
VARIABLE proc

ProcStates == {"running", "exited", "aborted"}

Running == proc = "running"

\* exit(code), from the signal handlers or from the Kill method.
Exit == Running /\ proc' = "exited"

\* An exception that leaves main or the thread function, or a memory fault.
Abort == Running /\ proc' = "aborted"
====
