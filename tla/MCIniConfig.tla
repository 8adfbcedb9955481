---------------------------- MODULE MCIniConfig ----------------------------
(* An instance of IniConfig for TLC: one option of each kind. *)
EXTENDS IniConfig

\* -1, the value iniparser is told to return for a missing entry, among them.
MCNumbers == {-1, 3}

MCNumeric == {"n_init"}
MCSwitch == {"bounded"}

MCBuiltIn == [o \in Option |-> IF o \in Switch THEN TRUE ELSE 1000]
=============================================================================
