---------------------------- MODULE MCDbuspotcher ----------------------------
(* Instances of Dbuspotcher for TLC. *)
EXTENDS Dbuspotcher

CONSTANTS f1, f2, a1, a2, a3, slow, quick, count

MCFeature == {f1, f2}
MCAddr == {a1, a2, a3}
MCConf == {slow, quick, RawConf}
MCBroType == {UnknownType, count}
MCSectionOrder == <<f1, f2>>
MCHeap == <<a1, a2>>
MCConfOf == [f \in Feature |-> IF f = f2 THEN quick ELSE slow]
MCTypeOf == [f \in Feature |-> count]

\* The built-in profile, and one that watches for low values only.
MCFieldsOf ==
    [c \in Conf |->
       IF c = quick
       THEN [q |-> 1, bounded |-> FALSE, max_excess |-> 2, alert |-> TRUE,
             up |-> FALSE, down |-> TRUE, n_init |-> 512, level |-> 3]
       ELSE [q |-> 4, bounded |-> TRUE, max_excess |-> 5, alert |-> TRUE,
             up |-> TRUE, down |-> FALSE, n_init |-> 1000, level |-> 6]]
=============================================================================
