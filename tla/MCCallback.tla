----------------------------- MODULE MCCallback -----------------------------
(* Instances of Callback for TLC. *)
EXTENDS Callback

CONSTANTS f1, f2, f3, a1, a2, a3, a4, slow, quick, count, double

MCFeature == {f1, f2, f3}
MCAddr == {a1, a2, a3, a4}
MCConf == {slow, quick}
MCBroType == {UnknownType, count, double}
MCSectionOrder == <<f1, f2, f3>>
MCHeap == <<a1, a2, a3>>

\* f2 is calibrated after one observation, f3's type is left to Bro.
MCConfOf == [f \in Feature |-> IF f = f2 THEN quick ELSE slow]
MCTypeOf == [f \in Feature |-> IF f = f1 THEN count
                               ELSE IF f = f2 THEN double ELSE UnknownType]
MCFieldType == [f \in Feature |-> IF f = f1 THEN count ELSE double]
MCNInit == [c \in Conf |-> IF c = quick THEN 1 ELSE 2]

AllPositive == [f \in Feature |-> "positive"]

\* Complete records: every field is present.
MCComplete == {AllPositive, [AllPositive EXCEPT ![f2] = "nonpositive"]}

\* Bro leaves out an &optional field.
MCOptional == MCComplete \cup {[AllPositive EXCEPT ![f1] = "absent"]}
=============================================================================
