----------------------------- MODULE MCBroSpotd -----------------------------
(* Instances of BroSpotd for TLC. *)
EXTENDS BroSpotd

CONSTANTS f1, a1, a2, quick, count

MCFeature == {f1}
MCAddr == {a1, a2}
MCSectionOrder == <<f1>>
MCHeap == <<a1>>

MCConf == {quick}
MCBroType == {UnknownType, count}
MCConfOf == [f \in Feature |-> quick]
MCTypeOf == [f \in Feature |-> count]
MCFieldType == [f \in Feature |-> count]
MCNInit == [c \in Conf |-> 0]
MCRecords == {[f \in Feature |-> "positive"]}
MCFieldsOf ==
    [c \in Conf |-> [q |-> 1, bounded |-> TRUE, max_excess |-> 1, alert |-> TRUE,
                     up |-> TRUE, down |-> FALSE, n_init |-> 1, level |-> 1]]
=============================================================================
