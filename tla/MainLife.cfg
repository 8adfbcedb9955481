SPECIFICATION FairMainSpec
CONSTANT Faults = {"arguments", "config", "broccoli", "bus"}
CHECK_DEADLOCK FALSE
INVARIANT MainTypeOK
PROPERTIES LossIsFinal ConnectsEventually ServesWithoutBro
