SPECIFICATION FairDaemonSpec
CONSTANTS
  f1 = f1  a1 = a1  a2 = a2
  quick = quick  RawConf = quick
  count = count  UnknownType = UnknownType
  NoFeature = NoFeature  Unknown = Unknown  Malformed = Malformed
  End = End  Garbage = Garbage
  Feature <- MCFeature
  Addr <- MCAddr
  Conf <- MCConf
  BroType <- MCBroType
  SectionOrder <- MCSectionOrder
  Heap <- MCHeap
  ConfOf <- MCConfOf
  TypeOf <- MCTypeOf
  FieldType <- MCFieldType
  NInit <- MCNInit
  Records <- MCRecords
  FieldsOf <- MCFieldsOf
  Paddings = {0}
  Libraries = {"sends"}
  EventAllocFails = FALSE
  OthersAbort = FALSE
  SendFails = FALSE
  Faults = {}
  MaxRecords = 2
  MaxCalls = 2
  MaxResets = 2
CHECK_DEADLOCK FALSE
INVARIANTS ResetVisible StatusMonotone
PROPERTIES SweepsAsCallback KillObeyed
