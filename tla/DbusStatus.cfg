SPECIFICATION FairDbusSpec
CONSTANTS
  f1 = f1  f2 = f2
  a1 = a1  a2 = a2  a3 = a3
  slow = slow  quick = quick  RawConf = RawConf
  count = count  UnknownType = UnknownType
  NoFeature = NoFeature  Unknown = Unknown  Malformed = Malformed
  End = End  Garbage = Garbage
  Feature <- MCFeature
  Addr <- MCAddr
  Conf <- MCConf
  BroType <- MCBroType
  SectionOrder <- MCSectionOrder
  Heap <- MCHeap
  ConfOf <- MCConfOf
  TypeOf <- MCTypeOf
  FieldsOf <- MCFieldsOf
  Paddings = {0, 170}
  Libraries = {"sends", "refuses", "fatal"}
  SendFails = TRUE
  MaxCalls = 2
CHECK_DEADLOCK FALSE
INVARIANT StatusReturnsStatus
