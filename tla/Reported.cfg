SPECIFICATION QuietSpec
CONSTANTS
  f1 = f1  f2 = f2  f3 = f3
  a1 = a1  a2 = a2  a3 = a3  a4 = a4
  slow = slow  quick = quick
  count = count  double = double
  UnknownType = UnknownType  NoFeature = NoFeature
  End = End  Garbage = Garbage
  Feature <- MCFeature
  Addr <- MCAddr
  Conf <- MCConf
  RawConf = slow
  BroType <- MCBroType
  SectionOrder <- MCSectionOrder
  Heap <- MCHeap
  ConfOf <- MCConfOf
  TypeOf <- MCTypeOf
  FieldType <- MCFieldType
  NInit <- MCNInit
  Records <- MCComplete
  EventAllocFails = FALSE
  OthersAbort = FALSE
  MaxRecords = 3
  MaxResets = 1
CHECK_DEADLOCK FALSE
INVARIANT AnomaliesReported
