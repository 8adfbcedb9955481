SPECIFICATION FairColaSpec
CONSTANTS
  NoValue = NoValue  Refused = Refused
  Comma = comma
  Name <- MCName
  ArgType = {"STRING", "IVECTOR"}
  Delim = {comma, colon}
  Default <- MCDefault
  DefaultText <- MCDefaultText
  Argvs <- MCArgvs
  Casts <- MCCasts
  Split <- MCSplit
  MaxOptions = 2
  MaxNames = 2
CHECK_DEADLOCK FALSE
INVARIANTS ColaTypeOK LookupLeadsHome ValuesGiven RestIsRest
PROPERTIES ErrorsJustified ParseReturns
