SPECIFICATION IniSpec
CONSTANTS
  Default = default  Absent = Absent 
  Section = {default, f1, f2}
  Numeric <- MCNumeric
  Switch <- MCSwitch
  Numbers <- MCNumbers
  BuiltIn <- MCBuiltIn
  BuiltInType = 5
CHECK_DEADLOCK FALSE
INVARIANTS EverySectionMonitored OptionsLayered
