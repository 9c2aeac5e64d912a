SPECIFICATION FairAlarmSpec
CONSTANTS
  as1 = as1
  Addr = {1, 2}
  Asn = {as1}
  Stack = {}
  Input <- PassiveRows
  BatchLimit = 1
  PageLimit = {2}
  WriteLimit = 5
  PageOverhead = 3
  AbortOverhead = 0
  NoHost = NoHost
  NoGeneration = NoGeneration
  Life = 2
  DayLength = 2
  AlarmPages = 2
  NoAlarm = NoAlarm
INVARIANTS
  AlarmInv
  AlarmSet
PROPERTIES
  ExpiryServed
  FiguresRefresh
