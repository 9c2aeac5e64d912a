SPECIFICATION Spec
CONSTANTS
  as1 = as1
  as2 = as2
  stack1 = stack1
  Addr = {1, 2}
  Asn = {as1, as2}
  Stack = {stack1}
  Input <- Observations
  BatchLimit = 2
  PageLimit = {1, 2}
  WriteLimit = 5
  PageOverhead = 1
  AbortOverhead = 1
  NoHost = NoHost
  NoGeneration = NoGeneration
INVARIANTS
  AggregatesInv
  NoUnderflow
PROPERTY
  PublicationClean
