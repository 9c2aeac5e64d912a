SPECIFICATION FairMigrationSpec
CONSTANTS
  Addr = {1, 2}
  as1 = as1
  Asn = {as1}
  UnknownAsn = UnknownAsn
  Block <- LastAddress
  AttemptPurpose = {0}
  PageLimit = {1, 2}
  Caller = {m1, m2}
  Discovery = 0
  KvPageSize = 1
  Worlds <- MCWorlds
  Endless = Endless
  NoRecord = NoRecord
  NoCall = NoCall
INVARIANTS
  ReceiptSound
  PurgeInv
  MigrationInv
  CarriedOver
  CompletedClean
PROPERTY
  PurgeFinishes
CHECK_DEADLOCK FALSE
