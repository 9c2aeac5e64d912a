SPECIFICATION Spec
CONSTANTS
  a1 = a1
  net1 = net1
  net2 = net2
  Addr = {a1}
  Asn = {as1, as2}
  UnknownAsn = UnknownAsn
  Block <- SingleAddresses
  LeaseId = {l1}
  Cooldown = 3
  PermitTtl = 1
  Net = {net1}
  NetOf <- OneNet
  NominationId = {n1}
  HostedCallers = {}
  CanaryTargets = {}
  LegacyTimes = {}
  ProvenanceMaxAge = 1
  AttemptRetention = 3
  RateRetention = 3
  Limit <- SmallLimits
  Window <- Windows
  MaxTime = 1
PROPERTY DiscoveryPausedByAsnRule
