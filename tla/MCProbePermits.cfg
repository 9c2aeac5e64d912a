SPECIFICATION Spec
CONSTANTS
  a1 = a1
  net1 = net1
  net2 = net2
  Addr = {a1, a2}
  Asn = {as1}
  UnknownAsn = UnknownAsn
  Block <- FirstAddress
  LeaseId = {l1, l2, l3}
  Cooldown = 3
  PermitTtl = 1
  Net = {net1, net2}
  NetOf <- NetPerAddress
  NominationId = {n1, n2}
  HostedCallers = {a1}
  CanaryTargets = {a1}
  LegacyTimes = {0}
  ProvenanceMaxAge = 1
  AttemptRetention = 3
  RateRetention = 3
  Limit <- SmallLimits
  Window <- Windows
  MaxTime = 4
SYMMETRY Symmetry
CONSTRAINT Worlds
INVARIANTS
  TypeOK
  RateCeiling
  HostedOverlap
  IInv
  EmissionSpacing
PROPERTY GovernedSpec
