SPECIFICATION HandlerSpec
CONSTANTS
  a1 = a1
  net1 = net1
  Addr = {a1}
  Asn = {as1}
  UnknownAsn = UnknownAsn
  Block = {}
  LeaseId = {l1, l2}
  Cooldown = 1
  PermitTtl = 1
  Net = {net1}
  NetOf <- OneNet
  NominationId = {n1}
  HostedCallers = {a1}
  CanaryTargets = {a1}
  LegacyTimes = {}
  ProvenanceMaxAge = 1
  AttemptRetention = 1
  RateRetention = 1
  Limit <- TwoHosted
  Window <- OneUnit
  MaxTime = 1
  Handler = {h1, h2}
  Service = {s1, s2}
  RequestAsn = {as1}
  NotStarted = NotStarted
  NoLease = NoLease
SYMMETRY Symmetry
INVARIANTS
  HandlerInv
  TrafficAccounted
  ExposureStored
PROPERTY RetiredOnEvidence
