SPECIFICATION Spec
CONSTANTS
  a1 = a1
  a2 = a2
  Addr = {a1}
  Asn = {as1}
  UnknownAsn = UnknownAsn
  Block <- FirstAddress
  Request = {q1, q2}
  ResumeLimit = 2
  NoRule = NoRule
INVARIANT PendingForAReason
