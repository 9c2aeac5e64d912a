SPECIFICATION Spec
CONSTANTS
  Login = {u1, u2}
  Email = {a, b}
  Host = {h1}
  Admin = {p1, p2}
  Session = {s1, s2}
  Ttl = 1
  Budgets <- Alternatives
  NoRow = NoRow
  NoCall = NoCall
  NoLogin = NoLogin
  NoCache = NoCache
SYMMETRY Symmetry
INVARIANTS
  AccessInv
  AccessAsDecided
  RevokedStaysOut
  ExcludedHidden
  DeletedHidden
CHECK_DEADLOCK FALSE
