SPECIFICATION Spec
CONSTANTS
  Users = {adm}
  Admin = adm
  Reqs = {r1, r2}
  Sids = {s1, s2}
  Passwords = {p1, p2}
  None = None
  Outdated = {"old", "env"}
  EarlyResponse = TRUE
  MaxVersion = 3
  MaxBoots = 2
SYMMETRY Symmetry
INVARIANTS
  TypeOK
  RevokedForGood
  SessionKnowsPassword
PROPERTIES
  KeepsPromise
CHECK_DEADLOCK FALSE
