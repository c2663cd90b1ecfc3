SPECIFICATION FairSpec
CONSTANTS
  Users = {adm, bob}
  Admin = adm
  Reqs = {r1, r2}
  Sids = {s1}
  Passwords = {p1}
  None = None
  Outdated = {"old"}
  EarlyResponse = FALSE
  MaxVersion = 2
  MaxBoots = 1
PROPERTIES
  RequestsEnd
CHECK_DEADLOCK FALSE
