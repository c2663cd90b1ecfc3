SPECIFICATION FairSpec
CONSTANTS
  Clients = {c1, c2}
  Requests <- AllRequests
  Exempt <- MCExempt
  Rules <- MCRules
  SweepEvery = 2
  None = None
INVARIANTS
  SurgeIsBounded
  RefusalIsEarned
  StaleIsSwept
PROPERTIES
  RetriesAreServed
CHECK_DEADLOCK FALSE
