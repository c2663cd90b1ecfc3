SPECIFICATION FairSpec
CONSTANTS
  MaxReqs = 3
  MaxStars = 2
  Failures = {"put", "del", "get"}
  None = None
INVARIANTS
  StarsAreSynced
  ConflictHadRival
PROPERTIES
  ClicksEnd
CHECK_DEADLOCK FALSE
