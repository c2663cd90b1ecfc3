SPECIFICATION FairWSpec
CONSTANTS
  Words = {"red"}
  Spellings = {"as", "AS"}
  OldLists = {l1}
  Wines = {w1}
  MaxReqs = 2
  None = None
  MaxThreads = 2
  MaxPool = 2
INVARIANTS
  WTypeOK
  FailureHadRival
PROPERTIES
  ClashHadCause
  KeepsShelf
  EndsOrStalls
  RefusalHasCause
CHECK_DEADLOCK FALSE
