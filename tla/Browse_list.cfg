SPECIFICATION FairSpec
CONSTANTS
  NumWines = 2
  Stocked = 1
  Kinds = {red, white}
  All = all
  PageSize = 1
  MaxLimit = 2
  MaxShown = 2
  None = None
INVARIANTS
  ListIsCurrent
  MoreIsOffered
PROPERTIES
  LoadingEnds
CHECK_DEADLOCK FALSE
