SPECIFICATION Spec
CONSTANTS
  Bottles = {b1}
  MaxShots = 2
  MaxCards = 2
  MaxWines = 2
  Readings = {{}, {"wine_type"}, {"name", "other"}, {"name", "wine_type"}}
  Typed = Typed
  Other = Other
  None = None
INVARIANTS
  FrontLabelIsPhoto
  PhotoUsedOnce
PROPERTIES
  FrontDataIsKept
CHECK_DEADLOCK FALSE
