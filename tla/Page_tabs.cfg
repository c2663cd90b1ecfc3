SPECIFICATION PageSpec
CONSTANTS
  Streams = {s1, s2}
  MaxShots = 1
  None = None
  Lists = {f, g}
  Names = {n}
  MaxGets = 2
  MaxCalls = 1
  NoList = NoList
  Loading = Loading
SYMMETRY Either
INVARIANTS
  PanelTypeOK
  LostStreamHadRival
  LitElsewhereWasAsked
  WrongWinesHadRival
CHECK_DEADLOCK FALSE
