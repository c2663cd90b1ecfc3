SPECIFICATION BSpec
CONSTANTS
  Users <- MCUsers
  Wines <- MCWines
  Lists <- MCLists
  Key <- MCKey
  Name <- MCName
  Title <- MCTitle
  Stars = {1, 2}
  Bodies = {"x"}
  MaxEdits = 2
  w1 = w1
  w2 = w2
  w3 = w3
  ann = ann
  ann2 = ann2
  bob = bob
  l1 = l1
SYMMETRY Symmetry
PROPERTIES
  SteadyRowsAreRestored
  MergeBringsBack
  MergeTwiceIsMergeOnce
CHECK_DEADLOCK FALSE
