SPECIFICATION FairSSpec
CONSTANTS
  Weak <- SomeWeak
  Recent = 1
  MaxMatches = 2
  Wines <- SomeBottles
  Letters <- SomeLetters
  Facts = {"name", "maker", "grape", "type"}
  Strong = {"name", "maker", "grape"}
  Forms <- SomeForms
  Replies <- SomeReplies
  Telling <- SomeTelling
  MaxEdits = 2
  CellarSize = 2
  Unset = Unset
INVARIANTS
  LevIsDistance
  DuplicateIsWarned
PROPERTIES
  LaterFillsGaps
  ScanIsAnswered
CHECK_DEADLOCK FALSE
