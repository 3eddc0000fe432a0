SPECIFICATION FairSpec
CONSTANTS
  MaxChanges = 1
  MaxLosses = 2
  MaxFailures = 1
INVARIANTS
  TypeOK
  NoChangeSlips
PROPERTIES
  OkHidesOnlyLosses
  CatchesUp
CHECK_DEADLOCK FALSE
