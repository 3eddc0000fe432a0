SPECIFICATION Spec
CONSTANTS
  Tolerance = 1
  Retention = 5
  MaxGap = 2
  MaxLate = 1
  MaxTime = 8
  MaxContexts = 5
  MaxInputs = 2
INVARIANTS
  TypeOK
  EachInputOnce
  VerdictsAreFinal
  MatchesKeepOrder
  PendingIsUndecided
CHECK_DEADLOCK FALSE
