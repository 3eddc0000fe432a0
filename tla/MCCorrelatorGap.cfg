SPECIFICATION Spec
CONSTANTS
  Tolerance = 1
  Retention = 3
  MaxGap = 6
  MaxLate = 1
  MaxTime = 7
  MaxContexts = 3
  MaxInputs = 1
INVARIANT
  VerdictsAreFinal
CHECK_DEADLOCK FALSE
