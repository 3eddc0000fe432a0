SPECIFICATION FairSpec
CONSTANTS
  Capacity = 2
  MaxAttempts = 3
  BatchSize = 2
  MaxRuns = 1
  MaxAsked = 7
  Tolerance = 0
  Retention = 1
  MaxTime = 1
  MaxEvents = 2
  MaxStarts = 1
INVARIANTS
  ReferencesResolve
PROPERTIES
  EndedRunIsCorrelated
  ImplementsEvidenceLog
  StopsWhenRequestsEnd
  InputIsDrained
CHECK_DEADLOCK FALSE
