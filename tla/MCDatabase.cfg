SPECIFICATION Spec
CONSTANTS
  Item = {1}
  BatchSize = 2
  MaxRuns = 2
  MaxAsked = 3
INVARIANTS
  TypeOK
  CounterTracksTransaction
  EndedRunIsComplete
  LossBelowOneBatch
PROPERTY
  ImplementsEvidenceLog
