SPECIFICATION Spec
CONSTANTS
  Capacity = 3
  MaxAttempts = 8
INVARIANTS
  TypeOK
  Bounded
  Accounting
  TakenInOrder
PROPERTY
  TakenIsRecent
CHECK_DEADLOCK FALSE
