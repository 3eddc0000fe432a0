SPECIFICATION Spec
CONSTANTS
  Device = {d1, d2}
  Process = {p1, p2}
  None = None
  MaxRuns = 2
  MaxMotions = 2
  BatchSize = 2
INVARIANTS
  TypeOK
  EvidenceResolves
  MigrationNotBlocked
PROPERTIES
  IdentitiesKept
  ImplementsEpisodeTables
SYMMETRY Alike
CHECK_DEADLOCK FALSE
