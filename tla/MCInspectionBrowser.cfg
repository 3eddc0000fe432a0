SPECIFICATION BrowserSpec
CONSTANTS
  Device = {d1, d2}
  MaxRuns = 2
  MaxMotions = 2
INVARIANTS
  TypeOK
  TrajectoryIsOfSelected
  SessionsAreFinal
  CountsTearAtDerivationOnly
  EpisodeDevicesAreListed
  NothingStaleShown
SYMMETRY Alike
CHECK_DEADLOCK FALSE
