SPECIFICATION BrowserSpec
CONSTANTS
  Device = {d1, d2}
  MaxRuns = 2
  MaxMotions = 2
INVARIANT
  CompletedRunsAreReadable
SYMMETRY Alike
CHECK_DEADLOCK FALSE
