SPECIFICATION Spec
CONSTANTS
  mouse = mouse
  trackball = trackball
  Device <- TwoDevices
  IdleGap = 1
  MaxRuns = 2
  MaxTime = 3
  MaxItems = 4
SYMMETRY Symmetry
INVARIANTS
  MotionsArePartitioned
  EpisodesAreAsSpecified
CHECK_DEADLOCK FALSE
