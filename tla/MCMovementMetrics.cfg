SPECIFICATION MetricsSpec
CONSTANTS
  left = left
  right = right
  one = one
  two = two
  Null = Null
  Deltas <- AllDeltas
  Cursors <- Triangle
  Hypot <- Euclid
  Places <- TwoPlaces
  MaxSamples = 3
  MaxMotions = 3
SYMMETRY Sides
INVARIANTS
  PathsAgree
  ReversalsShow
  GapsStayGaps
CHECK_DEADLOCK FALSE
