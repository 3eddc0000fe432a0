SPECIFICATION MetricsSpec
CONSTANTS
  left = left
  right = right
  one = one
  two = two
  Null = Null
  Deltas <- OneDelta
  Cursors <- OneCursor
  Hypot <- Euclid
  Places <- AllPlaces
  MaxSamples = 3
  MaxMotions = 3
INVARIANT
  TransitionsInvalidate
CHECK_DEADLOCK FALSE
