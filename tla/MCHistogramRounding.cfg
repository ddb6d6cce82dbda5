\* Equal observations whose sum soon needs more digits than a float has.
SPECIFICATION Spec
CONSTANTS
  a = a
  b = b
  Key         <- MCKey
  Value       <- MCOneValue
  Bounds      <- MCBounds
  Foreign     = {}
  MaxSeries   = 1
  MaxSamples  = 2
  MaxFinite   = 64
  Significand = 8
  Tolerance   = 4
  Compensated = FALSE
  MaxCount    = 100
  MaxObserved = 12
INVARIANTS
  RestartsSucceed
