\* Observations further apart than the largest float, in one window.
SPECIFICATION Spec
CONSTANTS
  a = a
  b = b
  Key        <- MCKey
  Value      <- MCWideValue
  Bounds     <- MCBounds
  Foreign    = {}
  MaxSeries  = 1
  MaxSamples = 2
  MaxFinite  = 4
  Significand = 16
  Tolerance   = 1000
  Compensated = TRUE
  MaxCount   = 100
  MaxObserved = 5
INVARIANTS
  PercentilesFinite
