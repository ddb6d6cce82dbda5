\* Two label sets, one series: observations, checkpoints, restarts, and one
\* foreign series to start from.
SPECIFICATION Spec
CONSTANTS
  a = a
  b = b
  Key        <- MCKey
  Value      <- MCValue
  Bounds     <- MCBounds
  Foreign    <- MCForeign
  MaxSeries  = 1
  MaxSamples = 2
  MaxFinite  = 4
  Significand = 16
  Tolerance   = 1000
  Compensated = TRUE
  MaxCount   = 4
  MaxObserved = 5
INVARIANTS
  TypeOK
  AggregatesExact
  SeriesStayLoadable
  PercentilesWithinWindow
