\* One response body is closed before it was iterated.
SPECIFICATION Spec
CONSTANTS
  r1 = r1
  r2 = r2
  r3 = r3
  Request     <- MCRequest
  KnownMethod = {"GET", "PUT"}
  RawMethod   = {"GET", "PUT", "BREW"}
  RawStatus   = {200, 700}
  MaxSeries   = 2
SYMMETRY Requests
INVARIANTS
  ActiveDrains
