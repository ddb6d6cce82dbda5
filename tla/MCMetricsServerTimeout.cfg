\* A request that arrives in parts, each within the timeout of its read.
SPECIFICATION Spec
CONSTANTS
  c1 = c1
  c2 = c2
  p1 = p1
  p2 = p2
  Client <- MCClient
  Closer <- MCCloser
  MaxConcurrent = 1
  Timeout = 1
  Reads = 2
INVARIANTS
  RequestsWithinTimeout
