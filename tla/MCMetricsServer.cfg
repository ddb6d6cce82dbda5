\* Connections of slow and silent clients while two threads close the server.
SPECIFICATION FairSpec
CONSTANTS
  c1 = c1
  c2 = c2
  p1 = p1
  p2 = p2
  Client <- MCClient
  Closer <- MCCloser
  MaxConcurrent = 1
  Timeout = 1
  Reads = 2
INVARIANTS
  TypeOK
  SlotsConserved
  ClosedIsFinal
  SocketOutlivesLoop
PROPERTIES
  CloseEnds
  SlotsComeBack
