\* Two requests of two methods, scrapes, overlapping saves and a restart.
SPECIFICATION RestartSpec
CONSTANTS
  r1 = r1
  r2 = r2
  w1 = w1
  w2 = w2
  Request     <- MCRequest
  Saver       <- MCSaver
  KnownMethod = {"GET"}
  RawMethod   = {"GET", "BREW"}
  RawStatus   = {500}
  MaxSeries   = 1
  MaxLines    = 11
  Spread      = 1
  MaxSaves    = 3
  MaxWalks    = 2
  ScrapeWeight = 2
  MaxRestarts = 1
INVARIANTS
  RestartTypeOK
  ActiveCountsInGauge
  CompletionsCountedOnce
  DurationsNeverAhead
PROPERTIES
  RefusalLasts
  CheckpointsGrow
SYMMETRY Same
