\* Two threads evaluate while rules are replaced and removed and alerts resolved.
SPECIFICATION Spec
CONSTANTS
  t1 = t1
  t2 = t2
  Thread       <- MCThread
  Name         <- MCName
  Rule         <- MCRule
  NoRule       = NoRule
  MetricSeries <- MCMetricSeries
  Series       = {1}
  Value        = {0, 1}
  Time         = {0, 1}
  MaxDatetime  = 1
  MaxRules     = 1
  MaxHistory   = 1
  MaxHandlers  = 2
  MaxAlerts    = 2
SYMMETRY Threads
INVARIANTS
  TypeOK
  LiveAlertsOfCurrentRules
  HistoryOfResolved
  NotifiedAtMostOnce
PROPERTIES
  CooldownSeparatesTriggers
  AlertsOnlyAdvance
  ImplementsBoard
