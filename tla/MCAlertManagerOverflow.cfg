\* A rule whose cooldown passed validation but leads beyond the last datetime.
SPECIFICATION Spec
CONSTANTS
  t1 = t1
  t2 = t2
  Thread       <- MCSolo
  Name         <- MCName
  Rule         <- MCRule
  NoRule       = NoRule
  MetricSeries <- MCMetricSeries
  Series       = {1, 2}
  Value        = {0, 1}
  Time         = {0, 1}
  MaxDatetime  = 1
  MaxRules     = 1
  MaxHistory   = 1
  MaxHandlers  = 2
  MaxAlerts    = 3
INVARIANTS
  EvaluationsReturn
