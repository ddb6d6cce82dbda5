\* Two threads evaluate two rules, one of which may lack its metric, fairly, among
\* administrators; no cooldown overflows.
SPECIFICATION FairSpec
CONSTANTS
  t1 = t1
  t2 = t2
  Thread       <- MCThread
  Name         <- MCName
  Rule         <- MCLiveRule
  NoRule       = NoRule
  MetricSeries <- MCMetricSeries
  Series       = {1}
  Value        = {0, 1}
  Time         = {0}
  MaxDatetime  = 2
  MaxRules     = 2
  MaxHistory   = 1
  MaxHandlers  = 1
  MaxAlerts    = 2
PROPERTIES
  EventsReachHandlers
