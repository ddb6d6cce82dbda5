--------------------------- MODULE MCAlertManager ---------------------------
(***************************************************************************)
(* Small instances of AlertManager: rules of two names over one metric,    *)
(* one of them replaceable by another object of its name.                  *)
(***************************************************************************)
EXTENDS AlertManager, TLC

CONSTANTS t1, t2

MCThread == {t1, t2}
MCSolo   == {t1}
MCName   == {"load", "queue"}

ARule(id, name, metric, operator, cooldown, autoResolve) ==
  [id |-> id, name |-> name, metric |-> metric, operator |-> operator, threshold |-> 0,
   labels |-> Series, cooldown |-> cooldown, autoResolve |-> autoResolve]

MCMetricSeries == [gauge |-> Series]

Patient == ARule(1, "load", "gauge", ">", 1, TRUE)
Endless == ARule(2, "load", "gauge", ">", 2, FALSE)
Broken  == ARule(3, "queue", "absent", "<=", 0, TRUE)

Second  == ARule(4, "queue", "gauge", ">", 0, TRUE)

MCRule     == {Patient, Endless, Broken}
MCLiveRule == {Patient, Second, Broken}

Threads == Permutations(MCThread)
=============================================================================
