----------------------------- MODULE MCRegistry -----------------------------
(***************************************************************************)
(* A small instance of Registry: two names, calls that repeat, contradict  *)
(* and exceed each other, and a strict and a generous policy.              *)
(***************************************************************************)
EXTENDS Registry, TLC

CONSTANTS t1, t2, x, y

MCThread == {t1, t2}
MCLabel  == {x, y}
Same     == Permutations(MCThread) \cup Permutations(MCLabel)

Of(n, kind, series, samples, buckets) ==
  [name |-> n, kind |-> kind, maxSeries |-> series, maxSamples |-> samples, buckets |-> buckets]

MCAmount == {1, -1}

MCCall ==
  {Of(1, "counter", None, None, 0),      \* with the limits of the registry
   Of(1, "counter", 2, None, 0),         \* with one that the strict policy forbids
   Of(2, "gauge", None, None, 0),
   Of(2, "histogram", None, None, 0),    \* without buckets
   Of(2, "histogram", None, None, 1),
   Of(2, "histogram", None, 2, 2)}       \* with more buckets than the registry may allow

Limited(metrics, series, samples, buckets) ==
  [maxMetrics |-> metrics, maxSeries |-> series, maxSamples |-> samples,
   maxBuckets |-> buckets, maxLabel |-> 1]

\* A registry with room for one metric, and one that exceeds the strict policy.
MCConfigured == {Limited(1, 1, 1, 2), Limited(2, 2, 1, 1)}

MCPolicy ==
  {[maxFileBytes |-> 4, maxMetrics |-> 2, maxSeries |-> 1, maxSamples |-> 1,
    maxBuckets |-> 2, maxLabel |-> 1],
   [maxFileBytes |-> 6, maxMetrics |-> 3, maxSeries |-> 3, maxSamples |-> 3,
    maxBuckets |-> 3, maxLabel |-> 2]}
=============================================================================
