---------------------------- MODULE MCHistogram ----------------------------
(***************************************************************************)
(* Small instances of Histogram: a window of two observations, two buckets *)
(* and a finite range that few observations exhaust.                       *)
(***************************************************************************)
EXTENDS Histogram

CONSTANTS a, b

MCKey    == {a, b}
MCValue  == {-1, 1, 3}
MCBounds == <<0, 1>>

\* Observations further apart than the largest float.
MCWideValue == {-MaxFinite, 0, MaxFinite}

\* Rounding the sum always loses when it is at the limit of the significand.
MCOneValue == {1}

\* Every series with up to three observations in and out of the window.
MCForeign ==
  [count : 1 .. 3, total : -3 .. 4, minimum : MCValue, maximum : MCValue,
   buckets : [1 .. 2 -> 0 .. 3], recent : {<<v>> : v \in MCValue} \cup (MCValue \X MCValue)]

\* With the tolerance of the instances, a validated sum is an exact one.
ASSUME ExactAssumption == ForeignExact
=============================================================================
