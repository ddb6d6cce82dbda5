--------------------------- MODULE MCHTTPRestart ---------------------------
(***************************************************************************)
(* A small instance of HTTPRestart: fewer series than methods and keys,    *)
(* and two endpoints, one of which refuses what the other still renders.   *)
(***************************************************************************)
EXTENDS HTTPRestart, TLC

CONSTANTS r1, r2, w1, w2

MCRequest == {r1, r2}
MCSaver   == {w1, w2}
Same      == Permutations(MCRequest) \cup Permutations(MCSaver)
=============================================================================
