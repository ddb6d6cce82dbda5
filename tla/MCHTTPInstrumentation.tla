----------------------- MODULE MCHTTPInstrumentation -----------------------
(***************************************************************************)
(* Small instances of HTTPInstrumentation: more keys than series.          *)
(***************************************************************************)
EXTENDS HTTPInstrumentation, TLC

CONSTANTS r1, r2, r3

MCRequest == {r1, r2, r3}
Requests  == Permutations(MCRequest)
=============================================================================
