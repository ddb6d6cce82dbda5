-------------------------- MODULE MCCheckpointFile --------------------------
(***************************************************************************)
(* A small instance of CheckpointFile: two processes, one after the other  *)
(* or at once.                                                             *)
(***************************************************************************)
EXTENDS CheckpointFile, TLC

CONSTANTS w1, w2

MCWorker == {w1, w2}
Workers  == Permutations(MCWorker)
=============================================================================
