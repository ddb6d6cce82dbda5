-------------------------- MODULE MCMetricsServer --------------------------
(***************************************************************************)
(* A small instance of MetricsServer: more connections than slots, and two *)
(* threads that close the server.                                          *)
(***************************************************************************)
EXTENDS MetricsServer

CONSTANTS c1, c2, p1, p2

MCClient == {c1, c2}
MCCloser == {p1, p2}
=============================================================================
