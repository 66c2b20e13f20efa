----------------------------- MODULE MCMonitor -----------------------------
(***************************************************************************)
(* TLC instances of the monitor: two build processes that come and go over *)
(* two iterations of the loop.                                             *)
(***************************************************************************)
EXTENDS Monitor

CONSTANTS p1, p2
=============================================================================
