--------------------------- MODULE MCHealthChecker ---------------------------
(***************************************************************************)
(* TLC instance of HealthChecker.  The nodes are numbers, because the order *)
(* in which they are probed matters; there is no symmetry.                  *)
(***************************************************************************)
EXTENDS HealthChecker
=============================================================================
