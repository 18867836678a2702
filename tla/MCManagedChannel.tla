--------------------------- MODULE MCManagedChannel ---------------------------
(***************************************************************************)
(* TLC instance of ManagedChannel: the tasks are model values given in the  *)
(* configurations, one of each kind of caller.                              *)
(***************************************************************************)
EXTENDS ManagedChannel
=============================================================================
