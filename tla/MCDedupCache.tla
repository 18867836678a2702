----------------------------- MODULE MCDedupCache -----------------------------
(***************************************************************************)
(* TLC instance of DedupCache: keys are model values, the window a few      *)
(* ticks.                                                                  *)
(***************************************************************************)
EXTENDS DedupCache
=============================================================================
