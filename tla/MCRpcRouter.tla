----------------------------- MODULE MCRpcRouter -----------------------------
(***************************************************************************)
(* TLC instance of RpcRouter: nodes whose priorities are not in the order   *)
(* of the configuration.                                                    *)
(***************************************************************************)
EXTENDS RpcRouter, TLC

Priorities == <<2, 1, 2>>

\* Requests are interchangeable.
Symmetry == Permutations(Requests)
=============================================================================
