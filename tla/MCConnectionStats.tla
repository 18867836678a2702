-------------------------- MODULE MCConnectionStats --------------------------
(***************************************************************************)
(* TLC instance of ConnectionStats: two requests of one client at a time,   *)
(* and a WebSocket connection of another.                                   *)
(***************************************************************************)
EXTENDS ConnectionStats, TLC

CONSTANTS q1, q2, w1, i1, i2

Clients == q1 :> i1 @@ q2 :> i1 @@ w1 :> i2
=============================================================================
