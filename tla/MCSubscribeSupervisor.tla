------------------------ MODULE MCSubscribeSupervisor ------------------------
(***************************************************************************)
(* TLC instance of SubscribeSupervisor: a direct, a mux and an aRPC stream   *)
(* of one client.                                                           *)
(***************************************************************************)
EXTENDS SubscribeSupervisor, TLC

CONSTANTS s1, s2, s3, ip

Kinds == s1 :> "direct" @@ s2 :> "mux" @@ s3 :> "v1"
Clients == s1 :> ip @@ s2 :> ip @@ s3 :> ip
=============================================================================
