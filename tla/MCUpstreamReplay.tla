--------------------------- MODULE MCUpstreamReplay ---------------------------
(***************************************************************************)
(* TLC instance of UpstreamReplay: the mux's filter, and two of clients, one *)
(* with slot updates that run ahead of the data, one without slot updates.  *)
(***************************************************************************)
EXTENDS UpstreamReplay
=============================================================================
