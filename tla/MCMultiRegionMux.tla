--------------------------- MODULE MCMultiRegionMux ---------------------------
(***************************************************************************)
(* TLC instance of MultiRegionMux: pairs of updates whose keys must not     *)
(* collide, that share one, that have none, or that are not fanned out.     *)
(***************************************************************************)
EXTENDS MultiRegionMux, TLC

CONSTANTS e1, e2

U(kind, slot, name, hash) == [kind |-> kind, slot |-> slot, name |-> name, hash |-> hash]

\* A signature that lands again in a later slot; the metas of two candidate
\* blocks of one slot; the slot updates of the two, which share a key; an
\* account and a pong, which have no key.
Pairs == {
    e1 :> U("transaction", 1, "sig", "A") @@ e2 :> U("transaction", 2, "sig", "B"),
    e1 :> U("block_meta", 1, NoKey, "A") @@ e2 :> U("block_meta", 1, NoKey, "B"),
    e1 :> U("slot", 1, "processed", "A") @@ e2 :> U("slot", 1, "processed", "B"),
    e1 :> U("account", 1, "acc", "A") @@ e2 :> U("pong", 0, "ping", "A") }
=============================================================================
