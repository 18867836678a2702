---------------------------- MODULE MCAccessConfig ----------------------------
(***************************************************************************)
(* TLC instance of AccessConfig: two IPs and two keys, one of each at       *)
(* startup, and one request of every kind.                                  *)
(***************************************************************************)
EXTENDS AccessConfig, TLC

CONSTANTS a, b, k1, k2

Entry(n) == [limit |-> n, live |-> TRUE]

StartConfig == [Empty EXCEPT ![a] = <<Entry(1)>>, ![k1] = <<Entry(1)>>]

\* The operator raised a limit and revoked the key; or took an IP out and kept
\* a key that was made meanwhile.
EditedFiles ==
    {[Empty EXCEPT ![a] = <<Entry(2)>>, ![k1] = <<[limit |-> 1, live |-> FALSE]>>],
     [Empty EXCEPT ![k1] = <<Entry(1)>>, ![k2] = <<Entry(1)>>]}

Request(kind, s, n) == [kind |-> kind, who |-> s, limit |-> n]

Requests ==
    {Request("add", b, 1), Request("add", a, 2), Request("update", a, 2),
     Request("remove", a, 1), Request("create", k2, 1), Request("revoke", k1, 1)}

\* Dashboard requests are interchangeable.
Symmetry == Permutations(Ops)
=============================================================================
