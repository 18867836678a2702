------------------------------ MODULE NodeStatus ------------------------------
(***************************************************************************)
(* What the parts of src/src/cluster/ share: the nodes of the configuration *)
(* and their NodeHealth.status, which the health checker writes and the     *)
(* router reads.                                                            *)
(***************************************************************************)
EXTENDS Naturals

CONSTANT N      \* number of nodes; 1..N is the order of the configuration

ASSUME NodesAssumption == N \in Nat

VARIABLE status     \* NodeHealth.status of each node

Nodes == 1..N

Statuses == {"healthy", "degraded", "down"}
=============================================================================
