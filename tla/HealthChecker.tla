---------------------------- MODULE HealthChecker ----------------------------
(***************************************************************************)
(* The health checker of src/src/cluster/health.rs: one task probes the     *)
(* nodes one after the other, round after round, ejects a node after        *)
(* unhealthy_threshold failed probes in a row, restores it after            *)
(* healthy_threshold good ones, and marks a node that is slow or behind as  *)
(* degraded.                                                                *)
(*                                                                         *)
(* A probe is what its timeout lets come back: a slot and whether it took   *)
(* more than 500 ms, an authorization error, or a failure.  The counters of *)
(* consecutive outcomes stop at the larger threshold, beyond which the code *)
(* tells no values apart.  `outcomes` is a history of the first MaxHistory  *)
(* probes of a node; the probing itself is not bounded.  The nodes are      *)
(* probed in the order 1..N.                                                *)
(***************************************************************************)
EXTENDS NodeStatus, Sequences

CONSTANTS
    Iris,                  \* the nodes with an iris_url
    Grpc,                  \* the nodes with a grpc_url
    UnhealthyThreshold,    \* unhealthy_threshold
    HealthyThreshold,      \* healthy_threshold
    MaxDrift,              \* slots a node may be behind, 5 in the code
    Slots,                 \* the slots a node may report
    Observed,              \* the nodes whose history is kept
    MaxHistory             \* bound: probes recorded in a history

\* What config.rs gives: any numbers, and names of nodes that exist.
ASSUME HealthAssumption ==
    /\ Iris \subseteq Nodes /\ Grpc \subseteq Nodes
    /\ UnhealthyThreshold \in Nat /\ HealthyThreshold \in Nat
    /\ MaxDrift \in Nat /\ Slots \subseteq Nat
    /\ Observed \subseteq Nodes /\ MaxHistory \in Nat

VARIABLES
    failures,     \* consecutive_failures
    successes,    \* consecutive_successes
    lastSlot,     \* last_slot
    blocked,      \* rpc_blocked
    irisOk,       \* iris_healthy
    grpcOk,       \* grpc_healthy
    maxSlot,      \* the highest slot of this round
    cursor,       \* the node being probed; N + 1: slot drift is next
    step,         \* what of it is probed next: "rpc", "iris" or "grpc"
    last,         \* history: the last outcome of each node
    outcomes      \* history: the first outcomes of each node

counts == <<failures, successes>>
histories == <<last, outcomes>>
checkerVars == <<status, counts, lastSlot, blocked, irisOk, grpcOk, maxSlot, cursor, step, histories>>

Cap == IF UnhealthyThreshold > HealthyThreshold THEN UnhealthyThreshold ELSE HealthyThreshold

CheckerTypeOK ==
    /\ status \in [Nodes -> Statuses]
    /\ failures \in [Nodes -> 0..Cap] /\ successes \in [Nodes -> 0..Cap]
    /\ lastSlot \in [Nodes -> Nat]
    /\ blocked \in [Nodes -> BOOLEAN]
    /\ irisOk \in [Nodes -> BOOLEAN] /\ grpcOk \in [Nodes -> BOOLEAN]
    /\ maxSlot \in Nat
    /\ cursor \in 1..(N + 1) /\ step \in {"rpc", "iris", "grpc"}
    /\ last \in [Nodes -> {"none", "ok", "failed"}]
    /\ outcomes \in [Nodes -> Seq({"ok", "failed"})]

CheckerInit ==
    /\ status = [n \in Nodes |-> "healthy"]
    /\ failures = [n \in Nodes |-> 0]
    /\ successes = [n \in Nodes |-> 0]
    /\ lastSlot = [n \in Nodes |-> 0]
    /\ blocked = [n \in Nodes |-> FALSE]
    /\ irisOk = [n \in Nodes |-> FALSE]
    /\ grpcOk = [n \in Nodes |-> TRUE]
    /\ maxSlot = 0
    /\ cursor = 1
    /\ step = "rpc"
    /\ last = [n \in Nodes |-> "none"]
    /\ outcomes = [n \in Nodes |-> <<>>]

\* One more in a row.
Count(x) == IF x < Cap THEN x + 1 ELSE x

Record(n, outcome) ==
    /\ last' = [last EXCEPT ![n] = outcome]
    /\ outcomes' = [outcomes EXCEPT ![n] =
                      IF n \in Observed /\ Len(@) <= MaxHistory THEN Append(@, outcome) ELSE @]

-----------------------------------------------------------------------------
(* The RPC probe of the node under the cursor.                              *)

\* What a run of n good probes makes of a status.
Restored(st, n) ==
    IF st # "healthy" /\ n >= HealthyThreshold THEN "healthy" ELSE st

record_failure(n) ==
    /\ failures' = [failures EXCEPT ![n] = Count(@)]
    /\ successes' = [successes EXCEPT ![n] = 0]

\* Mutant: a good probe does not end the run of failures.
record_success_keeps_run(n) ==
    /\ successes' = [successes EXCEPT ![n] = Count(@)]
    /\ UNCHANGED failures

\* Mutant: good probes are not counted while the node is out.
record_success_only_up(n) ==
    /\ failures' = [failures EXCEPT ![n] = 0]
    /\ successes' = [successes EXCEPT ![n] = IF status[n] = "down" THEN 0 ELSE Count(@)]

record_success(n) ==
    /\ failures' = [failures EXCEPT ![n] = 0]
    /\ successes' = [successes EXCEPT ![n] = Count(@)]

ProbeHealthy(n, slot, slow) ==
    /\ cursor = n /\ step = "rpc"
    /\ record_success(n)
    /\ blocked' = [blocked EXCEPT ![n] = FALSE]
    /\ lastSlot' = [lastSlot EXCEPT ![n] = slot]
    /\ maxSlot' = IF slot > maxSlot THEN slot ELSE maxSlot
    /\ LET restored == Restored(status[n], successes'[n])
       IN  status' = [status EXCEPT ![n] =
                        IF slow /\ restored = "healthy" THEN "degraded" ELSE restored]
    /\ step' = "iris"
    /\ Record(n, "ok")
    /\ UNCHANGED <<irisOk, grpcOk, cursor>>

\* A failure, by timeout or error, or an authorization error (isBlocked).
ProbeFailed(n, isBlocked) ==
    /\ cursor = n /\ step = "rpc"
    /\ record_failure(n)
    /\ blocked' = [blocked EXCEPT ![n] = isBlocked]
    /\ status' = [status EXCEPT ![n] =
                    IF failures'[n] >= UnhealthyThreshold THEN "down" ELSE @]
    /\ step' = "iris"
    /\ Record(n, "failed")
    /\ UNCHANGED <<lastSlot, irisOk, grpcOk, maxSlot, cursor>>

\* The iris probe, if there is an iris_url.
ProbeIris(n, ok) ==
    /\ cursor = n /\ step = "iris"
    /\ irisOk' = IF n \in Iris THEN [irisOk EXCEPT ![n] = ok] ELSE irisOk
    /\ step' = "grpc"
    /\ UNCHANGED <<status, counts, lastSlot, blocked, grpcOk, maxSlot, cursor, histories>>

\* The gRPC ping, or a stream message within 30 s, if there is a grpc_url.
ProbeGrpc(n, pingOk, streamOk) ==
    /\ cursor = n /\ step = "grpc"
    /\ grpcOk' = IF n \in Grpc THEN [grpcOk EXCEPT ![n] = pingOk \/ streamOk] ELSE grpcOk
    /\ step' = "rpc"
    /\ cursor' = cursor + 1
    /\ UNCHANGED <<status, counts, lastSlot, blocked, irisOk, maxSlot, histories>>

-----------------------------------------------------------------------------
(* The end of a round.                                                      *)

\* Mutant: a node that is down is marked degraded when it is behind.
BehindEvenDown(n) ==
    lastSlot[n] > 0 /\ maxSlot > lastSlot[n] + MaxDrift

Behind(n) ==
    lastSlot[n] > 0 /\ maxSlot > lastSlot[n] + MaxDrift /\ status[n] = "healthy"

SlotDrift ==
    /\ cursor = N + 1
    /\ status' = [n \in Nodes |-> IF Behind(n) THEN "degraded" ELSE status[n]]
    /\ cursor' = 1 /\ maxSlot' = 0
    /\ UNCHANGED <<counts, lastSlot, blocked, irisOk, grpcOk, step, histories>>

Probe ==
    \E n \in Nodes :
        \/ \E slot \in Slots, slow \in BOOLEAN : ProbeHealthy(n, slot, slow)
        \/ \E isBlocked \in BOOLEAN : ProbeFailed(n, isBlocked)
        \/ \E ok \in BOOLEAN : ProbeIris(n, ok)
        \/ \E pingOk, streamOk \in BOOLEAN : ProbeGrpc(n, pingOk, streamOk)

CheckerNext == Probe \/ SlotDrift

CheckerSpec == CheckerInit /\ [][CheckerNext]_checkerVars

\* Every probe has a timeout around it and the interval ticks on: the rounds
\* never stop.
CheckerFairSpec == CheckerSpec /\ WF_checkerVars(CheckerNext)

-----------------------------------------------------------------------------
(* Properties.                                                              *)

\* The n outcomes up to the i-th are all o.
RunUpTo(h, i, n, o) == i >= n /\ \A j \in (i - n + 1)..i : h[j] = o

\* A threshold of 0 acts like 1: it takes a probe to change a status.
AtLeastOne(n) == IF n = 0 THEN 1 ELSE n

\* A history after which a node is out: there was a run of failures, and
\* since then no run of good probes.
Ejected(h) ==
    \E i \in 1..Len(h) :
        /\ RunUpTo(h, i, AtLeastOne(UnhealthyThreshold), "failed")
        /\ ~\E k \in (i + 1)..Len(h) : RunUpTo(h, k, AtLeastOne(HealthyThreshold), "ok")

\* "Automatic eject/restore" (README.md:20): a node is down exactly when its
\* history calls for it, whatever latency, drift and authorization errors
\* did to its status in between (health.rs:153-199, 245-259).
DownIffEjected ==
    \A n \in Observed : Len(outcomes[n]) <= MaxHistory =>
        (status[n] = "down" <=> Ejected(outcomes[n]))

\* A node whose probes all fail from some time on is out for good.
DeadNodeEjected ==
    \A n \in Nodes : <>[](last[n] = "failed") => <>[](status[n] = "down")

\* A node whose probes are all good from some time on is back for good.
GoodNodeRestored ==
    \A n \in Nodes : <>[](last[n] = "ok") => <>[](status[n] # "down")
=============================================================================
