------------------------------- MODULE RpcRouter -------------------------------
(***************************************************************************)
(* How src/src/cluster/router.rs routes JSON-RPC requests over the nodes:   *)
(* reads try the healthy nodes in the order of their priority, heavy reads  *)
(* start at a round-robin place, and a sendTransaction goes to every        *)
(* eligible healthy node at once.                                           *)
(*                                                                         *)
(* The health checker changes a node's status at any time; a request acts   *)
(* on the statuses it read when it came in, which it reads in one step (the *)
(* checker writes a status every few seconds).  A request to a node is a    *)
(* "leg" (forward_rpc_to): until the response's head arrives it is limited  *)
(* to eight seconds, the body after that is not.  A node may answer well,   *)
(* answer with an HTTP error status, fail, or stall.  A client that leaves  *)
(* drops the handler's future; the legs of a fan-out are tasks of their own *)
(* and go on.                                                               *)
(***************************************************************************)
EXTENDS NodeStatus, Sequences, FiniteSets

CONSTANTS
    Priority,    \* Priority[n]: the lower, the better
    SendTx,      \* the nodes sendTransaction goes to
    Requests

ASSUME RouterAssumption ==
    /\ Priority \in [Nodes -> Nat]
    /\ SendTx \subseteq Nodes

VARIABLES
    counter,    \* heavy_rpc_counter
    kind,       \* kind[r]: "read", "heavy" or "send", by classify_rpc, once r came in
    at,         \* at[r]: "new", "trying", "fanout", "done", "dropped"
    plan,       \* plan[r]: the nodes r was given when it came in, in order
    place,      \* place[r]: how far r is in its plan (reads only)
    leg,        \* leg[r][n]: the request to n made for r
    inbox,      \* inbox[r]: finished legs of a fan-out, in order
    answer      \* answer[r]: what the client was told

vars == <<status, counter, kind, at, plan, place, leg, inbox, answer>>

Finished == {"ok", "error_status", "failed"}
Legs == {"none", "asking", "body"} \cup Finished

TypeOK ==
    /\ status \in [Nodes -> Statuses]
    /\ counter \in Nat
    /\ kind \in [Requests -> {"none", "read", "heavy", "send"}]
    /\ at \in [Requests -> {"new", "trying", "fanout", "done", "dropped"}]
    /\ plan \in [Requests -> Seq(Nodes)]
    /\ place \in [Requests -> Nat]
    /\ leg \in [Requests -> [Nodes -> Legs]]
    /\ inbox \in [Requests -> Seq(Nodes)]
    /\ answer \in [Requests -> {"none", "ok", "error_status", "bad_gateway"}]

Init ==
    /\ status = [n \in Nodes |-> "healthy"]
    /\ counter = 0
    /\ kind = [r \in Requests |-> "none"]
    /\ at = [r \in Requests |-> "new"]
    /\ plan = [r \in Requests |-> <<>>]
    /\ place = [r \in Requests |-> 1]
    /\ leg = [r \in Requests |-> [n \in Nodes |-> "none"]]
    /\ inbox = [r \in Requests |-> <<>>]
    /\ answer = [r \in Requests |-> "none"]

\* is_healthy(): degraded counts as healthy.
Healthy(n) == status[n] # "down"

HealthyNodes == {n \in Nodes : Healthy(n)}

\* The members of S in the order R: the k-th has k members up to itself.
InOrder(S, R) ==
    [k \in 1..Cardinality(S) |->
        CHOOSE x \in S : Cardinality({y \in S : <<y, x>> \in R}) = k]

\* The order of the configuration, in which the nodes are filtered.
Configured == {p \in Nodes \X Nodes : p[1] <= p[2]}

\* sort_by_key(priority), a stable sort: nodes of one priority stay in the
\* order of the configuration.
ByPriority ==
    {p \in Nodes \X Nodes :
        \/ Priority[p[1]] < Priority[p[2]]
        \/ Priority[p[1]] = Priority[p[2]] /\ p \in Configured}

HealthySeq == InOrder(HealthyNodes, Configured)

\* Mutant: the start is added twice and nodes are left out.
RotateTwice(s, start) == [i \in DOMAIN s |-> s[((2 * (start + i - 1)) % Len(s)) + 1]]

\* healthy[(start + i) % healthy.len()].
Rotate(s, start) == [i \in DOMAIN s |-> s[((start + i - 1) % Len(s)) + 1]]

-----------------------------------------------------------------------------
(* The health checker, seen from here.                                      *)

SetStatus(n, st) ==
    /\ status[n] # st
    /\ status' = [status EXCEPT ![n] = st]
    /\ UNCHANGED <<counter, kind, at, plan, place, leg, inbox, answer>>

-----------------------------------------------------------------------------
(* A request comes in.                                                      *)

\* No node to try: the handler answers 502.
Unrouted(r, nodes) ==
    /\ at[r] = "new" /\ nodes = <<>>
    /\ at' = [at EXCEPT ![r] = "done"]
    /\ answer' = [answer EXCEPT ![r] = "bad_gateway"]
    /\ UNCHANGED <<status, counter, plan, place, leg, inbox>>

\* The first node of a read is asked.
Try(r, nodes) ==
    /\ at[r] = "new" /\ nodes # <<>>
    /\ at' = [at EXCEPT ![r] = "trying"]
    /\ plan' = [plan EXCEPT ![r] = nodes]
    /\ leg' = [leg EXCEPT ![r][nodes[1]] = "asking"]
    /\ UNCHANGED <<status, place, inbox, answer>>

Classify(r, k) == kind' = [kind EXCEPT ![r] = k]

ForwardRead(r) ==
    /\ Classify(r, "read")
    /\ \/ Unrouted(r, HealthySeq)
       \/ Try(r, InOrder(HealthyNodes, ByPriority)) /\ UNCHANGED counter

ForwardHeavy(r) ==
    /\ Classify(r, "heavy")
    /\ \/ Unrouted(r, HealthySeq)
       \/ /\ HealthySeq # <<>>
          /\ Try(r, Rotate(HealthySeq, counter % Len(HealthySeq)))
          /\ counter' = counter + 1

FanOutTargets == InOrder(HealthyNodes \cap SendTx, Configured)

FanOut(r) ==
    /\ Classify(r, "send")
    /\ \/ Unrouted(r, FanOutTargets)
       \/ /\ at[r] = "new" /\ FanOutTargets # <<>>
          /\ at' = [at EXCEPT ![r] = "fanout"]
          /\ plan' = [plan EXCEPT ![r] = FanOutTargets]
          /\ leg' = [leg EXCEPT ![r] = [n \in Nodes |->
                       IF \E i \in DOMAIN FanOutTargets : FanOutTargets[i] = n
                       THEN "asking" ELSE "none"]]
          /\ UNCHANGED <<status, counter, place, inbox, answer>>

-----------------------------------------------------------------------------
(* forward_rpc_to.                                                          *)

\* A leg of a fan-out that is finished reports to the inbox.
LegTo(r, n, from, to) ==
    /\ leg[r][n] = from
    /\ leg' = [leg EXCEPT ![r][n] = to]
    /\ inbox' = IF kind[r] = "send" /\ to \in Finished
                THEN [inbox EXCEPT ![r] = Append(@, n)] ELSE inbox
    /\ UNCHANGED <<status, counter, kind, at, plan, place, answer>>

HeadArrives(r, n) == LegTo(r, n, "asking", "body")

\* An error before the head arrives, or eight seconds without it.
AskFails(r, n) == LegTo(r, n, "asking", "failed")

\* The body is there; the HTTP status is passed on, whatever it is.
BodyComplete(r, n) == \E to \in {"ok", "error_status"} : LegTo(r, n, "body", to)

BodyFails(r, n) == LegTo(r, n, "body", "failed")

-----------------------------------------------------------------------------
(* The handler takes up a finished leg.                                     *)

Answer(r, what) ==
    /\ at' = [at EXCEPT ![r] = "done"]
    /\ answer' = [answer EXCEPT ![r] = what]

Current(r) == plan[r][place[r]]

TakeAnswer(r) ==
    /\ at[r] = "trying" /\ leg[r][Current(r)] \in {"ok", "error_status"}
    /\ Answer(r, leg[r][Current(r)])
    /\ UNCHANGED <<status, counter, kind, plan, place, leg, inbox>>

\* Mutant: the last node of the plan is never tried.
NoMoreNodesEarly(r) == place[r] + 1 >= Len(plan[r])

NoMoreNodes(r) == place[r] >= Len(plan[r])

TryNext(r) ==
    /\ at[r] = "trying" /\ leg[r][Current(r)] = "failed" /\ ~NoMoreNodes(r)
    /\ place' = [place EXCEPT ![r] = @ + 1]
    /\ leg' = [leg EXCEPT ![r][plan[r][place[r] + 1]] = "asking"]
    /\ UNCHANGED <<status, counter, kind, at, plan, inbox, answer>>

AllFailed(r) ==
    /\ at[r] = "trying" /\ leg[r][Current(r)] = "failed" /\ NoMoreNodes(r)
    /\ Answer(r, "bad_gateway")
    /\ UNCHANGED <<status, counter, kind, plan, place, leg, inbox>>

\* rx.recv(): the first leg that did not fail is the answer.
FanOutRecv(r) ==
    /\ at[r] = "fanout" /\ inbox[r] # <<>>
    /\ inbox' = [inbox EXCEPT ![r] = Tail(@)]
    /\ LET outcome == leg[r][Head(inbox[r])]
       IN  IF outcome = "failed" THEN UNCHANGED <<at, answer>> ELSE Answer(r, outcome)
    /\ UNCHANGED <<status, counter, kind, plan, place, leg>>

\* Every sender is gone and the channel is empty.
FanOutFailed(r) ==
    /\ at[r] = "fanout" /\ inbox[r] = <<>>
    /\ \A n \in Nodes : leg[r][n] \in {"none"} \cup Finished
    /\ Answer(r, "bad_gateway")
    /\ UNCHANGED <<status, counter, kind, plan, place, leg, inbox>>

\* Mutant: the legs of a fan-out are part of the handler's future.
ClientLeavesWithLegs(r) ==
    /\ at[r] \in {"trying", "fanout"}
    /\ at' = [at EXCEPT ![r] = "dropped"]
    /\ leg' = [leg EXCEPT ![r] = [n \in Nodes |-> "none"]]
    /\ UNCHANGED <<status, counter, kind, plan, place, inbox, answer>>

\* The client leaves: the handler, and the leg of a read, are dropped.
ClientLeaves(r) ==
    /\ at[r] \in {"trying", "fanout"}
    /\ at' = [at EXCEPT ![r] = "dropped"]
    /\ leg' = IF at[r] = "trying" THEN [leg EXCEPT ![r][Current(r)] = "none"] ELSE leg
    /\ UNCHANGED <<status, counter, kind, plan, place, inbox, answer>>

Arrive(r) == ForwardRead(r) \/ ForwardHeavy(r) \/ FanOut(r)

Handle(r) ==
    \/ TakeAnswer(r) \/ TryNext(r) \/ AllFailed(r)
    \/ FanOutRecv(r) \/ FanOutFailed(r)

Ask(r, n) == HeadArrives(r, n) \/ AskFails(r, n)

Next ==
    \/ \E n \in Nodes, st \in Statuses : SetStatus(n, st)
    \/ \E r \in Requests : Arrive(r) \/ Handle(r) \/ ClientLeaves(r)
    \/ \E r \in Requests, n \in Nodes : Ask(r, n) \/ BodyComplete(r, n) \/ BodyFails(r, n)

Spec == Init /\ [][Next]_vars

-----------------------------------------------------------------------------
(* Properties.                                                              *)

\* A client is told 502 only when there was no node to ask, or every node of
\* its plan was asked and failed (router.rs:105-113, 139-150, 171-181): no
\* node is skipped, and none that answered is forgotten.
BadGatewayMeansAllFailed ==
    \A r \in Requests : answer[r] = "bad_gateway" =>
        \A i \in DOMAIN plan[r] : leg[r][plan[r][i]] = "failed"

\* A read or heavy read is given every node that is healthy when it comes in,
\* once each, from any round-robin start (router.rs:123-140, 158-168).
PlansAreComplete ==
    [][\A r \in Requests : at[r] = "new" /\ at'[r] = "trying" =>
         /\ \A i, j \in DOMAIN plan'[r] : plan'[r][i] = plan'[r][j] => i = j
         /\ {plan'[r][i] : i \in DOMAIN plan'[r]} = {n \in Nodes : Healthy(n)}]_vars

\* A read asks a node only after every node of its plan with a better
\* priority has failed (router.rs:168-179).
BetterNodesFirst ==
    \A r \in Requests : kind[r] = "read" =>
        \A i, j \in DOMAIN plan[r] :
            Priority[plan[r][i]] < Priority[plan[r][j]] /\ leg[r][plan[r][j]] # "none"
              => leg[r][plan[r][i]] = "failed"

\* A fan-out runs to the end at each of its targets: neither an earlier answer
\* of another target nor the client's leaving takes it back (router.rs:89-102).
FanOutReachesAll ==
    [][\A r \in Requests, n \in Nodes :
         kind[r] = "send" /\ leg[r][n] \in {"asking", "body"}
           => leg'[r][n] \in {"asking", "body"} \cup Finished]_vars
=============================================================================
