------------------------- MODULE SubscribeSupervisor -------------------------
(***************************************************************************)
(* The life of streaming subscriptions: the subscribe handlers of           *)
(* src/src/proxy/grpc_yellowstone.rs and grpc_arpc.rs, and the supervisor   *)
(* task of subscribe_supervisor.rs that owns the active-stream counters and *)
(* the stream's forwarder tasks (its children).                             *)
(*                                                                         *)
(* A Yellowstone handler reads the counter and awaits the client's first     *)
(* message, an aRPC handler connects to an upstream and awaits its answer;   *)
(* only then do they start the supervisor, which increments.  When           *)
(* the response stream is dropped the supervisor cancels the children,      *)
(* gives them two seconds, aborts the rest and decrements.  Every atomic    *)
(* operation on a shared counter is a step.                                 *)
(*                                                                         *)
(* A child is "running" at an await raced against the token, "blocked" at   *)
(* one that is not, or "exited".  Its messages are left out.  The mux       *)
(* forwarder is not a child: see MuxForwarder.                              *)
(***************************************************************************)
EXTENDS Naturals, FiniteSets

CONSTANTS
    Streams,            \* subscribe calls
    Kind,               \* Kind[s]: the handler that s calls
    Ip,                 \* Ip[s]: its client
    MaxStreamsPerIp     \* MAX_STREAMS_PER_IP, 500 in the code

(***************************************************************************)
(* The tasks that each handler spawns into the JoinSet: of a mux stream the *)
(* ping task alone, its forwarder being a free task that the supervisor     *)
(* neither joins nor aborts.  The direct handler's "manager"                *)
(* awaits upstream_tx.send, the aRPC handlers' "responses" await            *)
(* downstream_tx.send(Err), without looking at the token.                   *)
(***************************************************************************)
MuxChildren == {"pings"}
DirectChildren == {"requests", "manager"}
ArpcV1Children == {"requests", "responses"}
ArpcV2TransactionsChildren == {"requests", "responses"}
ArpcV2ServerStreamingChildren == {"responses"}
CanBlock == {"manager", "responses"}

ChildrenOf ==
    [mux |-> MuxChildren, direct |-> DirectChildren, v1 |-> ArpcV1Children,
     v2tx |-> ArpcV2TransactionsChildren, v2server |-> ArpcV2ServerStreamingChildren]

ASSUME SupervisorAssumption ==
    /\ IsFiniteSet(Streams)
    /\ Kind \in [Streams -> DOMAIN ChildrenOf]
    /\ MaxStreamsPerIp \in Nat

Kids(s) == ChildrenOf[Kind[s]]

\* The streams of Yellowstone's handlers, which check the limit.
Limited == {s \in Streams : Kind[s] \in {"mux", "direct"}}

\* IpStats.active_grpc_streams or active_arpc_streams of the client.
Account(s) == <<Ip[s], IF s \in Limited THEN "grpc" ELSE "arpc">>

Accounts == {Account(s) : s \in Streams}

VARIABLES
    phase,      \* where the handler or the supervisor of each stream is
    child,      \* child[s][k]: state of each child
    joined,     \* joined[s]: children taken out of the JoinSet
    dropped,    \* dropped[s]: the response stream, and its handle, are gone
    perIp,      \* IpStats.active_grpc_streams / active_arpc_streams
    active,     \* subscribe_supervisor_alive
    drops,      \* subscribe_supervisor_drops_total
    aborted     \* forwarder_aborted_total

counters == <<perIp, active, drops, aborted>>
vars == <<phase, child, joined, dropped, counters>>

(***************************************************************************)
(* Phases: "new"; "checked", access was granted, the limit was read and the *)
(* handler awaits; "connected", it awaits the aRPC upstream's answer;       *)
(* "counting", per-IP counter incremented, global one not yet; "open";      *)
(* "grace", token cancelled; "swept", no child left; "releasing", per-IP    *)
(* counter decremented; "released", the global one too; "closed"; or the    *)
(* call ended without a stream: "refused".                                  *)
(***************************************************************************)
Phases == {"new", "checked", "connected", "counting", "open", "grace", "swept",
           "releasing", "released", "closed", "refused"}

TypeOK ==
    /\ phase \in [Streams -> Phases]
    /\ child = [s \in Streams |-> child[s]]
    /\ \A s \in Streams : child[s] \in [Kids(s) -> {"running", "blocked", "exited"}]
    /\ joined = [s \in Streams |-> joined[s]]
    /\ \A s \in Streams : joined[s] \subseteq Kids(s)
    /\ dropped \in [Streams -> BOOLEAN]
    /\ perIp \in [Accounts -> Nat]
    /\ active \in Nat /\ drops \in Nat /\ aborted \in Nat

Init ==
    /\ phase = [s \in Streams |-> "new"]
    /\ child = [s \in Streams |-> [k \in Kids(s) |-> "exited"]]
    /\ joined = [s \in Streams |-> {}]
    /\ dropped = [s \in Streams |-> FALSE]
    /\ perIp = [a \in Accounts |-> 0]
    /\ active = 0 /\ drops = 0 /\ aborted = 0

Goto(s, from, to) == phase[s] = from /\ phase' = [phase EXCEPT ![s] = to]

-----------------------------------------------------------------------------
(* The handler.                                                             *)

\* No API key and not whitelisted, or (aRPC) over its rate: an error.
Deny(s) ==
    /\ Goto(s, "new", "refused")
    /\ UNCHANGED <<child, joined, dropped, counters>>

\* Mutant: off by one.
CheckOneMore(s) ==
    /\ s \in Limited => perIp[Account(s)] <= MaxStreamsPerIp
    /\ Goto(s, "new", "checked")
    /\ UNCHANGED <<child, joined, dropped, counters>>

\* The limit is read; the supervisor increments much later.
Check(s) ==
    /\ s \in Limited => perIp[Account(s)] < MaxStreamsPerIp
    /\ Goto(s, "new", "checked")
    /\ UNCHANGED <<child, joined, dropped, counters>>

\* RESOURCE_EXHAUSTED.
Refuse(s) ==
    /\ s \in Limited /\ perIp[Account(s)] >= MaxStreamsPerIp
    /\ Goto(s, "new", "refused")
    /\ UNCHANGED <<child, joined, dropped, counters>>

\* aRPC: a node is available and was connected to; subscribe is called there.
GetUpstream(s) ==
    /\ s \notin Limited
    /\ Goto(s, "checked", "connected")
    /\ UNCHANGED <<child, joined, dropped, counters>>

\* Where the handler is when it starts the supervisor.
Ready(s) == IF s \in Limited THEN "checked" ELSE "connected"

\* The stream is empty or broken, no node is available or answers, or the
\* client leaves and the handler is dropped while it awaits.
GiveUp(s) ==
    /\ \E at \in {"checked", "connected"} : Goto(s, at, "refused")
    /\ UNCHANGED <<child, joined, dropped, counters>>

\* The children are spawned, and start() increments the per-IP counter ...
Start(s) ==
    /\ Goto(s, Ready(s), "counting")
    /\ child' = [child EXCEPT ![s] = [k \in Kids(s) |-> "running"]]
    /\ perIp' = [perIp EXCEPT ![Account(s)] = @ + 1]
    /\ UNCHANGED <<joined, dropped, active, drops, aborted>>

\* ... then the global one, and spawns the supervisor.
Supervise(s) ==
    /\ Goto(s, "counting", "open")
    /\ active' = active + 1
    /\ UNCHANGED <<child, joined, dropped, perIp, drops, aborted>>

-----------------------------------------------------------------------------
(* The client and the children.                                             *)

Drop(s) ==
    /\ phase[s] = "open" /\ ~dropped[s]
    /\ dropped' = [dropped EXCEPT ![s] = TRUE]
    /\ UNCHANGED <<phase, child, joined, counters>>

ChildTo(s, k, from, to) ==
    /\ child[s][k] = from
    /\ child' = [child EXCEPT ![s][k] = to]
    /\ UNCHANGED <<phase, joined, dropped, counters>>

\* The request side is half-closed, the upstream ended, a channel closed, or
\* the token was seen: a child is done.
ChildExit(s, k) == ChildTo(s, k, "running", "exited")

ChildBlock(s, k) == k \in CanBlock /\ ChildTo(s, k, "running", "blocked")

ChildUnblock(s, k) == ChildTo(s, k, "blocked", "running")

-----------------------------------------------------------------------------
(* The supervisor.                                                          *)

Cancel(s) ==
    /\ dropped[s]
    /\ Goto(s, "open", "grace")
    /\ UNCHANGED <<child, joined, dropped, counters>>

JoinNext(s, k) ==
    /\ phase[s] = "grace"
    /\ child[s][k] = "exited" /\ k \notin joined[s]
    /\ joined' = [joined EXCEPT ![s] = @ \cup {k}]
    /\ UNCHANGED <<phase, child, dropped, counters>>

\* join_next() found the JoinSet empty.
AllJoined(s) ==
    /\ joined[s] = Kids(s)
    /\ Goto(s, "grace", "swept")
    /\ UNCHANGED <<child, joined, dropped, counters>>

Alive(s) == {k \in Kids(s) : child[s][k] # "exited"}

\* Mutant: wait for the children, never abort them.
GraceForever(s) ==
    /\ Alive(s) = {}
    /\ Goto(s, "grace", "swept")
    /\ UNCHANGED <<child, joined, dropped, counters>>

\* Mutant: what is left is counted and not aborted.
GraceOverKeeps(s) ==
    /\ Goto(s, "grace", "swept")
    /\ aborted' = aborted + Cardinality(Kids(s) \ joined[s])
    /\ UNCHANGED <<child, joined, dropped, perIp, active, drops>>

\* Two seconds are over: what is left in the JoinSet is counted and aborted.
GraceOver(s) ==
    /\ Goto(s, "grace", "swept")
    /\ aborted' = aborted + Cardinality(Kids(s) \ joined[s])
    /\ child' = [child EXCEPT ![s] = [k \in Kids(s) |-> "exited"]]
    /\ joined' = [joined EXCEPT ![s] = Kids(s)]
    /\ UNCHANGED <<dropped, perIp, active, drops>>

ReleasePerIp(s) ==
    /\ Goto(s, "swept", "releasing")
    /\ perIp' = [perIp EXCEPT ![Account(s)] = @ - 1]
    /\ UNCHANGED <<child, joined, dropped, active, drops, aborted>>

\* Mutant: only the per-IP counter is given back.
ReleaseNothing(s) ==
    /\ Goto(s, "releasing", "released")
    /\ UNCHANGED <<child, joined, dropped, counters>>

ReleaseGlobal(s) ==
    /\ Goto(s, "releasing", "released")
    /\ active' = active - 1
    /\ UNCHANGED <<child, joined, dropped, perIp, drops, aborted>>

CountDrop(s) ==
    /\ Goto(s, "released", "closed")
    /\ drops' = drops + 1
    /\ UNCHANGED <<child, joined, dropped, perIp, active, aborted>>

Handler(s) ==
    \/ Deny(s) \/ Check(s) \/ Refuse(s) \/ GetUpstream(s) \/ GiveUp(s)
    \/ Start(s) \/ Supervise(s)

Supervisor(s) ==
    \/ Cancel(s) \/ AllJoined(s) \/ GraceOver(s)
    \/ \E k \in Kids(s) : JoinNext(s, k)
    \/ ReleasePerIp(s) \/ ReleaseGlobal(s) \/ CountDrop(s)

Child(s, k) == ChildExit(s, k) \/ ChildBlock(s, k) \/ ChildUnblock(s, k)

Next ==
    \E s \in Streams :
        Handler(s) \/ Drop(s) \/ Supervisor(s) \/ \E k \in Kids(s) : Child(s, k)

Spec == Init /\ [][Next]_vars

\* The runtime runs every supervisor; the grace timer fires.  Nothing is
\* assumed of the children, which may stay blocked, nor of the clients.
FairSpec == Spec /\ \A s \in Streams : WF_vars(Supervisor(s))

-----------------------------------------------------------------------------
(* Properties.                                                              *)

InPhase(ps) == {s \in Streams : phase[s] \in ps}

\* The phases in which a stream is counted on its IP, and globally.
OnIp == {"counting", "open", "grace", "swept"}
OnGlobal == {"open", "grace", "swept", "releasing"}

\* The streams of an account that check the limit and are in these phases.
LimitedAt(a, ps) == {s \in Limited : phase[s] \in ps /\ Account(s) = a}

\* Every counter tells how many streams there really are, through every
\* interleaving of streams that open and close: `subscribe_supervisor_alive`
\* differs from the sum of the per-IP counters (stats.rs:84-86) only by the
\* streams that are between the two increments or the two decrements, and
\* every drop is counted once (subscribe_supervisor.rs:101-104).
CountersExact ==
    /\ \A a \in Accounts :
          perIp[a] = Cardinality({s \in InPhase(OnIp) : Account(s) = a})
    /\ active = Cardinality(InPhase(OnGlobal))
    /\ drops = Cardinality(InPhase({"closed"}))

\* No child outlives the counters that stand for its stream: a stream that
\* is no longer counted has no task of its JoinSet left, not even one that was
\* blocked (subscribe_supervisor.rs:79-99).  A mux stream's forwarder is not in
\* the JoinSet (a free tokio::spawn, grpc_mux.rs:243) and may end later: that
\* it does is GoneIsNoticed in MuxForwarder.
NoZombies ==
    \A s \in InPhase({"swept", "releasing", "released", "closed", "refused"}) :
        Alive(s) = {}

\* A client that left is released: its counters are given back although a
\* child stays blocked where it does not see the token.
DroppedIsReleased == \A s \in Streams : dropped[s] ~> phase[s] = "closed"

\* "Max concurrent gRPC streams per IP" (grpc_yellowstone.rs:33): the limit is
\* read long before the stream is counted, so it holds as long as no two
\* calls of an IP are between the two at a time, through every stream that
\* opens, closes, or is refused meanwhile.
LimitWithoutOverlap ==
    \A a \in Accounts :
        [](Cardinality(LimitedAt(a, {"checked"})) <= 1)
          => [](Cardinality(LimitedAt(a, OnIp)) <= MaxStreamsPerIp)
=============================================================================
