----------------------------- MODULE MuxForwarder -----------------------------
(***************************************************************************)
(* The forwarder tasks of src/src/proxy/grpc_mux.rs (subscribe_filtered):   *)
(* each reads the broadcast ring at its own pace, keeps what its client's   *)
(* filters match, and writes it to the client's bounded channel.            *)
(*                                                                         *)
(* The broadcast channel of tokio is a ring that never makes its sender     *)
(* wait: a receiver that fell out of the ring is told so (Lagged) and goes  *)
(* on with the oldest update still held.  The forwarder counts these        *)
(* events and, from max_lag_events on, ends the stream with DATA_LOSS.      *)
(*                                                                         *)
(* A client's channel is kept as everything ever sent into it, with the     *)
(* number of items the client took.  An update is its place in the log of   *)
(* everything broadcast; what a client's filters match is said by module    *)
(* GrpcFilters.  The two ways in which a task learns that its client has    *)
(* gone, the token and the closed channel, have one cause (the response     *)
(* stream is dropped) and one effect, and are one flag.                     *)
(***************************************************************************)
EXTENDS Naturals, Sequences, FiniteSets, GrpcFilters

CONSTANTS
    Clients,
    Readers,        \* the clients that keep reading, a subset of Clients
    Pingers,        \* the clients that send pings, a subset of Clients
    Request,        \* Request[c]: c's first request, which the mux serves
    Feed,           \* the updates that upstream sends
    Ring,           \* capacity of the broadcast ring
    ClientCap,      \* client_channel_capacity
    MaxLagEvents,   \* max_lag_events
    MaxLog,         \* bound: updates broadcast
    MaxPings        \* bound: pings of one client

ASSUME ForwarderAssumption ==
    /\ Readers \subseteq Clients /\ Pingers \subseteq Clients
    /\ \A c \in Clients : ToMux(Request[c])
    /\ Ring \in Nat \ {0}
    /\ ClientCap \in Nat \ {0}
    /\ MaxLagEvents \in Nat
    /\ MaxLog \in Nat /\ MaxPings \in Nat

VARIABLES
    log,         \* everything sent to the broadcast channel
    at,          \* where the forwarder of each client is
    start,       \* start[c]: the first place of the log c subscribed to
    next,        \* next[c]: the place c's receiver reads next
    hand,        \* hand[c]: the place of the matched update not sent yet, or 0
    sent,        \* sent[c]: everything put into c's channel
    taken,       \* taken[c]: how many of these the client took
    lagEvents,   \* lag_events
    pings,       \* pings[c]: pings received from c
    pongs,       \* pongs[c]: pongs waiting in pong_rx
    gone         \* gone[c]: the response stream was dropped

vars == <<log, at, start, next, hand, sent, taken, lagEvents, pings, pongs, gone>>

(***************************************************************************)
(* Where a forwarder is: "none" before the client subscribes, "select" in   *)
(* the outer select!, "matched" before try_send, "reserve" and "pong" while *)
(* it waits for room for an update or a pong, "cut" while it waits for room *)
(* for DATA_LOSS, "done".                                                   *)
(***************************************************************************)
Places == {"none", "select", "matched", "reserve", "pong", "cut", "done"}

Items == ({"update"} \X (1..MaxLog)) \cup {<<"pong", 0>>, <<"data_loss", 0>>}

TypeOK ==
    /\ log \in Seq(Feed) /\ Len(log) <= MaxLog
    /\ at \in [Clients -> Places]
    /\ start \in [Clients -> 1..(MaxLog + 1)]
    /\ next \in [Clients -> 1..(MaxLog + 1)]
    /\ hand \in [Clients -> 0..MaxLog]
    /\ sent \in [Clients -> Seq(Items)]
    /\ taken \in [Clients -> Nat]
    /\ lagEvents \in [Clients -> Nat]
    /\ pings \in [Clients -> 0..MaxPings]
    /\ pongs \in [Clients -> 0..MaxPings]
    /\ gone \in [Clients -> BOOLEAN]

Init ==
    /\ log = <<>>
    /\ at = [c \in Clients |-> "none"]
    /\ start = [c \in Clients |-> 1]
    /\ next = [c \in Clients |-> 1]
    /\ hand = [c \in Clients |-> 0]
    /\ sent = [c \in Clients |-> <<>>]
    /\ taken = [c \in Clients |-> 0]
    /\ lagEvents = [c \in Clients |-> 0]
    /\ pings = [c \in Clients |-> 0]
    /\ pongs = [c \in Clients |-> 0]
    /\ gone = [c \in Clients |-> FALSE]

Goto(c, from, to) == at[c] = from /\ at' = [at EXCEPT ![c] = to]

HasRoom(c) == Len(sent[c]) - taken[c] < ClientCap

Send(c, item) == sent' = [sent EXCEPT ![c] = Append(@, item)]

\* What c's filters match; pongs, which answer the proxy's own pings, are
\* never forwarded.
MatchedBy ==
    [c \in Clients |->
        {u \in Feed : u.kind # "pong" /\ match_update(from_request(Request[c]), u) # {}}]

Match(c, u) == u \in MatchedBy[c]

\* The oldest place still held by the ring.
Oldest == IF Len(log) > Ring THEN Len(log) - Ring + 1 ELSE 1

-----------------------------------------------------------------------------
(* The broadcaster and the clients.                                         *)

\* broadcast_tx.send() never waits.
Publish(u) ==
    /\ Len(log) < MaxLog
    /\ log' = Append(log, u)
    /\ UNCHANGED <<at, start, next, hand, sent, taken, lagEvents, pings, pongs, gone>>

Subscribe(c) ==
    /\ Goto(c, "none", "select")
    /\ start' = [start EXCEPT ![c] = Len(log) + 1]
    /\ next' = [next EXCEPT ![c] = Len(log) + 1]
    /\ UNCHANGED <<log, hand, sent, taken, lagEvents, pings, pongs, gone>>

Take(c) ==
    /\ ~gone[c] /\ taken[c] < Len(sent[c])
    /\ taken' = [taken EXCEPT ![c] = @ + 1]
    /\ UNCHANGED <<log, at, start, next, hand, sent, lagEvents, pings, pongs, gone>>

\* The request task turns a ping of the client into a pong.
Ping(c) ==
    /\ c \in Pingers
    /\ at[c] \notin {"none", "done"} /\ ~gone[c]
    /\ pings[c] < MaxPings
    /\ pings' = [pings EXCEPT ![c] = @ + 1]
    /\ pongs' = [pongs EXCEPT ![c] = @ + 1]
    /\ UNCHANGED <<log, at, start, next, hand, sent, taken, lagEvents, gone>>

\* The client disconnects, or its stream is over: tonic drops the response.
Leave(c) ==
    /\ at[c] # "none" /\ ~gone[c]
    /\ gone' = [gone EXCEPT ![c] = TRUE]
    /\ UNCHANGED <<log, at, start, next, hand, sent, taken, lagEvents, pings, pongs>>

-----------------------------------------------------------------------------
(* The outer select!, biased: gone, then the ring, then the pongs.          *)

Skip(c) ==
    /\ ~gone[c] /\ at[c] = "select"
    /\ next[c] \in Oldest..Len(log) /\ ~Match(c, log[next[c]])
    /\ next' = [next EXCEPT ![c] = @ + 1]
    /\ UNCHANGED <<log, at, start, hand, sent, taken, lagEvents, pings, pongs, gone>>

Matched(c) ==
    /\ ~gone[c] /\ Goto(c, "select", "matched")
    /\ next[c] \in Oldest..Len(log) /\ Match(c, log[next[c]])
    /\ hand' = [hand EXCEPT ![c] = next[c]]
    /\ next' = [next EXCEPT ![c] = @ + 1]
    /\ UNCHANGED <<log, start, sent, taken, lagEvents, pings, pongs, gone>>

\* Mutant: the event that reaches the limit is still let pass.
LimitPassed(n) == MaxLagEvents # 0 /\ n > MaxLagEvents

\* `cut`: the lag events have reached the limit.
LimitReached(n) == MaxLagEvents # 0 /\ n >= MaxLagEvents

Lagged(c) ==
    /\ ~gone[c] /\ at[c] = "select"
    /\ next[c] < Oldest
    /\ next' = [next EXCEPT ![c] = Oldest]
    /\ lagEvents' = [lagEvents EXCEPT ![c] = @ + 1]
    /\ at' = [at EXCEPT ![c] = IF LimitReached(lagEvents[c] + 1) THEN "cut" ELSE "select"]
    /\ UNCHANGED <<log, start, hand, sent, taken, pings, pongs, gone>>

RecvPong(c) ==
    /\ ~gone[c] /\ Goto(c, "select", "pong")
    /\ next[c] > Len(log) /\ pongs[c] > 0
    /\ pongs' = [pongs EXCEPT ![c] = @ - 1]
    /\ UNCHANGED <<log, start, next, hand, sent, taken, lagEvents, pings, gone>>

-----------------------------------------------------------------------------
(* Sending to the client.                                                   *)

\* An update goes into the channel and the task returns to the select!.
Deliver(c, from) ==
    /\ ~gone[c] /\ HasRoom(c)
    /\ Goto(c, from, "select")
    /\ Send(c, <<"update", hand[c]>>)
    /\ hand' = [hand EXCEPT ![c] = 0]
    /\ UNCHANGED <<log, start, next, taken, lagEvents, pings, pongs, gone>>

TrySendOk(c) == Deliver(c, "matched")

\* Mutant: a full channel drops the update.
TrySendDrops(c) ==
    /\ ~gone[c] /\ ~HasRoom(c)
    /\ Goto(c, "matched", "select")
    /\ hand' = [hand EXCEPT ![c] = 0]
    /\ UNCHANGED <<log, start, next, sent, taken, lagEvents, pings, pongs, gone>>

TrySendFull(c) ==
    /\ ~gone[c] /\ ~HasRoom(c)
    /\ Goto(c, "matched", "reserve")
    /\ UNCHANGED <<log, start, next, hand, sent, taken, lagEvents, pings, pongs, gone>>

\* Mutant: the update sent through the permit is tried once more.
ReservedRetries(c) ==
    /\ ~gone[c] /\ HasRoom(c)
    /\ Goto(c, "reserve", "matched")
    /\ Send(c, <<"update", hand[c]>>)
    /\ UNCHANGED <<log, start, next, hand, taken, lagEvents, pings, pongs, gone>>

Reserved(c) == Deliver(c, "reserve")

\* Mutant: no permit is awaited for a pong.
PongTried(c) ==
    /\ ~gone[c]
    /\ Goto(c, "pong", "select")
    /\ IF HasRoom(c) THEN Send(c, <<"pong", 0>>) ELSE UNCHANGED sent
    /\ UNCHANGED <<log, start, next, hand, taken, lagEvents, pings, pongs, gone>>

PongReserved(c) ==
    /\ ~gone[c] /\ HasRoom(c)
    /\ Goto(c, "pong", "select")
    /\ Send(c, <<"pong", 0>>)
    /\ UNCHANGED <<log, start, next, hand, taken, lagEvents, pings, pongs, gone>>

\* Mutant: try_send for send, DATA_LOSS is lost when the channel is full.
DataLossTry(c) ==
    /\ ~gone[c]
    /\ Goto(c, "cut", "done")
    /\ IF HasRoom(c) THEN Send(c, <<"data_loss", 0>>) ELSE UNCHANGED sent
    /\ UNCHANGED <<log, start, next, hand, taken, lagEvents, pings, pongs, gone>>

DataLoss(c) ==
    /\ ~gone[c] /\ HasRoom(c)
    /\ Goto(c, "cut", "done")
    /\ Send(c, <<"data_loss", 0>>)
    /\ UNCHANGED <<log, start, next, hand, taken, lagEvents, pings, pongs, gone>>

\* Mutant: the wait for room is not raced against the client's leaving.
StopOnlyInSelect(c) ==
    /\ gone[c] /\ at[c] \in {"select", "matched", "cut"}
    /\ at' = [at EXCEPT ![c] = "done"]
    /\ UNCHANGED <<log, start, next, hand, sent, taken, lagEvents, pings, pongs, gone>>

\* Every wait, and try_send, ends when the client has gone.
Stop(c) ==
    /\ gone[c] /\ at[c] \notin {"none", "done"}
    /\ at' = [at EXCEPT ![c] = "done"]
    /\ UNCHANGED <<log, start, next, hand, sent, taken, lagEvents, pings, pongs, gone>>

Forward(c) ==
    \/ Skip(c) \/ Matched(c) \/ Lagged(c) \/ RecvPong(c)
    \/ TrySendOk(c) \/ TrySendFull(c) \/ Reserved(c) \/ PongReserved(c)
    \/ DataLoss(c) \/ Stop(c)

Next ==
    \/ \E u \in Feed : Publish(u)
    \/ \E c \in Clients : Subscribe(c) \/ Take(c) \/ Ping(c) \/ Leave(c) \/ Forward(c)

Spec == Init /\ [][Next]_vars

(***************************************************************************)
(* Fairness: the runtime runs every forwarder, and the clients in Readers   *)
(* keep reading.  The others may stop reading without ever disconnecting.   *)
(***************************************************************************)
Fairness ==
    /\ \A c \in Clients : WF_vars(Forward(c))
    /\ \A c \in Readers : WF_vars(Take(c))

FairSpec == Spec /\ Fairness

-----------------------------------------------------------------------------
(* Properties.                                                              *)

\* The updates among the items sent to c, by their index; sent[c][i][2] is the
\* place of the i-th item in the log.
Updates(c) == {i \in DOMAIN sent[c] : sent[c][i][1] = "update"}

\* Before the i-th item an update is missing that the client asked for.
HoleBefore(c, i) ==
    \E n \in start[c]..(sent[c][i][2] - 1) :
        Match(c, log[n]) /\ \A j \in Updates(c) : j < i => sent[c][j][2] < n

Holes(c) == {i \in Updates(c) : HoleBefore(c, i)}

\* Whatever a client that has not subscribed yet asks for: if it is routed to
\* the mux, then it gets what a server would send it for the live form of its
\* request, under the same filter names and nothing else, from what the mux
\* itself subscribed to (grpc_filter.rs:46-267, grpc_mux.rs:900-961).  A request
\* that is its own live form is served as by a stream of its own.  The others
\* are not: neither the routing (grpc_filter.rs:81-109, grpc_yellowstone.rs:474)
\* nor the match looks at commitment, from_slot, filter_by_commitment or
\* interslot_updates, which a server honours.
MuxLikeUpstream == (\A c \in Clients : at[c] = "none") => ServesLive

\* A client gets the updates its filters match in the order in which they
\* were broadcast, each at most once, through full channels, pongs and lag.
InOrderOnce ==
    \A c \in Clients : \A i, j \in Updates(c) : i < j => sent[c][i][2] < sent[c][j][2]

\* With a limit of M lag events no client streams on across M holes: it "sees
\* the hole and reconnects instead of silently streaming with gaps"
\* (grpc_mux.rs:293-294), and without lag there is no hole at all.
HolesBounded ==
    \A c \in Clients :
        /\ Cardinality(Holes(c)) <= lagEvents[c]
        /\ MaxLagEvents # 0 => Cardinality(Holes(c)) < MaxLagEvents

\* A forwarder ends when its client has gone, wherever it was waiting, also
\* for room in the channel of a client that had stopped reading.
GoneIsNoticed == \A c \in Clients : gone[c] ~> at[c] = "done"

\* A client that keeps reading gets every update it asked for, or DATA_LOSS,
\* or lagged; that another client does not read changes nothing for it.
ReaderIsServed ==
    \A c \in Readers : \A n \in 1..MaxLog :
        (/\ at[c] # "none" /\ n \in start[c]..Len(log) /\ Match(c, log[n]))
          ~> (\/ \E i \in 1..taken[c] : sent[c][i] = <<"update", n>>
              \/ lagEvents[c] > 0 \/ gone[c])

\* The ping of a client that keeps reading is answered although the select!
\* prefers the ring and the channel may be full: when the feed pauses at the
\* latest (here it ends after MaxLog updates), unless the stream is cut.
PingIsAnswered ==
    \A c \in Readers \cap Pingers :
        pings[c] > 0 ~> (\/ gone[c]
                         \/ \E i \in 1..taken[c] : sent[c][i][1] \in {"pong", "data_loss"})

\* A client that reached the limit is told: it reads DATA_LOSS, behind
\* whatever was still queued for it.
CutIsTold ==
    \A c \in Readers :
        at[c] = "cut" ~> (gone[c] \/ \E i \in 1..taken[c] : sent[c][i] = <<"data_loss", 0>>)
=============================================================================
