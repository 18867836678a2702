---------------------------- MODULE UpstreamReplay ----------------------------
(***************************************************************************)
(* A stream that outlives its upstreams: the single-upstream loop of        *)
(* src/src/proxy/grpc_mux.rs ("mux") and the upstream manager of a direct   *)
(* subscription in grpc_yellowstone.rs ("direct").  Both reconnect for ever *)
(* and decide after each failure from which slot to resume; a direct one    *)
(* also relays its client's requests, and sends the latest one again.       *)
(*                                                                         *)
(* Upstream (external): the chain is a log of messages, three for a slot:   *)
(* data, the slot's processed update, and data that follows it (block meta, *)
(* entries).  A slot that its leader skipped has none, and a slot builds on *)
(* any earlier one, so that the chain may fork.  Every subscription gets    *)
(* the data, in the order of the log, and the slot updates if its filter    *)
(* names slots.  A live subscription starts at the end of the log, a replay *)
(* at the first message of its slot; slots older than `oldest` are gone,    *)
(* and asking for one is refused, at once or on the stream.  A from_slot in *)
(* a later request is ignored.                                              *)
(*                                                                         *)
(* A slot has updates of other statuses too.  Most come behind the slot     *)
(* (confirmed, finalized), but under the filters in Early they may run      *)
(* ahead of the data: the interslot updates, or the updates of a client     *)
(* that asked for data of a later commitment.                               *)
(*                                                                         *)
(* Slot 0 stands for None.  The node that is picked, the sleep's length and *)
(* the filters' contents are left out.                                      *)
(***************************************************************************)
EXTENDS Integers, Sequences, FiniteSets, SlotTracker

CONSTANTS
    Filters,       \* the filters a client may ask for
    WithSlots,     \* the filters that name slots, the mux's own among them
    Early,         \* of these, the ones whose slot updates run ahead of the data
    Froms,         \* the from_slot of a client's requests; 0: none
    UpCap,         \* capacity of the request channel, 256 in the code
    MaxSlot,       \* bound: slots of the chain
    DirectSlots,   \* bound: slots of the chain under a direct subscription
    MaxRequests    \* bound: requests after the first one

ASSUME ReplayAssumption ==
    /\ Early \subseteq WithSlots
    /\ Froms \subseteq 0..MaxSlot
    /\ UpCap \in Nat \ {0}
    /\ MaxSlot \in Nat /\ DirectSlots \in 0..MaxSlot /\ MaxRequests \in Nat

Requests == [filter : Filters, from : Froms]

\* A ping carries no filters.
Ping == [filter |-> "ping", from |-> 0]

\* build_mux_subscribe_request(None): data as it is processed, no interslot
\* updates.
MuxRequests == [filter : WithSlots \ Early, from : {0}]

VARIABLES
    mode,         \* "mux" or "direct"
    replay,       \* replay_on_reconnect
    emitted,      \* messages of the chain so far
    oldest,       \* the oldest slot that can be replayed
    skipped,      \* the slots without a block
    parent,       \* parent[slot]: the slot it builds on
    phase,        \* where the loop is
    latest,       \* latest_req
    replayFrom,   \* replay_from
    lastSlot,     \* last_slot: of the tracker ("mux") or of the manager
    recent,       \* the tracker's ring ("mux")
    got,          \* messages > 0 on this stream
    cursor,       \* the next message of this stream; 0: it will be refused
    subscribed,   \* the filter upstream works with
    toUpstream,   \* requests in upstream_tx
    pongDue,      \* upstream will answer a ping
    fromClient,   \* requests in client_rx
    requests,     \* number of requests the client sent after the first one
    hand,         \* the message that waits for a permit
    excused,      \* history: why the next stream may start after a hole
    told,         \* history: slots whose parent the tracker found missing
    observed,     \* history: slots the tracker was fed
    run           \* history: [since, data], the data handed over since the
                  \* last start after a hole

chain == <<emitted, oldest, skipped, parent>>
stream == <<got, cursor, subscribed, toUpstream, pongDue, hand>>
client == <<fromClient, requests>>
slots == <<lastSlot, recent, told, observed>>
vars == <<mode, replay, chain, phase, latest, replayFrom, slots, stream,
          client, excused, run>>

Phases == {"connecting", "streaming", "forwarding", "relaying", "sleeping", "closed"}
Established == {"streaming", "forwarding", "relaying"}

SlotOf(m) == (m + 2) \div 3
FirstOf(slot) == 3 * slot - 2
IsSlotUpdate(m) == m % 3 = 2
Messages == 1..(3 * MaxSlot)

TypeOK ==
    /\ mode \in {"mux", "direct"} /\ replay \in BOOLEAN
    /\ emitted \in 0..(3 * MaxSlot) /\ oldest \in 1..(MaxSlot + 1)
    /\ skipped \subseteq 1..MaxSlot /\ parent \in [1..MaxSlot -> 0..MaxSlot]
    /\ phase \in Phases
    /\ latest \in Requests \cup MuxRequests
    /\ replayFrom \in 0..MaxSlot /\ lastSlot \in 0..MaxSlot
    /\ recent \in Seq(1..MaxSlot) /\ Len(recent) <= Window
    /\ told \subseteq observed /\ observed \subseteq 1..MaxSlot
    /\ got \in BOOLEAN /\ cursor \in 0..(3 * MaxSlot + 1)
    /\ subscribed \in Filters \cup WithSlots
    /\ toUpstream \in Seq(Requests \cup {Ping}) /\ Len(toUpstream) <= UpCap
    /\ pongDue \in BOOLEAN
    /\ fromClient \in Seq(Requests \cup {Ping}) /\ requests \in 0..MaxRequests
    /\ hand \in 0..(3 * MaxSlot)
    /\ excused \in BOOLEAN
    /\ run \in [since : 0..(3 * MaxSlot + 1), data : SUBSET Messages]

Init ==
    /\ mode \in {"mux", "direct"} /\ replay \in BOOLEAN
    /\ emitted = 0 /\ oldest = 1
    /\ skipped = {} /\ parent = [slot \in 1..MaxSlot |-> 0]
    /\ phase = "connecting"
    /\ latest \in IF mode = "mux" THEN MuxRequests ELSE Requests
    /\ replayFrom = 0 /\ lastSlot = 0
    /\ recent = <<>> /\ told = {} /\ observed = {}
    /\ got = FALSE /\ cursor = 0 /\ subscribed = latest.filter
    /\ toUpstream = <<>> /\ pongDue = FALSE
    /\ fromClient = <<>> /\ requests = 0
    /\ hand = 0
    /\ excused = TRUE
    /\ run = [since |-> 0, data |-> {}]

Goto(from, to) == phase = from /\ phase' = to

\* The loop lets go of its stream.
StreamDropped ==
    /\ got' = FALSE /\ cursor' = 0 /\ subscribed' = latest.filter
    /\ toUpstream' = <<>> /\ pongDue' = FALSE /\ hand' = 0

-----------------------------------------------------------------------------
(* The chain and the client.                                                *)

\* A slot begins, and there may be more.
SlotBegins == emitted % 3 = 0

MoreSlots == emitted < 3 * (IF mode = "mux" THEN MaxSlot ELSE DirectSlots)

\* What the slot that begins may build on; nobody reads it of a direct stream.
Parents == IF mode = "mux" THEN (0..SlotOf(emitted)) \ skipped ELSE {0}

Emit ==
    /\ MoreSlots
    /\ emitted' = emitted + 1
    /\ IF SlotBegins THEN \E p \in Parents : parent' = [parent EXCEPT ![SlotOf(emitted + 1)] = p]
       ELSE UNCHANGED parent
    /\ UNCHANGED <<mode, replay, oldest, skipped, phase, latest, replayFrom, slots,
                   stream, client, excused, run>>

LeaderSkips ==
    /\ MoreSlots /\ SlotBegins
    /\ emitted' = emitted + 3
    /\ skipped' = skipped \cup {SlotOf(emitted + 1)}
    /\ UNCHANGED <<mode, replay, oldest, parent, phase, latest, replayFrom, slots,
                   stream, client, excused, run>>

Forget ==
    /\ oldest < SlotOf(emitted)
    /\ oldest' = oldest + 1
    /\ UNCHANGED <<mode, replay, emitted, skipped, parent, phase, latest, replayFrom, slots,
                   stream, client, excused, run>>

\* The client forwarder passes a request on to the manager.
ClientSends(r) ==
    /\ mode = "direct" /\ phase # "closed" /\ requests < MaxRequests
    /\ requests' = requests + 1
    /\ fromClient' = Append(fromClient, r)
    /\ UNCHANGED <<mode, replay, chain, phase, latest, replayFrom, slots,
                   stream, excused, run>>

\* The token is cancelled or the downstream channel closed: the waits of the
\* manager are raced against it, but for upstream_tx.send() (Relay), where the
\* supervisor aborts it after the grace (see SubscribeSupervisor).
ClientGone ==
    /\ mode = "direct" /\ phase # "closed"
    /\ phase' = "closed" /\ StreamDropped
    /\ UNCHANGED <<mode, replay, chain, latest, replayFrom, slots, client,
                   excused, run>>

-----------------------------------------------------------------------------
(* What to ask for, and what a failure makes of it.                         *)

\* from_slot of the request that is sent.
Asked == IF replayFrom # 0 THEN replayFrom ELSE latest.from

\* Upstream no longer has that slot.
Refused == Asked # 0 /\ Asked < oldest

\* Mutant: no refusal is recognised.
NeverRejected(established, refused) == FALSE

\* `rejected`: a replay was refused, or it was established and brought nothing.
Rejected(established, refused) ==
    replayFrom # 0 /\ ((established /\ ~got) \/ refused)

\* Mutant: resume behind the last slot seen.
AfterLastSlot == IF lastSlot = 0 \/ lastSlot = MaxSlot THEN lastSlot ELSE lastSlot + 1

ReplaySlot == lastSlot

\* The slot to resume from is ahead of the message that the stream was at.
RanAhead == cursor # 0 /\ FirstOf(lastSlot) > cursor

\* replay_from after a stream ended (or, in the mux, never came up).
Decide(established, refused) ==
    /\ replayFrom' = IF ~replay \/ Rejected(established, refused) THEN 0 ELSE ReplaySlot
    /\ excused' =
         \/ excused \/ ~replay \/ lastSlot = 0
         \/ replayFrom # 0 /\ (refused \/ (established /\ ~got))
         \/ established /\ RanAhead

\* The subscribe call failed, `refused` if its status looks like that of a
\* refused replay (is_replay_rejection): the mux decides as after every attempt,
\* the manager keeps its slot unless it was refused.
SubscribeFails(refused) ==
    /\ Goto("connecting", "sleeping")
    /\ IF mode = "mux" THEN Decide(FALSE, refused)
       ELSE /\ replayFrom' = IF Rejected(FALSE, refused) THEN 0 ELSE replayFrom
            /\ excused' = (excused \/ (replayFrom # 0 /\ refused))
    /\ UNCHANGED <<mode, replay, chain, latest, slots, stream, client, run>>

Wake ==
    /\ Goto("sleeping", "connecting")
    /\ UNCHANGED <<mode, replay, chain, latest, replayFrom, slots, stream,
                   client, excused, run>>

-----------------------------------------------------------------------------
(* An established stream.                                                   *)

\* The mux's pinger sends its first ping at once.
Establish(at) ==
    /\ Goto("connecting", "streaming")
    /\ cursor' = at
    /\ got' = FALSE /\ hand' = 0
    /\ subscribed' = latest.filter
    /\ toUpstream' = <<>> /\ pongDue' = (mode = "mux")
    /\ UNCHANGED <<mode, replay, chain, latest, replayFrom, slots, client>>

\* What is older than the last slot seen is a repetition.
EstablishServed ==
    LET at == IF Asked = 0 THEN emitted + 1 ELSE FirstOf(Asked)
        since == IF Asked \in 1..(lastSlot - 1) THEN FirstOf(lastSlot) ELSE at
    IN  /\ ~Refused
        /\ Establish(at)
        /\ run' = IF excused THEN [since |-> since, data |-> {}] ELSE run
        /\ excused' = FALSE

EstablishRefused == Refused /\ Establish(0) /\ UNCHANGED <<excused, run>>

\* No data: a slot update, or nothing because the slot was skipped.
NoData(m) == IsSlotUpdate(m) \/ SlotOf(m) \in skipped

\* Data that reached the broadcast channel, or the client's.
HandOver(m) ==
    run' = IF m = 0 \/ IsSlotUpdate(m) THEN run ELSE [run EXCEPT !.data = @ \cup {m}]

\* Upstream passes over skipped slots and what the filter does not ask for.
Pass ==
    /\ phase \in Established /\ cursor \in 1..emitted
    /\ \/ SlotOf(cursor) \in skipped
       \/ IsSlotUpdate(cursor) /\ subscribed \notin WithSlots
    /\ cursor' = cursor + 1
    /\ UNCHANGED <<mode, replay, chain, phase, latest, replayFrom, slots, got,
                   subscribed, toUpstream, pongDue, hand, client, excused, run>>

\* A message arrives, 0 for one that is not in the log.  The manager's select!
\* is biased towards the client's requests, and sending waits for a permit; the
\* mux drops a pong, and its broadcast channel never makes it wait.
Arrives(m) ==
    /\ phase = "streaming" /\ fromClient = <<>>
    /\ got' = TRUE
    /\ IF mode = "mux" THEN HandOver(m) /\ UNCHANGED <<phase, hand>>
       ELSE phase' = "forwarding" /\ hand' = m /\ UNCHANGED run
    /\ UNCHANGED <<mode, replay, chain, latest, replayFrom, subscribed,
                   toUpstream, client, excused>>

\* Mutant: the slot before is taken for the parent.
TrackPrevious(slot) ==
    /\ recent' = Push(recent, slot)
    /\ told' = IF Missing(recent, slot - 1) THEN told \cup {slot} ELSE told
    /\ observed' = observed \cup {slot}

\* track_slot: the mux's tracker is told of every processed slot.
Track(slot) ==
    /\ recent' = Push(recent, slot)
    /\ told' = IF Missing(recent, parent[slot]) THEN told \cup {slot} ELSE told
    /\ observed' = observed \cup {slot}

\* A processed update: both loops keep the highest slot.
ReceiveSlot ==
    /\ cursor \in 1..emitted /\ SlotOf(cursor) \notin skipped
    /\ IsSlotUpdate(cursor) /\ subscribed \in WithSlots
    /\ Arrives(cursor)
    /\ lastSlot' = Highest(lastSlot, SlotOf(cursor))
    /\ IF mode = "mux" THEN Track(SlotOf(cursor)) ELSE UNCHANGED <<recent, told, observed>>
    /\ cursor' = cursor + 1
    /\ UNCHANGED pongDue

\* An update of another status, of a slot that the stream is past, or of any
\* slot that has begun when they run ahead.  The manager does not look at the
\* status, the tracker passes over all but processed ones.
ReceiveStatus(slot) ==
    /\ cursor # 0 /\ subscribed \in WithSlots
    /\ FirstOf(slot) <= emitted /\ slot \notin skipped
    /\ 3 * slot < cursor \/ subscribed \in Early
    /\ Arrives(0)
    /\ lastSlot' = IF mode = "direct" THEN Highest(lastSlot, slot) ELSE lastSlot
    /\ UNCHANGED <<recent, told, observed, pongDue, cursor>>

Receive ==
    /\ cursor \in 1..emitted /\ ~NoData(cursor)
    /\ Arrives(cursor)
    /\ cursor' = cursor + 1
    /\ UNCHANGED <<slots, pongDue>>

ReceivePong ==
    /\ pongDue /\ Arrives(0)
    /\ pongDue' = FALSE
    /\ UNCHANGED <<slots, cursor>>

\* The client's channel has room.
Forward ==
    /\ Goto("forwarding", "streaming")
    /\ HandOver(hand)
    /\ hand' = 0
    /\ UNCHANGED <<mode, replay, chain, latest, replayFrom, slots, got, cursor,
                   subscribed, toUpstream, pongDue, client, excused>>

\* Mutant: a ping replaces the subscription like any other request.
LatestAfterAny(r) == r

\* A ping does not change the subscription, any other request replaces it.
LatestAfter(r) == IF r = Ping THEN latest ELSE r

TakeRequest ==
    /\ Goto("streaming", "relaying") /\ fromClient # <<>>
    /\ latest' = LatestAfter(Head(fromClient))
    /\ UNCHANGED <<mode, replay, chain, replayFrom, slots, stream, client,
                   excused, run>>

\* upstream_tx.send() waits for room.
Relay ==
    /\ Goto("relaying", "streaming") /\ Len(toUpstream) < UpCap
    /\ toUpstream' = Append(toUpstream, Head(fromClient))
    /\ fromClient' = Tail(fromClient)
    /\ UNCHANGED <<mode, replay, chain, latest, replayFrom, slots, got, cursor,
                   subscribed, pongDue, hand, requests, excused, run>>

UpstreamReads ==
    /\ phase \in Established /\ toUpstream # <<>>
    /\ LET r == Head(toUpstream)
       IN  /\ subscribed' = IF r = Ping THEN subscribed ELSE r.filter
           /\ pongDue' = (pongDue \/ r = Ping)
    /\ toUpstream' = Tail(toUpstream)
    /\ UNCHANGED <<mode, replay, chain, phase, latest, replayFrom, slots, got,
                   cursor, hand, client, excused, run>>

\* The stream ends or fails while the loop reads it, or its request side is
\* found closed.  `refused` tells that its status looks like that of a refused
\* replay, which the status of any stream may.
StreamEnds(refused) ==
    /\ phase \in {"streaming", "relaying"}
    /\ refused => phase = "streaming"
    /\ phase' = "sleeping" /\ StreamDropped
    /\ Decide(TRUE, refused)
    /\ fromClient' = IF phase = "relaying" THEN Tail(fromClient) ELSE fromClient
    /\ UNCHANGED <<mode, replay, chain, latest, slots, requests, run>>

Next ==
    \/ Emit \/ LeaderSkips \/ Forget \/ ClientGone
    \/ \E r \in Requests \cup {Ping} : ClientSends(r)
    \/ Wake
    \/ \E refused \in BOOLEAN : SubscribeFails(refused)
    \/ EstablishServed \/ EstablishRefused
    \/ Pass \/ Receive \/ ReceiveSlot \/ ReceivePong \/ Forward
    \/ \E slot \in 1..MaxSlot : ReceiveStatus(slot)
    \/ TakeRequest \/ Relay \/ UpstreamReads
    \/ \E refused \in BOOLEAN : StreamEnds(refused)

Spec == Init /\ [][Next]_vars

(***************************************************************************)
(* Fairness: sleeps end; an upstream that is asked again and again for what *)
(* it can serve serves it in the end, one that is asked for what it cannot  *)
(* refuses, in the call or on a stream, and a stream it refuses ends, with  *)
(* whatever status.  This is an assumption about the cluster: without it no *)
(* stream could promise anything.                                           *)
(***************************************************************************)
FairSpec ==
    /\ Spec
    /\ WF_vars(Wake)
    /\ SF_vars(EstablishServed)
    /\ SF_vars(EstablishRefused \/ (Refused /\ SubscribeFails(TRUE)))
    /\ WF_vars(cursor = 0 /\ \E refused \in BOOLEAN : StreamEnds(refused))

-----------------------------------------------------------------------------
(* Properties.                                                              *)

\* A reconnect leaves no hole behind unless it has to: between two starts that
\* are excused all data between the first and the last message arrives,
\* through any number of failed connects and broken streams
\* (grpc_mux.rs:775-794, grpc_yellowstone.rs:277-282, 366-379).  The excuses:
\* replay switched off; no slot known; a replay without an answer, or ended with
\* a status that looks like a refusal, whatever it was; and, of a direct stream,
\* a slot update of any status that ran ahead of the data, from whose slot the
\* manager then resumes (grpc_yellowstone.rs:331-333).
NoHole ==
    \A m \in run.data : \A n \in run.since..m : NoData(n) \/ n \in run.data

\* The tracker reports the holes and nothing else, on the stream of a single
\* upstream, with skipped slots and forks, whether it went live behind a hole
\* or replays slots that the ring has or has forgotten.  A slot is reported if
\* and only if its parent never came, before or after ("was never seen, which
\* means we missed that slot entirely (not merely a leader-skipped slot)",
\* grpc_mux.rs:43-44), and is within the window: it is behind some slot that
\* was seen, and fewer than Window slots were seen from it to its child.
AlarmsAreExact ==
    \A slot \in observed :
        slot \in told <=>
            /\ parent[slot] \notin observed
            /\ \E older \in observed : older < parent[slot]
            /\ Cardinality({o \in observed : parent[slot] < o /\ o < slot}) < Window

\* Upstream works with f once it has read what was relayed.
WillServe(f) ==
    \/ f = subscribed /\ \A i \in DOMAIN toUpstream : toUpstream[i] = Ping
    \/ \E i \in DOMAIN toUpstream :
         /\ toUpstream[i] # Ping /\ f = toUpstream[i].filter
         /\ \A j \in DOMAIN toUpstream : j > i => toUpstream[j] = Ping

\* Upstream works with the filter the client asked for last, or will when it
\* has read what was relayed: a request "replaces the subscription and must
\* survive reconnects" (grpc_yellowstone.rs:313-314), pings do not touch it.
LatestSurvives == phase \in {"streaming", "forwarding"} => WillServe(latest.filter)

Served == phase = "closed" \/ (phase \in Established /\ cursor # 0)

\* A stream that upstream refuses answers a ping, and then ends with a status
\* that does not tell.
EndsUntold == cursor = 0 /\ got /\ StreamEnds(FALSE)

\* A refused replay is given up, not repeated for ever: the stream comes back
\* live, for every client that never asked for a slot of its own.  There are two
\* ways in which it does not: a client that does not read, so that the manager
\* waits to forward a pong to it; and an upstream that again and again answers a
\* ping on the stream (the mux's pinger sends one at once, grpc_mux.rs:636-645)
\* before it ends it without a telling status, since a pong counts as a message
\* (grpc_mux.rs:862, 779-780, grpc_yellowstone.rs:330, 368-369).
RefusedIsGivenUp ==
    [](latest.from = 0) =>
        \/ []<><<EndsUntold>>_vars
        \/ <>[](phase = "forwarding")
        \/ (phase = "sleeping" ~> Served)

\* The replay that the manager asked for has just been given up.
GivenUp == mode = "direct" /\ phase = "sleeping" /\ replay /\ lastSlot # 0 /\ replayFrom = 0

\* "Only a rejected from_slot (not a plain connect failure) means we must go
\* live next time" (grpc_yellowstone.rs:277-278).
RejectedGoesLive == GivenUp ~> Served
=============================================================================
