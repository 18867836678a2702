# TLA+ verification of solana-rpc-cluster

solana-rpc-cluster is a proxy in front of a cluster of Solana nodes: it routes
JSON-RPC requests, fans out transactions, and serves Yellowstone gRPC and aRPC
streams, either from one shared multiplexed feed or from a stream of the
client's own. This directory models the parts of it that keep state and run
concurrently, checks them with TLC on small instances, and proves what matters
most with TLAPS. Paths are relative to the repository (`src/` is its root here,
so the Rust sources are under `src/src/`).

Contents: [inventory](#inventory), [modules](#modules), [runs](#runs),
[bounds](#bounds), [fairness](#fairness), [proofs](#proofs),
[findings and observations](#findings-and-observations),
[what is not modelled](#what-is-not-modelled), [plan](#plan).

## Inventory

| Component | State | Operations | Hard part |
|---|---|---|---|
| gRPC channel pool (`cluster/grpc_pool.rs`) | per node: cached channel, flag `connecting`, a `Notify` | `get`, `reconnect`, `invalidate` | many tasks compete for one flag; a task may be cancelled at an await |
| Dedup cache (`proxy/grpc_mux.rs`) | `seen` (sharded map), `fifo` (queue under a mutex) | `check_and_insert`, `evict_expired` | two structures under two locks, changed in two steps each |
| Multi-region mux (`proxy/grpc_mux.rs`) | streams of the regions, raw channel, dedup worker | upstream loops, `run_dedup_worker`, eviction task | regions reconnect without replay; copies arrive late, twice, in any order |
| Mux forwarders (`proxy/grpc_mux.rs`) | broadcast ring, receiver and channel of each client | `subscribe_filtered` | slow clients, full channels, lag, clients that leave |
| Reconnecting upstreams (`proxy/grpc_mux.rs`, `proxy/grpc_yellowstone.rs`) | `replay_from`, `last_slot`, `latest_req`, backoff | single-upstream loop, manager of a direct subscription | which slot to ask for after which failure |
| Subscribe supervisor (`proxy/subscribe_supervisor.rs`) | token, JoinSet, per-IP and global counters | `start`, the supervisor task | clients leave at any time; children that do not see the token |
| Health checker (`cluster/health.rs`) | status and run lengths of each node | probe rounds, slot drift | thresholds, with several writers of one status |
| RPC router (`cluster/router.rs`) | round-robin counter, requests under way | `forward_rpc`, `forward_heavy_rpc`, `fan_out_send_tx` | nodes fail one after the other while their health changes |
| Access configuration (`dashboard/handlers.rs`, `middleware/`, `config.rs`, `main.rs`) | whitelist, API keys, limiters, the file | dashboard requests, SIGHUP | one change is several steps on several copies |
| Slot tracker (`proxy/grpc_mux.rs`) | a ring of the last slots, the highest slot | `observe` | slots that come again, or not at all, after a reconnect |
| gRPC filters (`proxy/grpc_filter.rs`) | none | compile, route, match | two paths, mux and direct, that should bring a client the same |
| Connection accounting (`stats.rs`, `proxy/http_rpc.rs`, `proxy/websocket.rs`, `main.rs`) | counters per IP and in total, `stats.json` | requests, connections, periodic save, save at shutdown, restore | handlers that are dropped, snapshots taken while requests count, crashes in a save |

How they interact. The health checker writes the statuses that the router and
the upstream loops read; nobody else writes them. Router, mux, direct managers
and unary handlers share the channels of the pool. The upstream loops of the
mux feed the raw channel, the dedup worker asks the cache and feeds the
broadcast ring, and one forwarder per client reads the ring. Every stream is
owned by a supervisor, which is told only through a dropped handle that its
client left. The dashboard changes the access configuration that every handler
reads when a request comes in.

What has to hold, component by component: at most one connect per node at a
time and no caller that waits for ever (pool); no key twice within a window and
none that stays for ever (cache); an update that one region delivers reaches
the subscribers once (mux); clients get their updates in order, and a hole is
bounded and told (forwarders); counters that come back to what they were, and
no supervised task that outlives its stream (supervisor); a node is out exactly when its
probes say so (health); no node is left out of a fallback (router); no hole after
a reconnect that could have been avoided, and no request that upstream refuses
for ever (upstreams); every hole reported and nothing else, skipped slots not
among them (slot tracker); the same updates from the mux as from a live stream of
one's own at commitment processed (filters); copies of the access configuration that
agree once nobody changes them (access); counters that account for what is open, and saved totals that survive a crash (accounting).

## Modules

| Module | Models | Used by |
|---|---|---|
| `ManagedChannel` | one pooled channel with every kind of caller | `MCManagedChannel`, `ClusterProofs` |
| `UniqueFeed` | the abstract promise of the dedup: a key is let through at most once a window | `DedupCache` |
| `DedupCache` | the cache at the granularity of its two locks | `MCDedupCache`, `MultiRegionMux`, `DedupCacheProofs` |
| `MultiRegionMux` | regions, raw channel and worker, composed with `DedupCache` | `MCMultiRegionMux`, `MultiRegionMuxProofs` |
| `GrpcFilters` | filters, routing, and what a Yellowstone server would send (reference) | `MuxForwarder` |
| `MuxForwarder` | ring, forwarders and client channels, with the filters of `GrpcFilters` | `MCMuxForwarder`, `MuxForwarderProofs` |
| `SubscribeSupervisor` | handlers up to the start of a stream, supervisor, children, counters | `MCSubscribeSupervisor`, `SubscribeSupervisorProofs` |
| `NodeStatus` | the nodes and their statuses, which checker and router share | `HealthChecker`, `RpcRouter` |
| `HealthChecker` | probe rounds and statuses | `MCHealthChecker`, `ClusterProofs` |
| `RpcRouter` | requests over nodes whose health changes | `MCRpcRouter`, `ClusterProofs` |
| `SlotTracker` | the ring of recent slots and what it reports | `UpstreamReplay` |
| `UpstreamReplay` | a stream that outlives its upstreams: single-upstream loop and direct manager, feeding `SlotTracker` | `MCUpstreamReplay`, `UpstreamReplayProofs` |
| `AccessConfig` | the five copies of the access configuration, dashboard requests, SIGHUP, limiters | `MCAccessConfig`, `AccessConfigProofs` |
| `ConnectionStats` | active counters, totals, the statistics file, crashes | `MCConnectionStats`, `ConnectionStatsProofs` |

The names of definitions are those of the code where there is one
(`check_and_insert` is split at its locks into `Occupied`, `Insert` and
`PushFifo`); `PROJECT.json` maps every definition to its lines. Definitions
under a comment that starts with "Mutant:" are plausible bugs of the definition
below them; they are not part of any specification.

**ManagedChannel.** A step is one atomic operation: load of the channel,
`compare_exchange`, store, clearing the flag, `notify_waiters`. tokio's `Notify`
wakes the futures that exist when it is called and no others, which is why
"lost" (flag not won) and "waiting" (future created) are two places. The callers
differ in whether they can be cancelled and when they invalidate; `Cancel` drops
a future at an await and runs nothing else, since the code has no guard object.
The pool is a fixed map of independent channels, so one channel stands for all.

**DedupCache and UniqueFeed.** `Insert` is the map's entry API, `PushFifo` the
push under the fifo's mutex; `EvictLock` to `EvictUnlock` are the eviction, which
holds that mutex throughout and removes from the map key by key. Time is an age
per entry that stops growing at the window's length, so that it has no bound.
`admitted` is a history variable; `UniqueFeed` with `age <- admitted` is the
abstract specification. A second admission at the very instant of the first is
a stuttering step of `UniqueFeed`; `OneEntryPerKey` is what excludes it.

**MultiRegionMux.** An update has what `compute_dedup_key` reads (kind, slot, a name
within the slot such as a signature or a status) and the hash of the candidate block
or entry it belongs to, which only some keys contain. Two candidate blocks of a slot
may therefore share the keys of their slot updates and of common transactions; nothing
is assumed about that. Each region owes the events emitted while its stream is up, in
any order; an ended stream takes what was not read with it. The cache's actions are
the ones of `DedupCache`, joined with the worker's. Two history variables look at the
broadcast and not at the cache: `held` is the time the worker has had its update,
`aired` how long ago the copy of each key that went out last was taken in. The window
starts when the copy is taken in, since that is the instant the cache remembers; a
worker that waits for the fifo lock broadcasts later.

**GrpcFilters.** An Option is a set with at most one element, a base58 text stands
for the bytes it decodes to. `Served` is the reference: the names a Yellowstone
server puts on an update, by the meaning of each field of the request, among them its
commitment and from_slot (an update knows at which commitment it is sent and
whether it is of a slot before the subscription). It is written from the fields, not from
`matches_tx_filter`, and it knows the options the mux does not (cuckoo filters, token
accounts, certificates, entry parents, interslot updates). The routing decision has to
send a request with any of the first four to a direct stream; it does not look at the
others, nor at commitment and from_slot. What the mux does serve is the live, processed
form of a request (`Live`), and `ServesLive` compares the two for every request that is
routed to it.

**MuxForwarder.** The broadcast channel (tokio, external) is a log with a window
of `Ring` places. The forwarder's biased `select!`, its `try_send`, its wait for
a permit, its pongs and the final DATA_LOSS are places of their own. Token and
closed channel have one cause, the dropped response, and are one flag.

**SubscribeSupervisor.** A Yellowstone handler reads the limit, awaits the first
message, and starts the supervisor; an aRPC handler checks access, connects and
awaits the answer first. Each kind of call has the children its handler spawns
(`ChildrenOf`) and is counted on one of the two counters of its IP; per-IP and
global counter are separate atomic steps at both ends. A child is running (sees
the token), blocked (does not) or exited. Only tasks in the JoinSet are children: of a
mux stream that is the ping task. Its forwarder is a `tokio::spawn` of its own
(`grpc_mux.rs:243`) that the supervisor neither joins nor aborts and that may run on
for a while after the counters are given back; that it ends is `GoneIsNoticed` of
`MuxForwarder`.

**HealthChecker.** One task, so a round is a sequence of steps: RPC, iris and
gRPC probe of each node, then the drift pass. The outcome of a probe is chosen
freely. Run lengths stop at the larger threshold.

**RpcRouter.** A request is classified, given its nodes, and asks them one after
the other, or all at once for `sendTransaction`. A leg waits for a head (limited
by the timeout) and then for a body (not limited). A request reads the statuses
of all nodes in one step; the code reads them one by one, microseconds apart,
while the checker writes one of them every few seconds.

**UpstreamReplay.** Both reconnecting loops are one module with a `mode`, since
they make the same decision after a failure (`Decide`, `Rejected`); where they
differ (a failed connect, the wait for a permit, the client's requests) the
actions do. Upstream is external: a chain of messages, three for a slot (data,
the processed update, data that follows it), delivered in order; leaders skip slots
and a slot builds on any earlier one, so the chain may fork. Updates of other statuses
come at any time behind their slot, and under the filters in `Early` (interslot
updates, data of a later commitment) also ahead of the data: the manager takes its
`last_slot` from all of them, the tracker from processed ones only (`ReceiveStatus`).
Upstream forgets old slots and refuses to replay them, with a failed call or on the
stream; a stream it refuses may still answer pings. Any stream, refused or not, may
end with a status that looks like a refusal, at any time. Upstream ignores the
from_slot of later requests. The choice of the node and the length of the backoff are
left out. In mode "mux" each processed update goes through `SlotTracker` first, as
`track_slot` does, with the parent that the update names.

**AccessConfig.** Whitelist and API keys are one function from subjects (IPs and
keys) to the sequence of their entries; the four limits of an entry are one
number. Every ArcSwap load or
store, the limiter reload (store, clear, insert) and the save (open, write,
rename) are steps; files have an identity apart from their two names, because
two saves may share `toml.tmp`. The inserts of a reload are one step: they
concern different subjects, and for each of them a request comes before or after
its own. A key is new when `create_api_key` draws it, so an operator can write it
into the file only afterwards, and a file is taken to name a key once. A client that
disconnects has its handler dropped at the await the handler is in, which is the lock
of the configuration: before the change of the configuration, or before the save
(`Dropped`); `halfDone` remembers the subjects of such requests until a later request
for the same subject or a reload that met nobody has put the copies together again. A request
with an unknown key from a whitelisted IP is checked by
neither limiter (`http_rpc.rs:112-118`) and changes nothing, so it is no action.

**ConnectionStats.** A request is counted for its IP, then globally, then as
active; a save loads the global total, then the IPs in any order, and goes through
open, write and rename. A file that was opened as `stats.json.tmp` may have been
renamed by the other save when it is written, so each save knows the name its
file goes by. The process may die at any step. `leaked` is a history variable:
what the two paths that forget to decrement have abandoned.

## Runs

Passing runs, one per component; every property has a mutant in `PROJECT.json`
that breaks it.

| Run | Question | Properties |
|---|---|---|
| `ManagedChannel` | Three callers, one of each kind: is the flag a lock, and does everyone get out? | `SingleConnector`, `GetReturns`, `FlagReleased` |
| `DedupCache` | Do the two structures agree at every point between their locks, and do they implement `UniqueFeed`? | `SeenIsTracked`, `OneEntryPerKey`, `OldestInFront`, `UniqueWithinWindow`, `KeysExpire` |
| `Mux` | Two regions that come and go: is anything lost, hidden by another update, sent twice or stuck? | `GapsAreCovered`, `OnceAWindow`, `ReadIsForwarded` |
| `Forwarder` | A client that reads beside one that need not; do the filters select what a live, processed stream of the client's own would bring? | `InOrderOnce`, `HolesBounded`, `GoneIsNoticed`, `ReaderIsServed`, `CutIsTold`, `PingIsAnswered`, `MuxLikeUpstream` |
| `Supervisor` | A direct, a mux and an aRPC stream of one IP, on two counters | `CountersExact`, `NoZombies`, `DroppedIsReleased`, `LimitWithoutOverlap` |
| `Health` | Is a node out exactly when its probes call for it? | `DownIffEjected`, `DeadNodeEjected`, `GoodNodeRestored` |
| `Router` | Two requests of any kind over three nodes | `BadGatewayMeansAllFailed`, `BetterNodesFirst`, `PlansAreComplete`, `FanOutReachesAll` |
| `Replay` | Streams of both kinds over a chain that grows, forks, skips slots and forgets: are there holes, does the tracker report them, and does every stream come back? | `NoHole`, `AlarmsAreExact`, `LatestSurvives`, `RefusedIsGivenUp` |
| `Access` | Two dashboard requests, perhaps dropped half-way, edits, SIGHUPs and an RPC request: which copies agree after which overlaps? | `GrantsFollowConfig`, `LockedCopiesAgree`, `LimitsInForce`, `FileIsWhole` |
| `Stats` | Requests and a connection, two saves that meet, crashes: do the counters add up, and is what was saved restored? | `ActiveIsAccountedFor`, `GlobalNeverAhead`, `SavedIsRestored` |

`FlagReleased` is stated for behaviours in which no cancellable task connects:
without that premise it is false, which is what the violation run
`ManagedChannelCancelled` shows. `RefusedIsGivenUp` is stated for clients that
never name a slot of their own, for the reason `ReplayRejected` shows, and names the
two ways in which a refused replay is not given up: the client does not read, so that
the manager waits to hand it a pong, or upstream again and again answers a ping on a
stream it refuses and ends it without a telling status.
`LimitWithoutOverlap` is stated for calls that do not overlap between check and
count, and `SavedIsRestored` for saves that do not overlap. `MuxLikeUpstream` compares
the mux with the live, processed form of a request, which is the request itself if it
asks for that commitment, names no slot to start from and filters no slot updates. The
properties of `Access` say which overlaps they exclude, and `GrantsFollowConfig` sets
aside the subjects of requests that were dropped half-way; what happens in those is
under [observations](#findings-and-observations). The runs that are expected to be violated are
described under [findings](#findings-and-observations).

Deadlock is checked in `ManagedChannel`, `DedupCache`, `Mux`, `Health` and `Stats`, where
something can always happen. It is off in `Forwarder`, `Supervisor`, `Router`,
`Replay` and `Access`: there every client or request may be served and gone (in
`Replay` the chain may also have reached its bound), which is the end of the
instance and not a deadlock of the system. That nothing gets stuck before is
what the liveness properties of the first two and of `Replay` say; `Router` and
`Access` check safety only.

## Bounds

- `ManagedChannel`: one task of each kind. Two losers and one winner are the
  largest pattern of the protocol (a second loser behaves like the first), and
  the proof covers any number.
- `DedupCache`: three keys and a window of three ticks give a fifo in which
  expired, expiring and fresh entries stand next to each other; time itself is
  not bounded. The proofs cover every set of keys and every window.
- `Mux`: two regions, two events, a raw channel of one place. The pairs of
  events (`Pairs`) are a signature that lands again in a later slot; the metas of two
  candidate blocks of one slot, whose keys differ; the slot updates of the two, which
  share a key; and updates without a key. Two regions deliver every order of copies; with
  one place in the channel they compete for it at once.
- `Forwarder`: a ring of one place and a channel of one place make lag, full
  channels and their combination happen within three updates; `MaxLog` and
  `MaxPings` bound the log and the pings. The filters are compared on requests
  with one transaction filter of every form over two accounts, with two that
  differ, and with every combination of the other fields and their options, each
  against transactions of every form and updates of every other kind. Matching
  looks at each name and each field on its own, so that two accounts and two
  names show every interplay.
- `Supervisor`: a direct, a mux and an aRPC stream of one IP, on its two counters;
  a limit of one is reached and refused. The v2 calls have the children of the v1
  call or some of them, and add no behaviour of their own.
- `Health`: two nodes, thresholds of two; the history of one node is kept for
  `MaxHistory` probes, enough to be ejected, restored and degraded in between.
  The rounds themselves are not bounded.
- `Router`: three nodes whose priorities are not in the order of the
  configuration and two of which take transactions; two requests, so that the
  round-robin start varies. Requests are interchangeable (symmetry; no liveness
  is checked in that run).
- `Replay`: a chain of three slots for the mux (`MaxSlot`) and of two for a direct
  stream (`DirectSlots`), so that a stream can end before, in and behind a slot's
  update, a slot can be skipped or build on the one before the last, and slots can be
  forgotten by upstream; with a ring of one slot (`Window`) the tracker forgets one that
  a replay brings again; a request channel of one place; one request after the first
  (`MaxRequests`; none in `ReplayRejected`), without slot updates or with ones that run
  ahead of the data, from a slot or live. The number of failures and reconnects is not
  bounded. The proofs cover longer chains and rings.
- `Access`: two dashboard requests of six kinds, among them a second entry for an
  IP that has one; two SIGHUPs (`MaxHups`), so that one can repair what the other
  left; a request may meet a reload only if it is the first of the two (`MaxMet`),
  since behind such a meeting nothing is claimed until a reload runs alone.
  Dashboard requests are interchangeable (symmetry, safety only).
- `Stats`: two requests of one client at a time and a connection of another,
  so that a save finds an IP that changes and one that does not; two requests
  counted (`MaxTotal`) and one connection (`MaxSockets`) for each process. Saves,
  failures, crashes and restarts are not bounded.

## Fairness

The runtime polls every ready task, so a task's own steps are weakly fair
everywhere. Beyond that:

- `ManagedChannel`: `connect_timeout` ends a connect, the ten-second timer a wait.
- `DedupCache`, `Mux`: strong fairness for the worker at the fifo's mutex and for
  senders at the raw channel. The evictor sleeps for a second or more between two
  rounds, so that a waiting worker gets the mutex, and tokio's channel serves its
  senders in order.
- `Forwarder`: only the clients in `Readers` are assumed to read.
- `Supervisor`: the grace timer fires; nothing is assumed of children or clients.
- `Health`: every probe has a timeout, the interval ticks on.
- `Replay`: sleeps end. That an upstream asked again and again for what it has
  serves it (strong fairness of `EstablishServed`), that one asked for what it has not
  refuses, in the call or on a stream (strong fairness of the disjunction), and that a
  stream it refuses ends, with whatever status, is an assumption about the cluster;
  without it no stream could promise anything. Which way of refusing an upstream takes
  is not assumed.

Apart from that nothing makes an upstream answer, a client read or leave, or a
caller call. `Router`, `Access` and `Stats` need no fairness.

## Proofs

`ClusterProofs` is about `cluster/`: the router, the channels of the pool, the health
checker, and router and checker together. It extends all three modules, whose
specifications are `Spec`, `PoolSpec` and `CheckerSpec`; router and checker have the
statuses of `NodeStatus` in common.

The router, for any number of nodes, any priorities and any number of requests
(`NodesAssumption`, `RouterAssumption`):

- `NoNodeIsForgotten` (`BadGatewayMeansAllFailed`), `ReadsFollowPriority`
  (`BetterNodesFirst`), `EveryHealthyNodeIsPlanned` (the action property
  `PlansAreComplete`), `FanOutIsNeverTakenBack` (the action property
  `FanOutReachesAll`), `RouterTypeCorrect`.

The sort by priority is defined by the number of better nodes; `InOrderSorts`
shows that this is a sort of the set, and `RotateTakesAll` that the round robin takes
all of it once.
The invariant says that the nodes before a read's place have failed and those behind it
were not asked (`InTurn`), and that an answer the fan-out's handler has not seen is
still in its inbox (`Reported`).

The channels, for any sets of callers:

- `ChannelTypeCorrect`: `PoolSpec => []PoolTypeOK`.
- `OneConnector`: `PoolSpec => []SingleConnector`. The invariant is not inductive by
  itself: nothing in it keeps a second task from winning. The strengthening is
  `OwnerHoldsFlag`, a task that owns the flag finds it set; together with
  `SingleConnector` it is preserved by every action, cancellation included,
  because a cancelled task stops owning without clearing (the flag may be set
  without an owner, never the reverse).

The health checker, for any nodes, any thresholds (zero included), any drift and
histories of any length (`NodesAssumption`, `HealthAssumption`):

- `EjectAndRestore`: `CheckerSpec => []DownIffEjected`. The property is about the whole
  history of a node's probes, the code keeps two counters. `Tallied` links them: each
  counter, saturated at the larger threshold, tells the length of the run of its kind
  that ends the history. `Ejected` is then followed probe by probe: a failed probe
  ejects if it completes a run of the one threshold, a good one restores if it completes
  a run of the other, and otherwise the last verdict stands.
- `CheckerTypeCorrect`.

Both together. `Together` is their composition over the status that they share: the
router's free changes of a status (`SetStatus`) are gone, and the checker's steps take
their place.

- `RoutingFollowsProbes`: `Together => PlansFollowProbes /\
  [](BadGatewayMeansAllFailed /\ DownIffEjected)`. A read is planned for a node
  exactly when the probes of that node, from the first one on, have not ejected it, and
  each component keeps its promise beside the other. It follows from the two invariants,
  because a step of either leaves the other's invariant alone. The composition is proved
  about and has no run: the two components have runs of their own.

`DedupCacheProofs`, for every set of keys and every window (`TtlAssumption`):

- `TypeCorrect`, `NoStuckKey` (`SeenIsTracked`), `EntriesDistinct`
  (`OneEntryPerKey`), `OldestFirst` (`OldestInFront`).
- `ImplementsUniqueFeed`: `Spec => Feed!Spec`, the refinement.

The inductive invariant is the conjunction of type correctness, the three
structural invariants, and what links them to the history: each entry is no
older than the last admission of its key, whatever the evictor has still to pop
or has in hand is expired, and a key that is not in `seen` was admitted a whole
window ago. The last part gives the refinement: `Insert` needs a key that is
not in `seen`, so its age is `Ttl`, which is the guard of `UniqueFeed`'s `Emit`.
The structural part is needed because an eviction removes a key from `seen` by
name: only if no second entry of that name exists does the removal not take away
a later admission.

`SubscribeSupervisorProofs`, for any finite set of streams, of any kinds and clients
(`SupervisorAssumption`):

- `NoChildOutlivesItsStream`: `Spec => []NoZombies`, for the tasks in the JoinSet (a mux
  stream's forwarder is not in it, see above). A stream becomes "swept" because
  its children were joined or aborted, and "refused" because none was spawned; the
  strengthening says that what was joined has exited (`JoinedHaveExited`), that
  nothing runs before `Start` (`NotYetSpawned`) and nothing is joined before the
  stream ends (`JoiningStarted`).
- `CountersAreExact`: `Spec => []CountersExact`. The counters are sizes of sets of
  streams by phase, and a step moves one stream: `MoveKeepsCounts` says that they stay
  exact if each changes by what the move is worth, and every action is such a move or
  moves nothing.
- `LimitHoldsWithoutOverlap`: `Spec => LimitWithoutOverlap`. Under the premise that at
  most one call of an IP is between check and count, a call that passed the check finds
  its place free (`PlaceIsFree`): the check read an exact counter, and nobody else of
  that IP can have started since.
- `TypeCorrect`: `Spec => []TypeOK`. A counter that is the size of a set is a natural
  number, so `fetch_sub` never wraps.

`MultiRegionMuxProofs`, for any regions, any feeds of any events, any capacity of the
raw channel and any window (`MuxAssumption`):

- `BroadcastOnceAWindow`: `Spec => []OnceAWindow`. The cache's invariant carries over
  through its instance, since every step of the pipeline is a step of the cache or leaves
  the cache alone (`CacheStep`). `Timed` links it to what is broadcast: `aired` is the age
  of the cache's last admission of a key, except for the key at hand. That one was
  admitted when the worker took it in, whatever time passes before it is sent, and its
  last broadcast was a window old by then.
- `RegionsCoverGaps`: `Spec => []GapsAreCovered`. The property says that some region
  accounts for an event; the strengthening (`Kept`) says so region by region, and
  `SeenIsOut` that a key in the cache belongs to an event that went out or is in the
  worker's hand. `KeysTellApart` says what it means that two updates have one key: they
  are copies, or a slot update or transaction of competing candidates.
- `TypeCorrect`.

`MuxForwarderProofs`, for any clients, ring, channel and limit of lag events
(`ForwarderAssumption`), and any requests and updates (`FilterAssumption`):

- `UpdatesInOrderOnce`: `Spec => []InOrderOnce`. What was sent is in order and lies
  before the forwarder's frontier in the log (`Ordered`, `Positions`).
- `FewHoles`: `Spec => []HolesBounded`. A lag makes a hole only when a later update is
  sent. `Paid` counts the hole that is still pending as well, and says that every hole,
  pending or not, was paid for by a lag event of its own.
- `FiltersLikeUpstream`: `Spec => []MuxLikeUpstream`, from a lemma for each kind of
  filter: what is compiled matches what a server would serve for the live, processed
  form of the request. Whatever commitment and from_slot the request has, that form is
  what its client gets.
- `TypeCorrect`.

`UpstreamReplayProofs`, for a chain of any length, any ring, any filters and any number
of requests (`ReplayAssumption`, `WindowAssumption`):

- `NoUnexcusedHole`: `Spec => []NoHole`. The property is about data that arrived.
  `Covered` says what the next stream needs: all before the cursor arrived, and all
  before the last slot seen, unless an update ran ahead of the data, which is an excuse;
  `Excuses` that a reconnect without an excuse resumes there.
- `TrackerIsExact`: `Spec => []AlarmsAreExact`, for chains with any skipped slots and
  forks. A report compares a parent with the ring. The ring is the upper end of what was
  observed, in order (`Ring`, `RingOrdered`), and no stream goes back behind the last slot
  (`LastSlot`, `Resumes`). A parent that the tracker misses was therefore never observed
  and has fewer than `Window` observed slots between it and its child (`MissingIsHole`),
  and the other way round (`HoleIsMissing`); since a parent is older than its child
  (`ParentStep`), it is not observed afterwards either.
- `LastRequestSurvives`: `Spec => []LatestSurvives`; while a request waits for a permit,
  it is the latest already (`Relayed`).
- `TypeCorrect`.

`AccessConfigProofs`, for any IPs and keys, any number of dashboard requests, reloads
and RPC requests, any files an operator writes (`AccessAssumption`):

- `AccessFollowsConfig` (`GrantsFollowConfig`), `CopiesUnderTheLockAgree`
  (`LockedCopiesAgree`), `LimitersAreDue` (`LimitsInForce`), `CrashFindsAWholeFile`
  (`FileIsWhole`), `TypeCorrect`.

Each property speaks of a moment when something is over, so the invariant says what
holds on the way: which set is stored while a request is between its steps, for all
subjects but those of a request that was dropped between them (`Grants`),
which limits are in force while a reload runs (`Followed`), what a clear has left in
the table and what requests that create limiters have read (`Limiters`, `Reads`), and
which file will be whole once those who opened it have written it (`Saves`, `Names`).
`Overlaps` ties the history to who runs, which makes a reload that met nobody (`Alone`)
restore all of it; `Locks` keeps saves and changes apart; `Requested` and `Unnamed` say
that a key is made once and no copy names it before, without which a revocation could
meet two entries of a key.

`ConnectionStatsProofs`, for any finite sets of clients, requests and connections
(`StatsAssumption`):

- `CountersAccountedFor` (`ActiveIsAccountedFor`). Inductive with type correctness and
  `Quiet`, nothing runs in a process that is down, since a restart sets the counters to
  zero.
- `GlobalIsBehind` (`GlobalNeverAhead`). A request counts for its IP first and globally
  afterwards, so what is ahead of the total are the requests in between (`Ahead`). A
  snapshot is taken one load at a time; `Loading` compares its global total with the
  totals it would have if the rest were loaded now, which only grow. `Files` carries
  that over to what is written, torn or whole, and so to the next start.
- `SaveSurvives` (the action property `SavedIsRestored`). As long as no two saves
  overlapped, a save writes to the tmp file that it opened and renames what it wrote
  (`Solo`), so the file is the last save that was completed, or torn if there was none
  (`Saved`).
- `TypeCorrect`.

The totals are compared by `SumFunction` of the community modules, which is defined by a
recursion over sets. The library's induction theorems cannot be instantiated here, as
they have an operator for a parameter; `WFMin` (a set of numbers that is not empty has a
least member) has none, and `NatInd` and `SubsetInd` are derived from it for sets
instead of predicates. With them `SumExists` shows that the recursion has a solution
over a finite set, and `SumType`, `SumMonotone`, `SumBump` and `SumBound` what the invariant
needs of a sum.

The bounds that keep TLC's instances finite (`MaxLog`, `MaxRequests`, `MaxHups` and the
like) are constants, and arbitrary in the proofs.

Only model-checked: the twelve liveness properties, since the prover has no rules for
fairness. Every safety property of a passing run is a theorem.

## Findings and observations

Runs in which the code does not do what a comment or document says:

- `ManagedChannelCancelled`. A task cancelled inside `endpoint.connect().await`
  leaves `connecting` set. From then on every `get()` of that node waits ten
  seconds and fails, although nobody is reconnecting.
- `ReplayRejected`. When the replay of a direct client is refused, the manager
  sends the client's latest request again, with the from_slot the client asked for
  at first. If upstream no longer has that slot either, nothing recognises the
  refusal, and the stream stays open without data for ever.

Seen while modelling, without a run of their own:

- `grpc_pool.rs:60`: a winner that notifies between a loser's
  `compare_exchange` and its `notified()` is not heard; the loser waits its ten
  seconds and fails although the channel is there. `GetReturns` holds because of
  the timeout.
- `grpc_yellowstone.rs:448`: the stream limit is read before an await and counted
  after it, so calls of one IP that wait there pass it together and exceed "Max
  concurrent gRPC streams per IP" (line 33). `LimitWithoutOverlap` is what is left
  of the promise.
- `grpc_arpc.rs:129`: the v1 call and v2's subscribe_transactions await the upstream's
  answer before they spawn the task that feeds it the client's requests. An upstream
  that answers only after a first request (as this proxy's own Yellowstone handler
  does) and the proxy then wait for each other.
- `grpc_filter.rs:81`: interslot_updates, filter_by_commitment, the commitment and
  the from_slot of a request do not matter for its routing, and the mux ignores
  them: such a client gets no interslot updates, all statuses, and the processed
  feed from now on. `MuxLikeUpstream` says that this is all it gets differently.
- `grpc_mux.rs:420`: the keys of slot updates and of transactions do not contain the
  block. Of two candidate blocks of a slot (line 364) only the first one's update of a
  status, and of a transaction that is in both, goes out. `GapsAreCovered` says that
  nothing else is hidden.
- `grpc_mux.rs:243`: the forwarder of a mux stream is in no JoinSet. Its supervisor may
  give the counters back while it still runs.
- `grpc_filter.rs:41`: a key that is not base58 is dropped from its list, where a
  server refuses the request; an include list of such keys only becomes empty and
  matches every transaction.
- `grpc_yellowstone.rs:549`: later filter requests of a mux client are ignored.
- `grpc_mux.rs:58`: with several regions a parent may come after its child, and is
  reported although it was only late; `AlarmsAreExact` is about one upstream. A replay
  of the first slot behind a hole counts the same gap again.
- `websocket.rs:83`, `http_rpc.rs:128`: the active counter is not given back when the
  upstream connect fails, or when the client of a request leaves before its answer.
  `ActiveIsAccountedFor` says that nothing else makes it drift.
- `stats.rs:213`: the save at shutdown and the periodic one share `stats.json.tmp`; if
  they meet, the file may hold a mixture of both, which is not restored.
- `main.rs:153`: the firewall is synchronised once, at startup; later changes of the
  whitelist do not reach it.
- `subscribe_supervisor.rs:92`: `forwarder_aborted_total` adds what is left in the
  JoinSet, and tasks that are done but not joined are among it.
- `grpc_mux.rs:319`: pongs come last in a biased `select!`, so a feed that never
  pauses leaves a ping unanswered. The model's log is bounded: `PingIsAnswered` is
  about feeds that pause.
- `grpc_mux.rs:775`: the comment says the replay starts at "the slot after the
  last one"; the code asks for the last one again, which is what `NoHole` needs (its
  mutant is the comment's version).
- `grpc_yellowstone.rs:331`: `last_slot` is learnt from slot updates, so a direct
  client whose filters name no slots never gets a replay. `NoHole` counts such a
  reconnect as excused. It is raised by updates of any status: a client that asks for
  interslot updates, or for data of a later commitment than its slot updates, may have
  seen a slot ahead of its data, and a replay from there skips what was still to come.
- `grpc_yellowstone.rs:368`, `grpc_mux.rs:888`: a status such as FailedPrecondition
  counts as a refused replay at any time of a replayed stream, also after it brought
  data; the next stream is then live, behind a hole.
- `grpc_mux.rs:862`: pongs count as messages. A replay that is established, answers
  the first ping and ends without data or a telling status is not taken for
  refused and is asked for again, for ever if upstream goes on like that. This is one of
  the two ways out that `RefusedIsGivenUp` names.
- `router.rs:211`: the timeout ends with the head of a response; a node that stalls
  in the body holds a request for ever, and no other node is tried.
- `router.rs:108`: a fan-out returns the first response with any HTTP status, also
  a 500 that beats another node's success ("first successful response", line 65).
- `health.rs:79`: a degraded node counts as healthy and keeps its place in the
  priority order of reads.
- `ip_whitelist.rs:33`, `api_keys.rs:50`: two overlapping changes start from one
  copy, and the later store undoes the earlier one: an IP that was removed, or a
  key that was revoked, is let in until the next reload.
- `handlers.rs:126`, `200`, `335`, `376`: the whitelist or the key store is changed, and
  then the configuration behind an await at which a client that disconnects has its
  handler dropped; `persist_config` (line 31) has another one before the save. A
  revocation dropped there is in force, but the next reload, or the next start, undoes
  it; an added IP is let in and in no configuration.
- `main.rs:137`: a SIGHUP that read the file before a revocation was saved puts the
  old configuration back in memory; reloading the limiter outside the lock can also
  leave limiter and configuration apart.
- `config.rs:308`: two saves share `toml.tmp`. While the second one writes, the file
  that the first one renamed is empty; both in the end leave the right contents
  (`LockedCopiesAgree`), but a crash in between leaves no configuration.
- `rate_limiter.rs:118`: a limiter made from limits read before a reload and inserted
  after it stays until the next reload; for a key it has the default limits.
- `handlers.rs:377`: `revoke_api_key` marks the first entry of a key. If the file names a
  key twice, the second one lets it in again at the next reload; the model takes a file
  to name a key once.
- `handlers.rs:127`: adding an IP twice gives it two entries. `update_ip` changes the
  first, a reload enforces the last.

## What is not modelled

Payloads, log output, monitoring counters that nothing reads back, TLS and
socket options, parsing of requests and of the configuration; the firewall
commands (pure I/O); dashboard pages (read-only); the messages that the WebSocket
and aRPC forwarders copy; the counters of the last second; the shadow test, a tool
of its own. `PROJECT.json` lists every component with its
status.

## Plan

The components that carry the cluster's own logic are modelled, and every safety
property that a run checks is proved for all values of the constants. What would come
next:

1. Liveness by hand: the proofs would need rules for fairness that this version of
   TLAPS does not have. The steps that such a proof rests on (what a fair action does
   when it is taken) are in the invariants already.
2. More compositions like `Together`: the pool under the router's legs, and the
   supervisor around the forwarders of the mux.
