---------------------------- MODULE MultiRegionMux ----------------------------
(***************************************************************************)
(* The multi-region pipeline of src/src/proxy/grpc_mux.rs: one upstream     *)
(* loop per region feeds a bounded channel; a single worker lets the first  *)
(* copy of every update through to the broadcast channel, and asks the      *)
(* dedup cache (module DedupCache) which copy is the first.                 *)
(*                                                                         *)
(* The validators emit each event once; every region whose stream is up     *)
(* gets it and will deliver it, in any order and after any delay, until its *)
(* stream ends.  There is no replay in this mode: what a region had not     *)
(* read when its stream ended, and what was emitted until it is back, it    *)
(* never delivers.                                                          *)
(*                                                                         *)
(* An update is a record of what compute_dedup_key reads.  Left out: its    *)
(* payload, the counters kept for monitoring, the slot tracker, the pinger  *)
(* and the time a loop sleeps before it connects again (any time here).     *)
(***************************************************************************)
EXTENDS Naturals, Sequences, FiniteSets

CONSTANTS
    Regions,   \* the gRPC-eligible nodes
    Events,    \* what the validators emit
    Feeds,     \* the contents these events may have: functions on Events
    RawCap,    \* capacity of the raw channel, 32_768 in the code
    Ttl,       \* dedup_window_secs, in ticks
    NoKey      \* the None of compute_dedup_key

(***************************************************************************)
(* An update has a kind, a slot, a name within its slot (a signature, a     *)
(* slot status, an entry's index) and the hash of what it is about (the     *)
(* blockhash or bank_hash of the candidate block it belongs to, the hash of *)
(* an entry).  A slot may have competing candidate blocks (grpc_mux.rs:364).*)
(* A block has no other name than its hash, and a transaction update may    *)
(* come without its transaction: then the name is NoKey.                    *)
(***************************************************************************)
NamedKinds == {"transaction", "transaction_status", "slot", "entry"}
HashedKinds == {"block_meta", "entry", "block_footer"}
OtherKinds == {"account", "block", "ping", "pong"}

ASSUME MuxAssumption ==
    /\ RawCap \in Nat \ {0}
    /\ Ttl \in Nat
    /\ \A f \in Feeds, e \in Events :
          /\ f[e].kind \in NamedKinds \cup HashedKinds \cup OtherKinds
          /\ f[e].kind \in HashedKinds \ NamedKinds => f[e].name = NoKey

\* Whether compute_dedup_key makes a key of the update.
HasKey(u) ==
    /\ u.kind \in NamedKinds \cup HashedKinds
    /\ ~(u.kind = "transaction" /\ u.name = NoKey)

\* Mutant: keyed by signature alone.
KeyWithoutSlot(u) ==
    IF HasKey(u)
    THEN <<u.kind, 0, IF u.kind \in NamedKinds THEN u.name ELSE NoKey,
                      IF u.kind \in HashedKinds THEN u.hash ELSE NoKey>>
    ELSE NoKey

compute_dedup_key(u) ==
    IF HasKey(u)
    THEN <<u.kind, u.slot, IF u.kind \in NamedKinds THEN u.name ELSE NoKey,
                           IF u.kind \in HashedKinds THEN u.hash ELSE NoKey>>
    ELSE NoKey

DedupKeys == {compute_dedup_key(f[e]) : f \in Feeds, e \in Events} \ {NoKey}

VARIABLES
    update,      \* update[e] is the content of event e, one of Feeds
    produced,    \* history: events emitted so far
    streaming,   \* streaming[r]: r's stream is established
    due,         \* due[r]: events on r's stream that its loop has not read
    hand,        \* hand[r]: the event r's loop is sending to the raw channel
    missed,      \* history: events r will never deliver
    raw,         \* the raw channel
    worker,      \* where run_dedup_worker is: "recv", "push" or "send"
    current,     \* the event the worker is at
    forwarded,   \* history: events sent to the broadcast channel
    held,        \* history: how long ago the worker took `current` in
    aired,       \* history: how long ago the worker took in the copy of each
                 \* key that it broadcast last
    seen, fifo, inserting, evictor, expired, victim, admitted  \* the cache

Cache == INSTANCE DedupCache WITH Keys <- DedupKeys

cacheVars == <<seen, fifo, inserting, evictor, expired, victim, admitted>>
regionVars == <<update, produced, streaming, due, hand, missed>>
historyVars == <<held, aired>>
workerVars == <<worker, current, forwarded, historyVars>>
vars == <<regionVars, raw, workerVars, cacheVars>>

KeyOf(e) == compute_dedup_key(update[e])

\* Pongs answer the proxy's own pings and are never fanned out.
IsPong(e) == update[e].kind = "pong"

TypeOK ==
    /\ update \in Feeds
    /\ produced \subseteq Events /\ forwarded \subseteq Events
    /\ streaming \in [Regions -> BOOLEAN]
    /\ due \in [Regions -> SUBSET Events]
    /\ hand \in [Regions -> SUBSET Events]
    /\ missed \in [Regions -> SUBSET Events]
    /\ raw \in Seq(Events) /\ Len(raw) <= RawCap
    /\ worker \in {"recv", "push", "send"}
    /\ current \subseteq Events
    /\ held \in 0..Ttl
    /\ aired \in [DedupKeys -> 0..Ttl]
    /\ Cache!TypeOK

Init ==
    /\ update \in Feeds
    /\ produced = {}
    /\ streaming = [r \in Regions |-> FALSE]
    /\ due = [r \in Regions |-> {}]
    /\ hand = [r \in Regions |-> {}]
    /\ missed = [r \in Regions |-> {}]
    /\ raw = <<>>
    /\ worker = "recv"
    /\ current = {}
    /\ forwarded = {}
    /\ held = 0
    /\ aired = [k \in DedupKeys |-> Ttl]
    /\ Cache!Init

-----------------------------------------------------------------------------
(* The cluster and the upstream loops.                                      *)

Produce(e) ==
    /\ e \notin produced
    /\ produced' = produced \cup {e}
    /\ due' = [r \in Regions |-> IF streaming[r] THEN due[r] \cup {e} ELSE due[r]]
    /\ missed' = [r \in Regions |-> IF streaming[r] THEN missed[r] ELSE missed[r] \cup {e}]
    /\ UNCHANGED <<update, streaming, hand, raw, workerVars, cacheVars>>

Connect(r) ==
    /\ ~streaming[r]
    /\ streaming' = [streaming EXCEPT ![r] = TRUE]
    /\ UNCHANGED <<update, produced, due, hand, missed, raw, workerVars, cacheVars>>

\* The stream ends or fails.  The loop notices when it reads, that is when it
\* has nothing in hand.
StreamEnd(r) ==
    /\ streaming[r] /\ hand[r] = {}
    /\ streaming' = [streaming EXCEPT ![r] = FALSE]
    /\ missed' = [missed EXCEPT ![r] = @ \cup due[r]]
    /\ due' = [due EXCEPT ![r] = {}]
    /\ UNCHANGED <<update, produced, hand, raw, workerVars, cacheVars>>

Read(r, e) ==
    /\ e \in due[r] /\ hand[r] = {}
    /\ hand' = [hand EXCEPT ![r] = {e}]
    /\ due' = [due EXCEPT ![r] = @ \ {e}]
    /\ UNCHANGED <<update, produced, streaming, missed, raw, workerVars, cacheVars>>

\* raw_tx.send() waits for room.
SendRaw(r, e) ==
    /\ e \in hand[r] /\ Len(raw) < RawCap
    /\ raw' = Append(raw, e)
    /\ hand' = [hand EXCEPT ![r] = {}]
    /\ UNCHANGED <<update, produced, streaming, due, missed, workerVars, cacheVars>>

-----------------------------------------------------------------------------
(* run_dedup_worker.                                                        *)

\* The next update, taken off the raw channel.
Recv(e) ==
    /\ worker = "recv"
    /\ raw # <<>> /\ e = Head(raw)
    /\ raw' = Tail(raw)
    /\ UNCHANGED <<regionVars, forwarded, historyVars>>

\* Mutant: break instead of continue.
RecvPongBreaks(e) ==
    /\ Recv(e) /\ IsPong(e)
    /\ worker' = "ended"
    /\ UNCHANGED <<current, cacheVars>>

RecvPong(e) ==
    /\ Recv(e) /\ IsPong(e)
    /\ UNCHANGED <<worker, current, cacheVars>>

RecvUnkeyed(e) ==
    /\ Recv(e) /\ ~IsPong(e) /\ KeyOf(e) = NoKey
    /\ worker' = "send" /\ current' = {e}
    /\ UNCHANGED cacheVars

\* Mutant: what check_and_insert answers is not looked at.
RecvDuplicateForwards(e) ==
    /\ Recv(e) /\ KeyOf(e) # NoKey
    /\ Cache!Occupied(KeyOf(e))
    /\ worker' = "send" /\ current' = {e}

RecvDuplicate(e) ==
    /\ Recv(e) /\ KeyOf(e) # NoKey
    /\ Cache!Occupied(KeyOf(e))
    /\ UNCHANGED <<worker, current>>

RecvFirst(e) ==
    /\ Recv(e) /\ KeyOf(e) # NoKey
    /\ Cache!Insert(KeyOf(e))
    /\ worker' = "push" /\ current' = {e}

Push(e) ==
    /\ worker = "push" /\ e \in current
    /\ Cache!PushFifo(KeyOf(e))
    /\ worker' = "send"
    /\ UNCHANGED <<regionVars, raw, current, forwarded, historyVars>>

\* broadcast_tx.send(); that nobody is subscribed is ignored.
Broadcast(e) ==
    /\ worker = "send" /\ e \in current
    /\ forwarded' = forwarded \cup {e}
    /\ worker' = "recv" /\ current' = {}
    /\ held' = 0
    /\ aired' = IF KeyOf(e) = NoKey THEN aired ELSE [aired EXCEPT ![KeyOf(e)] = held]
    /\ UNCHANGED <<regionVars, raw, cacheVars>>

Worker ==
    \E e \in Events :
        \/ RecvPong(e) \/ RecvUnkeyed(e) \/ RecvDuplicate(e) \/ RecvFirst(e)
        \/ Push(e) \/ Broadcast(e)

-----------------------------------------------------------------------------
(* The eviction task, and time.                                             *)

Evict == Cache!Evict /\ UNCHANGED <<regionVars, raw, workerVars>>

Tick ==
    /\ Cache!Tick
    /\ held' = IF current = {} THEN 0 ELSE Cache!Older(held)
    /\ aired' = [k \in DedupKeys |-> Cache!Older(aired[k])]
    /\ UNCHANGED <<regionVars, raw, worker, current, forwarded>>

Next ==
    \/ \E e \in Events : Produce(e)
    \/ \E r \in Regions : Connect(r) \/ StreamEnd(r)
    \/ \E r \in Regions, e \in Events : Read(r, e) \/ SendRaw(r, e)
    \/ Worker
    \/ Evict
    \/ Tick

Spec == Init /\ [][Next]_vars

(***************************************************************************)
(* Fairness: the runtime runs the worker and the eviction task, a channel   *)
(* serves the senders that wait for room in their order, and the worker is  *)
(* not shut out of the fifo lock for ever (see DedupCache).  Nothing makes  *)
(* a stream come up, deliver or end.                                        *)
(***************************************************************************)
Fairness ==
    /\ SF_vars(Worker)
    /\ WF_vars(Evict)
    /\ \A r \in Regions, e \in Events : SF_vars(SendRaw(r, e))

FairSpec == Spec /\ Fairness

-----------------------------------------------------------------------------
(* Properties.                                                              *)

\* The event is somewhere between a region's stream and the broadcast.
InPipeline(e) ==
    \/ \E r \in Regions : e \in due[r] \cup hand[r]
    \/ \E i \in DOMAIN raw : raw[i] = e
    \/ e \in current

\* The same update, as two regions deliver it.
Copy(d, e) ==
    /\ update[d].kind = update[e].kind /\ update[d].slot = update[e].slot
    /\ update[d].name = update[e].name /\ update[d].hash = update[e].hash

\* The keys of slot updates and of transactions do not say of which candidate
\* block of the slot they are.
Rival(d, e) ==
    /\ update[e].kind \in NamedKinds \ HashedKinds
    /\ update[d].kind = update[e].kind /\ update[d].slot = update[e].slot
    /\ update[d].name = update[e].name

\* An update that stands for e went out.
StoodFor(e, out) == e \in out \/ \E d \in out : Copy(d, e) \/ Rival(d, e)

\* An event that one region receives reaches the subscribers whatever happens
\* to the other regions: it is lost only when every region missed it, or when
\* it is hidden by its own copy, or by the slot update of the same status, or
\* the same transaction, of a competing candidate block.  So "other regions
\* cover a gap" (grpc_mux.rs:162), a transaction that lands again in a later
\* slot is not hidden, and neither are the metas, entries and footers of a
\* second candidate (grpc_mux.rs:358-369, 420-435).
GapsAreCovered ==
    \A e \in produced :
        \/ IsPong(e) \/ InPipeline(e) \/ StoodFor(e, forwarded \cup current)
        \/ \A r \in Regions : e \in missed[r]

\* Whichever regions deliver an update, and however the worker, the eviction
\* task and time interleave, what the worker is about to broadcast has a key
\* of which no copy taken in within the last window was broadcast
\* (grpc_mux.rs:371-417 and the worker's use of it).
OnceAWindow ==
    \A e \in current : worker = "send" /\ KeyOf(e) # NoKey => aired[KeyOf(e)] = Ttl

\* What a region's loop has read gets through, by itself or as an update that
\* stands for it: a full raw channel, the other regions and the eviction task
\* delay it but never stop it.
ReadIsForwarded ==
    \A r \in Regions, e \in Events :
        e \in hand[r] /\ ~IsPong(e) ~> StoodFor(e, forwarded)
=============================================================================
