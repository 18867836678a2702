------------------------------ MODULE DedupCache ------------------------------
(***************************************************************************)
(* The dedup cache of src/src/proxy/grpc_mux.rs, used by one worker and by  *)
(* the eviction task.                                                      *)
(*                                                                         *)
(* It is two structures under two locks: `seen`, a sharded map whose lock   *)
(* is released as soon as a key is inserted, and `fifo`, a queue of         *)
(* (key, instant) under a mutex.  The worker's insert-then-push and the     *)
(* evictor's pop-then-remove are two steps each, and interleave.            *)
(*                                                                         *)
(* Time is kept as ages that stop growing at Ttl, the only age the code     *)
(* tells apart from the others; Tick makes everything one unit older, so    *)
(* that time needs no bound.                                                *)
(***************************************************************************)
EXTENDS Naturals, Sequences

CONSTANTS
    Keys,      \* DedupKey
    Ttl        \* dedup_window_secs, in ticks

ASSUME TtlAssumption == Ttl \in Nat

VARIABLES
    seen,        \* DedupCache.seen
    fifo,        \* DedupCache.fifo, of records [key, age]
    inserting,   \* the key in `seen` whose push to `fifo` is still to come
    evictor,     \* "asleep", or "locked": evict_expired holds the fifo lock
    expired,     \* how many entries the evictor, by the instant it took when
                 \* it got the lock, has still to pop
    victim,      \* the key popped from `fifo`, not yet removed from `seen`
    admitted     \* history: the age of the last admission of each key

vars == <<seen, fifo, inserting, evictor, expired, victim, admitted>>

Entries == [key : Keys, age : 0..Ttl]

TypeOK ==
    /\ seen \subseteq Keys
    /\ fifo \in Seq(Entries)
    /\ inserting \in SUBSET Keys
    /\ evictor \in {"asleep", "locked"}
    /\ expired \in Nat
    /\ victim \in SUBSET Keys
    /\ admitted \in [Keys -> 0..Ttl]

Init ==
    /\ seen = {}
    /\ fifo = <<>>
    /\ inserting = {}
    /\ evictor = "asleep"
    /\ expired = 0
    /\ victim = {}
    /\ admitted = [k \in Keys |-> Ttl]

-----------------------------------------------------------------------------
(* check_and_insert(key), called by the one worker.                         *)

\* Entry::Occupied: the key is a duplicate.
Occupied(k) ==
    /\ inserting = {}
    /\ k \in seen
    /\ UNCHANGED <<seen, fifo, inserting, evictor, expired, victim, admitted>>

\* Mutant: a map insert that never asks whether the key was there.
InsertAlways(k) ==
    /\ inserting = {}
    /\ seen' = seen \cup {k}
    /\ inserting' = {k}
    /\ admitted' = [admitted EXCEPT ![k] = 0]
    /\ UNCHANGED <<fifo, evictor, expired, victim>>

\* Entry::Vacant: v.insert(()), and the shard's lock is gone.
Insert(k) ==
    /\ inserting = {}
    /\ k \notin seen
    /\ seen' = seen \cup {k}
    /\ inserting' = {k}
    /\ admitted' = [admitted EXCEPT ![k] = 0]
    /\ UNCHANGED <<fifo, evictor, expired, victim>>

\* Mutant: try_lock() for lock(), the push is skipped while the evictor runs.
PushIfUnlocked(k) ==
    /\ k \in inserting
    /\ fifo' = IF evictor = "asleep" THEN Append(fifo, [key |-> k, age |-> 0]) ELSE fifo
    /\ inserting' = {}
    /\ UNCHANGED <<seen, evictor, expired, victim, admitted>>

\* Mutant: push_front() for push_back().
PushFront(k) ==
    /\ k \in inserting
    /\ evictor = "asleep"
    /\ fifo' = <<[key |-> k, age |-> 0]>> \o fifo
    /\ inserting' = {}
    /\ UNCHANGED <<seen, evictor, expired, victim, admitted>>

\* The push, with an instant taken under the fifo lock.
PushFifo(k) ==
    /\ k \in inserting
    /\ evictor = "asleep"
    /\ fifo' = Append(fifo, [key |-> k, age |-> 0])
    /\ inserting' = {}
    /\ UNCHANGED <<seen, evictor, expired, victim, admitted>>

-----------------------------------------------------------------------------
(* evict_expired(), called by the eviction task at every interval.          *)

\* Mutant: an entry is taken for expired one tick early.
ExpiredEarly(f, n) ==
    /\ n \in 0..Len(f)
    /\ \A i \in 1..n : f[i].age + 1 >= Ttl
    /\ n < Len(f) => f[n + 1].age + 1 < Ttl

\* The loop's condition: the n entries in front are ttl or more old at the
\* instant `now`, and the one behind them is not.
ExpiredFront(f, n) ==
    /\ n \in 0..Len(f)
    /\ \A i \in 1..n : f[i].age >= Ttl
    /\ n < Len(f) => f[n + 1].age < Ttl

EvictLock ==
    /\ evictor = "asleep"
    /\ evictor' = "locked"
    /\ \E n \in 0..Len(fifo) : ExpiredFront(fifo, n) /\ expired' = n
    /\ UNCHANGED <<seen, fifo, inserting, victim, admitted>>

EvictPop ==
    /\ evictor = "locked" /\ victim = {} /\ expired > 0
    /\ victim' = {Head(fifo).key}
    /\ fifo' = Tail(fifo)
    /\ expired' = expired - 1
    /\ UNCHANGED <<seen, inserting, evictor, admitted>>

\* Mutant: the popped key is forgotten, `seen` keeps it.
EvictForget ==
    /\ evictor = "locked" /\ victim # {}
    /\ victim' = {}
    /\ UNCHANGED <<seen, fifo, inserting, evictor, expired, admitted>>

EvictRemove ==
    /\ evictor = "locked" /\ victim # {}
    /\ seen' = seen \ victim
    /\ victim' = {}
    /\ UNCHANGED <<fifo, inserting, evictor, expired, admitted>>

EvictUnlock ==
    /\ evictor = "locked" /\ victim = {} /\ expired = 0
    /\ evictor' = "asleep"
    /\ UNCHANGED <<seen, fifo, inserting, expired, victim, admitted>>

Evict == EvictLock \/ EvictPop \/ EvictRemove \/ EvictUnlock

-----------------------------------------------------------------------------

Older(a) == IF a < Ttl THEN a + 1 ELSE Ttl

Tick ==
    /\ fifo' = [i \in DOMAIN fifo |-> [key |-> fifo[i].key, age |-> Older(fifo[i].age)]]
    /\ admitted' = [k \in Keys |-> Older(admitted[k])]
    /\ UNCHANGED <<seen, inserting, evictor, expired, victim>>

Next ==
    \/ \E k \in Keys : Occupied(k) \/ Insert(k) \/ PushFifo(k)
    \/ Evict
    \/ Tick

(***************************************************************************)
(* Fairness: time passes, the eviction task runs at every interval, and the *)
(* worker gets the fifo lock in between (the evictor is away for a second   *)
(* or more after each round, so a waiting worker is not shut out for ever). *)
(***************************************************************************)
Fairness ==
    /\ WF_vars(Tick)
    /\ WF_vars(Evict)
    /\ \A k \in Keys : SF_vars(PushFifo(k))

Spec == Init /\ [][Next]_vars

FairSpec == Spec /\ Fairness

-----------------------------------------------------------------------------
(* Properties.                                                              *)

FifoKeys == {fifo[i].key : i \in DOMAIN fifo}

\* The two structures agree: a key is in `seen` exactly when the fifo will
\* lead the evictor to it, or one of the two tasks has it in hand.  A key
\* with no fifo entry would stay in `seen` for ever, and every later update
\* with that key would be swallowed (grpc_mux.rs:387-417).
SeenIsTracked == seen = FifoKeys \cup inserting \cup victim

\* No key is queued twice, and none is queued while a task has it in hand:
\* an eviction never takes away an admission newer than its own entry.
OneEntryPerKey ==
    /\ \A i, j \in DOMAIN fifo : fifo[i].key = fifo[j].key => i = j
    /\ FifoKeys \cap (inserting \cup victim) = {}
    /\ inserting \cap victim = {}

\* The oldest entry is in front: the loop that stops at the first entry
\* that is not expired (grpc_mux.rs:408-416) leaves no expired one behind.
OldestInFront ==
    \A i, j \in DOMAIN fifo : i < j => fifo[i].age >= fifo[j].age

\* The cache lets a key through at most once in a window.
Feed == INSTANCE UniqueFeed WITH age <- admitted
UniqueWithinWindow == Feed!Spec

\* No key stays in the cache: each is evicted when its window is over.
KeysExpire == \A k \in Keys : k \in seen ~> k \notin seen
=============================================================================
