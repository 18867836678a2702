------------------------- MODULE MultiRegionMuxProofs -------------------------
(***************************************************************************)
(* For any regions, any feed, any channel and any window (MuxAssumption):   *)
(* the pipeline broadcasts a key once a window, and loses an event only     *)
(* when every region missed it or an update of its key stands for it.       *)
(*                                                                         *)
(* What the cache's proofs say holds in the pipeline, whose steps are steps *)
(* of the cache or leave it as it is.  The broadcasts follow the cache's    *)
(* admissions one update behind (Timed).  That gaps are covered needs the   *)
(* state of every region by itself (Kept), because GapsAreCovered does not  *)
(* tell which region had the event that another one loses, and what a key   *)
(* in the cache stands for (SeenIsOut).                                     *)
(***************************************************************************)
EXTENDS MultiRegionMux, TLAPS

\* The results about the cache.
CacheProofs == INSTANCE DedupCacheProofs WITH Keys <- DedupKeys

-----------------------------------------------------------------------------
(* The cache within the pipeline.                                           *)

LEMMA TtlIsNat == Ttl \in Nat
  BY MuxAssumption

LEMMA KeyInCache ==
  ASSUME update \in Feeds, NEW e \in Events, KeyOf(e) # NoKey
  PROVE  KeyOf(e) \in DedupKeys
  BY DEF KeyOf, DedupKeys

LEMMA UpdateIsFixed == update \in Feeds /\ [Next]_vars => update' \in Feeds
  BY DEF Next, vars, regionVars, Produce, Connect, StreamEnd, Read, SendRaw, Worker, Recv,
         RecvPong, RecvUnkeyed, RecvDuplicate, RecvFirst, Push, Broadcast, Evict, Tick

\* Every step of the pipeline is a step of the cache or leaves it alone.
LEMMA CacheStep == update \in Feeds /\ inserting \subseteq DedupKeys /\ [Next]_vars => [Cache!Next]_cacheVars
<1> SUFFICES ASSUME update \in Feeds, inserting \subseteq DedupKeys, [Next]_vars
             PROVE  [Cache!Next]_cacheVars
    OBVIOUS
<1>1. ASSUME NEW e \in Events, RecvFirst(e) PROVE Cache!Next
      BY <1>1, KeyInCache DEF RecvFirst, Cache!Next
<1>2. ASSUME NEW e \in Events, Push(e) PROVE Cache!Next
  <2>1. KeyOf(e) \in inserting /\ Cache!PushFifo(KeyOf(e))
        BY <1>2 DEF Push, Cache!PushFifo
  <2>2. QED
        BY <2>1 DEF Cache!Next
<1>3. ASSUME NEW e \in Events, RecvDuplicate(e) PROVE UNCHANGED cacheVars
      BY <1>3 DEF RecvDuplicate, Cache!Occupied, cacheVars
<1>4. ASSUME NEW e \in Events, RecvPong(e) \/ RecvUnkeyed(e) \/ Broadcast(e)
      PROVE  UNCHANGED cacheVars
      BY <1>4 DEF RecvPong, RecvUnkeyed, Broadcast
<1>5. ASSUME Evict \/ Tick PROVE Cache!Next
      BY <1>5 DEF Evict, Tick, Cache!Next
<1>6. ASSUME \/ \E e \in Events : Produce(e)
             \/ \E r \in Regions : Connect(r) \/ StreamEnd(r)
             \/ \E r \in Regions, e \in Events : Read(r, e) \/ SendRaw(r, e)
      PROVE  UNCHANGED cacheVars
      BY <1>6 DEF Produce, Connect, StreamEnd, Read, SendRaw
<1>7. QED
      BY <1>1, <1>2, <1>3, <1>4, <1>5, <1>6 DEF Next, Worker, vars

\* The definitions of the cache's two instances are the same.
LEMMA SameCache ==
  /\ Cache!Init => CacheProofs!Init
  /\ [Cache!Next]_cacheVars => [CacheProofs!Next]_(CacheProofs!vars)
<1>1. Cache!Init => CacheProofs!Init
      BY DEF Cache!Init, CacheProofs!Init
<1>2. Cache!Next => CacheProofs!Next
      BY DEF Cache!Next, CacheProofs!Next, Cache!Occupied, CacheProofs!Occupied,
             Cache!Insert, CacheProofs!Insert, Cache!PushFifo, CacheProofs!PushFifo,
             Cache!Evict, CacheProofs!Evict, Cache!EvictLock, CacheProofs!EvictLock,
             Cache!ExpiredFront, CacheProofs!ExpiredFront,
             Cache!EvictPop, CacheProofs!EvictPop, Cache!EvictRemove, CacheProofs!EvictRemove,
             Cache!EvictUnlock, CacheProofs!EvictUnlock,
             Cache!Tick, CacheProofs!Tick, Cache!Older, CacheProofs!Older
<1>3. QED
      BY <1>1, <1>2 DEF cacheVars, CacheProofs!vars

\* What the cache's proofs say of it holds in the pipeline.
CacheInv == update \in Feeds /\ CacheProofs!Inv

LEMMA InitCache == Init => CacheInv
  BY SameCache, TtlIsNat, CacheProofs!InitInv DEF Init, CacheInv

LEMMA NextCache == CacheInv /\ [Next]_vars => CacheInv'
<1> SUFFICES ASSUME CacheInv, [Next]_vars PROVE CacheInv'
    OBVIOUS
<1>1. inserting \subseteq DedupKeys
      BY DEF CacheInv, CacheProofs!Inv, CacheProofs!TypeOK
<1>2. [CacheProofs!Next]_(CacheProofs!vars)
      BY <1>1, CacheStep, SameCache DEF CacheInv
<1>3. CacheProofs!Inv'
      BY <1>2, TtlIsNat, CacheProofs!NextInv DEF CacheInv
<1>4. QED
      BY <1>3, UpdateIsFixed DEF CacheInv

-----------------------------------------------------------------------------
(* No event is lost while one region has it.                                *)

Shape ==
    /\ update \in Feeds
    /\ produced \subseteq Events /\ forwarded \subseteq Events
    /\ streaming \in [Regions -> BOOLEAN]
    /\ due \in [Regions -> SUBSET Events]
    /\ hand \in [Regions -> SUBSET Events]
    /\ missed \in [Regions -> SUBSET Events]
    /\ raw \in Seq(Events) /\ Len(raw) <= RawCap
    /\ worker \in {"recv", "push", "send"}
    /\ current \subseteq Events

\* A loop, and the worker, are at one event at a time, and the worker at none
\* while it waits.
OneAtATime ==
    /\ \A r \in Regions : \A d, e \in hand[r] : d = e
    /\ \A d, e \in current : d = e
    /\ worker = "recv" => current = {}

\* What went out, or is about to.
Out == forwarded \cup current

\* A key in the cache is that of an event that went out, or is about to.
SeenIsOut == \A k \in seen : \E d \in Out : KeyOf(d) = k

Queued(e) == \E i \in 1..Len(raw) : raw[i] = e

\* Each region accounts for each event, until it is queued or out.
Kept ==
    \A e \in produced, r \in Regions :
        \/ StoodFor(e, Out) \/ IsPong(e) \/ Queued(e)
        \/ e \in due[r] \/ e \in hand[r] \/ e \in missed[r]

MuxInv == Shape /\ OneAtATime /\ SeenIsOut /\ Kept

LEMMA InitMux == Init => MuxInv
  BY MuxAssumption
  DEF Init, Cache!Init, MuxInv, Shape, OneAtATime, SeenIsOut, Kept

\* Of two events of one key each stands for the other.
LEMMA KeysTellApart ==
  ASSUME update \in Feeds, NEW d \in Events, NEW e \in Events,
         KeyOf(d) = KeyOf(e), KeyOf(d) # NoKey
  PROVE  Copy(d, e) \/ Rival(d, e)
<1> DEFINE name(x) == IF update[x].kind \in NamedKinds THEN update[x].name ELSE NoKey
           hash(x) == IF update[x].kind \in HashedKinds THEN update[x].hash ELSE NoKey
           four(x) == <<update[x].kind, update[x].slot, name(x), hash(x)>>
<1>1. /\ KeyOf(d) = four(d) /\ HasKey(update[d])
      /\ KeyOf(e) = four(e) /\ HasKey(update[e])
      BY DEF KeyOf, compute_dedup_key
<1>2. /\ update[d].kind = update[e].kind /\ update[d].slot = update[e].slot
      /\ name(d) = name(e) /\ hash(d) = hash(e)
  <2> HIDE DEF name, hash
  <2>1. four(d) = four(e)
        BY <1>1, Zenon
  <2>2. QED
        BY <2>1, Zenon
<1>3. /\ update[e].kind \in NamedKinds \cup HashedKinds
      /\ \A x \in {d, e} : update[x].kind \in HashedKinds \ NamedKinds => update[x].name = NoKey
      BY <1>1, MuxAssumption DEF HasKey
<1>4. CASE update[e].kind \in NamedKinds \ HashedKinds
      BY <1>2, <1>4 DEF Rival
<1>5. CASE update[e].kind \in HashedKinds
      BY <1>2, <1>3, <1>5 DEF Copy
<1>6. QED
      BY <1>3, <1>4, <1>5

\* What stands for an event goes on doing so.
LEMMA StandsOn ==
  ASSUME NEW e, StoodFor(e, Out), update' = update, Out \subseteq Out'
  PROVE  StoodFor(e, Out)'
  BY DEF StoodFor, Copy, Rival

\* What receiving takes off the channel.
LEMMA RecvTakesHead ==
  ASSUME Shape, NEW e \in Events, Recv(e)
  PROVE  /\ raw' \in Seq(Events) /\ Len(raw') <= RawCap
         /\ worker = "recv" /\ UNCHANGED <<regionVars, forwarded>>
         /\ \A d : Queued(d) => d = e \/ Queued(d)'
<1>1. /\ raw \in Seq(Events) /\ raw # <<>> /\ raw' = Tail(raw) /\ e = raw[1]
      /\ UNCHANGED <<regionVars, forwarded>> /\ worker = "recv"
      BY DEF Recv, Shape
<1>2. /\ raw' \in Seq(Events) /\ Len(raw') = Len(raw) - 1 /\ Len(raw) \in Nat
      /\ \A i \in 1..Len(raw') : raw'[i] = raw[i + 1]
      BY <1>1
<1>3. ASSUME NEW d, Queued(d), d # e PROVE Queued(d)'
  <2>1. PICK i \in 1..Len(raw) : raw[i] = d
        BY <1>3 DEF Queued
  <2>2. i # 1 /\ i - 1 \in 1..Len(raw') /\ raw'[i - 1] = d
        BY <1>1, <1>2, <1>3, <2>1
  <2>3. QED
        BY <2>2 DEF Queued
<1>4. QED
      BY <1>1, <1>2, <1>3, MuxAssumption DEF Shape

\* Nothing that went out, or is about to, is taken back.
LEMMA OutGrows == OneAtATime /\ [Next]_vars => update' = update /\ Out \subseteq Out'
<1> SUFFICES ASSUME OneAtATime, [Next]_vars PROVE update' = update /\ Out \subseteq Out'
    OBVIOUS
<1>1. ASSUME NEW e \in Events, Broadcast(e) PROVE update' = update /\ Out \subseteq Out'
      BY <1>1 DEF Broadcast, OneAtATime, Out, regionVars
<1>2. ASSUME NEW e \in Events, RecvPong(e) \/ RecvUnkeyed(e) \/ RecvDuplicate(e) \/ RecvFirst(e)
      PROVE  update' = update /\ Out \subseteq Out'
      BY <1>2 DEF RecvPong, RecvUnkeyed, RecvDuplicate, RecvFirst, Recv, OneAtATime, Out, regionVars
<1>3. ASSUME NEW e \in Events, Push(e) PROVE update' = update /\ Out \subseteq Out'
      BY <1>3 DEF Push, Out, regionVars
<1>4. ASSUME \/ \E e \in Events : Produce(e)
             \/ \E r \in Regions : Connect(r) \/ StreamEnd(r)
             \/ \E r \in Regions, e \in Events : Read(r, e) \/ SendRaw(r, e)
             \/ Evict \/ Tick
      PROVE  update' = update /\ Out \subseteq Out'
      BY <1>4 DEF Produce, Connect, StreamEnd, Read, SendRaw, Evict, Tick, Out, regionVars, workerVars
<1>5. CASE UNCHANGED vars
      BY <1>5 DEF vars, regionVars, workerVars, Out
<1>6. QED
      BY <1>1, <1>2, <1>3, <1>4, <1>5 DEF Next, Worker

LEMMA NextMux == CacheInv /\ MuxInv /\ [Next]_vars => MuxInv'
<1> SUFFICES ASSUME CacheInv, MuxInv, [Next]_vars PROVE MuxInv'
    OBVIOUS
<1> USE DEF MuxInv
<1>a. update' = update /\ Out \subseteq Out'
      BY OutGrows
<1>b. \A e : StoodFor(e, Out) => StoodFor(e, Out)'
      BY <1>a, StandsOn
<1>c. \A e \in Out' : StoodFor(e, Out)'
      BY DEF StoodFor
<1>d. ASSUME seen' \subseteq seen PROVE SeenIsOut'
      BY <1>a, <1>d DEF SeenIsOut, KeyOf
<1>e. \A e : IsPong(e)' = IsPong(e)
      BY <1>a DEF IsPong
<1>1. CASE UNCHANGED vars
  <2>1. Shape' /\ OneAtATime' /\ SeenIsOut'
        BY <1>1, <1>d DEF vars, regionVars, workerVars, cacheVars, Shape, OneAtATime
  <2>2. Kept'
        BY <1>1, <1>b, <1>e DEF vars, regionVars, Kept, Queued
  <2>3. QED
        BY <2>1, <2>2
<1>2. ASSUME NEW e \in Events, Produce(e) PROVE MuxInv'
  <2>1. Shape' /\ OneAtATime' /\ SeenIsOut'
        BY <1>2, <1>d DEF Produce, Shape, OneAtATime, workerVars, cacheVars
  <2>2. Kept'
        BY <1>2, <1>b, <1>e DEF Produce, Shape, Kept, Queued
  <2>3. QED
        BY <2>1, <2>2
<1>3. ASSUME NEW r \in Regions, Connect(r) PROVE MuxInv'
  <2>1. Shape' /\ OneAtATime' /\ SeenIsOut'
        BY <1>3, <1>d DEF Connect, Shape, OneAtATime, workerVars, cacheVars
  <2>2. Kept'
        BY <1>3, <1>b, <1>e DEF Connect, Kept, Queued
  <2>3. QED
        BY <2>1, <2>2
<1>4. ASSUME NEW r \in Regions, StreamEnd(r) PROVE MuxInv'
  <2>1. Shape' /\ OneAtATime' /\ SeenIsOut'
        BY <1>4, <1>d DEF StreamEnd, Shape, OneAtATime, workerVars, cacheVars
  <2>2. Kept'
        BY <1>4, <1>b, <1>e DEF StreamEnd, Shape, Kept, Queued
  <2>3. QED
        BY <2>1, <2>2
<1>5. ASSUME NEW r \in Regions, NEW e \in Events, Read(r, e) PROVE MuxInv'
  <2>1. Shape' /\ OneAtATime' /\ SeenIsOut'
        BY <1>5, <1>d DEF Read, Shape, OneAtATime, workerVars, cacheVars
  <2>2. Kept'
        BY <1>5, <1>b, <1>e DEF Read, Shape, Kept, Queued
  <2>3. QED
        BY <2>1, <2>2
<1>6. ASSUME NEW r \in Regions, NEW e \in Events, SendRaw(r, e) PROVE MuxInv'
  <2>1. /\ raw' \in Seq(Events) /\ Len(raw') = Len(raw) + 1 /\ raw'[Len(raw) + 1] = e
        /\ \A i \in 1..Len(raw) : raw'[i] = raw[i]
        /\ Len(raw) \in Nat /\ Len(raw) < RawCap
        BY <1>6 DEF SendRaw, Shape
  <2>2. Queued(e)' /\ \A d : Queued(d) => Queued(d)'
        BY <2>1 DEF Queued
  <2>3. Shape' /\ OneAtATime' /\ SeenIsOut'
        BY <1>6, <1>d, <2>1, MuxAssumption
        DEF SendRaw, Shape, OneAtATime, workerVars, cacheVars
  <2>4. Kept'
        BY <1>6, <1>b, <1>e, <2>2 DEF SendRaw, Shape, OneAtATime, Kept
  <2>5. QED
        BY <2>3, <2>4
<1>7. ASSUME NEW e \in Events, RecvPong(e) PROVE MuxInv'
  <2>1. Recv(e) /\ IsPong(e) /\ UNCHANGED <<worker, current, cacheVars>>
        BY <1>7 DEF RecvPong
  <2>2. Shape' /\ OneAtATime' /\ SeenIsOut'
        BY <2>1, <1>d, RecvTakesHead DEF Shape, OneAtATime, regionVars, cacheVars
  <2>3. Kept'
        BY <2>1, <1>b, <1>e, RecvTakesHead DEF Kept, regionVars
  <2>4. QED
        BY <2>2, <2>3
<1>8. ASSUME NEW e \in Events, RecvUnkeyed(e) PROVE MuxInv'
  <2>1. Recv(e) /\ worker' = "send" /\ current' = {e} /\ UNCHANGED cacheVars
        BY <1>8 DEF RecvUnkeyed
  <2>2. Shape' /\ OneAtATime' /\ SeenIsOut'
        BY <2>1, <1>d, RecvTakesHead DEF Shape, OneAtATime, regionVars, cacheVars
  <2>3. StoodFor(e, Out)'
        BY <2>1, <1>c DEF Out
  <2>4. Kept'
        BY <2>1, <2>3, <1>b, <1>e, RecvTakesHead DEF Kept, regionVars
  <2>5. QED
        BY <2>2, <2>4
<1>9. ASSUME NEW e \in Events, RecvDuplicate(e) PROVE MuxInv'
  <2>1. /\ Recv(e) /\ KeyOf(e) # NoKey /\ KeyOf(e) \in seen
        /\ UNCHANGED <<worker, current, cacheVars>>
        BY <1>9 DEF RecvDuplicate, Cache!Occupied, cacheVars
  <2>2. Shape' /\ OneAtATime' /\ SeenIsOut'
        BY <2>1, <1>d, RecvTakesHead DEF Shape, OneAtATime, regionVars, cacheVars
  <2>3. StoodFor(e, Out)
    <3>1. PICK d \in Out : KeyOf(d) = KeyOf(e)
          BY <2>1 DEF SeenIsOut
    <3>2. d \in Events /\ update \in Feeds
          BY DEF Out, Shape
    <3>3. Copy(d, e) \/ Rival(d, e)
          BY <2>1, <3>1, <3>2, KeysTellApart
    <3>4. QED
          BY <3>3 DEF StoodFor
  <2>4. Kept'
        BY <2>1, <2>3, <1>b, <1>e, RecvTakesHead DEF Kept, regionVars
  <2>5. QED
        BY <2>2, <2>4
<1>10. ASSUME NEW e \in Events, RecvFirst(e) PROVE MuxInv'
  <2>1. /\ Recv(e) /\ KeyOf(e) # NoKey /\ seen' = seen \cup {KeyOf(e)}
        /\ worker' = "push" /\ current' = {e}
        BY <1>10 DEF RecvFirst, Cache!Insert
  <2>2. Shape' /\ OneAtATime'
        BY <2>1, RecvTakesHead DEF Shape, OneAtATime, regionVars
  <2>3. e \in Out' /\ StoodFor(e, Out)'
        BY <2>1, <1>c DEF Out
  <2>4. SeenIsOut'
        BY <1>a, <2>1, <2>3 DEF SeenIsOut, KeyOf
  <2>5. Kept'
        BY <2>1, <2>3, <1>b, <1>e, RecvTakesHead DEF Kept, regionVars
  <2>6. QED
        BY <2>2, <2>4, <2>5
<1>11. ASSUME NEW e \in Events, Push(e) PROVE MuxInv'
  <2>1. /\ UNCHANGED <<regionVars, raw, current, forwarded, seen>>
        /\ worker = "push" /\ worker' = "send"
        BY <1>11 DEF Push, Cache!PushFifo
  <2>2. Shape' /\ OneAtATime' /\ SeenIsOut'
        BY <2>1, <1>d DEF Shape, OneAtATime, regionVars
  <2>3. Kept'
        BY <2>1, <1>b, <1>e DEF Kept, Queued, regionVars
  <2>4. QED
        BY <2>2, <2>3
<1>12. ASSUME NEW e \in Events, Broadcast(e) PROVE MuxInv'
  <2>1. /\ UNCHANGED <<regionVars, raw, seen>>
        /\ e \in current /\ forwarded' = forwarded \cup {e}
        /\ worker' = "recv" /\ current' = {}
        BY <1>12 DEF Broadcast, cacheVars
  <2>2. Shape' /\ OneAtATime' /\ SeenIsOut'
        BY <2>1, <1>d DEF Shape, OneAtATime, regionVars
  <2>3. Kept'
        BY <2>1, <1>b, <1>e DEF Kept, Queued, regionVars
  <2>4. QED
        BY <2>2, <2>3
<1>13. ASSUME Evict \/ Tick PROVE MuxInv'
  <2>1. UNCHANGED <<regionVars, raw, worker, current, forwarded>> /\ seen' \subseteq seen
        BY <1>13
        DEF Evict, Tick, Cache!Evict, Cache!Tick, Cache!EvictLock, Cache!EvictPop,
            Cache!EvictRemove, Cache!EvictUnlock, workerVars
  <2>2. Shape' /\ OneAtATime' /\ SeenIsOut'
        BY <2>1, <1>d DEF Shape, OneAtATime, regionVars
  <2>3. Kept'
        BY <2>1, <1>b, <1>e DEF Kept, Queued, regionVars
  <2>4. QED
        BY <2>2, <2>3
<1>14. QED
       BY <1>1, <1>2, <1>3, <1>4, <1>5, <1>6, <1>7, <1>8, <1>9, <1>10, <1>11, <1>12, <1>13
       DEF Next, Worker

\* "Other regions cover a gap" (grpc_mux.rs:162): with any number of regions that
\* come and go, an event that one of them received is broadcast, is still on its
\* way, or is stood for by its own copy or, for slot updates and transactions, by
\* that of a competing candidate block; for the keys of the code, over any feed.
THEOREM RegionsCoverGaps == Spec => []GapsAreCovered
<1>1. MuxInv => GapsAreCovered
  <2> SUFFICES ASSUME MuxInv, NEW e \in produced, ~StoodFor(e, forwarded \cup current),
                      ~IsPong(e), ~InPipeline(e), NEW r \in Regions
               PROVE  e \in missed[r]
      BY DEF GapsAreCovered
  <2>1. DOMAIN raw = 1..Len(raw)
        BY DEF MuxInv, Shape
  <2>2. ~StoodFor(e, Out)
        BY DEF Out
  <2>3. QED
        BY <2>1, <2>2 DEF MuxInv, Kept, InPipeline, Queued
<1>2. QED
      BY InitCache, NextCache, InitMux, NextMux, <1>1, PTL DEF Spec

-----------------------------------------------------------------------------
(* A key is broadcast once a window.                                        *)

\* The key is that of the update the worker is at.
AtHand(k) == \E e \in current : KeyOf(e) = k

\* What was broadcast is what the cache admitted, but for the update at hand:
\* it was admitted when the worker took it in, and when it was, the last
\* broadcast of its key was a window old.
Timed ==
    /\ held \in 0..Ttl /\ aired \in [DedupKeys -> 0..Ttl]
    /\ current = {} => held = 0
    /\ \A k \in DedupKeys : AtHand(k) => aired[k] = Ttl /\ admitted[k] = held
    /\ \A k \in DedupKeys : ~AtHand(k) => aired[k] = admitted[k]

LEMMA InitTimed == Init => Timed
  BY MuxAssumption DEF Init, Cache!Init, Timed, AtHand

LEMMA NextTimed == CacheInv /\ MuxInv /\ Timed /\ [Next]_vars => Timed'
<1> SUFFICES ASSUME CacheInv, MuxInv, Timed, [Next]_vars PROVE Timed'
    OBVIOUS
<1>a. update' = update /\ \A e : KeyOf(e)' = KeyOf(e)
      BY OutGrows DEF MuxInv, KeyOf
<1>b. /\ admitted \in [DedupKeys -> 0..Ttl]
      /\ \A k \in DedupKeys \ seen : admitted[k] = Ttl
      BY DEF CacheInv, CacheProofs!Inv, CacheProofs!TypeOK, CacheProofs!AdmittedBefore
<1>c. ASSUME UNCHANGED <<current, held, aired, admitted>> PROVE Timed'
      BY <1>a, <1>c DEF Timed, AtHand
<1>1. CASE UNCHANGED vars
      BY <1>1, <1>c DEF vars, workerVars, historyVars, cacheVars
<1>2. ASSUME \/ \E e \in Events : Produce(e)
             \/ \E r \in Regions : Connect(r) \/ StreamEnd(r)
             \/ \E r \in Regions, e \in Events : Read(r, e) \/ SendRaw(r, e)
             \/ Evict
      PROVE  Timed'
  <2>1. UNCHANGED <<current, held, aired, admitted>>
        BY <1>2 DEF Produce, Connect, StreamEnd, Read, SendRaw, Evict, Cache!Evict, Cache!EvictLock,
                    Cache!EvictPop, Cache!EvictRemove, Cache!EvictUnlock, workerVars, historyVars,
                    cacheVars
  <2>2. QED
        BY <2>1, <1>c
<1>3. ASSUME NEW e \in Events, RecvPong(e) \/ RecvDuplicate(e) \/ Push(e) PROVE Timed'
  <2>1. UNCHANGED <<current, held, aired, admitted>>
        BY <1>3 DEF RecvPong, RecvDuplicate, Push, Recv, Cache!Occupied, Cache!PushFifo, historyVars,
                    cacheVars
  <2>2. QED
        BY <2>1, <1>c
<1>4. ASSUME NEW e \in Events, RecvUnkeyed(e) PROVE Timed'
  <2>1. /\ KeyOf(e) = NoKey /\ current = {} /\ current' = {e}
        /\ UNCHANGED <<held, aired, admitted>>
        BY <1>4 DEF RecvUnkeyed, Recv, MuxInv, OneAtATime, historyVars, cacheVars
  <2>2. \A k \in DedupKeys : ~AtHand(k) /\ ~AtHand(k)'
        BY <2>1, <1>a DEF AtHand, DedupKeys
  <2>3. QED
        BY <2>1, <2>2 DEF Timed
<1>5. ASSUME NEW e \in Events, RecvFirst(e) PROVE Timed'
  <2>1. /\ KeyOf(e) # NoKey /\ KeyOf(e) \notin seen /\ current = {} /\ current' = {e}
        /\ UNCHANGED <<held, aired>> /\ admitted' = [admitted EXCEPT ![KeyOf(e)] = 0]
        BY <1>5 DEF RecvFirst, Recv, Cache!Insert, MuxInv, OneAtATime, historyVars
  <2>2. KeyOf(e) \in DedupKeys /\ held = 0
        BY <2>1, KeyInCache DEF CacheInv, Timed
  <2>3. \A k \in DedupKeys : ~AtHand(k) /\ (AtHand(k)' <=> k = KeyOf(e))
        BY <2>1, <1>a DEF AtHand
  <2>4. QED
        BY <2>1, <2>2, <2>3, <1>b DEF Timed
<1>6. ASSUME NEW e \in Events, Broadcast(e) PROVE Timed'
  <2>1. /\ current = {e} /\ current' = {} /\ held' = 0 /\ UNCHANGED admitted
        /\ aired' = IF KeyOf(e) = NoKey THEN aired ELSE [aired EXCEPT ![KeyOf(e)] = held]
        BY <1>6 DEF Broadcast, MuxInv, OneAtATime, cacheVars
  <2>2. \A k \in DedupKeys : ~AtHand(k)' /\ (AtHand(k) <=> k = KeyOf(e))
        BY <2>1, <1>a DEF AtHand
  <2>3. CASE KeyOf(e) = NoKey
        BY <2>1, <2>2, <2>3, MuxAssumption DEF Timed, DedupKeys
  <2>4. CASE KeyOf(e) # NoKey
    <3>1. KeyOf(e) \in DedupKeys
          BY <2>4, KeyInCache DEF CacheInv
    <3>2. QED
          BY <2>1, <2>2, <2>4, <3>1, MuxAssumption DEF Timed
  <2>5. QED
        BY <2>3, <2>4
<1>7. ASSUME Tick PROVE Timed'
  <2>1. /\ held' = IF current = {} THEN 0 ELSE Cache!Older(held)
        /\ aired' = [k \in DedupKeys |-> Cache!Older(aired[k])]
        /\ admitted' = [k \in DedupKeys |-> Cache!Older(admitted[k])]
        /\ UNCHANGED current
        BY <1>7 DEF Tick, Cache!Tick
  <2>2. \A k \in DedupKeys : (AtHand(k)' <=> AtHand(k)) /\ (AtHand(k) => current # {})
        BY <2>1, <1>a DEF AtHand
  <2>3. QED
        BY <2>1, <2>2, <1>b, MuxAssumption DEF Timed, Cache!Older
<1>8. QED
      BY <1>1, <1>2, <1>3, <1>4, <1>5, <1>6, <1>7 DEF Next, Worker

\* Whichever regions deliver an update, and in whatever order, nothing is
\* broadcast whose key was broadcast from a copy taken in within the last dedup
\* window (grpc_mux.rs:371-417, 420-435 and the worker).
THEOREM BroadcastOnceAWindow == Spec => []OnceAWindow
<1>1. CacheInv /\ Timed /\ MuxInv => OnceAWindow
      BY KeyInCache DEF CacheInv, MuxInv, Shape, Timed, AtHand, OnceAWindow
<1>2. QED
      BY InitCache, NextCache, InitMux, NextMux, InitTimed, NextTimed, <1>1, PTL DEF Spec

\* The pipeline's state keeps its types, and the raw channel its capacity
\* (grpc_mux.rs:153).
THEOREM TypeCorrect == Spec => []TypeOK
<1>1. CacheInv /\ MuxInv /\ Timed => TypeOK
      BY DEF CacheInv, CacheProofs!Inv, CacheProofs!TypeOK, CacheProofs!Entries, MuxInv, Shape, Timed,
             TypeOK, Cache!TypeOK, Cache!Entries
<1>2. QED
      BY InitCache, NextCache, InitMux, NextMux, InitTimed, NextTimed, <1>1, PTL DEF Spec
=============================================================================
