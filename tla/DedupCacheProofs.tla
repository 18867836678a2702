--------------------------- MODULE DedupCacheProofs ---------------------------
(***************************************************************************)
(* For any set of keys and any window: the two structures of the dedup      *)
(* cache agree at every step, and no key is let through twice in a window.  *)
(*                                                                         *)
(* The heart of the inductive invariant is AdmittedBefore: an entry is      *)
(* never older than the admission it stands for, so that an expired entry   *)
(* proves its key's window over; and the evictor, which acts on the entries *)
(* that were expired when it took the lock, still finds exactly those.      *)
(***************************************************************************)
EXTENDS DedupCache, TLAPS

\* An entry is no older than its key's admission; a key out of the cache, or
\* about to leave it, was admitted a window ago.
AdmittedBefore ==
    /\ \A i \in 1..Len(fifo) : fifo[i].age <= admitted[fifo[i].key]
    /\ \A k \in victim : admitted[k] = Ttl
    /\ \A k \in Keys \ seen : admitted[k] = Ttl

\* What the evictor knows while it holds the lock, and that it leaves nothing
\* half done when it releases it.
EvictorSound ==
    /\ expired <= Len(fifo)
    /\ \A i \in 1..expired : fifo[i].age = Ttl
    /\ evictor = "asleep" => victim = {} /\ expired = 0

\* The worker has one key in hand at most.
OneInserting == \A j, k \in inserting : j = k

\* SeenIsTracked and OneEntryPerKey over 1..Len(fifo), which the provers
\* handle better than DOMAIN fifo.
Tracked ==
    /\ \A k \in seen : k \in inserting \/ k \in victim
                         \/ \E i \in 1..Len(fifo) : fifo[i].key = k
    /\ inserting \subseteq seen /\ victim \subseteq seen
    /\ \A i \in 1..Len(fifo) : fifo[i].key \in seen

Apart ==
    /\ \A i, j \in 1..Len(fifo) : fifo[i].key = fifo[j].key => i = j
    /\ \A i \in 1..Len(fifo) : fifo[i].key \notin inserting /\ fifo[i].key \notin victim
    /\ \A k \in inserting : k \notin victim

Inv == TypeOK /\ OneInserting /\ Tracked /\ Apart /\ AdmittedBefore /\ EvictorSound

LEMMA InitInv == Init => Inv
  BY TtlAssumption
  DEF Init, Inv, TypeOK, OneInserting, Tracked, Apart, AdmittedBefore, EvictorSound

\* What an entry of the queue holds.
LEMMA EntryFields ==
  ASSUME TypeOK, NEW i \in 1..Len(fifo)
  PROVE  fifo[i] \in Entries /\ fifo[i].key \in Keys /\ fifo[i].age \in 0..Ttl
<1>1. fifo[i] \in Entries
      BY DEF TypeOK
<1>2. QED BY <1>1 DEF Entries

LEMMA InsertInv == ASSUME NEW k \in Keys, Inv, Insert(k) PROVE Inv'
<1> USE TtlAssumption DEF Inv, Insert
<1>1. TypeOK' BY DEF TypeOK
<1>2. OneInserting' BY DEF OneInserting
<1>3. Tracked' BY DEF Tracked
<1>4. Apart' BY DEF Apart, Tracked
<1>5. AdmittedBefore' BY DEF AdmittedBefore, TypeOK, Tracked, Entries
<1>6. EvictorSound' BY DEF EvictorSound
<1> QED BY <1>1, <1>2, <1>3, <1>4, <1>5, <1>6 DEF Inv

LEMMA PushInv == ASSUME NEW k \in Keys, Inv, PushFifo(k) PROVE Inv'
<1> USE TtlAssumption DEF Inv, PushFifo
<1> DEFINE e == [key |-> k, age |-> 0]
<1>0. /\ e \in Entries /\ fifo \in Seq(Entries)
      /\ Len(fifo') = Len(fifo) + 1 /\ fifo'[Len(fifo) + 1] = e
      /\ \A i \in 1..Len(fifo) : fifo'[i] = fifo[i]
      BY DEF TypeOK, Entries
<1>1. TypeOK' BY <1>0 DEF TypeOK
<1>2. OneInserting' BY DEF OneInserting
<1>3. Tracked'
  <2>1. \A i \in 1..Len(fifo') : fifo'[i].key \in seen'
        BY <1>0 DEF Tracked, TypeOK
  <2>2. \A j \in seen' : j \in victim' \/ \E i \in 1..Len(fifo') : fifo'[i].key = j
        BY <1>0 DEF Tracked, OneInserting, TypeOK
  <2>3. QED BY <2>1, <2>2 DEF Tracked
<1>4. Apart' BY <1>0 DEF Apart, Tracked, TypeOK
<1>5. AdmittedBefore' BY <1>0 DEF AdmittedBefore, TypeOK
<1>6. EvictorSound' BY <1>0 DEF EvictorSound, TypeOK
<1> QED BY <1>1, <1>2, <1>3, <1>4, <1>5, <1>6 DEF Inv

LEMMA EvictLockInv == ASSUME Inv, EvictLock PROVE Inv'
<1> USE TtlAssumption DEF Inv, EvictLock
<1>1. TypeOK' BY DEF TypeOK, ExpiredFront
<1>2. /\ OneInserting' /\ Tracked' /\ Apart' /\ AdmittedBefore'
      BY DEF OneInserting, Tracked, Apart, AdmittedBefore
<1>3. EvictorSound'
  <2>1. PICK n \in 0..Len(fifo) : ExpiredFront(fifo, n) /\ expired' = n
        OBVIOUS
  <2>2. \A i \in 1..Len(fifo) : fifo[i].age \in 0..Ttl
        BY EntryFields
  <2>3. \A i \in 1..n : fifo[i].age = Ttl
        BY <2>1, <2>2 DEF ExpiredFront, TypeOK
  <2>4. QED BY <2>1, <2>3 DEF EvictorSound, TypeOK
<1> QED BY <1>1, <1>2, <1>3 DEF Inv

LEMMA EvictPopInv == ASSUME Inv, EvictPop PROVE Inv'
<1> USE TtlAssumption DEF Inv, EvictPop
<1>0. /\ fifo \in Seq(Entries) /\ Len(fifo) > 0
      /\ Head(fifo) = fifo[1] /\ fifo[1] \in Entries /\ fifo[1].age = Ttl
      /\ Len(fifo') = Len(fifo) - 1 /\ fifo' \in Seq(Entries)
      /\ \A i \in 1..Len(fifo') : i + 1 \in 1..Len(fifo) /\ fifo'[i] = fifo[i + 1]
      BY DEF TypeOK, EvictorSound
<1>00. \A i \in 2..Len(fifo) : i - 1 \in 1..Len(fifo') /\ fifo'[i - 1] = fifo[i]
      BY <1>0 DEF TypeOK
<1>1. TypeOK' BY <1>0 DEF TypeOK, Entries
<1>2. OneInserting' BY DEF OneInserting
<1>3. Tracked'
  <2>1. \A i \in 1..Len(fifo') : fifo'[i].key \in seen'
        BY <1>0 DEF Tracked
  <2>2. victim' \subseteq seen'
        BY <1>0 DEF Tracked
  <2>3. ASSUME NEW k \in seen', k \notin inserting', k \notin victim'
        PROVE  \E i \in 1..Len(fifo') : fifo'[i].key = k
    <3>1. PICK i \in 1..Len(fifo) : fifo[i].key = k
          BY <2>3 DEF Tracked
    <3>2. i \in 2..Len(fifo)
          BY <1>0, <2>3, <3>1
    <3>3. QED BY <1>00, <3>1, <3>2
  <2>4. QED BY <2>1, <2>2, <2>3 DEF Tracked
<1>4. Apart'
  <2>1. \A i, j \in 1..Len(fifo') : fifo'[i].key = fifo'[j].key => i = j
        BY <1>0 DEF Apart
  <2>2. \A i \in 1..Len(fifo') : fifo'[i].key # fifo[1].key /\ fifo'[i].key \notin inserting
        BY <1>0 DEF Apart
  <2>3. QED BY <1>0, <2>1, <2>2 DEF Apart
<1>5. AdmittedBefore'
  <2>1. \A i \in 1..Len(fifo') : fifo'[i].age <= admitted'[fifo'[i].key]
        BY <1>0 DEF AdmittedBefore
  <2>2. admitted[fifo[1].key] = Ttl
        BY <1>0 DEF AdmittedBefore, TypeOK, Entries
  <2>3. QED BY <1>0, <2>1, <2>2 DEF AdmittedBefore
<1>6. EvictorSound'
      BY <1>0 DEF EvictorSound, TypeOK
<1> QED BY <1>1, <1>2, <1>3, <1>4, <1>5, <1>6 DEF Inv

LEMMA EvictRemoveInv == ASSUME Inv, EvictRemove PROVE Inv'
<1> USE TtlAssumption DEF Inv, EvictRemove
<1>1. TypeOK' BY DEF TypeOK
<1>2. OneInserting' BY DEF OneInserting
<1>3. Tracked' BY DEF Tracked, Apart
<1>4. Apart' BY DEF Apart
<1>5. AdmittedBefore' BY DEF AdmittedBefore
<1>6. EvictorSound' BY DEF EvictorSound
<1> QED BY <1>1, <1>2, <1>3, <1>4, <1>5, <1>6 DEF Inv

LEMMA EvictUnlockInv == ASSUME Inv, EvictUnlock PROVE Inv'
  BY DEF Inv, EvictUnlock, TypeOK, OneInserting, Tracked, Apart, AdmittedBefore, EvictorSound

LEMMA TickInv == ASSUME Inv, Tick PROVE Inv'
<1> USE TtlAssumption DEF Inv, Tick
<1>0. /\ fifo \in Seq(Entries) /\ fifo' \in Seq(Entries)
      /\ Len(fifo') = Len(fifo)
      /\ \A i \in 1..Len(fifo) : /\ fifo'[i].key = fifo[i].key
                                 /\ fifo'[i].age = Older(fifo[i].age)
  <2>1. fifo \in Seq(Entries) /\ DOMAIN fifo = 1..Len(fifo)
        BY DEF TypeOK
  <2>2. \A i \in 1..Len(fifo) : /\ fifo[i] \in Entries
                                /\ [key |-> fifo[i].key, age |-> Older(fifo[i].age)] \in Entries
        BY EntryFields DEF Entries, Older
  <2>3. fifo' = [i \in 1..Len(fifo) |-> [key |-> fifo[i].key, age |-> Older(fifo[i].age)]]
        BY <2>1
  <2>4. fifo' \in [1..Len(fifo) -> Entries]
        BY <2>2, <2>3
  <2>5. fifo' \in Seq(Entries) /\ Len(fifo') = Len(fifo)
        BY <2>1, <2>4
  <2>6. QED BY <2>1, <2>2, <2>3, <2>5 DEF Entries
<1>1. TypeOK' BY <1>0 DEF TypeOK, Older
<1>2. OneInserting' BY DEF OneInserting
<1>3. Tracked' BY <1>0 DEF Tracked
<1>4. Apart' BY <1>0 DEF Apart
<1>5. AdmittedBefore'
  <2>1. ASSUME NEW i \in 1..Len(fifo) PROVE fifo'[i].age <= admitted'[fifo'[i].key]
    <3>1. fifo[i].age \in 0..Ttl /\ fifo[i].key \in Keys
          BY EntryFields
    <3>2. QED BY <1>0, <3>1 DEF AdmittedBefore, TypeOK, Older
  <2>2. \A k \in victim' : admitted'[k] = Ttl
        BY DEF AdmittedBefore, TypeOK, Older
  <2>3. \A k \in Keys \ seen' : admitted'[k] = Ttl
        BY DEF AdmittedBefore, TypeOK, Older
  <2>4. QED BY <1>0, <2>1, <2>2, <2>3 DEF AdmittedBefore
<1>6. EvictorSound'
      BY <1>0 DEF EvictorSound, Older, TypeOK
<1> QED BY <1>1, <1>2, <1>3, <1>4, <1>5, <1>6 DEF Inv

LEMMA NextInv == Inv /\ [Next]_vars => Inv'
<1> SUFFICES ASSUME Inv, [Next]_vars PROVE Inv'
    OBVIOUS
<1>1. CASE UNCHANGED vars
      BY <1>1 DEF vars, Inv, TypeOK, OneInserting, Tracked, Apart, AdmittedBefore, EvictorSound
<1>2. ASSUME NEW k \in Keys, Occupied(k) PROVE Inv'
      BY <1>2, <1>1 DEF Occupied, vars
<1>3. QED
      BY <1>1, <1>2, InsertInv, PushInv, EvictLockInv, EvictPopInv, EvictRemoveInv,
         EvictUnlockInv, TickInv DEF Next, Evict

\* Every reachable state is well typed.
THEOREM TypeCorrect == Spec => []TypeOK
<1>1. Inv => TypeOK
      BY DEF Inv
<1>2. QED BY InitInv, NextInv, <1>1, PTL DEF Spec

\* A key is in `seen` exactly when its fifo entry, the worker or the evictor
\* accounts for it (grpc_mux.rs:387-417): none is stuck there.
THEOREM NoStuckKey == Spec => []SeenIsTracked
<1>1. Inv => SeenIsTracked
  <2> SUFFICES ASSUME Inv PROVE SeenIsTracked
      OBVIOUS
  <2>1. DOMAIN fifo = 1..Len(fifo)
        BY DEF Inv, TypeOK
  <2>2. QED BY <2>1 DEF Inv, Tracked, SeenIsTracked, FifoKeys
<1>2. QED BY InitInv, NextInv, <1>1, PTL DEF Spec

\* No key has two entries, and none in hand has any (grpc_mux.rs:387-417).
THEOREM EntriesDistinct == Spec => []OneEntryPerKey
<1>1. Inv => OneEntryPerKey
  <2> SUFFICES ASSUME Inv PROVE OneEntryPerKey
      OBVIOUS
  <2>1. DOMAIN fifo = 1..Len(fifo)
        BY DEF Inv, TypeOK
  <2>2. QED BY <2>1 DEF Inv, Apart, OneEntryPerKey, FifoKeys
<1>2. QED BY InitInv, NextInv, <1>1, PTL DEF Spec

\* The oldest entry is in front, so the evictor's loop may stop at the first
\* entry that is not expired (grpc_mux.rs:408-416).
THEOREM OldestFirst == Spec => []OldestInFront
<1> DEFINE Sorted == \A i, j \in 1..Len(fifo) : i < j => fifo[i].age >= fifo[j].age
<1>1. Init => Sorted
      BY DEF Init
<1>2. Inv /\ Sorted /\ [Next]_vars => Sorted'
  <2> SUFFICES ASSUME Inv, Sorted, [Next]_vars PROVE Sorted'
      OBVIOUS
  <2>0. fifo \in Seq(Entries) /\ \A i \in 1..Len(fifo) : fifo[i].age \in 0..Ttl
        BY EntryFields DEF Inv, TypeOK
  <2>1. ASSUME NEW k \in Keys, PushFifo(k) PROVE Sorted'
    <3>1. Len(fifo') = Len(fifo) + 1 /\ fifo'[Len(fifo) + 1].age = 0
          BY <2>0, <2>1 DEF PushFifo
    <3>2. \A i \in 1..Len(fifo) : fifo'[i] = fifo[i]
          BY <2>0, <2>1 DEF PushFifo
    <3>3. ASSUME NEW i \in 1..Len(fifo'), NEW j \in 1..Len(fifo'), i < j
          PROVE  fifo'[i].age >= fifo'[j].age
      <4>1. Len(fifo) \in Nat /\ i \in 1..Len(fifo)
            BY <2>0, <3>1, <3>3
      <4>2. fifo'[i].age = fifo[i].age /\ fifo[i].age \in Nat
            BY <2>0, <3>2, <4>1, TtlAssumption
      <4>3. CASE j = Len(fifo) + 1
            BY <3>1, <4>2, <4>3
      <4>4. CASE j \in 1..Len(fifo)
            BY <3>2, <3>3, <4>1, <4>2, <4>4
      <4>5. QED BY <3>1, <4>1, <4>3, <4>4
    <3>4. QED BY <3>3
  <2>2. CASE EvictPop
    <3>1. /\ Len(fifo') = Len(fifo) - 1
          /\ \A i \in 1..Len(fifo') : i + 1 \in 1..Len(fifo) /\ fifo'[i] = fifo[i + 1]
          BY <2>0, <2>2 DEF EvictPop, Inv, TypeOK, EvictorSound
    <3>2. ASSUME NEW i \in 1..Len(fifo'), NEW j \in 1..Len(fifo'), i < j
          PROVE  fifo'[i].age >= fifo'[j].age
      <4>1. fifo[i + 1].age >= fifo[j + 1].age
            BY <2>0, <3>1, <3>2
      <4>2. QED BY <3>1, <4>1
    <3>3. QED BY <3>2
  <2>3. CASE Tick
    <3>1. /\ Len(fifo') = Len(fifo)
          /\ \A i \in 1..Len(fifo) : fifo'[i].age = Older(fifo[i].age)
          BY <2>0, <2>3 DEF Tick
    <3>2. ASSUME NEW i \in 1..Len(fifo'), NEW j \in 1..Len(fifo'), i < j
          PROVE  fifo'[i].age >= fifo'[j].age
      <4>1. fifo[i].age >= fifo[j].age /\ fifo[i].age \in 0..Ttl /\ fifo[j].age \in 0..Ttl
            BY <2>0, <3>1, <3>2
      <4>2. QED BY <3>1, <4>1, TtlAssumption DEF Older
    <3>3. QED BY <3>2
  <2>4. CASE UNCHANGED fifo
        BY <2>4
  <2>5. QED
        BY <2>1, <2>2, <2>3, <2>4 DEF Next, Evict, Occupied, Insert, EvictLock, EvictRemove,
           EvictUnlock, vars
<1>3. Inv /\ Sorted => OldestInFront
  <2> SUFFICES ASSUME Inv, Sorted PROVE OldestInFront
      OBVIOUS
  <2>1. DOMAIN fifo = 1..Len(fifo)
        BY DEF Inv, TypeOK
  <2>2. QED BY <2>1 DEF OldestInFront
<1>4. QED BY <1>1, <1>2, <1>3, InitInv, NextInv, PTL DEF Spec

\* The cache implements UniqueFeed: it lets no key through twice within one
\* dedup window, however the worker and the evictor interleave.
THEOREM ImplementsUniqueFeed == Spec => UniqueWithinWindow
<1>1. Init => Feed!Init
      BY DEF Init, Feed!Init
<1>2. Inv /\ [Next]_vars => [Feed!Next]_admitted
  <2> SUFFICES ASSUME Inv, [Next]_vars PROVE [Feed!Next]_admitted
      OBVIOUS
  <2>1. ASSUME NEW k \in Keys, Insert(k) PROVE Feed!Emit(k)
        BY <2>1 DEF Insert, Feed!Emit, Inv, AdmittedBefore
  <2>2. ASSUME Tick PROVE Feed!Advance
        BY <2>2 DEF Tick, Feed!Advance, Older, Feed!Older
  <2>3. ASSUME NEW k \in Keys, Occupied(k) \/ PushFifo(k) PROVE UNCHANGED admitted
        BY <2>3 DEF Occupied, PushFifo, vars
  <2>4. ASSUME Evict PROVE UNCHANGED admitted
        BY <2>4 DEF Evict, EvictLock, EvictPop, EvictRemove, EvictUnlock
  <2>5. QED BY <2>1, <2>2, <2>3, <2>4 DEF Next, Feed!Next, vars
<1>3. QED BY <1>1, <1>2, InitInv, NextInv, PTL DEF Spec, UniqueWithinWindow, Feed!Spec
=============================================================================
