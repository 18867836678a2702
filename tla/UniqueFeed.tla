------------------------------ MODULE UniqueFeed ------------------------------
(***************************************************************************)
(* What the dedup cache promises the multi-region feed: two updates with    *)
(* the same key are never let through within one dedup window.              *)
(*                                                                         *)
(* age[k] is the time since k was last let through, counted up to Ttl; a    *)
(* key that never was, or a window or more ago, has age Ttl.  A second copy *)
(* at the very instant of the first would be a stuttering step: that there  *)
(* is none is an invariant of the cache (OneEntryPerKey in DedupCache).     *)
(***************************************************************************)
EXTENDS Naturals

CONSTANTS Keys, Ttl

VARIABLE age

\* One unit of time on the saturating clocks.
Older(a) == IF a < Ttl THEN a + 1 ELSE Ttl

Init == age = [k \in Keys |-> Ttl]

Emit(k) ==
    /\ age[k] = Ttl
    /\ age' = [age EXCEPT ![k] = 0]

Advance == age' = [k \in Keys |-> Older(age[k])]

Next == Advance \/ \E k \in Keys : Emit(k)

Spec == Init /\ [][Next]_age
=============================================================================
