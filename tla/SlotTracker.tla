----------------------------- MODULE SlotTracker -----------------------------
(***************************************************************************)
(* SlotTracker::observe of src/src/proxy/grpc_mux.rs: a ring of the slots   *)
(* seen last tells whether the parent of a new slot is missing, and an      *)
(* atomic keeps the highest slot.  The upstream loop and the dedup worker   *)
(* feed it, each alone, so one call is one step.                            *)
(*                                                                         *)
(* Slot 0 stands for None.  A slot update that is not "processed" changes   *)
(* nothing and is left out, and so is the number of gaps, which grows by    *)
(* one with every parent that is found missing.                             *)
(***************************************************************************)
EXTENDS Naturals, Sequences

CONSTANT Window   \* capacity of the ring, 2048 in the code

ASSUME WindowAssumption == Window \in Nat \ {0}

Contains(recent, slot) == \E i \in DOMAIN recent : recent[i] = slot

\* Only parents not older than the ring's front are judged.
Missing(recent, parent) ==
    recent # <<>> /\ parent >= Head(recent) /\ ~Contains(recent, parent)

Push(recent, slot) ==
    LET longer == Append(recent, slot)
    IN  IF Contains(recent, slot) THEN recent
        ELSE IF Len(longer) > Window THEN Tail(longer) ELSE longer

Highest(last, slot) == IF slot > last THEN slot ELSE last
=============================================================================
