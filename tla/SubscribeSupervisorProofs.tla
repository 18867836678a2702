---------------------- MODULE SubscribeSupervisorProofs ----------------------
(***************************************************************************)
(* For any number of streams of any kind: no child outlives its stream, the *)
(* counters are exact, and the limit holds where no two calls overlap.       *)
(*                                                                         *)
(* NoZombies is not inductive by itself: a stream becomes "swept" because   *)
(* every child was joined, and "refused" because none was spawned.          *)
(* JoinedHaveExited and NotYetSpawned say so.  CountersExact follows from   *)
(* one lemma about a stream that moves from one phase to another.  The limit *)
(* rests on the exact counters: a call that passed the check finds its place *)
(* still free, as no other call of its IP could take it (PlaceIsFree).       *)
(***************************************************************************)
EXTENDS SubscribeSupervisor, FiniteSetTheorems, TLAPS

\* The part of TypeOK that does not need the counters to be exact.
Shape ==
    /\ phase \in [Streams -> Phases]
    /\ child = [s \in Streams |-> child[s]]
    /\ \A s \in Streams : child[s] \in [Kids(s) -> {"running", "blocked", "exited"}]
    /\ joined = [s \in Streams |-> joined[s]]
    /\ \A s \in Streams : joined[s] \subseteq Kids(s)
    /\ dropped \in [Streams -> BOOLEAN]

JoinedHaveExited == \A s \in Streams : \A k \in joined[s] : child[s][k] = "exited"

NotYetSpawned ==
    \A s \in Streams : phase[s] \in {"new", "checked", "connected"} =>
        \A k \in Kids(s) : child[s][k] = "exited"

JoiningStarted ==
    \A s \in Streams : phase[s] \in {"new", "checked", "connected", "counting", "open"} =>
        joined[s] = {}

Inv == Shape /\ JoinedHaveExited /\ NotYetSpawned /\ JoiningStarted /\ NoZombies

LEMMA InitInv == Init => Inv
  BY DEF Init, Inv, Shape, Phases, JoinedHaveExited, NotYetSpawned, JoiningStarted, NoZombies, InPhase, Alive

LEMMA NextInv == Inv /\ [Next]_vars => Inv'
<1> SUFFICES ASSUME Inv, [Next]_vars PROVE Inv'
    OBVIOUS
<1> USE DEF Inv, Shape, Phases, JoinedHaveExited, NotYetSpawned, JoiningStarted, NoZombies, InPhase,
            Alive, Goto, counters
<1>1. CASE UNCHANGED vars
      BY <1>1 DEF vars
<1>2. ASSUME NEW s \in Streams, Deny(s) \/ Check(s) \/ Refuse(s) PROVE Inv'
  <2>1. CASE Check(s)
        BY <2>1 DEF Check
  <2>2. ASSUME Deny(s) \/ Refuse(s) PROVE Inv'
        \* nothing was spawned for a new call
    <3>1. phase[s] = "new" /\ phase' = [phase EXCEPT ![s] = "refused"]
          BY <2>2 DEF Deny, Refuse
    <3>2. UNCHANGED <<child, joined, dropped>>
          BY <2>2 DEF Deny, Refuse
    <3>3. QED
          BY <3>1, <3>2
  <2>3. QED
        BY <1>2, <2>1, <2>2
<1>3. ASSUME NEW s \in Streams, GetUpstream(s) \/ GiveUp(s) PROVE Inv'
      BY <1>3 DEF GetUpstream, GiveUp
<1>4. ASSUME NEW s \in Streams, Start(s) PROVE Inv'
      BY <1>4 DEF Start, Ready
<1>5. ASSUME NEW s \in Streams, Supervise(s) PROVE Inv'
      BY <1>5 DEF Supervise
<1>6. ASSUME NEW s \in Streams, Drop(s) PROVE Inv'
      BY <1>6 DEF Drop
<1>7. ASSUME NEW s \in Streams, NEW k \in Kids(s), Child(s, k) PROVE Inv'
  <2>1. /\ child[s][k] # "exited"
        /\ \E to \in {"running", "blocked", "exited"} : child' = [child EXCEPT ![s][k] = to]
        /\ UNCHANGED <<phase, joined, dropped>>
        BY <1>7 DEF Child, ChildExit, ChildBlock, ChildUnblock, ChildTo
  <2>2. Shape'
    <3>1. PICK to \in {"running", "blocked", "exited"} : child' = [child EXCEPT ![s][k] = to]
          BY <2>1
    <3>2. child' = [t \in Streams |-> child'[t]]
          BY <3>1
    <3>3. \A t \in Streams : child'[t] \in [Kids(t) -> {"running", "blocked", "exited"}]
          BY <3>1
    <3>4. QED
          BY <2>1, <3>2, <3>3
  <2>3. JoinedHaveExited'
        BY <2>1
  <2>4. NotYetSpawned' /\ JoiningStarted' /\ NoZombies'
        BY <2>1
  <2>5. QED
        BY <2>2, <2>3, <2>4
<1>8. ASSUME NEW s \in Streams, Cancel(s) PROVE Inv'
      BY <1>8 DEF Cancel
<1>9. ASSUME NEW s \in Streams, NEW k \in Kids(s), JoinNext(s, k) PROVE Inv'
  <2>1. Shape'
        BY <1>9 DEF JoinNext
  <2>2. JoinedHaveExited'
        BY <1>9 DEF JoinNext
  <2>3. NotYetSpawned' /\ JoiningStarted' /\ NoZombies'
        BY <1>9 DEF JoinNext
  <2>4. QED
        BY <2>1, <2>2, <2>3
<1>10. ASSUME NEW s \in Streams, AllJoined(s) PROVE Inv'
      BY <1>10 DEF AllJoined
<1>11. ASSUME NEW s \in Streams, GraceOver(s) PROVE Inv'
  <2>1. Shape'
        BY <1>11 DEF GraceOver
  <2>2. \A k \in Kids(s) : child'[s][k] = "exited"
        BY <1>11 DEF GraceOver
  <2>3. \A t \in Streams \ {s} : child'[t] = child[t] /\ joined'[t] = joined[t] /\ phase'[t] = phase[t]
        BY <1>11 DEF GraceOver
  <2>4. phase'[s] = "swept" /\ joined'[s] = Kids(s)
        BY <1>11 DEF GraceOver
  <2>5. JoinedHaveExited'
        BY <2>2, <2>3, <2>4
  <2>6. NotYetSpawned' /\ JoiningStarted' /\ NoZombies'
        BY <2>2, <2>3, <2>4
  <2>7. QED
        BY <2>1, <2>5, <2>6
<1>12. ASSUME NEW s \in Streams, ReleasePerIp(s) \/ ReleaseGlobal(s) \/ CountDrop(s) PROVE Inv'
  <2>1. CASE ReleasePerIp(s)
        BY <2>1 DEF ReleasePerIp
  <2>2. CASE ReleaseGlobal(s)
        BY <2>2 DEF ReleaseGlobal
  <2>3. CASE CountDrop(s)
        BY <2>3 DEF CountDrop
  <2>4. QED
        BY <1>12, <2>1, <2>2, <2>3
<1>13. QED
      BY <1>1, <1>2, <1>3, <1>4, <1>5, <1>6, <1>7, <1>8, <1>9, <1>10, <1>11, <1>12
      DEF Next, Handler, Supervisor

\* No stream that is closed, or not counted any more, has a task of its JoinSet
\* left (subscribe_supervisor.rs:79-99); a mux stream's forwarder is none of these.
THEOREM NoChildOutlivesItsStream == Spec => []NoZombies
<1>1. Inv => NoZombies
      BY DEF Inv
<1>2. QED
      BY InitInv, NextInv, <1>1, PTL DEF Spec

-----------------------------------------------------------------------------
(* The counters.                                                            *)

Num(b) == IF b THEN 1 ELSE 0

\* What becomes of a set's size when at most s enters or leaves it.
LEMMA Moved ==
  ASSUME NEW A, NEW B, NEW s, IsFiniteSet(A), A \ {s} = B \ {s}
  PROVE  /\ IsFiniteSet(B)
         /\ Cardinality(A) \in Nat /\ Cardinality(B) \in Nat
         /\ Cardinality(B) + Num(s \in A) = Cardinality(A) + Num(s \in B)
<1> DEFINE R == A \ {s}
<1>1. IsFiniteSet(R) /\ Cardinality(R) \in Nat
      BY FS_RemoveElement, FS_CardinalityType
<1>2. IsFiniteSet(R \cup {s}) /\ Cardinality(R \cup {s}) = Cardinality(R) + 1
      BY <1>1, FS_AddElement
<1>3. A = (IF s \in A THEN R \cup {s} ELSE R) /\ B = (IF s \in B THEN R \cup {s} ELSE R)
      OBVIOUS
<1>4. /\ s \in A => Cardinality(A) = Cardinality(R \cup {s})
      /\ s \notin A => Cardinality(A) = Cardinality(R)
      /\ s \in B => B = R \cup {s} /\ Cardinality(B) = Cardinality(R \cup {s})
      /\ s \notin B => B = R /\ Cardinality(B) = Cardinality(R)
      BY <1>3
<1> HIDE DEF R
<1>5. IsFiniteSet(B)
      BY <1>1, <1>2, <1>4
<1>6. QED
      BY <1>1, <1>2, <1>4, <1>5 DEF Num

Counted(a) == {s \in InPhase(OnIp) : Account(s) = a}

Counts ==
    /\ perIp = [a \in Accounts |-> perIp[a]]
    /\ aborted \in Nat
    /\ CountersExact

\* A step that moves s and changes each counter by what the move is worth.
LEMMA MoveKeepsCounts ==
  ASSUME Shape, Counts, NEW s \in Streams, NEW to \in Phases,
         phase' = [phase EXCEPT ![s] = to],
         perIp' = [a \in Accounts |-> perIp'[a]],
         \A a \in Accounts \ {Account(s)} : perIp'[a] = perIp[a],
         perIp'[Account(s)] + Num(phase[s] \in OnIp) = perIp[Account(s)] + Num(to \in OnIp),
         active' + Num(phase[s] \in OnGlobal) = active + Num(to \in OnGlobal),
         drops' + Num(phase[s] = "closed") = drops + Num(to = "closed"),
         \A a \in Accounts : perIp'[a] \in Int, active' \in Int, drops' \in Int,
         aborted' \in Nat
  PROVE  Counts'
<1>1. ASSUME NEW ps PROVE IsFiniteSet(InPhase(ps))
      BY SupervisorAssumption, FS_Subset DEF InPhase
<1>2. ASSUME NEW ps
      PROVE  /\ InPhase(ps)' \ {s} = InPhase(ps) \ {s}
             /\ s \in InPhase(ps) <=> phase[s] \in ps
             /\ s \in InPhase(ps)' <=> to \in ps
      BY DEF InPhase, Shape
<1>3. ASSUME NEW a \in Accounts PROVE perIp'[a] = Cardinality(Counted(a)')
  <2>1. IsFiniteSet(Counted(a))
        BY <1>1, FS_Subset DEF Counted
  <2>2. Counted(a) \ {s} = Counted(a)' \ {s}
        BY <1>2 DEF Counted
  <2>3. Cardinality(Counted(a)') + Num(s \in Counted(a)) = Cardinality(Counted(a)) + Num(s \in Counted(a)')
        /\ Cardinality(Counted(a)) \in Nat /\ Cardinality(Counted(a)') \in Nat
        BY <2>1, <2>2, Moved
  <2>4. perIp[a] = Cardinality(Counted(a))
        BY DEF Counts, CountersExact, Counted
  <2>5. CASE a = Account(s)
    <3>1. (s \in Counted(a) <=> phase[s] \in OnIp) /\ (s \in Counted(a)' <=> to \in OnIp)
          BY <1>2, <2>5 DEF Counted
    <3>2. QED
          BY <2>3, <2>4, <2>5, <3>1 DEF Num
  <2>6. CASE a # Account(s)
    <3>1. s \notin Counted(a) /\ s \notin Counted(a)'
          BY <2>6 DEF Counted
    <3>2. QED
          BY <2>3, <2>4, <2>6, <3>1 DEF Num
  <2>7. QED
        BY <2>5, <2>6
<1>4. active' = Cardinality(InPhase(OnGlobal)')
  <2>1. Cardinality(InPhase(OnGlobal)') + Num(s \in InPhase(OnGlobal))
          = Cardinality(InPhase(OnGlobal)) + Num(s \in InPhase(OnGlobal)')
        /\ Cardinality(InPhase(OnGlobal)) \in Nat /\ Cardinality(InPhase(OnGlobal)') \in Nat
        BY <1>1, <1>2, Moved
  <2>2. QED
        BY <1>2, <2>1 DEF Num, Counts, CountersExact
<1>5. drops' = Cardinality(InPhase({"closed"})')
  <2>1. Cardinality(InPhase({"closed"})') + Num(s \in InPhase({"closed"}))
          = Cardinality(InPhase({"closed"})) + Num(s \in InPhase({"closed"})')
        /\ Cardinality(InPhase({"closed"})) \in Nat /\ Cardinality(InPhase({"closed"})') \in Nat
        BY <1>1, <1>2, Moved
  <2>2. QED
        BY <1>2, <2>1 DEF Num, Counts, CountersExact
<1>6. QED
      BY <1>3, <1>4, <1>5 DEF Counts, CountersExact, Counted

LEMMA InitCounts == Init => Counts
<1> SUFFICES ASSUME Init PROVE Counts
    OBVIOUS
<1>1. InPhase(OnIp) = {} /\ InPhase(OnGlobal) = {} /\ InPhase({"closed"}) = {}
      BY DEF Init, InPhase, OnIp, OnGlobal
<1>2. Cardinality({}) = 0
      BY FS_EmptySet
<1>3. \A a \in Accounts : {s \in InPhase(OnIp) : Account(s) = a} = {}
      BY <1>1
<1>4. QED
      BY <1>1, <1>2, <1>3 DEF Init, Counts, CountersExact

\* A step that moves no stream and counts nothing.
LEMMA StillKeepsCounts ==
  Counts /\ UNCHANGED <<phase, perIp, active, drops, aborted>> => Counts'
  BY DEF Counts, CountersExact, InPhase, Account

\* What the counters range over, and the phases that they tell apart.
LEMMA CounterTypes ==
  ASSUME Shape, Counts
  PROVE  /\ \A a \in Accounts : perIp[a] \in Nat
         /\ active \in Nat /\ drops \in Nat
<1>1. ASSUME NEW ps PROVE IsFiniteSet(InPhase(ps)) /\ Cardinality(InPhase(ps)) \in Nat
      BY SupervisorAssumption, FS_Subset, FS_CardinalityType DEF InPhase
<1>2. ASSUME NEW a \in Accounts
      PROVE  Cardinality({s \in InPhase(OnIp) : Account(s) = a}) \in Nat
      BY <1>1, FS_Subset, FS_CardinalityType
<1>3. QED
      BY <1>1, <1>2 DEF Counts, CountersExact

\* The children of a stream are finitely many.
LEMMA KidsFinite ==
  ASSUME NEW s \in Streams, NEW J
  PROVE  Cardinality(Kids(s) \ J) \in Nat
<1>1. IsFiniteSet({}) /\ IsFiniteSet({"pings"}) /\ IsFiniteSet({"responses"})
      BY FS_EmptySet, FS_Singleton
<1>2. IsFiniteSet({"requests"} \cup {"manager"}) /\ IsFiniteSet({"requests"} \cup {"responses"})
      BY FS_Singleton, FS_Union
<1>3. \E K \in {{"pings"}, {"responses"}, {"requests"} \cup {"manager"}, {"requests"} \cup {"responses"}} :
        Kids(s) = K
      BY SupervisorAssumption
      DEF Kids, ChildrenOf, MuxChildren, DirectChildren, ArpcV1Children,
          ArpcV2TransactionsChildren, ArpcV2ServerStreamingChildren
<1>4. IsFiniteSet(Kids(s))
      BY <1>1, <1>2, <1>3
<1>5. QED
      BY <1>4, FS_Subset, FS_CardinalityType

LEMMA NextCounts == Shape /\ Counts /\ [Next]_vars => Counts'
<1> SUFFICES ASSUME Shape, Counts, [Next]_vars PROVE Counts'
    OBVIOUS
<1>0. /\ \A a \in Accounts : perIp[a] \in Nat
      /\ active \in Nat /\ drops \in Nat /\ aborted \in Nat
      /\ perIp = [a \in Accounts |-> perIp[a]]
      BY CounterTypes DEF Counts
<1>1. CASE UNCHANGED vars
      BY <1>1, StillKeepsCounts DEF vars, counters
<1>2. ASSUME NEW s \in Streams, UNCHANGED counters,
             \/ Goto(s, "new", "refused") \/ Goto(s, "new", "checked")
             \/ Goto(s, "checked", "connected")
             \/ Goto(s, "checked", "refused") \/ Goto(s, "connected", "refused")
             \/ Goto(s, "open", "grace") \/ Goto(s, "grace", "swept")
      PROVE  Counts'
  <2>1. PICK to \in Phases :
           /\ phase' = [phase EXCEPT ![s] = to]
           /\ phase[s] \in OnIp <=> to \in OnIp
           /\ phase[s] \in OnGlobal <=> to \in OnGlobal
           /\ phase[s] # "closed" /\ to # "closed"
        BY <1>2 DEF Goto, Phases, OnIp, OnGlobal
  <2>2. Account(s) \in Accounts
        BY DEF Accounts
  <2>3. /\ perIp'[Account(s)] + Num(phase[s] \in OnIp) = perIp[Account(s)] + Num(to \in OnIp)
        /\ active' + Num(phase[s] \in OnGlobal) = active + Num(to \in OnGlobal)
        /\ drops' + Num(phase[s] = "closed") = drops + Num(to = "closed")
        /\ \A a \in Accounts : perIp'[a] \in Int
        /\ active' \in Int /\ drops' \in Int /\ aborted' \in Nat
        BY <1>0, <1>2, <2>1, <2>2 DEF counters, Num
  <2>4. QED
        BY <1>0, <1>2, <2>1, <2>2, <2>3, MoveKeepsCounts DEF counters
<1>3. ASSUME NEW s \in Streams, Deny(s) \/ Check(s) \/ Refuse(s) \/ GetUpstream(s) \/ GiveUp(s)
      PROVE  Counts'
  <2>1. UNCHANGED counters
        BY <1>3 DEF Deny, Check, Refuse, GetUpstream, GiveUp
  <2>2. \/ Goto(s, "new", "refused") \/ Goto(s, "new", "checked")
        \/ Goto(s, "checked", "connected")
        \/ Goto(s, "checked", "refused") \/ Goto(s, "connected", "refused")
        BY <1>3 DEF Deny, Check, Refuse, GetUpstream, GiveUp
  <2>3. QED
        BY <1>2, <2>1, <2>2
<1>4. ASSUME NEW s \in Streams, Cancel(s) \/ AllJoined(s) PROVE Counts'
      BY <1>2, <1>4 DEF Cancel, AllJoined
<1>5. ASSUME NEW s \in Streams, Start(s) PROVE Counts'
  <2>1. /\ phase' = [phase EXCEPT ![s] = "counting"]
        /\ phase[s] \notin OnIp /\ phase[s] \notin OnGlobal /\ phase[s] # "closed"
        /\ "counting" \in OnIp /\ "counting" \notin OnGlobal /\ "counting" \in Phases
        BY <1>5 DEF Start, Goto, Ready, OnIp, OnGlobal, Phases
  <2>2. Account(s) \in Accounts
        BY DEF Accounts
  <2>3. /\ perIp' = [perIp EXCEPT ![Account(s)] = @ + 1]
        /\ UNCHANGED <<active, drops, aborted>>
        BY <1>5 DEF Start
  <2>4. /\ perIp' = [a \in Accounts |-> perIp'[a]]
        /\ \A a \in Accounts \ {Account(s)} : perIp'[a] = perIp[a]
        /\ perIp'[Account(s)] = perIp[Account(s)] + 1
        BY <1>0, <2>2, <2>3
  <2>5. \A a \in Accounts : perIp'[a] \in Int
        BY <1>0, <2>4
  <2>6. /\ perIp'[Account(s)] + Num(phase[s] \in OnIp) = perIp[Account(s)] + Num("counting" \in OnIp)
        /\ active' + Num(phase[s] \in OnGlobal) = active + Num("counting" \in OnGlobal)
        /\ drops' + Num(phase[s] = "closed") = drops + Num("counting" = "closed")
        /\ \A a \in Accounts : perIp'[a] \in Int
        /\ active' \in Int /\ drops' \in Int /\ aborted' \in Nat
        BY <1>0, <2>1, <2>2, <2>3, <2>4, <2>5 DEF Num
  <2>7. QED
        BY <1>0, <2>1, <2>2, <2>3, <2>4, <2>5, <2>6, MoveKeepsCounts
<1>6. ASSUME NEW s \in Streams, Supervise(s) \/ ReleaseGlobal(s) \/ CountDrop(s) PROVE Counts'
  <2>1. Account(s) \in Accounts
        BY DEF Accounts
  <2>2. CASE Supervise(s)
    <3>1. /\ phase' = [phase EXCEPT ![s] = "open"]
          /\ phase[s] \in OnIp /\ phase[s] \notin OnGlobal /\ phase[s] # "closed"
          /\ "open" \in OnIp /\ "open" \in OnGlobal /\ "open" \in Phases
          BY <2>2 DEF Supervise, Goto, OnIp, OnGlobal, Phases
    <3>2. active' = active + 1 /\ UNCHANGED <<perIp, drops, aborted>>
          BY <2>2 DEF Supervise
    <3>3. /\ perIp'[Account(s)] + Num(phase[s] \in OnIp) = perIp[Account(s)] + Num("open" \in OnIp)
          /\ active' + Num(phase[s] \in OnGlobal) = active + Num("open" \in OnGlobal)
          /\ drops' + Num(phase[s] = "closed") = drops + Num("open" = "closed")
          /\ \A a \in Accounts : perIp'[a] \in Int
          /\ active' \in Int /\ drops' \in Int /\ aborted' \in Nat
          BY <1>0, <2>1, <3>1, <3>2 DEF Num
    <3>4. QED
          BY <1>0, <2>1, <3>1, <3>2, <3>3, MoveKeepsCounts
  <2>3. CASE ReleaseGlobal(s)
    <3>1. /\ phase' = [phase EXCEPT ![s] = "released"]
          /\ phase[s] \notin OnIp /\ phase[s] \in OnGlobal /\ phase[s] # "closed"
          /\ "released" \notin OnIp /\ "released" \notin OnGlobal /\ "released" \in Phases
          BY <2>3 DEF ReleaseGlobal, Goto, OnIp, OnGlobal, Phases
    <3>2. active' = active - 1 /\ UNCHANGED <<perIp, drops, aborted>>
          BY <2>3 DEF ReleaseGlobal
    <3>3. /\ perIp'[Account(s)] + Num(phase[s] \in OnIp) = perIp[Account(s)] + Num("released" \in OnIp)
          /\ active' + Num(phase[s] \in OnGlobal) = active + Num("released" \in OnGlobal)
          /\ drops' + Num(phase[s] = "closed") = drops + Num("released" = "closed")
          /\ \A a \in Accounts : perIp'[a] \in Int
          /\ active' \in Int /\ drops' \in Int /\ aborted' \in Nat
          BY <1>0, <2>1, <3>1, <3>2 DEF Num
    <3>4. QED
          BY <1>0, <2>1, <3>1, <3>2, <3>3, MoveKeepsCounts
  <2>4. CASE CountDrop(s)
    <3>1. /\ phase' = [phase EXCEPT ![s] = "closed"]
          /\ phase[s] \notin OnIp /\ phase[s] \notin OnGlobal /\ phase[s] # "closed"
          /\ "closed" \notin OnIp /\ "closed" \notin OnGlobal /\ "closed" \in Phases
          BY <2>4 DEF CountDrop, Goto, OnIp, OnGlobal, Phases
    <3>2. drops' = drops + 1 /\ UNCHANGED <<perIp, active, aborted>>
          BY <2>4 DEF CountDrop
    <3>3. /\ perIp'[Account(s)] + Num(phase[s] \in OnIp) = perIp[Account(s)] + Num("closed" \in OnIp)
          /\ active' + Num(phase[s] \in OnGlobal) = active + Num("closed" \in OnGlobal)
          /\ drops' + Num(phase[s] = "closed") = drops + Num("closed" = "closed")
          /\ \A a \in Accounts : perIp'[a] \in Int
          /\ active' \in Int /\ drops' \in Int /\ aborted' \in Nat
          BY <1>0, <2>1, <3>1, <3>2 DEF Num
    <3>4. QED
          BY <1>0, <2>1, <3>1, <3>2, <3>3, MoveKeepsCounts
  <2>5. QED
        BY <1>6, <2>2, <2>3, <2>4
<1>7. ASSUME NEW s \in Streams, ReleasePerIp(s) PROVE Counts'
  <2>1. /\ phase' = [phase EXCEPT ![s] = "releasing"]
        /\ phase[s] \in OnIp /\ phase[s] \in OnGlobal /\ phase[s] # "closed"
        /\ "releasing" \notin OnIp /\ "releasing" \in OnGlobal /\ "releasing" \in Phases
        BY <1>7 DEF ReleasePerIp, Goto, OnIp, OnGlobal, Phases
  <2>2. Account(s) \in Accounts
        BY DEF Accounts
  <2>3. /\ perIp' = [perIp EXCEPT ![Account(s)] = @ - 1]
        /\ UNCHANGED <<active, drops, aborted>>
        BY <1>7 DEF ReleasePerIp
  <2>4. /\ perIp' = [a \in Accounts |-> perIp'[a]]
        /\ \A a \in Accounts \ {Account(s)} : perIp'[a] = perIp[a]
        /\ perIp'[Account(s)] = perIp[Account(s)] - 1
        BY <1>0, <2>2, <2>3
  <2>5. \A a \in Accounts : perIp'[a] \in Int
        BY <1>0, <2>4
  <2>6. /\ perIp'[Account(s)] + Num(phase[s] \in OnIp) = perIp[Account(s)] + Num("releasing" \in OnIp)
        /\ active' + Num(phase[s] \in OnGlobal) = active + Num("releasing" \in OnGlobal)
        /\ drops' + Num(phase[s] = "closed") = drops + Num("releasing" = "closed")
        /\ \A a \in Accounts : perIp'[a] \in Int
        /\ active' \in Int /\ drops' \in Int /\ aborted' \in Nat
        BY <1>0, <2>1, <2>2, <2>3, <2>4, <2>5 DEF Num
  <2>7. QED
        BY <1>0, <2>1, <2>2, <2>3, <2>4, <2>5, <2>6, MoveKeepsCounts
<1>8. ASSUME NEW s \in Streams, GraceOver(s) PROVE Counts'
  <2>1. /\ phase' = [phase EXCEPT ![s] = "swept"]
        /\ phase[s] \in OnIp /\ phase[s] \in OnGlobal /\ phase[s] # "closed"
        /\ "swept" \in OnIp /\ "swept" \in OnGlobal /\ "swept" \in Phases
        BY <1>8 DEF GraceOver, Goto, OnIp, OnGlobal, Phases
  <2>2. Account(s) \in Accounts
        BY DEF Accounts
  <2>3. UNCHANGED <<perIp, active, drops>>
        BY <1>8 DEF GraceOver
  <2>4. aborted' \in Nat
    <3> DEFINE n == Cardinality(Kids(s) \ joined[s])
    <3>1. n \in Nat
          BY KidsFinite
    <3>2. aborted' = aborted + n
          BY <1>8 DEF GraceOver
    <3> HIDE DEF n
    <3>3. QED
          BY <1>0, <3>1, <3>2
  <2>5. /\ perIp'[Account(s)] + Num(phase[s] \in OnIp) = perIp[Account(s)] + Num("swept" \in OnIp)
        /\ active' + Num(phase[s] \in OnGlobal) = active + Num("swept" \in OnGlobal)
        /\ drops' + Num(phase[s] = "closed") = drops + Num("swept" = "closed")
        /\ \A a \in Accounts : perIp'[a] \in Int
        /\ active' \in Int /\ drops' \in Int /\ aborted' \in Nat
        BY <1>0, <2>1, <2>2, <2>3, <2>4 DEF Num
  <2>6. QED
        BY <1>0, <2>1, <2>2, <2>3, <2>4, <2>5, MoveKeepsCounts
<1>9. ASSUME NEW s \in Streams, Drop(s) \/ \E k \in Kids(s) : JoinNext(s, k) \/ Child(s, k)
      PROVE  Counts'
      BY <1>9, StillKeepsCounts
      DEF Drop, JoinNext, Child, ChildExit, ChildBlock, ChildUnblock, ChildTo, counters
<1>10. QED
      BY <1>1, <1>3, <1>4, <1>5, <1>6, <1>7, <1>8, <1>9 DEF Next, Handler, Supervisor

\* Through every interleaving of any number of streams of all the handlers,
\* each counter is the number of streams it stands for
\* (subscribe_supervisor.rs:60-104).
THEOREM CountersAreExact == Spec => []CountersExact
<1>1. Inv => Shape
      BY DEF Inv
<1>2. Counts => CountersExact
      BY DEF Counts
<1>3. QED
      BY InitInv, NextInv, InitCounts, NextCounts, <1>1, <1>2, PTL DEF Spec

\* The state keeps its shape, and no counter goes below zero: fetch_sub never
\* wraps (subscribe_supervisor.rs:101-103).
THEOREM TypeCorrect == Spec => []TypeOK
<1>1. Inv => Shape
      BY DEF Inv
<1>2. Shape /\ Counts => TypeOK
  <2> SUFFICES ASSUME Shape, Counts PROVE TypeOK
      OBVIOUS
  <2>1. perIp \in [Accounts -> Nat]
        BY CounterTypes DEF Counts
  <2>2. QED
        BY <2>1, CounterTypes DEF Counts, Shape, TypeOK
<1>3. QED
      BY InitInv, NextInv, InitCounts, NextCounts, <1>1, <1>2, PTL DEF Spec

-----------------------------------------------------------------------------
(* The limit.                                                               *)

AtMostOneAwaits(a) == Cardinality(LimitedAt(a, {"checked"})) <= 1

\* A call that passed the check still has its place.
PlaceIsFree(a) ==
    /\ Cardinality(LimitedAt(a, OnIp)) <= MaxStreamsPerIp
    /\ LimitedAt(a, {"checked"}) # {} => Cardinality(LimitedAt(a, OnIp)) + 1 <= MaxStreamsPerIp

LEMMA LimitedAtFinite ==
  ASSUME NEW a, NEW ps
  PROVE  IsFiniteSet(LimitedAt(a, ps)) /\ Cardinality(LimitedAt(a, ps)) \in Nat
  BY SupervisorAssumption, FS_Subset, FS_CardinalityType DEF LimitedAt, Limited

\* No stream of a is awaited, or counted, that was not before.
LEMMA NoneComesKeepsPlace ==
  ASSUME NEW a, PlaceIsFree(a),
         LimitedAt(a, {"checked"})' \subseteq LimitedAt(a, {"checked"}),
         LimitedAt(a, OnIp)' \subseteq LimitedAt(a, OnIp)
  PROVE  PlaceIsFree(a)'
<1>1. /\ Cardinality(LimitedAt(a, OnIp)') <= Cardinality(LimitedAt(a, OnIp))
      /\ Cardinality(LimitedAt(a, OnIp)') \in Nat /\ Cardinality(LimitedAt(a, OnIp)) \in Nat
      BY LimitedAtFinite, FS_Subset, FS_CardinalityType
<1>2. LimitedAt(a, {"checked"})' # {} => LimitedAt(a, {"checked"}) # {}
      OBVIOUS
<1>3. MaxStreamsPerIp \in Nat
      BY SupervisorAssumption
<1>4. QED
      BY <1>1, <1>2, <1>3 DEF PlaceIsFree

\* The check reads a counter that is exact.
LEMMA CheckKeepsPlace ==
  ASSUME Shape, Counts, NEW a \in Accounts, PlaceIsFree(a), NEW s \in Streams, Check(s)
  PROVE  PlaceIsFree(a)'
<1>1. phase[s] = "new" /\ phase' = [phase EXCEPT ![s] = "checked"]
      BY DEF Check, Goto
<1>2. LimitedAt(a, OnIp)' = LimitedAt(a, OnIp)
      BY <1>1 DEF LimitedAt, Shape, OnIp, Account, Limited
<1>3. CASE s \in Limited /\ Account(s) = a
  <2>1. perIp[a] < MaxStreamsPerIp /\ perIp[a] = Cardinality(Counted(a))
        BY <1>3 DEF Check, Counts, CountersExact, Counted
  <2>2. LimitedAt(a, OnIp) \subseteq Counted(a)
        BY DEF LimitedAt, Counted, InPhase, Limited
  <2>3. IsFiniteSet(Counted(a)) /\ Cardinality(Counted(a)) \in Nat
        BY SupervisorAssumption, FS_Subset, FS_CardinalityType DEF Counted, InPhase
  <2>4. /\ Cardinality(LimitedAt(a, OnIp)) <= Cardinality(Counted(a))
        /\ Cardinality(LimitedAt(a, OnIp)) \in Nat /\ MaxStreamsPerIp \in Nat
        BY <2>2, <2>3, FS_Subset, LimitedAtFinite, SupervisorAssumption
  <2>5. Cardinality(LimitedAt(a, OnIp)) + 1 <= MaxStreamsPerIp
        BY <2>1, <2>3, <2>4
  <2>6. QED
        BY <1>2, <2>4, <2>5 DEF PlaceIsFree
<1>4. CASE ~(s \in Limited /\ Account(s) = a)
  <2>1. LimitedAt(a, {"checked"})' \subseteq LimitedAt(a, {"checked"})
        BY <1>1, <1>4 DEF LimitedAt, Shape, Account, Limited
  <2>2. QED
        BY <1>2, <2>1, NoneComesKeepsPlace
<1>5. QED
      BY <1>3, <1>4

\* The call that starts is the only one that awaited, and takes the place.
LEMMA StartKeepsPlace ==
  ASSUME Shape, NEW a \in Accounts, AtMostOneAwaits(a), PlaceIsFree(a),
         NEW s \in Streams, Start(s)
  PROVE  PlaceIsFree(a)'
<1>1. phase[s] = Ready(s) /\ phase' = [phase EXCEPT ![s] = "counting"]
      BY DEF Start, Goto
<1>2. LimitedAt(a, {"checked"})' = LimitedAt(a, {"checked"}) \ {s}
      BY <1>1 DEF LimitedAt, Shape, Account, Limited
<1>3. CASE s \in Limited /\ Account(s) = a
  <2>1. s \in LimitedAt(a, {"checked"})
        BY <1>1, <1>3 DEF LimitedAt, Ready
  <2>2. Cardinality(LimitedAt(a, {"checked"})') = 0
    <3>1. Cardinality(LimitedAt(a, {"checked"}) \ {s}) = Cardinality(LimitedAt(a, {"checked"})) - 1
          BY <2>1, LimitedAtFinite, FS_RemoveElement
    <3>2. Cardinality(LimitedAt(a, {"checked"}) \ {s}) \in Nat
          BY LimitedAtFinite, FS_Subset, FS_CardinalityType
    <3>3. QED
          BY <1>2, <3>1, <3>2, LimitedAtFinite DEF AtMostOneAwaits
  <2>3. LimitedAt(a, {"checked"})' = {}
        BY <1>2, <2>2, LimitedAtFinite, FS_RemoveElement, FS_EmptySet
  <2>4. LimitedAt(a, OnIp)' = LimitedAt(a, OnIp) \cup {s}
        BY <1>1, <1>3 DEF LimitedAt, Shape, OnIp, Account, Limited
  <2>5. Cardinality(LimitedAt(a, OnIp)') <= Cardinality(LimitedAt(a, OnIp)) + 1
        /\ Cardinality(LimitedAt(a, OnIp)') \in Nat
    <3> DEFINE before == LimitedAt(a, OnIp)
               after == LimitedAt(a, OnIp)'
    <3>1. IsFiniteSet(before) /\ Cardinality(before) \in Nat
          BY LimitedAtFinite
    <3>2. after = before \cup {s}
          BY <2>4
    <3> HIDE DEF before, after
    <3>3. /\ IsFiniteSet(before \cup {s})
          /\ Cardinality(before \cup {s}) = IF s \in before THEN Cardinality(before)
                                             ELSE Cardinality(before) + 1
          BY <3>1, FS_AddElement
    <3>4. Cardinality(after) <= Cardinality(before) + 1 /\ Cardinality(after) \in Nat
          BY <3>1, <3>2, <3>3
    <3>5. QED
          BY <3>4 DEF before, after
  <2>6. Cardinality(LimitedAt(a, OnIp)) + 1 <= MaxStreamsPerIp
        BY <2>1 DEF PlaceIsFree
  <2>7. Cardinality(LimitedAt(a, OnIp)') <= MaxStreamsPerIp
        BY <2>5, <2>6, LimitedAtFinite, SupervisorAssumption
  <2>8. QED
        BY <2>3, <2>7 DEF PlaceIsFree
<1>4. CASE ~(s \in Limited /\ Account(s) = a)
  <2>1. LimitedAt(a, OnIp)' \subseteq LimitedAt(a, OnIp)
        BY <1>1, <1>4 DEF LimitedAt, Shape, Account, Limited
  <2>2. LimitedAt(a, {"checked"})' \subseteq LimitedAt(a, {"checked"})
        BY <1>2
  <2>3. QED
        BY <2>1, <2>2, NoneComesKeepsPlace
<1>5. QED
      BY <1>3, <1>4

\* A stream that moves to a phase it is not awaited in, and is counted there
\* only if it was counted before.
LEMMA OtherMoveKeepsPlace ==
  ASSUME Shape, NEW a, PlaceIsFree(a), NEW s \in Streams, NEW to \in Phases,
         phase' = [phase EXCEPT ![s] = to], to # "checked", to \in OnIp => phase[s] \in OnIp
  PROVE  PlaceIsFree(a)'
<1>1. LimitedAt(a, {"checked"})' \subseteq LimitedAt(a, {"checked"})
      BY DEF LimitedAt, Shape, Account, Limited
<1>2. LimitedAt(a, OnIp)' \subseteq LimitedAt(a, OnIp)
      BY DEF LimitedAt, Shape, Account, Limited
<1>3. QED
      BY <1>1, <1>2, NoneComesKeepsPlace

LEMMA NextKeepsPlace ==
  ASSUME NEW a \in Accounts
  PROVE  Shape /\ Counts /\ AtMostOneAwaits(a) /\ PlaceIsFree(a) /\ [Next]_vars => PlaceIsFree(a)'
<1> SUFFICES ASSUME Shape, Counts, AtMostOneAwaits(a), PlaceIsFree(a), [Next]_vars
             PROVE  PlaceIsFree(a)'
    OBVIOUS
<1>1. CASE UNCHANGED phase
  <2>1. UNCHANGED <<LimitedAt(a, {"checked"}), LimitedAt(a, OnIp)>>
        BY <1>1 DEF LimitedAt, Account, Limited
  <2>2. QED
        BY <2>1, NoneComesKeepsPlace
<1>2. ASSUME NEW s \in Streams,
             \/ Deny(s) \/ Refuse(s) \/ GetUpstream(s) \/ GiveUp(s) \/ Supervise(s) \/ Cancel(s)
             \/ AllJoined(s) \/ GraceOver(s)
             \/ ReleasePerIp(s) \/ ReleaseGlobal(s) \/ CountDrop(s)
      PROVE  PlaceIsFree(a)'
  <2>1. \E to \in Phases :
           /\ phase' = [phase EXCEPT ![s] = to] /\ to # "checked"
           /\ (to \in OnIp => phase[s] \in OnIp)
        BY <1>2
        DEF Deny, Refuse, GetUpstream, GiveUp, Supervise, Cancel, AllJoined, GraceOver,
            ReleasePerIp, ReleaseGlobal, CountDrop, Goto, Phases, OnIp
  <2>2. QED
        BY <2>1, OtherMoveKeepsPlace
<1>3. ASSUME NEW s \in Streams, Drop(s) \/ \E k \in Kids(s) : JoinNext(s, k) \/ Child(s, k)
      PROVE  UNCHANGED phase
      BY <1>3 DEF Drop, JoinNext, Child, ChildExit, ChildBlock, ChildUnblock, ChildTo
<1>4. ASSUME UNCHANGED vars PROVE UNCHANGED phase
      BY <1>4 DEF vars
<1>5. QED
      BY <1>1, <1>2, <1>3, <1>4, CheckKeepsPlace, StartKeepsPlace DEF Next, Handler, Supervisor

LEMMA InitPlace == ASSUME NEW a PROVE Init => PlaceIsFree(a)
<1> SUFFICES ASSUME Init PROVE PlaceIsFree(a)
    OBVIOUS
<1>1. LimitedAt(a, {"checked"}) = {} /\ LimitedAt(a, OnIp) = {}
      BY DEF Init, LimitedAt, Limited, OnIp
<1>2. QED
      BY <1>1, FS_EmptySet, SupervisorAssumption DEF PlaceIsFree

\* An IP of which at most one call at a time is between the check and the
\* count never has more streams than the limit
\* (grpc_yellowstone.rs:448-454, subscribe_supervisor.rs:55-57).
THEOREM LimitHoldsWithoutOverlap == Spec => LimitWithoutOverlap
<1>1. ASSUME NEW a \in Accounts
      PROVE  Spec => ([]AtMostOneAwaits(a)
                        => [](Cardinality(LimitedAt(a, OnIp)) <= MaxStreamsPerIp))
  <2>1. Inv => Shape
        BY DEF Inv
  <2>2. PlaceIsFree(a) => Cardinality(LimitedAt(a, OnIp)) <= MaxStreamsPerIp
        BY DEF PlaceIsFree
  <2>3. Init => PlaceIsFree(a)
        BY InitPlace
  <2>4. Shape /\ Counts /\ AtMostOneAwaits(a) /\ PlaceIsFree(a) /\ [Next]_vars
          => PlaceIsFree(a)'
        BY NextKeepsPlace
  <2>5. QED
        BY InitInv, NextInv, InitCounts, NextCounts, <2>1, <2>2, <2>3, <2>4, PTL DEF Spec
<1>2. QED
      BY <1>1 DEF LimitWithoutOverlap, AtMostOneAwaits
=============================================================================
