---------------------------- MODULE ClusterProofs ----------------------------
(***************************************************************************)
(* What is proved of src/src/cluster/: the router (RpcRouter), the pooled   *)
(* channels (ManagedChannel), the health checker (HealthChecker), which     *)
(* writes the statuses the router reads, and router and checker together.   *)
(*                                                                         *)
(* Router, for any number of nodes, any priorities and any number of        *)
(* requests: the fallback is complete and in order, and a fan-out is never  *)
(* taken back.  The sort by rank is shown to be a sort, and the round robin *)
(* to be a permutation, once.  A 502 is told when the last leg has failed,  *)
(* so the invariant says of a read that the nodes before its place have     *)
(* failed and those behind it were not asked (InTurn), and of a fan-out     *)
(* that an answer its handler has not seen is still in the inbox (Reported).*)
(*                                                                         *)
(* Channels, for any number of tasks of each kind: SingleConnector alone is *)
(* not inductive, because a second task could win a flag that the first one *)
(* does not hold.  OwnerHoldsFlag is what excludes it.                      *)
(*                                                                         *)
(* Checker, for any thresholds, zero included: a node is down exactly when  *)
(* the whole history of its probes calls for it.  The code keeps no history *)
(* but two counters; Tallied says which runs of the history they stand for. *)
(***************************************************************************)
EXTENDS RpcRouter, HealthChecker, ManagedChannel, FiniteSetTheorems, TLAPS

-----------------------------------------------------------------------------
(* The router: sorting.                                                     *)

\* R orders the members of S.
Orders(R, S) ==
    /\ \A x \in S : <<x, x>> \in R
    /\ \A x, y \in S : <<x, y>> \in R \/ <<y, x>> \in R
    /\ \A x, y \in S : <<x, y>> \in R /\ <<y, x>> \in R => x = y
    /\ \A x, y, z \in S : <<x, y>> \in R /\ <<y, z>> \in R => <<x, z>> \in R

\* s has the L members of S, once each.
OnceEach(s, L, S) ==
    /\ s \in [1..L -> S]
    /\ \A i, j \in 1..L : s[i] = s[j] => i = j
    /\ \A x \in S : \E i \in 1..L : s[i] = x

Sorts(s, S, R) ==
    /\ OnceEach(s, Cardinality(S), S)
    /\ \A i, j \in 1..Cardinality(S) : i < j => <<s[i], s[j]>> \in R

Below(S, R, x) == {y \in S : <<y, x>> \in R}

\* The number of members up to x tells the members apart, and is monotonic.
LEMMA RankGrows ==
  ASSUME NEW S, NEW R, IsFiniteSet(S), Orders(R, S), NEW x \in S, NEW y \in S, x # y,
         <<x, y>> \in R
  PROVE  Cardinality(Below(S, R, x)) < Cardinality(Below(S, R, y))
<1>1. /\ IsFiniteSet(Below(S, R, y)) /\ Cardinality(Below(S, R, y)) \in Nat
      /\ IsFiniteSet(Below(S, R, x)) /\ Cardinality(Below(S, R, x)) \in Nat
      BY FS_Subset, FS_CardinalityType DEF Below
<1>2. Below(S, R, x) \in SUBSET Below(S, R, y)
      BY DEF Below, Orders
<1>3. y \in Below(S, R, y) /\ y \notin Below(S, R, x)
      BY DEF Below, Orders
<1>4. QED
      BY <1>1, <1>2, <1>3, FS_Subset

LEMMA RankBounds ==
  ASSUME NEW S, NEW R, IsFiniteSet(S), Orders(R, S), NEW x \in S
  PROVE  Cardinality(Below(S, R, x)) \in 1..Cardinality(S)
<1>1. /\ IsFiniteSet(Below(S, R, x)) /\ Cardinality(Below(S, R, x)) \in Nat
      /\ Cardinality(Below(S, R, x)) <= Cardinality(S) /\ Cardinality(S) \in Nat
      BY FS_Subset, FS_CardinalityType DEF Below
<1>2. x \in Below(S, R, x)
      BY DEF Below, Orders
<1>3. Cardinality(Below(S, R, x)) # 0
      BY <1>1, <1>2, FS_EmptySet
<1>4. QED
      BY <1>1, <1>3

\* So InOrder sorts a finite set.
LEMMA InOrderSorts ==
  ASSUME NEW S, NEW R, IsFiniteSet(S), Orders(R, S)
  PROVE  Sorts(InOrder(S, R), S, R)
<1> DEFINE rank == [x \in S |-> Cardinality(Below(S, R, x))]
           size == Cardinality(S)
           s == InOrder(S, R)
<1>1. size \in Nat
      BY FS_CardinalityType
<1>2. rank \in [S -> 1..size]
      BY RankBounds
<1>3. ASSUME NEW x \in S, NEW y \in S, rank[x] = rank[y] PROVE x = y
  <2>1. rank[x] \in Nat /\ rank[y] \in Nat
        BY <1>2
  <2>2. <<x, y>> \in R \/ <<y, x>> \in R
        BY DEF Orders
  <2>3. QED
        BY <1>3, <2>1, <2>2, RankGrows
<1>4. rank \in Injection(S, 1..size)
      BY <1>2, <1>3 DEF Injection, IsInjective
<1>5. rank \in Surjection(S, 1..size)
  <2>1. IsFiniteSet(1..size) /\ Cardinality(1..size) = size
        BY <1>1, FS_Interval
  <2>2. QED
        BY <1>4, <2>1, FS_Injection
<1>6. ASSUME NEW k \in 1..size PROVE s[k] \in S /\ rank[s[k]] = k
  <2>1. \E x \in S : rank[x] = k
        BY <1>5 DEF Surjection
  <2>2. s[k] = CHOOSE x \in S : rank[x] = k
        BY DEF InOrder, Below
  <2>3. QED
        BY <2>1, <2>2
<1>7. s \in [1..size -> S]
  <2> DEFINE nth(k) == CHOOSE x \in S : Cardinality({y \in S : <<y, x>> \in R}) = k
  <2>1. s = [k \in 1..size |-> nth(k)]
        BY DEF InOrder
  <2> HIDE DEF nth, s
  <2>2. QED
        BY <1>6, <2>1
<1>8. \A i, j \in 1..size : s[i] = s[j] => i = j
      BY <1>6
<1>9. \A x \in S : \E i \in 1..size : s[i] = x
      BY <1>2, <1>3, <1>6
<1>10. ASSUME NEW i \in 1..size, NEW j \in 1..size, i < j PROVE <<s[i], s[j]>> \in R
  <2>1. /\ s[i] \in S /\ rank[s[i]] = i /\ s[j] \in S /\ rank[s[j]] = j
        BY <1>6
  <2>2. SUFFICES ASSUME <<s[j], s[i]>> \in R, s[i] # s[j] PROVE FALSE
        BY <1>10, <2>1 DEF Orders
  <2>3. rank[s[j]] < rank[s[i]]
        BY <2>1, <2>2, RankGrows
  <2>4. QED
        BY <1>10, <2>1, <2>3
<1>11. QED
      BY <1>7, <1>8, <1>9, <1>10 DEF Sorts, OnceEach

LEMMA NodeOrders ==
  ASSUME NEW S \in SUBSET Nodes
  PROVE  IsFiniteSet(S) /\ Orders(Configured, S) /\ Orders(ByPriority, S)
<1> USE RouterAssumption, NodesAssumption
<1>1. IsFiniteSet(S)
  <2>1. IsFiniteSet(1..N)
        BY FS_Interval
  <2>2. QED
        BY <2>1, FS_Subset DEF Nodes
<1>2. \A x, y \in S : <<x, y>> \in Configured <=> x <= y
      BY DEF Configured
<1>3. \A x, y \in S : <<x, y>> \in ByPriority <=>
        \/ Priority[x] < Priority[y]
        \/ Priority[x] = Priority[y] /\ x <= y
      BY DEF ByPriority, Configured
<1>4. \A x \in S : x \in Nat /\ Priority[x] \in Nat
      BY DEF Nodes
<1>5. Orders(Configured, S)
      BY <1>2, <1>4 DEF Orders
<1>6. Orders(ByPriority, S)
      BY <1>3, <1>4 DEF Orders
<1>7. QED
      BY <1>1, <1>5, <1>6

\* From any round-robin start every place is taken once.
LEMMA RotateTakesAll ==
  ASSUME NEW S, NEW L \in Nat, NEW s, OnceEach(s, L, S), s # <<>>, NEW c \in Nat
  PROVE  OnceEach(Rotate(s, c % Len(s)), L, S)
<1> DEFINE start == c % Len(s)
           to(i) == ((start + i - 1) % L) + 1
           t == Rotate(s, start)
<1>1. s \in Seq(S) /\ Len(s) = L /\ L # 0 /\ DOMAIN s = 1..L
      BY DEF OnceEach
<1>2. start \in 0..(L - 1)
      BY <1>1
<1>3. t = [i \in 1..L |-> s[to(i)]]
      BY <1>1 DEF Rotate
<1> HIDE DEF start, t
<1>4. ASSUME NEW i \in 1..L
      PROVE  to(i) = IF start + i <= L THEN start + i ELSE start + i - L
  <2>1. ASSUME NEW x \in Nat, x < L PROVE x % L = x
        BY <1>1, <2>1
  <2>2. ASSUME NEW x \in Nat, L <= x, x < L + L PROVE x % L = x - L
        BY <1>1, <2>2
  <2>3. QED
        BY <1>1, <1>2, <2>1, <2>2
<1> HIDE DEF to
<1>5. \A i \in 1..L : to(i) \in 1..L
      BY <1>2, <1>4
<1>6. \A i, j \in 1..L : to(i) = to(j) => i = j
      BY <1>2, <1>4
<1>7. ASSUME NEW k \in 1..L PROVE \E i \in 1..L : to(i) = k
  <2>1. CASE k > start
    <3>1. k - start \in 1..L
          BY <1>2, <2>1
    <3>2. to(k - start) = k
          BY <1>2, <1>4, <3>1
    <3>3. QED
          BY <3>1, <3>2
  <2>2. CASE k <= start
    <3>1. k - start + L \in 1..L
          BY <1>2, <2>2
    <3>2. to(k - start + L) = k
          BY <1>2, <1>4, <3>1
    <3>3. QED
          BY <3>1, <3>2
  <2>3. QED
        BY <1>2, <2>1, <2>2
<1>8. s \in [1..L -> S]
      BY DEF OnceEach
<1>9. t \in [1..L -> S] /\ \A i \in 1..L : t[i] = s[to(i)]
      BY <1>3, <1>5, <1>8
<1>10. \A i, j \in 1..L : t[i] = t[j] => i = j
      BY <1>5, <1>6, <1>9 DEF OnceEach
<1>11. ASSUME NEW x \in S PROVE \E i \in 1..L : t[i] = x
  <2>1. PICK k \in 1..L : s[k] = x
        BY DEF OnceEach
  <2>2. PICK i \in 1..L : to(i) = k
        BY <1>7
  <2>3. QED
        BY <1>9, <2>1, <2>2
<1>12. QED
      BY <1>9, <1>10, <1>11 DEF OnceEach, t, start

\* What a read, a heavy read and a fan-out are given.
LEMMA PlansSort ==
  /\ Sorts(HealthySeq, HealthyNodes, Configured)
  /\ Sorts(InOrder(HealthyNodes, ByPriority), HealthyNodes, ByPriority)
  /\ Sorts(FanOutTargets, HealthyNodes \cap SendTx, Configured)
  /\ Cardinality(HealthyNodes) \in Nat /\ Cardinality(HealthyNodes \cap SendTx) \in Nat
<1>1. HealthyNodes \in SUBSET Nodes /\ HealthyNodes \cap SendTx \in SUBSET Nodes
      BY DEF HealthyNodes
<1>2. QED
      BY <1>1, NodeOrders, InOrderSorts, FS_CardinalityType DEF HealthySeq, FanOutTargets

-----------------------------------------------------------------------------
(* The invariant, request by request.                                       *)

Fresh(r) ==
    at[r] = "new" =>
        /\ kind[r] = "none" /\ plan[r] = <<>> /\ place[r] = 1 /\ inbox[r] = <<>>
        /\ \A n \in Nodes : leg[r][n] = "none"

\* Only a finished request has an answer.
Phase(r) ==
    /\ at[r] = "trying" => kind[r] \in {"read", "heavy"} /\ plan[r] # <<>>
    /\ at[r] = "fanout" => kind[r] = "send"
    /\ answer[r] # "none" => at[r] = "done"

\* A read has failed at every node before its place, and has asked none behind.
InTurn(r) ==
    kind[r] \in {"read", "heavy"} =>
        /\ \A i, j \in DOMAIN plan[r] : plan[r][i] = plan[r][j] => i = j
        /\ place[r] >= 1 /\ (plan[r] # <<>> => place[r] <= Len(plan[r]))
        /\ \A i \in DOMAIN plan[r] :
             /\ i < place[r] => leg[r][plan[r][i]] = "failed"
             /\ i > place[r] => leg[r][plan[r][i]] = "none"

Sorted(r) ==
    kind[r] = "read" =>
        \A i, j \in DOMAIN plan[r] : i < j => Priority[plan[r][i]] <= Priority[plan[r][j]]

\* An answer of a fan-out that the handler has not seen is in its inbox.
Reported(r) ==
    at[r] = "fanout" =>
        \A i \in DOMAIN plan[r] :
            /\ leg[r][plan[r][i]] # "none"
            /\ leg[r][plan[r][i]] \in {"ok", "error_status"} =>
                 \E k \in DOMAIN inbox[r] : inbox[r][k] = plan[r][i]

\* What is in the inbox is finished.
Over(r) == at[r] = "fanout" => \A k \in DOMAIN inbox[r] : leg[r][inbox[r][k]] \in Finished

Truthful(r) ==
    answer[r] = "bad_gateway" => \A i \in DOMAIN plan[r] : leg[r][plan[r][i]] = "failed"

ReqInv(r) ==
    /\ Fresh(r) /\ Phase(r) /\ InTurn(r) /\ Sorted(r)
    /\ Reported(r) /\ Over(r) /\ Truthful(r)

Inv == TypeOK /\ \A r \in Requests : ReqInv(r)

LEMMA InitInv == Init => Inv
<1> SUFFICES ASSUME Init PROVE Inv
    OBVIOUS
<1>1. TypeOK
      BY DEF Init, TypeOK, Statuses, Legs
<1>2. ASSUME NEW r \in Requests PROVE ReqInv(r)
      BY DEF Init, ReqInv, Fresh, Phase, InTurn, Sorted, Reported, Over, Truthful
<1>3. QED
      BY <1>1, <1>2 DEF Inv

\* Nothing of request r changes.
Same(r) ==
    /\ kind'[r] = kind[r] /\ at'[r] = at[r] /\ plan'[r] = plan[r] /\ place'[r] = place[r]
    /\ leg'[r] = leg[r] /\ inbox'[r] = inbox[r] /\ answer'[r] = answer[r]

LEMMA SameKeeps ==
  ASSUME NEW r \in Requests, ReqInv(r), Same(r)
  PROVE  ReqInv(r)'
BY DEF Same, ReqInv, Fresh, Phase, InTurn, Sorted, Reported, Over, Truthful

\* A step of one request leaves the others alone.
LEMMA OthersSame ==
  ASSUME TypeOK, NEW r \in Requests, NEW q \in Requests \ {r},
         Arrive(r) \/ Handle(r) \/ ClientLeaves(r)
           \/ \E n \in Nodes : Ask(r, n) \/ BodyComplete(r, n) \/ BodyFails(r, n)
  PROVE  Same(q)
<1> USE DEF Same, TypeOK
<1>1. CASE Arrive(r)
      BY <1>1 DEF Arrive, ForwardRead, ForwardHeavy, FanOut, Unrouted, Try, Classify
<1>2. CASE Handle(r)
      BY <1>2 DEF Handle, TakeAnswer, TryNext, AllFailed, FanOutRecv, FanOutFailed, Answer
<1>3. CASE ClientLeaves(r)
      BY <1>3 DEF ClientLeaves
<1>4. CASE \E n \in Nodes : Ask(r, n) \/ BodyComplete(r, n) \/ BodyFails(r, n)
      BY <1>4 DEF Ask, HeadArrives, AskFails, BodyComplete, BodyFails, LegTo
<1>5. QED
      BY <1>1, <1>2, <1>3, <1>4

-----------------------------------------------------------------------------
(* A request comes in.                                                      *)

LEMMA UnroutedKeeps ==
  ASSUME TypeOK, NEW r \in Requests, ReqInv(r), NEW nodes, Unrouted(r, nodes),
         NEW k \in {"read", "heavy", "send"}, Classify(r, k)
  PROVE  TypeOK' /\ ReqInv(r)'
<1>1. TypeOK'
      BY DEF TypeOK, Unrouted, Classify
<1>2. /\ plan'[r] = <<>> /\ at'[r] = "done" /\ place'[r] = 1 /\ kind'[r] = k
      BY DEF TypeOK, Unrouted, Classify, ReqInv, Fresh
<1>3. QED
      BY <1>1, <1>2 DEF ReqInv, Fresh, Phase, InTurn, Sorted, Reported, Over, Truthful

LEMMA TryKeeps ==
  ASSUME TypeOK, NEW r \in Requests, ReqInv(r), NEW k \in {"read", "heavy"}, Classify(r, k),
         NEW L \in Nat, NEW nodes \in [1..L -> Nodes], Try(r, nodes), counter' \in Nat,
         \A i, j \in 1..L : nodes[i] = nodes[j] => i = j,
         k = "read" => \A i, j \in 1..L : i < j => Priority[nodes[i]] <= Priority[nodes[j]]
  PROVE  TypeOK' /\ ReqInv(r)'
<1>1. nodes \in Seq(Nodes) /\ Len(nodes) = L /\ DOMAIN nodes = 1..L /\ L # 0 /\ nodes[1] \in Nodes
      BY DEF Try
<1>2. /\ at'[r] = "trying" /\ plan'[r] = nodes /\ place'[r] = 1 /\ kind'[r] = k
      /\ answer'[r] = "none"
      /\ \A n \in Nodes : leg'[r][n] = IF n = nodes[1] THEN "asking" ELSE "none"
      BY <1>1 DEF TypeOK, Try, Classify, ReqInv, Fresh, Phase
<1>3. TypeOK'
  <2>1. leg' \in [Requests -> [Nodes -> Legs]]
        BY <1>1 DEF TypeOK, Try, Legs
  <2>2. QED
        BY <1>1, <2>1 DEF TypeOK, Try, Classify
<1>4. QED
      BY <1>1, <1>2, <1>3 DEF ReqInv, Fresh, Phase, InTurn, Sorted, Reported, Over, Truthful

LEMMA ReadKeeps ==
  ASSUME TypeOK, NEW r \in Requests, ReqInv(r), ForwardRead(r)
  PROVE  TypeOK' /\ ReqInv(r)'
<1> DEFINE nodes == InOrder(HealthyNodes, ByPriority)
           L == Cardinality(HealthyNodes)
<1>1. CASE Unrouted(r, HealthySeq)
      BY <1>1, UnroutedKeeps DEF ForwardRead
<1>2. CASE Try(r, nodes) /\ UNCHANGED counter
  <2>1. L \in Nat /\ Sorts(nodes, HealthyNodes, ByPriority)
        BY PlansSort
  <2>2. nodes \in [1..L -> Nodes] /\ \A i, j \in 1..L : nodes[i] = nodes[j] => i = j
        BY <2>1 DEF Sorts, OnceEach, HealthyNodes
  <2>3. ASSUME NEW i \in 1..L, NEW j \in 1..L, i < j
        PROVE  Priority[nodes[i]] <= Priority[nodes[j]]
    <3>1. <<nodes[i], nodes[j]>> \in ByPriority
          BY <2>1, <2>3 DEF Sorts
    <3>2. ASSUME NEW x \in Nodes, NEW y \in Nodes, <<x, y>> \in ByPriority
          PROVE  Priority[x] <= Priority[y]
          BY <3>2, RouterAssumption, NodesAssumption DEF ByPriority
    <3>3. QED
          BY <2>2, <3>1, <3>2
  <2>4. counter' \in Nat /\ Classify(r, "read") /\ Try(r, nodes)
        BY <1>2 DEF TypeOK, ForwardRead
  <2> HIDE DEF nodes, L
  <2>5. QED
        BY <2>1, <2>2, <2>3, <2>4, TryKeeps
<1>3. QED
      BY <1>1, <1>2 DEF ForwardRead

LEMMA HeavyPlan ==
  ASSUME TypeOK, HealthySeq # <<>>
  PROVE  OnceEach(Rotate(HealthySeq, counter % Len(HealthySeq)),
                  Cardinality(HealthyNodes), HealthyNodes)
<1>1. /\ Cardinality(HealthyNodes) \in Nat
      /\ OnceEach(HealthySeq, Cardinality(HealthyNodes), HealthyNodes)
      BY PlansSort DEF Sorts
<1>2. counter \in Nat
      BY DEF TypeOK
<1>3. QED
      BY <1>1, <1>2, RotateTakesAll

LEMMA HeavyKeeps ==
  ASSUME TypeOK, NEW r \in Requests, ReqInv(r), ForwardHeavy(r)
  PROVE  TypeOK' /\ ReqInv(r)'
<1>1. CASE Unrouted(r, HealthySeq)
      BY <1>1, UnroutedKeeps DEF ForwardHeavy
<1>2. CASE HealthySeq # <<>> /\ Try(r, Rotate(HealthySeq, counter % Len(HealthySeq)))
             /\ counter' = counter + 1
  <2> DEFINE L == Cardinality(HealthyNodes)
             t == Rotate(HealthySeq, counter % Len(HealthySeq))
  <2>1. /\ L \in Nat /\ t \in [1..L -> Nodes]
        /\ \A i, j \in 1..L : t[i] = t[j] => i = j
        BY <1>2, HeavyPlan, PlansSort DEF OnceEach, HealthyNodes
  <2>2. counter' \in Nat /\ Classify(r, "heavy") /\ Try(r, t)
        BY <1>2 DEF TypeOK, ForwardHeavy
  <2> HIDE DEF t, L
  <2>3. QED
        BY <2>1, <2>2, TryKeeps
<1>3. QED
      BY <1>1, <1>2 DEF ForwardHeavy

LEMMA FanOutKeeps ==
  ASSUME TypeOK, NEW r \in Requests, ReqInv(r), FanOut(r)
  PROVE  TypeOK' /\ ReqInv(r)'
<1>1. CASE Unrouted(r, FanOutTargets)
      BY <1>1, UnroutedKeeps DEF FanOut
<1>2. CASE ~Unrouted(r, FanOutTargets)
  <2> DEFINE L == Cardinality(HealthyNodes \cap SendTx)
  <2>1. L \in Nat /\ Sorts(FanOutTargets, HealthyNodes \cap SendTx, Configured)
        BY PlansSort
  <2>2. FanOutTargets \in [1..L -> Nodes] /\ L \in Nat
        BY <2>1 DEF Sorts, OnceEach, HealthyNodes
  <2> HIDE DEF L
  <2>3. FanOutTargets \in Seq(Nodes) /\ DOMAIN FanOutTargets = 1..L
        BY <2>2
  <2>4. /\ at[r] = "new" /\ at' = [at EXCEPT ![r] = "fanout"]
        /\ plan' = [plan EXCEPT ![r] = FanOutTargets]
        /\ leg' = [leg EXCEPT ![r] = [n \in Nodes |->
                       IF \E i \in DOMAIN FanOutTargets : FanOutTargets[i] = n
                       THEN "asking" ELSE "none"]]
        /\ UNCHANGED <<status, counter, place, inbox, answer>>
        /\ kind' = [kind EXCEPT ![r] = "send"]
        BY <1>2 DEF FanOut, Classify
  <2>5. TypeOK'
    <3>1. leg' \in [Requests -> [Nodes -> Legs]]
          BY <2>4 DEF TypeOK, Legs
    <3>2. QED
          BY <2>3, <2>4, <3>1 DEF TypeOK
  <2>6. /\ at'[r] = "fanout" /\ kind'[r] = "send" /\ answer'[r] = "none"
        /\ plan'[r] = FanOutTargets
        /\ \A i \in 1..L : leg'[r][FanOutTargets[i]] = "asking"
        /\ inbox'[r] = <<>>
        BY <2>2, <2>3, <2>4 DEF TypeOK, ReqInv, Phase, Fresh
  <2>7. QED
        BY <2>3, <2>5, <2>6 DEF ReqInv, Fresh, Phase, InTurn, Sorted, Reported, Over, Truthful
<1>3. QED
      BY <1>1, <1>2

-----------------------------------------------------------------------------
(* Legs and the handler.                                                    *)

\* A leg moves on.  What the properties need: a failed leg stays failed, a leg
\* that was not begun stays so, and a fan-out's answer goes to the inbox.
LEMMA LegKeeps ==
  ASSUME TypeOK, NEW r \in Requests, ReqInv(r), NEW n \in Nodes,
         NEW from \in {"asking", "body"}, NEW to \in {"body"} \cup Finished,
         LegTo(r, n, from, to)
  PROVE  TypeOK' /\ ReqInv(r)'
<1>1. TypeOK'
  <2>1. leg' \in [Requests -> [Nodes -> Legs]]
        BY DEF TypeOK, LegTo, Legs
  <2>2. inbox' \in [Requests -> Seq(Nodes)]
        BY DEF TypeOK, LegTo
  <2>3. QED
        BY <2>1, <2>2 DEF TypeOK, LegTo
<1>2. /\ leg[r][n] \in {"asking", "body"}
      /\ \A m \in Nodes : leg'[r][m] = IF m = n THEN to ELSE leg[r][m]
      /\ to # "none"
      BY DEF TypeOK, LegTo, Finished
<1>3. /\ kind'[r] = kind[r] /\ at'[r] = at[r] /\ plan'[r] = plan[r] /\ place'[r] = place[r]
      /\ answer'[r] = answer[r] /\ plan[r] \in Seq(Nodes) /\ inbox[r] \in Seq(Nodes)
      /\ \A i \in DOMAIN plan[r] : plan[r][i] \in Nodes
      BY DEF TypeOK, LegTo
<1>4. Fresh(r)' /\ Phase(r)' /\ Sorted(r)' /\ Truthful(r)'
      BY <1>2, <1>3 DEF ReqInv, Fresh, Phase, Sorted, Truthful
<1>5. InTurn(r)'
      BY <1>2, <1>3 DEF ReqInv, InTurn
<1>6. Reported(r)'
  <2>1. SUFFICES ASSUME at[r] = "fanout", NEW i \in DOMAIN plan[r]
                 PROVE  /\ leg'[r][plan[r][i]] # "none"
                        /\ leg'[r][plan[r][i]] \in {"ok", "error_status"} =>
                             \E k \in DOMAIN inbox'[r] : inbox'[r][k] = plan[r][i]
        BY <1>3 DEF Reported
  <2>2. kind[r] = "send"
        BY <2>1 DEF ReqInv, Phase
  <2>3. CASE plan[r][i] # n
    <3>1. \A k \in DOMAIN inbox[r] : k \in DOMAIN inbox'[r] /\ inbox'[r][k] = inbox[r][k]
          BY <1>3, <2>2 DEF LegTo, TypeOK
    <3>2. QED
          BY <1>2, <1>3, <2>1, <2>3, <3>1 DEF ReqInv, Reported
  <2>4. CASE plan[r][i] = n
    <3>1. SUFFICES ASSUME to \in Finished
                   PROVE  \E k \in DOMAIN inbox'[r] : inbox'[r][k] = n
          BY <1>2, <2>4 DEF Finished
    <3>2. inbox'[r] = Append(inbox[r], n)
          BY <2>2, <3>1 DEF LegTo, TypeOK
    <3>3. /\ Len(inbox[r]) + 1 \in DOMAIN inbox'[r]
          /\ inbox'[r][Len(inbox[r]) + 1] = n
          BY <1>3, <3>2
    <3>4. QED
          BY <3>3
  <2>5. QED
        BY <2>3, <2>4
<1>7. Over(r)'
  <2>1. SUFFICES ASSUME at[r] = "fanout", NEW k \in DOMAIN inbox'[r]
                 PROVE  leg'[r][inbox'[r][k]] \in Finished
        BY <1>3 DEF Over
  <2>2. kind[r] = "send" /\ n \notin {inbox[r][j] : j \in DOMAIN inbox[r]}
        BY <1>2, <2>1 DEF ReqInv, Phase, Over, Finished
  <2>3. CASE to \in Finished
    <3>1. inbox'[r] = Append(inbox[r], n)
          BY <2>2, <2>3 DEF LegTo, TypeOK
    <3>2. CASE k \in DOMAIN inbox[r]
      <4>1. inbox'[r][k] = inbox[r][k] /\ inbox[r][k] \in Nodes /\ inbox[r][k] # n
            BY <1>3, <2>2, <3>1, <3>2
      <4>2. QED
            BY <1>2, <2>1, <3>2, <4>1 DEF ReqInv, Over
    <3>3. CASE k \notin DOMAIN inbox[r]
      <4>1. inbox'[r][k] = n
            BY <1>3, <3>1, <3>3
      <4>2. QED
            BY <1>2, <2>3, <4>1
    <3>4. QED
          BY <3>2, <3>3
  <2>4. CASE to \notin Finished
    <3>1. inbox'[r] = inbox[r]
          BY <2>4 DEF LegTo, TypeOK
    <3>2. inbox[r][k] \in Nodes /\ inbox[r][k] # n
          BY <1>3, <2>1, <2>2, <3>1
    <3>3. QED
          BY <1>2, <2>1, <3>1, <3>2 DEF ReqInv, Over
  <2>5. QED
        BY <2>3, <2>4
<1>8. QED
      BY <1>1, <1>4, <1>5, <1>6, <1>7 DEF ReqInv

LEMMA TakeAnswerKeeps ==
  ASSUME TypeOK, NEW r \in Requests, ReqInv(r), TakeAnswer(r) \/ AllFailed(r)
  PROVE  TypeOK' /\ ReqInv(r)'
<1>1. TypeOK'
  <2>1. /\ at' = [at EXCEPT ![r] = "done"]
        /\ \E what \in {"ok", "error_status", "bad_gateway"} :
                answer' = [answer EXCEPT ![r] = what]
        /\ UNCHANGED <<status, counter, kind, plan, place, leg, inbox>>
        BY DEF TakeAnswer, AllFailed, Answer
  <2>2. at' \in [Requests -> {"new", "trying", "fanout", "done", "dropped"}]
        BY <2>1 DEF TypeOK
  <2>3. answer' \in [Requests -> {"none", "ok", "error_status", "bad_gateway"}]
        BY <2>1 DEF TypeOK
  <2>4. QED
        BY <2>1, <2>2, <2>3 DEF TypeOK
<1>2. /\ at[r] = "trying" /\ at'[r] = "done" /\ leg'[r] = leg[r]
      /\ kind'[r] = kind[r] /\ plan'[r] = plan[r] /\ place'[r] = place[r]
      BY DEF TypeOK, TakeAnswer, AllFailed, Answer
<1>3. Truthful(r)'
  <2>1. CASE TakeAnswer(r)
        BY <2>1 DEF TakeAnswer, Answer, TypeOK, Truthful
  <2>2. CASE AllFailed(r)
    <3>1. /\ place[r] \in Nat /\ plan[r] \in Seq(Nodes) /\ place[r] >= Len(plan[r])
          /\ leg[r][plan[r][place[r]]] = "failed"
          BY <2>2 DEF AllFailed, NoMoreNodes, Current, TypeOK
    <3>2. /\ \A i \in DOMAIN plan[r] : i < place[r] => leg[r][plan[r][i]] = "failed"
          /\ place[r] <= Len(plan[r])
          BY <1>2 DEF ReqInv, InTurn, Phase
    <3>3. \A i \in DOMAIN plan[r] : leg[r][plan[r][i]] = "failed"
          BY <3>1, <3>2
    <3>4. QED
          BY <1>2, <3>3 DEF Truthful
  <2>3. QED
        BY <2>1, <2>2
<1>4. QED
      BY <1>1, <1>2, <1>3 DEF ReqInv, Fresh, Phase, InTurn, Sorted, Reported, Over

LEMMA TryNextKeeps ==
  ASSUME TypeOK, NEW r \in Requests, ReqInv(r), TryNext(r)
  PROVE  TypeOK' /\ ReqInv(r)'
<1> DEFINE p == place[r]
           next == plan[r][p + 1]
<1>1. /\ at[r] = "trying" /\ kind[r] \in {"read", "heavy"} /\ answer[r] = "none"
      /\ leg[r][plan[r][p]] = "failed" /\ p \in Nat /\ p < Len(plan[r]) /\ p >= 1
      /\ plan[r] \in Seq(Nodes) /\ Len(plan[r]) \in Nat /\ DOMAIN plan[r] = 1..Len(plan[r])
      BY DEF TryNext, Current, NoMoreNodes, ReqInv, Phase, InTurn, TypeOK
<1>2. next \in Nodes /\ p + 1 \in DOMAIN plan[r] /\ p \in DOMAIN plan[r]
      BY <1>1
<1>3. /\ place' = [place EXCEPT ![r] = p + 1]
      /\ leg' = [leg EXCEPT ![r][next] = "asking"]
      /\ UNCHANGED <<status, counter, kind, at, plan, inbox, answer>>
      BY DEF TryNext
<1> HIDE DEF next
<1>4. TypeOK'
  <2>1. leg' \in [Requests -> [Nodes -> Legs]]
        BY <1>2, <1>3 DEF TypeOK, Legs
  <2>2. place' \in [Requests -> Nat]
        BY <1>1, <1>3 DEF TypeOK
  <2>3. QED
        BY <1>3, <2>1, <2>2 DEF TypeOK
<1>5. /\ place'[r] = p + 1
      /\ \A m \in Nodes : leg'[r][m] = IF m = next THEN "asking" ELSE leg[r][m]
      BY <1>2, <1>3 DEF TypeOK
<1>6. InTurn(r)'
  <2>1. /\ \A i, j \in DOMAIN plan[r] : plan[r][i] = plan[r][j] => i = j
        /\ \A i \in DOMAIN plan[r] :
             /\ i < p => leg[r][plan[r][i]] = "failed"
             /\ i > p => leg[r][plan[r][i]] = "none"
        BY <1>1 DEF ReqInv, InTurn
  <2>2. ASSUME NEW i \in DOMAIN plan[r]
        PROVE  /\ i < p + 1 => leg'[r][plan[r][i]] = "failed"
               /\ i > p + 1 => leg'[r][plan[r][i]] = "none"
    <3>1. i # p + 1 => leg'[r][plan[r][i]] = leg[r][plan[r][i]]
          BY <1>1, <1>2, <1>5, <2>1 DEF next
    <3>2. QED
          BY <1>1, <2>1, <3>1
  <2>3. QED
    <3>1. /\ plan'[r] = plan[r] /\ kind'[r] = kind[r] /\ p + 1 \in Nat /\ p + 1 <= Len(plan[r])
          BY <1>1, <1>3
    <3>2. place'[r] >= 1 /\ place'[r] <= Len(plan[r])
          BY <1>1, <1>5, <3>1
    <3>3. \A i \in DOMAIN plan[r] : /\ i < place'[r] => leg'[r][plan[r][i]] = "failed"
                                    /\ i > place'[r] => leg'[r][plan[r][i]] = "none"
          BY <1>5, <2>2
    <3> HIDE DEF p
    <3>4. QED
          BY <2>1, <3>1, <3>2, <3>3 DEF InTurn
<1>7. QED
      BY <1>1, <1>3, <1>4, <1>6 DEF ReqInv, Fresh, Phase, Sorted, Reported, Over, Truthful

LEMMA FanOutRecvKeeps ==
  ASSUME TypeOK, NEW r \in Requests, ReqInv(r), FanOutRecv(r)
  PROVE  TypeOK' /\ ReqInv(r)'
<1> DEFINE first == Head(inbox[r])
<1>1. /\ at[r] = "fanout" /\ inbox[r] \in Seq(Nodes) /\ inbox[r] # <<>> /\ first \in Nodes
      /\ kind[r] = "send" /\ inbox'[r] = Tail(inbox[r]) /\ Tail(inbox[r]) \in Seq(Nodes)
      /\ plan[r] \in Seq(Nodes)
      /\ UNCHANGED <<status, counter, kind, plan, place, leg>>
      /\ answer[r] = "none"
      BY DEF TypeOK, FanOutRecv, ReqInv, Phase
<1>2. inbox' \in [Requests -> Seq(Nodes)]
      BY <1>1 DEF TypeOK, FanOutRecv
<1>3. CASE leg[r][first] = "failed"
  <2>1. UNCHANGED <<at, answer>>
        BY <1>3 DEF FanOutRecv
  <2>2. ASSUME NEW i \in DOMAIN plan[r], leg[r][plan[r][i]] \in {"ok", "error_status"}
        PROVE  \E k \in DOMAIN inbox'[r] : inbox'[r][k] = plan[r][i]
    <3>1. PICK k \in DOMAIN inbox[r] : inbox[r][k] = plan[r][i]
          BY <1>1, <2>2 DEF ReqInv, Reported
    <3>2. k # 1
          BY <1>1, <1>3, <2>2, <3>1
    <3>3. k - 1 \in DOMAIN inbox'[r] /\ inbox'[r][k - 1] = inbox[r][k]
          BY <1>1, <3>2
    <3>4. QED
          BY <3>1, <3>3
  <2>3. ASSUME NEW k \in DOMAIN inbox'[r] PROVE leg[r][inbox'[r][k]] \in Finished
    <3>1. k + 1 \in DOMAIN inbox[r] /\ inbox'[r][k] = inbox[r][k + 1]
          BY <1>1
    <3>2. QED
          BY <1>1, <3>1 DEF ReqInv, Over
  <2>4. QED
        BY <1>1, <1>2, <2>1, <2>2, <2>3
        DEF TypeOK, ReqInv, Fresh, Phase, InTurn, Sorted, Reported, Over, Truthful
<1>4. CASE leg[r][first] # "failed"
  <2>1. leg[r][first] \in {"ok", "error_status"}
    <3>1. 1 \in DOMAIN inbox[r] /\ inbox[r][1] = first
          BY <1>1
    <3>2. QED
          BY <1>1, <1>4, <3>1 DEF ReqInv, Over, Finished
  <2>2. Answer(r, leg[r][first])
        BY <1>4 DEF FanOutRecv
  <2>3. at'[r] = "done" /\ answer'[r] \in {"ok", "error_status"}
        BY <2>1, <2>2 DEF Answer, TypeOK
  <2>4. TypeOK'
        BY <1>1, <1>2, <2>1, <2>2 DEF Answer, TypeOK
  <2>5. QED
        BY <1>1, <2>3, <2>4
        DEF ReqInv, Fresh, Phase, InTurn, Sorted, Reported, Over, Truthful
<1>5. QED
      BY <1>3, <1>4

LEMMA FanOutFailedKeeps ==
  ASSUME TypeOK, NEW r \in Requests, ReqInv(r), FanOutFailed(r)
  PROVE  TypeOK' /\ ReqInv(r)'
<1>1. TypeOK'
      BY DEF TypeOK, FanOutFailed, Answer
<1>2. /\ at[r] = "fanout" /\ at'[r] = "done" /\ kind[r] = "send" /\ inbox[r] = <<>>
      /\ UNCHANGED <<kind, plan, place, leg>>
      BY DEF TypeOK, FanOutFailed, Answer, ReqInv, Phase
<1>3. ASSUME NEW i \in DOMAIN plan[r] PROVE leg[r][plan[r][i]] = "failed"
  <2>1. plan[r][i] \in Nodes
        BY DEF TypeOK
  <2>2. leg[r][plan[r][i]] \in {"none"} \cup Finished
        BY <2>1 DEF FanOutFailed
  <2>3. leg[r][plan[r][i]] \notin {"none", "ok", "error_status"}
        BY <1>2 DEF ReqInv, Reported
  <2>4. QED
        BY <2>2, <2>3 DEF Finished
<1>4. QED
      BY <1>1, <1>2, <1>3 DEF ReqInv, Fresh, Phase, InTurn, Sorted, Reported, Over, Truthful

LEMMA ClientLeavesKeeps ==
  ASSUME TypeOK, NEW r \in Requests, ReqInv(r), ClientLeaves(r)
  PROVE  TypeOK' /\ ReqInv(r)'
<1>1. /\ at[r] \in {"trying", "fanout"} /\ at' = [at EXCEPT ![r] = "dropped"] /\ at'[r] = "dropped"
      /\ UNCHANGED <<status, counter, kind, plan, place, inbox, answer>> /\ answer[r] = "none"
      BY DEF ClientLeaves, TypeOK, ReqInv, Phase
<1>2. CASE at[r] = "fanout"
  <2>1. leg' = leg
        BY <1>2 DEF ClientLeaves
  <2>2. QED
        BY <1>1, <1>2, <2>1
        DEF TypeOK, ReqInv, Fresh, Phase, InTurn, Sorted, Reported, Over, Truthful
<1>3. CASE at[r] = "trying"
  <2>1. /\ plan[r] \in Seq(Nodes) /\ place[r] \in DOMAIN plan[r] /\ Current(r) \in Nodes
        /\ Current(r) = plan[r][place[r]]
        BY <1>3 DEF TypeOK, ReqInv, Phase, InTurn, Current
  <2>2. leg' = [leg EXCEPT ![r][Current(r)] = "none"]
        BY <1>3 DEF ClientLeaves
  <2>3. TypeOK'
    <3>1. leg' \in [Requests -> [Nodes -> Legs]]
          BY <2>1, <2>2 DEF TypeOK, Legs
    <3>2. QED
          BY <1>1, <3>1 DEF TypeOK
  <2>4. \A m \in Nodes : m # Current(r) => leg'[r][m] = leg[r][m]
        BY <2>1, <2>2 DEF TypeOK
  <2>5. leg'[r][Current(r)] = "none"
        BY <2>1, <2>2 DEF TypeOK
  <2>6. InTurn(r)'
        BY <1>1, <2>1, <2>4, <2>5 DEF ReqInv, InTurn
  <2>7. QED
        BY <1>1, <2>3, <2>6 DEF ReqInv, Fresh, Phase, Sorted, Reported, Over, Truthful
<1>4. QED
      BY <1>1, <1>2, <1>3

-----------------------------------------------------------------------------
(* The steps together.                                                      *)

\* A step of request r, whatever it is.
Step(r) ==
    \/ Arrive(r) \/ Handle(r) \/ ClientLeaves(r)
    \/ \E n \in Nodes : Ask(r, n) \/ BodyComplete(r, n) \/ BodyFails(r, n)

LEMMA OwnStep ==
  ASSUME TypeOK, NEW r \in Requests, ReqInv(r), Step(r)
  PROVE  TypeOK' /\ ReqInv(r)'
<1>1. CASE Arrive(r)
      BY <1>1, ReadKeeps, HeavyKeeps, FanOutKeeps DEF Arrive
<1>2. CASE Handle(r)
      BY <1>2, TakeAnswerKeeps, TryNextKeeps, FanOutRecvKeeps, FanOutFailedKeeps DEF Handle
<1>3. CASE ClientLeaves(r)
      BY <1>3, ClientLeavesKeeps
<1>4. ASSUME NEW n \in Nodes, Ask(r, n) \/ BodyComplete(r, n) \/ BodyFails(r, n)
      PROVE  TypeOK' /\ ReqInv(r)'
      BY <1>4, LegKeeps DEF Ask, HeadArrives, AskFails, BodyComplete, BodyFails, Finished
<1>5. QED
      BY <1>1, <1>2, <1>3, <1>4 DEF Step

LEMMA NextInv == Inv /\ [Next]_vars => Inv'
<1> SUFFICES ASSUME Inv, [Next]_vars PROVE Inv'
    OBVIOUS
<1>1. CASE UNCHANGED vars
  <2>1. TypeOK'
        BY <1>1 DEF Inv, TypeOK, vars
  <2>2. ASSUME NEW q \in Requests PROVE ReqInv(q)'
        BY <1>1, SameKeeps DEF Inv, Same, vars
  <2>3. QED
        BY <2>1, <2>2 DEF Inv
<1>2. ASSUME NEW n \in Nodes, NEW st \in Statuses, SetStatus(n, st) PROVE Inv'
  <2>1. TypeOK'
        BY <1>2 DEF Inv, TypeOK, SetStatus
  <2>2. ASSUME NEW q \in Requests PROVE ReqInv(q)'
        BY <1>2, SameKeeps DEF Inv, Same, SetStatus
  <2>3. QED
        BY <2>1, <2>2 DEF Inv
<1>3. ASSUME NEW r \in Requests, Step(r) PROVE Inv'
  <2>1. TypeOK' /\ ReqInv(r)'
        BY <1>3, OwnStep DEF Inv
  <2>2. ASSUME NEW q \in Requests \ {r} PROVE ReqInv(q)'
        BY <1>3, OthersSame, SameKeeps DEF Inv, Step
  <2>3. QED
        BY <2>1, <2>2 DEF Inv
<1>4. QED
      BY <1>1, <1>2, <1>3 DEF Next, Step

\* A client is told 502 only when every node of its plan was asked and failed
\* (router.rs:105-113, 139-150, 171-181), for any number of nodes and requests.
THEOREM NoNodeIsForgotten == Spec => []BadGatewayMeansAllFailed
<1>1. Inv => BadGatewayMeansAllFailed
      BY DEF Inv, ReqInv, Truthful, BadGatewayMeansAllFailed
<1>2. QED
      BY InitInv, NextInv, <1>1, PTL DEF Spec

\* A read asks a node only after those of a better priority have failed
\* (router.rs:158-179): the stable sort and the fallback together.
THEOREM ReadsFollowPriority == Spec => []BetterNodesFirst
<1>1. ASSUME Inv PROVE BetterNodesFirst
  <2>1. SUFFICES ASSUME NEW r \in Requests, kind[r] = "read",
                        NEW i \in DOMAIN plan[r], NEW j \in DOMAIN plan[r],
                        Priority[plan[r][i]] < Priority[plan[r][j]],
                        leg[r][plan[r][j]] # "none"
                 PROVE  leg[r][plan[r][i]] = "failed"
        BY DEF BetterNodesFirst
  <2>2. /\ plan[r] \in Seq(Nodes) /\ i \in Nat /\ j \in Nat /\ place[r] \in Nat
        /\ Priority[plan[r][i]] \in Nat /\ Priority[plan[r][j]] \in Nat
        BY <1>1, RouterAssumption, NodesAssumption DEF Inv, TypeOK
  <2>3. i < j
    <3>1. j < i => Priority[plan[r][j]] <= Priority[plan[r][i]]
          BY <1>1, <2>1 DEF Inv, ReqInv, Sorted
    <3>2. QED
          BY <2>1, <2>2, <3>1
  <2>4. j <= place[r]
        BY <1>1, <2>1, <2>2 DEF Inv, ReqInv, InTurn
  <2>5. QED
        BY <1>1, <2>1, <2>2, <2>3, <2>4 DEF Inv, ReqInv, InTurn
<1>2. QED
      BY InitInv, NextInv, <1>1, PTL DEF Spec

LEMMA Members ==
  ASSUME NEW s, NEW L, NEW S, OnceEach(s, L, S)
  PROVE  /\ \A i, j \in DOMAIN s : s[i] = s[j] => i = j
         /\ {s[i] : i \in DOMAIN s} = S
         /\ \A x : (\E i \in DOMAIN s : s[i] = x) <=> x \in S
<1>1. DOMAIN s = 1..L /\ \A i \in 1..L : s[i] \in S
      BY DEF OnceEach
<1>2. QED
      BY <1>1 DEF OnceEach

\* The plan of a read that comes in.
LEMMA PlanIsComplete ==
  ASSUME Inv, Next, NEW r \in Requests, at[r] = "new", at'[r] = "trying"
  PROVE  OnceEach(plan'[r], Cardinality(HealthyNodes), HealthyNodes)
<1>1. TypeOK /\ ReqInv(r)
      BY DEF Inv
<1>2. Arrive(r)
  <2>1. ~UNCHANGED at
        OBVIOUS
  <2>2. PICK q \in Requests : Step(q)
        BY <2>1 DEF Next, vars, SetStatus, Step
  <2>3. q = r
        BY <1>1, <2>2, OthersSame DEF Same, Step
  <2>4. ~Handle(r) /\ ~ClientLeaves(r)
        BY DEF Handle, TakeAnswer, TryNext, AllFailed, FanOutRecv, FanOutFailed, ClientLeaves
  <2>5. ~\E n \in Nodes : Ask(r, n) \/ BodyComplete(r, n) \/ BodyFails(r, n)
        BY <2>1 DEF Ask, HeadArrives, AskFails, BodyComplete, BodyFails, LegTo
  <2>6. QED
        BY <2>2, <2>3, <2>4, <2>5 DEF Step
<1>3. at[r] # at'[r] /\ ~Unrouted(r, HealthySeq) /\ ~FanOut(r)
      BY <1>1 DEF Unrouted, FanOut, TypeOK
<1>4. CASE ForwardRead(r)
  <2>1. plan'[r] = InOrder(HealthyNodes, ByPriority)
        BY <1>1, <1>3, <1>4 DEF ForwardRead, Try, TypeOK
  <2>2. QED
        BY <2>1, PlansSort DEF Sorts
<1>5. CASE ForwardHeavy(r)
  <2>1. HealthySeq # <<>> /\ plan'[r] = Rotate(HealthySeq, counter % Len(HealthySeq))
        BY <1>1, <1>3, <1>5 DEF ForwardHeavy, Try, TypeOK
  <2>2. QED
        BY <1>1, <2>1, HeavyPlan
<1>6. QED
      BY <1>2, <1>3, <1>4, <1>5 DEF Arrive

\* A read or heavy read is given every healthy node, once each, from any
\* round-robin start (router.rs:123-140, 158-168).
THEOREM EveryHealthyNodeIsPlanned == Spec => PlansAreComplete
<1> DEFINE Complete ==
      \A r \in Requests : at[r] = "new" /\ at'[r] = "trying" =>
        /\ \A i, j \in DOMAIN plan'[r] : plan'[r][i] = plan'[r][j] => i = j
        /\ {plan'[r][i] : i \in DOMAIN plan'[r]} = {n \in Nodes : Healthy(n)}
<1>1. ASSUME Inv, [Next]_vars PROVE [Complete]_vars
  <2>1. SUFFICES ASSUME Next, NEW r \in Requests, at[r] = "new", at'[r] = "trying"
                 PROVE  /\ \A i, j \in DOMAIN plan'[r] : plan'[r][i] = plan'[r][j] => i = j
                        /\ {plan'[r][i] : i \in DOMAIN plan'[r]} = {n \in Nodes : Healthy(n)}
        BY <1>1
  <2>2. OnceEach(plan'[r], Cardinality(HealthyNodes), HealthyNodes)
        BY <1>1, <2>1, PlanIsComplete
  <2>3. QED
        BY <2>2, Members DEF HealthyNodes
<1>2. QED
      BY InitInv, NextInv, <1>1, PTL DEF Spec, PlansAreComplete

\* A fan-out runs to its end at each target (router.rs:89-102): no step of the
\* handler, of another target or of the client takes a leg back.
THEOREM FanOutIsNeverTakenBack == Spec => FanOutReachesAll
<1> DEFINE Runs ==
      \A r \in Requests, n \in Nodes :
         kind[r] = "send" /\ leg[r][n] \in {"asking", "body"}
           => leg'[r][n] \in {"asking", "body"} \cup Finished
<1>1. ASSUME Inv, [Next]_vars PROVE Runs
  <2>1. SUFFICES ASSUME NEW r \in Requests, NEW n \in Nodes, kind[r] = "send",
                        leg[r][n] \in {"asking", "body"}, leg' # leg
                 PROVE  leg'[r][n] \in {"asking", "body"} \cup Finished
        OBVIOUS
  <2>2. TypeOK /\ ReqInv(r)
        BY <1>1 DEF Inv
  <2>3. PICK q \in Requests : Step(q)
        BY <1>1, <2>1 DEF Next, vars, SetStatus, Step
  <2>4. CASE q # r
        BY <2>1, <2>2, <2>3, <2>4, OthersSame DEF Same, Step
  <2>5. CASE q = r
    <3>1. at[r] \notin {"new", "trying"}
          BY <2>1, <2>2 DEF ReqInv, Fresh, Phase
    <3>2. ~Arrive(r)
          BY <3>1 DEF Arrive, ForwardRead, ForwardHeavy, FanOut, Unrouted, Try
    <3>3. ~Handle(r) /\ ~ClientLeaves(r)
          BY <2>1, <3>1 DEF Handle, TakeAnswer, TryNext, AllFailed, FanOutRecv, FanOutFailed,
                            ClientLeaves
    <3>4. PICK m \in Nodes : Ask(r, m) \/ BodyComplete(r, m) \/ BodyFails(r, m)
          BY <2>3, <2>5, <3>2, <3>3 DEF Step
    <3>5. PICK to \in {"body"} \cup Finished : leg' = [leg EXCEPT ![r][m] = to]
          BY <3>4 DEF Ask, HeadArrives, AskFails, BodyComplete, BodyFails, LegTo, Finished
    <3>6. QED
          BY <2>1, <2>2, <3>5 DEF TypeOK
  <2>6. QED
        BY <2>4, <2>5
<1>2. QED
      BY InitInv, NextInv, <1>1, PTL DEF Spec, FanOutReachesAll

\* The state of any number of requests keeps its types.
THEOREM RouterTypeCorrect == Spec => []TypeOK
<1>1. Inv => TypeOK
      BY DEF Inv
<1>2. QED
      BY InitInv, NextInv, <1>1, PTL DEF Spec

-----------------------------------------------------------------------------
(* The pooled channels.                                                     *)

PoolInv == PoolTypeOK /\ OwnerHoldsFlag /\ SingleConnector

LEMMA InitPool == PoolInit => PoolInv
  BY DEF PoolInit, PoolInv, PoolTypeOK, OwnerHoldsFlag, SingleConnector,
         Owning, Places, Outcomes

LEMMA NextPool == PoolInv /\ [PoolNext]_poolVars => PoolInv'
<1> SUFFICES ASSUME PoolInv, [PoolNext]_poolVars PROVE PoolInv'
    OBVIOUS
<1> USE DEF PoolInv, PoolTypeOK, OwnerHoldsFlag, SingleConnector, Owning,
            Places, Outcomes, Goto, Return
<1>1. CASE UNCHANGED poolVars
      BY <1>1 DEF poolVars
<1>2. ASSUME NEW t \in Tasks, GetCached(t) \/ GetUncached(t) PROVE PoolInv'
      BY <1>2 DEF GetCached, GetUncached
<1>3. ASSUME NEW t \in Tasks, WinFlag(t) PROVE PoolInv'
      \* nobody owns a clear flag, so t becomes its only owner
      BY <1>3 DEF WinFlag
<1>4. ASSUME NEW t \in Tasks, LoseFlag(t) \/ CreateNotified(t) PROVE PoolInv'
      BY <1>4 DEF LoseFlag, CreateNotified
<1>5. ASSUME NEW t \in Tasks, LoadAfterWake(t) \/ WaitTimeout(t) PROVE PoolInv'
      BY <1>5 DEF LoadAfterWake, WaitTimeout
<1>6. ASSUME NEW t \in Tasks, ConnectOk(t) PROVE PoolInv'
      BY <1>6 DEF ConnectOk
<1>7. ASSUME NEW t \in Tasks, ConnectErr(t) \/ ClearFlag(t) PROVE PoolInv'
      \* t was the only owner, so clearing the flag leaves no owner behind
      BY <1>7 DEF ConnectErr, ClearFlag
<1>8. ASSUME NEW t \in Tasks, NotifyWaiters(t) PROVE PoolInv'
      BY <1>8 DEF NotifyWaiters
<1>9. ASSUME NEW t \in Tasks, Cancel(t) \/ Invalidate(t) PROVE PoolInv'
      BY <1>9 DEF Cancel, Invalidate
<1>10. QED
      BY <1>1, <1>2, <1>3, <1>4, <1>5, <1>6, <1>7, <1>8, <1>9 DEF PoolNext

\* Every reachable state is well typed.
THEOREM ChannelTypeCorrect == PoolSpec => []PoolTypeOK
<1>1. PoolInv => PoolTypeOK
      BY DEF PoolInv
<1>2. QED
      BY InitPool, NextPool, <1>1, PTL DEF PoolSpec

\* At most one task of any number connects at a time (grpc_pool.rs:51-56).
THEOREM OneConnector == PoolSpec => []SingleConnector
<1>1. PoolInv => SingleConnector
      BY DEF PoolInv
<1>2. QED
      BY InitPool, NextPool, <1>1, PTL DEF PoolSpec

-----------------------------------------------------------------------------
(* The health checker, with the nodes and the statuses of the router.       *)

\* The counters are the lengths of the runs that end a history, up to Cap.
Counted(h, x, o) == \A k \in 1..Cap : RunUpTo(h, Len(h), k, o) <=> x >= k

Tallied ==
    \A n \in Observed : Len(outcomes[n]) <= MaxHistory =>
        /\ Counted(outcomes[n], failures[n], "failed")
        /\ Counted(outcomes[n], successes[n], "ok")

CheckerInv == CheckerTypeOK /\ Tallied /\ DownIffEjected

-----------------------------------------------------------------------------
(* One more outcome in a history.                                           *)

LEMMA Thresholds ==
  /\ Cap \in Nat /\ UnhealthyThreshold \in 0..Cap /\ HealthyThreshold \in 0..Cap
  /\ AtLeastOne(UnhealthyThreshold) \in Nat \ {0}
  /\ AtLeastOne(HealthyThreshold) \in Nat \ {0}
  BY HealthAssumption DEF Cap, AtLeastOne

LEMMA Appended ==
  ASSUME NEW h \in Seq({"ok", "failed"}), NEW o \in {"ok", "failed"}
  PROVE  /\ Append(h, o) \in Seq({"ok", "failed"}) /\ Len(h) \in Nat
         /\ Len(Append(h, o)) = Len(h) + 1 /\ Append(h, o)[Len(h) + 1] = o
         /\ \A i \in 1..Len(h) : Append(h, o)[i] = h[i]
OBVIOUS

\* A run that ended before is as long as it was.
LEMMA EarlierRun ==
  ASSUME NEW h \in Seq({"ok", "failed"}), NEW o \in {"ok", "failed"},
         NEW i \in 1..Len(h), NEW k \in Nat, NEW p
  PROVE  RunUpTo(Append(h, o), i, k, p) <=> RunUpTo(h, i, k, p)
<1>1. Len(h) \in Nat /\ \A j \in 1..Len(h) : Append(h, o)[j] = h[j]
      BY Appended
<1>2. i >= k => \A j \in (i - k + 1)..i : j \in 1..Len(h)
      BY <1>1
<1>3. QED
      BY <1>1, <1>2 DEF RunUpTo

\* The last run grows by one, or ends.
LEMMA LastRun ==
  ASSUME NEW h \in Seq({"ok", "failed"}), NEW o \in {"ok", "failed"}, NEW k \in Nat \ {0}, NEW p
  PROVE  /\ p # o => ~RunUpTo(Append(h, o), Len(h) + 1, k, p)
         /\ RunUpTo(Append(h, o), Len(h) + 1, k, o) <=> RunUpTo(h, Len(h), k - 1, o)
<1> DEFINE L == Len(h)
           g == Append(h, o)
<1>1. L \in Nat /\ g[L + 1] = o /\ \A j \in 1..L : g[j] = h[j]
      BY Appended
<1> HIDE DEF L, g
<1>2. L + 1 \in (L + 1 - k + 1)..(L + 1)
      BY <1>1
<1>3. p # o => ~RunUpTo(g, L + 1, k, p)
      BY <1>1, <1>2 DEF RunUpTo
<1>4. ASSUME RunUpTo(g, L + 1, k, o) PROVE RunUpTo(h, L, k - 1, o)
  <2>1. L >= k - 1 /\ \A j \in (L + 1 - k + 1)..(L + 1) : g[j] = o
        BY <1>1, <1>4 DEF RunUpTo
  <2>2. ASSUME NEW j \in (L - (k - 1) + 1)..L PROVE h[j] = o
    <3>1. j \in (L + 1 - k + 1)..(L + 1) /\ j \in 1..L
          BY <1>1, <2>1, <2>2
    <3>2. QED
          BY <1>1, <2>1, <3>1
  <2>3. QED
        BY <2>1, <2>2 DEF RunUpTo
<1>5. ASSUME RunUpTo(h, L, k - 1, o) PROVE RunUpTo(g, L + 1, k, o)
  <2>1. L >= k - 1 /\ \A j \in (L - (k - 1) + 1)..L : h[j] = o
        BY <1>1, <1>5 DEF RunUpTo
  <2>2. ASSUME NEW j \in (L + 1 - k + 1)..(L + 1) PROVE g[j] = o
    <3>1. CASE j = L + 1
          BY <1>1, <3>1
    <3>2. CASE j # L + 1
      <4>1. j \in (L - (k - 1) + 1)..L /\ j \in 1..L
            BY <1>1, <2>1, <2>2, <3>2
      <4>2. QED
            BY <1>1, <2>1, <4>1
    <3>3. QED
          BY <3>1, <3>2
  <2>3. QED
        BY <1>1, <2>1, <2>2 DEF RunUpTo
<1>6. QED
      BY <1>3, <1>4, <1>5 DEF L, g

LEMMA EmptyRun ==
  ASSUME NEW h \in Seq({"ok", "failed"}), NEW o
  PROVE  RunUpTo(h, Len(h), 0, o)
<1>1. Len(h) \in Nat
      OBVIOUS
<1>2. QED
      BY <1>1 DEF RunUpTo

\* A counter of outcomes o follows the run of o at the end.
LEMMA CountsOn ==
  ASSUME NEW h \in Seq({"ok", "failed"}), NEW o \in {"ok", "failed"},
         NEW x \in 0..Cap, Counted(h, x, o)
  PROVE  Counted(Append(h, o), Count(x), o)
<1>1. Cap \in Nat
      BY Thresholds
<1>2. SUFFICES ASSUME NEW k \in 1..Cap
               PROVE  RunUpTo(Append(h, o), Len(h) + 1, k, o) <=> Count(x) >= k
      BY Appended DEF Counted
<1>3. RunUpTo(Append(h, o), Len(h) + 1, k, o) <=> RunUpTo(h, Len(h), k - 1, o)
      BY <1>1, LastRun
<1>4. CASE k = 1
  <2>1. Count(x) >= 1
        BY <1>1, <1>4 DEF Count
  <2>2. k - 1 = 0
        BY <1>4
  <2>3. QED
        BY <1>3, <1>4, <2>1, <2>2, EmptyRun
<1>5. CASE k # 1
  <2>1. k - 1 \in 1..Cap
        BY <1>1, <1>5
  <2>2. RunUpTo(h, Len(h), k - 1, o) <=> x >= k - 1
        BY <2>1 DEF Counted
  <2>3. Count(x) >= k <=> x >= k - 1
        BY <1>1 DEF Count
  <2>4. QED
        BY <1>3, <2>2, <2>3
<1>6. QED
      BY <1>4, <1>5

LEMMA CountsAgain ==
  ASSUME NEW h \in Seq({"ok", "failed"}), NEW o \in {"ok", "failed"},
         NEW p, p # o
  PROVE  Counted(Append(h, o), 0, p)
<1>1. Cap \in Nat
      BY Thresholds
<1>2. SUFFICES ASSUME NEW k \in 1..Cap
               PROVE  RunUpTo(Append(h, o), Len(h) + 1, k, p) <=> 0 >= k
      BY Appended DEF Counted
<1>3. ~RunUpTo(Append(h, o), Len(h) + 1, k, p)
      BY <1>1, LastRun
<1>4. QED
      BY <1>1, <1>3

\* What the code compares with a threshold is a run of at least one.
LEMMA Reaches ==
  ASSUME NEW h \in Seq({"ok", "failed"}), NEW o \in {"ok", "failed"},
         NEW x \in 0..Cap, Counted(h, x, o), NEW t \in 0..Cap
  PROVE  Count(x) >= t <=> RunUpTo(Append(h, o), Len(h) + 1, AtLeastOne(t), o)
<1>1. Cap \in Nat
      BY Thresholds
<1>2. CASE t = 0
  <2>1. Count(x) >= 0
        BY <1>1 DEF Count
  <2>2. AtLeastOne(t) = 1
        BY <1>2 DEF AtLeastOne
  <2>3. RunUpTo(Append(h, o), Len(h) + 1, 1, o) <=> RunUpTo(h, Len(h), 1 - 1, o)
        BY LastRun
  <2>4. RunUpTo(h, Len(h), 1 - 1, o)
        BY EmptyRun
  <2>5. QED
        BY <1>2, <2>1, <2>2, <2>3, <2>4
<1>3. CASE t # 0
  <2>1. t \in 1..Cap /\ AtLeastOne(t) = t
        BY <1>1, <1>3 DEF AtLeastOne
  <2>2. Counted(Append(h, o), Count(x), o)
        BY CountsOn
  <2>3. Len(Append(h, o)) = Len(h) + 1
        BY Appended
  <2>4. RunUpTo(Append(h, o), Len(h) + 1, t, o) <=> Count(x) >= t
        BY <2>1, <2>2, <2>3 DEF Counted
  <2>5. QED
        BY <2>1, <2>4
<1>4. QED
      BY <1>2, <1>3

\* A good probe ends an ejection when it completes a run, and begins none.
LEMMA EjectedThenOk ==
  ASSUME NEW h \in Seq({"ok", "failed"})
  PROVE  Ejected(Append(h, "ok")) <=>
            /\ Ejected(h)
            /\ ~RunUpTo(Append(h, "ok"), Len(h) + 1, AtLeastOne(HealthyThreshold), "ok")
<1> DEFINE L == Len(h)
           g == Append(h, "ok")
           U == AtLeastOne(UnhealthyThreshold)
           H == AtLeastOne(HealthyThreshold)
<1>1. L \in Nat /\ Len(g) = L + 1 /\ U \in Nat \ {0} /\ H \in Nat \ {0}
      BY Appended, Thresholds
<1>2. ~RunUpTo(g, L + 1, U, "failed")
      BY <1>1, LastRun
<1>3. \A i \in 1..L : /\ RunUpTo(g, i, U, "failed") <=> RunUpTo(h, i, U, "failed")
                      /\ RunUpTo(g, i, H, "ok") <=> RunUpTo(h, i, H, "ok")
      BY <1>1, EarlierRun
<1>4. Ejected(h) <=> \E i \in 1..L : /\ RunUpTo(h, i, U, "failed")
                                     /\ ~\E k \in (i + 1)..L : RunUpTo(h, k, H, "ok")
      BY DEF Ejected
<1>5. Ejected(g) <=> \E i \in 1..(L + 1) : /\ RunUpTo(g, i, U, "failed")
                                           /\ ~\E k \in (i + 1)..(L + 1) : RunUpTo(g, k, H, "ok")
      BY <1>1 DEF Ejected
<1> HIDE DEF L, g, U, H
<1>6. ASSUME Ejected(g) PROVE Ejected(h) /\ ~RunUpTo(g, L + 1, H, "ok")
  <2>1. PICK i \in 1..(L + 1) : /\ RunUpTo(g, i, U, "failed")
                                /\ ~\E k \in (i + 1)..(L + 1) : RunUpTo(g, k, H, "ok")
        BY <1>5, <1>6
  <2>2. i \in 1..L
        BY <1>1, <1>2, <2>1
  <2>3. L + 1 \in (i + 1)..(L + 1)
        BY <1>1, <2>2
  <2>4. \A k \in (i + 1)..L : k \in 1..L /\ k \in (i + 1)..(L + 1)
        BY <1>1, <2>2
  <2>5. QED
        BY <1>3, <1>4, <2>1, <2>2, <2>3, <2>4
<1>7. ASSUME Ejected(h), ~RunUpTo(g, L + 1, H, "ok") PROVE Ejected(g)
  <2>1. PICK i \in 1..L : /\ RunUpTo(h, i, U, "failed")
                          /\ ~\E k \in (i + 1)..L : RunUpTo(h, k, H, "ok")
        BY <1>4, <1>7
  <2>2. i \in 1..(L + 1) /\ RunUpTo(g, i, U, "failed")
        BY <1>1, <1>3, <2>1
  <2>3. ASSUME NEW k \in (i + 1)..(L + 1) PROVE ~RunUpTo(g, k, H, "ok")
    <3>1. CASE k = L + 1
          BY <1>7, <3>1
    <3>2. CASE k # L + 1
      <4>1. k \in (i + 1)..L /\ k \in 1..L
            BY <1>1, <2>1, <2>3, <3>2
      <4>2. QED
            BY <1>3, <2>1, <4>1
    <3>3. QED
          BY <3>1, <3>2
  <2>4. QED
        BY <1>5, <2>2, <2>3
<1>8. QED
      BY <1>6, <1>7 DEF L, g, H

\* A failed probe begins an ejection when it completes a run, and ends none.
LEMMA EjectedThenFailed ==
  ASSUME NEW h \in Seq({"ok", "failed"})
  PROVE  Ejected(Append(h, "failed")) <=>
            \/ Ejected(h)
            \/ RunUpTo(Append(h, "failed"), Len(h) + 1, AtLeastOne(UnhealthyThreshold), "failed")
<1> DEFINE L == Len(h)
           g == Append(h, "failed")
           U == AtLeastOne(UnhealthyThreshold)
           H == AtLeastOne(HealthyThreshold)
<1>1. L \in Nat /\ Len(g) = L + 1 /\ U \in Nat \ {0} /\ H \in Nat \ {0}
      BY Appended, Thresholds
<1>2. ~RunUpTo(g, L + 1, H, "ok")
      BY <1>1, LastRun
<1>3. \A i \in 1..L : /\ RunUpTo(g, i, U, "failed") <=> RunUpTo(h, i, U, "failed")
                      /\ RunUpTo(g, i, H, "ok") <=> RunUpTo(h, i, H, "ok")
      BY <1>1, EarlierRun
<1>4. Ejected(h) <=> \E i \in 1..L : /\ RunUpTo(h, i, U, "failed")
                                     /\ ~\E k \in (i + 1)..L : RunUpTo(h, k, H, "ok")
      BY DEF Ejected
<1>5. Ejected(g) <=> \E i \in 1..(L + 1) : /\ RunUpTo(g, i, U, "failed")
                                           /\ ~\E k \in (i + 1)..(L + 1) : RunUpTo(g, k, H, "ok")
      BY <1>1 DEF Ejected
<1> HIDE DEF L, g, U, H
<1>6. ASSUME Ejected(g), ~RunUpTo(g, L + 1, U, "failed") PROVE Ejected(h)
  <2>1. PICK i \in 1..(L + 1) : /\ RunUpTo(g, i, U, "failed")
                                /\ ~\E k \in (i + 1)..(L + 1) : RunUpTo(g, k, H, "ok")
        BY <1>5, <1>6
  <2>2. i \in 1..L
        BY <1>1, <1>6, <2>1
  <2>3. \A k \in (i + 1)..L : k \in 1..L /\ k \in (i + 1)..(L + 1)
        BY <1>1, <2>2
  <2>4. QED
        BY <1>3, <1>4, <2>1, <2>2, <2>3
<1>7. ASSUME Ejected(h) PROVE Ejected(g)
  <2>1. PICK i \in 1..L : /\ RunUpTo(h, i, U, "failed")
                          /\ ~\E k \in (i + 1)..L : RunUpTo(h, k, H, "ok")
        BY <1>4, <1>7
  <2>2. i \in 1..(L + 1) /\ RunUpTo(g, i, U, "failed")
        BY <1>1, <1>3, <2>1
  <2>3. ASSUME NEW k \in (i + 1)..(L + 1) PROVE ~RunUpTo(g, k, H, "ok")
    <3>1. CASE k = L + 1
          BY <1>2, <3>1
    <3>2. CASE k # L + 1
      <4>1. k \in (i + 1)..L /\ k \in 1..L
            BY <1>1, <2>1, <2>3, <3>2
      <4>2. QED
            BY <1>3, <2>1, <4>1
    <3>3. QED
          BY <3>1, <3>2
  <2>4. QED
        BY <1>5, <2>2, <2>3
<1>8. ASSUME RunUpTo(g, L + 1, U, "failed") PROVE Ejected(g)
  <2>1. L + 1 \in 1..(L + 1) /\ (L + 1 + 1)..(L + 1) = {}
        BY <1>1
  <2>2. QED
        BY <1>5, <1>8, <2>1
<1>9. QED
      BY <1>6, <1>7, <1>8 DEF L, g, U

-----------------------------------------------------------------------------
(* The steps.                                                               *)

LEMMA InitChecker == ASSUME CheckerInit PROVE CheckerInv
<1>1. Cap \in Nat /\ N \in Nat /\ Observed \subseteq Nodes
      BY Thresholds, HealthAssumption, NodesAssumption
<1>2. CheckerTypeOK
  <2>1. /\ status \in [Nodes -> Statuses] /\ lastSlot \in [Nodes -> Nat]
        /\ failures \in [Nodes -> 0..Cap] /\ successes \in [Nodes -> 0..Cap]
        /\ maxSlot \in Nat /\ cursor \in 1..(N + 1) /\ step \in {"rpc", "iris", "grpc"}
        /\ last \in [Nodes -> {"none", "ok", "failed"}]
        BY <1>1 DEF CheckerInit, Statuses
  <2>2. /\ blocked \in [Nodes -> BOOLEAN] /\ irisOk \in [Nodes -> BOOLEAN]
        /\ grpcOk \in [Nodes -> BOOLEAN]
        BY DEF CheckerInit
  <2>3. outcomes \in [Nodes -> Seq({"ok", "failed"})]
        BY DEF CheckerInit
  <2>4. QED
        BY <2>1, <2>2, <2>3 DEF CheckerTypeOK
<1>3. \A n \in Observed : /\ outcomes[n] = <<>> /\ failures[n] = 0 /\ successes[n] = 0
                          /\ status[n] = "healthy"
      BY <1>1 DEF CheckerInit
<1>4. Tallied
  <2>1. \A k \in 1..Cap : ~(0 >= k)
        BY <1>1
  <2>2. QED
        BY <1>3, <2>1 DEF Tallied, Counted, RunUpTo
<1>5. DownIffEjected
      BY <1>3 DEF DownIffEjected, Ejected
<1>6. QED
      BY <1>2, <1>4, <1>5 DEF CheckerInv

LEMMA CountType ==
  ASSUME NEW x \in 0..Cap
  PROVE  Count(x) \in 0..Cap
<1>1. Cap \in Nat
      BY Thresholds
<1>2. QED
      BY <1>1 DEF Count

LEMMA RecordType ==
  ASSUME CheckerTypeOK, NEW n \in Nodes, NEW o \in {"ok", "failed"}, Record(n, o)
  PROVE  /\ last' \in [Nodes -> {"none", "ok", "failed"}]
         /\ outcomes' \in [Nodes -> Seq({"ok", "failed"})]
         /\ n \in Observed /\ Len(outcomes[n]) <= MaxHistory =>
              outcomes'[n] = Append(outcomes[n], o)
         /\ n \in Observed /\ ~(Len(outcomes[n]) <= MaxHistory) => outcomes'[n] = outcomes[n]
         /\ \A m \in Nodes \ {n} : outcomes'[m] = outcomes[m]
<1>1. /\ last \in [Nodes -> {"none", "ok", "failed"}]
      /\ outcomes \in [Nodes -> Seq({"ok", "failed"})]
      BY DEF CheckerTypeOK
<1>2. outcomes[n] \in Seq({"ok", "failed"})
      BY <1>1
<1> DEFINE new == IF n \in Observed /\ Len(outcomes[n]) <= MaxHistory
                  THEN Append(outcomes[n], o) ELSE outcomes[n]
<1>3. new \in Seq({"ok", "failed"})
      BY <1>2, Appended
<1>4. outcomes' = [outcomes EXCEPT ![n] = new] /\ last' = [last EXCEPT ![n] = o]
      BY <1>1 DEF Record
<1>5. outcomes' \in [Nodes -> Seq({"ok", "failed"})] /\ outcomes'[n] = new
      BY <1>1, <1>3, <1>4
<1>6. \A m \in Nodes \ {n} : outcomes'[m] = outcomes[m]
      BY <1>1, <1>4
<1>7. last' \in [Nodes -> {"none", "ok", "failed"}]
      BY <1>1, <1>4
<1>8. QED
      BY <1>5, <1>6, <1>7

\* What the invariant says of one node.
Sound(n) ==
    Len(outcomes[n]) <= MaxHistory =>
        /\ Counted(outcomes[n], failures[n], "failed")
        /\ Counted(outcomes[n], successes[n], "ok")
        /\ status[n] = "down" <=> Ejected(outcomes[n])

LEMMA SoundParts == (Tallied /\ DownIffEjected) <=> \A n \in Observed : Sound(n)
  BY DEF Tallied, DownIffEjected, Sound

LEMMA SoundKept ==
  ASSUME NEW n, Sound(n), outcomes'[n] = outcomes[n], failures'[n] = failures[n],
         successes'[n] = successes[n], status'[n] = "down" <=> status[n] = "down"
  PROVE  Sound(n)'
  BY DEF Sound, Counted

LEMMA HealthyInv ==
  ASSUME CheckerInv, NEW n \in Nodes, NEW slot \in Slots, NEW slow \in BOOLEAN,
         ProbeHealthy(n, slot, slow)
  PROVE  CheckerInv'
<1>0. /\ CheckerTypeOK /\ (\A m \in Observed : Sound(m)) /\ Observed \subseteq Nodes
      /\ Cap \in Nat /\ slot \in Nat /\ HealthyThreshold \in 0..Cap
      BY SoundParts, Thresholds, HealthAssumption, NodesAssumption DEF CheckerInv
<1>1. /\ failures \in [Nodes -> 0..Cap] /\ successes \in [Nodes -> 0..Cap]
      /\ status \in [Nodes -> Statuses]
      BY <1>0 DEF CheckerTypeOK
<1> DEFINE restored == Restored(status[n], Count(successes[n]))
           new == IF slow /\ restored = "healthy" THEN "degraded" ELSE restored
<1>2. /\ failures' = [failures EXCEPT ![n] = 0]
      /\ successes' = [successes EXCEPT ![n] = Count(@)]
      BY DEF ProbeHealthy, record_success
<1>3. /\ successes'[n] = Count(successes[n]) /\ failures'[n] = 0
      /\ Count(successes[n]) \in 0..Cap
      BY <1>1, <1>2, CountType
<1>4. status' = [status EXCEPT ![n] = new]
      BY <1>3 DEF ProbeHealthy
<1>5. /\ new \in Statuses
      /\ new = "down" <=> status[n] = "down" /\ ~(Count(successes[n]) >= HealthyThreshold)
      BY <1>1 DEF Restored, Statuses
<1> HIDE DEF new
<1>6. Record(n, "ok")
      BY DEF ProbeHealthy
<1>7. CheckerTypeOK'
  <2>1. status' \in [Nodes -> Statuses]
        BY <1>1, <1>4, <1>5
  <2>2. failures' \in [Nodes -> 0..Cap] /\ successes' \in [Nodes -> 0..Cap]
        BY <1>0, <1>1, <1>2, <1>3
  <2>3. /\ lastSlot' \in [Nodes -> Nat] /\ maxSlot' \in Nat
        BY <1>0 DEF CheckerTypeOK, ProbeHealthy
  <2>4. blocked' \in [Nodes -> BOOLEAN]
        BY <1>0 DEF CheckerTypeOK, ProbeHealthy
  <2>5. step' = "iris" /\ irisOk' = irisOk /\ grpcOk' = grpcOk /\ cursor' = cursor
        BY DEF ProbeHealthy
  <2>6. /\ last' \in [Nodes -> {"none", "ok", "failed"}]
        /\ outcomes' \in [Nodes -> Seq({"ok", "failed"})]
        BY <1>0, <1>6, RecordType
  <2>7. QED
        BY <1>0, <2>1, <2>2, <2>3, <2>4, <2>5, <2>6 DEF CheckerTypeOK
<1>8. ASSUME NEW m \in Observed, m # n PROVE Sound(m)'
  <2>1. outcomes'[m] = outcomes[m]
        BY <1>0, <1>6, <1>8, RecordType
  <2>2. failures'[m] = failures[m] /\ successes'[m] = successes[m] /\ status'[m] = status[m]
        BY <1>0, <1>1, <1>2, <1>4, <1>8
  <2>3. QED
        BY <1>0, <2>1, <2>2, SoundKept
<1>9. ASSUME n \in Observed PROVE Sound(n)'
  <2> DEFINE h == outcomes[n]
  <2>1. h \in Seq({"ok", "failed"}) /\ Len(h) \in Nat /\ MaxHistory \in Nat
        BY <1>0, HealthAssumption, NodesAssumption DEF CheckerTypeOK
  <2>2. CASE Len(h) <= MaxHistory
    <3>1. outcomes'[n] = Append(h, "ok")
          BY <1>0, <1>6, <1>9, <2>2, RecordType
    <3>2. Counted(h, successes[n], "ok") /\ (status[n] = "down" <=> Ejected(h))
          BY <1>0, <1>9, <2>2 DEF Sound
    <3> HIDE DEF h
    <3>3. Counted(Append(h, "ok"), Count(successes[n]), "ok")
          BY <1>1, <2>1, <3>2, CountsOn
    <3>4. Counted(Append(h, "ok"), 0, "failed")
          BY <2>1, CountsAgain
    <3>5. Count(successes[n]) >= HealthyThreshold <=>
             RunUpTo(Append(h, "ok"), Len(h) + 1, AtLeastOne(HealthyThreshold), "ok")
          BY <1>0, <1>1, <2>1, <3>2, Reaches
    <3>6. status'[n] = "down" <=> Ejected(Append(h, "ok"))
      <4>1. status'[n] = new
            BY <1>1, <1>4
      <4>2. Ejected(Append(h, "ok")) <=>
               /\ Ejected(h)
               /\ ~RunUpTo(Append(h, "ok"), Len(h) + 1, AtLeastOne(HealthyThreshold), "ok")
            BY <2>1, EjectedThenOk
      <4>3. QED
            BY <1>5, <3>2, <3>5, <4>1, <4>2
    <3>7. QED
          BY <1>3, <3>1, <3>3, <3>4, <3>6 DEF Sound, Counted
  <2>3. CASE ~(Len(h) <= MaxHistory)
        BY <1>0, <1>6, <1>9, <2>3, RecordType DEF Sound
  <2>4. QED
        BY <2>2, <2>3
<1>10. QED
      BY <1>7, <1>8, <1>9, SoundParts DEF CheckerInv, Tallied, DownIffEjected, Sound

LEMMA FailedInv ==
  ASSUME CheckerInv, NEW n \in Nodes, NEW isBlocked \in BOOLEAN,
         ProbeFailed(n, isBlocked)
  PROVE  CheckerInv'
<1>0. /\ CheckerTypeOK /\ (\A m \in Observed : Sound(m)) /\ Observed \subseteq Nodes
      /\ Cap \in Nat /\ UnhealthyThreshold \in 0..Cap
      BY SoundParts, Thresholds, HealthAssumption, NodesAssumption DEF CheckerInv
<1>1. /\ failures \in [Nodes -> 0..Cap] /\ successes \in [Nodes -> 0..Cap]
      /\ status \in [Nodes -> Statuses]
      BY <1>0 DEF CheckerTypeOK
<1> DEFINE new == IF Count(failures[n]) >= UnhealthyThreshold THEN "down" ELSE status[n]
<1>2. /\ failures' = [failures EXCEPT ![n] = Count(@)]
      /\ successes' = [successes EXCEPT ![n] = 0]
      BY DEF ProbeFailed, record_failure
<1>3. /\ failures'[n] = Count(failures[n]) /\ successes'[n] = 0
      /\ Count(failures[n]) \in 0..Cap
      BY <1>1, <1>2, CountType
<1>4. status' = [status EXCEPT ![n] = new]
      BY <1>1, <1>3 DEF ProbeFailed
<1>5. /\ new \in Statuses
      /\ new = "down" <=> (status[n] = "down" \/ Count(failures[n]) >= UnhealthyThreshold)
      BY <1>1 DEF Statuses
<1> HIDE DEF new
<1>6. Record(n, "failed")
      BY DEF ProbeFailed
<1>7. CheckerTypeOK'
  <2>1. status' \in [Nodes -> Statuses]
        BY <1>1, <1>4, <1>5
  <2>2. failures' \in [Nodes -> 0..Cap] /\ successes' \in [Nodes -> 0..Cap]
        BY <1>0, <1>1, <1>2, <1>3
  <2>3. blocked' \in [Nodes -> BOOLEAN]
        BY <1>0 DEF CheckerTypeOK, ProbeFailed
  <2>4. /\ step' = "iris" /\ irisOk' = irisOk /\ grpcOk' = grpcOk /\ cursor' = cursor
        /\ lastSlot' = lastSlot /\ maxSlot' = maxSlot
        BY DEF ProbeFailed
  <2>5. /\ last' \in [Nodes -> {"none", "ok", "failed"}]
        /\ outcomes' \in [Nodes -> Seq({"ok", "failed"})]
        BY <1>0, <1>6, RecordType
  <2>6. QED
        BY <1>0, <2>1, <2>2, <2>3, <2>4, <2>5 DEF CheckerTypeOK
<1>8. ASSUME NEW m \in Observed, m # n PROVE Sound(m)'
  <2>1. outcomes'[m] = outcomes[m]
        BY <1>0, <1>6, <1>8, RecordType
  <2>2. failures'[m] = failures[m] /\ successes'[m] = successes[m] /\ status'[m] = status[m]
        BY <1>0, <1>1, <1>2, <1>4, <1>8
  <2>3. QED
        BY <1>0, <2>1, <2>2, SoundKept
<1>9. ASSUME n \in Observed PROVE Sound(n)'
  <2> DEFINE h == outcomes[n]
  <2>1. h \in Seq({"ok", "failed"}) /\ Len(h) \in Nat /\ MaxHistory \in Nat
        BY <1>0, HealthAssumption, NodesAssumption DEF CheckerTypeOK
  <2>2. CASE Len(h) <= MaxHistory
    <3>1. outcomes'[n] = Append(h, "failed")
          BY <1>0, <1>6, <1>9, <2>2, RecordType
    <3>2. Counted(h, failures[n], "failed") /\ (status[n] = "down" <=> Ejected(h))
          BY <1>0, <1>9, <2>2 DEF Sound
    <3> HIDE DEF h
    <3>3. Counted(Append(h, "failed"), Count(failures[n]), "failed")
          BY <1>1, <2>1, <3>2, CountsOn
    <3>4. Counted(Append(h, "failed"), 0, "ok")
          BY <2>1, CountsAgain
    <3>5. Count(failures[n]) >= UnhealthyThreshold <=>
             RunUpTo(Append(h, "failed"), Len(h) + 1, AtLeastOne(UnhealthyThreshold), "failed")
          BY <1>0, <1>1, <2>1, <3>2, Reaches
    <3>6. status'[n] = "down" <=> Ejected(Append(h, "failed"))
      <4>1. status'[n] = new
            BY <1>1, <1>4
      <4>2. Ejected(Append(h, "failed")) <=>
               \/ Ejected(h)
               \/ RunUpTo(Append(h, "failed"), Len(h) + 1, AtLeastOne(UnhealthyThreshold), "failed")
            BY <2>1, EjectedThenFailed
      <4>3. QED
            BY <1>5, <3>2, <3>5, <4>1, <4>2
    <3>7. QED
          BY <1>3, <3>1, <3>3, <3>4, <3>6 DEF Sound, Counted
  <2>3. CASE ~(Len(h) <= MaxHistory)
        BY <1>0, <1>6, <1>9, <2>3, RecordType DEF Sound
  <2>4. QED
        BY <2>2, <2>3
<1>10. QED
      BY <1>7, <1>8, <1>9, SoundParts DEF CheckerInv, Tallied, DownIffEjected, Sound

LEMMA NextChecker == ASSUME CheckerInv, [CheckerNext]_checkerVars PROVE CheckerInv'
<1>0. /\ CheckerTypeOK /\ (\A m \in Observed : Sound(m)) /\ Observed \subseteq Nodes /\ N \in Nat
      /\ Nodes = 1..N
      BY SoundParts, HealthAssumption, NodesAssumption DEF CheckerInv, Nodes
<1>1. CASE UNCHANGED checkerVars
      BY <1>0, <1>1 DEF CheckerInv, CheckerTypeOK, Tallied, DownIffEjected, checkerVars, counts,
                        histories
<1>2. ASSUME NEW n \in Nodes, NEW ok \in BOOLEAN, ProbeIris(n, ok) PROVE CheckerInv'
  <2>1. irisOk' \in [Nodes -> BOOLEAN]
        BY <1>0, <1>2 DEF CheckerTypeOK, ProbeIris
  <2>2. step' \in {"rpc", "iris", "grpc"}
        BY <1>2 DEF ProbeIris
  <2>3. QED
        BY <1>0, <1>2, <2>1, <2>2 DEF CheckerInv, CheckerTypeOK, Tallied, DownIffEjected,
                                      ProbeIris, counts, histories
<1>3. ASSUME NEW n \in Nodes, NEW p \in BOOLEAN, NEW s \in BOOLEAN, ProbeGrpc(n, p, s)
      PROVE  CheckerInv'
  <2>1. grpcOk' \in [Nodes -> BOOLEAN]
        BY <1>0, <1>3 DEF CheckerTypeOK, ProbeGrpc
  <2>2. step' \in {"rpc", "iris", "grpc"} /\ cursor' \in 1..(N + 1)
        BY <1>0, <1>3 DEF ProbeGrpc
  <2>3. QED
        BY <1>0, <1>3, <2>1, <2>2 DEF CheckerInv, CheckerTypeOK, Tallied, DownIffEjected,
                                      ProbeGrpc, counts, histories
<1>4. CASE SlotDrift
  <2>1. status' = [n \in Nodes |-> IF Behind(n) THEN "degraded" ELSE status[n]]
        BY <1>4 DEF SlotDrift
  <2>2. /\ status' \in [Nodes -> Statuses]
        /\ \A n \in Nodes : status'[n] = "down" <=> status[n] = "down"
        BY <1>0, <2>1 DEF CheckerTypeOK, Statuses, Behind
  <2>3. /\ failures' = failures /\ successes' = successes /\ outcomes' = outcomes /\ last' = last
        /\ lastSlot' = lastSlot /\ blocked' = blocked /\ irisOk' = irisOk /\ grpcOk' = grpcOk
        /\ step' = step /\ cursor' = 1 /\ maxSlot' = 0
        BY <1>4 DEF SlotDrift, counts, histories
  <2>4. CheckerTypeOK'
        BY <1>0, <2>2, <2>3 DEF CheckerTypeOK
  <2>5. \A m \in Observed : Sound(m)'
        BY <1>0, <2>2, <2>3, SoundKept
  <2>6. QED
        BY <2>4, <2>5 DEF CheckerInv, Tallied, DownIffEjected, Sound
<1>5. QED
      BY <1>1, <1>2, <1>3, <1>4, HealthyInv, FailedInv DEF CheckerNext, Probe

\* The checker keeps its types for any thresholds and any nodes: no counter
\* passes the larger threshold.
THEOREM CheckerTypeCorrect == CheckerSpec => []CheckerTypeOK
<1>1. CheckerInit => CheckerInv
      BY InitChecker
<1>2. CheckerInv /\ [CheckerNext]_checkerVars => CheckerInv'
      BY NextChecker
<1>3. CheckerInv => CheckerTypeOK
      BY DEF CheckerInv
<1>4. QED
      BY <1>1, <1>2, <1>3, PTL DEF CheckerSpec

\* A node is down exactly when its probes, from the first one on, call for it
\* (health.rs:153-199, 245-259): for any thresholds, and histories of any
\* length, since Observed and MaxHistory are arbitrary.
THEOREM EjectAndRestore == CheckerSpec => []DownIffEjected
<1>1. CheckerInit => CheckerInv
      BY InitChecker
<1>2. CheckerInv /\ [CheckerNext]_checkerVars => CheckerInv'
      BY NextChecker
<1>3. CheckerInv => DownIffEjected
      BY DEF CheckerInv
<1>4. QED
      BY <1>1, <1>2, <1>3, PTL DEF CheckerSpec

-----------------------------------------------------------------------------
(* The router and the checker together, with one set of statuses: what the  *)
(* router does to a status by itself (SetStatus) is done by the checker.    *)

routerOwn == <<counter, kind, at, plan, place, leg, inbox, answer>>
checkerOwn == <<failures, successes, lastSlot, blocked, irisOk, grpcOk, maxSlot, cursor, step,
                last, outcomes>>

Routes == (\E r \in Requests : Step(r)) /\ UNCHANGED <<status, checkerOwn>>
Checks == CheckerNext /\ UNCHANGED routerOwn

Together == Init /\ CheckerInit /\ [][Routes \/ Checks]_<<vars, checkerOwn>>

BothInv == Inv /\ CheckerInv

\* The checker's steps are steps of the router, or of its environment.
LEMMA ChecksKeep ==
  ASSUME Inv, CheckerInv', UNCHANGED routerOwn
  PROVE  Inv'
<1>1. status' \in [Nodes -> Statuses]
      BY DEF CheckerInv, CheckerTypeOK, Nodes, Statuses
<1>2. TypeOK'
      BY <1>1 DEF Inv, TypeOK, routerOwn
<1>3. ASSUME NEW q \in Requests PROVE ReqInv(q)'
      BY SameKeeps DEF Inv, Same, routerOwn
<1>4. QED
      BY <1>2, <1>3 DEF Inv

LEMMA BothKept ==
  ASSUME BothInv, [Routes \/ Checks]_<<vars, checkerOwn>>
  PROVE  BothInv'
<1>1. CASE Routes
  <2>1. Inv'
        BY <1>1, NextInv DEF BothInv, Routes, Step, Next
  <2>2. UNCHANGED checkerVars
        BY <1>1 DEF Routes, checkerOwn, checkerVars, counts, histories
  <2>3. QED
        BY <2>1, <2>2, NextChecker DEF BothInv
<1>2. CASE Checks
  <2>1. CheckerInv'
        BY <1>2, NextChecker DEF BothInv, Checks
  <2>2. QED
        BY <1>2, <2>1, ChecksKeep DEF BothInv, Checks
<1>3. CASE UNCHANGED <<vars, checkerOwn>>
  <2>1. UNCHANGED checkerVars /\ UNCHANGED vars
        BY <1>3 DEF vars, checkerOwn, checkerVars, counts, histories
  <2>2. QED
        BY <2>1, NextInv, NextChecker DEF BothInv
<1>4. QED
      BY <1>1, <1>2, <1>3

\* A read that comes in is planned for exactly the nodes that their probes
\* have not ejected, from the first probe on, while the checker goes on
\* probing (health.rs:153-199, router.rs:123-140, 158-168).
PlansFollowProbes ==
    [][\A r \in Requests : at[r] = "new" /\ at'[r] = "trying" =>
         \A n \in Observed : Len(outcomes[n]) <= MaxHistory =>
             ((\E i \in DOMAIN plan'[r] : plan'[r][i] = n) <=> ~Ejected(outcomes[n]))
      ]_<<vars, checkerOwn>>

\* Router and checker composed: the plans of the one follow the probes of the
\* other, and the router's own promises hold under the statuses the checker
\* really writes (health.rs:153-199, 245-259, router.rs:105-181).
THEOREM RoutingFollowsProbes ==
  Together => /\ PlansFollowProbes
              /\ [](BadGatewayMeansAllFailed /\ DownIffEjected)
<1> DEFINE Follow ==
      \A r \in Requests : at[r] = "new" /\ at'[r] = "trying" =>
         \A n \in Observed : Len(outcomes[n]) <= MaxHistory =>
             ((\E i \in DOMAIN plan'[r] : plan'[r][i] = n) <=> ~Ejected(outcomes[n]))
<1>1. Init /\ CheckerInit => BothInv
      BY InitInv, InitChecker DEF BothInv
<1>2. BothInv /\ [Routes \/ Checks]_<<vars, checkerOwn>> => BothInv'
      BY BothKept
<1>3. BothInv => BadGatewayMeansAllFailed /\ DownIffEjected
      BY DEF BothInv, Inv, ReqInv, Truthful, BadGatewayMeansAllFailed, CheckerInv
<1>4. ASSUME BothInv, [Routes \/ Checks]_<<vars, checkerOwn>>
      PROVE  [Follow]_<<vars, checkerOwn>>
  <2>1. SUFFICES ASSUME Routes \/ Checks, NEW r \in Requests, at[r] = "new", at'[r] = "trying",
                        NEW n \in Observed, Len(outcomes[n]) <= MaxHistory
                 PROVE  (\E i \in DOMAIN plan'[r] : plan'[r][i] = n) <=> ~Ejected(outcomes[n])
        BY <1>4
  <2>2. Next
        BY <2>1 DEF Routes, Checks, routerOwn, Step, Next
  <2>3. OnceEach(plan'[r], Cardinality(HealthyNodes), HealthyNodes)
        BY <1>4, <2>1, <2>2, PlanIsComplete DEF BothInv
  <2>4. (\E i \in DOMAIN plan'[r] : plan'[r][i] = n) <=> n \in HealthyNodes
        BY <2>3, Members
  <2>5. n \in Nodes
        BY HealthAssumption DEF Nodes
  <2>6. n \in HealthyNodes <=> status[n] # "down"
        BY <2>5 DEF HealthyNodes, Healthy
  <2>7. status[n] = "down" <=> Ejected(outcomes[n])
        BY <1>4, <2>1 DEF BothInv, CheckerInv, DownIffEjected
  <2>8. QED
        BY <2>4, <2>6, <2>7
<1>5. QED
      BY <1>1, <1>2, <1>3, <1>4, PTL DEF Together, PlansFollowProbes
==============================================================================
