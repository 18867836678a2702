------------------------ MODULE ConnectionStatsProofs ------------------------
(***************************************************************************)
(* For any clients, handlers and bounds: the active counters are accounted  *)
(* for, the global total is never ahead of the totals of the IPs, and what  *)
(* was saved is restored.                                                   *)
(*                                                                         *)
(* The totals are compared by a sum over the IPs, so the first part says    *)
(* what SumFunction computes.  The library's induction theorems have an     *)
(* operator for a parameter; WFMin has none, and gives an induction over    *)
(* sets of numbers and sets of subsets that the provers can use.            *)
(*                                                                         *)
(* GlobalNeverAhead speaks of what is in memory and in the files.  A        *)
(* snapshot is half old and half new while it is taken: Loading compares    *)
(* its global total with the totals it would get if the rest were loaded    *)
(* now.  SavedIsRestored needs to know which file a save that met no other  *)
(* one has open (Solo).                                                     *)
(***************************************************************************)
EXTENDS ConnectionStats, FiniteSetTheorems, TLAPS

-----------------------------------------------------------------------------
(* Induction over sets of numbers, and the sums of the community modules.   *)

\* A set of numbers that is closed under + 1 holds them all.
LEMMA NatInd ==
  ASSUME NEW P \in SUBSET Nat, 0 \in P, \A n \in P : n + 1 \in P
  PROVE  P = Nat
<1> SUFFICES ASSUME Nat \ P # {} PROVE FALSE
    OBVIOUS
<1> DEFINE R == OpToRel(<, Nat)
<1>1. IsWellFoundedOn(R, Nat)
      BY NatLessThanWellFounded
<1>2. \A x, y \in Nat : x < y => <<x, y>> \in R
      BY DEF OpToRel
<1> HIDE DEF R
<1>3. PICK x \in Nat \ P : \A y \in Nat \ P : ~(<<y, x>> \in R)
      BY <1>1, WFMin
<1>4. x # 0 /\ x - 1 \in Nat /\ x - 1 < x /\ (x - 1) + 1 = x
      OBVIOUS
<1>5. x - 1 \in P
      BY <1>2, <1>3, <1>4
<1>6. QED
      BY <1>4, <1>5

\* SumFunctionOnSet, unfolded: it takes the members of a set one by one.
Pick(s) == CHOOSE x \in s : TRUE
IsSum(it, f, S) ==
    it = [s \in SUBSET S |-> IF s = {} THEN 0 ELSE f[Pick(s)] + it[s \ {Pick(s)}]]

LEMMA SumIsChosen ==
  ASSUME NEW f, NEW S
  PROVE  SumFunctionOnSet(f, S) = (CHOOSE it : IsSum(it, f, S))[S]
  BY DEF SumFunctionOnSet, FoldFunctionOnSet, MapThenFoldSet, IsSum, Pick

LEMMA Picked == ASSUME NEW s, s # {} PROVE Pick(s) \in s
  BY DEF Pick

\* Subsets with at most k members.
UpTo(S, k) == {s \in SUBSET S : Cardinality(s) <= k}
IsSumUpTo(it, f, S, k) ==
    it = [s \in UpTo(S, k) |-> IF s = {} THEN 0 ELSE f[Pick(s)] + it[s \ {Pick(s)}]]

LEMMA Smaller ==
  ASSUME NEW S, IsFiniteSet(S), NEW s \in SUBSET S, s # {}
  PROVE  /\ Cardinality(s \ {Pick(s)}) = Cardinality(s) - 1 /\ s \ {Pick(s)} \in SUBSET S
         /\ Cardinality(s) \in Nat \ {0} /\ IsFiniteSet(s)
<1>1. IsFiniteSet(s) /\ Cardinality(s) \in Nat
      BY FS_Subset, FS_CardinalityType
<1>2. Cardinality(s) # 0
      BY <1>1, FS_EmptySet
<1>3. Cardinality(s \ {Pick(s)}) = Cardinality(s) - 1
  <2>1. Pick(s) \in s
        BY Picked
  <2>2. QED
        BY <1>1, <2>1, FS_RemoveElement
<1>4. QED
      BY <1>1, <1>2, <1>3

\* The recursion that defines a sum has a solution over a finite set.
LEMMA SumExists ==
  ASSUME NEW f, NEW S, IsFiniteSet(S)
  PROVE  \E it : IsSum(it, f, S)
<1> DEFINE P == {k \in Nat : \E g : IsSumUpTo(g, f, S, k)}
<1>0. \A s \in SUBSET S :
        IsFiniteSet(s) /\ Cardinality(s) \in Nat /\ (Cardinality(s) = 0 <=> s = {})
      BY FS_Subset, FS_CardinalityType, FS_EmptySet
<1>1. 0 \in P
  <2> DEFINE g == [s \in UpTo(S, 0) |-> 0]
  <2>1. \A s \in UpTo(S, 0) : s = {}
        BY <1>0 DEF UpTo
  <2>2. IsSumUpTo(g, f, S, 0)
        BY <2>1 DEF IsSumUpTo
  <2>3. QED
        BY <2>2
<1>2. ASSUME NEW k \in P PROVE k + 1 \in P
  <2>1. PICK g : IsSumUpTo(g, f, S, k)
        OBVIOUS
  <2> DEFINE h == [s \in UpTo(S, k + 1) |-> IF s = {} THEN 0 ELSE f[Pick(s)] + g[s \ {Pick(s)}]]
  <2>2. ASSUME NEW s \in UpTo(S, k + 1), s # {} PROVE g[s \ {Pick(s)}] = h[s \ {Pick(s)}]
    <3> DEFINE r == s \ {Pick(s)}
    <3>1. r \in UpTo(S, k) /\ r \in UpTo(S, k + 1)
          BY <2>2, <1>0, Smaller DEF UpTo
    <3> HIDE DEF r
    <3>2. g[r] = IF r = {} THEN 0 ELSE f[Pick(r)] + g[r \ {Pick(r)}]
          BY <2>1, <3>1 DEF IsSumUpTo
    <3>3. h[r] = IF r = {} THEN 0 ELSE f[Pick(r)] + g[r \ {Pick(r)}]
          BY <3>1
    <3>4. QED
          BY <3>2, <3>3 DEF r
  <2>3. h = [s \in UpTo(S, k + 1) |-> IF s = {} THEN 0 ELSE f[Pick(s)] + h[s \ {Pick(s)}]]
        BY <2>2
  <2> HIDE DEF h
  <2>4. IsSumUpTo(h, f, S, k + 1)
        BY <2>3 DEF IsSumUpTo
  <2>5. QED
        BY <2>4
<1>3. P = Nat
  <2> HIDE DEF P
  <2>1. P \in SUBSET Nat
        BY DEF P
  <2>2. QED
        BY <1>1, <1>2, <2>1, NatInd
<1>4. Cardinality(S) \in P
      BY <1>0, <1>3
<1>5. UpTo(S, Cardinality(S)) = SUBSET S
      BY FS_Subset DEF UpTo
<1>6. QED
      BY <1>4, <1>5 DEF IsSumUpTo, IsSum

\* What the sum over a finite set is.
LEMMA SumIs ==
  ASSUME NEW f, NEW S, IsFiniteSet(S)
  PROVE  \E it : IsSum(it, f, S) /\ SumFunctionOnSet(f, S) = it[S]
<1> DEFINE it == CHOOSE it : IsSum(it, f, S)
<1>1. IsSum(it, f, S)
      BY SumExists
<1>2. QED
      BY <1>1, SumIsChosen

\* Induction over the subsets of a finite set.
LEMMA SubsetInd ==
  ASSUME NEW S, IsFiniteSet(S), NEW Q \in SUBSET SUBSET S, {} \in Q,
         \A s \in SUBSET S : s # {} /\ s \ {Pick(s)} \in Q => s \in Q
  PROVE  S \in Q
<1> DEFINE P == {k \in Nat : UpTo(S, k) \subseteq Q}
<1>0. \A s \in SUBSET S : IsFiniteSet(s) /\ Cardinality(s) \in Nat /\ (Cardinality(s) = 0 <=> s = {})
      BY FS_Subset, FS_CardinalityType, FS_EmptySet
<1>1. 0 \in P
  <2>1. ASSUME NEW s \in UpTo(S, 0) PROVE s = {}
        BY <1>0 DEF UpTo
  <2>2. QED
        BY <2>1
<1>2. ASSUME NEW k \in P PROVE k + 1 \in P
  <2>1. ASSUME NEW s \in UpTo(S, k + 1) PROVE s \in Q
    <3>1. CASE s = {}
          BY <3>1
    <3>2. CASE s # {}
      <4>1. s \ {Pick(s)} \in UpTo(S, k)
            BY <1>0, <2>1, <3>2, Smaller DEF UpTo
      <4>2. QED
            BY <2>1, <3>2, <4>1 DEF UpTo
    <3>3. QED
          BY <3>1, <3>2
  <2>2. QED
        BY <2>1
<1>3. P = Nat
  <2> HIDE DEF P
  <2>1. P \in SUBSET Nat
        BY DEF P
  <2>2. QED
        BY <1>1, <1>2, <2>1, NatInd
<1>4. UpTo(S, Cardinality(S)) \subseteq Q
      BY <1>0, <1>3
<1>5. QED
      BY <1>0, <1>4 DEF UpTo

LEMMA SumEquation ==
  ASSUME NEW it, NEW f, NEW S, IsSum(it, f, S)
  PROVE  /\ it[{}] = 0
         /\ \A s \in SUBSET S : s # {} => it[s] = f[Pick(s)] + it[s \ {Pick(s)}]
  BY DEF IsSum

LEMMA SumType ==
  ASSUME NEW S, IsFiniteSet(S), NEW f \in [S -> Nat]
  PROVE  SumFunction(f) \in Nat
<1>1. PICK it : IsSum(it, f, S) /\ SumFunctionOnSet(f, S) = it[S]
      BY SumIs
<1>i. \A s \in SUBSET S : s # {} => it[s] = f[Pick(s)] + it[s \ {Pick(s)}]
      BY <1>1, SumEquation
<1> DEFINE Q == {s \in SUBSET S : it[s] \in Nat}
<1>2. {} \in Q
      BY <1>1, SumEquation
<1>3. ASSUME NEW s \in SUBSET S, s # {}, s \ {Pick(s)} \in Q PROVE s \in Q
  <2>0. Pick(s) \in S
        BY <1>3, Picked
  <2>1. it[s] = f[Pick(s)] + it[s \ {Pick(s)}]
    <3> HIDE DEF Q
    <3>1. QED
          BY <1>i, <1>3
  <2>2. f[Pick(s)] \in Nat /\ it[s \ {Pick(s)}] \in Nat
        BY <1>3, <2>0
  <2>3. QED
        BY <2>1, <2>2
<1>4. S \in Q
  <2> HIDE DEF Q
  <2>1. Q \in SUBSET SUBSET S
        BY DEF Q
  <2>2. QED
        BY <1>2, <1>3, <2>1, SubsetInd
<1>5. QED
      BY <1>1, <1>4 DEF SumFunction

\* A function that is nowhere smaller has a sum that is not smaller.
LEMMA SumMonotone ==
  ASSUME NEW S, IsFiniteSet(S), NEW f \in [S -> Nat], NEW g \in [S -> Nat],
         \A x \in S : f[x] <= g[x]
  PROVE  SumFunction(f) <= SumFunction(g)
<1>1. PICK it : IsSum(it, f, S) /\ SumFunctionOnSet(f, S) = it[S]
      BY SumIs
<1>2. PICK jt : IsSum(jt, g, S) /\ SumFunctionOnSet(g, S) = jt[S]
      BY SumIs
<1>i. \A s \in SUBSET S : s # {} => it[s] = f[Pick(s)] + it[s \ {Pick(s)}]
      BY <1>1, SumEquation
<1>j. \A s \in SUBSET S : s # {} => jt[s] = g[Pick(s)] + jt[s \ {Pick(s)}]
      BY <1>2, SumEquation
<1> DEFINE Q == {s \in SUBSET S : it[s] \in Nat /\ jt[s] \in Nat /\ it[s] <= jt[s]}
<1>3. {} \in Q
      BY <1>1, <1>2, SumEquation
<1>4. ASSUME NEW s \in SUBSET S, s # {}, s \ {Pick(s)} \in Q PROVE s \in Q
  <2>1. /\ it[s] = f[Pick(s)] + it[s \ {Pick(s)}] /\ jt[s] = g[Pick(s)] + jt[s \ {Pick(s)}]
        /\ Pick(s) \in S
    <3>1. Pick(s) \in s
          BY <1>4, Picked
    <3>2. it[s] = f[Pick(s)] + it[s \ {Pick(s)}]
          BY <1>i, <1>4
    <3>3. jt[s] = g[Pick(s)] + jt[s \ {Pick(s)}]
          BY <1>j, <1>4
    <3>4. QED
          BY <3>1, <3>2, <3>3
  <2>2. /\ f[Pick(s)] \in Nat /\ it[s \ {Pick(s)}] \in Nat
        /\ g[Pick(s)] \in Nat /\ jt[s \ {Pick(s)}] \in Nat
        /\ f[Pick(s)] <= g[Pick(s)] /\ it[s \ {Pick(s)}] <= jt[s \ {Pick(s)}]
        BY <1>4, <2>1
  <2>3. QED
        BY <2>1, <2>2
<1>5. S \in Q
  <2> HIDE DEF Q
  <2>1. Q \in SUBSET SUBSET S
        BY DEF Q
  <2>2. QED
        BY <1>3, <1>4, <2>1, SubsetInd
<1>6. QED
      BY <1>1, <1>2, <1>5 DEF SumFunction

\* One more at one place is one more in all.
LEMMA SumBump ==
  ASSUME NEW S, IsFiniteSet(S), NEW f \in [S -> Nat], NEW a \in S
  PROVE  SumFunction([f EXCEPT ![a] = @ + 1]) = SumFunction(f) + 1
<1> DEFINE g == [f EXCEPT ![a] = @ + 1]
<1>0. g \in [S -> Nat] /\ \A x \in S : g[x] = IF x = a THEN f[x] + 1 ELSE f[x]
      OBVIOUS
<1> HIDE DEF g
<1>1. PICK it : IsSum(it, f, S) /\ SumFunctionOnSet(f, S) = it[S]
      BY SumIs
<1>2. PICK jt : IsSum(jt, g, S) /\ SumFunctionOnSet(g, S) = jt[S]
      BY SumIs
<1>i. \A s \in SUBSET S : s # {} => it[s] = f[Pick(s)] + it[s \ {Pick(s)}]
      BY <1>1, SumEquation
<1>j. \A s \in SUBSET S : s # {} => jt[s] = g[Pick(s)] + jt[s \ {Pick(s)}]
      BY <1>2, SumEquation
<1> DEFINE Q == {s \in SUBSET S : it[s] \in Nat /\ jt[s] = IF a \in s THEN it[s] + 1 ELSE it[s]}
<1>3. {} \in Q
      BY <1>1, <1>2, SumEquation
<1>4. ASSUME NEW s \in SUBSET S, s # {}, s \ {Pick(s)} \in Q PROVE s \in Q
  <2> DEFINE r == s \ {Pick(s)}
  <2>1. /\ it[s] = f[Pick(s)] + it[r] /\ jt[s] = g[Pick(s)] + jt[r] /\ Pick(s) \in s
    <3>1. Pick(s) \in s
          BY <1>4, Picked
    <3>2. it[s] = f[Pick(s)] + it[r]
          BY <1>i, <1>4
    <3>3. jt[s] = g[Pick(s)] + jt[r]
          BY <1>j, <1>4
    <3>4. QED
          BY <3>1, <3>2, <3>3
  <2>2. /\ f[Pick(s)] \in Nat /\ it[r] \in Nat /\ jt[r] = IF a \in r THEN it[r] + 1 ELSE it[r]
        /\ g[Pick(s)] = IF Pick(s) = a THEN f[Pick(s)] + 1 ELSE f[Pick(s)]
        BY <1>0, <1>4, <2>1
  <2>3. a \in s <=> (a \in r \/ a = Pick(s))
        BY <2>1
  <2>4. a \in r => a # Pick(s)
        OBVIOUS
  <2> HIDE DEF r
  <2>5. it[s] \in Nat /\ jt[s] = IF a \in s THEN it[s] + 1 ELSE it[s]
        BY <2>1, <2>2, <2>3, <2>4
  <2>6. QED
        BY <2>5
<1>5. S \in Q
  <2> HIDE DEF Q
  <2>1. Q \in SUBSET SUBSET S
        BY DEF Q
  <2>2. QED
        BY <1>3, <1>4, <2>1, SubsetInd
<1>6. jt[S] = it[S] + 1
      BY <1>5
<1>7. DOMAIN f = S /\ DOMAIN g = S
      BY <1>0
<1>8. QED
      BY <1>1, <1>2, <1>6, <1>7 DEF SumFunction, g

\* No more in all than the bound of each times their number.
LEMMA SumBound ==
  ASSUME NEW S, IsFiniteSet(S), NEW m \in Nat, NEW f \in [S -> 0..m]
  PROVE  SumFunction(f) <= m * Cardinality(S)
<1>1. PICK it : IsSum(it, f, S) /\ SumFunctionOnSet(f, S) = it[S]
      BY SumIs
<1>i. \A s \in SUBSET S : s # {} => it[s] = f[Pick(s)] + it[s \ {Pick(s)}]
      BY <1>1, SumEquation
<1> DEFINE Q == {s \in SUBSET S : it[s] \in Nat /\ it[s] <= m * Cardinality(s)}
<1>2. {} \in Q
  <2>1. it[{}] = 0 /\ Cardinality({}) = 0
        BY <1>1, SumEquation, FS_EmptySet
  <2>2. m * 0 = 0
        OBVIOUS
  <2>3. QED
        BY <2>1, <2>2
<1>3. ASSUME NEW s \in SUBSET S, s # {}, s \ {Pick(s)} \in Q PROVE s \in Q
  <2> DEFINE r == s \ {Pick(s)}
  <2>1. it[s] = f[Pick(s)] + it[r] /\ Pick(s) \in S
        BY <1>i, <1>3, Picked
  <2>2. f[Pick(s)] \in 0..m /\ it[r] \in Nat /\ it[r] <= m * Cardinality(r)
        BY <1>3, <2>1
  <2>3. Cardinality(r) = Cardinality(s) - 1 /\ Cardinality(s) \in Nat \ {0}
        BY <1>3, Smaller
  <2> HIDE DEF r
  <2>4. \A n \in Nat \ {0} : m * (n - 1) = m * n - m /\ m * n \in Nat
        OBVIOUS
  <2>5. m * Cardinality(r) = m * Cardinality(s) - m /\ m * Cardinality(s) \in Nat
        BY <2>3, <2>4
  <2>6. it[s] \in Nat /\ it[s] <= m * Cardinality(s)
        BY <2>1, <2>2, <2>5
  <2>7. QED
        BY <2>6
<1>4. S \in Q
  <2> HIDE DEF Q
  <2>1. Q \in SUBSET SUBSET S
        BY DEF Q
  <2>2. QED
        BY <1>2, <1>3, <2>1, SubsetInd
<1>5. QED
      BY <1>1, <1>4 DEF SumFunction

-----------------------------------------------------------------------------
(* The inductive invariant.                                                 *)

\* Nothing runs in a process that is down.
Quiet ==
    process = "down" =>
        /\ \A q \in Calls : call[q] = "none"
        /\ \A s \in Savers : saver[s] = Idle

\* The requests that are counted for their IP and not globally yet.
Recorded == {q \in Calls : call[q] = "recorded"}

Ahead == global + Cardinality(Recorded) <= SumFunction(total)

\* What a save would have if it loaded the rest now.
Mixed(s) ==
    [ip \in IPs |-> IF ip \in saver[s].todo THEN total[ip] ELSE saver[s].snap.per[ip]]

Loading ==
    \A s \in Savers :
        /\ saver[s].at = "load" => saver[s].snap.global <= SumFunction(Mixed(s))
        /\ saver[s].at # "load" => Consistent(saver[s].snap)

\* A file is torn or holds one snapshot.
Files ==
    \A f \in Names :
        \/ disk.content[f] = Torn
        \/ \E snap \in Snapshots : disk.content[f] = {snap} /\ Consistent(snap)

\* A save that met no other one writes to the tmp file that it opened.
Solo ==
    ~crossed =>
        /\ \A s, o \in Savers : Busy(s) /\ Busy(o) => s = o
        /\ \A s \in Savers :
             /\ saver[s].at = "write" =>
                    saver[s].file = "tmp" /\ disk.tmpExists /\ disk.content["tmp"] = Torn
             /\ saver[s].at = "rename" =>
                    disk.tmpExists /\ disk.content["tmp"] = {saver[s].snap}

Saved ==
    ~crossed => \/ disk.content["path"] = {durable}
                \/ disk.content["path"] = Torn /\ durable = Nothing

Inv ==
    /\ TypeOK /\ ActiveIsAccountedFor /\ Quiet /\ Ahead /\ Loading /\ Files
    /\ Solo /\ Saved

-----------------------------------------------------------------------------
(* The handlers and the active counters.                                    *)

\* How a handler that moves changes the number of those in some places.
LEMMA MoveCounts ==
  ASSUME NEW X, IsFiniteSet(X), NEW V, NEW f \in [X -> V], NEW x \in X, NEW to \in V,
         NEW ip, NEW places
  PROVE  /\ At(f, ip, places) \in Nat /\ At([f EXCEPT ![x] = to], ip, places) \in Nat
         /\ Ip[x] # ip \/ (f[x] \in places <=> to \in places) =>
              At([f EXCEPT ![x] = to], ip, places) = At(f, ip, places)
         /\ Ip[x] = ip /\ f[x] \notin places /\ to \in places =>
              At([f EXCEPT ![x] = to], ip, places) = At(f, ip, places) + 1
         /\ Ip[x] = ip /\ f[x] \in places /\ to \notin places =>
              At([f EXCEPT ![x] = to], ip, places) = At(f, ip, places) - 1 /\ At(f, ip, places) >= 1
<1> DEFINE g == [f EXCEPT ![x] = to]
<1> DEFINE F == {y \in X : f[y] \in places /\ Ip[y] = ip}
           G == {y \in X : g[y] \in places /\ Ip[y] = ip}
<1>1. DOMAIN f = X /\ DOMAIN g = X /\ \A y \in X : g[y] = IF y = x THEN to ELSE f[y]
      OBVIOUS
<1> HIDE DEF g
<1>2. At(f, ip, places) = Cardinality(F) /\ At(g, ip, places) = Cardinality(G)
      BY <1>1 DEF At
<1>3. /\ IsFiniteSet(F) /\ Cardinality(F) \in Nat
      /\ IsFiniteSet(G) /\ Cardinality(G) \in Nat
      BY FS_Subset, FS_CardinalityType
<1>4. ASSUME Ip[x] # ip \/ (f[x] \in places <=> to \in places) PROVE F = G
      BY <1>1, <1>4
<1>5. ASSUME Ip[x] = ip, f[x] \notin places, to \in places
      PROVE  Cardinality(G) = Cardinality(F) + 1
  <2>1. G = F \cup {x} /\ x \notin F
        BY <1>1, <1>5
  <2>2. QED
        BY <1>3, <2>1, FS_AddElement
<1>6. ASSUME Ip[x] = ip, f[x] \in places, to \notin places
      PROVE  Cardinality(G) = Cardinality(F) - 1 /\ Cardinality(F) >= 1
  <2>1. F = G \cup {x} /\ x \notin G
        BY <1>1, <1>6
  <2>2. Cardinality(F) = Cardinality(G) + 1
        BY <1>3, <2>1, FS_AddElement
  <2>3. QED
        BY <1>3, <2>2
<1> HIDE DEF F, G
<1>7. QED
      BY <1>2, <1>3, <1>4, <1>5, <1>6 DEF g

CallPlaces == {"none", "recorded", "routing"}
SocketPlaces == {"none", "connecting", "open"}

\* Nobody is anywhere when all are out.
LEMMA NoneCounted ==
  ASSUME NEW X, NEW ip, NEW places, "none" \notin places
  PROVE  At([x \in X |-> "none"], ip, places) = 0
<1>1. {y \in DOMAIN [x \in X |-> "none"] :
          [x \in X |-> "none"][y] \in places /\ Ip[y] = ip} = {}
      OBVIOUS
<1>2. QED
      BY <1>1, FS_EmptySet DEF At

\* How a call that moves changes the number of those that are routed.
LEMMA CallMoves ==
  ASSUME TypeOK, NEW q \in Calls, NEW to \in CallPlaces, call' = [call EXCEPT ![q] = to], NEW ip
  PROVE  /\ At(call, ip, {"routing"}) \in Nat
         /\ Ip[q] # ip \/ (call[q] = "routing" <=> to = "routing") =>
              At(call', ip, {"routing"}) = At(call, ip, {"routing"})
         /\ Ip[q] = ip /\ call[q] # "routing" /\ to = "routing" =>
              At(call', ip, {"routing"}) = At(call, ip, {"routing"}) + 1
         /\ Ip[q] = ip /\ call[q] = "routing" /\ to # "routing" =>
              /\ At(call', ip, {"routing"}) = At(call, ip, {"routing"}) - 1
              /\ At(call, ip, {"routing"}) >= 1
<1> DEFINE places == {"routing"}
<1>1. \A x : x \in places <=> x = "routing"
      OBVIOUS
<1> HIDE DEF places
<1>2. IsFiniteSet(Calls) /\ call \in [Calls -> CallPlaces]
      BY StatsAssumption DEF TypeOK, CallPlaces
<1>3. /\ At(call, ip, places) \in Nat /\ At([call EXCEPT ![q] = to], ip, places) \in Nat
      /\ Ip[q] # ip \/ (call[q] \in places <=> to \in places) =>
              At([call EXCEPT ![q] = to], ip, places) = At(call, ip, places)
      /\ Ip[q] = ip /\ call[q] \notin places /\ to \in places =>
              At([call EXCEPT ![q] = to], ip, places) = At(call, ip, places) + 1
      /\ Ip[q] = ip /\ call[q] \in places /\ to \notin places =>
              /\ At([call EXCEPT ![q] = to], ip, places) = At(call, ip, places) - 1
              /\ At(call, ip, places) >= 1
      BY <1>2, MoveCounts
<1>4. QED
      BY <1>1, <1>3 DEF places

\* A call moves and its IP's counter with it.
LEMMA CallsAccounted ==
  ASSUME TypeOK, ActiveIsAccountedFor, NEW q \in Calls,
         RecordIp(q) \/ RecordGlobal(q) \/ Respond(q) \/ ClientLeaves(q)
  PROVE  /\ call' \in [Calls -> CallPlaces] /\ activeRpc' \in [IPs -> Nat]
         /\ leaked' \in [rpc : [IPs -> Nat], ws : [IPs -> Nat]]
         /\ ActiveIsAccountedFor'
<1>0. /\ call \in [Calls -> CallPlaces] /\ activeRpc \in [IPs -> Nat] /\ Ip[q] \in IPs
      /\ leaked \in [rpc : [IPs -> Nat], ws : [IPs -> Nat]] /\ IsFiniteSet(Calls)
      BY StatsAssumption DEF TypeOK, CallPlaces
<1> DEFINE N(ip) == At(call, ip, {"routing"})
<1>1. \A ip \in IPs : activeRpc[ip] = N(ip) + leaked.rpc[ip]
      BY DEF ActiveIsAccountedFor
<1>2. \A ip \in IPs : activeWs[ip] = At(socket, ip, {"connecting", "open"}) + leaked.ws[ip]
      BY DEF ActiveIsAccountedFor
<1>3. activeWs' = activeWs /\ socket' = socket
      BY DEF RecordIp, RecordGlobal, Respond, ClientLeaves
<1>4. SUFFICES
        /\ call' \in [Calls -> CallPlaces] /\ activeRpc' \in [IPs -> Nat]
        /\ leaked' \in [rpc : [IPs -> Nat], ws : [IPs -> Nat]] /\ leaked'.ws = leaked.ws
        /\ \A ip \in IPs : activeRpc'[ip] = At(call', ip, {"routing"}) + leaked'.rpc[ip]
      BY <1>2, <1>3 DEF ActiveIsAccountedFor
<1>5. CASE RecordIp(q)
  <2>1. /\ call[q] = "none" /\ call' = [call EXCEPT ![q] = "recorded"]
        /\ activeRpc' = activeRpc /\ leaked' = leaked
        BY <1>5 DEF RecordIp, CallTo
  <2>2. \A ip \in IPs : At(call', ip, {"routing"}) = N(ip)
        BY <1>0, <2>1, CallMoves DEF CallPlaces
  <2>3. QED
        BY <1>0, <1>1, <2>1, <2>2 DEF CallPlaces
<1>6. CASE RecordGlobal(q)
  <2>1. /\ call[q] = "recorded" /\ call' = [call EXCEPT ![q] = "routing"]
        /\ activeRpc' = [activeRpc EXCEPT ![Ip[q]] = @ + 1] /\ leaked' = leaked
        BY <1>6 DEF RecordGlobal, CallTo, Bump
  <2>2. \A ip \in IPs : /\ N(ip) \in Nat
                        /\ At(call', ip, {"routing"}) = IF ip = Ip[q] THEN N(ip) + 1 ELSE N(ip)
        BY <1>0, <2>1, CallMoves DEF CallPlaces
  <2> HIDE DEF N
  <2>3. ASSUME NEW ip \in IPs PROVE activeRpc'[ip] = At(call', ip, {"routing"}) + leaked'.rpc[ip]
    <3>1. activeRpc[ip] \in Nat /\ leaked.rpc[ip] \in Nat
          BY <1>0
    <3>2. activeRpc'[ip] = IF ip = Ip[q] THEN activeRpc[ip] + 1 ELSE activeRpc[ip]
          BY <1>0, <2>1
    <3>3. /\ N(ip) \in Nat
          /\ At(call', ip, {"routing"}) = IF ip = Ip[q] THEN N(ip) + 1 ELSE N(ip)
          BY <2>2
    <3>4. activeRpc[ip] = N(ip) + leaked.rpc[ip] /\ leaked'.rpc[ip] = leaked.rpc[ip]
          BY <1>1, <2>1
    <3>5. QED
          BY <3>1, <3>2, <3>3, <3>4
  <2>4. call' \in [Calls -> CallPlaces] /\ activeRpc' \in [IPs -> Nat]
        BY <1>0, <2>1 DEF CallPlaces
  <2>5. QED
        BY <1>0, <2>1, <2>3, <2>4
<1>7. CASE Respond(q)
  <2>1. /\ call[q] = "routing" /\ call' = [call EXCEPT ![q] = "none"]
        /\ activeRpc' = [activeRpc EXCEPT ![Ip[q]] = @ - 1] /\ leaked' = leaked
        BY <1>7 DEF Respond, CallTo, Lower
  <2>2. \A ip \in IPs : /\ N(ip) \in Nat /\ (ip = Ip[q] => N(ip) >= 1)
                        /\ At(call', ip, {"routing"}) = IF ip = Ip[q] THEN N(ip) - 1 ELSE N(ip)
        BY <1>0, <2>1, CallMoves DEF CallPlaces
  <2> HIDE DEF N
  <2>3. ASSUME NEW ip \in IPs
        PROVE  /\ activeRpc'[ip] = At(call', ip, {"routing"}) + leaked'.rpc[ip]
               /\ activeRpc'[ip] \in Nat
    <3>1. activeRpc[ip] \in Nat /\ leaked.rpc[ip] \in Nat
          BY <1>0
    <3>2. activeRpc'[ip] = IF ip = Ip[q] THEN activeRpc[ip] - 1 ELSE activeRpc[ip]
          BY <1>0, <2>1
    <3>3. /\ N(ip) \in Nat
          /\ At(call', ip, {"routing"}) = IF ip = Ip[q] THEN N(ip) - 1 ELSE N(ip)
          /\ (ip = Ip[q] => N(ip) >= 1)
          BY <2>2
    <3>4. activeRpc[ip] = N(ip) + leaked.rpc[ip] /\ leaked'.rpc[ip] = leaked.rpc[ip]
          BY <1>1, <2>1
    <3>5. QED
          BY <3>1, <3>2, <3>3, <3>4
  <2>4. call' \in [Calls -> CallPlaces] /\ activeRpc' \in [IPs -> Nat]
        BY <1>0, <2>1, <2>3 DEF CallPlaces
  <2>5. QED
        BY <1>0, <2>1, <2>3, <2>4
<1>8. CASE ClientLeaves(q)
  <2>1. /\ call[q] = "routing" /\ call' = [call EXCEPT ![q] = "none"]
        /\ leaked' = [leaked EXCEPT !.rpc = [leaked.rpc EXCEPT ![Ip[q]] = @ + 1]]
        /\ activeRpc' = activeRpc
        BY <1>8 DEF ClientLeaves, CallTo, Bump
  <2>2. \A ip \in IPs : /\ N(ip) \in Nat /\ (ip = Ip[q] => N(ip) >= 1)
                        /\ At(call', ip, {"routing"}) = IF ip = Ip[q] THEN N(ip) - 1 ELSE N(ip)
        BY <1>0, <2>1, CallMoves DEF CallPlaces
  <2> HIDE DEF N
  <2>3. /\ leaked'.rpc = [leaked.rpc EXCEPT ![Ip[q]] = @ + 1] /\ leaked'.ws = leaked.ws
        /\ leaked' \in [rpc : [IPs -> Nat], ws : [IPs -> Nat]]
        BY <1>0, <2>1
  <2>4. ASSUME NEW ip \in IPs PROVE activeRpc'[ip] = At(call', ip, {"routing"}) + leaked'.rpc[ip]
    <3>1. activeRpc[ip] \in Nat /\ leaked.rpc[ip] \in Nat
          BY <1>0
    <3>2. leaked'.rpc[ip] = IF ip = Ip[q] THEN leaked.rpc[ip] + 1 ELSE leaked.rpc[ip]
          BY <1>0, <2>3
    <3>3. /\ N(ip) \in Nat
          /\ At(call', ip, {"routing"}) = IF ip = Ip[q] THEN N(ip) - 1 ELSE N(ip)
          /\ (ip = Ip[q] => N(ip) >= 1)
          BY <2>2
    <3>4. activeRpc[ip] = N(ip) + leaked.rpc[ip] /\ activeRpc'[ip] = activeRpc[ip]
          BY <1>1, <2>1
    <3>5. QED
          BY <3>1, <3>2, <3>3, <3>4
  <2>5. call' \in [Calls -> CallPlaces]
        BY <1>0, <2>1 DEF CallPlaces
  <2>6. QED
        BY <1>0, <2>1, <2>3, <2>4, <2>5
<1>9. QED
      BY <1>5, <1>6, <1>7, <1>8

Up == {"connecting", "open"}

\* How a connection that moves changes the number of those that are counted.
LEMMA SocketMoves ==
  ASSUME TypeOK, NEW w \in Sockets, NEW to \in SocketPlaces, socket' = [socket EXCEPT ![w] = to],
         NEW ip
  PROVE  /\ At(socket, ip, Up) \in Nat
         /\ Ip[w] # ip \/ (socket[w] = "none" <=> to = "none") =>
              At(socket', ip, Up) = At(socket, ip, Up)
         /\ Ip[w] = ip /\ socket[w] = "none" /\ to # "none" =>
              At(socket', ip, Up) = At(socket, ip, Up) + 1
         /\ Ip[w] = ip /\ socket[w] # "none" /\ to = "none" =>
              At(socket', ip, Up) = At(socket, ip, Up) - 1 /\ At(socket, ip, Up) >= 1
<1>1. IsFiniteSet(Sockets) /\ socket \in [Sockets -> SocketPlaces]
      BY StatsAssumption DEF TypeOK, SocketPlaces
<1>2. \A x \in SocketPlaces : x \in Up <=> x # "none"
      BY DEF SocketPlaces, Up
<1>3. socket[w] \in SocketPlaces
      BY <1>1
<1>4. /\ At(socket, ip, Up) \in Nat /\ At([socket EXCEPT ![w] = to], ip, Up) \in Nat
      /\ Ip[w] # ip \/ (socket[w] \in Up <=> to \in Up) =>
              At([socket EXCEPT ![w] = to], ip, Up) = At(socket, ip, Up)
      /\ Ip[w] = ip /\ socket[w] \notin Up /\ to \in Up =>
              At([socket EXCEPT ![w] = to], ip, Up) = At(socket, ip, Up) + 1
      /\ Ip[w] = ip /\ socket[w] \in Up /\ to \notin Up =>
              /\ At([socket EXCEPT ![w] = to], ip, Up) = At(socket, ip, Up) - 1
              /\ At(socket, ip, Up) >= 1
      BY <1>1, MoveCounts
<1>5. QED
      BY <1>2, <1>3, <1>4

\* The same for a connection.
LEMMA SocketsAccounted ==
  ASSUME TypeOK, ActiveIsAccountedFor, NEW w \in Sockets,
         Accept(w) \/ UpstreamFails(w) \/ UpstreamConnects(w) \/ Close(w)
  PROVE  /\ socket' \in [Sockets -> SocketPlaces] /\ activeWs' \in [IPs -> Nat]
         /\ leaked' \in [rpc : [IPs -> Nat], ws : [IPs -> Nat]]
         /\ ActiveIsAccountedFor'
<1>0. /\ socket \in [Sockets -> SocketPlaces] /\ activeWs \in [IPs -> Nat] /\ Ip[w] \in IPs
      /\ leaked \in [rpc : [IPs -> Nat], ws : [IPs -> Nat]] /\ IsFiniteSet(Sockets)
      BY StatsAssumption DEF TypeOK, SocketPlaces
<1> DEFINE N(ip) == At(socket, ip, Up)
<1>1. \A ip \in IPs : activeWs[ip] = N(ip) + leaked.ws[ip]
      BY DEF ActiveIsAccountedFor, Up
<1>2. \A ip \in IPs : activeRpc[ip] = At(call, ip, {"routing"}) + leaked.rpc[ip]
      BY DEF ActiveIsAccountedFor
<1>3. activeRpc' = activeRpc /\ call' = call
      BY DEF Accept, UpstreamFails, UpstreamConnects, Close
<1>4. SUFFICES
        /\ socket' \in [Sockets -> SocketPlaces] /\ activeWs' \in [IPs -> Nat]
        /\ leaked' \in [rpc : [IPs -> Nat], ws : [IPs -> Nat]] /\ leaked'.rpc = leaked.rpc
        /\ \A ip \in IPs : activeWs'[ip] = At(socket', ip, Up) + leaked'.ws[ip]
      BY <1>2, <1>3 DEF ActiveIsAccountedFor, Up
<1>5. CASE UpstreamConnects(w)
  <2>1. /\ socket[w] = "connecting" /\ socket' = [socket EXCEPT ![w] = "open"]
        /\ activeWs' = activeWs /\ leaked' = leaked
        BY <1>5 DEF UpstreamConnects, SocketTo
  <2>2. \A ip \in IPs : At(socket', ip, Up) = N(ip)
        BY <1>0, <2>1, SocketMoves DEF SocketPlaces
  <2>3. QED
        BY <1>0, <1>1, <2>1, <2>2 DEF SocketPlaces
<1>6. CASE Accept(w)
  <2>1. /\ socket[w] = "none" /\ socket' = [socket EXCEPT ![w] = "connecting"]
        /\ activeWs' = [activeWs EXCEPT ![Ip[w]] = @ + 1] /\ leaked' = leaked
        BY <1>6 DEF Accept, SocketTo, Bump
  <2>2. \A ip \in IPs : /\ N(ip) \in Nat
                        /\ At(socket', ip, Up) = IF ip = Ip[w] THEN N(ip) + 1 ELSE N(ip)
        BY <1>0, <2>1, SocketMoves DEF SocketPlaces
  <2> HIDE DEF N
  <2>3. ASSUME NEW ip \in IPs PROVE activeWs'[ip] = At(socket', ip, Up) + leaked'.ws[ip]
    <3>1. activeWs[ip] \in Nat /\ leaked.ws[ip] \in Nat
          BY <1>0
    <3>2. activeWs'[ip] = IF ip = Ip[w] THEN activeWs[ip] + 1 ELSE activeWs[ip]
          BY <1>0, <2>1
    <3>3. /\ N(ip) \in Nat
          /\ At(socket', ip, Up) = IF ip = Ip[w] THEN N(ip) + 1 ELSE N(ip)
          BY <2>2
    <3>4. activeWs[ip] = N(ip) + leaked.ws[ip] /\ leaked'.ws[ip] = leaked.ws[ip]
          BY <1>1, <2>1
    <3>5. QED
          BY <3>1, <3>2, <3>3, <3>4
  <2>4. socket' \in [Sockets -> SocketPlaces] /\ activeWs' \in [IPs -> Nat]
        BY <1>0, <2>1 DEF SocketPlaces
  <2>5. QED
        BY <1>0, <2>1, <2>3, <2>4
<1>7. CASE Close(w)
  <2>1. /\ socket[w] = "open" /\ socket' = [socket EXCEPT ![w] = "none"]
        /\ activeWs' = [activeWs EXCEPT ![Ip[w]] = @ - 1] /\ leaked' = leaked
        BY <1>7 DEF Close, SocketTo, Lower
  <2>2. \A ip \in IPs : /\ N(ip) \in Nat /\ (ip = Ip[w] => N(ip) >= 1)
                        /\ At(socket', ip, Up) = IF ip = Ip[w] THEN N(ip) - 1 ELSE N(ip)
        BY <1>0, <2>1, SocketMoves DEF SocketPlaces
  <2> HIDE DEF N
  <2>3. ASSUME NEW ip \in IPs
        PROVE  /\ activeWs'[ip] = At(socket', ip, Up) + leaked'.ws[ip]
               /\ activeWs'[ip] \in Nat
    <3>1. activeWs[ip] \in Nat /\ leaked.ws[ip] \in Nat
          BY <1>0
    <3>2. activeWs'[ip] = IF ip = Ip[w] THEN activeWs[ip] - 1 ELSE activeWs[ip]
          BY <1>0, <2>1
    <3>3. /\ N(ip) \in Nat
          /\ At(socket', ip, Up) = IF ip = Ip[w] THEN N(ip) - 1 ELSE N(ip)
          /\ (ip = Ip[w] => N(ip) >= 1)
          BY <2>2
    <3>4. activeWs[ip] = N(ip) + leaked.ws[ip] /\ leaked'.ws[ip] = leaked.ws[ip]
          BY <1>1, <2>1
    <3>5. QED
          BY <3>1, <3>2, <3>3, <3>4
  <2>4. socket' \in [Sockets -> SocketPlaces] /\ activeWs' \in [IPs -> Nat]
        BY <1>0, <2>1, <2>3 DEF SocketPlaces
  <2>5. QED
        BY <1>0, <2>1, <2>3, <2>4
<1>8. CASE UpstreamFails(w)
  <2>1. /\ socket[w] = "connecting" /\ socket' = [socket EXCEPT ![w] = "none"]
        /\ leaked' = [leaked EXCEPT !.ws = [leaked.ws EXCEPT ![Ip[w]] = @ + 1]]
        /\ activeWs' = activeWs
        BY <1>8 DEF UpstreamFails, SocketTo, Bump
  <2>2. \A ip \in IPs : /\ N(ip) \in Nat /\ (ip = Ip[w] => N(ip) >= 1)
                        /\ At(socket', ip, Up) = IF ip = Ip[w] THEN N(ip) - 1 ELSE N(ip)
        BY <1>0, <2>1, SocketMoves DEF SocketPlaces
  <2> HIDE DEF N
  <2>3. /\ leaked'.ws = [leaked.ws EXCEPT ![Ip[w]] = @ + 1] /\ leaked'.rpc = leaked.rpc
        /\ leaked' \in [rpc : [IPs -> Nat], ws : [IPs -> Nat]]
        BY <1>0, <2>1
  <2>4. ASSUME NEW ip \in IPs PROVE activeWs'[ip] = At(socket', ip, Up) + leaked'.ws[ip]
    <3>1. activeWs[ip] \in Nat /\ leaked.ws[ip] \in Nat
          BY <1>0
    <3>2. leaked'.ws[ip] = IF ip = Ip[w] THEN leaked.ws[ip] + 1 ELSE leaked.ws[ip]
          BY <1>0, <2>3
    <3>3. /\ N(ip) \in Nat
          /\ At(socket', ip, Up) = IF ip = Ip[w] THEN N(ip) - 1 ELSE N(ip)
          /\ (ip = Ip[w] => N(ip) >= 1)
          BY <2>2
    <3>4. activeWs[ip] = N(ip) + leaked.ws[ip] /\ activeWs'[ip] = activeWs[ip]
          BY <1>1, <2>1
    <3>5. QED
          BY <3>1, <3>2, <3>3, <3>4
  <2>5. socket' \in [Sockets -> SocketPlaces]
        BY <1>0, <2>1 DEF SocketPlaces
  <2>6. QED
        BY <1>0, <2>1, <2>3, <2>4, <2>5
<1>9. QED
      BY <1>5, <1>6, <1>7, <1>8

-----------------------------------------------------------------------------
(* The saves.                                                               *)

SaverPlaces == {"idle", "load", "open", "write", "rename", "done"}
SaverType == [at : SaverPlaces, todo : SUBSET IPs, snap : Snapshots, file : Names \cup {"none"}]

LEMMA Sizes ==
  ASSUME TypeOK
  PROVE  /\ IsFiniteSet(IPs) /\ total \in [IPs -> Nat] /\ SumFunction(total) \in Nat
         /\ MaxTotal * Cardinality(IPs) \in Nat
         /\ SumFunction(total) <= MaxTotal * Cardinality(IPs)
<1>1. IsFiniteSet(IPs) /\ MaxTotal \in Nat /\ total \in [IPs -> 0..MaxTotal]
      BY StatsAssumption DEF TypeOK
<1>2. total \in [IPs -> Nat]
      BY <1>1
<1>3. Cardinality(IPs) \in Nat
      BY <1>1, FS_CardinalityType
<1>4. MaxTotal * Cardinality(IPs) \in Nat
      BY <1>1, <1>3
<1>5. SumFunction(total) <= MaxTotal * Cardinality(IPs)
      BY <1>1, SumBound
<1>6. SumFunction(total) \in Nat
      BY <1>1, <1>2, SumType
<1>7. QED
      BY <1>1, <1>2, <1>4, <1>5, <1>6

LEMMA NothingFits == Nothing \in Snapshots /\ Consistent(Nothing) /\ SumFunction(Zero) \in Nat
<1>1. IsFiniteSet(IPs) /\ MaxTotal \in Nat /\ Cardinality(IPs) \in Nat
      BY StatsAssumption, FS_CardinalityType
<1>2. Zero \in [IPs -> 0..MaxTotal] /\ Zero \in [IPs -> Nat]
      BY <1>1 DEF Zero
<1>3. MaxTotal * Cardinality(IPs) \in Nat
      BY <1>1
<1>4. 0 \in 0..(MaxTotal * Cardinality(IPs))
      BY <1>3
<1>5. SumFunction(Zero) \in Nat
      BY <1>1, <1>2, SumType
<1>6. Nothing \in Snapshots
      BY <1>2, <1>4 DEF Nothing, Snapshots
<1>7. QED
      BY <1>5, <1>6 DEF Nothing, Consistent

LEMMA SnapFields ==
  ASSUME NEW snap \in Snapshots
  PROVE  /\ snap.global \in Nat /\ snap.global \in 0..(MaxTotal * Cardinality(IPs))
         /\ snap.per \in [IPs -> 0..MaxTotal] /\ snap.per \in [IPs -> Nat]
<1>1. snap.global \in 0..(MaxTotal * Cardinality(IPs)) /\ snap.per \in [IPs -> 0..MaxTotal]
      BY DEF Snapshots
<1>2. MaxTotal \in Nat
      BY StatsAssumption
<1>3. snap.per \in [IPs -> Nat]
      BY <1>1, <1>2
<1>4. QED
      BY <1>1, <1>3

LEMMA SnapMoves ==
  ASSUME NEW A, NEW B, NEW r \in [global : A, per : B], NEW g \in A, NEW p \in B
  PROVE  /\ [r EXCEPT !.global = g] \in [global : A, per : B]
         /\ [r EXCEPT !.global = g].global = g /\ [r EXCEPT !.global = g].per = r.per
         /\ [r EXCEPT !.per = p] \in [global : A, per : B]
         /\ [r EXCEPT !.per = p].per = p /\ [r EXCEPT !.per = p].global = r.global
OBVIOUS

\* A record of a save, field by field.
LEMMA SaverFields ==
  ASSUME NEW r \in SaverType
  PROVE  /\ r.at \in SaverPlaces /\ r.todo \subseteq IPs /\ r.snap \in Snapshots
         /\ r.file \in Names \cup {"none"}
  BY DEF SaverType

\* What an EXCEPT makes of such a record.
LEMMA LoadsGlobal ==
  ASSUME NEW A, NEW B, NEW C, NEW D, NEW r \in [at : A, todo : B, snap : C, file : D],
         NEW a \in A, NEW t \in B, NEW n \in C, NEW u,
         u = [r EXCEPT !.at = a, !.todo = t, !.snap = n]
  PROVE  /\ u \in [at : A, todo : B, snap : C, file : D]
         /\ u.at = a /\ u.todo = t /\ u.snap = n /\ u.file = r.file
OBVIOUS

LEMMA LoadsIp ==
  ASSUME NEW A, NEW B, NEW C, NEW D, NEW r \in [at : A, todo : B, snap : C, file : D],
         NEW a \in A, NEW t \in B, NEW n \in C, NEW u,
         u = [r EXCEPT !.snap = n, !.todo = t, !.at = a]
  PROVE  /\ u \in [at : A, todo : B, snap : C, file : D]
         /\ u.at = a /\ u.todo = t /\ u.snap = n /\ u.file = r.file
OBVIOUS

LEMMA Opens ==
  ASSUME NEW A, NEW B, NEW C, NEW D, NEW r \in [at : A, todo : B, snap : C, file : D],
         NEW a \in A, NEW f \in D, NEW u, u = [r EXCEPT !.at = a, !.file = f]
  PROVE  /\ u \in [at : A, todo : B, snap : C, file : D]
         /\ u.at = a /\ u.todo = r.todo /\ u.snap = r.snap /\ u.file = f
OBVIOUS

LEMMA Writes ==
  ASSUME NEW A, NEW B, NEW C, NEW D, NEW r \in [at : A, todo : B, snap : C, file : D],
         NEW a \in A, NEW u, u = [r EXCEPT !.at = a]
  PROVE  /\ u \in [at : A, todo : B, snap : C, file : D]
         /\ u.at = a /\ u.todo = r.todo /\ u.snap = r.snap /\ u.file = r.file
OBVIOUS

LEMMA FinishedType ==
  ASSUME NEW s \in Savers
  PROVE  /\ Finished(s) \in SaverType /\ Finished(s).at \in {"idle", "done"}
         /\ Finished(s).snap = Nothing /\ Finished(s).todo = {} /\ Idle \in SaverType
         /\ Idle.at = "idle" /\ Idle.snap = Nothing
<1>1. {} \in SUBSET IPs /\ "none" \in Names \cup {"none"} /\ {"idle", "done"} \subseteq SaverPlaces
      BY DEF SaverPlaces
<1>2. Idle \in SaverType
      BY <1>1, NothingFits DEF Idle, SaverType
<1>3. [Idle EXCEPT !.at = "done"] = [at |-> "done", todo |-> {}, snap |-> Nothing, file |-> "none"]
      BY DEF Idle
<1>4. [Idle EXCEPT !.at = "done"] \in SaverType
      BY <1>1, <1>3, NothingFits DEF SaverType
<1>5. QED
      BY <1>2, <1>3, <1>4 DEF Finished, Idle

Others(s) == \A o \in Savers \ {s} : saver'[o] = saver[o]

\* The record of s becomes one with these fields.
Becomes(s, at, todo, snap, file) ==
    /\ saver' \in [Savers -> SaverType] /\ Others(s)
    /\ saver'[s].at = at /\ saver'[s].todo = todo
    /\ saver'[s].snap = snap /\ saver'[s].file = file

LEMMA BecomesIs ==
  ASSUME saver \in [Savers -> SaverType], NEW s \in Savers, NEW u \in SaverType,
         saver' = [saver EXCEPT ![s] = u]
  PROVE  Becomes(s, u.at, u.todo, u.snap, u.file) /\ saver'[s] = u
  BY DEF Becomes, Others

LEMMA LoadGlobalStep ==
  ASSUME TypeOK, NEW s \in Savers, LoadGlobal(s), global <= MaxTotal * Cardinality(IPs)
  PROVE  /\ [saver[s].snap EXCEPT !.global = global] \in Snapshots
         /\ Becomes(s, "load", IPs, [saver[s].snap EXCEPT !.global = global], saver[s].file)
<1> DEFINE snap == [saver[s].snap EXCEPT !.global = global]
           u == [saver[s] EXCEPT !.at = "load", !.todo = IPs, !.snap = snap]
<1>1. saver \in [Savers -> SaverType] /\ global \in Nat
      BY DEF TypeOK, SaverType, SaverPlaces
<1>2. saver[s] \in SaverType
      BY <1>1
<1>3. saver' = [saver EXCEPT ![s].at = "load", ![s].todo = IPs, ![s].snap.global = global]
      BY DEF LoadGlobal
<1>4. saver' = [saver EXCEPT ![s] = u]
      BY <1>1, <1>3
<1>5. snap \in Snapshots
      BY <1>1, <1>2, Sizes, SaverFields, SnapMoves DEF Snapshots
<1> HIDE DEF snap
<1>6. "load" \in SaverPlaces /\ IPs \in SUBSET IPs
      BY DEF SaverPlaces
<1>7. /\ u \in SaverType
      /\ u.at = "load" /\ u.todo = IPs /\ u.snap = snap /\ u.file = saver[s].file
      BY <1>2, <1>5, <1>6, LoadsGlobal DEF SaverType
<1> HIDE DEF u
<1>8. Becomes(s, u.at, u.todo, u.snap, u.file)
      BY <1>1, <1>4, <1>7, BecomesIs
<1>9. QED
      BY <1>5, <1>7, <1>8 DEF snap

LEMMA LoadIpStep ==
  ASSUME TypeOK, NEW s \in Savers, NEW ip \in IPs, LoadIp(s, ip)
  PROVE  Becomes(s, IF saver[s].todo = {ip} THEN "open" ELSE "load", saver[s].todo \ {ip},
                 [saver[s].snap EXCEPT !.per = [saver[s].snap.per EXCEPT ![ip] = total[ip]]],
                 saver[s].file)
<1> DEFINE per == [saver[s].snap.per EXCEPT ![ip] = total[ip]]
           snap == [saver[s].snap EXCEPT !.per = per]
           todo == saver[s].todo \ {ip}
           at == IF saver[s].todo = {ip} THEN "open" ELSE "load"
           u == [saver[s] EXCEPT !.snap = snap, !.todo = todo, !.at = at]
<1>1. saver \in [Savers -> SaverType] /\ total \in [IPs -> 0..MaxTotal]
      BY DEF TypeOK, SaverType, SaverPlaces
<1>2. saver[s] \in SaverType
      BY <1>1
<1>3. saver' = [saver EXCEPT ![s].snap.per[ip] = total[ip], ![s].todo = @ \ {ip}, ![s].at = at]
      BY DEF LoadIp
<1>4. saver' = [saver EXCEPT ![s] = u]
      BY <1>1, <1>3
<1>5. snap \in Snapshots
  <2>1. saver[s].snap \in Snapshots
        BY <1>2, SaverFields
  <2>2. per \in [IPs -> 0..MaxTotal]
        BY <1>1, <2>1, SnapFields
  <2> HIDE DEF per
  <2>3. QED
        BY <2>1, <2>2, SnapMoves DEF Snapshots
<1>6. at \in SaverPlaces /\ todo \in SUBSET IPs
      BY <1>2, SaverFields DEF SaverPlaces
<1> HIDE DEF snap, at, todo
<1>7. u \in SaverType /\ u.at = at /\ u.todo = todo /\ u.snap = snap /\ u.file = saver[s].file
      BY <1>2, <1>5, <1>6, LoadsIp DEF SaverType
<1> HIDE DEF u
<1>8. Becomes(s, u.at, u.todo, u.snap, u.file)
      BY <1>1, <1>4, <1>7, BecomesIs
<1>9. Becomes(s, at, todo, snap, saver[s].file)
      BY <1>7, <1>8
<1>10. QED
      BY <1>9 DEF snap, at, todo

LEMMA OpenStep ==
  ASSUME TypeOK, NEW s \in Savers, Open(s)
  PROVE  Becomes(s, "write", saver[s].todo, saver[s].snap, "tmp")
<1> DEFINE u == [saver[s] EXCEPT !.at = "write", !.file = "tmp"]
<1>1. saver \in [Savers -> SaverType]
      BY DEF TypeOK, SaverType, SaverPlaces
<1>2. saver[s] \in SaverType /\ "write" \in SaverPlaces /\ "tmp" \in Names \cup {"none"}
      BY <1>1 DEF SaverPlaces, Names
<1>3. saver' = [saver EXCEPT ![s] = u]
      BY <1>1 DEF Open
<1>4. /\ u \in SaverType /\ u.at = "write" /\ u.todo = saver[s].todo
      /\ u.snap = saver[s].snap /\ u.file = "tmp"
      BY <1>2, Opens DEF SaverType
<1> HIDE DEF u
<1>5. Becomes(s, u.at, u.todo, u.snap, u.file)
      BY <1>1, <1>3, <1>4, BecomesIs
<1>6. QED
      BY <1>4, <1>5

LEMMA WriteStep ==
  ASSUME TypeOK, NEW s \in Savers, Write(s)
  PROVE  Becomes(s, "rename", saver[s].todo, saver[s].snap, saver[s].file)
<1> DEFINE u == [saver[s] EXCEPT !.at = "rename"]
<1>1. saver \in [Savers -> SaverType]
      BY DEF TypeOK, SaverType, SaverPlaces
<1>2. saver[s] \in SaverType /\ "rename" \in SaverPlaces
      BY <1>1 DEF SaverPlaces
<1>3. saver' = [saver EXCEPT ![s] = u]
      BY <1>1 DEF Write
<1>4. /\ u \in SaverType /\ u.at = "rename" /\ u.todo = saver[s].todo
      /\ u.snap = saver[s].snap /\ u.file = saver[s].file
      BY <1>2, Writes DEF SaverType
<1> HIDE DEF u
<1>5. Becomes(s, u.at, u.todo, u.snap, u.file)
      BY <1>1, <1>3, <1>4, BecomesIs
<1>6. QED
      BY <1>4, <1>5

\* A rename ends a save, and changes at most the names of the other's file.
LEMMA RenameStep ==
  ASSUME TypeOK, NEW s \in Savers, Rename(s)
  PROVE  /\ saver' \in [Savers -> SaverType]
         /\ saver'[s].at \in {"idle", "done"} /\ saver'[s].snap = Nothing
         /\ \A o \in Savers \ {s} :
              /\ saver'[o].at = saver[o].at /\ saver'[o].todo = saver[o].todo
              /\ saver'[o].snap = saver[o].snap
<1> DEFINE end == [saver EXCEPT ![s] = Finished(s)]
<1>1. saver \in [Savers -> SaverType]
      BY DEF TypeOK, SaverType, SaverPlaces
<1>2. /\ end \in [Savers -> SaverType] /\ end[s] = Finished(s)
      /\ \A o \in Savers \ {s} : end[o] = saver[o]
      BY <1>1, FinishedType
<1> HIDE DEF end
<1>3. CASE disk.tmpExists
  <2>1. saver' = [o \in Savers |-> [end[o] EXCEPT !.file = AfterRename(@)]]
        BY <1>3 DEF Rename, end
  <2>2. ASSUME NEW o \in Savers
        PROVE  /\ saver'[o] \in SaverType /\ saver'[o].at = end[o].at
               /\ saver'[o].todo = end[o].todo /\ saver'[o].snap = end[o].snap
    <3> DEFINE f == AfterRename(end[o].file)
    <3>1. saver'[o] = [end[o] EXCEPT !.file = f]
          BY <2>1
    <3>2. f \in Names \cup {"none"}
          BY DEF AfterRename, Names
    <3> HIDE DEF f
    <3>3. end[o] \in SaverType
          BY <1>2
    <3>4. QED
          BY <3>1, <3>2, <3>3 DEF SaverType
  <2>3. saver' \in [Savers -> SaverType]
        BY <2>1, <2>2
  <2>4. QED
        BY <1>2, <2>2, <2>3, FinishedType
<1>4. CASE ~disk.tmpExists
  <2>1. saver' = end
        BY <1>4 DEF Rename, end
  <2>2. QED
        BY <1>2, <2>1, FinishedType
<1>5. QED
      BY <1>3, <1>4

LEMMA SaveFailsStep ==
  ASSUME TypeOK, NEW s \in Savers, SaveFails(s)
  PROVE  /\ saver' \in [Savers -> SaverType] /\ Others(s)
         /\ saver'[s].at \in {"idle", "done"} /\ saver'[s].snap = Nothing
<1>1. saver \in [Savers -> SaverType]
      BY DEF TypeOK, SaverType, SaverPlaces
<1>2. saver' = [saver EXCEPT ![s] = Finished(s)]
      BY DEF SaveFails
<1>3. QED
      BY <1>1, <1>2, FinishedType, BecomesIs DEF Becomes

DiskType == [content : [Names -> SUBSET Snapshots], tmpExists : BOOLEAN]

\* What an EXCEPT makes of the record of the files.
LEMMA DiskMoves ==
  ASSUME NEW N, NEW C, NEW B, NEW d \in [content : [N -> C], tmpExists : B],
         NEW f \in N, NEW c \in C
  PROVE  /\ [d EXCEPT !.content[f] = c] \in [content : [N -> C], tmpExists : B]
         /\ [d EXCEPT !.content[f] = c].content = [d.content EXCEPT ![f] = c]
         /\ [d EXCEPT !.content[f] = c].tmpExists = d.tmpExists
OBVIOUS

LEMMA DiskOpens ==
  ASSUME NEW N, NEW C, NEW B, NEW d \in [content : [N -> C], tmpExists : B],
         NEW f \in N, NEW c \in C, NEW b \in B
  PROVE  /\ [d EXCEPT !.content[f] = c, !.tmpExists = b] \in [content : [N -> C], tmpExists : B]
         /\ [d EXCEPT !.content[f] = c, !.tmpExists = b].content = [d.content EXCEPT ![f] = c]
         /\ [d EXCEPT !.content[f] = c, !.tmpExists = b].tmpExists = b
OBVIOUS

\* One file is truncated, or written by s.
LEMMA OpenDisk ==
  ASSUME TypeOK, NEW s \in Savers, Open(s)
  PROVE  /\ disk' \in DiskType /\ disk'.tmpExists = TRUE
         /\ disk'.content["tmp"] = Torn /\ disk'.content["path"] = disk.content["path"]
<1>1. disk \in DiskType /\ Torn \in SUBSET Snapshots /\ "tmp" \in Names /\ TRUE \in BOOLEAN
      BY DEF TypeOK, DiskType, Torn, Names
<1>2. disk' = [disk EXCEPT !.content["tmp"] = Torn, !.tmpExists = TRUE]
      BY DEF Open
<1>3. /\ disk' \in DiskType /\ disk'.tmpExists = TRUE
      /\ disk'.content = [disk.content EXCEPT !["tmp"] = Torn]
      BY <1>1, <1>2, DiskOpens DEF DiskType
<1>4. disk.content \in [Names -> SUBSET Snapshots]
      BY <1>1 DEF DiskType
<1>5. QED
      BY <1>3, <1>4 DEF Names

LEMMA WriteDisk ==
  ASSUME TypeOK, NEW s \in Savers, Write(s)
  PROVE  /\ disk' \in DiskType /\ disk'.tmpExists = disk.tmpExists
         /\ \A f \in Names :
              \/ disk'.content[f] = disk.content[f] /\ saver[s].file # f
              \/ disk'.content[f] = {saver[s].snap} /\ saver[s].file = f
              \/ disk'.content[f] = Torn /\ disk.content[f] # Torn /\ saver[s].file = f
<1>1. /\ disk \in DiskType /\ Torn \in SUBSET Snapshots /\ saver[s] \in SaverType
      /\ saver \in [Savers -> SaverType]
      BY DEF TypeOK, DiskType, Torn, SaverType, SaverPlaces
<1>2. saver[s].snap \in Snapshots /\ saver[s].file \in Names \cup {"none"} /\ "none" \notin Names
      BY <1>1, SaverFields DEF Names
<1>3. CASE saver[s].file = "none"
  <2>1. disk' = disk
        BY <1>3 DEF Write
  <2>2. QED
        BY <1>1, <1>2, <1>3, <2>1
<1>4. CASE saver[s].file # "none"
  <2> DEFINE f == saver[s].file
  <2>1. PICK c \in {{saver[s].snap}} \cup (IF disk.content[f] = Torn THEN {} ELSE {Torn}) :
            disk' = [disk EXCEPT !.content[f] = c]
        BY <1>4 DEF Write
  <2>2. /\ f \in Names /\ c \in SUBSET Snapshots
        /\ \/ c = {saver[s].snap}
           \/ c = Torn /\ disk.content[f] # Torn
        BY <1>1, <1>2, <1>4, <2>1
  <2> HIDE DEF f
  <2>3. /\ disk' \in DiskType /\ disk'.content = [disk.content EXCEPT ![f] = c]
        /\ disk'.tmpExists = disk.tmpExists
        BY <1>1, <2>1, <2>2, DiskMoves DEF DiskType
  <2>4. disk.content \in [Names -> SUBSET Snapshots]
        BY <1>1 DEF DiskType
  <2>5. QED
        BY <2>2, <2>3, <2>4 DEF f
<1>5. QED
      BY <1>3, <1>4

LEMMA RenameDisk ==
  ASSUME TypeOK, NEW s \in Savers, Rename(s)
  PROVE  /\ disk' \in DiskType /\ durable' \in Snapshots
         /\ \/ /\ ~disk.tmpExists /\ disk' = disk /\ durable' = durable
            \/ /\ disk.tmpExists /\ disk'.content["tmp"] = Torn
               /\ disk'.content["path"] = disk.content["tmp"] /\ durable' = saver[s].snap
<1>1. /\ disk \in DiskType /\ Torn \in SUBSET Snapshots /\ saver[s] \in SaverType
      /\ durable \in Snapshots
      BY DEF TypeOK, DiskType, Torn, SaverType, SaverPlaces
<1>2. saver[s].snap \in Snapshots /\ disk.content \in [Names -> SUBSET Snapshots]
      BY <1>1, SaverFields DEF DiskType
<1>3. CASE disk.tmpExists
  <2>1. /\ disk' = [content |-> [path |-> disk.content["tmp"], tmp |-> Torn], tmpExists |-> FALSE]
        /\ durable' = saver[s].snap
        BY <1>3 DEF Rename
  <2> DEFINE c == [path |-> disk.content["tmp"], tmp |-> Torn]
  <2>2. c \in [Names -> SUBSET Snapshots] /\ c["tmp"] = Torn /\ c["path"] = disk.content["tmp"]
        BY <1>1, <1>2 DEF Names
  <2> HIDE DEF c
  <2>3. disk' = [content |-> c, tmpExists |-> FALSE]
        BY <2>1 DEF c
  <2>4. disk' \in DiskType /\ disk'.content = c
        BY <2>2, <2>3 DEF DiskType
  <2>5. QED
        BY <1>2, <1>3, <2>1, <2>2, <2>4
<1>4. CASE ~disk.tmpExists
  <2>1. disk' = disk /\ durable' = durable
        BY <1>4 DEF Rename
  <2>2. QED
        BY <1>1, <1>4, <2>1
<1>5. QED
      BY <1>3, <1>4

\* What load_from_file returns.
Persisted ==
    IF disk.content["path"] = Torn THEN Nothing ELSE CHOOSE snap \in disk.content["path"] : TRUE

LEMMA StartIs ==
  ASSUME TypeOK, Files, Start
  PROVE  /\ Persisted \in Snapshots /\ Consistent(Persisted)
         /\ total' = Persisted.per /\ global' = Persisted.global /\ durable' = Persisted
         /\ \/ disk.content["path"] = {Persisted}
            \/ disk.content["path"] = Torn /\ Persisted = Nothing
<1>1. total' = Persisted.per /\ global' = Persisted.global /\ durable' = Persisted
      BY DEF Start, Persisted
<1>2. CASE disk.content["path"] = Torn
  <2>1. Persisted = Nothing
        BY <1>2 DEF Persisted
  <2>2. QED
        BY <1>1, <1>2, <2>1, NothingFits
<1>3. CASE disk.content["path"] # Torn
  <2>1. PICK snap \in Snapshots : disk.content["path"] = {snap} /\ Consistent(snap)
        BY <1>3 DEF Files, Names
  <2>2. Persisted = snap
        BY <1>3, <2>1 DEF Persisted
  <2>3. QED
        BY <1>1, <2>1, <2>2
<1>4. QED
      BY <1>2, <1>3

\* The global total is no larger than what a snapshot may hold.
LEMMA GlobalFits ==
  ASSUME TypeOK, Ahead
  PROVE  /\ global \in Nat /\ global <= SumFunction(total) /\ global <= MaxTotal * Cardinality(IPs)
         /\ IsFiniteSet(Recorded) /\ Cardinality(Recorded) \in Nat
<1>1. IsFiniteSet(Recorded)
      BY StatsAssumption, FS_Subset DEF Recorded
<1>2. Cardinality(Recorded) \in Nat /\ global \in Nat
      BY <1>1, FS_CardinalityType DEF TypeOK
<1>3. global <= SumFunction(total)
      BY <1>2, Sizes DEF Ahead
<1>4. QED
      BY <1>1, <1>2, <1>3, Sizes

-----------------------------------------------------------------------------
(* The invariant holds and is kept, conjunct by conjunct.                   *)

LEMMA InitInv == Init => Inv
<1> SUFFICES ASSUME Init PROVE Inv
    OBVIOUS
<1>1. Idle \in SaverType /\ Idle.at = "idle" /\ Idle.snap = Nothing
      BY FinishedType DEF Savers
<1>2. /\ saver \in [Savers -> SaverType] /\ \A s \in Savers : saver[s] = Idle
      /\ \A s \in Savers : saver[s].at = "idle" /\ saver[s].snap = Nothing
      BY <1>1 DEF Init
<1>3. TypeOK
  <2>1. Zero \in [IPs -> Nat] /\ Zero \in [IPs -> 0..MaxTotal] /\ MaxSockets \in Nat
        BY StatsAssumption DEF Zero
  <2>2. /\ call \in [Calls -> {"none", "recorded", "routing"}]
        /\ socket \in [Sockets -> {"none", "connecting", "open"}]
        /\ leaked \in [rpc : [IPs -> Nat], ws : [IPs -> Nat]] /\ accepted \in 0..MaxSockets
        BY <2>1 DEF Init
  <2>3. disk \in [content : [Names -> SUBSET Snapshots], tmpExists : BOOLEAN]
        BY DEF Init, Torn
  <2>4. /\ process \in {"running", "stopping", "down"} /\ durable \in Snapshots
        /\ crossed \in BOOLEAN /\ global \in Nat
        BY NothingFits DEF Init
  <2>5. QED
        BY <1>2, <2>1, <2>2, <2>3, <2>4 DEF TypeOK, Init, SaverType, SaverPlaces
<1>4. ActiveIsAccountedFor
  <2>1. ASSUME NEW ip \in IPs
        PROVE  At(call, ip, {"routing"}) = 0 /\ At(socket, ip, {"connecting", "open"}) = 0
        BY NoneCounted DEF Init
  <2>2. ASSUME NEW ip \in IPs
        PROVE  activeRpc[ip] = 0 /\ leaked.rpc[ip] = 0 /\ activeWs[ip] = 0 /\ leaked.ws[ip] = 0
        BY DEF Init, Zero
  <2>3. QED
        BY <2>1, <2>2 DEF ActiveIsAccountedFor
<1>5. Quiet
      BY <1>2 DEF Init, Quiet
<1>6. Ahead
  <2>1. Recorded = {}
        BY DEF Init, Recorded
  <2>2. total = Zero /\ global = 0
        BY DEF Init
  <2>3. QED
        BY <2>1, <2>2, NothingFits, FS_EmptySet DEF Ahead
<1>7. Loading
      BY <1>2, NothingFits DEF Loading
<1>8. Files
      BY DEF Init, Files
<1>9. Solo
      BY <1>2 DEF Solo, Busy
<1>10. Saved
      BY DEF Init, Saved, Names
<1>11. QED
      BY <1>3, <1>4, <1>5, <1>6, <1>7, <1>8, <1>9, <1>10 DEF Inv

\* What the steps of each kind leave alone.
CallStep(q) == RecordIp(q) \/ RecordGlobal(q) \/ Respond(q) \/ ClientLeaves(q)
SocketStep(w) == Accept(w) \/ UpstreamFails(w) \/ UpstreamConnects(w) \/ Close(w)
SaverStep(s) ==
    \/ LoadGlobal(s) \/ \E ip \in IPs : LoadIp(s, ip)
    \/ Open(s) \/ Write(s) \/ Rename(s) \/ SaveFails(s)

LEMMA Steps ==
  ASSUME Next
  PROVE  \/ \E q \in Calls : CallStep(q)
         \/ \E w \in Sockets : SocketStep(w)
         \/ \E s \in Savers : SaverStep(s)
         \/ Shutdown \/ (Alive /\ Dies) \/ Start
  BY DEF Next, CallStep, SocketStep, SaverStep, Exit, Crash, Alive

LEMMA CallKeeps ==
  ASSUME NEW q \in Calls, CallStep(q)
  PROVE  /\ Alive /\ process' = process
         /\ socket' = socket /\ activeWs' = activeWs /\ accepted' = accepted
         /\ saver' = saver /\ disk' = disk /\ durable' = durable /\ crossed' = crossed
  BY DEF CallStep, RecordIp, RecordGlobal, Respond, ClientLeaves, CallTo, saving, totals

LEMMA SocketKeeps ==
  ASSUME NEW w \in Sockets, SocketStep(w)
  PROVE  /\ Alive /\ process' = process
         /\ call' = call /\ activeRpc' = activeRpc /\ total' = total /\ global' = global
         /\ saver' = saver /\ disk' = disk /\ durable' = durable /\ crossed' = crossed
  BY DEF SocketStep, Accept, UpstreamFails, UpstreamConnects, Close, SocketTo, saving, totals

LEMMA SaverKeeps ==
  ASSUME NEW s \in Savers, SaverStep(s)
  PROVE  /\ process' = process /\ total' = total /\ global' = global
         /\ call' = call /\ socket' = socket /\ activeRpc' = activeRpc /\ activeWs' = activeWs
         /\ leaked' = leaked /\ accepted' = accepted
  BY DEF SaverStep, LoadGlobal, LoadIp, Open, Write, Rename, SaveFails, connections, totals

\* A save that is idle begins in a process that is alive, others are under way.
LEMMA SaverAlive ==
  ASSUME Quiet, NEW s \in Savers, SaverStep(s)
  PROVE  Alive
<1>1. process = "down" => saver[s].at = "idle"
      BY DEF Quiet, Idle
<1>2. QED
      BY <1>1 DEF SaverStep, LoadGlobal, LoadIp, Open, Write, Rename, SaveFails, Alive

LEMMA DiesIs ==
  ASSUME Dies
  PROVE  /\ process' = "down" /\ total' = Zero /\ global' = 0
         /\ saver' \in [Savers -> SaverType]
         /\ \A s \in Savers : saver'[s] = Idle /\ saver'[s].at = "idle" /\ saver'[s].snap = Nothing
         /\ disk' = disk /\ durable' = durable /\ crossed' = crossed
<1>1. Idle \in SaverType /\ Idle.at = "idle" /\ Idle.snap = Nothing
      BY FinishedType DEF Savers
<1>2. QED
      BY <1>1 DEF Dies

\* The saves keep their type, whoever moves.
LEMMA SaverTypeStep ==
  ASSUME Inv, NEW s \in Savers, SaverStep(s)
  PROVE  saver' \in [Savers -> SaverType]
<1>0. TypeOK /\ Ahead
      BY DEF Inv
<1>1. CASE LoadGlobal(s)
      BY <1>0, <1>1, GlobalFits, LoadGlobalStep DEF Becomes
<1>2. CASE \E ip \in IPs : LoadIp(s, ip)
      BY <1>0, <1>2, LoadIpStep DEF Becomes
<1>3. CASE Open(s)
      BY <1>0, <1>3, OpenStep DEF Becomes
<1>4. CASE Write(s)
      BY <1>0, <1>4, WriteStep DEF Becomes
<1>5. CASE Rename(s)
      BY <1>0, <1>5, RenameStep
<1>6. CASE SaveFails(s)
      BY <1>0, <1>6, SaveFailsStep
<1>7. QED
      BY <1>1, <1>2, <1>3, <1>4, <1>5, <1>6 DEF SaverStep

LEMMA SaverDiskStep ==
  ASSUME Inv, NEW s \in Savers, SaverStep(s)
  PROVE  disk' \in DiskType /\ durable' \in Snapshots /\ crossed' \in BOOLEAN
<1>0. TypeOK /\ disk \in DiskType /\ durable \in Snapshots /\ crossed \in BOOLEAN
      BY DEF Inv, TypeOK, DiskType
<1>1. CASE LoadGlobal(s)
      BY <1>0, <1>1 DEF LoadGlobal
<1>2. CASE \E ip \in IPs : LoadIp(s, ip)
      BY <1>0, <1>2 DEF LoadIp
<1>3. CASE Open(s)
      BY <1>0, <1>3, OpenDisk DEF Open
<1>4. CASE Write(s)
      BY <1>0, <1>4, WriteDisk DEF Write
<1>5. CASE Rename(s)
      BY <1>0, <1>5, RenameDisk DEF Rename
<1>6. CASE SaveFails(s)
      BY <1>0, <1>6 DEF SaveFails
<1>7. QED
      BY <1>1, <1>2, <1>3, <1>4, <1>5, <1>6 DEF SaverStep

LEMMA TypeStep ==
  ASSUME Inv, Next
  PROVE  TypeOK'
<1>0. TypeOK /\ ActiveIsAccountedFor /\ Files
      BY DEF Inv
<1>1. ASSUME NEW q \in Calls, CallStep(q) PROVE TypeOK'
  <2>1. /\ call' \in [Calls -> CallPlaces] /\ activeRpc' \in [IPs -> Nat]
        /\ leaked' \in [rpc : [IPs -> Nat], ws : [IPs -> Nat]]
        BY <1>0, <1>1, CallsAccounted DEF CallStep
  <2>2. total \in [IPs -> 0..MaxTotal] /\ global \in Nat /\ MaxTotal \in Nat /\ Ip[q] \in IPs
        BY <1>0, StatsAssumption DEF TypeOK
  <2>3. total' \in [IPs -> 0..MaxTotal]
    <3>1. CASE total' = total
          BY <2>2, <3>1
    <3>2. CASE RecordIp(q)
      <4>1. total' = [total EXCEPT ![Ip[q]] = @ + 1] /\ total[Ip[q]] < MaxTotal
            BY <3>2 DEF RecordIp, Bump
      <4>2. total[Ip[q]] + 1 \in 0..MaxTotal
            BY <2>2, <4>1
      <4>3. QED
            BY <2>2, <4>1, <4>2
    <3>3. QED
          BY <1>1, <3>1, <3>2 DEF CallStep, RecordGlobal, Respond, ClientLeaves, totals
  <2>4. global' \in Nat
        BY <1>1, <2>2 DEF CallStep, RecordIp, RecordGlobal, Respond, ClientLeaves, totals
  <2>5. /\ process' = process /\ socket' = socket /\ activeWs' = activeWs /\ accepted' = accepted
        /\ saver' = saver /\ disk' = disk /\ durable' = durable /\ crossed' = crossed
        BY <1>1, CallKeeps
  <2>6. QED
        BY <1>0, <2>1, <2>3, <2>4, <2>5 DEF TypeOK, CallPlaces
<1>2. ASSUME NEW w \in Sockets, SocketStep(w) PROVE TypeOK'
  <2>1. /\ socket' \in [Sockets -> SocketPlaces] /\ activeWs' \in [IPs -> Nat]
        /\ leaked' \in [rpc : [IPs -> Nat], ws : [IPs -> Nat]]
        BY <1>0, <1>2, SocketsAccounted DEF SocketStep
  <2>2. accepted \in 0..MaxSockets /\ MaxSockets \in Nat
        BY <1>0, StatsAssumption DEF TypeOK
  <2>3. accepted' \in 0..MaxSockets
        BY <1>2, <2>2 DEF SocketStep, Accept, UpstreamFails, UpstreamConnects, Close
  <2>4. /\ process' = process
        /\ call' = call /\ activeRpc' = activeRpc /\ total' = total /\ global' = global
        /\ saver' = saver /\ disk' = disk /\ durable' = durable /\ crossed' = crossed
        BY <1>2, SocketKeeps
  <2>5. QED
        BY <1>0, <2>1, <2>3, <2>4 DEF TypeOK, SocketPlaces
<1>3. ASSUME NEW s \in Savers, SaverStep(s) PROVE TypeOK'
  <2>1. saver' \in [Savers -> SaverType]
        BY <1>3, SaverTypeStep
  <2>2. disk' \in DiskType /\ durable' \in Snapshots /\ crossed' \in BOOLEAN
        BY <1>3, SaverDiskStep
  <2>3. /\ process' = process /\ total' = total /\ global' = global
        /\ call' = call /\ socket' = socket /\ activeRpc' = activeRpc /\ activeWs' = activeWs
        /\ leaked' = leaked /\ accepted' = accepted
        BY <1>3, SaverKeeps
  <2>4. QED
        BY <1>0, <2>1, <2>2, <2>3 DEF TypeOK, SaverType, SaverPlaces, DiskType
<1>4. CASE Shutdown
      BY <1>0, <1>4 DEF TypeOK, Shutdown, connections, totals, saving
<1>5. CASE Dies
  <2>1. Zero \in [IPs -> Nat] /\ Zero \in [IPs -> 0..MaxTotal] /\ MaxSockets \in Nat
        BY StatsAssumption DEF Zero
  <2>2. /\ call' \in [Calls -> {"none", "recorded", "routing"}]
        /\ socket' \in [Sockets -> {"none", "connecting", "open"}]
        /\ leaked' \in [rpc : [IPs -> Nat], ws : [IPs -> Nat]] /\ accepted' \in 0..MaxSockets
        BY <1>5, <2>1 DEF Dies
  <2>3. activeRpc' = Zero /\ activeWs' = Zero
        BY <1>5 DEF Dies
  <2>4. QED
        BY <1>0, <1>5, <2>1, <2>2, <2>3, DiesIs DEF TypeOK, SaverType, SaverPlaces
<1>6. CASE Start
  <2>1. total' \in [IPs -> 0..MaxTotal] /\ global' \in Nat /\ durable' \in Snapshots
        BY <1>0, <1>6, StartIs, SnapFields
  <2>2. /\ process' = "running" /\ crossed' = FALSE /\ saver' = saver /\ disk' = disk
        /\ call' = call /\ socket' = socket /\ activeRpc' = activeRpc /\ activeWs' = activeWs
        /\ leaked' = leaked /\ accepted' = accepted
        BY <1>6 DEF Start, connections
  <2>3. QED
        BY <1>0, <2>1, <2>2 DEF TypeOK
<1>7. QED
      BY <1>1, <1>2, <1>3, <1>4, <1>5, <1>6, Steps

LEMMA ActiveStep ==
  ASSUME Inv, Next
  PROVE  ActiveIsAccountedFor'
<1>0. TypeOK /\ ActiveIsAccountedFor
      BY DEF Inv
<1>1. ASSUME NEW q \in Calls, CallStep(q) PROVE ActiveIsAccountedFor'
      BY <1>0, <1>1, CallsAccounted DEF CallStep
<1>2. ASSUME NEW w \in Sockets, SocketStep(w) PROVE ActiveIsAccountedFor'
      BY <1>0, <1>2, SocketsAccounted DEF SocketStep
<1>3. CASE /\ call' = call /\ socket' = socket /\ leaked' = leaked
           /\ activeRpc' = activeRpc /\ activeWs' = activeWs
      BY <1>0, <1>3 DEF ActiveIsAccountedFor
<1>4. CASE Dies
  <2>1. ASSUME NEW ip \in IPs
        PROVE  At(call', ip, {"routing"}) = 0 /\ At(socket', ip, {"connecting", "open"}) = 0
        BY <1>4, NoneCounted DEF Dies
  <2>2. ASSUME NEW ip \in IPs
        PROVE  activeRpc'[ip] = 0 /\ leaked'.rpc[ip] = 0 /\ activeWs'[ip] = 0 /\ leaked'.ws[ip] = 0
        BY <1>4 DEF Dies, Zero
  <2>3. QED
        BY <2>1, <2>2 DEF ActiveIsAccountedFor
<1>5. QED
      BY <1>1, <1>2, <1>3, <1>4, Steps, SaverKeeps DEF Shutdown, Start, connections

LEMMA QuietStep ==
  ASSUME Inv, Next
  PROVE  Quiet'
<1>0. Quiet
      BY DEF Inv
<1>1. CASE Dies
  <2>1. \A q \in Calls : call'[q] = "none"
        BY <1>1 DEF Dies
  <2>2. QED
        BY <1>1, <2>1, DiesIs DEF Quiet
<1>2. CASE Alive /\ process' = process
      BY <1>2 DEF Quiet, Alive
<1>3. CASE Shutdown \/ Start
      BY <1>3 DEF Quiet, Shutdown, Start
<1>4. QED
      BY <1>0, <1>1, <1>2, <1>3, Steps, CallKeeps, SocketKeeps, SaverKeeps, SaverAlive

LEMMA AheadStep ==
  ASSUME Inv, Next
  PROVE  Ahead'
<1>0. TypeOK /\ Quiet /\ Ahead /\ Files
      BY DEF Inv
<1>1. /\ global \in Nat /\ IsFiniteSet(Recorded) /\ Cardinality(Recorded) \in Nat
      /\ SumFunction(total) \in Nat /\ IsFiniteSet(IPs) /\ total \in [IPs -> Nat]
      /\ global + Cardinality(Recorded) <= SumFunction(total)
      BY <1>0, GlobalFits, Sizes DEF Ahead
<1>2. call \in [Calls -> {"none", "recorded", "routing"}]
      BY <1>0 DEF TypeOK
<1>3. CASE call' = call /\ total' = total /\ global' = global
      BY <1>0, <1>3 DEF Ahead, Recorded
<1>4. ASSUME NEW q \in Calls, RecordIp(q) PROVE Ahead'
  <2>1. Ip[q] \in IPs
        BY StatsAssumption
  <2>2. /\ total' = [total EXCEPT ![Ip[q]] = @ + 1] /\ global' = global
        /\ call[q] = "none" /\ call' = [call EXCEPT ![q] = "recorded"]
        BY <1>4 DEF RecordIp, CallTo, Bump
  <2>3. SumFunction(total') = SumFunction(total) + 1
        BY <1>1, <2>1, <2>2, SumBump
  <2>4. Recorded' = Recorded \cup {q} /\ q \notin Recorded
        BY <1>2, <2>2 DEF Recorded
  <2>5. Cardinality(Recorded') = Cardinality(Recorded) + 1
        BY <1>1, <2>4, FS_AddElement
  <2>6. QED
        BY <1>1, <2>2, <2>3, <2>5 DEF Ahead
<1>5. ASSUME NEW q \in Calls, RecordGlobal(q) PROVE Ahead'
  <2>1. /\ total' = total /\ global' = global + 1
        /\ call[q] = "recorded" /\ call' = [call EXCEPT ![q] = "routing"]
        BY <1>5 DEF RecordGlobal, CallTo
  <2>2. Recorded = Recorded' \cup {q} /\ q \notin Recorded'
        BY <1>2, <2>1 DEF Recorded
  <2>3. IsFiniteSet(Recorded')
        BY <1>1, <2>2, FS_Subset
  <2>4. Cardinality(Recorded) = Cardinality(Recorded') + 1 /\ Cardinality(Recorded') \in Nat
        BY <2>2, <2>3, FS_AddElement, FS_CardinalityType
  <2>5. QED
        BY <1>1, <2>1, <2>4 DEF Ahead
<1>6. ASSUME NEW q \in Calls, Respond(q) \/ ClientLeaves(q) PROVE Ahead'
  <2>1. /\ total' = total /\ global' = global
        /\ call[q] = "routing" /\ call' = [call EXCEPT ![q] = "none"]
        BY <1>6 DEF Respond, ClientLeaves, CallTo, totals
  <2>2. Recorded' = Recorded
        BY <1>2, <2>1 DEF Recorded
  <2>3. QED
        BY <1>1, <2>1, <2>2 DEF Ahead
<1>7. CASE Dies
  <2>1. Recorded' = {}
        BY <1>7 DEF Dies, Recorded
  <2>2. total' = Zero /\ global' = 0
        BY <1>7, DiesIs
  <2>3. QED
        BY <2>1, <2>2, NothingFits, FS_EmptySet DEF Ahead
<1>8. CASE Start
  <2>1. Recorded' = {}
        BY <1>0, <1>8 DEF Start, Recorded, Quiet, connections
  <2>2. /\ total' = Persisted.per /\ global' = Persisted.global /\ Consistent(Persisted)
        /\ Persisted.global \in Nat
        BY <1>0, <1>8, StartIs, SnapFields
  <2>3. global' <= SumFunction(total') /\ global' \in Nat
        BY <2>2 DEF Consistent
  <2>4. Cardinality(Recorded') = 0
        BY <2>1, FS_EmptySet
  <2>5. QED
        BY <2>3, <2>4 DEF Ahead
<1>9. QED
      BY <1>3, <1>4, <1>5, <1>6, <1>7, <1>8, Steps, SocketKeeps, SaverKeeps
         DEF CallStep, Shutdown, connections, totals

\* A saver whose load is as before keeps its part of Loading if no total falls.
LoadingOf(s) ==
    /\ saver[s].at = "load" => saver[s].snap.global <= SumFunction(Mixed(s))
    /\ saver[s].at # "load" => Consistent(saver[s].snap)

LEMMA MixedType ==
  ASSUME TypeOK, NEW s \in Savers
  PROVE  /\ Mixed(s) \in [IPs -> Nat] /\ SumFunction(Mixed(s)) \in Nat /\ IsFiniteSet(IPs)
         /\ saver[s].snap \in Snapshots /\ saver[s].snap.global \in Nat
<1>1. saver[s] \in SaverType
      BY DEF TypeOK, SaverType, SaverPlaces
<1>2. /\ saver[s].snap.per \in [IPs -> Nat] /\ saver[s].snap.global \in Nat
      /\ saver[s].snap \in Snapshots
      BY <1>1, SaverFields, SnapFields
<1>3. Mixed(s) \in [IPs -> Nat]
      BY <1>2, Sizes DEF Mixed
<1>4. QED
      BY <1>2, <1>3, Sizes, SumType

LEMMA LoadingKept ==
  ASSUME TypeOK, TypeOK', NEW s \in Savers, LoadingOf(s),
         saver'[s].at = saver[s].at, saver'[s].todo = saver[s].todo, saver'[s].snap = saver[s].snap,
         \A ip \in IPs : total[ip] <= total'[ip]
  PROVE  LoadingOf(s)'
<1>1. CASE saver[s].at # "load"
      BY <1>1 DEF LoadingOf
<1>2. CASE saver[s].at = "load"
  <2>1. /\ Mixed(s) \in [IPs -> Nat] /\ SumFunction(Mixed(s)) \in Nat /\ IsFiniteSet(IPs)
        /\ saver[s].snap.global \in Nat
        BY MixedType
  <2>2. Mixed(s)' \in [IPs -> Nat] /\ SumFunction(Mixed(s)') \in Nat
    <3>1. saver[s].snap.per \in [IPs -> Nat] /\ MaxTotal \in Nat /\ total' \in [IPs -> 0..MaxTotal]
          BY MixedType, SnapFields, StatsAssumption DEF TypeOK
    <3>2. total' \in [IPs -> Nat]
          BY <3>1
    <3>3. Mixed(s)' \in [IPs -> Nat]
          BY <3>1, <3>2 DEF Mixed
    <3>4. QED
          BY <2>1, <3>3, SumType
  <2>3. \A ip \in IPs : Mixed(s)[ip] <= Mixed(s)'[ip]
    <3>1. saver[s].snap.per \in [IPs -> Nat]
          BY MixedType, SnapFields
    <3>2. SUFFICES ASSUME NEW ip \in IPs PROVE Mixed(s)[ip] <= Mixed(s)'[ip]
          OBVIOUS
    <3>3. saver[s].snap.per[ip] \in Nat /\ total[ip] <= total'[ip]
          BY <3>1
    <3>4. QED
          BY <3>3 DEF Mixed
  <2>4. SumFunction(Mixed(s)) <= SumFunction(Mixed(s)')
        BY <2>1, <2>2, <2>3, SumMonotone
  <2>5. saver[s].snap.global <= SumFunction(Mixed(s)')
        BY <1>2, <2>1, <2>2, <2>4 DEF LoadingOf
  <2>6. QED
        BY <1>2, <2>5 DEF LoadingOf
<1>3. QED
      BY <1>1, <1>2

LEMMA LoadingStep ==
  ASSUME Inv, TypeOK', Next
  PROVE  Loading'
<1>0. TypeOK /\ Ahead /\ Quiet /\ \A s \in Savers : LoadingOf(s)
      BY DEF Inv, Loading, LoadingOf
<1>1. SUFFICES \A s \in Savers : LoadingOf(s)'
      BY DEF Loading, LoadingOf
<1>2. total \in [IPs -> Nat]
      BY <1>0, Sizes
<1>3. ASSUME saver' = saver, \A ip \in IPs : total[ip] <= total'[ip]
      PROVE  \A s \in Savers : LoadingOf(s)'
      BY <1>0, <1>3, LoadingKept
<1>4. ASSUME NEW q \in Calls, CallStep(q) PROVE \A s \in Savers : LoadingOf(s)'
  <2>1. CASE total' = total
        BY <1>2, <1>3, <1>4, <2>1, CallKeeps
  <2>2. CASE RecordIp(q)
    <3>1. total' = [total EXCEPT ![Ip[q]] = @ + 1]
          BY <2>2 DEF RecordIp, Bump
    <3>2. \A ip \in IPs : total[ip] <= total'[ip]
          BY <1>2, <3>1
    <3>3. QED
          BY <1>3, <1>4, <3>2, CallKeeps
  <2>3. QED
        BY <1>4, <2>1, <2>2 DEF CallStep, RecordGlobal, Respond, ClientLeaves, totals
<1>5. ASSUME saver' = saver, total' = total PROVE \A s \in Savers : LoadingOf(s)'
      BY <1>2, <1>3, <1>5
<1>6. ASSUME NEW s \in Savers, SaverStep(s) PROVE \A o \in Savers : LoadingOf(o)'
  <2>0. total' = total
        BY <1>6, SaverKeeps
  <2>1. ASSUME NEW o \in Savers \ {s}
        PROVE  LoadingOf(o)'
    <3>1. /\ saver'[o].at = saver[o].at /\ saver'[o].todo = saver[o].todo
          /\ saver'[o].snap = saver[o].snap
      <4>1. CASE Rename(s)
            BY <1>0, <4>1, RenameStep
      <4>2. CASE ~Rename(s)
        <5>1. Others(s)
          <6>1. CASE LoadGlobal(s)
                BY <1>0, <6>1, GlobalFits, LoadGlobalStep DEF Becomes
          <6>2. CASE \E ip \in IPs : LoadIp(s, ip)
                BY <1>0, <6>2, LoadIpStep DEF Becomes
          <6>3. CASE Open(s) \/ Write(s)
                BY <1>0, <6>3, OpenStep, WriteStep DEF Becomes
          <6>4. QED
                BY <1>0, <1>6, <4>2, <6>1, <6>2, <6>3, SaveFailsStep DEF SaverStep
        <5>2. QED
              BY <5>1 DEF Others
      <4>3. QED
            BY <4>1, <4>2
    <3>2. QED
          BY <1>0, <1>2, <2>0, <3>1, LoadingKept
  <2>2. LoadingOf(s)'
    <3>1. CASE LoadGlobal(s)
      <4> DEFINE snap == [saver[s].snap EXCEPT !.global = global]
      <4>1. /\ saver'[s].at = "load" /\ saver'[s].todo = IPs /\ saver'[s].snap = snap
            BY <1>0, <3>1, GlobalFits, LoadGlobalStep DEF Becomes
      <4>2. saver[s].snap \in Snapshots
            BY <1>0, MixedType
      <4>3. snap.global = global
            BY <4>2 DEF Snapshots
      <4> HIDE DEF snap
      <4>4. Mixed(s)' = total
            BY <1>2, <2>0, <4>1 DEF Mixed
      <4>5. saver'[s].snap.global <= SumFunction(Mixed(s)')
            BY <1>0, <4>1, <4>3, <4>4, GlobalFits
      <4>6. QED
            BY <4>1, <4>5 DEF LoadingOf
    <3>2. ASSUME NEW ip \in IPs, LoadIp(s, ip) PROVE LoadingOf(s)'
      <4> DEFINE per == [saver[s].snap.per EXCEPT ![ip] = total[ip]]
                 snap == [saver[s].snap EXCEPT !.per = per]
      <4>1. /\ saver'[s].at = IF saver[s].todo = {ip} THEN "open" ELSE "load"
            /\ saver'[s].todo = saver[s].todo \ {ip} /\ saver'[s].snap = snap
            BY <1>0, <3>2, LoadIpStep DEF Becomes
      <4>2. /\ saver[s].snap \in Snapshots /\ saver[s].snap.per \in [IPs -> Nat]
            /\ saver[s].snap.global \in Nat
            BY <1>0, MixedType, SnapFields
      <4>3. snap.global = saver[s].snap.global /\ snap.per = per
            BY <4>2 DEF Snapshots
      <4>4. /\ per \in [IPs -> Nat]
            /\ \A i \in IPs : per[i] = IF i = ip THEN total[i] ELSE saver[s].snap.per[i]
            BY <1>2, <4>2
      <4> HIDE DEF snap, per
      <4>5. ip \in saver[s].todo /\ saver[s].at = "load"
            BY <3>2 DEF LoadIp
      <4>6. Mixed(s)' = Mixed(s)
        <5>1. Mixed(s)' = [i \in IPs |-> IF i \in saver[s].todo \ {ip} THEN total[i] ELSE per[i]]
              BY <2>0, <4>1, <4>3 DEF Mixed
        <5>2. QED
              BY <4>4, <4>5, <5>1 DEF Mixed
      <4>7. saver'[s].snap.global <= SumFunction(Mixed(s)')
            BY <1>0, <4>1, <4>3, <4>5, <4>6 DEF LoadingOf
      <4>8. CASE saver[s].todo = {ip}
        <5>1. Mixed(s)' = [i \in IPs |-> per[i]]
              BY <4>1, <4>3, <4>8 DEF Mixed
        <5>2. Mixed(s)' = saver'[s].snap.per
              BY <4>1, <4>3, <4>4, <5>1
        <5>3. QED
              BY <4>1, <4>7, <4>8, <5>2 DEF LoadingOf, Consistent
      <4>9. CASE saver[s].todo # {ip}
            BY <4>1, <4>7, <4>9 DEF LoadingOf
      <4>10. QED
            BY <4>8, <4>9
    <3>3. CASE Open(s) \/ Write(s)
      <4>1. saver'[s].at # "load" /\ saver'[s].snap = saver[s].snap /\ saver[s].at # "load"
        <5>1. CASE Open(s)
              BY <1>0, <5>1, OpenStep DEF Becomes, Open
        <5>2. CASE Write(s)
              BY <1>0, <5>2, WriteStep DEF Becomes, Write
        <5>3. QED
              BY <3>3, <5>1, <5>2
      <4>2. QED
            BY <1>0, <4>1 DEF LoadingOf
    <3>4. CASE Rename(s) \/ SaveFails(s)
      <4>1. saver'[s].at # "load" /\ saver'[s].snap = Nothing
            BY <1>0, <3>4, RenameStep, SaveFailsStep
      <4>2. QED
            BY <4>1, NothingFits DEF LoadingOf
    <3>5. QED
          BY <1>6, <3>1, <3>2, <3>3, <3>4 DEF SaverStep
  <2>3. QED
        BY <2>1, <2>2
<1>7. CASE Dies
      BY <1>7, DiesIs, NothingFits DEF LoadingOf
<1>8. CASE Start
  <2>1. \A s \in Savers : saver'[s] = Idle
        BY <1>0, <1>8 DEF Start, Quiet
  <2>2. QED
        BY <2>1, FinishedType, NothingFits DEF LoadingOf
<1>9. QED
      BY <1>4, <1>5, <1>6, <1>7, <1>8, Steps, SocketKeeps DEF Shutdown, totals, saving

LEMMA FilesStep ==
  ASSUME Inv, Next
  PROVE  Files'
<1>0. TypeOK /\ Loading /\ Files
      BY DEF Inv
<1>1. CASE disk' = disk
      BY <1>0, <1>1 DEF Files
<1>2. ASSUME NEW s \in Savers, Open(s) PROVE Files'
  <2>1. disk'.content["tmp"] = Torn /\ disk'.content["path"] = disk.content["path"]
        BY <1>0, <1>2, OpenDisk
  <2>2. QED
        BY <1>0, <2>1 DEF Files, Names
<1>3. ASSUME NEW s \in Savers, Write(s) PROVE Files'
  <2>1. saver[s].snap \in Snapshots /\ Consistent(saver[s].snap)
        BY <1>0, <1>3, MixedType DEF Loading, Write
  <2>2. SUFFICES ASSUME NEW f \in Names
                 PROVE  \/ disk'.content[f] = Torn
                        \/ \E snap \in Snapshots : disk'.content[f] = {snap} /\ Consistent(snap)
        BY DEF Files
  <2>3. \/ disk'.content[f] = disk.content[f]
        \/ disk'.content[f] = {saver[s].snap}
        \/ disk'.content[f] = Torn
        BY <1>0, <1>3, WriteDisk
  <2>4. QED
        BY <1>0, <2>1, <2>3 DEF Files
<1>4. ASSUME NEW s \in Savers, Rename(s) PROVE Files'
  <2>1. \/ disk' = disk
        \/ disk'.content["tmp"] = Torn /\ disk'.content["path"] = disk.content["tmp"]
        BY <1>0, <1>4, RenameDisk
  <2>2. QED
        BY <1>0, <1>1, <2>1 DEF Files, Names
<1>5. QED
      BY <1>1, <1>2, <1>3, <1>4, Steps, CallKeeps, SocketKeeps, DiesIs
         DEF SaverStep, LoadGlobal, LoadIp, SaveFails, Shutdown, Start, saving

\* Without overlapping saves, nobody else saves while s does.
LEMMA Alone ==
  ASSUME Solo, ~crossed, NEW s \in Savers, Busy(s), NEW o \in Savers \ {s}
  PROVE  ~Busy(o)
  BY DEF Solo

\* Where nobody saves, or only s does and is loading, Solo has nothing to ask.
LEMMA SoloIs ==
  ASSUME NEW s \in Savers, \A o \in Savers \ {s} : ~Busy(o)',
         saver'[s].at = "write" =>
             saver'[s].file = "tmp" /\ disk'.tmpExists /\ disk'.content["tmp"] = Torn,
         saver'[s].at = "rename" =>
             disk'.tmpExists /\ disk'.content["tmp"] = {saver'[s].snap}
  PROVE  Solo'
  BY DEF Solo, Busy

LEMMA SoloStep ==
  ASSUME Inv, Next
  PROVE  Solo'
<1>0. TypeOK /\ Ahead /\ Quiet /\ Solo
      BY DEF Inv
<1>1. CASE saver' = saver /\ disk' = disk /\ crossed' = crossed
      BY <1>0, <1>1 DEF Solo, Busy
<1>2. CASE \A s \in Savers : saver'[s].at = "idle"
      BY <1>2 DEF Solo, Busy
<1>3. ASSUME NEW s \in Savers, SaverStep(s), ~crossed' PROVE Solo'
  <2>1. CASE LoadGlobal(s)
    <3>1. \A o \in Savers : ~Busy(o)
          BY <1>3, <2>1 DEF LoadGlobal
    <3>2. saver'[s].at = "load" /\ Others(s)
          BY <1>0, <2>1, GlobalFits, LoadGlobalStep DEF Becomes
    <3>3. \A o \in Savers \ {s} : ~Busy(o)'
          BY <3>1, <3>2 DEF Others, Busy
    <3>4. QED
          BY <3>2, <3>3, SoloIs
  <2>2. CASE ~LoadGlobal(s)
    <3>1. ~crossed /\ Busy(s)
      <4>1. crossed' = crossed
            BY <1>3, <2>2 DEF SaverStep, LoadIp, Open, Write, Rename, SaveFails
      <4>2. saver[s].at \in {"load", "open", "write", "rename"}
            BY <1>3, <2>2 DEF SaverStep, LoadIp, Open, Write, Rename, SaveFails
      <4>3. QED
            BY <1>3, <4>1, <4>2 DEF Busy
    <3>2. \A o \in Savers \ {s} : ~Busy(o)
          BY <1>0, <3>1, Alone
    <3>3. \A o \in Savers \ {s} : ~Busy(o)'
      <4>1. \A o \in Savers \ {s} : saver'[o].at = saver[o].at
        <5>1. CASE Rename(s)
              BY <1>0, <5>1, RenameStep
        <5>2. CASE ~Rename(s)
              BY <1>0, <1>3, <2>2, <5>2, LoadIpStep, OpenStep, WriteStep, SaveFailsStep
                 DEF Becomes, Others, SaverStep
        <5>3. QED
              BY <5>1, <5>2
      <4>2. QED
            BY <3>2, <4>1 DEF Busy
    <3>4. ASSUME NEW ip \in IPs, LoadIp(s, ip) PROVE Solo'
      <4>1. saver'[s].at \in {"open", "load"}
            BY <1>0, <3>4, LoadIpStep DEF Becomes
      <4>2. QED
            BY <3>3, <4>1, SoloIs
    <3>5. CASE Open(s)
      <4>1. saver'[s].at = "write" /\ saver'[s].file = "tmp"
            BY <1>0, <3>5, OpenStep DEF Becomes
      <4>2. disk'.tmpExists /\ disk'.content["tmp"] = Torn
            BY <1>0, <3>5, OpenDisk
      <4>3. QED
            BY <3>3, <4>1, <4>2, SoloIs
    <3>6. CASE Write(s)
      <4>1. saver'[s].at = "rename" /\ saver'[s].snap = saver[s].snap
            BY <1>0, <3>6, WriteStep DEF Becomes
      <4>2. saver[s].at = "write"
            BY <3>6 DEF Write
      <4>3. saver[s].file = "tmp" /\ disk.tmpExists /\ disk.content["tmp"] = Torn
            BY <1>0, <3>1, <4>2 DEF Solo
      <4>4. disk'.tmpExists /\ disk'.content["tmp"] = {saver[s].snap}
            BY <1>0, <3>6, <4>3, WriteDisk DEF Names
      <4>5. QED
            BY <3>3, <4>1, <4>4, SoloIs
    <3>7. CASE Rename(s) \/ SaveFails(s)
      <4>1. saver'[s].at \in {"idle", "done"}
            BY <1>0, <3>7, RenameStep, SaveFailsStep
      <4>2. QED
            BY <3>3, <4>1, SoloIs
    <3>8. QED
          BY <1>3, <2>2, <3>4, <3>5, <3>6, <3>7 DEF SaverStep
  <2>3. QED
        BY <2>1, <2>2
<1>4. CASE crossed'
      BY <1>4 DEF Solo
<1>5. CASE Start
  <2>1. \A s \in Savers : saver'[s] = Idle
        BY <1>0, <1>5 DEF Start, Quiet
  <2>2. QED
        BY <1>2, <2>1, FinishedType
<1>6. QED
      BY <1>1, <1>2, <1>3, <1>4, <1>5, Steps, CallKeeps, SocketKeeps, DiesIs DEF Shutdown, saving

LEMMA SavedStep ==
  ASSUME Inv, Next
  PROVE  Saved'
<1>0. TypeOK /\ Files /\ Solo /\ Saved
      BY DEF Inv
<1>1. CASE /\ disk'.content["path"] = disk.content["path"]
           /\ durable' = durable /\ (crossed => crossed')
      BY <1>0, <1>1 DEF Saved
<1>2. ASSUME NEW s \in Savers, SaverStep(s) PROVE Saved'
  <2>1. crossed => crossed'
        BY <1>2 DEF SaverStep, LoadGlobal, LoadIp, Open, Write, Rename, SaveFails
  <2>2. CASE LoadGlobal(s) \/ (\E ip \in IPs : LoadIp(s, ip)) \/ SaveFails(s)
        BY <1>1, <2>1, <2>2 DEF LoadGlobal, LoadIp, SaveFails
  <2>3. CASE Open(s)
        BY <1>0, <1>1, <2>1, <2>3, OpenDisk DEF Open
  <2>4. CASE Write(s)
    <3>1. CASE crossed
          BY <2>1, <3>1 DEF Saved
    <3>2. CASE ~crossed
      <4>1. saver[s].file = "tmp"
            BY <1>0, <2>4, <3>2 DEF Solo, Write
      <4>2. disk'.content["path"] = disk.content["path"]
            BY <1>0, <2>4, <4>1, WriteDisk DEF Names
      <4>3. QED
            BY <1>1, <2>1, <2>4, <4>2 DEF Write
    <3>3. QED
          BY <3>1, <3>2
  <2>5. CASE Rename(s)
    <3>1. CASE crossed
          BY <2>1, <3>1 DEF Saved
    <3>2. CASE ~crossed
      <4>1. disk.tmpExists /\ disk.content["tmp"] = {saver[s].snap}
            BY <1>0, <2>5, <3>2 DEF Solo, Rename
      <4>2. disk'.content["path"] = disk.content["tmp"] /\ durable' = saver[s].snap
            BY <1>0, <2>5, <4>1, RenameDisk
      <4>3. QED
            BY <4>1, <4>2 DEF Saved
    <3>3. QED
          BY <3>1, <3>2
  <2>6. QED
        BY <1>2, <2>2, <2>3, <2>4, <2>5 DEF SaverStep
<1>3. CASE Start
  <2>1. disk' = disk
        BY <1>3 DEF Start
  <2>2. QED
        BY <1>0, <1>3, <2>1, StartIs DEF Saved
<1>4. CASE disk' = disk /\ durable' = durable /\ crossed' = crossed
      BY <1>1, <1>4
<1>5. QED
      BY <1>2, <1>3, <1>4, Steps, CallKeeps, SocketKeeps, DiesIs DEF Shutdown, saving

LEMMA NextInv == Inv /\ [Next]_vars => Inv'
<1> SUFFICES ASSUME Inv, [Next]_vars PROVE Inv'
    OBVIOUS
<1>1. CASE Next
      BY <1>1, TypeStep, ActiveStep, QuietStep, AheadStep, LoadingStep, FilesStep, SoloStep,
         SavedStep DEF Inv
<1>2. CASE UNCHANGED vars
  <2>0. /\ process' = process /\ call' = call /\ socket' = socket /\ activeRpc' = activeRpc
        /\ activeWs' = activeWs /\ leaked' = leaked /\ accepted' = accepted
        /\ total' = total /\ global' = global /\ saver' = saver /\ disk' = disk
        /\ durable' = durable /\ crossed' = crossed
        BY <1>2 DEF vars, connections, totals, saving
  <2>1. TypeOK'
        BY <2>0 DEF Inv, TypeOK
  <2>2. ActiveIsAccountedFor'
        BY <2>0 DEF Inv, ActiveIsAccountedFor
  <2>3. Quiet' /\ Ahead' /\ Files' /\ Saved'
        BY <2>0 DEF Inv, Quiet, Ahead, Recorded, Files, Saved
  <2>4. Loading' /\ Solo'
        BY <2>0 DEF Inv, Loading, Mixed, Solo, Busy
  <2>5. QED
        BY <2>1, <2>2, <2>3, <2>4 DEF Inv
<1>3. QED
      BY <1>1, <1>2

LEMMA InvHolds == Spec => []Inv
  BY InitInv, NextInv, PTL DEF Spec

-----------------------------------------------------------------------------
(* The theorems.                                                            *)

\* The handlers, counters, saves and files keep to their types; the totals of
\* the IPs and the snapshots stay within their bounds.
THEOREM TypeCorrect == Spec => []TypeOK
<1>1. Inv => TypeOK
      BY DEF Inv
<1>2. QED
      BY <1>1, InvHolds, PTL

\* Every active counter is the number of requests or connections that the
\* code will still give back, plus those it forgot on the two paths that leave
\* without a decrement (http_rpc.rs:128-165, websocket.rs:83-119).
THEOREM CountersAccountedFor == Spec => []ActiveIsAccountedFor
<1>1. Inv => ActiveIsAccountedFor
      BY DEF Inv
<1>2. QED
      BY <1>1, InvHolds, PTL

\* The global total is never ahead of the sum over the IPs, in memory, in
\* either file and after every restart, although requests are counted while
\* both saves load the counters one by one (stats.rs:134-141, 190-196).
THEOREM GlobalIsBehind == Spec => []GlobalNeverAhead
<1>1. ASSUME Inv PROVE GlobalNeverAhead
  <2>1. TypeOK /\ Ahead /\ Files
        BY <1>1 DEF Inv
  <2>2. Consistent([global |-> global, per |-> total])
        BY <2>1, GlobalFits DEF Consistent
  <2>3. \A f \in Names : \A snap \in disk.content[f] : Consistent(snap)
        BY <2>1 DEF Files, Torn
  <2>4. QED
        BY <2>2, <2>3 DEF GlobalNeverAhead
<1>2. QED
      BY <1>1, InvHolds, PTL

\* A process that starts has the totals of the last save that completed,
\* wherever the one before it died, unless two saves overlapped
\* (stats.rs:213-216).
THEOREM SaveSurvives == Spec => SavedIsRestored
<1>1. ASSUME Inv, [Next]_vars
      PROVE  [process = "down" /\ process' = "running" /\ ~crossed =>
                total' = durable.per /\ global' = durable.global]_vars
  <2>1. TypeOK /\ Quiet /\ Files /\ Saved
        BY <1>1 DEF Inv
  <2>2. SUFFICES ASSUME process = "down", process' = "running", ~crossed, Next
                 PROVE  total' = durable.per /\ global' = durable.global
        BY <1>1
  <2>3. Start
        BY <2>1, <2>2, Steps, CallKeeps, SocketKeeps, SaverKeeps, DiesIs DEF Shutdown
  <2>4. /\ total' = Persisted.per /\ global' = Persisted.global
        /\ \/ disk.content["path"] = {Persisted}
           \/ disk.content["path"] = Torn /\ Persisted = Nothing
        BY <2>1, <2>3, StartIs
  <2>5. \/ disk.content["path"] = {durable}
        \/ disk.content["path"] = Torn /\ durable = Nothing
        BY <2>1, <2>2 DEF Saved
  <2>6. Persisted = durable
        BY <2>4, <2>5 DEF Torn
  <2>7. QED
        BY <2>4, <2>6
<1>2. QED
      BY <1>1, InvHolds, PTL DEF Spec, SavedIsRestored

=============================================================================
