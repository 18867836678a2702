-------------------------- MODULE MuxForwarderProofs --------------------------
(***************************************************************************)
(* For any number of clients, any ring, channel capacity and limit: a       *)
(* client gets its updates in order and once each, and has fewer holes than *)
(* lag events; and for every request and update the filters of the mux let  *)
(* through what a server would send.                                        *)
(*                                                                         *)
(* HolesBounded is not inductive: a lag makes a hole only when the update   *)
(* behind it is sent, perhaps much later.  Pending says that a wanted       *)
(* update is passed over and no later one sent yet; a lag pays for one hole *)
(* or for one pending hole, and a delivery turns the latter into the former.*)
(***************************************************************************)
EXTENDS MuxForwarder, FiniteSetTheorems, TLAPS

Holding(c) == at[c] \in {"matched", "reserve"}

\* The first place of the log that is not dealt with.
Frontier(c) == IF Holding(c) THEN hand[c] ELSE next[c]

\* An update was passed over, and nothing behind it was sent.
Pending(c) ==
    \E n \in start[c]..(Frontier(c) - 1) :
        Match(c, log[n]) /\ \A j \in Updates(c) : sent[c][j][2] < n

\* Where the receiver is in the log.
Positions(c) ==
    /\ start[c] <= next[c] /\ next[c] <= Len(log) + 1
    /\ Holding(c) => start[c] <= hand[c] /\ hand[c] + 1 = next[c]
    /\ at[c] = "none" => sent[c] = <<>> /\ lagEvents[c] = 0
    /\ pongs[c] <= pings[c]

\* What was sent is behind the frontier, in order.
Ordered(c) ==
    /\ \A i \in Updates(c) : sent[c][i][2] < Frontier(c)
    /\ \A i, j \in Updates(c) : i < j => sent[c][i][2] < sent[c][j][2]

\* Every lag event pays for one hole, pending or not.
Paid(c) ==
    /\ Cardinality(Holes(c)) <= lagEvents[c]
    /\ at[c] # "done" /\ Pending(c) => Cardinality(Holes(c)) < lagEvents[c]
    /\ MaxLagEvents # 0 => Cardinality(Holes(c)) < MaxLagEvents
    /\ MaxLagEvents # 0 /\ at[c] \notin {"cut", "done"} => lagEvents[c] < MaxLagEvents

ClientInv(c) == Positions(c) /\ Ordered(c) /\ Paid(c)

Inv == TypeOK /\ \A c \in Clients : ClientInv(c)

\* An update in a channel is a place of the log.
LEMMA UpdatePlaces ==
  ASSUME TypeOK, NEW c \in Clients
  PROVE  /\ sent[c] \in Seq(Items) /\ DOMAIN sent[c] = 1..Len(sent[c]) /\ Len(sent[c]) \in Nat
         /\ Updates(c) \subseteq 1..Len(sent[c])
         /\ \A i \in Updates(c) : sent[c][i][2] \in 1..MaxLog
<1>1. sent[c] \in Seq(Items) /\ DOMAIN sent[c] = 1..Len(sent[c]) /\ Len(sent[c]) \in Nat
      BY DEF TypeOK
<1>2. ASSUME NEW i \in Updates(c) PROVE sent[c][i][2] \in 1..MaxLog
  <2>1. sent[c][i] \in Items /\ sent[c][i][1] = "update"
        BY <1>1, <1>2 DEF Updates
  <2>2. ASSUME NEW x \in Items, x[1] = "update" PROVE x[2] \in 1..MaxLog
        BY <2>2 DEF Items
  <2>3. QED
        BY <2>1, <2>2
<1>3. QED
      BY <1>1, <1>2 DEF Updates

\* The holes of a client are finitely many.
LEMMA HolesFinite ==
  ASSUME TypeOK, NEW c \in Clients
  PROVE  IsFiniteSet(Holes(c)) /\ Cardinality(Holes(c)) \in Nat
<1>1. Holes(c) \subseteq 1..Len(sent[c]) /\ Len(sent[c]) \in Nat
      BY UpdatePlaces DEF Holes
<1>2. IsFiniteSet(1..Len(sent[c]))
      BY <1>1, FS_Interval
<1>3. QED
      BY <1>1, <1>2, FS_Subset, FS_CardinalityType

LEMMA InitInv == Init => Inv
<1> SUFFICES ASSUME Init PROVE Inv
    OBVIOUS
<1>1. TypeOK
      BY ForwarderAssumption DEF Init, TypeOK, Places
<1>2. ASSUME NEW c \in Clients PROVE ClientInv(c)
  <2>1. Updates(c) = {}
        BY DEF Init, Updates
  <2>2. Cardinality(Holes(c)) = 0
        BY <2>1, FS_EmptySet DEF Holes
  <2>3. Positions(c) /\ Ordered(c)
        BY <2>1 DEF Init, Positions, Ordered, Holding
  <2>4. ~Pending(c)
        BY DEF Init, Pending, Frontier, Holding
  <2>5. QED
        BY <2>2, <2>3, <2>4, ForwarderAssumption DEF Init, Paid, ClientInv
<1>3. QED
      BY <1>1, <1>2 DEF Inv

-----------------------------------------------------------------------------
(* What a step leaves as it is.                                             *)

\* The fields of client d that the invariant reads.
Same(d) ==
    /\ at'[d] = at[d] /\ start'[d] = start[d] /\ next'[d] = next[d] /\ hand'[d] = hand[d]
    /\ sent'[d] = sent[d] /\ lagEvents'[d] = lagEvents[d]
    /\ pings'[d] = pings[d] /\ pongs'[d] = pongs[d]

LEMMA SameKeeps ==
  ASSUME NEW d \in Clients, ClientInv(d), Same(d), log' = log
  PROVE  ClientInv(d)'
<1>1. Updates(d)' = Updates(d)
      BY DEF Same, Updates
<1>2. Holes(d)' = Holes(d)
      BY <1>1 DEF Same, Holes, HoleBefore
<1>3. Frontier(d)' = Frontier(d) /\ (Holding(d)' <=> Holding(d))
      BY DEF Same, Frontier, Holding
<1>4. Pending(d)' <=> Pending(d)
      BY <1>1, <1>3 DEF Same, Pending
<1>5. QED
      BY <1>1, <1>2, <1>3, <1>4 DEF Same, ClientInv, Positions, Ordered, Paid

\* A step that sends nothing keeps the holes.
LEMMA NothingSent ==
  ASSUME NEW c \in Clients, sent'[c] = sent[c], start'[c] = start[c], log' = log
  PROVE  Updates(c)' = Updates(c) /\ Holes(c)' = Holes(c)
<1>1. Updates(c)' = Updates(c)
      BY DEF Updates
<1>2. QED
      BY <1>1 DEF Holes, HoleBefore

\* A longer log changes nothing for what was read of it.
LEMMA PublishKeeps ==
  ASSUME TypeOK, NEW u \in Feed, Publish(u), NEW d \in Clients, ClientInv(d)
  PROVE  ClientInv(d)'
<1>1. Same(d)
      BY DEF Publish, Same
<1>2. /\ log \in Seq(Feed) /\ Len(log) \in Nat /\ Len(log') = Len(log) + 1
      /\ \A n \in 1..Len(log) : log'[n] = log[n]
      BY DEF TypeOK, Publish
<1>3. /\ start[d] \in 1..(MaxLog + 1) /\ next[d] \in 1..(MaxLog + 1) /\ hand[d] \in 0..MaxLog
      /\ MaxLog \in Nat
      BY ForwarderAssumption DEF TypeOK
<1>4. Frontier(d) \in Nat /\ Frontier(d) <= Len(log) + 1
      BY <1>2, <1>3 DEF Frontier, ClientInv, Positions
<1>5. Updates(d)' = Updates(d)
      BY <1>1 DEF Same, Updates
<1>6. \A i \in Updates(d) : sent[d][i][2] \in Nat /\ sent[d][i][2] < Frontier(d)
      BY <1>3, UpdatePlaces DEF ClientInv, Ordered
<1>7. ASSUME NEW i \in Updates(d) PROVE HoleBefore(d, i)' <=> HoleBefore(d, i)
  <2>1. ASSUME NEW n \in start[d]..(sent[d][i][2] - 1) PROVE log'[n] = log[n]
    <3>1. sent[d][i][2] \in Nat /\ sent[d][i][2] <= Len(log)
          BY <1>2, <1>4, <1>6
    <3>2. n \in 1..Len(log)
      <4>1. start[d] \in Nat /\ start[d] >= 1 /\ Len(log) \in Nat
            BY <1>2, <1>3
      <4>2. n >= start[d] /\ n <= sent[d][i][2] - 1 /\ n \in Int
            BY <3>1, <4>1
      <4>3. QED
            BY <3>1, <4>1, <4>2
    <3>3. QED
          BY <1>2, <3>2
  <2>2. QED
        BY <1>1, <1>5, <2>1 DEF Same, HoleBefore
<1>8. Holes(d)' = Holes(d)
      BY <1>5, <1>7 DEF Holes
<1>9. Frontier(d)' = Frontier(d) /\ (Holding(d)' <=> Holding(d))
      BY <1>1 DEF Same, Frontier, Holding
<1>10. Pending(d)' <=> Pending(d)
  <2>1. ASSUME NEW n \in start[d]..(Frontier(d) - 1) PROVE log'[n] = log[n]
    <3>1. start[d] \in Nat /\ start[d] >= 1 /\ Len(log) \in Nat
          BY <1>2, <1>3
    <3>2. n \in 1..Len(log)
          BY <1>4, <3>1
    <3>3. QED
          BY <1>2, <3>2
  <2>2. QED
        BY <1>1, <1>5, <1>9, <2>1 DEF Same, Pending
<1>11. QED
       BY <1>1, <1>2, <1>3, <1>5, <1>8, <1>9, <1>10 DEF Same, ClientInv, Positions, Ordered, Paid

-----------------------------------------------------------------------------
(* The steps of a client and of its forwarder.                              *)

LEMMA SubscribeKeeps ==
  ASSUME TypeOK, NEW c \in Clients, ClientInv(c), Subscribe(c)
  PROVE  ClientInv(c)'
<1>1. /\ at[c] = "none" /\ at'[c] = "select" /\ sent[c] = <<>> /\ sent'[c] = <<>>
      /\ start'[c] = Len(log) + 1 /\ next'[c] = Len(log) + 1 /\ log' = log
      /\ lagEvents'[c] = 0 /\ pongs'[c] = pongs[c] /\ pings'[c] = pings[c]
      /\ lagEvents[c] = 0
      BY DEF Subscribe, Goto, TypeOK, ClientInv, Positions
<1>2. Len(log) \in Nat
      BY DEF TypeOK
<1>3. Updates(c)' = {}
      BY <1>1 DEF Updates
<1>4. Cardinality(Holes(c)') = 0
  <2>1. Holes(c)' = {}
        BY <1>3 DEF Holes
  <2>2. QED
        BY <2>1, FS_EmptySet
<1>5. Frontier(c)' = Len(log) + 1 /\ ~Holding(c)'
      BY <1>1 DEF Frontier, Holding
<1>6. ~Pending(c)'
      BY <1>1, <1>2, <1>5 DEF Pending
<1>7. QED
      BY <1>1, <1>2, <1>3, <1>4, <1>5, <1>6, ForwarderAssumption
      DEF ClientInv, Positions, Ordered, Paid

\* Steps that leave the frontier where it is, and send nothing.
LEMMA FrontierKeeps ==
  ASSUME TypeOK, NEW c \in Clients, ClientInv(c), log' = log,
         sent'[c] = sent[c], start'[c] = start[c], lagEvents'[c] = lagEvents[c],
         Frontier(c)' = Frontier(c), Positions(c)',
         at[c] # "done",
         at'[c] \in {"cut", "done"} \/ at[c] \notin {"cut", "done"}
  PROVE  ClientInv(c)'
<1>1. Updates(c)' = Updates(c) /\ Holes(c)' = Holes(c)
      BY NothingSent
<1>2. Pending(c)' <=> Pending(c)
      BY <1>1 DEF Pending
<1>3. QED
      BY <1>1, <1>2 DEF ClientInv, Ordered, Paid

LEMMA MatchedKeeps ==
  ASSUME TypeOK, NEW c \in Clients, ClientInv(c), Matched(c)
  PROVE  ClientInv(c)'
<1>1. /\ at[c] = "select" /\ at'[c] = "matched" /\ next[c] <= Len(log)
      /\ hand'[c] = next[c] /\ next'[c] = next[c] + 1 /\ log' = log
      /\ sent'[c] = sent[c] /\ start'[c] = start[c] /\ lagEvents'[c] = lagEvents[c]
      /\ pongs'[c] = pongs[c] /\ pings'[c] = pings[c]
      BY DEF Matched, Goto, TypeOK
<1>2. Frontier(c)' = Frontier(c)
      BY <1>1 DEF Frontier, Holding
<1>3. next[c] \in Nat /\ start[c] \in Nat /\ Len(log) \in Nat
      BY ForwarderAssumption DEF TypeOK
<1>4. Positions(c)'
      BY <1>1, <1>3 DEF ClientInv, Positions, Holding
<1>5. QED
      BY <1>1, <1>2, <1>4, FrontierKeeps

LEMMA SkipKeeps ==
  ASSUME TypeOK, NEW c \in Clients, ClientInv(c), Skip(c)
  PROVE  ClientInv(c)'
<1>1. /\ at[c] = "select" /\ at'[c] = "select" /\ next[c] <= Len(log)
      /\ ~Match(c, log[next[c]])
      /\ next'[c] = next[c] + 1 /\ log' = log
      /\ sent'[c] = sent[c] /\ start'[c] = start[c] /\ lagEvents'[c] = lagEvents[c]
      /\ pongs'[c] = pongs[c] /\ pings'[c] = pings[c]
      BY DEF Skip, TypeOK
<1>2. next[c] \in Nat /\ start[c] \in Nat /\ Len(log) \in Nat
      BY ForwarderAssumption DEF TypeOK
<1>3. Updates(c)' = Updates(c) /\ Holes(c)' = Holes(c)
      BY <1>1, NothingSent
<1>4. Frontier(c) = next[c] /\ Frontier(c)' = next[c] + 1 /\ ~Holding(c)'
      BY <1>1 DEF Frontier, Holding
<1>5. Pending(c)' => Pending(c)
  <2> SUFFICES ASSUME NEW n \in start[c]..next[c], Match(c, log[n]),
                      \A j \in Updates(c) : sent[c][j][2] < n
               PROVE  Pending(c)
      BY <1>1, <1>2, <1>3, <1>4 DEF Pending
  <2>1. n \in start[c]..(next[c] - 1)
        BY <1>1, <1>2
  <2>2. QED
        BY <1>4, <2>1 DEF Pending
<1>6. \A i \in Updates(c) : sent[c][i][2] \in Nat
      BY UpdatePlaces, ForwarderAssumption
<1>7. QED
      BY <1>1, <1>2, <1>3, <1>4, <1>5, <1>6 DEF ClientInv, Positions, Ordered, Paid

LEMMA LaggedKeeps ==
  ASSUME TypeOK, NEW c \in Clients, ClientInv(c), Lagged(c)
  PROVE  ClientInv(c)'
<1>1. /\ at[c] = "select" /\ next[c] < Oldest
      /\ at'[c] = IF LimitReached(lagEvents[c] + 1) THEN "cut" ELSE "select"
      /\ next'[c] = Oldest /\ log' = log /\ lagEvents'[c] = lagEvents[c] + 1
      /\ sent'[c] = sent[c] /\ start'[c] = start[c]
      /\ pongs'[c] = pongs[c] /\ pings'[c] = pings[c]
      BY DEF Lagged, TypeOK
<1>2. /\ next[c] \in Nat /\ start[c] \in Nat /\ Len(log) \in Nat /\ Ring \in Nat \ {0}
      /\ MaxLagEvents \in Nat /\ lagEvents[c] \in Nat
      BY ForwarderAssumption DEF TypeOK
<1>3. Oldest \in Nat /\ Oldest <= Len(log) + 1
      BY <1>2 DEF Oldest
<1>4. Updates(c)' = Updates(c) /\ Holes(c)' = Holes(c)
      BY <1>1, NothingSent
<1>5. Frontier(c) = next[c] /\ Frontier(c)' = Oldest /\ ~Holding(c)'
      BY <1>1 DEF Frontier, Holding
<1>6. \A i \in Updates(c) : sent[c][i][2] \in Nat
      BY UpdatePlaces, ForwarderAssumption
<1>7. Positions(c)' /\ Ordered(c)'
      BY <1>1, <1>2, <1>3, <1>4, <1>5, <1>6 DEF ClientInv, Positions, Ordered
<1>8. Paid(c)'
      BY <1>1, <1>2, <1>4, HolesFinite DEF ClientInv, Paid, LimitReached
<1>9. QED
      BY <1>7, <1>8 DEF ClientInv

\* An item that is no update keeps the holes.
LEMMA OtherSent ==
  ASSUME TypeOK, NEW c \in Clients, NEW item \in Items, item[1] # "update",
         sent'[c] = Append(sent[c], item), start'[c] = start[c], log' = log
  PROVE  /\ Updates(c)' = Updates(c) /\ Holes(c)' = Holes(c)
         /\ \A i \in Updates(c) : sent'[c][i] = sent[c][i]
<1>1. /\ sent[c] \in Seq(Items) /\ Len(sent[c]) \in Nat
      /\ DOMAIN sent[c] = 1..Len(sent[c])
      BY UpdatePlaces
<1>2. /\ DOMAIN sent'[c] = 1..(Len(sent[c]) + 1) /\ sent'[c][Len(sent[c]) + 1] = item
      /\ \A i \in 1..Len(sent[c]) : sent'[c][i] = sent[c][i]
      BY <1>1
<1>3. Updates(c)' = Updates(c)
      BY <1>1, <1>2 DEF Updates
<1>4. \A i \in Updates(c) : sent'[c][i] = sent[c][i]
      BY <1>1, <1>2 DEF Updates
<1>5. \A i \in Updates(c) : HoleBefore(c, i)' <=> HoleBefore(c, i)
      BY <1>3, <1>4 DEF HoleBefore
<1>6. QED
      BY <1>3, <1>4, <1>5 DEF Holes

LEMMA OtherSentKeeps ==
  ASSUME TypeOK, NEW c \in Clients, ClientInv(c), PongReserved(c) \/ DataLoss(c)
  PROVE  ClientInv(c)'
<1>1. /\ log' = log /\ start'[c] = start[c] /\ next'[c] = next[c] /\ hand'[c] = hand[c]
      /\ lagEvents'[c] = lagEvents[c] /\ pongs'[c] = pongs[c] /\ pings'[c] = pings[c]
      /\ \/ at[c] = "pong" /\ at'[c] = "select"
         \/ at[c] = "cut" /\ at'[c] = "done"
      BY DEF PongReserved, DataLoss, Goto, TypeOK
<1>2. PICK item \in Items : item[1] # "update" /\ sent'[c] = Append(sent[c], item)
  <2>1. <<"pong", 0>> \in Items /\ <<"data_loss", 0>> \in Items
        BY DEF Items
  <2>2. <<"pong", 0>>[1] # "update" /\ <<"data_loss", 0>>[1] # "update"
        OBVIOUS
  <2>3. \/ sent'[c] = Append(sent[c], <<"pong", 0>>)
        \/ sent'[c] = Append(sent[c], <<"data_loss", 0>>)
        BY DEF PongReserved, DataLoss, Send, TypeOK
  <2>4. QED
        BY <2>1, <2>2, <2>3
<1>3. /\ Updates(c)' = Updates(c) /\ Holes(c)' = Holes(c)
      /\ \A i \in Updates(c) : sent'[c][i] = sent[c][i]
      BY <1>1, <1>2, OtherSent
<1>4. Frontier(c)' = Frontier(c) /\ ~Holding(c)'
      BY <1>1 DEF Frontier, Holding
<1>5. Pending(c)' <=> Pending(c)
      BY <1>1, <1>3, <1>4 DEF Pending
<1>6. QED
      BY <1>1, <1>3, <1>4, <1>5 DEF ClientInv, Positions, Ordered, Paid

\* A delivery: the pending hole, if there is one, is in front of it.
LEMMA DeliverKeeps ==
  ASSUME TypeOK, NEW c \in Clients, ClientInv(c), NEW from \in {"matched", "reserve"},
         Deliver(c, from)
  PROVE  ClientInv(c)'
<1>0. PICK k \in Nat : k = Len(sent[c]) + 1
      BY UpdatePlaces
<1>1. /\ log' = log /\ start'[c] = start[c] /\ next'[c] = next[c]
      /\ lagEvents'[c] = lagEvents[c] /\ pongs'[c] = pongs[c] /\ pings'[c] = pings[c]
      /\ at[c] = from /\ at'[c] = "select"
      /\ sent'[c] = Append(sent[c], <<"update", hand[c]>>)
      BY DEF Deliver, Goto, Send, TypeOK
<1>2. /\ next[c] \in Nat /\ start[c] \in Nat /\ hand[c] \in Nat /\ Len(log) \in Nat
      /\ MaxLagEvents \in Nat /\ lagEvents[c] \in Nat
      BY ForwarderAssumption DEF TypeOK
<1>3. start[c] <= hand[c] /\ hand[c] + 1 = next[c] /\ Frontier(c) = hand[c]
      BY <1>1 DEF ClientInv, Positions, Frontier, Holding
<1>4. Frontier(c)' = next[c] /\ ~Holding(c)'
      BY <1>1 DEF Frontier, Holding
<1>5. /\ sent[c] \in Seq(Items) /\ Len(sent[c]) \in Nat /\ DOMAIN sent[c] = 1..Len(sent[c])
      /\ Updates(c) \subseteq 1..Len(sent[c])
      /\ \A i \in Updates(c) : sent[c][i][2] \in Nat /\ i \in Nat
      BY UpdatePlaces, ForwarderAssumption
<1>6. /\ DOMAIN sent'[c] = 1..k /\ sent'[c][k] = <<"update", hand[c]>>
      /\ \A i \in 1..Len(sent[c]) : sent'[c][i] = sent[c][i]
      BY <1>0, <1>1, <1>5
<1>7. sent'[c][k][1] = "update" /\ sent'[c][k][2] = hand[c]
      BY <1>6
<1>8. Updates(c)' = Updates(c) \cup {k}
      BY <1>0, <1>5, <1>6, <1>7 DEF Updates
<1>9. \A i \in Updates(c) : sent'[c][i] = sent[c][i] /\ i < k /\ i # k
      BY <1>0, <1>5, <1>6
<1>10. ASSUME NEW i \in Updates(c) PROVE HoleBefore(c, i)' <=> HoleBefore(c, i)
  <2>1. ~(k < i) /\ k \in Nat /\ i \in Nat
        BY <1>5, <1>9
  <2>2. \A n : (\A j \in Updates(c)' : j < i => sent'[c][j][2] < n)
                 <=> (\A j \in Updates(c) : j < i => sent[c][j][2] < n)
        BY <1>8, <1>9, <2>1
  <2>3. QED
        BY <1>1, <1>9, <2>2 DEF HoleBefore
<1>11. HoleBefore(c, k)' <=> Pending(c)
  <2>1. ~(k < k)
        OBVIOUS
  <2>2. \A n : (\A j \in Updates(c)' : j < k => sent'[c][j][2] < n)
                 <=> (\A j \in Updates(c) : sent[c][j][2] < n)
        BY <1>8, <1>9, <2>1
  <2>3. QED
        BY <1>1, <1>3, <1>7, <2>2 DEF HoleBefore, Pending
<1>12. Holes(c)' = IF Pending(c) THEN Holes(c) \cup {k} ELSE Holes(c)
       BY <1>8, <1>10, <1>11 DEF Holes
<1>13. Cardinality(Holes(c)') = IF Pending(c) THEN Cardinality(Holes(c)) + 1 ELSE Cardinality(Holes(c))
  <2>1. k \notin Holes(c)
        BY <1>9 DEF Holes
  <2>2. Cardinality(Holes(c) \cup {k}) = Cardinality(Holes(c)) + 1
        BY <2>1, HolesFinite, FS_AddElement
  <2>3. QED
        BY <1>12, <2>2
<1>14. ~Pending(c)'
  <2> SUFFICES ASSUME NEW n \in start[c]..(next[c] - 1), sent'[c][k][2] < n PROVE FALSE
      BY <1>1, <1>4, <1>8 DEF Pending
  <2>1. QED
        BY <1>2, <1>3, <1>7
<1>15. Positions(c)'
       BY <1>1, <1>4 DEF ClientInv, Positions
<1>16. Ordered(c)'
  <2>1. \A i \in Updates(c)' : sent'[c][i][2] < Frontier(c)'
    <3>1. ASSUME NEW i \in Updates(c) PROVE sent'[c][i][2] < Frontier(c)'
      <4>1. sent'[c][i][2] = sent[c][i][2] /\ sent[c][i][2] \in Nat
            BY <1>5, <1>9
      <4>2. sent[c][i][2] < hand[c]
            BY <1>3 DEF ClientInv, Ordered
      <4>3. QED
            BY <1>2, <1>3, <1>4, <4>1, <4>2
    <3>2. sent'[c][k][2] < Frontier(c)'
          BY <1>2, <1>3, <1>4, <1>7
    <3>3. QED
          BY <1>8, <3>1, <3>2
  <2>2. ASSUME NEW i \in Updates(c)', NEW j \in Updates(c)', i < j
        PROVE  sent'[c][i][2] < sent'[c][j][2]
    <3>1. ~(k < k)
          OBVIOUS
    <3>2. CASE j = k
      <4>1. i \in Updates(c)
            BY <1>8, <2>2, <3>1, <3>2
      <4>2. QED
            BY <1>3, <1>7, <1>9, <3>2, <4>1 DEF ClientInv, Ordered
    <3>3. CASE j \in Updates(c)
      <4>1. i \in Updates(c)
            BY <1>5, <1>8, <1>9, <2>2, <3>1, <3>3
      <4>2. QED
            BY <1>9, <2>2, <3>3, <4>1 DEF ClientInv, Ordered
    <3>4. QED
          BY <1>8, <3>2, <3>3
  <2>3. QED
        BY <2>1, <2>2 DEF Ordered
<1>17. Paid(c)'
  <2>1. Cardinality(Holes(c)) \in Nat
        BY HolesFinite
  <2>2. at[c] # "done" /\ at[c] \notin {"cut", "done"}
        BY <1>1
  <2>3. QED
        BY <1>1, <1>2, <1>13, <1>14, <2>1, <2>2 DEF ClientInv, Paid
<1>18. QED
       BY <1>15, <1>16, <1>17 DEF ClientInv

LEMMA StopKeeps ==
  ASSUME TypeOK, NEW c \in Clients, ClientInv(c), Stop(c)
  PROVE  ClientInv(c)'
<1>1. /\ log' = log /\ start'[c] = start[c] /\ next'[c] = next[c] /\ hand'[c] = hand[c]
      /\ sent'[c] = sent[c] /\ at'[c] = "done"
      /\ lagEvents'[c] = lagEvents[c] /\ pongs'[c] = pongs[c] /\ pings'[c] = pings[c]
      BY DEF Stop, TypeOK
<1>2. Updates(c)' = Updates(c) /\ Holes(c)' = Holes(c)
      BY <1>1, NothingSent
<1>3. ~Holding(c)' /\ Frontier(c)' = next[c]
      BY <1>1 DEF Holding, Frontier
<1>4. \A i \in Updates(c) : sent[c][i][2] \in Nat
      BY UpdatePlaces, ForwarderAssumption
<1>5. Frontier(c) <= next[c] /\ next[c] \in Nat /\ Frontier(c) \in Nat
      BY ForwarderAssumption DEF Frontier, ClientInv, Positions, TypeOK
<1>6. QED
      BY <1>1, <1>2, <1>3, <1>4, <1>5 DEF ClientInv, Positions, Ordered, Paid

-----------------------------------------------------------------------------
(* All clients.                                                             *)

\* A step of one client is none of another one.
LEMMA OthersSame ==
  ASSUME TypeOK, NEW c \in Clients,
         Subscribe(c) \/ Take(c) \/ Ping(c) \/ Leave(c) \/ Forward(c)
  PROVE  log' = log /\ \A d \in Clients \ {c} : Same(d)
<1> USE DEF TypeOK, Same
<1>1. CASE Subscribe(c) \/ Take(c) \/ Ping(c) \/ Leave(c)
      BY <1>1 DEF Subscribe, Take, Ping, Leave, Goto
<1>2. CASE Skip(c) \/ Matched(c) \/ Lagged(c) \/ RecvPong(c) \/ TrySendFull(c) \/ Stop(c)
      BY <1>2 DEF Skip, Matched, Lagged, RecvPong, TrySendFull, Stop, Goto
<1>3. CASE TrySendOk(c) \/ Reserved(c) \/ PongReserved(c) \/ DataLoss(c)
      BY <1>3 DEF TrySendOk, Reserved, Deliver, PongReserved, DataLoss, Goto, Send
<1>4. QED
      BY <1>1, <1>2, <1>3 DEF Forward

LEMMA OwnStep ==
  ASSUME TypeOK, NEW c \in Clients, ClientInv(c),
         Subscribe(c) \/ Take(c) \/ Ping(c) \/ Leave(c) \/ Forward(c)
  PROVE  ClientInv(c)'
<1>1. CASE Take(c) \/ Leave(c)
      BY <1>1, SameKeeps DEF Take, Leave, Same
<1>2. CASE Ping(c)
  <2>1. /\ log' = log /\ at'[c] = at[c] /\ start'[c] = start[c] /\ next'[c] = next[c]
        /\ hand'[c] = hand[c] /\ sent'[c] = sent[c] /\ lagEvents'[c] = lagEvents[c]
        /\ pongs'[c] = pongs[c] + 1 /\ pings'[c] = pings[c] + 1
        /\ at[c] # "done" /\ pongs[c] \in Nat /\ pings[c] \in Nat
        BY <1>2 DEF Ping, TypeOK
  <2>2. Frontier(c)' = Frontier(c) /\ Positions(c)'
        BY <2>1 DEF Frontier, Holding, ClientInv, Positions
  <2>3. Updates(c)' = Updates(c) /\ Holes(c)' = Holes(c)
        BY <2>1, NothingSent
  <2>4. Pending(c)' <=> Pending(c)
        BY <2>1, <2>2, <2>3 DEF Pending
  <2>5. QED
        BY <2>1, <2>2, <2>3, <2>4 DEF ClientInv, Ordered, Paid
<1>3. CASE RecvPong(c)
  <2>1. /\ log' = log /\ at[c] = "select" /\ at'[c] = "pong"
        /\ start'[c] = start[c] /\ next'[c] = next[c]
        /\ sent'[c] = sent[c] /\ lagEvents'[c] = lagEvents[c]
        /\ pongs'[c] = pongs[c] - 1 /\ pings'[c] = pings[c]
        /\ pongs[c] \in Nat /\ pings[c] \in Nat
        BY <1>3 DEF RecvPong, Goto, TypeOK
  <2>2. Frontier(c)' = Frontier(c) /\ Positions(c)'
        BY <2>1 DEF Frontier, Holding, ClientInv, Positions
  <2>3. QED
        BY <2>1, <2>2, FrontierKeeps
<1>4. CASE TrySendFull(c)
  <2>1. /\ log' = log /\ at[c] = "matched" /\ at'[c] = "reserve"
        /\ start'[c] = start[c] /\ next'[c] = next[c] /\ hand'[c] = hand[c]
        /\ sent'[c] = sent[c] /\ lagEvents'[c] = lagEvents[c]
        /\ pongs'[c] = pongs[c] /\ pings'[c] = pings[c]
        BY <1>4 DEF TrySendFull, Goto, TypeOK
  <2>2. Frontier(c)' = Frontier(c) /\ Positions(c)'
        BY <2>1 DEF Frontier, Holding, ClientInv, Positions
  <2>3. QED
        BY <2>1, <2>2, FrontierKeeps
<1>5. CASE TrySendOk(c) \/ Reserved(c)
      BY <1>5, DeliverKeeps DEF TrySendOk, Reserved
<1>6. QED
      BY <1>1, <1>2, <1>3, <1>4, <1>5, SubscribeKeeps, SkipKeeps, MatchedKeeps, LaggedKeeps,
         OtherSentKeeps, StopKeeps
      DEF Forward

LEMMA TypeStep ==
  ASSUME Inv, Next
  PROVE  TypeOK'
<1> USE ForwarderAssumption
<1>1. ASSUME NEW u \in Feed, Publish(u) PROVE TypeOK'
      BY <1>1 DEF Inv, TypeOK, Publish
<1>2. ASSUME NEW c \in Clients PROVE ClientInv(c) /\ Positions(c)
      BY DEF Inv, ClientInv
<1>3. ASSUME NEW c \in Clients, Subscribe(c) \/ Take(c) \/ Ping(c) \/ Leave(c) PROVE TypeOK'
  <2>1. CASE Subscribe(c)
    <3>1. Len(log) + 1 \in 1..(MaxLog + 1) /\ "select" \in Places
          BY DEF Inv, TypeOK, Places
    <3>2. QED
          BY <2>1, <3>1 DEF Inv, TypeOK, Subscribe, Goto
  <2>2. CASE Take(c)
    <3>1. taken[c] + 1 \in Nat
          BY DEF Inv, TypeOK
    <3>2. QED
          BY <2>2, <3>1 DEF Inv, TypeOK, Take
  <2>3. CASE Ping(c)
    <3>1. /\ pings[c] \in 0..MaxPings /\ pongs[c] \in 0..MaxPings /\ MaxPings \in Nat
          /\ pings[c] < MaxPings /\ pongs[c] <= pings[c]
          BY <1>2, <2>3 DEF Positions, Ping, Inv, TypeOK
    <3>2. pings[c] + 1 \in 0..MaxPings /\ pongs[c] + 1 \in 0..MaxPings
          BY <3>1
    <3>3. QED
          BY <2>3, <3>2 DEF Inv, TypeOK, Ping
  <2>4. CASE Leave(c)
        BY <2>4 DEF Inv, TypeOK, Leave
  <2>5. QED
        BY <1>3, <2>1, <2>2, <2>3, <2>4
<1>4. ASSUME NEW c \in Clients, Skip(c) \/ Matched(c) \/ RecvPong(c) \/ TrySendFull(c) \/ Stop(c)
      PROVE  TypeOK'
  <2>1. ASSUME next[c] \in Oldest..Len(log)
        PROVE  next[c] \in 0..MaxLog /\ next[c] + 1 \in 1..(MaxLog + 1)
    <3>1. Len(log) \in Nat /\ Len(log) <= MaxLog
          BY DEF Inv, TypeOK
    <3>2. Oldest \in Nat \ {0}
          BY <3>1 DEF Oldest
    <3>3. QED
          BY <2>1, <3>1, <3>2
  <2>2. {"matched", "pong", "reserve", "done"} \subseteq Places
        BY DEF Places
  <2>3. CASE Skip(c)
        BY <2>1, <2>3 DEF Inv, TypeOK, Skip
  <2>4. CASE Matched(c)
        BY <2>1, <2>2, <2>4 DEF Inv, TypeOK, Matched, Goto
  <2>5. CASE RecvPong(c)
    <3>1. pongs[c] - 1 \in 0..MaxPings
          BY <2>5 DEF RecvPong, Inv, TypeOK
    <3>2. QED
          BY <2>2, <2>5, <3>1 DEF Inv, TypeOK, RecvPong, Goto
  <2>6. CASE TrySendFull(c)
        BY <2>2, <2>6 DEF Inv, TypeOK, TrySendFull, Goto
  <2>7. CASE Stop(c)
        BY <2>2, <2>7 DEF Inv, TypeOK, Stop
  <2>8. QED
        BY <1>4, <2>3, <2>4, <2>5, <2>6, <2>7
<1>5. ASSUME NEW c \in Clients, Lagged(c) PROVE TypeOK'
  <2>0. TypeOK
        BY DEF Inv
  <2>1. Oldest \in 1..(MaxLog + 1)
    <3>1. Len(log) \in Nat /\ Len(log) <= MaxLog
          BY <2>0 DEF TypeOK
    <3>2. QED
          BY <3>1 DEF Oldest
  <2>2. next' \in [Clients -> 1..(MaxLog + 1)]
        BY <1>5, <2>0, <2>1 DEF TypeOK, Lagged
  <2>3. lagEvents' \in [Clients -> Nat]
        BY <1>5, <2>0 DEF TypeOK, Lagged
  <2>4. at' \in [Clients -> Places]
    <3>1. \E to \in Places : at' = [at EXCEPT ![c] = to]
          BY <1>5 DEF Lagged, Places
    <3>2. QED
          BY <2>0, <3>1 DEF TypeOK
  <2>5. QED
        BY <1>5, <2>0, <2>2, <2>3, <2>4 DEF TypeOK, Lagged
<1>6. ASSUME NEW c \in Clients, NEW item \in Items, Send(c, item),
             NEW to \in Places, at' = [at EXCEPT ![c] = to],
             UNCHANGED <<log, start, next, taken, lagEvents, pings, pongs, gone>>,
             hand' \in [Clients -> 0..MaxLog]
      PROVE  TypeOK'
  <2>1. sent' \in [Clients -> Seq(Items)]
        BY <1>6 DEF Inv, TypeOK, Send
  <2>2. QED
        BY <1>6, <2>1 DEF Inv, TypeOK
<1>7. ASSUME NEW c \in Clients, TrySendOk(c) \/ Reserved(c) PROVE TypeOK'
  <2>1. Holding(c) /\ hand' = [hand EXCEPT ![c] = 0] /\ Send(c, <<"update", hand[c]>>)
        /\ at' = [at EXCEPT ![c] = "select"]
        /\ UNCHANGED <<log, start, next, taken, lagEvents, pings, pongs, gone>>
        BY <1>7 DEF TrySendOk, Reserved, Deliver, Goto, Holding
  <2>2. hand[c] \in 1..MaxLog /\ hand' \in [Clients -> 0..MaxLog]
    <3>1. hand \in [Clients -> 0..MaxLog] /\ start[c] \in 1..(MaxLog + 1) /\ MaxLog \in Nat
          BY DEF Inv, TypeOK
    <3>2. start[c] <= hand[c]
          BY <1>2, <2>1 DEF Positions
    <3>3. QED
          BY <2>1, <3>1, <3>2
  <2>3. <<"update", hand[c]>> \in Items
        BY <2>2 DEF Items
  <2>4. "select" \in Places
        BY DEF Places
  <2>5. QED
        BY <1>6, <2>1, <2>2, <2>3, <2>4
<1>8. ASSUME NEW c \in Clients, PongReserved(c) \/ DataLoss(c) PROVE TypeOK'
  <2>1. <<"pong", 0>> \in Items /\ <<"data_loss", 0>> \in Items
        BY DEF Items
  <2>2. "select" \in Places /\ "done" \in Places /\ hand \in [Clients -> 0..MaxLog]
        BY DEF Places, Inv, TypeOK
  <2>3. CASE PongReserved(c)
        BY <1>6, <2>1, <2>2, <2>3 DEF PongReserved, Goto
  <2>4. CASE DataLoss(c)
        BY <1>6, <2>1, <2>2, <2>4 DEF DataLoss, Goto
  <2>5. QED
        BY <1>8, <2>3, <2>4
<1>9. QED
      BY <1>1, <1>3, <1>4, <1>5, <1>7, <1>8 DEF Next, Forward

LEMMA NextInv == Inv /\ [Next]_vars => Inv'
<1> SUFFICES ASSUME Inv, [Next]_vars PROVE Inv'
    OBVIOUS
<1>1. CASE UNCHANGED vars
  <2>1. TypeOK'
        BY <1>1 DEF Inv, TypeOK, vars
  <2>2. ASSUME NEW d \in Clients PROVE ClientInv(d)'
        BY <1>1, SameKeeps DEF Inv, Same, vars
  <2>3. QED
        BY <2>1, <2>2 DEF Inv
<1>2. ASSUME NEW u \in Feed, Publish(u) PROVE Inv'
      BY <1>2, PublishKeeps, TypeStep DEF Inv, Next
<1>3. ASSUME NEW c \in Clients, Subscribe(c) \/ Take(c) \/ Ping(c) \/ Leave(c) \/ Forward(c)
      PROVE  Inv'
  <2>1. TypeOK'
        BY <1>3, TypeStep DEF Next
  <2>2. ClientInv(c)'
        BY <1>3, OwnStep DEF Inv
  <2>3. ASSUME NEW d \in Clients \ {c} PROVE ClientInv(d)'
        BY <1>3, OthersSame, SameKeeps DEF Inv
  <2>4. QED
        BY <2>1, <2>2, <2>3 DEF Inv
<1>4. QED
      BY <1>1, <1>2, <1>3 DEF Next

\* Whatever the pace of the clients: each gets its updates in the order of the
\* broadcast and at most once (grpc_mux.rs:262-343).
THEOREM UpdatesInOrderOnce == Spec => []InOrderOnce
<1>1. Inv => InOrderOnce
      BY DEF Inv, ClientInv, Ordered, InOrderOnce
<1>2. QED
      BY InitInv, NextInv, <1>1, PTL DEF Spec

\* A client's stream has at most one hole per lag event, and fewer holes than
\* max_lag_events: the client is cut before it would stream on across the last
\* one it is allowed (grpc_mux.rs:286-306).
THEOREM FewHoles == Spec => []HolesBounded
<1>1. Inv => HolesBounded
      BY DEF Inv, ClientInv, Paid, HolesBounded
<1>2. QED
      BY InitInv, NextInv, <1>1, PTL DEF Spec

\* The state of any number of forwarders keeps its types.
THEOREM TypeCorrect == Spec => []TypeOK
<1>1. Inv => TypeOK
      BY DEF Inv
<1>2. QED
      BY InitInv, NextInv, <1>1, PTL DEF Spec

-----------------------------------------------------------------------------
(* The filters (module GrpcFilters), for every request and every update.    *)

\* What decodes of the keys of an accepted request is what was written, so a
\* compiled transaction filter lets the same transactions through.
LEMMA TxFilterAsUpstream ==
  ASSUME NEW f, NEW info,
         f.signature \cup f.account_include \cup f.account_exclude
           \cup f.account_required \subseteq Base58,
         f.cuckoo = {}, ~f.token
  PROVE  matches_tx_filter(CompiledTxFilter(f), info) <=> ServedTx(f, info)
<1> DEFINE g == CompiledTxFilter(f)
           keys == info.message \cup UNION {m.loaded : m \in info.meta}
<1>1. /\ g.vote = f.vote /\ g.failed = f.failed /\ g.signature = f.signature
      /\ g.account_include = f.account_include /\ g.account_exclude = f.account_exclude
      /\ g.account_required = f.account_required
      BY DEF CompiledTxFilter, decode_b58
<1>2. matches_accounts(g, keys) <=>
        /\ f.account_include = {} \/ f.account_include \cap keys # {}
        /\ f.account_exclude \cap keys = {}
        /\ f.account_required \subseteq keys
  <2> HIDE DEF g, keys
  <2>1. QED
        BY <1>1 DEF matches_accounts
<1>3. matches_tx_filter(g, info) <=>
        /\ f.vote \subseteq {info.is_vote}
        /\ f.failed \subseteq {\E m \in info.meta : m.err}
        /\ f.signature \subseteq {info.signature}
        /\ matches_accounts(g, keys)
  <2>1. collect_tx_account_keys(info) = keys
        BY DEF collect_tx_account_keys
  <2> DEFINE failed == \E m \in info.meta : m.err
  <2>2. matches_tx_filter(g, info) <=>
          /\ \A want \in f.vote : want = info.is_vote
          /\ \A want \in f.failed : want = failed
          /\ \A want \in f.signature : want = info.signature
          /\ matches_accounts(g, keys)
        BY <1>1, <2>1, Zenon DEF matches_tx_filter
  <2>3. QED
    <3> HIDE DEF failed, keys, g
    <3>1. (\A want \in f.failed : want = failed) <=> f.failed \subseteq {failed}
          BY Zenon
    <3>2. (\A want \in f.vote : want = info.is_vote) <=> f.vote \subseteq {info.is_vote}
          BY Zenon
    <3>3. (\A want \in f.signature : want = info.signature) <=> f.signature \subseteq {info.signature}
          BY Zenon
    <3>4. QED
          BY <2>2, <3>1, <3>2, <3>3, Zenon DEF failed
<1>4. ServedTx(f, info) <=>
        /\ f.vote \subseteq {info.is_vote}
        /\ f.failed \subseteq {\E m \in info.meta : m.err}
        /\ f.signature \subseteq {info.signature}
        /\ f.account_include = {} \/ f.account_include \cap keys # {}
        /\ f.account_exclude \cap keys = {}
        /\ f.account_required \subseteq keys
  <2>1. /\ info.message \cup UNION {m.loaded : m \in info.meta}
             \cup (IF f.token THEN info.owners ELSE {}) = keys
        /\ f.account_include \cup f.cuckoo = f.account_include
        OBVIOUS
  <2>2. QED
        BY <2>1, Zenon DEF ServedTx
<1>5. QED
      BY <1>2, <1>3, <1>4, Zenon

\* What routing to the mux tells of a request: no filter of a kind that the mux
\* does not serve, and no option that it cannot evaluate.
LEMMA RoutedKinds ==
  ASSUME NEW req, ToMux(req)
  PROVE  /\ req.accounts = {} /\ req.blocks = {} /\ req.transactions_status = {}
         /\ \A n \in DOMAIN req.entry : ~req.entry[n]
         /\ \A n \in DOMAIN req.block_footer : ~req.block_footer[n]
         /\ \A n \in DOMAIN req.transactions :
              req.transactions[n].cuckoo = {} /\ ~req.transactions[n].token
<1>1. /\ req.accounts = {} /\ req.blocks = {} /\ req.transactions_status = {}
      /\ ~UnsupportedOptions(req)
      BY DEF ToMux, from_request, needs_direct_connection
<1>2. QED
      BY <1>1, Zenon DEF UnsupportedOptions

\* What the mux subscribed to, kind by kind.
LEMMA MuxFeed ==
  ASSUME NEW u, u.kind \in Kinds
  PROVE  LET mux == build_mux_subscribe_request(FALSE)
         IN  /\ mux.commitment = "processed" /\ mux.from_slot = FALSE
             /\ u.kind \in {"slot", "block_meta", "entry", "block_footer"} => ServedBy(mux, u) # {}
             /\ u.kind = "transaction" => (ServedBy(mux, u) # {} <=> u.info # {})
             /\ u.kind \in {"interslot", "entry_parent", "certificate", "account", "block",
                            "transaction_status"} => ServedBy(mux, u) = {}
<1> DEFINE mux == build_mux_subscribe_request(FALSE)
<1>1. /\ DOMAIN mux.transactions = {"mux_tx"} /\ mux.transactions["mux_tx"] = MuxTxFilter
      /\ DOMAIN mux.slots = {"mux_slot"} /\ mux.slots["mux_slot"] = {}
      /\ mux.blocks_meta = {"mux_blocks_meta"}
      /\ DOMAIN mux.entry = {"mux_entry"} /\ mux.entry["mux_entry"] = FALSE
      /\ DOMAIN mux.block_footer = {"mux_block_footer"} /\ mux.block_footer["mux_block_footer"] = FALSE
      /\ mux.accounts = {} /\ mux.blocks = {} /\ mux.transactions_status = {}
      /\ mux.commitment = "processed" /\ mux.from_slot = FALSE
      BY DEF build_mux_subscribe_request
<1> HIDE DEF mux
<1>2. CASE u.kind = "transaction"
  <2>1. ServedBy(mux, u) = {n \in DOMAIN mux.transactions :
                \E info \in u.info : ServedTx(mux.transactions[n], info)}
        BY <1>2 DEF ServedBy
  <2>2. ASSUME NEW info PROVE ServedTx(MuxTxFilter, info)
        BY DEF ServedTx, MuxTxFilter
  <2>3. QED
        BY <1>1, <1>2, <2>1, <2>2 DEF mux
<1>3. CASE u.kind = "slot"
  <2>1. ServedBy(mux, u) = {n \in DOMAIN mux.slots :
                "filter_by_commitment" \in mux.slots[n] => u.at = mux.commitment}
        BY <1>3 DEF ServedBy
  <2>2. QED
        BY <1>1, <1>3, <2>1 DEF mux
<1>4. CASE u.kind = "interslot"
  <2>1. ServedBy(mux, u) = {n \in DOMAIN mux.slots : "interslot_updates" \in mux.slots[n]}
        BY <1>4 DEF ServedBy
  <2>2. QED
        BY <1>1, <1>4, <2>1 DEF mux
<1>5. CASE u.kind \in {"block_meta", "entry", "block_footer", "account", "block", "transaction_status"}
      BY <1>1, <1>5 DEF mux, ServedBy
<1>6. CASE u.kind \in {"entry_parent", "certificate"}
      BY <1>1, <1>6 DEF mux, ServedBy
<1>7. QED
      BY <1>2, <1>3, <1>4, <1>5, <1>6 DEF Kinds

\* The mux names the filters that a server would name for the live request.
LEMMA MatchIsUpstreams == ServesLive
<1> SUFFICES ASSUME NEW req \in SampleRequests, Accepted(req), ToMux(req),
                    NEW u \in SampleUpdates
             PROVE  MuxServes(req, u) = SomeNames(Served(Live(req), u))
    BY DEF ServesLive
<1> DEFINE f == from_request(req)
           live == Live(req)
           mux == build_mux_subscribe_request(FALSE)
<1>0. u.kind \in Kinds
      BY FilterAssumption
<1>1. /\ f.slots = DOMAIN req.slots /\ f.blocks_meta = req.blocks_meta
      /\ f.entry = DOMAIN req.entry /\ f.block_footer = DOMAIN req.block_footer
      /\ DOMAIN f.transactions = DOMAIN req.transactions
      /\ \A n \in DOMAIN req.transactions :
           f.transactions[n] = CompiledTxFilter(req.transactions[n])
      BY DEF from_request
<1>2. /\ live.transactions = req.transactions /\ live.blocks_meta = req.blocks_meta
      /\ DOMAIN live.slots = DOMAIN req.slots /\ \A n \in DOMAIN req.slots : live.slots[n] = {}
      /\ live.entry = req.entry /\ live.block_footer = req.block_footer
      /\ live.accounts = req.accounts /\ live.blocks = req.blocks
      /\ live.transactions_status = req.transactions_status
      /\ live.commitment = "processed" /\ live.from_slot = FALSE
      BY DEF Live
<1>3. mux.commitment = "processed" /\ mux.from_slot = FALSE
      BY <1>0, MuxFeed
<1>4. MuxServes(req, u) = IF Served(mux, u) # {} THEN match_update(f, u) ELSE {}
      BY DEF MuxServes, Carried
<1> HIDE DEF f, live, mux
<1>5. Timely(live, u) <=> Timely(mux, u)
      BY <1>2, <1>3 DEF Timely
<1>6. CASE ~Timely(live, u)
  <2>1. Served(live, u) = {} /\ Served(mux, u) = {}
        BY <1>5, <1>6 DEF Served
  <2>2. QED
        BY <1>4, <2>1 DEF SomeNames, live
<1>7. CASE Timely(live, u)
  <2>1. Served(live, u) = ServedBy(live, u) /\ Served(mux, u) = ServedBy(mux, u)
        BY <1>5, <1>7 DEF Served
  <2>2. SUFFICES (IF ServedBy(mux, u) # {} THEN match_update(f, u) ELSE {})
                   = SomeNames(ServedBy(live, u))
        BY <1>4, <2>1 DEF live
  <2>3. CASE u.kind = "transaction"
    <3>1. ASSUME NEW n \in DOMAIN req.transactions, NEW info
          PROVE  matches_tx_filter(f.transactions[n], info) <=> ServedTx(req.transactions[n], info)
      <4>1. req.transactions[n].cuckoo = {} /\ ~req.transactions[n].token
            BY RoutedKinds
      <4>2. req.transactions[n].signature \cup req.transactions[n].account_include
              \cup req.transactions[n].account_exclude
              \cup req.transactions[n].account_required \subseteq Base58
            BY DEF Accepted
      <4>3. QED
            BY <1>1, <4>1, <4>2, TxFilterAsUpstream
    <3>2. match_transaction(f, u) = {n \in DOMAIN req.transactions :
                  \E info \in u.info : ServedTx(req.transactions[n], info)}
          BY <1>1, <3>1 DEF match_transaction
    <3>3. ServedBy(live, u) = match_transaction(f, u)
          BY <1>2, <2>3, <3>2 DEF ServedBy
    <3>4. match_update(f, u) = SomeNames(ServedBy(live, u))
          BY <2>3, <3>3 DEF match_update
    <3>5. u.info = {} => ServedBy(live, u) = {}
          BY <3>2, <3>3
    <3>6. ServedBy(mux, u) # {} <=> u.info # {}
          BY <1>0, <2>3, MuxFeed DEF mux
    <3>7. QED
          BY <3>4, <3>5, <3>6 DEF SomeNames
  <2>4. CASE u.kind = "slot"
    <3>1. ServedBy(live, u) = DOMAIN req.slots
          BY <1>2, <2>4 DEF ServedBy
    <3>2. ServedBy(mux, u) # {}
          BY <1>0, <2>4, MuxFeed DEF mux
    <3>3. QED
          BY <1>1, <2>4, <3>1, <3>2 DEF match_update
  <2>5. CASE u.kind \in {"block_meta", "entry", "block_footer"}
    <3>1. ServedBy(mux, u) # {}
          BY <1>0, <2>5, MuxFeed DEF mux
    <3>2. QED
          BY <1>1, <1>2, <2>5, <3>1 DEF match_update, ServedBy
  <2>6. CASE u.kind \in {"interslot", "entry_parent", "certificate", "account", "block",
                         "transaction_status"}
    <3>1. ServedBy(mux, u) = {}
          BY <1>0, <2>6, MuxFeed DEF mux
    <3>2. ServedBy(live, u) = {}
      <4>1. CASE u.kind = "interslot"
        <5>1. ServedBy(live, u) = {n \in DOMAIN live.slots : "interslot_updates" \in live.slots[n]}
              BY <4>1 DEF ServedBy
        <5>2. QED
              BY <1>2, <5>1
      <4>2. CASE u.kind \in {"entry_parent", "certificate"}
        <5>1. ServedBy(live, u) \in {{n \in DOMAIN req.entry : req.entry[n]},
                                     {n \in DOMAIN req.block_footer : req.block_footer[n]}}
              BY <1>2, <4>2 DEF ServedBy
        <5>2. QED
              BY <5>1, RoutedKinds, Zenon
      <4>3. CASE u.kind \in {"account", "block", "transaction_status"}
            BY <1>2, <4>3, RoutedKinds DEF ServedBy
      <4>4. QED
            BY <2>6, <4>1, <4>2, <4>3
    <3>3. QED
          BY <3>1, <3>2 DEF SomeNames
  <2>7. QED
        BY <1>0, <2>3, <2>4, <2>5, <2>6 DEF Kinds
<1>8. QED
      BY <1>6, <1>7

\* For every request that is routed to the mux and every update: the client is
\* sent what a server would send for the live form of the request, under the same
\* filter names (grpc_filter.rs:46-267, grpc_mux.rs:900-961); commitment, from_slot
\* and the options of slot filters change nothing.
THEOREM FiltersLikeUpstream == Spec => []MuxLikeUpstream
<1>1. MuxLikeUpstream
      BY MatchIsUpstreams DEF MuxLikeUpstream
<1>2. QED
      BY <1>1, PTL
=============================================================================
