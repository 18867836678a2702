------------------------- MODULE UpstreamReplayProofs -------------------------
(***************************************************************************)
(* For a chain of any length, any window, any filters and any number of     *)
(* requests: a reconnect leaves no hole without an excuse, the slot tracker *)
(* reports exactly the holes, and the client's last request survives.       *)
(*                                                                         *)
(* NoHole speaks of the data that arrived.  What the next stream needs is   *)
(* said by Covered: everything before its cursor arrived; and, between two  *)
(* streams, everything before the last slot seen, from which the next one   *)
(* resumes.  The tracker is exact because its ring is the upper end of what *)
(* it was fed (Ring, RingJudges) and no stream of the mux goes back behind  *)
(* the last slot (Resumes).                                                 *)
(***************************************************************************)
EXTENDS UpstreamReplay, FiniteSetTheorems, TLAPS

\* The mux has no client of its own.
Modes ==
    /\ mode = "mux" =>
         /\ latest.from = 0 /\ fromClient = <<>>
         /\ phase \in {"connecting", "streaming", "sleeping"}
    /\ mode = "direct" => observed = {} /\ told = {}

\* A slot builds on an older one.
ParentOlder == \A s \in 1..MaxSlot : parent[s] < s

\* A request that is being relayed is the latest one already.
Relayed ==
    /\ LatestSurvives
    /\ phase = "relaying" =>
         /\ fromClient # <<>>
         /\ IF Head(fromClient) = Ping THEN WillServe(latest.filter)
            ELSE latest = Head(fromClient)

\* The ring holds, in order, the highest slots that were observed.
Ring ==
    /\ \A i \in DOMAIN recent : recent[i] \in observed
    /\ \A i, j \in DOMAIN recent : i < j => recent[i] < recent[j]
    /\ observed # {} => recent # <<>>
    /\ \A s \in observed : s >= Head(recent) \/ Len(recent) < Window => Contains(recent, s)

\* The highest slot; it has begun.
LastSlot ==
    /\ 3 * lastSlot - 2 <= emitted
    /\ mode = "mux" => \A s \in observed : s <= lastSlot
    /\ mode = "mux" /\ lastSlot # 0 => lastSlot \in observed

\* No stream of the mux goes back behind it.
Resumes ==
    mode = "mux" =>
        /\ phase \in {"connecting", "sleeping"} => replayFrom \in {0, lastSlot}
        /\ phase \in Established /\ cursor # 0 => cursor >= 3 * lastSlot - 2

Arrived(n) == NoData(n) \/ n \in run.data \/ (phase = "forwarding" /\ n = hand)

Covered ==
    /\ phase \in Established /\ cursor # 0 =>
         ~excused /\ \A n \in run.since..(cursor - 1) : Arrived(n)
    /\ ~excused /\ phase # "closed" /\ (phase \in Established => cursor = 0) =>
         \A n \in run.since..(3 * lastSlot - 3) : Arrived(n)

\* Without an excuse the next stream resumes from the last slot.
Excuses ==
    /\ phase \in {"connecting", "sleeping"} /\ ~excused => replayFrom = lastSlot /\ lastSlot # 0
    /\ ~excused => run.since # 0
    /\ phase = "forwarding" => hand = 0 \/ hand < cursor

Inv ==
    /\ TypeOK /\ Modes /\ ParentOlder /\ Relayed
    /\ Ring /\ LastSlot /\ Resumes /\ AlarmsAreExact
    /\ NoHole /\ Covered /\ Excuses

LEMMA InitInv == Init => Inv
<1> SUFFICES ASSUME Init PROVE Inv
    OBVIOUS
<1> USE ReplayAssumption, WindowAssumption
<1>1. latest \in Requests \cup MuxRequests /\ latest.filter \in Filters \cup WithSlots
      BY DEF Init, Requests, MuxRequests
<1>2. TypeOK
  <2>1. replay \in BOOLEAN /\ got \in BOOLEAN /\ pongDue \in BOOLEAN /\ excused \in BOOLEAN
        BY Zenon DEF Init
  <2>2. run \in [since : 0..(3 * MaxSlot + 1), data : SUBSET Messages]
        BY DEF Init
  <2>3. recent \in Seq(1..MaxSlot) /\ Len(recent) <= Window
        BY DEF Init
  <2>4. QED
        BY <1>1, <2>1, <2>2, <2>3 DEF Init, TypeOK, Phases
<1>3. Modes /\ ParentOlder /\ Relayed
      BY DEF Init, Modes, ParentOlder, MuxRequests, Relayed, LatestSurvives
<1>4. Ring /\ LastSlot /\ Resumes /\ AlarmsAreExact
      BY DEF Init, Ring, LastSlot, Resumes, AlarmsAreExact, Established
<1>5. NoHole /\ Covered /\ Excuses
      BY DEF Init, NoHole, Covered, Excuses, Established
<1>6. QED
      BY <1>2, <1>3, <1>4, <1>5 DEF Inv

-----------------------------------------------------------------------------
(* Types.                                                                   *)

LEMMA Arithmetic ==
  ASSUME NEW m \in 1..(3 * MaxSlot)
  PROVE  /\ SlotOf(m) \in 1..MaxSlot
         /\ IsSlotUpdate(m) => m = 3 * SlotOf(m) - 1
BY ReplayAssumption DEF SlotOf, IsSlotUpdate

LEMMA PushKeepsType ==
  ASSUME NEW S, NEW ring \in Seq(S), Len(ring) <= Window, NEW slot \in S
  PROVE  Push(ring, slot) \in Seq(S) /\ Len(Push(ring, slot)) <= Window
<1> USE WindowAssumption
<1> DEFINE longer == Append(ring, slot)
<1>1. longer \in Seq(S) /\ Len(longer) = Len(ring) + 1
      OBVIOUS
<1>2. Len(longer) > Window => Tail(longer) \in Seq(S) /\ Len(Tail(longer)) = Len(ring)
      BY <1>1
<1>3. QED
      BY <1>1, <1>2 DEF Push

LEMMA TypeStep ==
  ASSUME Inv, Next
  PROVE  TypeOK'
<1> USE ReplayAssumption
<1> USE DEF chain, stream, client, slots
<1>1. TypeOK
      BY DEF Inv
<1>2. CASE Emit \/ LeaderSkips
  <2>1. /\ emitted \in 0..(3 * MaxSlot) /\ MoreSlots /\ DirectSlots <= MaxSlot
        /\ parent \in [1..MaxSlot -> 0..MaxSlot] /\ skipped \subseteq 1..MaxSlot
    <3>1. MoreSlots
          BY <1>2, Zenon DEF Emit, LeaderSkips
    <3>2. QED
          BY <1>1, <3>1 DEF TypeOK
  <2>2. emitted < 3 * MaxSlot
        BY <2>1 DEF MoreSlots
  <2>3. SlotOf(emitted + 1) \in 1..MaxSlot /\ SlotOf(emitted) \in 0..MaxSlot
        /\ (SlotBegins => emitted + 3 <= 3 * MaxSlot)
        BY <2>1, <2>2 DEF SlotOf, SlotBegins
  <2>4. CASE Emit
    <3>1. Parents \subseteq 0..MaxSlot
          BY <2>1, <2>3 DEF Parents
    <3>2. parent' \in [1..MaxSlot -> 0..MaxSlot]
          BY <2>1, <2>4, <3>1 DEF Emit
    <3>3. emitted' \in 0..(3 * MaxSlot)
          BY <2>1, <2>2, <2>4 DEF Emit
    <3>4. QED
          BY <1>1, <2>4, <3>2, <3>3 DEF TypeOK, Emit
  <2>5. CASE LeaderSkips
    <3>1. SlotBegins /\ emitted' = emitted + 3 /\ skipped' = skipped \cup {SlotOf(emitted + 1)}
          BY <2>5 DEF LeaderSkips
    <3>2. emitted' \in 0..(3 * MaxSlot)
          BY <2>1, <2>3, <3>1
    <3>3. skipped' \subseteq 1..MaxSlot
          BY <2>1, <2>3, <3>1
    <3>4. QED
          BY <1>1, <2>5, <3>2, <3>3 DEF TypeOK, LeaderSkips
  <2>6. QED
        BY <1>2, <2>4, <2>5
<1>3. CASE Forget
  <2>1. SlotOf(emitted) <= MaxSlot
        BY <1>1 DEF TypeOK, SlotOf
  <2>2. QED
        BY <1>1, <1>3, <2>1 DEF TypeOK, Forget, SlotOf
<1>4. ASSUME StreamDropped
       PROVE  /\ subscribed' \in Filters \cup WithSlots /\ got' \in BOOLEAN /\ pongDue' \in BOOLEAN
              /\ toUpstream' \in Seq(Requests \cup {Ping}) /\ Len(toUpstream') <= UpCap
              /\ cursor' \in 0..(3 * MaxSlot + 1) /\ hand' \in 0..(3 * MaxSlot)
  <2>1. latest.filter \in Filters \cup WithSlots
        BY <1>1 DEF TypeOK, Requests, MuxRequests
  <2>2. got' \in BOOLEAN /\ pongDue' \in BOOLEAN
        BY <1>4, Zenon DEF StreamDropped
  <2>3. QED
        BY <1>4, <2>1, <2>2 DEF StreamDropped
<1>5. CASE ClientGone
      BY <1>1, <1>5, <1>4 DEF TypeOK, ClientGone, Phases
<1>6. ASSUME NEW r \in Requests \cup {Ping}, ClientSends(r) PROVE TypeOK'
      BY <1>1, <1>6 DEF TypeOK, ClientSends
<1>7. ASSUME NEW refused \in BOOLEAN, SubscribeFails(refused) PROVE TypeOK'
  <2>0. replayFrom' \in {0, lastSlot, replayFrom}
        BY <1>7, Zenon DEF SubscribeFails, Decide, ReplaySlot
  <2>1. replayFrom' \in 0..MaxSlot
        BY <1>1, <2>0 DEF TypeOK
  <2>2. excused' \in BOOLEAN
        BY <1>1, <1>7 DEF TypeOK, SubscribeFails, Decide
  <2>3. QED
        BY <1>1, <1>7, <2>1, <2>2 DEF TypeOK, SubscribeFails, Goto, Phases
<1>8. CASE Wake
      BY <1>1, <1>8 DEF TypeOK, Wake, Goto, Phases
<1>9. CASE EstablishServed
  <2>1. Asked \in 0..MaxSlot
        BY <1>1 DEF TypeOK, Asked, Requests, MuxRequests
  <2> DEFINE start == IF Asked = 0 THEN emitted + 1 ELSE FirstOf(Asked)
             since == IF Asked \in 1..(lastSlot - 1) THEN FirstOf(lastSlot) ELSE start
  <2>2. start \in 0..(3 * MaxSlot + 1) /\ since \in 0..(3 * MaxSlot + 1)
        BY <1>1, <2>1 DEF TypeOK, FirstOf
  <2>3. /\ Establish(start) /\ excused' = FALSE
        /\ run' = IF excused THEN [since |-> since, data |-> {}] ELSE run
        BY <1>9 DEF EstablishServed
  <2> HIDE DEF start, since
  <2>4. run' \in [since : 0..(3 * MaxSlot + 1), data : SUBSET Messages]
        BY <1>1, <2>2, <2>3 DEF TypeOK
  <2>5. latest.filter \in Filters \cup WithSlots
        BY <1>1 DEF TypeOK, Requests, MuxRequests
  <2>6. pongDue' \in BOOLEAN /\ got' \in BOOLEAN /\ excused' \in BOOLEAN
        BY <2>3, Zenon DEF Establish
  <2>7. QED
        BY <1>1, <2>2, <2>3, <2>4, <2>5, <2>6 DEF TypeOK, Establish, Goto, Phases
<1>10. CASE EstablishRefused
  <2>1. latest.filter \in Filters \cup WithSlots
        BY <1>1 DEF TypeOK, Requests, MuxRequests
  <2>2. pongDue' \in BOOLEAN /\ got' \in BOOLEAN
        BY <1>10, Zenon DEF EstablishRefused, Establish
  <2>3. QED
        BY <1>1, <1>10, <2>1, <2>2 DEF TypeOK, EstablishRefused, Establish, Goto, Phases
<1>11. CASE Pass
      BY <1>1, <1>11 DEF TypeOK, Pass
<1>12. ASSUME NEW m \in 0..(3 * MaxSlot), Arrives(m), cursor' \in 0..(3 * MaxSlot + 1),
              lastSlot' \in 0..MaxSlot, recent' \in Seq(1..MaxSlot), Len(recent') <= Window,
              told' \subseteq observed', observed' \subseteq 1..MaxSlot, pongDue' \in BOOLEAN
      PROVE  TypeOK'
  <2>1. run' \in [since : 0..(3 * MaxSlot + 1), data : SUBSET Messages]
    <3>1. m # 0 => m \in Messages
          BY DEF Messages
    <3>2. run' = run \/ (m # 0 /\ run' = [run EXCEPT !.data = @ \cup {m}])
          BY <1>12 DEF Arrives, HandOver
    <3>3. run \in [since : 0..(3 * MaxSlot + 1), data : SUBSET Messages]
          BY <1>1 DEF TypeOK
    <3>4. CASE run' = run
          BY <3>3, <3>4
    <3>5. CASE m # 0 /\ run' = [run EXCEPT !.data = @ \cup {m}]
      <4> DEFINE more == run.data \cup {m}
      <4>1. more \in SUBSET Messages /\ run' = [run EXCEPT !.data = more]
            BY <3>1, <3>3, <3>5
      <4> HIDE DEF more
      <4>2. QED
            BY <3>3, <4>1
    <3>6. QED
          BY <3>2, <3>4, <3>5
  <2>2. phase' \in Phases /\ hand' \in 0..(3 * MaxSlot) /\ got' \in BOOLEAN
        BY <1>1, <1>12 DEF TypeOK, Arrives, Phases
  <2>3. QED
        BY <1>1, <1>12, <2>1, <2>2 DEF TypeOK, Arrives
<1>13. CASE Receive
  <2>1. cursor \in 0..(3 * MaxSlot) /\ cursor' \in 0..(3 * MaxSlot + 1)
        BY <1>1, <1>13 DEF TypeOK, Receive
  <2>2. pongDue' \in BOOLEAN /\ UNCHANGED <<lastSlot, recent, told, observed>> /\ Arrives(cursor)
        BY <1>1, <1>13 DEF TypeOK, Receive
  <2>3. QED
        BY <1>1, <1>12, <2>1, <2>2 DEF TypeOK
<1>14. CASE ReceiveSlot
  <2>1. cursor \in 1..(3 * MaxSlot) /\ SlotOf(cursor) \in 1..MaxSlot
        BY <1>1, <1>14, Arithmetic DEF TypeOK, ReceiveSlot
  <2>2. lastSlot' \in 0..MaxSlot
        BY <1>1, <1>14, <2>1 DEF TypeOK, ReceiveSlot, Highest
  <2>3. Track(SlotOf(cursor)) \/ UNCHANGED <<recent, told, observed>>
        BY <1>14 DEF ReceiveSlot
  <2>4. recent' \in Seq(1..MaxSlot) /\ Len(recent') <= Window
        BY <1>1, <2>1, <2>3, PushKeepsType DEF TypeOK, Track
  <2>5. told' \subseteq observed' /\ observed' \subseteq 1..MaxSlot
        BY <1>1, <2>1, <2>3 DEF TypeOK, Track
  <2>6. /\ cursor' \in 0..(3 * MaxSlot + 1) /\ pongDue' \in BOOLEAN
        /\ cursor \in 0..(3 * MaxSlot) /\ Arrives(cursor)
        BY <1>1, <1>14, <2>1 DEF TypeOK, ReceiveSlot
  <2>7. QED
        BY <1>12, <2>2, <2>4, <2>5, <2>6
<1>15. ASSUME NEW slot \in 1..MaxSlot, ReceiveStatus(slot) PROVE TypeOK'
  <2>1. Arrives(0) /\ UNCHANGED <<recent, told, observed, pongDue, cursor>>
        /\ lastSlot' \in {lastSlot, slot}
        BY <1>15 DEF ReceiveStatus, Highest
  <2>2. 0 \in 0..(3 * MaxSlot) /\ lastSlot' \in 0..MaxSlot
        BY <1>1, <2>1 DEF TypeOK
  <2>3. /\ cursor' \in 0..(3 * MaxSlot + 1) /\ recent' \in Seq(1..MaxSlot) /\ Len(recent') <= Window
        /\ told' \subseteq observed' /\ observed' \subseteq 1..MaxSlot
        BY <1>1, <2>1 DEF TypeOK
  <2>4. pongDue' \in BOOLEAN
        BY <1>1, <2>1, Zenon DEF TypeOK
  <2>5. QED
        BY <1>12, <2>1, <2>2, <2>3, <2>4
<1>16. CASE ReceivePong
  <2>1. pongDue' = FALSE /\ Arrives(0) /\ UNCHANGED <<lastSlot, recent, told, observed, cursor>>
        BY <1>16, Zenon DEF ReceivePong
  <2>2. 0 \in 0..(3 * MaxSlot)
        OBVIOUS
  <2>3. QED
        BY <1>1, <1>12, <2>1, <2>2 DEF TypeOK
<1>17. CASE Forward
  <2>1. run' \in [since : 0..(3 * MaxSlot + 1), data : SUBSET Messages]
    <3>1. hand # 0 => hand \in Messages
          BY <1>1 DEF TypeOK, Messages
    <3>2. QED
          BY <1>1, <1>17, <3>1 DEF TypeOK, Forward, HandOver
  <2>2. QED
        BY <1>1, <1>17, <2>1 DEF TypeOK, Forward, Goto, Phases
<1>18. CASE TakeRequest
  <2>1. latest' \in Requests \cup MuxRequests
        BY <1>1, <1>18 DEF TypeOK, TakeRequest, LatestAfter
  <2>2. QED
        BY <1>1, <1>18, <2>1 DEF TypeOK, TakeRequest, Goto, Phases
<1>19. CASE Relay
  <2>1. fromClient # <<>> /\ Head(fromClient) \in Requests \cup {Ping}
        /\ Tail(fromClient) \in Seq(Requests \cup {Ping})
        BY <1>1, <1>19 DEF TypeOK, Relay, Goto, Inv, Relayed
  <2>2. toUpstream' \in Seq(Requests \cup {Ping}) /\ Len(toUpstream') <= UpCap
        BY <1>1, <1>19, <2>1 DEF TypeOK, Relay
  <2>3. fromClient' \in Seq(Requests \cup {Ping}) /\ phase' \in Phases
        BY <1>19, <2>1 DEF Relay, Goto, Phases
  <2>4. QED
        BY <1>1, <1>19, <2>2, <2>3 DEF TypeOK, Relay
<1>20. CASE UpstreamReads
  <2>1. Head(toUpstream) \in Requests \cup {Ping}
        /\ Tail(toUpstream) \in Seq(Requests \cup {Ping})
        /\ Len(Tail(toUpstream)) <= UpCap
        BY <1>1, <1>20 DEF TypeOK, UpstreamReads
  <2>2. subscribed' \in Filters \cup WithSlots /\ pongDue' \in BOOLEAN
        BY <1>1, <1>20, <2>1 DEF TypeOK, UpstreamReads, Requests
  <2>3. QED
        BY <1>1, <1>20, <2>1, <2>2 DEF TypeOK, UpstreamReads
<1>21. ASSUME NEW refused \in BOOLEAN, StreamEnds(refused) PROVE TypeOK'
  <2>0. replayFrom' \in {0, lastSlot} /\ excused' \in BOOLEAN
        BY <1>21, Zenon DEF StreamEnds, Decide, ReplaySlot
  <2>1. replayFrom' \in 0..MaxSlot /\ excused' \in BOOLEAN
        BY <1>1, <2>0 DEF TypeOK
  <2>2. fromClient' \in Seq(Requests \cup {Ping})
        BY <1>1, <1>21 DEF TypeOK, StreamEnds, Inv, Relayed
  <2>3. QED
        BY <1>1, <1>21, <1>4, <2>1, <2>2 DEF TypeOK, StreamEnds, Phases
<1>22. QED
      BY <1>2, <1>3, <1>5, <1>6, <1>7, <1>8, <1>9, <1>10, <1>11, <1>13, <1>14, <1>16, <1>17,
         <1>18, <1>19, <1>20, <1>21, <1>15
      DEF Next

-----------------------------------------------------------------------------
(* The client's requests.                                                   *)

LEMMA ModesStep ==
  ASSUME Inv, Next
  PROVE  Modes'
<1> USE DEF Inv, Modes, chain, stream, client, slots
<1>1. CASE \/ Emit \/ LeaderSkips \/ Forget \/ ClientGone
           \/ \E r \in Requests \cup {Ping} : ClientSends(r)
      BY <1>1 DEF Emit, LeaderSkips, Forget, ClientGone, ClientSends, TypeOK
<1>2. CASE Wake \/ \E refused \in BOOLEAN : SubscribeFails(refused) \/ StreamEnds(refused)
      BY <1>2 DEF SubscribeFails, Wake, Goto, StreamEnds, TypeOK
<1>3. CASE EstablishServed \/ EstablishRefused
      BY <1>3 DEF EstablishServed, EstablishRefused, Establish, Goto
<1>4. CASE Pass \/ Forward \/ TakeRequest \/ Relay \/ UpstreamReads
      BY <1>4 DEF Pass, Forward, TakeRequest, Relay, UpstreamReads, Goto
<1>5. CASE Receive \/ ReceivePong \/ \E slot \in 1..MaxSlot : ReceiveStatus(slot)
      BY <1>5 DEF Receive, ReceivePong, ReceiveStatus, Arrives
<1>6. CASE ReceiveSlot
      BY <1>6 DEF ReceiveSlot, Arrives, Track, TypeOK
<1>7. QED
      BY <1>1, <1>2, <1>3, <1>4, <1>5, <1>6 DEF Next

\* A slot that begins is younger than what it builds on.
LEMMA ParentStep ==
  ASSUME Inv, Next
  PROVE  ParentOlder'
<1> USE ReplayAssumption DEF chain, stream, client, slots
<1>1. TypeOK /\ ParentOlder
      BY DEF Inv
<1>2. CASE Emit
  <2>1. CASE ~SlotBegins
        BY <1>1, <1>2, <2>1 DEF Emit, ParentOlder
  <2>2. CASE SlotBegins
    <3> DEFINE slot == SlotOf(emitted + 1)
    <3>1. PICK p \in Parents : parent' = [parent EXCEPT ![slot] = p]
          BY <1>2, <2>2 DEF Emit
    <3>2. emitted \in Nat /\ slot = SlotOf(emitted) + 1 /\ SlotOf(emitted) \in Nat
          BY <1>1, <2>2 DEF TypeOK, SlotBegins, SlotOf
    <3>3. p < slot
          BY <3>1, <3>2 DEF Parents
    <3> HIDE DEF slot
    <3>4. QED
          BY <1>1, <3>1, <3>3 DEF ParentOlder, TypeOK
  <2>3. QED
        BY <2>1, <2>2
<1>3. CASE ~Emit
  <2>1. parent' = parent
        BY <1>3 DEF Next, LeaderSkips, Forget, ClientGone, ClientSends, Wake, SubscribeFails,
                    EstablishServed, EstablishRefused, Establish, Pass, Receive, ReceiveSlot,
                    ReceivePong, ReceiveStatus, Arrives, Forward, TakeRequest, Relay,
                    UpstreamReads, StreamEnds
  <2>2. QED
        BY <1>1, <2>1 DEF ParentOlder
<1>4. QED
      BY <1>2, <1>3

\* One more request in the queue.
LEMMA AppendServes ==
  ASSUME TypeOK, NEW r \in Requests \cup {Ping}, toUpstream' = Append(toUpstream, r),
         subscribed' = subscribed, NEW f,
         IF r = Ping THEN WillServe(f) ELSE f = r.filter
  PROVE  WillServe(f)'
<1> DEFINE n == Len(toUpstream)
<1>1. /\ DOMAIN toUpstream = 1..n /\ DOMAIN toUpstream' = 1..(n + 1) /\ n \in Nat
      /\ \A i \in 1..n : toUpstream'[i] = toUpstream[i]
      /\ toUpstream'[n + 1] = r
      BY DEF TypeOK
<1> HIDE DEF n
<1>2. CASE r # Ping
      BY <1>1, <1>2 DEF WillServe
<1>3. CASE r = Ping
      BY <1>1, <1>3 DEF WillServe
<1>4. QED
      BY <1>2, <1>3

\* Upstream reads the head of the queue.
LEMMA ReadServes ==
  ASSUME TypeOK, NEW f, WillServe(f), UpstreamReads
  PROVE  WillServe(f)'
<1> DEFINE n == Len(toUpstream)
           r == Head(toUpstream)
<1>1. /\ DOMAIN toUpstream = 1..n /\ n \in Nat \ {0} /\ DOMAIN toUpstream' = 1..(n - 1)
      /\ \A i \in 1..(n - 1) : toUpstream'[i] = toUpstream[i + 1]
      /\ r = toUpstream[1]
      /\ subscribed' = IF r = Ping THEN subscribed ELSE r.filter
      BY DEF TypeOK, UpstreamReads
<1> HIDE DEF n, r
<1>2. CASE f = subscribed /\ \A i \in DOMAIN toUpstream : toUpstream[i] = Ping
  <2>1. 1 \in DOMAIN toUpstream /\ subscribed' = subscribed
        BY <1>1, <1>2
  <2>2. ASSUME NEW i \in DOMAIN toUpstream' PROVE toUpstream'[i] = Ping
    <3>1. i \in 1..(n - 1) /\ i + 1 \in DOMAIN toUpstream
          BY <1>1
    <3>2. QED
          BY <1>1, <1>2, <3>1
  <2>3. QED
        BY <1>2, <2>1, <2>2 DEF WillServe
<1>3. ASSUME NEW i \in DOMAIN toUpstream, toUpstream[i] # Ping, f = toUpstream[i].filter,
             \A j \in DOMAIN toUpstream : j > i => toUpstream[j] = Ping
      PROVE  WillServe(f)'
  <2>1. CASE i = 1
        BY <1>1, <1>3, <2>1 DEF WillServe
  <2>2. CASE i # 1
    <3>1. i - 1 \in DOMAIN toUpstream' /\ toUpstream'[i - 1] = toUpstream[i]
          BY <1>1, <2>2
    <3>2. \A j \in DOMAIN toUpstream' : j > i - 1 => toUpstream'[j] = Ping
          BY <1>1, <1>3, <2>2
    <3>3. QED
          BY <1>3, <3>1, <3>2 DEF WillServe
  <2>3. QED
        BY <2>1, <2>2
<1>4. QED
      BY <1>2, <1>3 DEF WillServe

LEMMA RelayedStep ==
  ASSUME Inv, Next
  PROVE  Relayed'
<1> USE DEF Inv, Relayed, LatestSurvives, chain, stream, client, slots
<1>1. ASSUME UNCHANGED <<latest, subscribed, toUpstream>>, phase' \in {phase, "sleeping", "connecting", "closed"},
             phase' = "relaying" => fromClient' # <<>> /\ Head(fromClient') = Head(fromClient)
      PROVE  Relayed'
      BY <1>1 DEF WillServe
<1>2. CASE Emit \/ LeaderSkips \/ Forget \/ Wake \/ Pass
      BY <1>1, <1>2 DEF Emit, LeaderSkips, Forget, Wake, Goto, Pass
<1>3. ASSUME NEW r \in Requests \cup {Ping}, ClientSends(r) PROVE Relayed'
  <2>1. fromClient # <<>> => fromClient' # <<>> /\ Head(fromClient') = Head(fromClient)
    <3>1. fromClient \in Seq(Requests \cup {Ping}) /\ fromClient' = Append(fromClient, r)
          BY <1>3 DEF ClientSends, TypeOK
    <3>2. QED
          BY <3>1
  <2>2. QED
        BY <1>1, <1>3, <2>1 DEF ClientSends
<1>4. CASE ClientGone \/ \E refused \in BOOLEAN : SubscribeFails(refused) \/ StreamEnds(refused)
      BY <1>4 DEF ClientGone, SubscribeFails, Goto, StreamEnds
<1>5. CASE EstablishServed \/ EstablishRefused
  <2>1. phase' = "streaming" /\ subscribed' = latest'.filter /\ toUpstream' = <<>>
        BY <1>5 DEF EstablishServed, EstablishRefused, Establish, Goto
  <2>2. QED
        BY <2>1 DEF WillServe
<1>6. ASSUME phase \in {"streaming", "forwarding"}, phase' \in {"streaming", "forwarding"},
             UNCHANGED <<latest, subscribed, toUpstream>>
      PROVE  Relayed'
      BY <1>6 DEF WillServe
<1>7. CASE \/ Receive \/ ReceiveSlot \/ ReceivePong \/ Forward
           \/ \E slot \in 1..MaxSlot : ReceiveStatus(slot)
      BY <1>6, <1>7 DEF Receive, ReceiveSlot, ReceivePong, ReceiveStatus, Arrives, Forward, Goto
<1>8. CASE TakeRequest
  <2>1. phase = "streaming" /\ phase' = "relaying" /\ UNCHANGED <<subscribed, toUpstream, fromClient>>
        /\ latest' = LatestAfter(Head(fromClient)) /\ fromClient # <<>>
        BY <1>8 DEF TakeRequest, Goto
  <2>2. CASE Head(fromClient) = Ping
    <3>1. latest' = latest /\ WillServe(latest.filter)
          BY <2>1, <2>2 DEF LatestAfter
    <3>2. WillServe(latest.filter)'
          BY <2>1, <3>1 DEF WillServe
    <3>3. QED
          BY <2>1, <2>2, <3>2
  <2>3. CASE Head(fromClient) # Ping
        BY <2>1, <2>3 DEF LatestAfter
  <2>4. QED
        BY <2>2, <2>3
<1>9. CASE Relay
  <2>1. /\ phase = "relaying" /\ phase' = "streaming" /\ latest' = latest /\ subscribed' = subscribed
        /\ toUpstream' = Append(toUpstream, Head(fromClient))
        BY <1>9 DEF Relay, Goto
  <2>2. Head(fromClient) \in Requests \cup {Ping}
        BY <2>1 DEF TypeOK
  <2>3. IF Head(fromClient) = Ping THEN WillServe(latest.filter)
        ELSE latest.filter = Head(fromClient).filter
        BY <2>1
  <2>4. WillServe(latest.filter)'
        BY <2>1, <2>2, <2>3, AppendServes DEF WillServe
  <2>5. QED
        BY <2>1, <2>4
<1>10. CASE UpstreamReads
  <2>1. UNCHANGED <<phase, latest, fromClient>>
        BY <1>10 DEF UpstreamReads
  <2>2. WillServe(latest.filter) => WillServe(latest.filter)'
        BY <1>10, <2>1, ReadServes DEF WillServe
  <2>3. QED
        BY <2>1, <2>2
<1>11. QED
      BY <1>2, <1>3, <1>4, <1>5, <1>7, <1>8, <1>9, <1>10 DEF Next

-----------------------------------------------------------------------------
(* The slot tracker.                                                        *)

\* The ring after a slot that is above all it was fed.
LEMMA PushAbove ==
  ASSUME TypeOK, Ring, NEW slot \in 1..MaxSlot, \A s \in observed : s < slot,
         recent' = Push(recent, slot), observed' = observed \cup {slot}
  PROVE  Ring'
<1> USE WindowAssumption
<1> DEFINE n == Len(recent)
           longer == Append(recent, slot)
<1>1. /\ DOMAIN recent = 1..n /\ n \in Nat /\ \A i \in 1..n : recent[i] \in observed
      /\ \A i \in 1..n : recent[i] < slot
      /\ observed \subseteq 1..MaxSlot /\ MaxSlot \in Nat
  <2>1. /\ recent \in Seq(1..MaxSlot) /\ observed \subseteq 1..MaxSlot /\ MaxSlot \in Nat
        /\ \A i \in DOMAIN recent : recent[i] \in observed
        BY ReplayAssumption DEF TypeOK, Ring
  <2>2. DOMAIN recent = 1..n /\ n \in Nat
        BY <2>1
  <2>3. QED
        BY <2>1, <2>2
<1>2. /\ DOMAIN longer = 1..(n + 1) /\ Len(longer) = n + 1 /\ longer[n + 1] = slot
      /\ \A i \in 1..n : longer[i] = recent[i]
      /\ longer \in Seq(1..MaxSlot)
      BY DEF TypeOK
<1>3. recent' = IF n + 1 > Window THEN Tail(longer) ELSE longer
      BY <1>1, <1>2 DEF Push, Contains
<1> HIDE DEF longer, n
<1>4. /\ \A i \in 1..(n + 1) : longer[i] \in observed'
      /\ \A i, j \in 1..(n + 1) : i < j => longer[i] < longer[j]
  <2>1. ASSUME NEW i \in 1..(n + 1), NEW j \in 1..(n + 1), i < j PROVE longer[i] < longer[j]
    <3>1. i \in 1..n
          BY <1>1, <2>1
    <3>2. CASE j = n + 1
          BY <1>1, <1>2, <3>1, <3>2
    <3>3. CASE j # n + 1
      <4>1. j \in 1..n
            BY <1>1, <3>3
      <4>2. recent[i] < recent[j]
            BY <1>1, <2>1, <3>1, <4>1 DEF Ring
      <4>3. QED
            BY <1>2, <3>1, <4>1, <4>2
    <3>4. QED
          BY <3>2, <3>3
  <2>2. QED
        BY <1>1, <1>2, <2>1
<1>5. \A s \in observed' :
        s = slot \/ (n > 0 /\ (s >= recent[1] \/ n < Window => \E i \in 1..n : recent[i] = s))
  <2>1. ASSUME NEW s \in observed
        PROVE  n > 0 /\ (s >= recent[1] \/ n < Window => \E i \in 1..n : recent[i] = s)
    <3>1. recent # <<>> /\ recent \in Seq(1..MaxSlot)
          BY <2>1 DEF Ring, TypeOK
    <3>2. n > 0 /\ Head(recent) = recent[1]
          BY <3>1 DEF n
    <3>3. QED
          BY <1>1, <2>1, <3>2 DEF Ring, Contains, n
  <2>2. QED
        BY <2>1
<1>6. CASE n + 1 <= Window
  <2>1. recent' = longer /\ Head(longer) = longer[1] /\ longer # <<>>
        BY <1>1, <1>2, <1>3, <1>6
  <2>2. ASSUME NEW s \in observed' PROVE \E i \in 1..(n + 1) : longer[i] = s
        BY <1>1, <1>2, <1>5, <1>6
  <2>3. QED
        BY <1>2, <1>4, <2>1, <2>2 DEF Ring, Contains
<1>7. CASE n + 1 > Window
  <2>0. n > 0 /\ recent' = Tail(longer) /\ longer # <<>>
        BY <1>1, <1>2, <1>3, <1>7
  <2>1. /\ n > 0 /\ recent' = Tail(longer) /\ DOMAIN recent' = 1..n
        /\ \A i \in 1..n : recent'[i] = longer[i + 1]
        /\ recent' # <<>> /\ Head(recent') = longer[2] /\ Len(recent') = n /\ ~(n < Window)
    <3>1. Tail(longer) \in Seq(1..MaxSlot) /\ Len(Tail(longer)) = n
          BY <1>1, <1>2, <2>0
    <3>2. \A i \in 1..n : Tail(longer)[i] = longer[i + 1]
          BY <1>1, <1>2, <2>0
    <3> DEFINE rest == Tail(longer)
    <3>3. rest \in Seq(1..MaxSlot) /\ Len(rest) = n
          BY <3>1
    <3> HIDE DEF rest
    <3>4. DOMAIN rest = 1..n /\ rest # <<>> /\ Head(rest) = rest[1]
          BY <1>1, <2>0, <3>3
    <3>5. QED
          BY <1>1, <1>7, <2>0, <3>1, <3>2, <3>4 DEF rest
  <2>2. ASSUME NEW s \in observed', s >= longer[2] PROVE \E i \in 1..n : recent'[i] = s
    <3>1. CASE s = slot
          BY <1>1, <1>2, <2>1, <3>1
    <3>2. CASE s # slot
      <4>1. longer[1] < longer[2] /\ longer[1] = recent[1]
            BY <1>1, <1>2, <1>4, <2>1
      <4>2. s \in 1..MaxSlot /\ longer[1] \in Nat /\ longer[2] \in Nat
            BY <1>1, <1>2, <2>1
      <4>3. PICK i \in 1..n : recent[i] = s
            BY <1>5, <2>2, <3>2, <4>1, <4>2
      <4>4. i # 1
            BY <2>2, <4>1, <4>2, <4>3
      <4>5. i - 1 \in 1..n /\ recent'[i - 1] = s
            BY <1>1, <1>2, <2>1, <4>3, <4>4
      <4>6. QED
            BY <4>5
    <3>3. QED
          BY <3>1, <3>2
  <2>3. \A i \in 1..n : i + 1 \in 1..(n + 1) /\ recent'[i] = longer[i + 1]
        BY <1>1, <2>1
  <2>4. \A i \in DOMAIN recent' : recent'[i] \in observed'
        BY <1>4, <2>1, <2>3
  <2>5. ASSUME NEW i \in DOMAIN recent', NEW j \in DOMAIN recent', i < j
        PROVE  recent'[i] < recent'[j]
    <3>1. i + 1 \in 1..(n + 1) /\ j + 1 \in 1..(n + 1) /\ i + 1 < j + 1
      <4>1. DOMAIN recent' = 1..n /\ n \in Nat
            BY <1>1, <2>1
      <4>2. i \in 1..n /\ j \in 1..n
            BY <4>1
      <4>3. QED
            BY <2>5, <4>1, <4>2
    <3>2. longer[i + 1] < longer[j + 1]
          BY <1>4, <3>1
    <3>3. QED
          BY <2>1, <3>2
  <2>6. \A s \in observed' : s >= Head(recent') \/ Len(recent') < Window => Contains(recent, s)'
        BY <2>1, <2>2 DEF Contains
  <2>7. QED
        BY <2>1, <2>4, <2>5, <2>6 DEF Ring
<1>8. QED
      BY <1>1, <1>6, <1>7

\* The slots that were fed between a parent and its child.
Between(p, slot) == {o \in observed : p < o /\ o < slot}

LEMMA BetweenFinite ==
  ASSUME TypeOK, NEW p, NEW slot
  PROVE  IsFiniteSet(Between(p, slot)) /\ Cardinality(Between(p, slot)) \in Nat
<1>1. IsFiniteSet(1..MaxSlot)
      BY ReplayAssumption, FS_Interval
<1>2. Between(p, slot) \in SUBSET (1..MaxSlot)
      BY DEF TypeOK, Between
<1>3. QED
      BY <1>1, <1>2, FS_Subset, FS_CardinalityType

LEMMA RingOrdered ==
  ASSUME TypeOK, Ring
  PROVE  /\ Len(recent) \in Nat /\ DOMAIN recent = 1..Len(recent) /\ Len(recent) <= Window
         /\ recent # <<>> => Len(recent) > 0 /\ Head(recent) = recent[1]
         /\ \A i \in 1..Len(recent) : recent[i] \in observed /\ recent[i] \in Int
         /\ \A i, j \in 1..Len(recent) : i < j => recent[i] < recent[j]
<1>1. recent \in Seq(1..MaxSlot) /\ Len(recent) <= Window /\ MaxSlot \in Nat
      BY ReplayAssumption DEF TypeOK
<1>2. Len(recent) \in Nat /\ DOMAIN recent = 1..Len(recent)
      BY <1>1
<1>3. recent # <<>> => Len(recent) > 0 /\ Head(recent) = recent[1]
      BY <1>1
<1>4. \A i \in 1..Len(recent) : recent[i] \in observed /\ recent[i] \in Int
      BY <1>1, <1>2 DEF Ring
<1>5. \A i, j \in 1..Len(recent) : i < j => recent[i] < recent[j]
      BY <1>2 DEF Ring
<1>6. QED
      BY <1>1, <1>2, <1>3, <1>4, <1>5

\* A parent that the tracker finds missing never came, and is within the window.
LEMMA MissingIsHole ==
  ASSUME TypeOK, Ring, NEW p \in Int, NEW slot, Missing(recent, p)
  PROVE  /\ p \notin observed
         /\ \E older \in observed : older < p
         /\ Cardinality(Between(p, slot)) < Window
<1> USE WindowAssumption
<1> DEFINE n == Len(recent)
<1>1. recent # <<>> /\ p >= recent[1] /\ \A i \in 1..n : recent[i] # p
      BY RingOrdered DEF Missing, Contains
<1>2. n \in Nat /\ n > 0 /\ n <= Window /\ recent[1] \in observed /\ recent[1] \in Int /\ recent[1] < p
  <2>1. n \in Nat /\ n > 0 /\ n <= Window
        BY <1>1, RingOrdered
  <2>2. 1 \in 1..n
        BY <2>1
  <2>3. QED
        BY <1>1, <2>1, <2>2, RingOrdered
<1>3. \A o \in observed : o >= recent[1] => o \in Int /\ \E i \in 1..n : recent[i] = o
  <2>1. Head(recent) = recent[1] /\ DOMAIN recent = 1..n
        BY <1>1, RingOrdered
  <2>2. \A o \in observed : o \in Int
        BY ReplayAssumption DEF TypeOK
  <2>3. QED
        BY <2>1, <2>2 DEF Ring, Contains
<1>4. p \notin observed
      BY <1>1, <1>3
<1>5. \A o \in Between(p, slot) : \E i \in 2..n : recent[i] = o
  <2>1. SUFFICES ASSUME NEW o \in Between(p, slot) PROVE \E i \in 2..n : recent[i] = o
        OBVIOUS
  <2>2. o \in observed /\ o \in Int /\ p < o
        BY ReplayAssumption DEF Between, TypeOK
  <2>3. PICK i \in 1..n : recent[i] = o
        BY <1>2, <1>3, <2>2
  <2>4. i \in 2..n
        BY <1>2, <2>2, <2>3
  <2>5. QED
        BY <2>3, <2>4
<1> DEFINE at == [o \in Between(p, slot) |-> CHOOSE i \in 2..n : recent[i] = o]
<1>6. \A o \in Between(p, slot) : at[o] \in 2..n /\ recent[at[o]] = o
      BY <1>5
<1>7. at \in [Between(p, slot) -> 2..n]
      BY <1>6
<1> HIDE DEF at
<1>8. at \in Injection(Between(p, slot), 2..n)
      BY <1>6, <1>7 DEF Injection, IsInjective
<1>9. IsFiniteSet(2..n) /\ Cardinality(2..n) = n - 1
  <2> HIDE DEF n
  <2>1. 2 \in Int /\ n \in Int /\ (IF 2 > n THEN 0 ELSE n - 2 + 1) = n - 1
        BY <1>2
  <2>2. IsFiniteSet(2..n) /\ Cardinality(2..n) = IF 2 > n THEN 0 ELSE n - 2 + 1
        BY <2>1, FS_Interval
  <2>3. QED
        BY <2>1, <2>2
<1>10. Cardinality(Between(p, slot)) <= n - 1
      BY <1>8, <1>9, FS_Injection
<1>11. QED
      BY <1>2, <1>4, <1>10, BetweenFinite

\* Above all that it was fed, the tracker misses no hole within the window.
LEMMA HoleIsMissing ==
  ASSUME TypeOK, Ring, NEW p \in Int, NEW slot \in Int, \A s \in observed : s < slot,
         p \notin observed, NEW older \in observed, older < p,
         Cardinality(Between(p, slot)) < Window
  PROVE  Missing(recent, p)
<1> USE WindowAssumption
<1> DEFINE n == Len(recent)
<1>1. recent # <<>> /\ n > 0 /\ Head(recent) = recent[1] /\ n \in Nat /\ n <= Window
      BY RingOrdered DEF Ring
<1>2. 1 \in 1..n /\ \A i \in 1..n : recent[i] \in observed /\ recent[i] \in Int /\ recent[1] <= recent[i]
  <2>1. 1 \in 1..n
        BY <1>1
  <2>2. SUFFICES ASSUME NEW i \in 1..n
                 PROVE  recent[i] \in observed /\ recent[i] \in Int /\ recent[1] <= recent[i]
        BY <2>1
  <2>3. recent[i] \in observed /\ recent[i] \in Int /\ recent[1] \in Int
        BY <2>1, RingOrdered
  <2>4. i = 1 \/ recent[1] < recent[i]
        BY <1>1, <2>1, RingOrdered
  <2>5. QED
        BY <2>3, <2>4
<1>3. ~Contains(recent, p)
      BY <1>2, RingOrdered DEF Contains
<1>4. p >= recent[1]
  <2>1. SUFFICES ASSUME p < recent[1] PROVE FALSE
        BY <1>2
  <2>2. CASE n < Window
    <3>1. PICK i \in 1..n : recent[i] = older
          BY <2>2, RingOrdered DEF Ring, Contains
    <3>2. QED
          BY <1>2, <2>1, <3>1
  <2>3. CASE n = Window
    <3> DEFINE f == [i \in 1..n |-> recent[i]]
    <3>1. \A i \in 1..n : recent[i] \in Between(p, slot)
          BY <1>2, <2>1 DEF Between
    <3>2. \A i, j \in 1..n : recent[i] = recent[j] => i = j
          BY <1>1, <1>2, RingOrdered
    <3>3. f \in Injection(1..n, Between(p, slot))
          BY <3>1, <3>2 DEF Injection, IsInjective
    <3>4. Cardinality(1..n) = n
      <4>1. 1 \in Int /\ n \in Int /\ ~(1 > n) /\ n - 1 + 1 = n
            BY <1>1
      <4>2. Cardinality(1..n) = IF 1 > n THEN 0 ELSE n - 1 + 1
            BY <4>1, FS_Interval
      <4>3. QED
            BY <4>1, <4>2
    <3> HIDE DEF f
    <3>5. Cardinality(1..n) <= Cardinality(Between(p, slot))
          BY <3>3, BetweenFinite, FS_Injection
    <3>6. QED
          BY <1>1, <2>3, <3>4, <3>5, BetweenFinite
  <2>4. QED
        BY <1>1, <2>2, <2>3
<1>5. QED
      BY <1>1, <1>3, <1>4 DEF Missing

LEMMA RingStep ==
  ASSUME Inv, Next
  PROVE  Ring' /\ LastSlot' /\ Resumes' /\ AlarmsAreExact'
<1> USE ReplayAssumption
<1> USE DEF chain, stream, client, slots
<1>0. TypeOK /\ Modes /\ ParentOlder /\ Ring /\ LastSlot /\ Resumes /\ AlarmsAreExact
      BY DEF Inv
<1>1. ASSUME UNCHANGED <<mode, lastSlot, recent, told, observed>>, emitted' >= emitted, emitted' \in Nat,
             \A s \in observed : parent'[s] = parent[s]
      PROVE  Ring' /\ LastSlot' /\ AlarmsAreExact'
  <2>1. Ring' /\ AlarmsAreExact'
        BY <1>0, <1>1 DEF Ring, AlarmsAreExact
  <2>2. 3 * lastSlot' - 2 <= emitted'
        BY <1>0, <1>1 DEF LastSlot, TypeOK
  <2>3. QED
        BY <1>0, <1>1, <2>1, <2>2 DEF LastSlot
<1>2. CASE Emit \/ LeaderSkips
  <2>1. emitted' >= emitted /\ emitted' \in Nat /\ UNCHANGED <<mode, phase, replayFrom, cursor>>
        /\ UNCHANGED <<lastSlot, recent, told, observed>>
    <3>1. emitted' \in {emitted + 1, emitted + 3}
          BY <1>2 DEF Emit, LeaderSkips
    <3>2. UNCHANGED <<mode, phase, replayFrom, cursor, lastSlot, recent, told, observed>>
          BY <1>2 DEF Emit, LeaderSkips
    <3>3. emitted \in Nat
          BY <1>0 DEF TypeOK
    <3>4. QED
          BY <3>1, <3>2, <3>3
  <2>2. ASSUME NEW s \in observed PROVE parent'[s] = parent[s]
    <3>1. \/ parent' = parent
          \/ SlotBegins /\ \E p \in Parents : parent' = [parent EXCEPT ![SlotOf(emitted + 1)] = p]
          BY <1>2 DEF Emit, LeaderSkips
    <3>2. CASE parent' = parent
          BY <3>2
    <3>3. CASE SlotBegins /\ \E p \in Parents : parent' = [parent EXCEPT ![SlotOf(emitted + 1)] = p]
      <4>1. mode = "mux" /\ s \in 1..MaxSlot /\ s <= lastSlot /\ lastSlot \in Nat /\ emitted \in Nat
            /\ 3 * lastSlot - 2 <= emitted
            BY <1>0 DEF TypeOK, Modes, LastSlot
      <4>2. s # SlotOf(emitted + 1)
            BY <3>3, <4>1 DEF SlotBegins, SlotOf
      <4>3. QED
            BY <1>0, <3>3, <4>1, <4>2 DEF TypeOK
    <3>4. QED
          BY <3>1, <3>2, <3>3
  <2>3. QED
        BY <1>0, <1>1, <2>1, <2>2 DEF Resumes
<1>3. ASSUME UNCHANGED <<mode, lastSlot, recent, told, observed, emitted, parent>>
      PROVE  Ring' /\ LastSlot' /\ AlarmsAreExact'
      BY <1>0, <1>1, <1>3 DEF TypeOK
<1>4. ASSUME UNCHANGED <<mode, lastSlot, recent, told, observed, emitted, parent, replayFrom, cursor>>,
             phase' \in Established <=> phase \in Established, phase \in Phases, phase' \in Phases
      PROVE  Ring' /\ LastSlot' /\ Resumes' /\ AlarmsAreExact'
      BY <1>0, <1>3, <1>4 DEF Resumes, Modes, Phases, Established
<1>5. CASE \/ Forget \/ Wake \/ Forward \/ TakeRequest \/ Relay \/ UpstreamReads
           \/ \E r \in Requests \cup {Ping} : ClientSends(r)
  <2>1. phase \in Phases
        BY <1>0 DEF TypeOK
  <2>2. /\ UNCHANGED <<mode, lastSlot, recent, told, observed, emitted, parent, replayFrom, cursor>>
        /\ \/ phase' = phase
           \/ phase = "sleeping" /\ phase' = "connecting"
           \/ phase \in Established /\ phase' \in Established
        BY <1>5 DEF Forget, Wake, Forward, TakeRequest, Relay, UpstreamReads,
                    ClientSends, Goto, Established
  <2>3. QED
        BY <1>4, <2>1, <2>2 DEF Established, Phases
<1>6. CASE ClientGone \/ \E refused \in BOOLEAN : SubscribeFails(refused) \/ StreamEnds(refused)
  <2>1. /\ UNCHANGED <<mode, lastSlot, recent, told, observed, emitted, parent>>
        /\ (phase' = "sleeping" /\ mode = "mux") => replayFrom' \in {0, lastSlot}
        /\ phase' \in {"sleeping", "closed"}
        BY <1>6 DEF ClientGone, SubscribeFails, Goto, StreamEnds, Decide, ReplaySlot
  <2>2. QED
        BY <1>3, <2>1 DEF Resumes, Established
<1>7. CASE EstablishServed \/ EstablishRefused
  <2>1. /\ UNCHANGED <<mode, lastSlot, recent, told, observed, emitted, parent>>
        /\ phase = "connecting" /\ phase' = "streaming"
        /\ cursor' # 0 => cursor' = IF Asked = 0 THEN emitted + 1 ELSE FirstOf(Asked)
        BY <1>7 DEF EstablishServed, EstablishRefused, Establish, Goto
  <2>2. mode = "mux" => Asked \in {0, lastSlot}
        BY <1>0, <2>1 DEF Asked, Modes, Resumes
  <2>3. mode = "mux" /\ cursor' # 0 => cursor' >= 3 * lastSlot' - 2
        BY <1>0, <2>1, <2>2 DEF LastSlot, FirstOf, TypeOK
  <2>4. QED
        BY <1>3, <2>1, <2>3 DEF Resumes
<1>8. CASE Pass \/ Receive \/ ReceivePong
  <2>1. /\ UNCHANGED <<mode, lastSlot, recent, told, observed, emitted, parent>>
        /\ phase \in Established /\ phase' \in Established
        /\ cursor' = cursor \/ (cursor # 0 /\ cursor' = cursor + 1)
    <3>1. CASE Pass
          BY <3>1 DEF Pass
    <3>2. CASE Receive
          BY <3>2 DEF Receive, Arrives, Established
    <3>3. CASE ReceivePong
          BY <3>3 DEF ReceivePong, Arrives, Established
    <3>4. QED
          BY <1>8, <3>1, <3>2, <3>3
  <2>2. mode = "mux" /\ cursor' # 0 => cursor' >= 3 * lastSlot' - 2
        BY <1>0, <2>1 DEF Resumes, TypeOK
  <2>3. QED
        BY <1>3, <2>1, <2>2 DEF Resumes, Established
<1>9. CASE ReceiveSlot
  <2> DEFINE slot == SlotOf(cursor)
  <2>1. /\ cursor \in 1..emitted /\ cursor \in 1..(3 * MaxSlot) /\ IsSlotUpdate(cursor)
        /\ phase \in Established /\ phase' \in Established
        /\ cursor' = cursor + 1 /\ UNCHANGED <<mode, emitted, parent>>
        /\ lastSlot' = Highest(lastSlot, slot)
        BY <1>0, <1>9 DEF ReceiveSlot, Arrives, Established, TypeOK
  <2>2. slot \in 1..MaxSlot /\ cursor = 3 * slot - 1
        BY <2>1, Arithmetic
  <2> HIDE DEF slot
  <2>3. 3 * lastSlot' - 2 <= emitted'
        BY <1>0, <2>1, <2>2 DEF LastSlot, Highest, TypeOK
  <2>4. CASE mode = "direct"
    <3>1. UNCHANGED <<recent, told, observed>> /\ mode' = "direct"
          BY <1>9, <2>1, <2>4 DEF ReceiveSlot
    <3>2. QED
          BY <1>0, <2>1, <2>3, <3>1 DEF Ring, LastSlot, Resumes, AlarmsAreExact
  <2>5. CASE mode = "mux"
    <3>1. Track(slot) /\ mode' = "mux"
          BY <1>9, <2>1, <2>5 DEF ReceiveSlot, slot
    <3>2. lastSlot \in Nat /\ cursor >= 3 * lastSlot - 2
          BY <1>0, <2>1, <2>5 DEF Resumes, TypeOK
    <3>3. slot >= lastSlot /\ lastSlot' = slot
          BY <2>1, <2>2, <3>2 DEF Highest
    <3>4. \A s \in observed : s <= slot
          BY <1>0, <2>2, <2>5, <3>2, <3>3 DEF LastSlot, TypeOK
    <3>5. observed' = observed \cup {slot} /\ recent' = Push(recent, slot)
          BY <3>1 DEF Track
    <3>6. LastSlot'
      <4>1. \A s \in observed' : s <= lastSlot'
            BY <2>2, <3>3, <3>4, <3>5
      <4>2. QED
            BY <2>3, <3>3, <3>5, <4>1 DEF LastSlot
    <3>7. Resumes'
      <4>1. cursor' >= 3 * lastSlot' - 2
            BY <2>1, <2>2, <3>3
      <4>2. QED
            BY <2>1, <4>1 DEF Resumes, Established
    <3>8. CASE slot > lastSlot
      <4>1. \A s \in observed : s < slot
            BY <1>0, <2>2, <2>5, <3>2, <3>8 DEF LastSlot, TypeOK
      <4>2. Ring'
            BY <1>0, <2>2, <3>5, <4>1, PushAbove
      <4>3. observed \subseteq 1..MaxSlot /\ told \subseteq observed /\ slot \notin observed
            BY <1>0, <2>2, <4>1 DEF TypeOK
      <4>4. ASSUME NEW t \in 1..slot PROVE Between(parent[t], t)' = Between(parent[t], t)
            BY <2>1, <2>2, <3>5, <4>3 DEF Between
      <4>5. ASSUME NEW t \in observed'
            PROVE  t \in told' <=>
                     /\ parent[t] \notin observed'
                     /\ \E older \in observed' : older < parent[t]
                     /\ Cardinality(Between(parent[t], t)') < Window
        <5>1. t \in 1..slot /\ parent[t] \in Int /\ parent[t] < t /\ t \in Int
              BY <1>0, <2>2, <3>4, <3>5, <4>3 DEF ParentOlder, TypeOK
        <5>2. parent[t] \in observed' <=> parent[t] \in observed
              BY <2>2, <3>5, <5>1
        <5>3. (\E older \in observed' : older < parent[t]) <=> (\E older \in observed : older < parent[t])
          <6>1. ~(slot < parent[t])
                BY <2>2, <5>1
          <6>2. QED
                BY <3>5, <6>1, Zenon
        <5>4. t \in told' <=>
                /\ parent[t] \notin observed
                /\ \E older \in observed : older < parent[t]
                /\ Cardinality(Between(parent[t], t)) < Window
          <6>1. CASE t = slot
            <7>1. t \in told' <=> Missing(recent, parent[t])
                  BY <3>1, <4>3, <6>1 DEF Track
            <7>2. \A s \in observed : s < t
                  BY <4>1, <6>1
            <7>3. QED
                  BY <1>0, <5>1, <7>1, <7>2, MissingIsHole, HoleIsMissing
          <6>2. CASE t # slot
            <7>1. t \in observed /\ (t \in told' <=> t \in told)
                  BY <3>1, <3>5, <6>2 DEF Track
            <7>2. QED
                  BY <1>0, <7>1 DEF AlarmsAreExact, Between
          <6>3. QED
                BY <6>1, <6>2
        <5>5. QED
              BY <4>4, <5>1, <5>2, <5>3, <5>4
      <4>6. AlarmsAreExact'
            BY <2>1, <4>5 DEF AlarmsAreExact, Between
      <4>7. QED
            BY <3>6, <3>7, <4>2, <4>6
    <3>9. CASE slot = lastSlot
      <4>1. slot \in observed /\ observed' = observed
            BY <1>0, <2>2, <2>5, <3>5, <3>9 DEF LastSlot
      <4>2. Contains(recent, slot)
        <5>1. recent # <<>> /\ 1 \in DOMAIN recent /\ Head(recent) = recent[1] /\ Head(recent) \in observed
              BY <1>0, <4>1 DEF Ring, TypeOK
        <5>2. Head(recent) <= slot
              BY <3>4, <5>1
        <5>3. Head(recent) \in Int /\ slot >= Head(recent)
              BY <1>0, <2>2, <5>1, <5>2 DEF TypeOK
        <5>4. QED
              BY <1>0, <4>1, <5>3 DEF Ring
      <4>3. recent' = recent
            BY <3>5, <4>2 DEF Push
      <4>4. told' = told
        <5>1. parent[slot] \in Int
              BY <1>0, <2>2 DEF TypeOK
        <5>2. Missing(recent, parent[slot]) => slot \in told
              BY <1>0, <4>1, <5>1, MissingIsHole DEF AlarmsAreExact, Between
        <5>3. QED
              BY <3>1, <5>2 DEF Track
      <4>5. Ring' /\ AlarmsAreExact'
            BY <1>0, <2>1, <4>1, <4>3, <4>4 DEF Ring, AlarmsAreExact
      <4>6. QED
            BY <3>6, <3>7, <4>5
    <3>10. QED
          BY <2>2, <3>2, <3>3, <3>8, <3>9
  <2>6. QED
        BY <1>0, <2>4, <2>5 DEF TypeOK
<1>10. ASSUME NEW slot \in 1..MaxSlot, ReceiveStatus(slot)
       PROVE  Ring' /\ LastSlot' /\ Resumes' /\ AlarmsAreExact'
  <2>1. /\ UNCHANGED <<mode, recent, told, observed, emitted, parent, cursor>>
        /\ phase \in Established /\ phase' \in Established
        /\ lastSlot' = IF mode = "direct" THEN Highest(lastSlot, slot) ELSE lastSlot
        /\ FirstOf(slot) <= emitted
        BY <1>10 DEF ReceiveStatus, Arrives, Established
  <2>2. 3 * lastSlot' - 2 <= emitted'
        BY <1>0, <2>1 DEF LastSlot, Highest, FirstOf, TypeOK
  <2>3. mode = "mux" => lastSlot' = lastSlot
        BY <2>1
  <2>4. Ring' /\ AlarmsAreExact'
        BY <1>0, <2>1 DEF Ring, AlarmsAreExact
  <2>5. LastSlot' /\ Resumes'
        BY <1>0, <2>1, <2>2, <2>3 DEF LastSlot, Resumes, Established
  <2>6. QED
        BY <2>4, <2>5
<1>11. QED
      BY <1>2, <1>5, <1>6, <1>7, <1>8, <1>9, <1>10 DEF Next

-----------------------------------------------------------------------------
(* The data.                                                                *)

\* The data handed over only grows by what is handed over.
LEMMA HandOverAdds ==
  ASSUME TypeOK, NEW m \in 0..(3 * MaxSlot), HandOver(m)
  PROVE  /\ run'.since = run.since
         /\ \A n : n \in run'.data <=> n \in run.data \/ (n = m /\ m # 0 /\ ~IsSlotUpdate(m))
BY DEF TypeOK, HandOver

\* Nothing about the data changes while a stream is established or between
\* two streams, unless a message moves.
LEMMA CoverStays ==
  ASSUME Inv, UNCHANGED <<run, lastSlot, hand, cursor, excused, replayFrom>>,
         skipped \subseteq skipped',
         \/ phase' = phase
         \/ phase = "sleeping" /\ phase' = "connecting"
         \/ phase \in {"streaming", "relaying"} /\ phase' \in {"streaming", "relaying"}
  PROVE  NoHole' /\ Covered' /\ Excuses'
<1>0. \A n : NoData(n) => NoData(n)'
      BY DEF NoData
<1>1. NoHole'
      BY <1>0 DEF Inv, NoHole
<1>2. Covered'
  <2>1. \A n : Arrived(n) => Arrived(n)'
        BY <1>0 DEF Arrived
  <2>2. QED
        BY <2>1 DEF Inv, Covered, Established
<1>3. Excuses'
      BY DEF Inv, Excuses, Established
<1>4. QED
      BY <1>1, <1>2, <1>3

LEMMA CoverStep ==
  ASSUME Inv, Next
  PROVE  NoHole' /\ Covered' /\ Excuses'
<1> USE ReplayAssumption
<1> USE DEF chain, stream, client, slots
<1>0. TypeOK /\ Modes /\ LastSlot /\ NoHole /\ Covered /\ Excuses
      BY DEF Inv
<1>1. CASE \/ Emit \/ LeaderSkips \/ Forget \/ Wake \/ TakeRequest \/ Relay \/ UpstreamReads
           \/ \E r \in Requests \cup {Ping} : ClientSends(r)
      BY <1>1, CoverStays DEF Emit, LeaderSkips, Forget, Wake, TakeRequest, Relay, UpstreamReads,
                              ClientSends, Goto
<1>2. CASE ClientGone
  <2>1. phase' = "closed" /\ UNCHANGED <<run, skipped, excused>>
        BY <1>2 DEF ClientGone
  <2>2. NoHole'
        BY <1>0, <2>1 DEF NoHole, NoData
  <2>3. Covered' /\ Excuses'
        BY <1>0, <2>1 DEF Covered, Excuses, Established
  <2>4. QED
        BY <2>2, <2>3
<1>3. ASSUME phase' = "sleeping", phase \in {"connecting", "streaming", "relaying"},
             UNCHANGED <<run, lastSlot, skipped>>,
             ~excused' => ~excused /\ replayFrom' = lastSlot /\ lastSlot # 0,
             ~excused' /\ phase # "connecting" /\ cursor # 0 => 3 * lastSlot - 2 <= cursor
      PROVE  NoHole' /\ Covered' /\ Excuses'
  <2>1. NoHole'
        BY <1>0, <1>3 DEF NoHole, NoData
  <2>2. Covered'
    <3>1. SUFFICES ASSUME ~excused', NEW n \in run.since..(3 * lastSlot - 3) PROVE Arrived(n)
      <4>1. \A n : Arrived(n) => Arrived(n)'
            BY <1>3 DEF Arrived, NoData
      <4>2. QED
            BY <1>3, <4>1 DEF Covered, Established
    <3>2. CASE phase = "connecting" \/ cursor = 0
          BY <1>0, <1>3, <3>1, <3>2 DEF Covered, Established
    <3>3. CASE phase # "connecting" /\ cursor # 0
      <4>1. 3 * lastSlot - 2 <= cursor /\ lastSlot \in Nat /\ cursor \in Nat /\ run.since \in Nat
            BY <1>0, <1>3, <3>1, <3>3 DEF TypeOK
      <4>2. n \in run.since..(cursor - 1)
            BY <3>1, <4>1
      <4>3. QED
            BY <1>0, <1>3, <3>3, <4>2 DEF Covered, Established
    <3>4. QED
          BY <3>2, <3>3
  <2>3. Excuses'
        BY <1>0, <1>3 DEF Excuses, Established
  <2>4. QED
        BY <2>1, <2>2, <2>3
<1>4. ASSUME NEW refused \in BOOLEAN, SubscribeFails(refused)
      PROVE  NoHole' /\ Covered' /\ Excuses'
  <2>1. phase' = "sleeping" /\ phase = "connecting" /\ UNCHANGED <<run, lastSlot, skipped>>
        BY <1>4 DEF SubscribeFails, Goto
  <2>2. ~excused' => ~excused /\ replayFrom' = lastSlot /\ lastSlot # 0
    <3>1. ASSUME ~excused' PROVE ~excused /\ ~refused
      <4>1. ~excused
            BY <1>4, <3>1, Zenon DEF SubscribeFails, Decide
      <4>2. replayFrom # 0
            BY <1>0, <2>1, <4>1 DEF Excuses
      <4>3. QED
            BY <1>4, <3>1, <4>1, <4>2, Zenon DEF SubscribeFails, Decide
    <3>2. ASSUME ~excused' PROVE replayFrom' = lastSlot /\ lastSlot # 0
      <4>1. replayFrom = lastSlot /\ lastSlot # 0
            BY <1>0, <2>1, <3>1, <3>2 DEF Excuses
      <4>2. mode = "mux" => replay
            BY <1>4, <3>2, Zenon DEF SubscribeFails, Decide
      <4>3. ~Rejected(FALSE, refused)
            BY <3>1, <3>2, Zenon DEF Rejected
      <4>4. QED
            BY <1>4, <4>1, <4>2, <4>3, Zenon DEF SubscribeFails, Decide, ReplaySlot
    <3>3. QED
          BY <3>1, <3>2
  <2>3. QED
        BY <1>3, <2>1, <2>2
<1>5. ASSUME NEW refused \in BOOLEAN, StreamEnds(refused)
      PROVE  NoHole' /\ Covered' /\ Excuses'
  <2>1. phase' = "sleeping" /\ phase \in {"streaming", "relaying"} /\ UNCHANGED <<run, lastSlot, skipped>>
        BY <1>5 DEF StreamEnds
  <2>2. Decide(TRUE, refused)
        BY <1>5 DEF StreamEnds
  <2>3. ASSUME ~excused' PROVE ~excused /\ replayFrom' = lastSlot /\ lastSlot # 0
    <3>1. ~excused /\ replay /\ lastSlot # 0 /\ ~(replayFrom # 0 /\ (refused \/ ~got))
          BY <2>2, <2>3, Zenon DEF Decide
    <3>2. ~Rejected(TRUE, refused)
          BY <3>1, Zenon DEF Rejected
    <3>3. QED
          BY <2>2, <3>1, <3>2, Zenon DEF Decide, ReplaySlot
  <2>4. ASSUME ~excused', cursor # 0 PROVE 3 * lastSlot - 2 <= cursor
    <3>1. ~RanAhead
          BY <2>2, <2>4, Zenon DEF Decide
    <3>2. QED
          BY <1>0, <2>4, <3>1 DEF RanAhead, FirstOf, TypeOK
  <2>5. QED
        BY <1>3, <2>1, <2>3, <2>4
<1>6. CASE EstablishServed
  <2> DEFINE start == IF Asked = 0 THEN emitted + 1 ELSE FirstOf(Asked)
             since == IF Asked \in 1..(lastSlot - 1) THEN FirstOf(lastSlot) ELSE start
  <2>1. /\ phase = "connecting" /\ phase' = "streaming" /\ cursor' = start
        /\ lastSlot' = lastSlot /\ skipped' = skipped /\ ~excused'
        /\ run' = IF excused THEN [since |-> since, data |-> {}] ELSE run
        BY <1>6 DEF EstablishServed, Establish, Goto
  <2>2. Asked \in 0..MaxSlot /\ lastSlot \in 0..MaxSlot /\ emitted \in Nat
    <3>1. Asked \in 0..MaxSlot
          BY <1>0 DEF TypeOK, Asked, Requests, MuxRequests
    <3>2. QED
          BY <1>0, <3>1 DEF TypeOK
  <2>3. start \in Nat /\ since \in Nat /\ start > 0 /\ since >= start
        BY <2>2 DEF FirstOf
  <2>4. ~excused => start = 3 * lastSlot - 2
        BY <1>0, <2>1, <2>2 DEF Excuses, Asked, FirstOf
  <2> HIDE DEF start, since
  <2>5. CASE excused
    <3>1. run'.since = since /\ run'.data = {}
          BY <2>1, <2>5
    <3>2. NoHole'
          BY <3>1 DEF NoHole
    <3>3. Covered'
          BY <2>1, <2>2, <2>3, <3>1 DEF Covered, Established
    <3>4. Excuses'
          BY <2>1, <2>3, <3>1 DEF Excuses
    <3>5. QED
          BY <3>2, <3>3, <3>4
  <2>6. CASE ~excused
    <3>1. run' = run
          BY <2>1, <2>6
    <3>2. NoHole'
          BY <1>0, <2>1, <3>1 DEF NoHole, NoData
    <3>3. \A n \in run.since..(3 * lastSlot - 3) : Arrived(n)'
          BY <1>0, <2>1, <2>6, <3>1 DEF Covered, Arrived, NoData, Established
    <3>4. cursor' - 1 = 3 * lastSlot - 3
          BY <2>1, <2>2, <2>4, <2>6
    <3>5. Covered'
          BY <2>1, <2>3, <3>1, <3>3, <3>4 DEF Covered, Established
    <3>6. Excuses'
          BY <1>0, <2>1, <2>3, <2>6, <3>1 DEF Excuses
    <3>7. QED
          BY <3>2, <3>5, <3>6
  <2>7. QED
        BY <2>5, <2>6
<1>7. CASE EstablishRefused
  <2>1. /\ phase = "connecting" /\ phase' = "streaming" /\ cursor' = 0
        /\ UNCHANGED <<run, excused, lastSlot, skipped>>
        BY <1>7 DEF EstablishRefused, Establish, Goto
  <2>2. NoHole'
        BY <1>0, <2>1 DEF NoHole, NoData
  <2>3. Covered'
        BY <1>0, <2>1 DEF Covered, Arrived, NoData, Established
  <2>4. Excuses'
        BY <1>0, <2>1 DEF Excuses
  <2>5. QED
        BY <2>2, <2>3, <2>4
<1>8. CASE Pass
  <2>1. /\ phase \in Established /\ phase' = phase /\ cursor \in Nat \ {0} /\ NoData(cursor)
        /\ cursor' = cursor + 1 /\ UNCHANGED <<run, excused, lastSlot, hand, skipped>>
        BY <1>0, <1>8 DEF Pass, NoData, TypeOK
  <2>2. NoHole'
        BY <1>0, <2>1 DEF NoHole, NoData
  <2>3. \A n \in Int : Arrived(n)' <=> Arrived(n)
        BY <2>1 DEF Arrived, NoData
  <2>4. ~excused' /\ \A n \in run'.since..(cursor' - 1) : Arrived(n)'
    <3>1. SUFFICES ASSUME NEW n \in run.since..cursor PROVE Arrived(n)
          BY <1>0, <2>1, <2>3 DEF Covered, TypeOK
    <3>2. CASE n = cursor
          BY <2>1, <3>2 DEF Arrived
    <3>3. CASE n # cursor
          BY <1>0, <2>1, <3>3 DEF Covered, TypeOK
    <3>4. QED
          BY <3>2, <3>3
  <2>5. Covered'
    <3>1. cursor' # 0 /\ phase' \in Established
          BY <2>1
    <3>2. QED
          BY <2>4, <3>1 DEF Covered
  <2>6. Excuses'
        BY <1>0, <2>1 DEF Excuses, Established, TypeOK
  <2>7. QED
        BY <2>2, <2>5, <2>6
<1>9. ASSUME NEW m \in 0..(3 * MaxSlot), Arrives(m), cursor # 0, m = 0 \/ m = cursor,
             cursor' = IF m = 0 THEN cursor ELSE cursor + 1
      PROVE  NoHole' /\ Covered' /\ Excuses'
  <2>1. /\ phase = "streaming" /\ phase' \in {"streaming", "forwarding"}
        /\ phase' = "forwarding" => hand' = m /\ run' = run
        /\ phase' = "streaming" => HandOver(m)
        /\ excused' = excused /\ skipped' = skipped
        BY <1>0, <1>9 DEF Arrives, TypeOK
  <2>2. /\ run.since \in Nat /\ run.data \subseteq Messages /\ run'.since = run.since
        /\ cursor \in Nat \ {0}
    <3>1. run.since \in Nat /\ run.data \subseteq Messages /\ cursor \in Nat \ {0}
          BY <1>0, <1>9 DEF TypeOK
    <3>2. run'.since = run.since
          BY <1>0, <1>9, <2>1, HandOverAdds
    <3>3. QED
          BY <3>1, <3>2
  <2>3. ~excused /\ \A n \in run.since..(cursor - 1) : NoData(n) \/ n \in run.data
        BY <1>0, <1>9, <2>1 DEF Covered, Arrived, Established
  <2>4. run.data \subseteq run'.data /\ \A n \in run'.data : n \in run.data \/ (n = m /\ m # 0)
        BY <1>0, <2>1, HandOverAdds
  <2>5. m # 0 => IsSlotUpdate(m) \/ m \in run'.data \/ (phase' = "forwarding" /\ hand' = m)
        BY <1>0, <2>1, HandOverAdds
  <2>6. NoHole'
    <3>1. SUFFICES ASSUME NEW k \in run'.data, NEW n \in run.since..k
                   PROVE  NoData(n) \/ n \in run'.data
          BY <2>1, <2>2 DEF NoHole, NoData
    <3>2. CASE k \in run.data
          BY <1>0, <2>4, <3>2 DEF NoHole
    <3>3. CASE k \notin run.data
      <4>1. k = m /\ m = cursor
            BY <1>9, <2>4, <3>3
      <4>2. n = k \/ n \in run.since..(cursor - 1)
            BY <2>2, <4>1
      <4>3. QED
            BY <2>3, <2>4, <4>2
    <3>4. QED
          BY <3>2, <3>3
  <2>7. \A n \in run.since..(cursor - 1) : Arrived(n)'
        BY <2>1, <2>3, <2>4 DEF Arrived, NoData
  <2>8. \A n \in run.since..(cursor' - 1) : Arrived(n)'
    <3>1. CASE m = 0
          BY <1>9, <2>7, <3>1
    <3>2. CASE m # 0
      <4>1. m = cursor /\ cursor' = cursor + 1
            BY <1>9, <3>2
      <4>2. Arrived(m)'
            BY <2>1, <2>5, <3>2 DEF Arrived, NoData
      <4>3. \A n \in run.since..(cursor' - 1) : n = m \/ n \in run.since..(cursor - 1)
            BY <2>2, <4>1
      <4>4. QED
            BY <2>7, <4>2, <4>3
    <3>3. QED
          BY <3>1, <3>2
  <2>9. Covered'
    <3>1. ~excused' /\ \A n \in run'.since..(cursor' - 1) : Arrived(n)'
          BY <2>1, <2>2, <2>3, <2>8
    <3>2. cursor' # 0 /\ phase' \in Established
          BY <1>9, <2>1, <2>2 DEF Established
    <3>3. QED
          BY <3>1, <3>2 DEF Covered
  <2>10. Excuses'
    <3>1. cursor' # 0 /\ (phase' = "forwarding" => hand' < cursor')
          BY <1>9, <2>1, <2>2
    <3>2. run'.since # 0
          BY <1>0, <2>2, <2>3 DEF Excuses
    <3>3. QED
          BY <2>1, <3>1, <3>2 DEF Excuses
  <2>11. QED
        BY <2>6, <2>9, <2>10
<1>10. CASE Receive \/ ReceiveSlot
  <2>1. cursor \in 1..(3 * MaxSlot) /\ Arrives(cursor) /\ cursor' = cursor + 1
        BY <1>0, <1>10 DEF Receive, ReceiveSlot, TypeOK
  <2>2. QED
        BY <1>9, <2>1
<1>11. ASSUME NEW slot \in 1..MaxSlot, ReceiveStatus(slot)
       PROVE  NoHole' /\ Covered' /\ Excuses'
  <2>1. cursor # 0 /\ Arrives(0) /\ cursor' = cursor /\ 0 \in 0..(3 * MaxSlot)
        BY <1>11 DEF ReceiveStatus
  <2>2. QED
        BY <1>9, <2>1
<1>12. CASE ReceivePong
  <2>1. Arrives(0) /\ UNCHANGED <<cursor, lastSlot>> /\ 0 \in 0..(3 * MaxSlot)
        BY <1>12 DEF ReceivePong
  <2>2. CASE cursor # 0
        BY <1>9, <2>1, <2>2
  <2>3. CASE cursor = 0
    <3>1. /\ phase = "streaming" /\ phase' \in {"streaming", "forwarding"} /\ run' = run
          /\ UNCHANGED <<excused, skipped>> /\ (phase' = "forwarding" => hand' = 0)
          BY <1>0, <2>1 DEF Arrives, HandOver, TypeOK
    <3>2. NoHole'
          BY <1>0, <3>1 DEF NoHole, NoData
    <3>3. \A n : Arrived(n) => Arrived(n)'
          BY <3>1 DEF Arrived, NoData
    <3>4. Covered'
          BY <1>0, <2>1, <2>3, <3>1, <3>3 DEF Covered, Established
    <3>5. Excuses'
          BY <1>0, <3>1 DEF Excuses, Established
    <3>6. QED
          BY <3>2, <3>4, <3>5
  <2>4. QED
        BY <2>2, <2>3
<1>13. CASE Forward
  <2>1. /\ phase = "forwarding" /\ phase' = "streaming" /\ HandOver(hand)
        /\ UNCHANGED <<cursor, lastSlot, excused, skipped>>
        BY <1>13 DEF Forward, Goto
  <2>2. /\ hand \in 0..(3 * MaxSlot) /\ (hand = 0 \/ hand < cursor) /\ cursor \in Nat
        /\ run.since \in Nat
        BY <1>0, <2>1 DEF TypeOK, Excuses
  <2>3. /\ run'.since = run.since
        /\ \A n : n \in run'.data <=> n \in run.data \/ (n = hand /\ hand # 0 /\ ~IsSlotUpdate(hand))
        BY <1>0, <2>1, <2>2, HandOverAdds
  <2>4. /\ hand \in 0..(3 * MaxSlot) /\ (hand = 0 \/ hand < cursor) /\ cursor \in Nat
        /\ run.since \in Nat /\ run'.since = run.since
        /\ \A n : n \in run'.data <=> n \in run.data \/ (n = hand /\ hand # 0 /\ ~IsSlotUpdate(hand))
        BY <2>2, <2>3
  <2>5. ASSUME NEW n \in Int, n > 0, Arrived(n)
        PROVE  (NoData(n) \/ n \in run'.data) /\ Arrived(n)'
        BY <2>1, <2>4, <2>5 DEF Arrived, NoData
  <2>6. NoHole'
    <3>1. SUFFICES ASSUME NEW k \in run'.data, NEW n \in run.since..k
                   PROVE  NoData(n) \/ n \in run'.data
          BY <2>1, <2>4 DEF NoHole, NoData
    <3>2. CASE k \in run.data
          BY <1>0, <2>4, <3>2 DEF NoHole
    <3>3. CASE k = hand /\ hand # 0
      <4>1. ~excused /\ run.since # 0 /\ \A l \in run.since..(cursor - 1) : Arrived(l)
            BY <1>0, <2>1, <2>4, <3>3 DEF Covered, Excuses, Established
      <4>2. n \in run.since..(cursor - 1) /\ n \in Int /\ n > 0
            BY <2>4, <3>3, <4>1
      <4>3. QED
            BY <2>5, <4>1, <4>2
    <3>4. QED
          BY <2>4, <3>2, <3>3
  <2>7. Covered'
    <3>1. ASSUME ~excused, NEW top \in Int, NEW n \in run.since..top, Arrived(n) PROVE Arrived(n)'
      <4>1. n \in Int /\ n > 0
            BY <1>0, <2>4, <3>1 DEF Excuses
      <4>2. QED
            BY <2>5, <3>1, <4>1
    <3>2. cursor - 1 \in Int /\ 3 * lastSlot - 3 \in Int
          BY <1>0 DEF TypeOK
    <3>3. CASE cursor # 0
      <4>1. ~excused /\ \A n \in run.since..(cursor - 1) : Arrived(n)
            BY <1>0, <2>1, <3>3 DEF Covered, Established
      <4>2. \A n \in run.since..(cursor - 1) : Arrived(n)'
            BY <3>1, <3>2, <4>1
      <4>3. QED
            BY <2>1, <2>4, <3>3, <4>1, <4>2 DEF Covered, Established
    <3>4. CASE cursor = 0
      <4>1. ~excused => \A n \in run.since..(3 * lastSlot - 3) : Arrived(n)
            BY <1>0, <2>1, <3>4 DEF Covered, Established
      <4>2. ~excused => \A n \in run.since..(3 * lastSlot - 3) : Arrived(n)'
            BY <3>1, <3>2, <4>1
      <4>3. QED
            BY <2>1, <2>4, <3>4, <4>2 DEF Covered, Established
    <3>5. QED
          BY <3>3, <3>4
  <2>8. Excuses'
        BY <1>0, <2>1, <2>4 DEF Excuses, Established
  <2>9. QED
        BY <2>6, <2>7, <2>8
<1>14. QED
      BY <1>1, <1>4, <1>5, <1>6, <1>7, <1>8, <1>10, <1>11, <1>12, <1>13, <1>2
      DEF Next

-----------------------------------------------------------------------------
(* The theorems.                                                            *)

LEMMA NextInv == Inv /\ [Next]_vars => Inv'
<1> SUFFICES ASSUME Inv, [Next]_vars PROVE Inv'
    OBVIOUS
<1>1. CASE Next
      BY <1>1, TypeStep, ModesStep, ParentStep, RelayedStep, RingStep, CoverStep DEF Inv
<1>2. CASE UNCHANGED vars
  <2> USE <1>2 DEF Inv, vars, chain, stream, client, slots
  <2>1. TypeOK'
        BY Zenon DEF TypeOK
  <2>6. Modes' /\ ParentOlder'
        BY DEF Modes, ParentOlder
  <2>2. Relayed'
        BY DEF Relayed, LatestSurvives, WillServe
  <2>3. Ring' /\ LastSlot' /\ Resumes' /\ AlarmsAreExact'
        BY DEF Ring, LastSlot, Resumes, AlarmsAreExact
  <2>4. NoHole' /\ Covered' /\ Excuses'
        BY CoverStays
  <2>5. QED
        BY <2>1, <2>2, <2>3, <2>4, <2>6
<1>3. QED
      BY <1>1, <1>2

LEMMA Invariance == Spec => []Inv
<1>1. QED
      BY InitInv, NextInv, PTL DEF Spec

\* A reconnect leaves a hole only where it has an excuse, however long the
\* chain, however often a connect fails or a stream breaks, and whatever the
\* client asks for in between (grpc_mux.rs:775-794, grpc_yellowstone.rs:277-282,
\* 366-379).
THEOREM NoUnexcusedHole == Spec => []NoHole
<1>1. Inv => NoHole
      BY DEF Inv
<1>2. QED
      BY <1>1, Invariance, PTL

\* For every capacity of the ring, and however leaders skip slots and the chain
\* forks, the tracker of a single upstream reports a slot exactly when its
\* parent never came and is within the ring's reach (grpc_mux.rs:43-44, 55-69).
THEOREM TrackerIsExact == Spec => []AlarmsAreExact
<1>1. Inv => AlarmsAreExact
      BY DEF Inv
<1>2. QED
      BY <1>1, Invariance, PTL

\* Upstream works, or will, with the filter the client asked for last, for
\* every capacity of the request channel and any mix of requests, pings and
\* reconnects (grpc_yellowstone.rs:313-314).
THEOREM LastRequestSurvives == Spec => []LatestSurvives
<1>1. Inv => LatestSurvives
      BY DEF Inv, Relayed
<1>2. QED
      BY <1>1, Invariance, PTL

\* Type correctness: the ring and the request channel keep to their capacity
\* (grpc_mux.rs:65-67, grpc_yellowstone.rs:234).
THEOREM TypeCorrect == Spec => []TypeOK
<1>1. Inv => TypeOK
      BY DEF Inv
<1>2. QED
      BY <1>1, Invariance, PTL
=============================================================================
