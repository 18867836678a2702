-------------------------- MODULE AccessConfigProofs --------------------------
(***************************************************************************)
(* For any subjects, configurations, dashboard requests, reloads and RPC    *)
(* requests: the copies of the access configuration agree where the locks   *)
(* or a quiet moment make them agree.                                       *)
(*                                                                         *)
(* Each property speaks of the moment when all is done; the invariant says  *)
(* what is true in between: who is let in while a request is under way      *)
(* (Grants), which limits the limiter has (Followed) and what a clear has   *)
(* left of its table (Limiters), and which of the files will be whole when  *)
(* the requests that opened them have written them (Saves).  A reload that  *)
(* met nobody (Alone) makes all of it true again, whatever came before.     *)
(***************************************************************************)
EXTENDS AccessConfig, SequenceTheorems, TLAPS

\* A reload that has met no dashboard request so far.
Alone == hup.at # "idle" /\ ~history.thisHup

Overlaps ==
    /\ Alone => \A o \in Ops : ~Running(o)
    /\ hup.at # "idle" /\ history.thisHup => history.crossed /\ history.hupCrossed
    /\ ~history.crossed => \A o, p \in Ops : Running(o) /\ Running(p) => o = p

\* The write lock is held for a change, and never while a file is saved.
Locks ==
    /\ \A o \in Ops : op[o].at \in {"clear", "insert"} <=> writer = o
    /\ writer # Free => \A o \in Ops : ~Saving(o)

\* No copy names a key that is still to be made, and it is made once.
ToMake == {s \in Keys : \E ask \in Asks : ask.kind = "create" /\ ask.who = s}

Requested ==
    /\ \A o \in Ops : Running(o) <=> op[o].ask \in Asks
    /\ \A o \in Ops : op[o].at \in {"load", "store"} => op[o].ask.kind # "update"
    /\ \A o \in Ops : op[o].ask.kind = "create" /\ op[o].at \in {"load", "store", "change"} =>
         op[o].ask.who \notin history.made
    /\ \A o, p \in Ops :
         op[o].ask.kind = "create" /\ op[p].ask.kind = "create" /\ op[o].ask.who = op[p].ask.who
         => o = p

Unnamed ==
    \A s \in ToMake \ history.made :
        /\ config[s] = <<>> /\ hup.new[s] = <<>>
        /\ \A f \in Files : \A conf \in disk.content[f] : conf[s] = <<>>

\* The limiter has the configuration, or the one that is being loaded.
Followed ==
    /\ Alone /\ hup.at \in {"clear", "insert", "keys", "config"} => limits = hup.new
    /\ ~history.hupCrossed /\ hup.at \in {"idle", "list", "limits"} => limits = config

\* Between a reload's clear and its inserts; outside of a reload.
Gap == hup.at = "insert" \/ \E o \in Ops : op[o].at = "insert"
Quiet ==
    /\ hup.at \notin {"clear", "insert"}
    /\ \A o \in Ops : op[o].at \notin {"clear", "insert"}

Current(c) == check[c].at = "creating" /\ ~check[c].stale

Reads ==
    \A c \in Checks :
        /\ check[c].at # "idle" => check[c].who \in Subjects
        /\ check[c].at = "creating" => check[c].limit # None
        /\ Current(c) => check[c].limit = LookUp(limits, check[c].who)

Limiters ==
    /\ Gap /\ (~history.hupCrossed \/ Alone) =>
         \A s \in Subjects \ history.raced : table[s] \in {None, LookUp(limits, s)}
    /\ Quiet /\ (~history.hupCrossed \/ (Alone /\ hup.at \in {"keys", "config"})) =>
         /\ \A s \in Subjects \ history.raced : table[s] \in {None, InForce(limits, s)}
         /\ \A s \in Live(limits) : table[s] # None
         /\ \A c \in Checks : Current(c) => check[c].who \notin Live(limits)

\* A file is written by the request that opened it, and has one name.
Names ==
    /\ disk.path # disk.tmp
    /\ \A o \in Ops : op[o].at \notin {"write", "rename", "done"} => o \notin {disk.path, disk.tmp}
    /\ \A o \in Ops : Saving(o) => op[o].file \in Files
    /\ \A f \in Files : \A x, y \in disk.content[f] : x = y

SomeSaving == \E o \in Ops : Saving(o)

\* The file f is the configuration, or will be when it is written.
Due(f) ==
    \/ disk.content[f] = {config}
    \/ \E p \in Ops : op[p].at = "write" /\ op[p].file = f

Saves ==
    /\ ~history.savesCrossed => \A o, p \in Ops : Saving(o) /\ Saving(p) => o = p
    /\ SomeSaving /\ disk.tmp # Free
       /\ (~history.savesCrossed \/ (~history.fileDiffers /\ ~history.hupCrossed))
       => Due(disk.tmp)
    /\ hup.at = "idle" /\ ~history.hupCrossed /\ ~history.fileDiffers =>
         /\ SomeSaving => disk.tmp # Free \/ Due(disk.path)
         /\ \/ \E o \in Ops : op[o].at \in {"clear", "insert", "save", "write", "rename"}
            \/ FileConfig = {config}
    /\ Alone /\ ~history.fileDiffers => FileConfig = {hup.new}

\* Who is let in is who conf names, but for those left in between.
Follows(conf, between) == \A s \in Subjects \ between : s \in granted <=> s \in Live(conf)

\* Who is let in, step by step.
Grants ==
    /\ Alone /\ hup.at \notin {"list"} => granted \cap IPs = Live(hup.new) \cap IPs
    /\ Alone /\ hup.at = "config" => granted = Live(hup.new)
    /\ hup.at = "idle" /\ ~history.crossed =>
         /\ \A o \in Ops : op[o].at = "store" => op[o].copy = granted \cap SameStore(op[o].ask.who)
         /\ \A o \in Ops : op[o].at = "change" /\ op[o].ask.kind # "update" =>
              Follows(Changed(op[o].ask), history.halfDone \ {op[o].ask.who})
         /\ \/ \E o \in Ops : op[o].at = "change" /\ op[o].ask.kind # "update"
            \/ Follows(config, history.halfDone)

Inv ==
    /\ TypeOK /\ Overlaps /\ Locks /\ Requested /\ Unnamed
    /\ Followed /\ Reads /\ Limiters
    /\ Names /\ Saves /\ FileIsWhole
    /\ Grants

-----------------------------------------------------------------------------
(* Configurations.                                                          *)

LEMMA Limits ==
  ASSUME NEW conf \in Configs, NEW s \in Subjects
  PROVE  /\ LookUp(conf, s) \in Nat \ {None} /\ InForce(conf, s) \in Nat \ {None}
         /\ s \notin Live(conf) => LookUp(conf, s) = InForce(conf, s)
<1>1. conf[s] \in Seq(Entries)
      BY DEF Configs
<1>2. conf[s] # <<>> =>
        /\ 1 \in DOMAIN conf[s] /\ Len(conf[s]) \in DOMAIN conf[s]
        /\ conf[s][1] \in Entries /\ conf[s][Len(conf[s])] \in Entries
      BY <1>1
<1> USE AccessAssumption
<1>0. \A e \in Entries : e.limit \in Nat \ {None}
      BY DEF Entries
<1>3. LookUp(conf, s) \in Nat \ {None}
      BY <1>0, <1>2 DEF LookUp
<1>4. InForce(conf, s) \in Nat \ {None}
  <2>1. s \in Live(conf) => conf[s] # <<>>
        BY DEF Live
  <2>2. QED
        BY <1>0, <1>2, <2>1 DEF InForce
<1>5. ASSUME s \notin Live(conf) PROVE LookUp(conf, s) = InForce(conf, s)
      BY <1>2, <1>5 DEF LookUp, InForce, Live, Configs
<1>6. QED
      BY <1>3, <1>4, <1>5

\* A change and what it does to the set of those who are let in.
LEMMA ChangeIsSound ==
  ASSUME TypeOK, NEW ask \in Asks, ask.kind = "create" => config[ask.who] = <<>>
  PROVE  /\ Changed(ask) \in Configs
         /\ \A s \in Subjects \ {ask.who} : Changed(ask)[s] = config[s]
         /\ ask.kind \in {"add", "create"} => Live(Changed(ask)) = Live(config) \cup {ask.who}
         /\ ask.kind \in {"remove", "revoke"} => Live(Changed(ask)) = Live(config) \ {ask.who}
         /\ ask.kind = "update" => Live(Changed(ask)) = Live(config)
<1> DEFINE s == ask.who
           new == Changed(ask)
           Sound == /\ new \in Configs
                    /\ \A t \in Subjects \ {s} : new[t] = config[t]
                    /\ ask.kind \in {"add", "create"} => Live(new) = Live(config) \cup {s}
                    /\ ask.kind \in {"remove", "revoke"} => Live(new) = Live(config) \ {s}
                    /\ ask.kind = "update" => Live(new) = Live(config)
<1> SUFFICES Sound
    OBVIOUS
<1>1. /\ config \in Configs /\ s \in Subjects /\ config[s] \in Seq(Entries) /\ ask.limit \in Nat \ {None}
      /\ config \in [Subjects -> Seq(Entries)]
      /\ ask.kind \in {"add", "update", "remove", "create", "revoke"}
      /\ ask.kind \in {"create", "revoke"} <=> s \in Keys
      /\ s \in IPs \/ s \in Keys
      BY AccessAssumption DEF TypeOK, Configs, Subjects
<1>2. ASSUME NEW list \in Seq(Entries), new = [config EXCEPT ![s] = list],
             s \in IPs => \A i \in DOMAIN list : list[i].live,
             s \in Keys => Len(list) <= 1
      PROVE  /\ new \in Configs
             /\ \A t \in Subjects \ {s} : new[t] = config[t]
             /\ (\E i \in DOMAIN list : list[i].live) => Live(new) = Live(config) \cup {s}
             /\ ~(\E i \in DOMAIN list : list[i].live) => Live(new) = Live(config) \ {s}
  <2>1. new \in [Subjects -> Seq(Entries)] /\ new[s] = list
        BY <1>1, <1>2
  <2>2. \A t \in Subjects \ {s} : new[t] = config[t]
        BY <1>1, <1>2
  <2> HIDE DEF new, s
  <2>3. new \in Configs
        BY <1>1, <1>2, <2>1, <2>2 DEF Configs, Subjects
  <2>4. Live(new) \ {s} = Live(config) \ {s}
        BY <2>1, <2>2 DEF Live
  <2>5. s \in Live(new) <=> \E i \in DOMAIN list : list[i].live
        BY <1>1, <2>1 DEF Live
  <2>6. QED
        BY <2>2, <2>3, <2>4, <2>5
<1>3. CASE ask.kind \in {"add", "create"}
  <2> DEFINE entry == [limit |-> ask.limit, live |-> TRUE]
             list == Append(config[s], entry)
             n == Len(config[s])
  <2>1. new = [config EXCEPT ![s] = list]
        BY <1>3 DEF Changed
  <2>2. entry \in Entries /\ entry.live
        BY <1>1 DEF Entries
  <2> HIDE DEF entry
  <2>3. /\ list \in Seq(Entries) /\ DOMAIN list = 1..(n + 1) /\ n \in Nat /\ list[n + 1] = entry
        /\ \A i \in 1..n : list[i] = config[s][i]
        /\ DOMAIN config[s] = 1..n /\ Len(list) = n + 1
        BY <1>1, <2>2
  <2>4. s \in IPs => \A i \in DOMAIN config[s] : config[s][i].live
        BY <1>1 DEF Configs
  <2>5. s \in Keys => n = 0
        BY <1>1, <1>3, AccessAssumption
  <2> HIDE DEF list, n, new, s
  <2>6. s \in IPs => \A i \in DOMAIN list : list[i].live
        BY <2>2, <2>3, <2>4
  <2>7. s \in Keys => Len(list) <= 1
        BY <2>3, <2>5
  <2>8. \E i \in DOMAIN list : list[i].live
        BY <2>2, <2>3
  <2>9. QED
        BY <1>2, <1>3, <2>1, <2>3, <2>6, <2>7, <2>8
<1>4. CASE ask.kind = "remove"
  <2> DEFINE list == <<>>
  <2>1. new = [config EXCEPT ![s] = list]
        BY <1>4 DEF Changed
  <2>2. list \in Seq(Entries) /\ DOMAIN list = {} /\ Len(list) = 0
        OBVIOUS
  <2> HIDE DEF new, s, list
  <2>3. /\ s \in IPs => \A i \in DOMAIN list : list[i].live
        /\ s \in Keys => Len(list) <= 1
        /\ ~\E i \in DOMAIN list : list[i].live
        BY <2>2
  <2>4. /\ new \in Configs /\ \A t \in Subjects \ {s} : new[t] = config[t]
        /\ Live(new) = Live(config) \ {s}
        BY <1>2, <2>1, <2>2, <2>3
  <2>5. QED
        BY <1>4, <2>4
<1>5. CASE ask.kind = "update"
  <2> DEFINE list == [config[s] EXCEPT ![1].limit = ask.limit]
  <2>1. new = [config EXCEPT ![s] = list]
        BY <1>5 DEF Changed
  <2>2. s \in IPs /\ s \notin Keys /\ \A i \in DOMAIN config[s] : config[s][i].live
        BY <1>1, <1>5 DEF Configs
  <2>3. list \in Seq(Entries) /\ DOMAIN list = DOMAIN config[s] /\ \A i \in DOMAIN list : list[i].live
    <3>1. CASE config[s] = <<>>
      <4>1. list = config[s]
            BY <1>1, <3>1
      <4>2. QED
            BY <1>1, <2>2, <4>1
    <3>2. CASE config[s] # <<>>
      <4> DEFINE entry == [config[s][1] EXCEPT !.limit = ask.limit]
      <4>1. 1 \in 1..Len(config[s]) /\ config[s][1] \in Entries /\ config[s][1].live
            BY <1>1, <2>2, <3>2
      <4>2. entry \in Entries /\ entry.live
            BY <1>1, <4>1 DEF Entries
      <4>3. list = [config[s] EXCEPT ![1] = entry]
            OBVIOUS
      <4> HIDE DEF entry, list, s
      <4>4. /\ list \in Seq(Entries) /\ Len(list) = Len(config[s])
            /\ \A i \in 1..Len(config[s]) : list[i] = IF i = 1 THEN entry ELSE config[s][i]
            BY <1>1, <4>1, <4>2, <4>3, ExceptSeq
      <4>5. DOMAIN config[s] = 1..Len(config[s]) /\ DOMAIN list = 1..Len(config[s])
            BY <1>1, <4>4
      <4>6. \A i \in DOMAIN list : list[i].live
            BY <2>2, <4>2, <4>4, <4>5
      <4>7. QED
            BY <4>4, <4>5, <4>6
    <3>3. QED
          BY <3>1, <3>2
  <2> HIDE DEF list, new, s
  <2>4. (\E i \in DOMAIN list : list[i].live) <=> s \in Live(config)
    <3>1. s \in Live(config) <=> \E i \in DOMAIN config[s] : config[s][i].live
          BY <1>1 DEF Live
    <3>2. QED
          BY <2>2, <2>3, <3>1
  <2>5. QED
    <3>1. /\ new \in Configs /\ \A t \in Subjects \ {s} : new[t] = config[t]
          /\ s \in Live(config) => Live(new) = Live(config) \cup {s}
          /\ s \notin Live(config) => Live(new) = Live(config) \ {s}
          BY <1>2, <2>1, <2>2, <2>3, <2>4
    <3>2. Live(new) = Live(config)
          BY <3>1
    <3>3. QED
          BY <1>5, <3>1, <3>2
<1>6. CASE ask.kind = "revoke"
  <2>1. s \in Keys /\ s \notin IPs /\ Len(config[s]) <= 1
        BY <1>1, <1>6, AccessAssumption DEF Configs
  <2>2. CASE config[s] = <<>>
    <3>1. new = config /\ s \notin Live(config)
          BY <1>6, <2>2 DEF Changed, Live
    <3>2. QED
          BY <1>1, <1>6, <3>1
  <2>3. CASE config[s] # <<>>
    <3> DEFINE list == [config[s] EXCEPT ![1].live = FALSE]
    <3>1. new = [config EXCEPT ![s] = list]
          BY <1>6, <2>3 DEF Changed
    <3>2. Len(config[s]) = 1 /\ 1 \in 1..Len(config[s]) /\ config[s][1] \in Entries
      <4> DEFINE q == config[s]
      <4>1. q \in Seq(Entries) /\ q # <<>> /\ Len(q) <= 1
            BY <1>1, <2>1, <2>3
      <4> HIDE DEF q
      <4>2. Len(q) \in Nat /\ Len(q) # 0
            BY <4>1
      <4>3. Len(q) = 1
            BY <4>1, <4>2
      <4>4. 1 \in 1..Len(q) /\ q[1] \in Entries
            BY <4>1, <4>3
      <4>5. QED
            BY <4>3, <4>4 DEF q
    <3> DEFINE entry == [config[s][1] EXCEPT !.live = FALSE]
    <3>3. entry \in Entries /\ ~entry.live /\ list = [config[s] EXCEPT ![1] = entry]
          BY <3>2 DEF Entries
    <3> HIDE DEF list, entry, new, s
    <3>4. list \in Seq(Entries) /\ Len(list) = 1 /\ list[1] = entry
      <4> DEFINE q == config[s]
      <4>1. q \in Seq(Entries) /\ 1 \in 1..Len(q) /\ entry \in Entries /\ list = [q EXCEPT ![1] = entry]
            BY <1>1, <3>2, <3>3
      <4>2. Len(q) = 1
            BY <3>2
      <4> HIDE DEF q
      <4>3. /\ list \in Seq(Entries) /\ Len(list) = Len(q)
            /\ \A i \in 1..Len(q) : list[i] = IF i = 1 THEN entry ELSE q[i]
            BY <4>1, ExceptSeq
      <4>4. QED
            BY <4>1, <4>2, <4>3
    <3>5. /\ \A i \in DOMAIN list : ~list[i].live
          /\ Len(list) <= 1
      <4>1. DOMAIN list = {1}
            BY <3>4
      <4>2. ~list[1].live
            BY <3>3, <3>4
      <4>3. \A i \in DOMAIN list : ~list[i].live
            BY <4>1, <4>2
      <4>4. QED
            BY <3>4, <4>3
    <3>6. /\ new \in Configs /\ \A t \in Subjects \ {s} : new[t] = config[t]
          /\ Live(new) = Live(config) \ {s}
      <4>1. s \notin IPs /\ list \in Seq(Entries) /\ ~\E i \in DOMAIN list : list[i].live
            BY <2>1, <3>4, <3>5
      <4>2. QED
            BY <1>2, <3>1, <3>5, <4>1
    <3>7. QED
          BY <1>6, <3>6
  <2>4. QED
        BY <2>2, <2>3
<1>7. QED
      BY <1>1, <1>3, <1>4, <1>5, <1>6
-----------------------------------------------------------------------------
(* The initial state.                                                       *)

LEMMA EmptyConfig == Empty \in Configs
<1>1. Empty \in [Subjects -> Seq(Entries)]
      BY DEF Empty
<1>2. \A s \in Subjects : Empty[s] = <<>>
      BY DEF Empty
<1>3. QED
      BY <1>1, <1>2 DEF Configs, Subjects

LEMMA InitInv == Init => Inv
<1> SUFFICES ASSUME Init PROVE Inv
    OBVIOUS
<1> USE AccessAssumption
<1>1. Start \in Configs /\ Empty \in Configs
      BY EmptyConfig
<1>2. Live(Start) \subseteq Subjects /\ \A s \in Subjects : InForce(Start, s) \in Nat \ {None}
      BY <1>1, Limits DEF Live
<1>3. TypeOK
  <2>1. table \in [Subjects -> Nat]
        BY <1>2 DEF Init, None
  <2>2. history \in [crossed : BOOLEAN, hupCrossed : BOOLEAN, thisHup : BOOLEAN,
                      savesCrossed : BOOLEAN, fileDiffers : BOOLEAN,
                      made : SUBSET Keys, raced : SUBSET Subjects,
                      halfDone : SUBSET Subjects]
        BY DEF Init
  <2>3. check \in [Checks -> [at : {"idle", "authorized", "creating"},
                             who : Subjects \cup {None}, limit : Nat, stale : BOOLEAN]]
        BY DEF Init, Idle, None
  <2>4. op \in [Ops -> [at : OpPlaces, ask : Asks \cup {NoAsk}, copy : SUBSET Subjects,
                         file : Files \cup {Free}]]
        BY DEF Init, OpPlaces
  <2>5. disk \in [path : Files, tmp : Ops \cup {Free}, content : [Files -> SUBSET Configs]]
        BY <1>1 DEF Init, Files, Torn
  <2>6. hup \in [at : HupPlaces, new : Configs] /\ hups \in 0..MaxHups
        BY <1>1 DEF Init, NoHup, HupPlaces
  <2>7. QED
        BY <1>1, <1>2, <2>1, <2>2, <2>3, <2>4, <2>5, <2>6 DEF Init, TypeOK
<1>4. Overlaps /\ Locks
      BY DEF Init, Overlaps, Locks, Alone, NoHup, Running, Saving
<1>5. Requested
      BY DEF Init, Requested, Running, NoAsk
<1>6. Unnamed
      BY DEF Init, Unnamed, ToMake, NoHup, Empty, Files, Torn, Subjects
<1>7. Followed /\ Reads
      BY DEF Init, Followed, Alone, NoHup, Reads, Current, Idle
<1>8. Limiters
      BY <1>2 DEF Init, Limiters, Gap, Quiet, Alone, NoHup, Current, Idle, Live
<1>9. Names /\ Saves /\ FileIsWhole
      BY DEF Init, Names, Saves, Due, SomeSaving, Saving, FileIsWhole, FileConfig, Files, Torn, Free,
             Alone, NoHup
<1>10. Grants
      BY DEF Init, Grants, Follows, Alone, NoHup
<1>11. QED
      BY <1>3, <1>4, <1>5, <1>6, <1>7, <1>8, <1>9, <1>10 DEF Inv
-----------------------------------------------------------------------------
(* Types.                                                                   *)

HistoryType ==
    [crossed : BOOLEAN, hupCrossed : BOOLEAN, thisHup : BOOLEAN, savesCrossed : BOOLEAN,
     fileDiffers : BOOLEAN, made : SUBSET Keys, raced : SUBSET Subjects,
     halfDone : SUBSET Subjects]
OpType == [at : OpPlaces, ask : Asks \cup {NoAsk}, copy : SUBSET Subjects, file : Files \cup {Free}]
CheckType == [at : {"idle", "authorized", "creating"}, who : Subjects \cup {None},
              limit : Nat, stale : BOOLEAN]
DiskType == [path : Files, tmp : Ops \cup {Free}, content : [Files -> SUBSET Configs]]

\* What requests and reloads do to the limiter keeps its types.
LEMMA LimiterTypes ==
  ASSUME TypeOK
  PROVE  /\ Overtaken \in [Checks -> CheckType]
         /\ ClearLimiters => table' \in [Subjects -> Nat] /\ history' \in HistoryType
         /\ \A conf \in Configs : InsertLimiters(conf) =>
              table' \in [Subjects -> Nat] /\ history' \in HistoryType
<1>1. Overtaken \in [Checks -> CheckType]
  <2>1. ASSUME NEW c \in Checks
        PROVE  [check[c] EXCEPT !.stale = (@ \/ check[c].at = "creating")] \in CheckType
    <3>1. check[c] \in CheckType
          BY DEF TypeOK, CheckType
    <3>2. (check[c].stale \/ check[c].at = "creating") \in BOOLEAN
          OBVIOUS
    <3>3. QED
          BY <3>1, <3>2 DEF CheckType
  <2>2. QED
        BY <2>1 DEF Overtaken
<1>2. history \in HistoryType
      BY DEF TypeOK, HistoryType
<1>3. ASSUME ClearLimiters PROVE table' \in [Subjects -> Nat] /\ history' \in HistoryType
      BY <1>2, <1>3 DEF ClearLimiters, None, HistoryType
<1>4. ASSUME NEW conf \in Configs, InsertLimiters(conf)
      PROVE  table' \in [Subjects -> Nat] /\ history' \in HistoryType
  <2>1. table' \in [Subjects -> Nat]
        BY <1>4, Limits DEF InsertLimiters, TypeOK
  <2>2. history' \in HistoryType
        BY <1>2, <1>4 DEF InsertLimiters, HistoryType
  <2>3. QED
        BY <2>1, <2>2
<1>5. QED
      BY <1>1, <1>3, <1>4

LEMMA RecordMoves ==
  ASSUME NEW A, NEW B, NEW C, NEW D, NEW r \in [at : A, ask : B, copy : C, file : D],
         NEW to \in A, NEW copy \in C, NEW f \in D
  PROVE  /\ [r EXCEPT !.at = to, !.copy = copy] \in [at : A, ask : B, copy : C, file : D]
         /\ [r EXCEPT !.at = to, !.file = f] \in [at : A, ask : B, copy : C, file : D]
OBVIOUS

LEMMA RecordPlaced ==
  ASSUME NEW A, NEW B, NEW C, NEW D, NEW r \in [at : A, ask : B, copy : C, file : D],
         NEW to \in A
  PROVE  /\ [r EXCEPT !.at = to] \in [at : A, ask : B, copy : C, file : D]
         /\ \A ask \in B : [r EXCEPT !.ask = ask, !.at = to] \in [at : A, ask : B, copy : C, file : D]
OBVIOUS

LEMMA OpPlaced ==
  ASSUME NEW r \in OpType, NEW to \in OpPlaces
  PROVE  /\ [r EXCEPT !.at = to] \in OpType
         /\ \A ask \in Asks : [r EXCEPT !.ask = ask, !.at = to] \in OpType
<1> DEFINE B == Asks \cup {NoAsk}
           C == SUBSET Subjects
           D == Files \cup {Free}
<1>1. OpType = [at : OpPlaces, ask : B, copy : C, file : D] /\ Asks \subseteq B
      BY DEF OpType
<1> HIDE DEF B, C, D
<1>2. QED
      BY <1>1, RecordPlaced

LEMMA CheckMoves ==
  ASSUME NEW A, NEW B, NEW C, NEW D, NEW r \in [at : A, who : B, limit : C, stale : D],
         NEW to \in A, NEW n \in C
  PROVE  [r EXCEPT !.at = to, !.limit = n] \in [at : A, who : B, limit : C, stale : D]
OBVIOUS

LEMMA OpMoves ==
  ASSUME NEW r \in OpType, NEW to \in OpPlaces, NEW copy \in SUBSET Subjects, NEW f \in Files \cup {Free}
  PROVE  [r EXCEPT !.at = to, !.copy = copy] \in OpType /\ [r EXCEPT !.at = to, !.file = f] \in OpType
<1> DEFINE B == Asks \cup {NoAsk}
           C == SUBSET Subjects
           D == Files \cup {Free}
<1>1. OpType = [at : OpPlaces, ask : B, copy : C, file : D] /\ copy \in C /\ f \in D
      BY DEF OpType
<1> HIDE DEF B, C, D
<1>2. QED
      BY <1>1, RecordMoves

\* A request for a key to be made finds no entry of it.
LEMMA NewKey ==
  ASSUME Inv, NEW o \in Ops, op[o].at \in {"store", "change"}
  PROVE  op[o].ask \in Asks /\ (op[o].ask.kind = "create" => config[op[o].ask.who] = <<>>)
<1>1. op[o].ask \in Asks
      BY DEF Inv, Requested, Running
<1>2. ASSUME op[o].ask.kind = "create" PROVE config[op[o].ask.who] = <<>>
  <2>1. op[o].ask.who \in ToMake \ history.made
        BY <1>1, <1>2, AccessAssumption DEF Inv, Requested, ToMake
  <2>2. QED
        BY <2>1 DEF Inv, Unnamed
<1>3. QED
      BY <1>1, <1>2

LEMMA TypeStep == Inv /\ [Next]_vars => TypeOK'
<1> SUFFICES ASSUME Inv, [Next]_vars PROVE TypeOK'
    OBVIOUS
<1>0. /\ config \in Configs /\ limits \in Configs /\ writer \in Ops \cup {Free}
      /\ disk \in DiskType /\ granted \subseteq Subjects /\ table \in [Subjects -> Nat]
      /\ op \in [Ops -> OpType]
      /\ hup \in [at : HupPlaces, new : Configs] /\ hups \in 0..MaxHups
      /\ check \in [Checks -> CheckType] /\ history \in HistoryType
      /\ Empty \in Configs
  <2>1. TypeOK
        BY DEF Inv
  <2>2. Empty \in Configs
        BY EmptyConfig
  <2>3. QED
        BY <2>1, <2>2 DEF TypeOK, DiskType, OpType, CheckType, HistoryType
<1> USE AccessAssumption
<1> DEFINE Typed ==
             /\ config \in Configs /\ limits \in Configs /\ writer \in Ops \cup {Free}
             /\ disk \in DiskType /\ granted \subseteq Subjects /\ table \in [Subjects -> Nat]
             /\ op \in [Ops -> OpType]
             /\ hup \in [at : HupPlaces, new : Configs] /\ hups \in 0..MaxHups
             /\ check \in [Checks -> CheckType] /\ history \in HistoryType
<1> SUFFICES Typed'
    BY DEF TypeOK, DiskType, OpType, CheckType, HistoryType
<1>l. /\ Overtaken \in [Checks -> CheckType]
      /\ ClearLimiters => table' \in [Subjects -> Nat] /\ history' \in HistoryType
      /\ \A conf \in Configs : InsertLimiters(conf) =>
              table' \in [Subjects -> Nat] /\ history' \in HistoryType
      BY LimiterTypes DEF Inv
<1>d. Done \in OpType
      BY DEF Done, OpType, OpPlaces
<1>1. ASSUME NEW o \in Ops, NEW ask \in Asks, Ask(o, ask) PROVE Typed'
  <2>1. op' \in [Ops -> OpType]
    <3> DEFINE to == IF ask.kind = "update" THEN "change" ELSE "load"
               new == IF ask.kind = "revoke" /\ ask.who \notin granted THEN Done
                      ELSE [op[o] EXCEPT !.ask = ask, !.at = to]
    <3>1. to \in OpPlaces
          BY DEF OpPlaces
    <3>2. op' = [op EXCEPT ![o] = new]
          BY <1>0, <1>1 DEF Ask
    <3> HIDE DEF to
    <3>3. new \in OpType
          BY <1>0, <1>d, <3>1, OpPlaced
    <3> HIDE DEF new
    <3>4. QED
          BY <1>0, <3>2, <3>3
  <2>2. history' \in HistoryType
    <3> DEFINE x == history.crossed \/ (\E p \in Ops : Running(p)) \/ hup.at # "idle"
               y == history.hupCrossed \/ hup.at # "idle"
               z == history.thisHup \/ hup.at # "idle"
    <3>1. x \in BOOLEAN /\ y \in BOOLEAN /\ z \in BOOLEAN
          OBVIOUS
    <3>2. history' = [history EXCEPT !.crossed = x, !.hupCrossed = y, !.thisHup = z]
          BY <1>1 DEF Ask
    <3> HIDE DEF x, y, z
    <3>3. QED
          BY <1>0, <3>1, <3>2 DEF HistoryType
  <2>3. QED
        BY <1>0, <1>1, <2>1, <2>2 DEF Ask, Limiter, Reload
<1>2. ASSUME NEW o \in Ops, Load(o) PROVE Typed'
  <2> DEFINE copy == granted \cap SameStore(op[o].ask.who)
  <2>1. op' \in [Ops -> OpType]
    <3>1. op' = [op EXCEPT ![o].at = "store", ![o].copy = copy] /\ copy \in SUBSET Subjects
          BY <1>0, <1>2 DEF Load
    <3> HIDE DEF copy
    <3>2. op' = [op EXCEPT ![o] = [op[o] EXCEPT !.at = "store", !.copy = copy]]
          BY <1>0, <3>1
    <3>3. [op[o] EXCEPT !.at = "store", !.copy = copy] \in OpType
      <4>1. op[o] \in OpType /\ "store" \in OpPlaces /\ Free \in Files \cup {Free}
            BY <1>0 DEF OpPlaces
      <4>2. QED
            BY <3>1, <4>1, OpMoves
    <3>4. QED
          BY <1>0, <3>2, <3>3
  <2>2. QED
        BY <1>0, <1>2, <2>1 DEF Load, Limiter, Reload
<1>3. ASSUME NEW o \in Ops, Store(o) PROVE Typed'
  <2>1. op' \in [Ops -> OpType]
    <3>1. op' = [op EXCEPT ![o].at = "change", ![o].copy = {}]
          BY <1>3 DEF Store
    <3>2. op' = [op EXCEPT ![o] = [op[o] EXCEPT !.at = "change", !.copy = {}]]
          BY <1>0, <3>1
    <3>3. [op[o] EXCEPT !.at = "change", !.copy = {}] \in OpType
      <4>1. /\ op[o] \in OpType /\ "change" \in OpPlaces /\ Free \in Files \cup {Free}
            /\ {} \in SUBSET Subjects
            BY <1>0 DEF OpPlaces
      <4>2. QED
            BY <4>1, OpMoves
    <3>4. QED
          BY <1>0, <3>2, <3>3
  <2>2. granted' \subseteq Subjects
    <3>1. op[o].copy \subseteq Subjects
          BY <1>0 DEF OpType
    <3>2. op[o].ask.who \in Subjects
          BY <1>3 DEF Store, Inv, Requested, Running, Subjects
    <3>3. QED
          BY <1>0, <1>3, <3>1, <3>2 DEF Store
  <2>3. QED
        BY <1>0, <1>3, <2>1, <2>2 DEF Store, Limiter, Reload
<1>4. ASSUME NEW o \in Ops, NotFound(o) PROVE Typed'
      BY <1>0, <1>4, <1>d DEF NotFound, Limiter, Reload
<1>5. ASSUME NEW o \in Ops, Change(o) PROVE Typed'
  <2>1. op' \in [Ops -> OpType]
    <3>1. op' = [op EXCEPT ![o] = [op[o] EXCEPT !.at = "clear"]]
          BY <1>0, <1>5 DEF Change, OpTo
    <3>2. "clear" \in OpPlaces
          BY DEF OpPlaces
    <3>3. [op[o] EXCEPT !.at = "clear"] \in OpType
          BY <1>0, <3>2, OpPlaced
    <3>4. QED
          BY <1>0, <3>1, <3>3
  <2>2. op[o].ask \in Asks /\ (op[o].ask.kind = "create" => config[op[o].ask.who] = <<>>)
        BY <1>5, NewKey DEF Change, OpTo
  <2>3. Changed(op[o].ask) \in Configs
        BY <2>2, ChangeIsSound DEF Inv
  <2>4. history' \in HistoryType
    <3>1. Made(op[o].ask) \subseteq Keys
          BY <1>0, <2>2 DEF Made, HistoryType
    <3> DEFINE made == Made(op[o].ask)
               rest == history.halfDone \ Settles(op[o].ask)
    <3>2. rest \in SUBSET Subjects
          BY <1>0 DEF HistoryType
    <3>3. history' = [history EXCEPT !.made = made, !.halfDone = rest]
          BY <1>5 DEF Change
    <3> HIDE DEF made, rest
    <3>4. QED
          BY <1>0, <3>1, <3>2, <3>3 DEF HistoryType, made
  <2>5. QED
        BY <1>0, <1>5, <1>l, <2>1, <2>3, <2>4 DEF Change, StoreLimits, Reload
<1>6. ASSUME NEW o \in Ops, Clear(o) PROVE Typed'
  <2>1. op' \in [Ops -> OpType]
    <3>1. op' = [op EXCEPT ![o] = [op[o] EXCEPT !.at = "insert"]]
          BY <1>0, <1>6 DEF Clear, OpTo
    <3>2. "insert" \in OpPlaces
          BY DEF OpPlaces
    <3>3. [op[o] EXCEPT !.at = "insert"] \in OpType
          BY <1>0, <3>2, OpPlaced
    <3>4. QED
          BY <1>0, <3>1, <3>3
  <2>2. QED
        BY <1>0, <1>6, <1>l, <2>1 DEF Clear, Reload
<1>7. ASSUME NEW o \in Ops, Insert(o) PROVE Typed'
  <2>1. op' \in [Ops -> OpType]
    <3>1. op' = [op EXCEPT ![o] = [op[o] EXCEPT !.at = "save"]]
          BY <1>0, <1>7 DEF Insert, OpTo
    <3>2. "save" \in OpPlaces
          BY DEF OpPlaces
    <3>3. [op[o] EXCEPT !.at = "save"] \in OpType
          BY <1>0, <3>2, OpPlaced
    <3>4. QED
          BY <1>0, <3>1, <3>3
  <2>2. table' \in [Subjects -> Nat] /\ history' \in HistoryType
        BY <1>0, <1>7, <1>l DEF Insert
  <2>3. check' \in [Checks -> CheckType]
        BY <1>7, <1>l DEF Insert, InsertLimiters
  <2>4. QED
        BY <1>0, <1>7, <2>1, <2>2, <2>3 DEF Insert, Reload
<1>8. ASSUME NEW o \in Ops, Open(o) PROVE Typed'
  <2> DEFINE f == IF disk.tmp = Free THEN o ELSE disk.tmp
  <2>1. f \in Ops /\ f \in Files
        BY <1>0 DEF DiskType, Files
  <2>2. op' = [op EXCEPT ![o].at = "write", ![o].file = f]
        /\ disk' = [disk EXCEPT !.tmp = f, !.content[f] = Torn]
        BY <1>8 DEF Open
  <2> HIDE DEF f
  <2>3. op' \in [Ops -> OpType]
    <3>1. op' = [op EXCEPT ![o] = [op[o] EXCEPT !.at = "write", !.file = f]]
          BY <1>0, <2>2
    <3>2. [op[o] EXCEPT !.at = "write", !.file = f] \in OpType
          BY <1>0, <2>1, OpMoves DEF OpPlaces
    <3>3. QED
          BY <1>0, <3>1, <3>2
  <2>4. disk' \in DiskType
        BY <1>0, <2>1, <2>2 DEF DiskType, Torn
  <2>5. history' \in HistoryType
    <3> DEFINE x == history.savesCrossed \/ \E p \in Ops : Saving(p)
    <3>1. x \in BOOLEAN /\ history' = [history EXCEPT !.savesCrossed = x]
          BY <1>8 DEF Open
    <3> HIDE DEF x
    <3>2. QED
          BY <1>0, <3>1 DEF HistoryType
  <2>6. QED
        BY <1>0, <1>8, <2>3, <2>4, <2>5 DEF Open, Limiter, Reload
<1>9. ASSUME NEW o \in Ops, Write(o) PROVE Typed'
  <2>1. op' \in [Ops -> OpType]
    <3>1. op' = [op EXCEPT ![o] = [op[o] EXCEPT !.at = "rename"]]
          BY <1>0, <1>9 DEF Write, OpTo
    <3>2. "rename" \in OpPlaces
          BY DEF OpPlaces
    <3>3. [op[o] EXCEPT !.at = "rename"] \in OpType
          BY <1>0, <3>2, OpPlaced
    <3>4. QED
          BY <1>0, <3>1, <3>3
  <2>2. disk' \in DiskType
        BY <1>0, <1>9 DEF Write, DiskType
  <2>3. QED
        BY <1>0, <1>9, <2>1, <2>2 DEF Write, Limiter, Reload
<1>10. ASSUME NEW o \in Ops, Rename(o) PROVE Typed'
  <2>1. op' \in [Ops -> OpType]
        BY <1>0, <1>10, <1>d DEF Rename
  <2>2. CASE disk.tmp = Free
        BY <1>0, <1>10, <2>1, <2>2 DEF Rename, Limiter, Reload
  <2>3. CASE disk.tmp # Free
    <3>1. disk' \in DiskType
      <4> DEFINE old == IF disk.path = disk.tmp THEN disk.content[disk.path] ELSE Torn
                 content == [disk.content EXCEPT ![disk.path] = old]
      <4>1. old \in SUBSET Configs /\ disk.tmp \in Files
            BY <1>0, <2>3 DEF DiskType, Torn, Files
      <4>2. content \in [Files -> SUBSET Configs]
            BY <1>0, <4>1 DEF DiskType
      <4>3. disk' = [path |-> disk.tmp, tmp |-> Free, content |-> content]
            BY <1>0, <1>10, <2>3 DEF Rename, DiskType
      <4>4. QED
            BY <4>1, <4>2, <4>3 DEF DiskType
    <3>2. history' \in HistoryType
      <4> DEFINE x == history.fileDiffers /\ history.savesCrossed
      <4>1. x \in BOOLEAN /\ history' = [history EXCEPT !.fileDiffers = x]
            BY <1>10, <2>3 DEF Rename
      <4> HIDE DEF x
      <4>2. QED
            BY <1>0, <4>1 DEF HistoryType
    <3>3. QED
          BY <1>0, <1>10, <2>1, <3>1, <3>2 DEF Rename, Limiter, Reload
  <2>4. QED
        BY <2>2, <2>3
<1>11. ASSUME NEW o \in Ops, SaveFails(o) PROVE Typed'
  <2>1. history' \in HistoryType
        BY <1>0, <1>11 DEF SaveFails, HistoryType
  <2>2. QED
        BY <1>0, <1>11, <1>d, <2>1 DEF SaveFails, Limiter, Reload
<1>25. ASSUME NEW o \in Ops, Dropped(o) PROVE Typed'
  <2> DEFINE made == Made(op[o].ask)
             half == IF op[o].at = "change" THEN history.halfDone \cup Settles(op[o].ask)
                     ELSE history.halfDone
             differs == history.fileDiffers \/ op[o].at = "save"
  <2>1. op[o].ask \in Asks
        BY <1>25 DEF Dropped, Inv, Requested, Running
  <2>2. op[o].ask.who \in Subjects /\ (op[o].ask.kind = "create" => op[o].ask.who \in Keys)
        BY <2>1 DEF Subjects
  <2>3. made \in SUBSET Keys /\ half \in SUBSET Subjects /\ differs \in BOOLEAN
        BY <1>0, <2>2 DEF Made, Settles, HistoryType
  <2>4. history' = [history EXCEPT !.made = made, !.halfDone = half, !.fileDiffers = differs]
        BY <1>25 DEF Dropped
  <2> HIDE DEF made, half, differs
  <2>5. history' \in HistoryType
        BY <1>0, <2>3, <2>4 DEF HistoryType
  <2>6. QED
        BY <1>0, <1>25, <1>d, <2>5 DEF Dropped, Limiter, Reload
<1>12. ASSUME NEW conf \in Edits, Edit(conf) PROVE Typed'
  <2>1. disk' \in DiskType
        BY <1>0, <1>12 DEF Edit, DiskType
  <2>2. history' \in HistoryType
        BY <1>0, <1>12 DEF Edit, HistoryType
  <2>3. QED
        BY <1>0, <1>12, <2>1, <2>2 DEF Edit, Limiter, Reload
<1>13. ASSUME HupLoad PROVE Typed'
  <2>1. hups' \in 0..MaxHups
    <3>1. hups < MaxHups /\ hups' = hups + 1
          BY <1>13 DEF HupLoad
    <3>2. hups \in 0..MaxHups /\ MaxHups \in Nat
          BY <1>0
    <3>3. QED
          BY <3>1, <3>2
  <2>2. CASE UNCHANGED <<hup, history>>
        BY <1>0, <1>13, <2>1, <2>2 DEF HupLoad, Limiter
  <2>3. ASSUME NEW conf \in FileConfig,
               hup' = [at |-> "list", new |-> conf],
               history' = [history EXCEPT
                     !.crossed = @ \/ \E o \in Ops : Running(o),
                     !.hupCrossed = @ \/ \E o \in Ops : Running(o),
                     !.thisHup = \E o \in Ops : Running(o), !.fileDiffers = FALSE]
        PROVE  Typed'
    <3>1. hup' \in [at : HupPlaces, new : Configs]
          BY <1>0, <2>3 DEF FileConfig, DiskType, HupPlaces
    <3>2. history' \in HistoryType
      <4> DEFINE b == \E o \in Ops : Running(o)
                 x == history.crossed \/ b
                 y == history.hupCrossed \/ b
      <4>1. b \in BOOLEAN /\ x \in BOOLEAN /\ y \in BOOLEAN
            OBVIOUS
      <4>2. history' = [history EXCEPT !.crossed = x, !.hupCrossed = y, !.thisHup = b,
                                       !.fileDiffers = FALSE]
            BY <2>3
      <4> HIDE DEF b, x, y
      <4>3. QED
            BY <1>0, <4>1, <4>2 DEF HistoryType
    <3>3. QED
          BY <1>0, <1>13, <2>1, <3>1, <3>2 DEF HupLoad, Limiter
  <2>4. QED
        BY <1>13, <2>2, <2>3 DEF HupLoad
<1>14. ASSUME HupList \/ HupKeys PROVE Typed'
  <2>1. granted' \subseteq Subjects
        BY <1>0, <1>14 DEF HupList, HupKeys, Live
  <2>2. QED
        BY <1>0, <1>14, <2>1 DEF HupList, HupKeys, HupTo, HupPlaces, Limiter
<1>15. ASSUME HupLimits PROVE Typed'
      BY <1>0, <1>15, <1>l DEF HupLimits, HupTo, StoreLimits, HupPlaces
<1>16. ASSUME HupClear PROVE Typed'
      BY <1>0, <1>16, <1>l DEF HupClear, HupTo, HupPlaces
<1>17. ASSUME HupInsert PROVE Typed'
  <2>1. table' \in [Subjects -> Nat] /\ history' \in HistoryType
        BY <1>0, <1>17, <1>l DEF HupInsert
  <2>2. check' \in [Checks -> CheckType]
        BY <1>17, <1>l DEF HupInsert, InsertLimiters
  <2>3. QED
        BY <1>0, <1>17, <2>1, <2>2 DEF HupInsert, HupTo, HupPlaces
<1>18. ASSUME HupConfig PROVE Typed'
  <2>1. history' \in HistoryType
    <3> DEFINE x == history.crossed /\ history.thisHup
               y == history.hupCrossed /\ history.thisHup
               z == IF history.thisHup THEN history.halfDone ELSE {}
    <3>1. /\ x \in BOOLEAN /\ y \in BOOLEAN /\ z \in SUBSET Subjects
          /\ history' = [history EXCEPT !.crossed = x, !.hupCrossed = y, !.halfDone = z]
          BY <1>0, <1>18 DEF HupConfig, HistoryType
    <3> HIDE DEF x, y, z
    <3>2. QED
          BY <1>0, <3>1 DEF HistoryType
  <2>2. QED
        BY <1>0, <1>18, <2>1 DEF HupConfig, NoHup, HupPlaces, Limiter
<1>19. ASSUME NEW c \in Checks, NEW s \in Subjects, Authorize(c, s) PROVE Typed'
  <2>1. check' \in [Checks -> CheckType]
        BY <1>0, <1>19 DEF Authorize, CheckTo, Idle, None, CheckType
  <2>2. QED
        BY <1>0, <1>19, <2>1 DEF Authorize, Access, Reload
<1>20. ASSUME NEW c \in Checks, Checked(c) PROVE Typed'
  <2>1. check' \in [Checks -> CheckType]
        BY <1>0, <1>20 DEF Checked, CheckTo, Idle, None, CheckType
  <2>2. QED
        BY <1>0, <1>20, <2>1 DEF Checked, Access, Reload
<1>21. ASSUME NEW c \in Checks, Create(c) PROVE Typed'
  <2>1. LookUp(limits, check[c].who) \in Nat
        BY <1>0, <1>21, Limits DEF Create, Inv, Reads
  <2>2. check' \in [Checks -> CheckType]
    <3> DEFINE n == LookUp(limits, check[c].who)
    <3>1. check' = [check EXCEPT ![c] = [check[c] EXCEPT !.at = "creating", !.limit = n]]
          BY <1>21 DEF Create, CheckTo
    <3> HIDE DEF n
    <3>2. [check[c] EXCEPT !.at = "creating", !.limit = n] \in CheckType
      <4>1. /\ check[c] \in CheckType /\ n \in Nat
            /\ "creating" \in {"idle", "authorized", "creating"}
            BY <1>0, <2>1 DEF n
      <4>2. QED
            BY <4>1, CheckMoves DEF CheckType
    <3>3. QED
          BY <1>0, <3>1, <3>2
  <2>3. QED
        BY <1>0, <1>21, <2>2 DEF Create, Access, Reload
<1>22. ASSUME NEW c \in Checks, Created(c) PROVE Typed'
  <2>1. check' \in [Checks -> CheckType]
        BY <1>0, <1>22 DEF Created, CheckTo, Idle, None, CheckType
  <2>2. check[c].who \in Subjects /\ check[c].limit \in Nat
        BY <1>0, <1>22 DEF Created, Inv, Reads, CheckType
  <2>3. table' \in [Subjects -> Nat]
        BY <1>0, <1>22, <2>2 DEF Created
  <2>4. history' \in HistoryType
        BY <1>0, <1>22, <2>2 DEF Created, HistoryType
  <2>5. QED
        BY <1>0, <1>22, <2>1, <2>3, <2>4 DEF Created, Access, Reload
<1>23. CASE UNCHANGED vars
       BY <1>0, <1>23 DEF vars
<1> HIDE DEF Typed
<1>24. QED
       BY <1>1, <1>2, <1>3, <1>4, <1>5, <1>6, <1>7, <1>8, <1>9, <1>10, <1>11, <1>12, <1>13, <1>14,
          <1>15, <1>16, <1>17, <1>18, <1>19, <1>20, <1>21, <1>22, <1>23, <1>25 DEF Next

-----------------------------------------------------------------------------
(* What the steps of a dashboard request do to its own record.              *)

Others(o) == \A p \in Ops \ {o} : op'[p] = op[p]
Moves(o, from, to) ==
    op[o].at = from /\ op'[o].at = to /\ op'[o].ask = op[o].ask /\ Others(o)
Ends(o) == op'[o] = Done /\ Others(o)

LEMMA OpSteps ==
  ASSUME TypeOK, NEW o \in Ops
  PROVE  /\ \A ask \in Asks : Ask(o, ask) =>
              \/ Ends(o)
              \/ /\ op'[o].ask = ask /\ Others(o)
                 /\ op'[o].at = IF ask.kind = "update" THEN "change" ELSE "load"
         /\ Load(o) => /\ Moves(o, "load", "store") /\ op'[o].file = op[o].file
                       /\ op'[o].copy = granted \cap SameStore(op[o].ask.who)
         /\ Store(o) => Moves(o, "store", "change") /\ op'[o].file = op[o].file
         /\ NotFound(o) => Ends(o)
         /\ Change(o) => Moves(o, "change", "clear") /\ op'[o].file = op[o].file
         /\ Clear(o) => Moves(o, "clear", "insert") /\ op'[o].file = op[o].file
         /\ Insert(o) => Moves(o, "insert", "save") /\ op'[o].file = op[o].file
         /\ Open(o) => /\ Moves(o, "save", "write")
                       /\ op'[o].file = IF disk.tmp = Free THEN o ELSE disk.tmp
         /\ Write(o) => Moves(o, "write", "rename") /\ op'[o].file = op[o].file
         /\ Rename(o) => Ends(o)
         /\ SaveFails(o) \/ Dropped(o) => Ends(o)
<1>0. op \in [Ops -> OpType]
      BY DEF TypeOK, OpType
<1> USE DEF Others, Moves, Ends
<1>1. ASSUME NEW ask \in Asks, Ask(o, ask)
      PROVE  \/ Ends(o)
             \/ /\ op'[o].ask = ask /\ Others(o)
                /\ op'[o].at = IF ask.kind = "update" THEN "change" ELSE "load"
      BY <1>0, <1>1 DEF Ask, OpType
<1>2. ASSUME Load(o)
      PROVE  /\ Moves(o, "load", "store") /\ op'[o].file = op[o].file
             /\ op'[o].copy = granted \cap SameStore(op[o].ask.who)
      BY <1>0, <1>2 DEF Load, OpType
<1>3. ASSUME Store(o) PROVE Moves(o, "store", "change") /\ op'[o].file = op[o].file
      BY <1>0, <1>3 DEF Store, OpType
<1>4. ASSUME NotFound(o) \/ Rename(o) \/ SaveFails(o) \/ Dropped(o) PROVE Ends(o)
      BY <1>0, <1>4 DEF NotFound, Rename, SaveFails, Dropped
<1>5. ASSUME Change(o) PROVE Moves(o, "change", "clear") /\ op'[o].file = op[o].file
      BY <1>0, <1>5 DEF Change, OpTo, OpType
<1>6. ASSUME Clear(o) PROVE Moves(o, "clear", "insert") /\ op'[o].file = op[o].file
      BY <1>0, <1>6 DEF Clear, OpTo, OpType
<1>7. ASSUME Insert(o) PROVE Moves(o, "insert", "save") /\ op'[o].file = op[o].file
      BY <1>0, <1>7 DEF Insert, OpTo, OpType
<1>8. ASSUME Open(o)
      PROVE  Moves(o, "save", "write") /\ op'[o].file = IF disk.tmp = Free THEN o ELSE disk.tmp
      BY <1>0, <1>8 DEF Open, OpType
<1>9. ASSUME Write(o) PROVE Moves(o, "write", "rename") /\ op'[o].file = op[o].file
      BY <1>0, <1>9 DEF Write, OpTo, OpType
<1>10. QED
      BY <1>1, <1>2, <1>3, <1>4, <1>5, <1>6, <1>7, <1>8, <1>9

\* What the steps do to the history.
Crossed(h) == <<h.crossed, h.hupCrossed, h.thisHup>>
Saved(h) == <<h.savesCrossed, h.fileDiffers>>

LEMMA HistorySteps ==
  ASSUME TypeOK, NEW o \in Ops
  PROVE  /\ \A ask \in Asks : Ask(o, ask) =>
              /\ history'.crossed <=>
                   history.crossed \/ (\E p \in Ops : Running(p)) \/ hup.at # "idle"
              /\ history'.hupCrossed <=> history.hupCrossed \/ hup.at # "idle"
              /\ history'.thisHup <=> history.thisHup \/ hup.at # "idle"
              /\ Saved(history') = Saved(history)
              /\ history'.made = history.made /\ history'.raced = history.raced
         /\ Change(o) => /\ Crossed(history') = Crossed(history) /\ Saved(history') = Saved(history)
                         /\ history'.made = Made(op[o].ask) /\ history'.raced = history.raced
         /\ Open(o) => /\ Crossed(history') = Crossed(history)
                       /\ history'.savesCrossed <=> history.savesCrossed \/ \E p \in Ops : Saving(p)
                       /\ history'.fileDiffers = history.fileDiffers
                       /\ history'.made = history.made /\ history'.raced = history.raced
         /\ Rename(o) => /\ Crossed(history') = Crossed(history)
                         /\ history'.savesCrossed = history.savesCrossed
                         /\ history'.fileDiffers <=>
                              history.fileDiffers /\ (history.savesCrossed \/ disk.tmp = Free)
                         /\ history'.made = history.made /\ history'.raced = history.raced
         /\ SaveFails(o) => /\ Crossed(history') = Crossed(history)
                            /\ history'.savesCrossed = history.savesCrossed /\ history'.fileDiffers
                            /\ history'.made = history.made /\ history'.raced = history.raced
         /\ Dropped(o) => /\ Crossed(history') = Crossed(history)
                          /\ history'.savesCrossed = history.savesCrossed
                          /\ history'.fileDiffers <=> history.fileDiffers \/ op[o].at = "save"
                          /\ history'.made = Made(op[o].ask) /\ history'.raced = history.raced
<1>0. history \in HistoryType
      BY DEF TypeOK, HistoryType
<1> USE DEF Crossed, Saved
<1>1. ASSUME NEW ask \in Asks, Ask(o, ask)
      PROVE  /\ history'.crossed <=>
                  history.crossed \/ (\E p \in Ops : Running(p)) \/ hup.at # "idle"
             /\ history'.hupCrossed <=> history.hupCrossed \/ hup.at # "idle"
             /\ history'.thisHup <=> history.thisHup \/ hup.at # "idle"
             /\ Saved(history') = Saved(history)
             /\ history'.made = history.made /\ history'.raced = history.raced
  <2> DEFINE x == history.crossed \/ (\E p \in Ops : Running(p)) \/ hup.at # "idle"
             y == history.hupCrossed \/ hup.at # "idle"
             z == history.thisHup \/ hup.at # "idle"
  <2>1. history' = [history EXCEPT !.crossed = x, !.hupCrossed = y, !.thisHup = z]
        BY <1>1 DEF Ask
  <2> HIDE DEF x, y, z
  <2>2. /\ history'.crossed = x /\ history'.hupCrossed = y /\ history'.thisHup = z
        /\ Saved(history') = Saved(history)
        /\ history'.made = history.made /\ history'.raced = history.raced
        BY <1>0, <2>1 DEF HistoryType
  <2>3. QED
        BY <2>2 DEF x, y, z
<1>2. ASSUME Change(o)
      PROVE  /\ Crossed(history') = Crossed(history) /\ Saved(history') = Saved(history)
             /\ history'.made = Made(op[o].ask) /\ history'.raced = history.raced
      BY <1>0, <1>2 DEF Change, HistoryType
<1>3. ASSUME Open(o)
      PROVE  /\ Crossed(history') = Crossed(history)
             /\ history'.savesCrossed <=> history.savesCrossed \/ \E p \in Ops : Saving(p)
             /\ history'.fileDiffers = history.fileDiffers
             /\ history'.made = history.made /\ history'.raced = history.raced
  <2> DEFINE x == history.savesCrossed \/ \E p \in Ops : Saving(p)
  <2>1. history' = [history EXCEPT !.savesCrossed = x]
        BY <1>3 DEF Open
  <2> HIDE DEF x
  <2>2. /\ history'.savesCrossed = x /\ Crossed(history') = Crossed(history)
        /\ history'.fileDiffers = history.fileDiffers
        /\ history'.made = history.made /\ history'.raced = history.raced
        BY <1>0, <2>1 DEF HistoryType
  <2>3. QED
        BY <2>2 DEF x
<1>4. ASSUME Rename(o)
      PROVE  /\ Crossed(history') = Crossed(history)
             /\ history'.savesCrossed = history.savesCrossed
             /\ history'.fileDiffers <=>
                  history.fileDiffers /\ (history.savesCrossed \/ disk.tmp = Free)
             /\ history'.made = history.made /\ history'.raced = history.raced
  <2>1. CASE disk.tmp = Free
        BY <1>4, <2>1 DEF Rename
  <2>2. CASE disk.tmp # Free
    <3> DEFINE x == history.fileDiffers /\ history.savesCrossed
    <3>1. history' = [history EXCEPT !.fileDiffers = x]
          BY <1>4, <2>2 DEF Rename
    <3> HIDE DEF x
    <3>2. /\ history'.savesCrossed = history.savesCrossed /\ Crossed(history') = Crossed(history)
          /\ history'.fileDiffers = x
          /\ history'.made = history.made /\ history'.raced = history.raced
          BY <1>0, <3>1 DEF HistoryType
    <3>3. QED
          BY <2>2, <3>2 DEF x
  <2>3. QED
        BY <2>1, <2>2
<1>5. ASSUME SaveFails(o)
      PROVE  /\ Crossed(history') = Crossed(history)
             /\ history'.savesCrossed = history.savesCrossed /\ history'.fileDiffers
             /\ history'.made = history.made /\ history'.raced = history.raced
      BY <1>0, <1>5 DEF SaveFails, HistoryType
<1>6. ASSUME Dropped(o)
      PROVE  /\ Crossed(history') = Crossed(history)
             /\ history'.savesCrossed = history.savesCrossed
             /\ history'.fileDiffers <=> history.fileDiffers \/ op[o].at = "save"
             /\ history'.made = Made(op[o].ask) /\ history'.raced = history.raced
  <2> DEFINE made == Made(op[o].ask)
             half == IF op[o].at = "change" THEN history.halfDone \cup Settles(op[o].ask)
                     ELSE history.halfDone
             differs == history.fileDiffers \/ op[o].at = "save"
  <2>1. history' = [history EXCEPT !.made = made, !.halfDone = half, !.fileDiffers = differs]
        BY <1>6 DEF Dropped
  <2> HIDE DEF made, half, differs
  <2>2. /\ Crossed(history') = Crossed(history)
        /\ history'.savesCrossed = history.savesCrossed
        /\ history'.fileDiffers = differs
        /\ history'.made = made /\ history'.raced = history.raced
        BY <1>0, <2>1 DEF HistoryType
  <2>3. QED
        BY <2>2 DEF made, differs
<1>7. QED
      BY <1>1, <1>2, <1>3, <1>4, <1>5, <1>6

\* Whose request was left halfway.
LEMMA HalfDoneSteps ==
  ASSUME TypeOK, NEW o \in Ops
  PROVE  /\ \A ask \in Asks : Ask(o, ask) => history'.halfDone = history.halfDone
         /\ Change(o) => history'.halfDone = history.halfDone \ Settles(op[o].ask)
         /\ Dropped(o) /\ op[o].at = "change" =>
              history'.halfDone = history.halfDone \cup Settles(op[o].ask)
         /\ Dropped(o) /\ op[o].at # "change" => history'.halfDone = history.halfDone
         /\ Load(o) \/ Store(o) \/ NotFound(o) \/ Clear(o) \/ Insert(o) \/ Open(o) \/ Write(o)
              \/ Rename(o) \/ SaveFails(o) => history'.halfDone = history.halfDone
<1>0. history \in HistoryType
      BY DEF TypeOK, HistoryType
<1>1. ASSUME NEW ask \in Asks, Ask(o, ask) PROVE history'.halfDone = history.halfDone
      BY <1>0, <1>1 DEF Ask, HistoryType
<1>2. ASSUME Change(o) PROVE history'.halfDone = history.halfDone \ Settles(op[o].ask)
  <2> DEFINE made == Made(op[o].ask)
             rest == history.halfDone \ Settles(op[o].ask)
  <2>1. history' = [history EXCEPT !.made = made, !.halfDone = rest]
        BY <1>2 DEF Change
  <2> HIDE DEF made, rest
  <2>2. history'.halfDone = rest
        BY <1>0, <2>1 DEF HistoryType
  <2>3. QED
        BY <2>2 DEF rest
<1>3. ASSUME Dropped(o)
      PROVE  history'.halfDone = IF op[o].at = "change" THEN history.halfDone \cup Settles(op[o].ask)
                                 ELSE history.halfDone
  <2> DEFINE made == Made(op[o].ask)
             half == IF op[o].at = "change" THEN history.halfDone \cup Settles(op[o].ask)
                     ELSE history.halfDone
             differs == history.fileDiffers \/ op[o].at = "save"
  <2>1. history' = [history EXCEPT !.made = made, !.halfDone = half, !.fileDiffers = differs]
        BY <1>3 DEF Dropped
  <2> HIDE DEF made, half, differs
  <2>2. history'.halfDone = half
        BY <1>0, <2>1 DEF HistoryType
  <2>3. QED
        BY <2>2 DEF half
<1>4. ASSUME Load(o) \/ Store(o) \/ NotFound(o) \/ Write(o) PROVE history'.halfDone = history.halfDone
      BY <1>4 DEF Load, Store, NotFound, Write
<1>5. ASSUME Clear(o) \/ Insert(o) PROVE history'.halfDone = history.halfDone
      BY <1>0, <1>5 DEF Clear, Insert, ClearLimiters, InsertLimiters, HistoryType
<1>6. ASSUME Open(o) \/ SaveFails(o) PROVE history'.halfDone = history.halfDone
      BY <1>0, <1>6 DEF Open, SaveFails, HistoryType
<1>7. ASSUME Rename(o) PROVE history'.halfDone = history.halfDone
      BY <1>0, <1>7 DEF Rename, HistoryType
<1>8. QED
      BY <1>1, <1>2, <1>3, <1>4, <1>5, <1>6, <1>7

LEMMA HistoryReloads ==
  ASSUME TypeOK
  PROVE  /\ \A conf \in Edits : Edit(conf) =>
              /\ Crossed(history') = Crossed(history)
              /\ history'.savesCrossed = history.savesCrossed /\ history'.fileDiffers
              /\ history'.made = history.made /\ history'.raced = history.raced
         /\ HupLoad => \/ hup' = hup /\ history' = history
                       \/ \E conf \in FileConfig :
                            /\ hup'.at = "list" /\ hup'.new = conf
                            /\ history'.crossed <=> history.crossed \/ \E o \in Ops : Running(o)
                            /\ history'.hupCrossed <=> history.hupCrossed \/ \E o \in Ops : Running(o)
                            /\ history'.thisHup <=> \E o \in Ops : Running(o)
                            /\ history'.savesCrossed = history.savesCrossed
                            /\ ~history'.fileDiffers
                            /\ history'.made = history.made /\ history'.raced = history.raced
         /\ ClearLimiters =>
              /\ Crossed(history') = Crossed(history) /\ Saved(history') = Saved(history)
              /\ history'.made = history.made /\ history'.raced = {}
         /\ \A conf : InsertLimiters(conf) =>
              /\ Crossed(history') = Crossed(history) /\ Saved(history') = Saved(history)
              /\ history'.made = history.made /\ history'.raced = history.raced \ Live(conf)
         /\ HupConfig =>
              /\ history'.crossed <=> history.crossed /\ history.thisHup
              /\ history'.hupCrossed <=> history.hupCrossed /\ history.thisHup
              /\ Saved(history') = Saved(history)
              /\ history'.made = history.made /\ history'.raced = history.raced
              /\ history.thisHup \/ history'.halfDone = {}
         /\ \A c \in Checks : Created(c) =>
              /\ Crossed(history') = Crossed(history) /\ Saved(history') = Saved(history)
              /\ history'.made = history.made
              /\ history'.raced = history.raced \cup (IF check[c].stale THEN {check[c].who} ELSE {})
<1>0. history \in HistoryType
      BY DEF TypeOK, HistoryType
<1> USE DEF Crossed, Saved
<1>1. ASSUME NEW conf \in Edits, Edit(conf)
      PROVE  /\ Crossed(history') = Crossed(history)
             /\ history'.savesCrossed = history.savesCrossed /\ history'.fileDiffers
             /\ history'.made = history.made /\ history'.raced = history.raced
      BY <1>0, <1>1 DEF Edit, HistoryType
<1>2. ASSUME HupLoad
      PROVE  \/ hup' = hup /\ history' = history
             \/ \E conf \in FileConfig :
                  /\ hup'.at = "list" /\ hup'.new = conf
                  /\ history'.crossed <=> history.crossed \/ \E o \in Ops : Running(o)
                  /\ history'.hupCrossed <=> history.hupCrossed \/ \E o \in Ops : Running(o)
                  /\ history'.thisHup <=> \E o \in Ops : Running(o)
                  /\ history'.savesCrossed = history.savesCrossed
                  /\ ~history'.fileDiffers
                  /\ history'.made = history.made /\ history'.raced = history.raced
  <2> DEFINE b == \E o \in Ops : Running(o)
             x == history.crossed \/ b
             y == history.hupCrossed \/ b
  <2>1. \/ hup' = hup /\ history' = history
        \/ \E conf \in FileConfig :
             /\ hup' = [at |-> "list", new |-> conf]
             /\ history' = [history EXCEPT !.crossed = x, !.hupCrossed = y, !.thisHup = b,
                                           !.fileDiffers = FALSE]
        BY <1>2 DEF HupLoad
  <2> DEFINE h == [history EXCEPT !.crossed = x, !.hupCrossed = y, !.thisHup = b, !.fileDiffers = FALSE]
  <2> HIDE DEF b, x, y
  <2>2. /\ h.crossed = x /\ h.hupCrossed = y /\ h.thisHup = b
        /\ h.savesCrossed = history.savesCrossed
        /\ h.fileDiffers = FALSE
        /\ h.made = history.made /\ h.raced = history.raced
        BY <1>0 DEF HistoryType
  <2> HIDE DEF h
  <2>3. \/ hup' = hup /\ history' = history
        \/ /\ \E conf \in FileConfig : hup'.at = "list" /\ hup'.new = conf
           /\ history' = h
        BY <2>1 DEF h
  <2>4. QED
        BY <2>2, <2>3 DEF x, y, b
<1>3. ASSUME ClearLimiters
      PROVE  /\ Crossed(history') = Crossed(history) /\ Saved(history') = Saved(history)
             /\ history'.made = history.made /\ history'.raced = {}
      BY <1>0, <1>3 DEF ClearLimiters, HistoryType
<1>4. ASSUME NEW conf, InsertLimiters(conf)
      PROVE  /\ Crossed(history') = Crossed(history) /\ Saved(history') = Saved(history)
             /\ history'.made = history.made /\ history'.raced = history.raced \ Live(conf)
      BY <1>0, <1>4 DEF InsertLimiters, HistoryType
<1>5. ASSUME HupConfig
      PROVE  /\ history'.crossed <=> history.crossed /\ history.thisHup
             /\ history'.hupCrossed <=> history.hupCrossed /\ history.thisHup
             /\ Saved(history') = Saved(history)
             /\ history'.made = history.made /\ history'.raced = history.raced
             /\ history.thisHup \/ history'.halfDone = {}
  <2> DEFINE x == history.crossed /\ history.thisHup
             y == history.hupCrossed /\ history.thisHup
             z == IF history.thisHup THEN history.halfDone ELSE {}
  <2>1. history' = [history EXCEPT !.crossed = x, !.hupCrossed = y, !.halfDone = z]
        BY <1>5 DEF HupConfig
  <2> HIDE DEF x, y, z
  <2>2. /\ history'.crossed = x /\ history'.hupCrossed = y /\ Saved(history') = Saved(history)
        /\ history'.made = history.made /\ history'.raced = history.raced
        /\ history'.halfDone = z
        BY <1>0, <2>1 DEF HistoryType
  <2>3. QED
        BY <2>2 DEF x, y, z
<1>6. ASSUME NEW c \in Checks, Created(c)
      PROVE  /\ Crossed(history') = Crossed(history) /\ Saved(history') = Saved(history)
             /\ history'.made = history.made
             /\ history'.raced = history.raced \cup (IF check[c].stale THEN {check[c].who} ELSE {})
      BY <1>0, <1>6 DEF Created, HistoryType
<1>7. QED
      BY <1>1, <1>2, <1>3, <1>4, <1>5, <1>6

\* What the steps do to the files.
Content(f, conf) ==
    disk'.content[f] = conf /\ \A g \in Files \ {f} : disk'.content[g] = disk.content[g]
Opened(o) == IF disk.tmp = Free THEN o ELSE disk.tmp

LEMMA DiskSteps ==
  ASSUME TypeOK, NEW o \in Ops
  PROVE  /\ disk.path \in Files /\ Opened(o) \in Ops /\ Opened(o) \in Files
         /\ Open(o) => disk'.path = disk.path /\ disk'.tmp = Opened(o) /\ Content(Opened(o), Torn)
         /\ Write(o) => /\ disk'.path = disk.path /\ disk'.tmp = disk.tmp
                        /\ op[o].file \in Files => Content(op[o].file, {config})
                        /\ op[o].file \notin Files =>
                             \A g \in Files : disk'.content[g] = disk.content[g]
         /\ Rename(o) /\ disk.tmp # Free =>
              /\ disk'.path = disk.tmp /\ disk'.tmp = Free
              /\ Content(disk.path,
                         IF disk.path = disk.tmp THEN disk.content[disk.path] ELSE Torn)
         /\ Rename(o) /\ disk.tmp = Free => disk' = disk
         /\ Load(o) \/ Store(o) \/ NotFound(o) \/ Change(o) \/ Clear(o) \/ Insert(o) \/ SaveFails(o) \/ Dropped(o)
              => disk' = disk
         /\ \A conf : Edit(conf) =>
              disk'.path = disk.path /\ disk'.tmp = disk.tmp /\ Content(disk.path, {conf})
<1>0. /\ disk \in DiskType /\ disk.path \in Files
      /\ disk.content \in [Files -> SUBSET Configs]
      BY DEF TypeOK, DiskType
<1>1. Opened(o) \in Ops /\ Opened(o) \in Files
      BY <1>0 DEF Opened, DiskType, Files
<1>2. ASSUME Open(o)
      PROVE  disk'.path = disk.path /\ disk'.tmp = Opened(o) /\ Content(Opened(o), Torn)
  <2> DEFINE f == Opened(o)
             content == [disk.content EXCEPT ![f] = Torn]
  <2>1. disk' = [disk EXCEPT !.tmp = f, !.content[f] = Torn]
        BY <1>2 DEF Open, Opened
  <2> HIDE DEF f
  <2>2. disk' = [disk EXCEPT !.tmp = f, !.content = content]
        BY <1>0, <2>1
  <2>3. disk'.path = disk.path /\ disk'.tmp = f /\ disk'.content = content
        BY <1>0, <2>2 DEF DiskType
  <2>4. QED
        BY <1>0, <1>1, <2>3 DEF Content, f
<1>3. ASSUME Write(o)
      PROVE  /\ disk'.path = disk.path /\ disk'.tmp = disk.tmp
             /\ op[o].file \in Files => Content(op[o].file, {config})
             /\ op[o].file \notin Files => \A g \in Files : disk'.content[g] = disk.content[g]
      BY <1>0, <1>3 DEF Write, Content, DiskType
<1>4. ASSUME Rename(o), disk.tmp # Free
      PROVE  /\ disk'.path = disk.tmp /\ disk'.tmp = Free
             /\ Content(disk.path, IF disk.path = disk.tmp THEN disk.content[disk.path] ELSE Torn)
  <2> DEFINE old == IF disk.path = disk.tmp THEN disk.content[disk.path] ELSE Torn
             content == [disk.content EXCEPT ![disk.path] = old]
  <2>1. disk' = [path |-> disk.tmp, tmp |-> Free, content |-> content]
        BY <1>0, <1>4 DEF Rename, DiskType
  <2> HIDE DEF old
  <2>2. QED
        BY <1>0, <2>1 DEF Content, old
<1>5. ASSUME Rename(o), disk.tmp = Free PROVE disk' = disk
      BY <1>5 DEF Rename
<1>6. Load(o) \/ Store(o) \/ NotFound(o) \/ Change(o) \/ Clear(o) \/ Insert(o) \/ SaveFails(o) \/ Dropped(o)
      => disk' = disk
      BY DEF Load, Store, NotFound, Change, Clear, Insert, SaveFails, Dropped
<1>7. ASSUME NEW conf, Edit(conf)
      PROVE  disk'.path = disk.path /\ disk'.tmp = disk.tmp /\ Content(disk.path, {conf})
      BY <1>0, <1>7 DEF Edit, Content, DiskType
<1>8. QED
      BY <1>0, <1>1, <1>2, <1>3, <1>4, <1>5, <1>6, <1>7

-----------------------------------------------------------------------------
(* Who runs and who holds the lock.                                         *)

\* The steps of a running request, but for its first; those of a reload
\* between its first and its last; those of RPC requests.
OpStep(o) ==
    \/ Load(o) \/ Store(o) \/ NotFound(o) \/ Change(o) \/ Clear(o) \/ Insert(o)
    \/ Dropped(o) \/ Open(o) \/ Write(o) \/ Rename(o) \/ SaveFails(o)
HupStep == HupList \/ HupLimits \/ HupClear \/ HupInsert \/ HupKeys
CheckStep(c) ==
    \/ \E s \in Subjects : Authorize(c, s)
    \/ Checked(c) \/ Create(c) \/ Created(c)

LEMMA StepsOfNext ==
  [Next]_vars =>
    \/ \E o \in Ops : OpStep(o) \/ \E ask \in Asks : Ask(o, ask)
    \/ (\E conf \in Edits : Edit(conf)) \/ HupLoad \/ HupStep \/ HupConfig
    \/ \E c \in Checks : CheckStep(c)
    \/ UNCHANGED vars
BY DEF Next, OpStep, HupStep, CheckStep

LEMMA OpStepFacts ==
  ASSUME Inv, NEW o \in Ops, OpStep(o)
  PROVE  /\ Running(o) /\ Others(o) /\ hup' = hup /\ Crossed(history') = Crossed(history)
         /\ \/ op'[o] = Done
            \/ op'[o].ask = op[o].ask /\ op'[o].at \in OpPlaces \ {"new", "done"}
<1>1. TypeOK
      BY DEF Inv
<1>2. Crossed(history') = Crossed(history)
  <2>1. CASE Load(o) \/ Store(o) \/ NotFound(o) \/ Write(o)
        BY <2>1 DEF Load, Store, NotFound, Write
  <2>2. CASE Clear(o) \/ Insert(o)
        BY <1>1, <2>2, HistoryReloads DEF Clear, Insert
  <2>3. CASE Change(o) \/ Open(o) \/ Rename(o) \/ SaveFails(o) \/ Dropped(o)
        BY <1>1, <2>3, HistorySteps
  <2>4. QED
        BY <2>1, <2>2, <2>3 DEF OpStep
<1>3. hup' = hup
      BY DEF OpStep, Load, Store, NotFound, Change, Clear, Insert, Open, Write, Rename, SaveFails, Dropped,
             Reload
<1>4. /\ Others(o)
      /\ \/ op'[o] = Done
         \/ op'[o].ask = op[o].ask /\ op'[o].at \in OpPlaces \ {"new", "done"}
      BY <1>1, OpSteps DEF OpStep, Moves, Ends, OpPlaces
<1>5. Running(o)
      BY <1>1, OpSteps DEF OpStep, Moves, Running, NotFound, Rename, SaveFails, Dropped, Saving
<1>6. QED
      BY <1>2, <1>3, <1>4, <1>5

LEMMA HupStepFacts ==
  ASSUME Inv, HupStep
  PROVE  /\ hup.at # "idle" /\ hup'.at # "idle" /\ hup'.new = hup.new
         /\ Crossed(history') = Crossed(history) /\ Saved(history') = Saved(history)
         /\ history'.made = history.made
         /\ UNCHANGED <<config, writer, disk, op>>
<1>1. TypeOK
      BY DEF Inv
<1>2. hup.at # "idle" /\ hup'.at # "idle" /\ hup'.new = hup.new
      BY <1>1 DEF HupStep, HupList, HupLimits, HupClear, HupInsert, HupKeys, HupTo, TypeOK
<1>3. UNCHANGED <<config, writer, disk, op>>
      BY DEF HupStep, HupList, HupLimits, HupClear, HupInsert, HupKeys
<1>4. /\ Crossed(history') = Crossed(history) /\ Saved(history') = Saved(history)
      /\ history'.made = history.made
      BY <1>1, HistoryReloads DEF HupStep, HupList, HupLimits, HupClear, HupInsert, HupKeys
<1>5. QED
      BY <1>2, <1>3, <1>4

LEMMA CheckStepFacts ==
  ASSUME Inv, NEW c \in Checks, CheckStep(c)
  PROVE  /\ Crossed(history') = Crossed(history) /\ Saved(history') = Saved(history)
         /\ history'.made = history.made /\ history'.halfDone = history.halfDone
         /\ UNCHANGED Access
<1>1. TypeOK
      BY DEF Inv
<1>2. history'.halfDone = history.halfDone
      BY <1>1 DEF CheckStep, Authorize, Checked, Create, Created, TypeOK
<1>3. QED
      BY <1>1, <1>2, HistoryReloads DEF CheckStep, Authorize, Checked, Create, Created

LEMMA OverlapsStep == Inv /\ [Next]_vars => Overlaps'
<1> SUFFICES ASSUME Inv, [Next]_vars PROVE Overlaps'
    OBVIOUS
<1>0. TypeOK /\ Overlaps
      BY DEF Inv
<1>1. ASSUME NEW o \in Ops, NEW ask \in Asks, Ask(o, ask) PROVE Overlaps'
  <2>1. Others(o) /\ hup' = hup
        BY <1>0, <1>1, OpSteps DEF Ask, Reload, Ends
  <2>2. /\ history'.crossed <=> history.crossed \/ (\E p \in Ops : Running(p)) \/ hup.at # "idle"
        /\ history'.hupCrossed <=> history.hupCrossed \/ hup.at # "idle"
        /\ history'.thisHup <=> history.thisHup \/ hup.at # "idle"
        BY <1>0, <1>1, HistorySteps
  <2>3. \A p \in Ops \ {o} : Running(p)' <=> Running(p)
        BY <2>1 DEF Others, Running
  <2>4. QED
        BY <1>0, <2>1, <2>2, <2>3 DEF Overlaps, Alone
<1>2. ASSUME NEW o \in Ops, OpStep(o) PROVE Overlaps'
  <2>1. Running(o) /\ Others(o) /\ hup' = hup /\ Crossed(history') = Crossed(history)
        BY <1>2, OpStepFacts
  <2>2. \A p \in Ops : Running(p)' => Running(p)
        BY <2>1 DEF Others, Running
  <2>3. QED
        BY <1>0, <2>1, <2>2 DEF Overlaps, Alone, Crossed
<1>3. ASSUME HupLoad PROVE Overlaps'
  <2>1. op' = op /\ hup.at = "idle"
        BY <1>3 DEF HupLoad
  <2>2. CASE hup' = hup /\ history' = history
        BY <1>0, <2>1, <2>2 DEF Overlaps, Alone, Running
  <2>3. ASSUME hup'.at = "list",
               history'.crossed <=> history.crossed \/ \E o \in Ops : Running(o),
               history'.hupCrossed <=> history.hupCrossed \/ \E o \in Ops : Running(o),
               history'.thisHup <=> \E o \in Ops : Running(o)
        PROVE  Overlaps'
    <3>1. \A o \in Ops : Running(o)' <=> Running(o)
          BY <2>1 DEF Running
    <3>2. QED
          BY <1>0, <2>3, <3>1 DEF Overlaps, Alone
  <2>4. QED
        BY <1>0, <1>3, <2>2, <2>3, HistoryReloads
<1>4. ASSUME HupStep PROVE Overlaps'
      BY <1>0, <1>4, HupStepFacts DEF Overlaps, Alone, Running, Crossed
<1>5. ASSUME HupConfig PROVE Overlaps'
  <2>1. /\ history'.crossed <=> history.crossed /\ history.thisHup
        /\ op' = op /\ hup'.at = "idle" /\ hup.at # "idle"
        BY <1>0, <1>5, HistoryReloads DEF HupConfig, NoHup
  <2>2. \A o \in Ops : Running(o)' <=> Running(o)
        BY <2>1 DEF Running
  <2>3. QED
        BY <1>0, <2>1, <2>2 DEF Overlaps, Alone
<1>6. ASSUME NEW conf \in Edits, Edit(conf) PROVE Overlaps'
      BY <1>0, <1>6, HistoryReloads DEF Edit, Reload, Overlaps, Alone, Running, Crossed
<1>7. ASSUME NEW c \in Checks, CheckStep(c) PROVE Overlaps'
      BY <1>0, <1>7, CheckStepFacts DEF Access, Reload, Overlaps, Alone, Running, Crossed
<1>8. CASE UNCHANGED vars
      BY <1>0, <1>8 DEF vars, Overlaps, Alone, Running
<1>9. QED
      BY <1>1, <1>2, <1>3, <1>4, <1>5, <1>6, <1>7, <1>8, StepsOfNext

LEMMA LocksStep == Inv /\ [Next]_vars => Locks'
<1> SUFFICES ASSUME Inv, [Next]_vars PROVE Locks'
    OBVIOUS
<1>0. TypeOK /\ Locks /\ Free \notin Ops
      BY AccessAssumption DEF Inv
<1> USE DEF Locks, Saving, Others, Moves, Ends, Done
<1>1. ASSUME NEW o \in Ops, NEW ask \in Asks, Ask(o, ask) PROVE Locks'
  <2>1. op[o].at = "new" /\ writer' = writer
        BY <1>1 DEF Ask
  <2>2. Others(o) /\ op'[o].at \in {"done", "change", "load"}
        BY <1>0, <1>1, OpSteps
  <2>3. QED
        BY <1>0, <2>1, <2>2
<1>2. ASSUME NEW o \in Ops, OpStep(o) PROVE Locks'
  <2>1. CASE Load(o) \/ Store(o) \/ NotFound(o) \/ Write(o) \/ Rename(o) \/ SaveFails(o) \/ Dropped(o)
    <3>1. /\ Others(o) /\ writer' = writer
          /\ op[o].at \notin {"clear", "insert"} /\ op'[o].at \notin {"clear", "insert"}
          /\ Saving(o)' => Saving(o)
      <4>1. CASE Load(o) \/ Store(o) \/ Write(o)
            BY <1>0, <4>1, OpSteps DEF Load, Store, Write
      <4>2. CASE NotFound(o) \/ Rename(o) \/ SaveFails(o)
            BY <1>0, <4>2, OpSteps DEF NotFound, Rename, SaveFails
      <4>3. CASE Dropped(o)
        <5>1. Ends(o) /\ writer' = writer /\ op[o].at \in {"change", "save"}
              BY <1>0, <4>3, OpSteps DEF Dropped
        <5>2. QED
              BY <5>1
      <4>4. QED
            BY <2>1, <4>1, <4>2, <4>3
    <3>2. QED
          BY <1>0, <3>1
  <2>2. CASE Change(o)
    <3>1. /\ Moves(o, "change", "clear") /\ writer' = o /\ writer = Free
          /\ \A p \in Ops : ~Saving(p)
          BY <1>0, <2>2, OpSteps DEF Change, Unlocked
    <3>2. QED
          BY <1>0, <3>1
  <2>3. CASE Clear(o)
        BY <1>0, <2>3, OpSteps DEF Clear
  <2>4. CASE Insert(o)
        BY <1>0, <2>4, OpSteps DEF Insert
  <2>5. CASE Open(o)
    <3>1. Moves(o, "save", "write") /\ writer' = Free /\ writer = Free
          BY <1>0, <2>5, OpSteps DEF Open
    <3>2. QED
          BY <1>0, <3>1
  <2>6. QED
        BY <1>2, <2>1, <2>2, <2>3, <2>4, <2>5 DEF OpStep
<1>3. ASSUME UNCHANGED <<op, writer>> PROVE Locks'
      BY <1>0, <1>3
<1>4. QED
      BY <1>1, <1>2, <1>3, HupStepFacts, CheckStepFacts, StepsOfNext
      DEF Edit, HupLoad, HupConfig, Access, vars

LEMMA RequestedStep == Inv /\ [Next]_vars => Requested'
<1> SUFFICES ASSUME Inv, [Next]_vars PROVE Requested'
    OBVIOUS
<1>0. TypeOK /\ Requested /\ NoAsk \notin Asks
  <2>1. \A ask \in Asks : ask.kind # "none"
        BY AccessAssumption
  <2>2. QED
        BY <2>1 DEF Inv, NoAsk
<1>1. ASSUME NEW o \in Ops, NEW ask \in Asks, Ask(o, ask) PROVE Requested'
  <2>1. Others(o) /\ history'.made = history.made /\ op[o].at = "new"
        BY <1>0, <1>1, OpSteps, HistorySteps DEF Ask, Ends
  <2>2. CASE op'[o] = Done
        BY <1>0, <2>1, <2>2 DEF Requested, Others, Done, Running, NoAsk
  <2>3. CASE op'[o].ask = ask /\ op'[o].at = IF ask.kind = "update" THEN "change" ELSE "load"
    <3>1. ask.kind = "create" =>
            ask.who \notin history.made /\ \A p \in Ops : op[p].ask.who # ask.who
          BY <1>1 DEF Ask, Fresh
    <3>2. QED
          BY <1>0, <2>1, <2>3, <3>1 DEF Requested, Others, Running
  <2>4. QED
        BY <1>0, <1>1, <2>2, <2>3, OpSteps DEF Ends
<1>2. ASSUME NEW o \in Ops, OpStep(o) PROVE Requested'
  <2>1. Others(o) /\ Running(o)
        BY <1>2, OpStepFacts
  <2>2. CASE op'[o] = Done /\ ~Dropped(o)
    <3>1. history'.made = history.made
      <4>1. ~Change(o) /\ ~Clear(o) /\ ~Insert(o)
            BY <1>0, <2>2, OpSteps DEF Moves, Done
      <4>2. QED
            BY <1>0, <1>2, <2>2, <4>1, HistorySteps
            DEF OpStep, Load, Store, NotFound, Write
    <3>2. QED
          BY <1>0, <2>1, <2>2, <3>1 DEF Requested, Others, Done, Running, NoAsk
  <2>3. CASE /\ op'[o].ask = op[o].ask /\ op'[o].at \in OpPlaces \ {"new", "done"}
             /\ ~Change(o) /\ ~Dropped(o)
    <3>1. history'.made = history.made
      <4>1. CASE Clear(o) \/ Insert(o)
            BY <1>0, <4>1, HistoryReloads DEF Clear, Insert
      <4>2. QED
            BY <1>0, <1>2, <2>3, <4>1, HistorySteps DEF OpStep, Load, Store, NotFound, Write
    <3>2. /\ op'[o].at \in {"load", "store"} => op[o].at = "load"
          /\ op'[o].at \in {"load", "store", "change"} => op[o].at \in {"load", "store"}
          BY <1>0, <1>2, <2>3, OpSteps DEF OpStep, Moves, Ends, Done
    <3>3. QED
          BY <1>0, <2>1, <2>3, <3>1, <3>2 DEF Requested, Others, Running
  <2>4. CASE Change(o)
    <3>1. Moves(o, "change", "clear") /\ history'.made = Made(op[o].ask)
          BY <1>0, <2>4, OpSteps, HistorySteps
    <3>2. \A p \in Ops \ {o} : op[p].ask.kind = "create" /\ op[o].ask.kind = "create" =>
            op[p].ask.who # op[o].ask.who
          BY <1>0 DEF Requested
    <3>3. QED
          BY <1>0, <3>1, <3>2 DEF Requested, Moves, Others, Running, Made
  <2>5. CASE Dropped(o)
    <3>1. op'[o] = Done /\ history'.made = Made(op[o].ask)
          BY <1>0, <2>5, OpSteps, HistorySteps DEF Ends
    <3>2. \A p \in Ops \ {o} : op[p].ask.kind = "create" /\ op[o].ask.kind = "create" =>
            op[p].ask.who # op[o].ask.who
          BY <1>0 DEF Requested
    <3>3. QED
          BY <1>0, <2>1, <3>1, <3>2 DEF Requested, Others, Running, Made, Done, NoAsk
  <2>6. QED
        BY <1>2, <2>2, <2>3, <2>4, <2>5, OpStepFacts
<1>3. ASSUME op' = op, history'.made = history.made PROVE Requested'
      BY <1>0, <1>3 DEF Requested, Running
<1>4. CASE HupLoad \/ HupConfig \/ \E conf \in Edits : Edit(conf)
  <2>1. op' = op
        BY <1>4 DEF HupLoad, HupConfig, Edit
  <2>2. history'.made = history.made
        BY <1>0, <1>4, HistoryReloads
  <2>3. QED
        BY <1>3, <2>1, <2>2
<1>5. CASE HupStep \/ \E c \in Checks : CheckStep(c)
      BY <1>3, <1>5, HupStepFacts, CheckStepFacts DEF Access
<1>6. CASE UNCHANGED vars
      BY <1>3, <1>6 DEF vars
<1>7. QED
      BY <1>1, <1>2, <1>4, <1>5, <1>6, StepsOfNext

LEMMA UnnamedStep == Inv /\ [Next]_vars => Unnamed'
<1> SUFFICES ASSUME Inv, [Next]_vars PROVE Unnamed'
    OBVIOUS
<1>0. TypeOK /\ Unnamed /\ ToMake \subseteq Keys /\ ToMake \subseteq Subjects
      BY DEF Inv, ToMake, Subjects
<1>d. /\ disk \in DiskType /\ disk.path \in Files
      /\ disk.content \in [Files -> SUBSET Configs]
      BY <1>0 DEF TypeOK, DiskType
<1> DEFINE Absent(conf) == \A s \in ToMake \ history.made : conf[s] = <<>>
<1>u. /\ Absent(config) /\ Absent(hup.new)
      /\ \A f \in Files : \A conf \in disk.content[f] : Absent(conf)
      BY <1>0 DEF Unnamed
<1>s. ASSUME history'.made = history.made, Absent(config'), Absent(hup'.new),
             \A f \in Files : \A conf \in disk'.content[f] : Absent(conf)
      PROVE  Unnamed'
      BY <1>s DEF Unnamed, ToMake
<1>1. ASSUME NEW o \in Ops, NEW ask \in Asks, Ask(o, ask) PROVE Unnamed'
  <2>1. config' = config /\ hup' = hup /\ disk' = disk /\ history'.made = history.made
        BY <1>0, <1>1, HistorySteps DEF Ask, Reload
  <2>2. QED
        BY <1>u, <1>s, <2>1
<1>2. ASSUME NEW o \in Ops, Change(o) PROVE Unnamed'
  <2> DEFINE ask == op[o].ask
  <2>1. /\ config' = Changed(ask) /\ hup' = hup /\ disk' = disk /\ history'.made = Made(ask)
        BY <1>0, <1>2, HistorySteps DEF Change, Reload
  <2>2. ask \in Asks /\ (ask.kind = "create" => config[ask.who] = <<>>)
        BY <1>2, NewKey DEF Change, OpTo
  <2>3. \A s \in Subjects \ {ask.who} : Changed(ask)[s] = config[s]
        BY <1>0, <2>2, ChangeIsSound
  <2>4. history.made \subseteq history'.made
        BY <2>1 DEF Made
  <2>5. ASSUME NEW s \in ToMake \ history'.made PROVE config'[s] = <<>>
    <3>1. config[s] = <<>>
          BY <1>u, <2>4
    <3>2. CASE s # ask.who
          BY <1>0, <2>1, <2>3, <3>1, <3>2
    <3>3. CASE s = ask.who
      <4>1. ask.kind = "revoke"
            BY <1>0, <2>1, <2>2, <3>3, AccessAssumption DEF Made
      <4>2. Changed(ask) = config
            BY <3>1, <3>3, <4>1 DEF Changed
      <4>3. QED
            BY <2>1, <3>1, <4>2
    <3>4. QED
          BY <3>2, <3>3
  <2>6. QED
        BY <1>u, <2>1, <2>4, <2>5 DEF Unnamed, ToMake
<1>11. ASSUME NEW o \in Ops, Dropped(o) PROVE Unnamed'
  <2>1. /\ config' = config /\ hup' = hup /\ disk' = disk /\ history.made \subseteq history'.made
    <3>1. config' = config /\ hup' = hup /\ disk' = disk
          BY <1>11 DEF Dropped, Reload
    <3>2. history'.made = Made(op[o].ask)
          BY <1>0, <1>11, HistorySteps
    <3>3. QED
          BY <3>1, <3>2 DEF Made
  <2>2. QED
        BY <1>u, <2>1 DEF Unnamed, ToMake
<1>3. ASSUME NEW o \in Ops, OpStep(o), ~Change(o), ~Dropped(o) PROVE Unnamed'
  <2>1. config' = config /\ hup' = hup
        BY <1>3 DEF OpStep, Load, Store, NotFound, Clear, Insert, Open, Write, Rename, SaveFails, Reload
  <2>2. history'.made = history.made
    <3>1. CASE Clear(o) \/ Insert(o)
          BY <1>0, <3>1, HistoryReloads DEF Clear, Insert
    <3>2. QED
          BY <1>0, <1>3, <3>1, HistorySteps DEF OpStep, Load, Store, NotFound, Write
  <2>3. \A f \in Files : \A conf \in disk'.content[f] : conf = config \/ conf \in disk.content[f]
    <3>1. CASE Open(o)
          BY <1>0, <3>1, DiskSteps DEF Content, Torn
    <3>2. CASE Write(o)
          BY <1>0, <3>2, DiskSteps DEF Content
    <3>3. CASE Rename(o)
          BY <1>0, <3>3, DiskSteps DEF Content, Torn
    <3>4. QED
          BY <1>0, <1>3, <3>1, <3>2, <3>3, DiskSteps DEF OpStep
  <2>4. QED
        BY <1>u, <1>s, <2>1, <2>2, <2>3
<1>4. ASSUME NEW conf \in Edits, Edit(conf) PROVE Unnamed'
  <2>1. config' = config /\ hup' = hup /\ history'.made = history.made
        BY <1>0, <1>4, HistoryReloads DEF Edit, Reload
  <2>2. \A f \in Files : \A new \in disk'.content[f] : new = conf \/ new \in disk.content[f]
        BY <1>d, <1>4 DEF Edit, DiskType
  <2>3. Absent(conf)
        BY <1>4 DEF Edit, ToMake
  <2>4. QED
        BY <1>u, <1>s, <2>1, <2>2, <2>3
<1>5. CASE HupLoad
  <2>1. config' = config /\ disk' = disk
        BY <1>5 DEF HupLoad
  <2>2. history'.made = history.made /\ (hup'.new = hup.new \/ hup'.new \in disk.content[disk.path])
        BY <1>0, <1>5, HistoryReloads DEF FileConfig
  <2>3. QED
        BY <1>d, <1>u, <1>s, <2>1, <2>2
<1>6. CASE HupStep
      BY <1>6, <1>u, <1>s, HupStepFacts
<1>7. CASE HupConfig
  <2>1. disk' = disk /\ config' = hup.new /\ hup'.new = Empty
        BY <1>7 DEF HupConfig, NoHup
  <2>2. history'.made = history.made
        BY <1>0, <1>7, HistoryReloads
  <2>3. Absent(Empty)
        BY <1>0 DEF Empty
  <2>4. QED
        BY <1>u, <1>s, <2>1, <2>2, <2>3
<1>8. CASE \E c \in Checks : CheckStep(c)
  <2>1. config' = config /\ hup' = hup /\ disk' = disk /\ history'.made = history.made
        BY <1>8, CheckStepFacts DEF Access, Reload
  <2>2. QED
        BY <1>u, <1>s, <2>1
<1>9. CASE UNCHANGED vars
  <2>1. config' = config /\ hup' = hup /\ disk' = disk /\ history'.made = history.made
        BY <1>9 DEF vars
  <2>2. QED
        BY <1>u, <1>s, <2>1
<1>10. QED
      BY <1>1, <1>2, <1>3, <1>4, <1>5, <1>6, <1>7, <1>8, <1>9, <1>11, StepsOfNext

-----------------------------------------------------------------------------
(* The rate limiter.                                                        *)

\* A reload that some dashboard request runs along with is counted.
LEMMA Meets ==
  ASSUME Inv, NEW o \in Ops, Running(o)
  PROVE  ~Alone /\ (hup.at # "idle" => history.hupCrossed /\ history.crossed)
BY DEF Inv, Overlaps, Alone

\* After a step that replaces the limits no request has read the new ones.
LEMMA OvertakenReads ==
  ASSUME TypeOK, check' = Overtaken, NEW c \in Checks
  PROVE  /\ check'[c].at = check[c].at /\ check'[c].who = check[c].who
         /\ check'[c].limit = check[c].limit /\ ~Current(c)'
<1>1. check[c] \in CheckType
      BY DEF TypeOK, CheckType
<1> DEFINE x == check[c].stale \/ check[c].at = "creating"
<1>2. check'[c] = [check[c] EXCEPT !.stale = x]
      BY DEF Overtaken
<1> HIDE DEF x
<1>3. /\ check'[c].at = check[c].at /\ check'[c].who = check[c].who
      /\ check'[c].limit = check[c].limit /\ check'[c].stale = x
      BY <1>1, <1>2 DEF CheckType
<1>4. QED
      BY <1>3 DEF Current, x

LEMMA FollowedStep == Inv /\ [Next]_vars => Followed'
<1> SUFFICES ASSUME Inv, [Next]_vars PROVE Followed'
    OBVIOUS
<1>0. TypeOK /\ Followed /\ Overlaps
      BY DEF Inv
<1>1. ASSUME NEW o \in Ops, NEW ask \in Asks, Ask(o, ask) PROVE Followed'
  <2>1. config' = config /\ limits' = limits /\ hup' = hup
        BY <1>1 DEF Ask, Limiter, Reload
  <2>2. (Alone' => Alone) /\ (history.hupCrossed => history'.hupCrossed)
        BY <1>0, <1>1, <2>1, HistorySteps DEF Alone
  <2>3. QED
        BY <1>0, <2>1, <2>2 DEF Followed
<1>2. ASSUME NEW o \in Ops, OpStep(o) PROVE Followed'
  <2>1. Running(o) /\ hup' = hup /\ Crossed(history') = Crossed(history)
        BY <1>2, OpStepFacts
  <2>2. ~Alone' /\ history'.hupCrossed = history.hupCrossed
        BY <2>1, Meets DEF Alone, Crossed
  <2>3. limits' = config' \/ UNCHANGED <<limits, config>>
        BY <1>2 DEF OpStep, Load, Store, NotFound, Change, Clear, Insert, Open, Write, Rename,
                    SaveFails, Dropped, Limiter, StoreLimits
  <2>4. QED
        BY <1>0, <2>1, <2>2, <2>3 DEF Followed
<1>3. CASE HupLoad
  <2>1. config' = config /\ limits' = limits /\ hup.at = "idle"
        BY <1>3 DEF HupLoad, Limiter
  <2>2. /\ hup'.at \in {"idle", "list"}
        /\ history.hupCrossed => history'.hupCrossed
        BY <1>0, <1>3, <2>1, HistoryReloads
  <2>3. QED
        BY <1>0, <2>1, <2>2 DEF Followed
<1>4. CASE HupStep
  <2>1. /\ Alone' <=> Alone
        /\ history'.hupCrossed = history.hupCrossed
        /\ hup'.new = hup.new /\ config' = config
        BY <1>4, HupStepFacts DEF Alone, Crossed
  <2>2. CASE HupLimits
    <3>1. limits' = hup.new /\ hup'.at = "clear"
          BY <1>0, <2>2 DEF HupLimits, HupTo, StoreLimits, TypeOK
    <3>2. QED
          BY <2>1, <3>1 DEF Followed
  <2>3. CASE HupList
    <3>1. limits' = limits /\ hup'.at = "limits" /\ hup.at = "list"
          BY <1>0, <2>3 DEF HupList, HupTo, TypeOK, Limiter
    <3>2. QED
          BY <1>0, <2>1, <3>1 DEF Followed
  <2>4. CASE HupClear \/ HupInsert \/ HupKeys
    <3>1. /\ limits' = limits /\ hup.at \in {"clear", "insert", "keys"}
          /\ hup'.at \in {"insert", "keys", "config"}
          BY <1>0, <2>4 DEF HupClear, HupInsert, HupKeys, HupTo, TypeOK, Limiter
    <3>2. QED
          BY <1>0, <2>1, <3>1 DEF Followed
  <2>5. QED
        BY <1>4, <2>2, <2>3, <2>4 DEF HupStep
<1>5. CASE HupConfig
  <2>1. config' = hup.new /\ limits' = limits /\ hup.at = "config" /\ hup'.at = "idle"
        BY <1>5 DEF HupConfig, NoHup, Limiter
  <2>2. ~history'.hupCrossed => Alone
        BY <1>0, <1>5, <2>1, HistoryReloads DEF Overlaps, Alone
  <2>3. QED
        BY <1>0, <2>1, <2>2 DEF Followed, Alone
<1>6. ASSUME UNCHANGED <<config, limits, hup>>, Crossed(history') = Crossed(history) PROVE Followed'
      BY <1>0, <1>6 DEF Followed, Alone, Crossed
<1>7. ASSUME NEW conf \in Edits, Edit(conf) PROVE Followed'
      BY <1>0, <1>6, <1>7, HistoryReloads DEF Edit, Limiter, Reload
<1>8. ASSUME NEW c \in Checks, CheckStep(c) PROVE Followed'
      BY <1>6, <1>8, CheckStepFacts DEF Access, Reload
<1>9. CASE UNCHANGED vars
      BY <1>6, <1>9 DEF vars
<1>10. QED
      BY <1>1, <1>2, <1>3, <1>4, <1>5, <1>7, <1>8, <1>9, StepsOfNext

\* A step of an RPC request and its record.
LEMMA CheckSteps ==
  ASSUME TypeOK, NEW c \in Checks, CheckStep(c)
  PROVE  /\ \A d \in Checks \ {c} : check'[d] = check[d]
         /\ limits' = limits
         /\ \/ check'[c] = Idle
            \/ check'[c].at = "authorized" /\ check'[c].who \in Subjects /\ ~Current(c)'
            \/ /\ Create(c) /\ check'[c].at = "creating" /\ check'[c].who = check[c].who
               /\ check'[c].limit = LookUp(limits, check[c].who)
<1>0. check \in [Checks -> CheckType]
      BY DEF TypeOK, CheckType
<1>1. limits' = limits
      BY DEF CheckStep, Authorize, Checked, Create, Created, Access
<1>2. ASSUME NEW s \in Subjects, Authorize(c, s)
      PROVE  /\ \A d \in Checks \ {c} : check'[d] = check[d]
             /\ check'[c].at = "authorized" /\ check'[c].who \in Subjects /\ ~Current(c)'
      BY <1>0, <1>2 DEF Authorize, CheckTo, Idle, Current
<1>3. ASSUME Checked(c) \/ Created(c)
      PROVE  /\ \A d \in Checks \ {c} : check'[d] = check[d]
             /\ check'[c] = Idle
      BY <1>0, <1>3 DEF Checked, Created, CheckTo
<1>4. ASSUME Create(c)
      PROVE  /\ \A d \in Checks \ {c} : check'[d] = check[d]
             /\ check'[c].at = "creating" /\ check'[c].who = check[c].who
             /\ check'[c].limit = LookUp(limits, check[c].who)
  <2> DEFINE n == LookUp(limits, check[c].who)
  <2>1. check' = [check EXCEPT ![c] = [check[c] EXCEPT !.at = "creating", !.limit = n]]
        BY <1>4 DEF Create, CheckTo
  <2> HIDE DEF n
  <2>2. /\ \A d \in Checks \ {c} : check'[d] = check[d]
        /\ check'[c].at = "creating" /\ check'[c].who = check[c].who
        /\ check'[c].limit = n
        BY <1>0, <2>1 DEF CheckType
  <2>3. QED
        BY <2>2 DEF n
<1>5. QED
      BY <1>1, <1>2, <1>3, <1>4 DEF CheckStep

LEMMA ReadsStep == Inv /\ [Next]_vars => Reads'
<1> SUFFICES ASSUME Inv, [Next]_vars PROVE Reads'
    OBVIOUS
<1>0. TypeOK /\ Reads
      BY DEF Inv
<1>1. ASSUME UNCHANGED <<limits, check>> PROVE Reads'
      BY <1>0, <1>1 DEF Reads, Current, LookUp
<1>2. ASSUME check' = Overtaken PROVE Reads'
      BY <1>0, <1>2, OvertakenReads DEF Reads
<1>3. ASSUME NEW o \in Ops, OpStep(o) \/ \E ask \in Asks : Ask(o, ask) PROVE Reads'
      BY <1>1, <1>2, <1>3
      DEF OpStep, Ask, Load, Store, NotFound, Change, Clear, Insert, Open, Write, Rename, SaveFails,
          Dropped, Limiter, StoreLimits, InsertLimiters
<1>4. CASE HupLoad \/ HupStep \/ HupConfig \/ \E conf \in Edits : Edit(conf)
      BY <1>1, <1>2, <1>4
      DEF HupLoad, HupStep, HupList, HupLimits, HupClear, HupInsert, HupKeys, HupConfig, Edit,
          Limiter, StoreLimits, InsertLimiters
<1>5. ASSUME NEW c \in Checks, CheckStep(c) PROVE Reads'
  <2>1. Create(c) => check[c].who \in Subjects /\ LookUp(limits, check[c].who) # None
    <3>1. SUFFICES ASSUME Create(c) PROVE check[c].who \in Subjects /\ LookUp(limits, check[c].who) # None
          OBVIOUS
    <3>2. check[c].who \in Subjects
          BY <1>0, <3>1 DEF Create, Reads
    <3>3. limits \in Configs
          BY <1>0 DEF TypeOK
    <3>4. QED
          BY <3>2, <3>3, Limits
  <2>2. /\ \A d \in Checks \ {c} : check'[d] = check[d]
        /\ limits' = limits
        /\ \/ check'[c] = Idle
           \/ check'[c].at = "authorized" /\ check'[c].who \in Subjects /\ ~Current(c)'
           \/ /\ Create(c) /\ check'[c].at = "creating" /\ check'[c].who = check[c].who
              /\ check'[c].limit = LookUp(limits, check[c].who)
        BY <1>0, <1>5, CheckSteps
  <2>3. ASSUME NEW d \in Checks \ {c}
        PROVE  /\ check'[d].at # "idle" => check'[d].who \in Subjects
               /\ check'[d].at = "creating" => check'[d].limit # None
               /\ Current(d)' => check'[d].limit = LookUp(limits', check'[d].who)
        BY <1>0, <2>2 DEF Reads, Current
  <2>4. /\ check'[c].at # "idle" => check'[c].who \in Subjects
        /\ check'[c].at = "creating" => check'[c].limit # None
        /\ Current(c)' => check'[c].limit = LookUp(limits', check'[c].who)
        BY <2>1, <2>2 DEF Idle, Current
  <2>5. QED
        BY <2>3, <2>4 DEF Reads, LookUp
<1>6. CASE UNCHANGED vars
      BY <1>1, <1>6 DEF vars
<1>7. QED
      BY <1>3, <1>4, <1>5, <1>6, StepsOfNext

\* What the two parts of Limiters say of a table and of the reads.
AfterClear == \A s \in Subjects \ history.raced : table[s] \in {None, LookUp(limits, s)}
AfterInsert ==
    /\ \A s \in Subjects \ history.raced : table[s] \in {None, InForce(limits, s)}
    /\ \A s \in Live(limits) : table[s] # None
    /\ \A c \in Checks : Current(c) => check[c].who \notin Live(limits)

\* Inserting the limiters of the configuration in force into what a clear left.
LEMMA InsertsFill ==
  ASSUME TypeOK, AfterClear, InsertLimiters(limits), limits' = limits
  PROVE  AfterInsert'
<1>1. limits \in Configs /\ Live(limits) \subseteq Subjects
      BY DEF TypeOK, Live
<1>2. /\ history'.raced = history.raced \ Live(limits)
      /\ \A s \in Subjects : table'[s] = IF s \in Live(limits) THEN InForce(limits, s) ELSE table[s]
      BY HistoryReloads DEF InsertLimiters
<1>3. /\ \A s \in Subjects : InForce(limits, s)' = InForce(limits, s) /\ Live(limits)' = Live(limits)
      BY DEF InForce, Live
<1>4. \A s \in Subjects \ history'.raced : table'[s] \in {None, InForce(limits, s)}
      BY <1>1, <1>2, Limits DEF AfterClear
<1>5. \A s \in Live(limits) : table'[s] # None
      BY <1>1, <1>2, Limits
<1>6. \A c \in Checks : ~Current(c)'
      BY OvertakenReads DEF InsertLimiters
<1>7. QED
      BY <1>3, <1>4, <1>5, <1>6 DEF AfterInsert

LEMMA LimitersStep == Inv /\ [Next]_vars => Limiters'
<1> SUFFICES ASSUME Inv, [Next]_vars PROVE Limiters'
    OBVIOUS
<1>0. TypeOK /\ Limiters /\ Overlaps /\ Followed /\ Locks /\ Reads
      BY DEF Inv
<1>l. Limiters <=> /\ Gap /\ (~history.hupCrossed \/ Alone) => AfterClear
                   /\ Quiet /\ (~history.hupCrossed \/ (Alone /\ hup.at \in {"keys", "config"})) => AfterInsert
      BY DEF Limiters, AfterClear, AfterInsert
<1>p. Limiters' <=> (/\ Gap /\ (~history.hupCrossed \/ Alone) => AfterClear
                     /\ Quiet /\ (~history.hupCrossed \/ (Alone /\ hup.at \in {"keys", "config"})) => AfterInsert)'
      BY DEF Limiters, AfterClear, AfterInsert
\* Steps that touch neither the limiter nor who is in a reload.
<1>u. ASSUME UNCHANGED <<limits, table, check>>, history'.raced = history.raced
      PROVE  (AfterClear => AfterClear') /\ (AfterInsert => AfterInsert')
      BY <1>u DEF AfterClear, AfterInsert, LookUp, InForce, Live, Current
<1>1. ASSUME NEW o \in Ops, NEW ask \in Asks, Ask(o, ask) PROVE Limiters'
  <2>1. UNCHANGED <<limits, table, check>> /\ hup' = hup /\ op[o].at = "new"
        BY <1>1 DEF Ask, Limiter, Reload
  <2>2. /\ history'.raced = history.raced /\ (history.hupCrossed => history'.hupCrossed)
        /\ history.thisHup => history'.thisHup
        BY <1>0, <1>1, HistorySteps
  <2>3. Others(o) /\ op'[o].at \in {"done", "change", "load"}
        BY <1>0, <1>1, OpSteps DEF Ends, Done
  <2>4. (Gap' => Gap) /\ (Quiet' => Quiet) /\ (Alone' => Alone)
        BY <2>1, <2>2, <2>3 DEF Gap, Quiet, Others, Alone
  <2>5. QED
        BY <1>0, <1>l, <1>p, <1>u, <2>1, <2>2, <2>4
<1>2. ASSUME NEW o \in Ops, OpStep(o) PROVE Limiters'
  <2>1. Running(o) /\ Others(o) /\ hup' = hup /\ Crossed(history') = Crossed(history)
        BY <1>2, OpStepFacts
  <2>2. /\ ~Alone' /\ history'.hupCrossed = history.hupCrossed
        /\ ~history.hupCrossed => hup.at = "idle" /\ hup'.at = "idle"
        BY <2>1, Meets DEF Alone, Crossed
  <2>3. CASE Change(o)
    <3>1. op'[o].at = "clear" /\ writer = Free
          BY <1>0, <2>3, OpSteps DEF Change, Unlocked, Moves
    <3>2. ~Quiet'
          BY <3>1 DEF Quiet
    <3>3. \A p \in Ops : op[p].at # "insert"
          BY <1>0, <3>1, AccessAssumption DEF Locks
    <3>4. \A p \in Ops : op'[p].at # "insert"
          BY <2>1, <3>1, <3>3 DEF Others
    <3>5. QED
          BY <1>p, <2>2, <3>2, <3>4 DEF Gap
  <2>4. CASE Clear(o)
    <3>1. op'[o].at = "insert" /\ table' = [s \in Subjects |-> None]
          BY <1>0, <2>4, OpSteps DEF Clear, ClearLimiters, Moves
    <3>2. ~Quiet' /\ AfterClear'
          BY <3>1 DEF Quiet, AfterClear
    <3>3. QED
          BY <1>p, <3>2
  <2>5. CASE Insert(o)
    <3>1. op'[o].at = "save" /\ op[o].at = "insert" /\ InsertLimiters(config) /\ limits' = limits
          BY <1>0, <2>5, OpSteps DEF Insert, Moves
    <3>2. \A p \in Ops : op'[p].at # "insert"
          BY <1>0, <2>1, <3>1 DEF Locks, Others
    <3>3. ASSUME ~history.hupCrossed PROVE AfterInsert'
      <4>1. limits = config
            BY <1>0, <2>2, <3>3 DEF Followed
      <4>2. AfterClear
            BY <1>0, <1>l, <3>1, <3>3 DEF Gap
      <4>3. QED
            BY <1>0, <3>1, <4>1, <4>2, InsertsFill
    <3>4. QED
          BY <1>p, <2>2, <3>2, <3>3 DEF Gap
  <2>6. CASE ~(Change(o) \/ Clear(o) \/ Insert(o))
    <3>1. UNCHANGED <<limits, table, check>>
          BY <1>2, <2>6 DEF OpStep, Load, Store, NotFound, Open, Write, Rename, SaveFails, Dropped,
                          Limiter
    <3>2. history'.raced = history.raced
          BY <1>0, <1>2, <2>6, HistorySteps DEF OpStep, Load, Store, NotFound, Write
    <3>3. op[o].at \notin {"clear", "insert"} /\ op'[o].at \notin {"clear", "insert"}
      <4>1. CASE NotFound(o) \/ Rename(o) \/ SaveFails(o)
            BY <1>0, <4>1, OpSteps DEF NotFound, Rename, SaveFails, Saving, Ends, Done
      <4>2. CASE Dropped(o)
        <5>1. Ends(o) /\ op[o].at \in {"change", "save"}
              BY <1>0, <4>2, OpSteps DEF Dropped
        <5>2. QED
              BY <5>1 DEF Ends, Done
      <4>3. QED
            BY <1>0, <1>2, <2>6, <4>1, <4>2, OpSteps DEF OpStep, Moves
    <3>4. (Gap' <=> Gap) /\ (Quiet' <=> Quiet)
          BY <2>1, <3>3 DEF Gap, Quiet, Others
    <3>5. QED
          BY <1>0, <1>l, <1>p, <1>u, <2>2, <3>1, <3>2, <3>4
  <2>7. QED
        BY <2>3, <2>4, <2>5, <2>6
<1>3. CASE HupLoad
  <2>1. UNCHANGED <<limits, table, check, op>> /\ hup.at = "idle"
        BY <1>3 DEF HupLoad, Limiter
  <2>2. CASE hup' = hup /\ history' = history
    <3>1. (Gap' <=> Gap) /\ (Quiet' <=> Quiet) /\ ~Alone'
          BY <2>1, <2>2 DEF Gap, Quiet, Alone
    <3>2. QED
          BY <1>0, <1>l, <1>p, <1>u, <2>1, <2>2, <3>1
  <2>3. ASSUME hup'.at = "list",
               history'.hupCrossed <=> history.hupCrossed \/ \E o \in Ops : Running(o),
               history'.thisHup <=> \E o \in Ops : Running(o),
               history'.raced = history.raced
        PROVE  Limiters'
    <3>1. (Gap' <=> Gap) /\ (Quiet' <=> Quiet)
          BY <2>1, <2>3 DEF Gap, Quiet
    <3>2. Gap => \E o \in Ops : Running(o)
          BY <2>1 DEF Gap, Running
    <3>3. QED
          BY <1>0, <1>l, <1>p, <1>u, <2>1, <2>3, <3>1, <3>2 DEF Alone
  <2>4. QED
        BY <1>0, <1>3, <2>2, <2>3, HistoryReloads
<1>4. CASE HupStep
  <2>1. /\ Alone' <=> Alone
        /\ history'.hupCrossed = history.hupCrossed
        /\ op' = op /\ hup.at # "idle" /\ hup'.new = hup.new
        BY <1>4, HupStepFacts DEF Alone, Crossed
  <2>2. ~history.hupCrossed => Alone
        BY <1>0, <2>1 DEF Overlaps, Alone
  <2>3. Alone => \A o \in Ops : op[o].at \notin {"clear", "insert"}
        BY <1>0 DEF Overlaps, Running
  <2>4. CASE HupList \/ HupKeys
    <3>1. /\ UNCHANGED <<limits, table, check, history>>
          /\ \/ hup.at = "list" /\ hup'.at = "limits"
             \/ hup.at = "keys" /\ hup'.at = "config"
          BY <1>0, <2>4 DEF HupList, HupKeys, HupTo, TypeOK, Limiter
    <3>2. (Gap' <=> Gap) /\ (Quiet' <=> Quiet)
          BY <2>1, <3>1 DEF Gap, Quiet
    <3>3. QED
          BY <1>0, <1>l, <1>p, <1>u, <2>1, <3>1, <3>2
  <2>5. CASE HupLimits
    <3>1. hup'.at = "clear"
          BY <1>0, <2>5 DEF HupLimits, HupTo, TypeOK
    <3>2. ~Quiet' /\ (Alone => ~Gap')
          BY <2>1, <2>3, <3>1 DEF Quiet, Gap
    <3>3. QED
          BY <1>p, <2>1, <2>2, <3>2
  <2>6. CASE HupClear
    <3>1. hup'.at = "insert" /\ table' = [s \in Subjects |-> None]
          BY <1>0, <2>6 DEF HupClear, HupTo, ClearLimiters, TypeOK
    <3>2. ~Quiet' /\ AfterClear'
          BY <3>1 DEF Quiet, AfterClear
    <3>3. QED
          BY <1>p, <3>2
  <2>7. CASE HupInsert
    <3>1. hup.at = "insert" /\ hup'.at = "keys" /\ InsertLimiters(hup.new) /\ limits' = limits
          BY <1>0, <2>7 DEF HupInsert, HupTo, TypeOK
    <3>2. Alone => ~Gap'
          BY <2>1, <2>3, <3>1 DEF Gap
    <3>3. ASSUME Alone PROVE AfterInsert'
      <4>1. limits = hup.new
            BY <1>0, <3>1, <3>3 DEF Followed
      <4>2. AfterClear
            BY <1>0, <1>l, <3>1, <3>3 DEF Gap
      <4>3. QED
            BY <1>0, <3>1, <4>1, <4>2, InsertsFill
    <3>4. QED
          BY <1>p, <2>1, <2>2, <3>2, <3>3
  <2>8. QED
        BY <1>4, <2>4, <2>5, <2>6, <2>7 DEF HupStep
<1>5. CASE HupConfig
  <2>1. UNCHANGED <<limits, table, check, op>> /\ hup.at = "config" /\ hup'.at = "idle" /\ writer = Free
        BY <1>5 DEF HupConfig, NoHup, Limiter, Unlocked
  <2>2. history'.raced = history.raced /\ (~history'.hupCrossed => Alone)
        BY <1>0, <1>5, <2>1, HistoryReloads DEF Overlaps, Alone
  <2>3. ~Gap' /\ Quiet /\ ~Alone'
        BY <1>0, <2>1, AccessAssumption DEF Gap, Quiet, Locks, Alone
  <2>4. QED
        BY <1>0, <1>l, <1>p, <1>u, <2>1, <2>2, <2>3
<1>6. ASSUME NEW conf \in Edits, Edit(conf) PROVE Limiters'
  <2>1. UNCHANGED <<limits, table, check, op, hup>>
        BY <1>6 DEF Edit, Limiter, Reload
  <2>2. history'.raced = history.raced /\ Crossed(history') = Crossed(history)
        BY <1>0, <1>6, HistoryReloads
  <2>3. (Gap' <=> Gap) /\ (Quiet' <=> Quiet) /\ (Alone' <=> Alone)
        BY <2>1, <2>2 DEF Gap, Quiet, Alone, Crossed
  <2>4. QED
        BY <1>0, <1>l, <1>p, <1>u, <2>1, <2>2, <2>3 DEF Crossed
<1>7. ASSUME NEW c \in Checks, CheckStep(c) PROVE Limiters'
  <2>1. UNCHANGED <<limits, op, hup>> /\ Crossed(history') = Crossed(history)
        BY <1>7, CheckStepFacts DEF Access, Reload
  <2>2. (Gap' <=> Gap) /\ (Quiet' <=> Quiet) /\ (Alone' <=> Alone)
        BY <2>1 DEF Gap, Quiet, Alone, Crossed
  <2>3. (AfterClear => AfterClear') /\ (AfterInsert => AfterInsert')
    <3>0. limits \in Configs /\ Live(limits) \subseteq Subjects /\ table \in [Subjects -> Nat]
          BY <1>0 DEF TypeOK, Live
    <3>i. /\ \A s \in Subjects : InForce(limits, s)' = InForce(limits, s) /\ LookUp(limits, s)' = LookUp(limits, s)
          /\ Live(limits)' = Live(limits)
          BY <2>1 DEF InForce, LookUp, Live
    <3>c. /\ \A d \in Checks \ {c} : check'[d] = check[d]
          /\ \/ check'[c] = Idle
             \/ check'[c].at = "authorized" /\ check'[c].who \in Subjects /\ ~Current(c)'
             \/ /\ Create(c) /\ check'[c].at = "creating" /\ check'[c].who = check[c].who
                /\ check'[c].limit = LookUp(limits, check[c].who)
          BY <1>0, <1>7, CheckSteps
    <3>r. \A d \in Checks \ {c} : Current(d)' <=> Current(d)
          BY <3>c DEF Current
    <3>1. CASE Created(c)
      <4> DEFINE s == check[c].who
                 n == check[c].limit
      <4>1. /\ s \in Subjects /\ n # None /\ (~check[c].stale => n = LookUp(limits, s))
            /\ ~check[c].stale => Current(c)
            BY <1>0, <3>1 DEF Created, Reads, Current
      <4>2. /\ history'.raced = history.raced \cup (IF check[c].stale THEN {s} ELSE {})
            /\ table' = [table EXCEPT ![s] = n]
            BY <1>0, <3>1, HistoryReloads DEF Created
      <4>3. check'[c] = Idle
            BY <1>0, <3>1 DEF Created, CheckTo, TypeOK
      <4> HIDE DEF s, n
      <4>4. AfterClear => AfterClear'
            BY <3>0, <3>i, <4>1, <4>2 DEF AfterClear
      <4>5. ASSUME AfterInsert PROVE AfterInsert'
        <5>1. ~check[c].stale => s \notin Live(limits)
              BY <4>1, <4>5 DEF AfterInsert, s
        <5>2. ~check[c].stale => n = InForce(limits, s)
              BY <3>0, <4>1, <5>1, Limits
        <5>3. \A t \in Subjects \ history'.raced : table'[t] \in {None, InForce(limits, t)}
              BY <3>0, <4>2, <4>5, <5>2 DEF AfterInsert
        <5>4. \A t \in Live(limits) : table'[t] # None
              BY <3>0, <4>1, <4>2, <4>5 DEF AfterInsert
        <5>5. \A d \in Checks : Current(d)' => check'[d].who \notin Live(limits)
          <6>1. ~Current(c)'
                BY <4>3 DEF Current, Idle
          <6>2. QED
                BY <3>c, <3>r, <4>5, <6>1 DEF AfterInsert
        <5>6. QED
              BY <3>i, <5>3, <5>4, <5>5 DEF AfterInsert
      <4>6. QED
            BY <4>4, <4>5
    <3>2. CASE ~Created(c)
      <4>1. UNCHANGED <<table, history>>
            BY <1>7, <3>2 DEF CheckStep, Authorize, Checked, Create
      <4>2. AfterClear => AfterClear'
            BY <3>i, <4>1 DEF AfterClear
      <4>3. ASSUME AfterInsert PROVE AfterInsert'
        <5>1. Current(c)' => check'[c].who \notin Live(limits)
          <6>1. Create(c) => table[check[c].who] = None
                BY DEF Create
          <6>2. QED
                BY <3>c, <4>3, <6>1 DEF AfterInsert, Current, Idle
        <5>2. \A d \in Checks : Current(d)' => check'[d].who \notin Live(limits)
              BY <3>c, <3>r, <4>3, <5>1 DEF AfterInsert
        <5>3. QED
              BY <3>i, <4>1, <4>3, <5>2 DEF AfterInsert
      <4>4. QED
            BY <4>2, <4>3
    <3>3. QED
          BY <3>1, <3>2
  <2>4. QED
        BY <1>0, <1>l, <1>p, <2>1, <2>2, <2>3 DEF Crossed
<1>8. CASE UNCHANGED vars
  <2>1. UNCHANGED <<limits, table, check, op, hup, history>>
        BY <1>8 DEF vars
  <2>2. (Gap' <=> Gap) /\ (Quiet' <=> Quiet) /\ (Alone' <=> Alone)
        BY <2>1 DEF Gap, Quiet, Alone
  <2>3. QED
        BY <1>0, <1>l, <1>p, <1>u, <2>1, <2>2
<1>9. QED
      BY <1>1, <1>2, <1>3, <1>4, <1>5, <1>6, <1>7, <1>8, StepsOfNext

-----------------------------------------------------------------------------
(* The file.                                                                *)

LEMMA NamesStep == Inv /\ [Next]_vars => Names'
<1> SUFFICES ASSUME Inv, [Next]_vars PROVE Names'
    OBVIOUS
<1>0. TypeOK /\ Names /\ Free \notin Ops
      BY AccessAssumption DEF Inv
<1> DEFINE Early(x) == x.at \notin {"write", "rename", "done"}
\* Steps that leave the disk alone.
<1>u. ASSUME disk' = disk,
             \A p \in Ops : \/ op'[p] = op[p]
                            \/ op'[p].at = "done"
                            \/ Early(op[p]) /\ Early(op'[p])
      PROVE  Names'
      BY <1>0, <1>u DEF Names, Saving
<1>1. ASSUME NEW o \in Ops, NEW ask \in Asks, Ask(o, ask) PROVE Names'
  <2>1. disk' = disk /\ Early(op[o])
        BY <1>1 DEF Ask
  <2>2. Others(o) /\ op'[o].at \in {"done", "change", "load"}
        BY <1>0, <1>1, OpSteps DEF Ends, Done
  <2>3. QED
        BY <1>u, <2>1, <2>2 DEF Others
<1>2. ASSUME NEW o \in Ops, OpStep(o) PROVE Names'
  <2>1. Others(o)
        BY <1>2, OpStepFacts
  <2>2. CASE Open(o)
    <3>1. /\ op[o].at = "save" /\ op'[o].at = "write" /\ op'[o].file = Opened(o)
          BY <1>0, <2>2, OpSteps DEF Moves, Opened
    <3>2. /\ disk'.path = disk.path /\ disk'.tmp = Opened(o) /\ Content(Opened(o), Torn)
          /\ Opened(o) \in Files
          BY <1>0, <2>2, DiskSteps
    <3>3. Opened(o) \in {o, disk.tmp} /\ o \notin {disk.path, disk.tmp}
          BY <1>0, <3>1 DEF Opened, Names
    <3>4. disk'.path # disk'.tmp
          BY <1>0, <3>2, <3>3 DEF Names
    <3>5. \A p \in Ops : Early(op'[p]) => p \notin {disk'.path, disk'.tmp}
          BY <1>0, <2>1, <3>1, <3>2, <3>3 DEF Names, Others
    <3>6. \A p \in Ops : Saving(p)' => op'[p].file \in Files
          BY <1>0, <2>1, <3>1, <3>2 DEF Names, Others, Saving
    <3>7. \A g \in Files : \A x, y \in disk'.content[g] : x = y
          BY <1>0, <3>2 DEF Names, Content, Torn
    <3>8. QED
          BY <3>4, <3>5, <3>6, <3>7 DEF Names
  <2>3. CASE Write(o)
    <3>1. op[o].at = "write" /\ op'[o].at = "rename" /\ op'[o].file = op[o].file
          BY <1>0, <2>3, OpSteps DEF Moves
    <3>2. op[o].file \in Files
          BY <1>0, <3>1 DEF Names, Saving
    <3>3. disk'.path = disk.path /\ disk'.tmp = disk.tmp /\ Content(op[o].file, {config})
          BY <1>0, <2>3, <3>2, DiskSteps
    <3>4. \A p \in Ops : Early(op'[p]) => Early(op[p])
          BY <2>1, <3>1 DEF Others
    <3>5. \A p \in Ops : Saving(p)' => op'[p].file \in Files
          BY <1>0, <2>1, <3>1, <3>2 DEF Names, Others, Saving
    <3>6. \A g \in Files : \A x, y \in disk'.content[g] : x = y
          BY <1>0, <3>3 DEF Names, Content
    <3>7. QED
          BY <1>0, <3>3, <3>4, <3>5, <3>6 DEF Names
  <2>4. CASE Rename(o) /\ disk.tmp # Free
    <3>1. op'[o].at = "done"
          BY <1>0, <2>4, OpSteps DEF Ends, Done
    <3>2. /\ disk'.path = disk.tmp /\ disk'.tmp = Free
          /\ Content(disk.path, IF disk.path = disk.tmp THEN disk.content[disk.path] ELSE Torn)
          BY <1>0, <2>4, DiskSteps
    <3>3. \A p \in Ops : Early(op'[p]) => Early(op[p])
          BY <2>1, <3>1 DEF Others
    <3>4. \A p \in Ops : Saving(p)' => op'[p].file \in Files
          BY <1>0, <2>1, <3>1 DEF Names, Others, Saving
    <3>5. \A g \in Files : \A x, y \in disk'.content[g] : x = y
          BY <1>0, <3>2 DEF Names, Content, Torn
    <3>6. QED
          BY <1>0, <2>4, <3>2, <3>3, <3>4, <3>5 DEF Names
  <2>5. CASE (Rename(o) /\ disk.tmp = Free) \/ NotFound(o) \/ SaveFails(o) \/ Dropped(o)
    <3>1. op'[o].at = "done" /\ disk' = disk
          BY <1>0, <2>5, OpSteps, DiskSteps DEF Ends, Done
    <3>2. QED
          BY <1>u, <2>1, <3>1 DEF Others
  <2>6. CASE Load(o) \/ Store(o) \/ Change(o) \/ Clear(o) \/ Insert(o)
    <3>1. disk' = disk
          BY <1>0, <2>6, DiskSteps
    <3>2. Early(op[o]) /\ Early(op'[o])
          BY <1>0, <2>6, OpSteps DEF Moves
    <3>3. QED
          BY <1>u, <2>1, <3>1, <3>2 DEF Others
  <2>7. QED
        BY <1>2, <2>2, <2>3, <2>4, <2>5, <2>6 DEF OpStep
<1>3. ASSUME NEW conf \in Edits, Edit(conf) PROVE Names'
  <2>1. op' = op /\ disk'.path = disk.path /\ disk'.tmp = disk.tmp
        BY <1>3, <1>0 DEF Edit, TypeOK
  <2>2. \A g \in Files : disk'.content[g] = IF g = disk.path THEN {conf} ELSE disk.content[g]
        BY <1>3, <1>0 DEF Edit, TypeOK
  <2>3. \A g \in Files : \A x, y \in disk'.content[g] : x = y
        BY <1>0, <2>2 DEF Names
  <2>4. QED
        BY <1>0, <2>1, <2>3 DEF Names, Saving
<1>4. CASE HupLoad \/ HupStep \/ HupConfig \/ (\E c \in Checks : CheckStep(c)) \/ UNCHANGED vars
  <2>1. disk' = disk /\ op' = op
        BY <1>4, HupStepFacts, CheckStepFacts DEF HupLoad, HupConfig, Access, vars
  <2>2. QED
        BY <1>u, <2>1
<1>5. QED
      BY <1>1, <1>2, <1>3, <1>4, StepsOfNext

\* The four parts of Saves.
OneSaves == ~history.savesCrossed => \A o, p \in Ops : Saving(o) /\ Saving(p) => o = p
TmpIsDue ==
    SomeSaving /\ disk.tmp # Free
    /\ (~history.savesCrossed \/ (~history.fileDiffers /\ ~history.hupCrossed))
    => Due(disk.tmp)
PathIsDue ==
    hup.at = "idle" /\ ~history.hupCrossed /\ ~history.fileDiffers =>
      /\ SomeSaving => disk.tmp # Free \/ Due(disk.path)
      /\ \/ \E o \in Ops : op[o].at \in {"clear", "insert", "save", "write", "rename"}
         \/ FileConfig = {config}
LoadIsFile == Alone /\ ~history.fileDiffers => FileConfig = {hup.new}

LEMMA SavesParts ==
  /\ Saves <=> OneSaves /\ TmpIsDue /\ PathIsDue /\ LoadIsFile
  /\ Saves' <=> OneSaves' /\ TmpIsDue' /\ PathIsDue' /\ LoadIsFile'
BY DEF Saves, OneSaves, TmpIsDue, PathIsDue, LoadIsFile

\* What a step leaves alone that concerns neither saving nor the configuration.
SameSaves ==
    /\ UNCHANGED <<config, disk>>
    /\ \A p \in Ops : /\ Saving(p)' <=> Saving(p)
                      /\ op'[p].at = "write" <=> op[p].at = "write"
                      /\ op[p].at = "write" => op'[p].file = op[p].file

LEMMA SameSavesKeep ==
  ASSUME SameSaves
  PROVE  /\ SomeSaving' <=> SomeSaving
         /\ Due(disk.tmp)' <=> Due(disk.tmp)
         /\ Due(disk.path)' <=> Due(disk.path)
         /\ FileConfig' = FileConfig
BY DEF SameSaves, SomeSaving, Due, FileConfig

LEMMA SavesByOps ==
  ASSUME Inv, NEW o \in Ops, OpStep(o)
  PROVE  Saves' /\ FileIsWhole'
<1>0. /\ TypeOK /\ Names /\ Saves /\ FileIsWhole /\ Locks /\ Free \notin Ops
      /\ OneSaves /\ TmpIsDue /\ PathIsDue
      BY AccessAssumption, SavesParts DEF Inv
<1>1. Running(o) /\ Others(o) /\ hup' = hup /\ Crossed(history') = Crossed(history)
      BY OpStepFacts
<1>2. ~Alone' /\ history'.hupCrossed = history.hupCrossed
      BY <1>1, Meets DEF Alone, Crossed
<1>3. LoadIsFile'
      BY <1>2 DEF LoadIsFile
<1>4. CASE \/ Load(o) \/ Store(o) \/ NotFound(o) \/ Clear(o) \/ Insert(o)
           \/ Dropped(o) /\ op[o].at = "change"
  <2>1. history'.savesCrossed = history.savesCrossed /\ (history'.fileDiffers <=> history.fileDiffers)
    <3>1. CASE Clear(o) \/ Insert(o)
          BY <1>0, <3>1, HistoryReloads DEF Clear, Insert, Saved
    <3>2. CASE Dropped(o) /\ op[o].at = "change"
          BY <1>0, <3>2, HistorySteps
    <3>3. QED
          BY <1>4, <3>1, <3>2 DEF Load, Store, NotFound
  <2>2. /\ op[o].at \notin {"write", "rename"} /\ op'[o].at \notin {"write", "rename"}
        /\ op[o].at \in {"clear", "insert", "save"} => op'[o].at \in {"clear", "insert", "save"}
    <3>1. CASE NotFound(o) \/ (Dropped(o) /\ op[o].at = "change")
          BY <1>0, <3>1, OpSteps DEF NotFound, Ends, Done
    <3>2. QED
          BY <1>0, <1>4, <3>1, OpSteps DEF Moves
  <2>3. UNCHANGED <<config, disk>>
        BY <1>4 DEF Load, Store, NotFound, Clear, Insert, Dropped
  <2>4. SameSaves
        BY <1>1, <2>2, <2>3 DEF SameSaves, Saving, Others
  <2>5. /\ SomeSaving' <=> SomeSaving
        /\ Due(disk.tmp)' <=> Due(disk.tmp)
        /\ Due(disk.path)' <=> Due(disk.path)
        /\ FileConfig' = FileConfig
        BY <2>4, SameSavesKeep
  <2>6. OneSaves'
        BY <1>0, <2>1, <2>4 DEF OneSaves, SameSaves
  <2>7. TmpIsDue'
        BY <1>0, <1>2, <2>1, <2>3, <2>5 DEF TmpIsDue
  <2>8. PathIsDue'
    <3>1. (\E p \in Ops : op[p].at \in {"clear", "insert", "save", "write", "rename"}) =>
            \E p \in Ops : op'[p].at \in {"clear", "insert", "save", "write", "rename"}
          BY <1>1, <2>2 DEF Others
    <3>2. QED
          BY <1>0, <1>1, <1>2, <2>1, <2>3, <2>5, <3>1 DEF PathIsDue
  <2>9. FileIsWhole'
        BY <1>0, <2>1, <2>5 DEF FileIsWhole, Torn
  <2>10. QED
        BY <1>3, <2>6, <2>7, <2>8, <2>9, SavesParts
<1>5. CASE Change(o)
  <2>1. Saved(history') = Saved(history) /\ Moves(o, "change", "clear") /\ disk' = disk
        BY <1>0, <1>5, HistorySteps, OpSteps DEF Change
  <2>2. \A p \in Ops : ~Saving(p)
        BY <1>5 DEF Change, Unlocked
  <2>3. ~SomeSaving' /\ OneSaves'
        BY <2>1, <2>2 DEF SomeSaving, Saving, Moves, Others, OneSaves
  <2>4. FileConfig' = FileConfig
        BY <2>1 DEF FileConfig
  <2>5. TmpIsDue' /\ PathIsDue'
        BY <2>1, <2>3 DEF TmpIsDue, PathIsDue, Moves
  <2>6. FileIsWhole'
        BY <1>0, <2>1, <2>4 DEF FileIsWhole, Saved, Torn
  <2>7. QED
        BY <1>3, <2>3, <2>5, <2>6, SavesParts
<1>6. CASE Open(o)
  <2>1. /\ op[o].at = "save" /\ op'[o].at = "write" /\ op'[o].file = Opened(o)
        BY <1>0, <1>6, OpSteps DEF Moves, Opened
  <2>2. /\ disk'.path = disk.path /\ disk'.tmp = Opened(o) /\ Content(Opened(o), Torn)
        /\ Opened(o) \in Ops /\ disk.path \in Files
        BY <1>0, <1>6, DiskSteps
  <2>3. /\ history'.savesCrossed <=> history.savesCrossed \/ \E p \in Ops : Saving(p)
        BY <1>0, <1>6, HistorySteps
  <2>4. OneSaves'
        BY <1>1, <2>1, <2>3 DEF OneSaves, Others, Saving
  <2>5. TmpIsDue' /\ PathIsDue'
        BY <1>0, <2>1, <2>2 DEF TmpIsDue, PathIsDue, Due
  <2>6. Opened(o) # disk.path
        BY <1>0, <2>1 DEF Opened, Names
  <2>7. FileIsWhole'
        BY <1>0, <2>2, <2>3, <2>6 DEF FileIsWhole, FileConfig, Content, Torn
  <2>8. QED
        BY <1>3, <2>4, <2>5, <2>7, SavesParts
<1>7. CASE Write(o)
  <2>1. op[o].at = "write" /\ op'[o].at = "rename" /\ op'[o].file = op[o].file
        BY <1>0, <1>7, OpSteps DEF Moves
  <2>2. op[o].file \in Files
        BY <1>0, <2>1 DEF Names, Saving
  <2>3. /\ disk'.path = disk.path /\ disk'.tmp = disk.tmp /\ Content(op[o].file, {config})
        /\ disk.path \in Files /\ config' = config /\ history' = history
        BY <1>0, <1>7, <2>2, DiskSteps DEF Write
  <2>4. disk.tmp # Free => disk.tmp \in Files
        BY <1>0 DEF TypeOK, Files
  <2>5. SomeSaving /\ OneSaves'
        BY <1>0, <1>1, <2>1, <2>3 DEF OneSaves, Others, Saving, SomeSaving
  <2>6. ASSUME NEW f \in Files, Due(f)
        PROVE  disk'.content[f] = {config} \/ \E p \in Ops : op'[p].at = "write" /\ op'[p].file = f
        BY <1>1, <2>1, <2>3, <2>6 DEF Due, Content, Others
  <2>7. TmpIsDue'
        BY <1>0, <1>2, <2>3, <2>4, <2>5, <2>6 DEF TmpIsDue, Due
  <2>8. PathIsDue'
        BY <1>0, <1>1, <1>2, <2>1, <2>3, <2>5, <2>6 DEF PathIsDue, Due
  <2>9. FileIsWhole'
        BY <1>0, <2>3 DEF FileIsWhole, FileConfig, Content, Torn
  <2>10. QED
        BY <1>3, <2>5, <2>7, <2>8, <2>9, SavesParts
<1>8. CASE Rename(o)
  <2>1. op[o].at = "rename" /\ op'[o].at = "done" /\ config' = config
    <3>1. Ends(o)
          BY <1>0, <1>8, OpSteps
    <3>2. QED
          BY <1>8, <3>1 DEF Rename, Ends, Done
  <2>2. /\ history'.savesCrossed = history.savesCrossed
        /\ history'.fileDiffers <=> history.fileDiffers /\ (history.savesCrossed \/ disk.tmp = Free)
        BY <1>0, <1>8, HistorySteps
  <2>3. SomeSaving /\ OneSaves'
        BY <1>0, <1>1, <2>1, <2>2 DEF OneSaves, Others, Saving, SomeSaving
  <2>4. \A p \in Ops : op[p].at = "write" => p # o /\ op'[p] = op[p]
        BY <1>1, <2>1 DEF Others
  <2>5. CASE disk.tmp = Free
    <3>1. disk' = disk
          BY <1>0, <1>8, <2>5, DiskSteps
    <3>2. TmpIsDue'
          BY <2>5, <3>1 DEF TmpIsDue
    <3>3. PathIsDue'
      <4>1. SUFFICES ASSUME hup.at = "idle", ~history.hupCrossed, ~history.fileDiffers
                     PROVE  /\ Due(disk.path)'
                            /\ \/ \E p \in Ops : op'[p].at \in {"clear", "insert", "save", "write", "rename"}
                               \/ FileConfig' = {config'}
            BY <1>1, <1>2, <2>2, <2>5 DEF PathIsDue
      <4>2. Due(disk.path)
            BY <1>0, <2>3, <2>5, <4>1 DEF PathIsDue
      <4>3. QED
            BY <2>1, <2>4, <3>1, <4>2 DEF Due, FileConfig
    <3>4. FileIsWhole'
          BY <1>0, <2>2, <3>1 DEF FileIsWhole, FileConfig, Torn
    <3>5. QED
          BY <1>3, <2>3, <3>2, <3>3, <3>4, SavesParts
  <2>6. CASE disk.tmp # Free
    <3>1. /\ disk'.path = disk.tmp /\ disk'.tmp = Free /\ disk.tmp \in Files
          /\ \A g \in Files \ {disk.path} : disk'.content[g] = disk.content[g]
          BY <1>0, <1>8, <2>6, DiskSteps DEF Content, TypeOK, Files
    <3>2. disk'.content[disk.tmp] = disk.content[disk.tmp]
          BY <1>0, <3>1 DEF Names
    <3>3. TmpIsDue'
          BY <3>1 DEF TmpIsDue
    <3>4. PathIsDue'
      <4>1. SUFFICES ASSUME hup.at = "idle", ~history.hupCrossed,
                            ~history.savesCrossed \/ ~history.fileDiffers
                     PROVE  /\ Due(disk.path)'
                            /\ \/ \E p \in Ops : op'[p].at \in {"clear", "insert", "save", "write", "rename"}
                               \/ FileConfig' = {config'}
            BY <1>1, <1>2, <2>2, <2>6 DEF PathIsDue
      <4>2. Due(disk.tmp)
            BY <1>0, <2>3, <2>6, <4>1 DEF TmpIsDue
      <4>3. QED
            BY <2>1, <2>4, <3>1, <3>2, <4>2 DEF Due, FileConfig
    <3>5. FileIsWhole'
      <4>1. SUFFICES ASSUME ~history.savesCrossed PROVE disk.content[disk.tmp] # Torn
            BY <2>2, <3>1, <3>2 DEF FileIsWhole, FileConfig, Torn
      <4>2. Due(disk.tmp)
            BY <1>0, <2>3, <2>6, <4>1 DEF TmpIsDue
      <4>3. ~\E p \in Ops : op[p].at = "write"
            BY <1>0, <2>1, <4>1 DEF OneSaves, Saving
      <4>4. QED
            BY <4>2, <4>3 DEF Due, Torn
    <3>6. QED
          BY <1>3, <2>3, <3>3, <3>4, <3>5, SavesParts
  <2>7. QED
        BY <2>5, <2>6
<1>9. CASE SaveFails(o) \/ (Dropped(o) /\ op[o].at = "save")
  <2>1. /\ op'[o].at = "done" /\ UNCHANGED <<config, disk>>
        /\ op[o].at = "save" \/ Saving(o)
    <3>1. Ends(o)
          BY <1>0, <1>9, OpSteps
    <3>2. QED
          BY <1>9, <3>1 DEF SaveFails, Dropped, Ends, Done
  <2>2. history'.savesCrossed = history.savesCrossed /\ history'.fileDiffers
        BY <1>0, <1>9, HistorySteps
  <2>3. OneSaves'
        BY <1>0, <1>1, <2>1, <2>2 DEF OneSaves, Others, Saving
  <2>4. PathIsDue'
        BY <2>2 DEF PathIsDue
  <2>5. TmpIsDue'
    <3>1. SUFFICES ASSUME SomeSaving', disk.tmp # Free, ~history.savesCrossed PROVE Due(disk.tmp)'
          BY <2>1, <2>2 DEF TmpIsDue
    <3>2. PICK p \in Ops : Saving(p)'
          BY <3>1 DEF SomeSaving
    <3>3. p # o /\ Saving(p)
          BY <1>1, <2>1, <3>2 DEF Saving, Others
    <3>4. ~Saving(o)
          BY <1>0, <3>1, <3>3 DEF OneSaves
    <3>5. Due(disk.tmp)
          BY <1>0, <3>1, <3>3 DEF TmpIsDue, SomeSaving
    <3>6. \A q \in Ops : op[q].at = "write" => op'[q] = op[q]
          BY <1>1, <3>4 DEF Others, Saving
    <3>7. QED
          BY <2>1, <3>5, <3>6 DEF Due
  <2>6. FileIsWhole'
        BY <1>0, <2>1, <2>2 DEF FileIsWhole, FileConfig, Torn
  <2>7. QED
        BY <1>3, <2>3, <2>4, <2>5, <2>6, SavesParts
<1>10. QED
      BY <1>4, <1>5, <1>6, <1>7, <1>8, <1>9 DEF OpStep, Dropped

LEMMA SavesStep == Inv /\ [Next]_vars => Saves' /\ FileIsWhole'
<1> SUFFICES ASSUME Inv, [Next]_vars PROVE Saves' /\ FileIsWhole'
    OBVIOUS
<1>0. /\ TypeOK /\ Names /\ Overlaps /\ FileIsWhole
      /\ OneSaves /\ TmpIsDue /\ PathIsDue /\ LoadIsFile
      BY SavesParts DEF Inv
<1>1. ASSUME NEW o \in Ops, OpStep(o) PROVE Saves' /\ FileIsWhole'
      BY <1>1, SavesByOps
<1>2. ASSUME SameSaves PROVE /\ SomeSaving' <=> SomeSaving
                             /\ Due(disk.tmp)' <=> Due(disk.tmp)
                             /\ Due(disk.path)' <=> Due(disk.path)
                             /\ FileConfig' = FileConfig /\ config' = config /\ disk' = disk
                             /\ \A p \in Ops : Saving(p)' <=> Saving(p)
      BY <1>2, SameSavesKeep DEF SameSaves
<1>3. ASSUME NEW o \in Ops, NEW ask \in Asks, Ask(o, ask) PROVE Saves' /\ FileIsWhole'
  <2>1. hup' = hup /\ UNCHANGED <<config, disk>> /\ op[o].at = "new"
        BY <1>3 DEF Ask, Reload
  <2>2. Others(o) /\ op'[o].at \in {"done", "change", "load"}
        BY <1>0, <1>3, OpSteps DEF Ends, Done
  <2>3. /\ history.hupCrossed => history'.hupCrossed
        /\ history'.thisHup <=> history.thisHup \/ hup.at # "idle"
        /\ Saved(history') = Saved(history)
        BY <1>0, <1>3, HistorySteps
  <2>4. SameSaves
        BY <2>1, <2>2 DEF SameSaves, Saving, Others
  <2>5. \A p \in Ops : op[p].at \in {"clear", "insert", "save", "write", "rename"} => op'[p] = op[p]
        BY <2>1, <2>2 DEF Others
  <2>6. OneSaves' /\ TmpIsDue'
        BY <1>0, <1>2, <2>3, <2>4 DEF OneSaves, TmpIsDue, Saved
  <2>7. PathIsDue'
        BY <1>0, <1>2, <2>1, <2>3, <2>4, <2>5 DEF PathIsDue, Saved
  <2>8. LoadIsFile'
        BY <2>1, <2>3 DEF LoadIsFile, Alone
  <2>9. FileIsWhole'
        BY <1>0, <1>2, <2>3, <2>4 DEF FileIsWhole, Saved, Torn
  <2>10. QED
        BY <2>6, <2>7, <2>8, <2>9, SavesParts
<1>4. ASSUME NEW conf \in Edits, Edit(conf) PROVE Saves' /\ FileIsWhole'
  <2>1. UNCHANGED <<config, op, hup>>
        BY <1>4 DEF Edit, Reload
  <2>2. /\ disk'.path = disk.path /\ disk'.tmp = disk.tmp /\ disk.path \in Files
        /\ \A g \in Files : disk'.content[g] = IF g = disk.path THEN {conf} ELSE disk.content[g]
        BY <1>4, <1>0 DEF Edit, TypeOK
  <2>3. history'.savesCrossed = history.savesCrossed /\ history'.fileDiffers
        BY <1>0, <1>4, HistoryReloads
  <2>4. OneSaves'
        BY <1>0, <2>1, <2>3 DEF OneSaves, Saving
  <2>5. TmpIsDue'
    <3>1. disk.tmp # Free => disk'.content[disk.tmp] = disk.content[disk.tmp]
          BY <1>0, <2>2 DEF Names, TypeOK, Files
    <3>2. QED
          BY <1>0, <2>1, <2>2, <2>3, <3>1 DEF TmpIsDue, Due, SomeSaving, Saving
  <2>6. PathIsDue' /\ LoadIsFile'
        BY <2>3 DEF PathIsDue, LoadIsFile
  <2>7. FileIsWhole'
        BY <2>2 DEF FileIsWhole, FileConfig, Torn
  <2>8. QED
        BY <2>4, <2>5, <2>6, <2>7, SavesParts
<1>5. CASE HupLoad
  <2>1. UNCHANGED <<config, op, disk>>
        BY <1>5 DEF HupLoad
  <2>2. SameSaves
        BY <2>1 DEF SameSaves, Saving
  <2>3. CASE hup' = hup /\ history' = history
    <3>1. OneSaves' /\ TmpIsDue'
          BY <1>0, <1>2, <2>2, <2>3 DEF OneSaves, TmpIsDue
    <3>2. PathIsDue' /\ LoadIsFile'
          BY <1>0, <1>2, <2>1, <2>2, <2>3 DEF PathIsDue, LoadIsFile, Alone
    <3>3. FileIsWhole'
          BY <1>0, <1>2, <2>2, <2>3 DEF FileIsWhole, Torn
    <3>4. QED
          BY <3>1, <3>2, <3>3, SavesParts
  <2>4. ASSUME NEW conf \in FileConfig, hup'.at = "list", hup'.new = conf,
               history'.hupCrossed <=> history.hupCrossed \/ \E o \in Ops : Running(o),
               history'.savesCrossed = history.savesCrossed
        PROVE  Saves' /\ FileIsWhole'
    <3>1. SomeSaving => history'.hupCrossed
          BY <2>4 DEF SomeSaving, Saving, Running
    <3>2. OneSaves' /\ TmpIsDue'
          BY <1>0, <1>2, <2>2, <2>4, <3>1 DEF OneSaves, TmpIsDue
    <3>3. PathIsDue'
          BY <2>4 DEF PathIsDue
    <3>4. FileConfig = {conf}
          BY <1>0, <2>4 DEF Names, FileConfig, TypeOK
    <3>5. LoadIsFile'
          BY <1>2, <2>2, <2>4, <3>4 DEF LoadIsFile
    <3>6. FileIsWhole'
          BY <1>0, <1>2, <2>2, <2>4 DEF FileIsWhole, Torn
    <3>7. QED
          BY <3>2, <3>3, <3>5, <3>6, SavesParts
  <2>5. QED
        BY <1>0, <1>5, <2>3, <2>4, HistoryReloads
<1>6. CASE HupStep
  <2>1. /\ hup.at # "idle" /\ hup'.at # "idle" /\ hup'.new = hup.new
        /\ Crossed(history') = Crossed(history) /\ Saved(history') = Saved(history)
        /\ UNCHANGED <<config, disk, op>>
        BY <1>6, HupStepFacts
  <2>2. SameSaves
        BY <2>1 DEF SameSaves, Saving
  <2>3. OneSaves' /\ TmpIsDue'
        BY <1>0, <1>2, <2>1, <2>2 DEF OneSaves, TmpIsDue, Crossed, Saved
  <2>4. PathIsDue' /\ LoadIsFile'
        BY <1>0, <1>2, <2>1, <2>2 DEF PathIsDue, LoadIsFile, Alone, Crossed, Saved
  <2>5. FileIsWhole'
        BY <1>0, <1>2, <2>1, <2>2 DEF FileIsWhole, Saved, Torn
  <2>6. QED
        BY <2>3, <2>4, <2>5, SavesParts
<1>7. CASE HupConfig
  <2>1. /\ UNCHANGED <<disk, op>> /\ config' = hup.new /\ hup.at = "config" /\ hup'.at = "idle"
        /\ \A p \in Ops : ~Saving(p)
        BY <1>7 DEF HupConfig, NoHup, Unlocked
  <2>2. /\ Saved(history') = Saved(history)
        /\ ~history'.hupCrossed => Alone
        BY <1>0, <1>7, <2>1, HistoryReloads DEF Overlaps, Alone
  <2>3. ~SomeSaving' /\ FileConfig' = FileConfig
        BY <2>1 DEF SomeSaving, Saving, FileConfig
  <2>4. OneSaves' /\ TmpIsDue'
        BY <1>0, <2>1, <2>2, <2>3 DEF OneSaves, TmpIsDue, Saved, SomeSaving
  <2>5. PathIsDue' /\ LoadIsFile'
        BY <1>0, <2>1, <2>2, <2>3 DEF PathIsDue, LoadIsFile, Saved, Alone
  <2>6. FileIsWhole'
        BY <1>0, <2>2, <2>3 DEF FileIsWhole, Saved, Torn
  <2>7. QED
        BY <2>4, <2>5, <2>6, SavesParts
<1>8. ASSUME UNCHANGED <<config, disk, op, hup>>,
             Crossed(history') = Crossed(history), Saved(history') = Saved(history)
      PROVE  Saves' /\ FileIsWhole'
  <2>1. SameSaves
        BY <1>8 DEF SameSaves, Saving
  <2>2. OneSaves' /\ TmpIsDue'
        BY <1>0, <1>2, <1>8, <2>1 DEF OneSaves, TmpIsDue, Crossed, Saved
  <2>3. PathIsDue' /\ LoadIsFile'
        BY <1>0, <1>2, <1>8, <2>1 DEF PathIsDue, LoadIsFile, Alone, Crossed, Saved
  <2>4. FileIsWhole'
        BY <1>0, <1>2, <1>8, <2>1 DEF FileIsWhole, Saved, Torn
  <2>5. QED
        BY <2>2, <2>3, <2>4, SavesParts
<1>9. CASE (\E c \in Checks : CheckStep(c)) \/ UNCHANGED vars
  <2>1. /\ UNCHANGED <<config, disk, op, hup>>
        /\ Crossed(history') = Crossed(history) /\ Saved(history') = Saved(history)
        BY <1>9, CheckStepFacts DEF Access, Reload, vars
  <2>2. QED
        BY <1>8, <2>1
<1>10. QED
      BY <1>1, <1>3, <1>4, <1>5, <1>6, <1>7, <1>9, StepsOfNext

-----------------------------------------------------------------------------
(* Who is let in.                                                           *)

\* The part of Grants that holds without a reload.
Changing(o) == op[o].at = "change" /\ op[o].ask.kind # "update"
GrantsOfOps ==
    /\ \A o \in Ops : op[o].at = "store" => op[o].copy = granted \cap SameStore(op[o].ask.who)
    /\ \A o \in Ops : Changing(o) =>
         Follows(Changed(op[o].ask), history.halfDone \ {op[o].ask.who})
    /\ (\E o \in Ops : Changing(o)) \/ Follows(config, history.halfDone)

LEMMA GrantsByOps ==
  ASSUME Inv, NEW o \in Ops, OpStep(o), GrantsOfOps,
         \A p \in Ops \ {o} : ~Running(p)
  PROVE  GrantsOfOps'
<1>0. TypeOK /\ Requested
      BY DEF Inv
<1>1. Running(o) /\ Others(o)
      BY OpStepFacts
<1>2. \A p \in Ops \ {o} : op[p].at \notin {"store", "change"} /\ op'[p].at \notin {"store", "change"}
      BY <1>1 DEF Others, Running
<1>3. op[o].at # "change" \/ op[o].ask.kind = "update" => Follows(config, history.halfDone)
      BY <1>2 DEF GrantsOfOps, Changing
<1>4. ASSUME Follows(config, history.halfDone)', op'[o].at \notin {"store", "change"} PROVE GrantsOfOps'
      BY <1>2, <1>4 DEF GrantsOfOps, Changing
<1>c. ASSUME UNCHANGED <<config, granted>>, history'.halfDone = history.halfDone,
             Follows(config, history.halfDone)
      PROVE  Follows(config, history.halfDone)'
      BY <1>c DEF Follows, Live
<1>5. CASE Load(o)
  <2>1. /\ op[o].at = "load" /\ op'[o].at = "store" /\ op'[o].ask = op[o].ask
        /\ op'[o].copy = granted \cap SameStore(op[o].ask.who)
        BY <1>0, <1>5, OpSteps DEF Moves
  <2>2. UNCHANGED <<config, granted>> /\ history'.halfDone = history.halfDone
        BY <1>5 DEF Load
  <2>3. Follows(config, history.halfDone)'
        BY <1>3, <1>c, <2>1, <2>2
  <2>4. QED
        BY <1>2, <2>1, <2>2, <2>3 DEF GrantsOfOps, Changing
<1>6. CASE Store(o)
  <2> DEFINE ask == op[o].ask
             s == ask.who
             S == SameStore(s)
             copy == op[o].copy
             half == history.halfDone
             L == Live(config)
             M == Live(Changed(ask))
  <2>1. /\ op[o].at = "store" /\ op'[o].at = "change" /\ op'[o].ask = ask /\ config' = config
        /\ history' = history
        BY <1>0, <1>6, OpSteps DEF Moves, Store
  <2>2. /\ \A t \in Subjects \ half : t \in granted <=> t \in L
        /\ copy = granted \cap S
        BY <1>3, <2>1 DEF GrantsOfOps, Follows
  <2>3. ask \in Asks /\ (ask.kind = "create" => config[s] = <<>>)
        BY <2>1, NewKey
  <2>4. /\ ask.kind \in {"add", "create", "remove", "revoke"} /\ s \in S
    <3>1. ask.kind # "update"
          BY <1>0, <2>1 DEF Requested
    <3>2. QED
          BY <2>3, <3>1, AccessAssumption DEF SameStore
  <2>5. /\ ask.kind \in {"add", "create"} => M = L \cup {s}
        /\ ask.kind \in {"remove", "revoke"} => M = L \ {s}
        BY <1>0, <2>3, ChangeIsSound
  <2>6. granted' = CASE ask.kind \in {"add", "create"} -> (granted \ S) \cup copy \cup {s}
                     [] ask.kind = "revoke" /\ s \notin copy -> granted
                     [] OTHER -> (granted \ S) \cup (copy \ {s})
        BY <1>6 DEF Store
  <2>7. Live(Changed(ask))' = M
        BY <2>1 DEF Live, Changed
  <2>8. \A t \in Subjects \ (half \ {s}) : t \in granted' <=> t \in M
    <3> HIDE DEF ask, s, S, copy, half, L, M
    <3>1. CASE ask.kind \in {"add", "create"}
      <4>1. granted' = (granted \ S) \cup copy \cup {s}
            BY <2>6, <3>1
      <4>2. QED
            BY <2>2, <2>5, <3>1, <4>1
    <3>2. CASE ask.kind = "revoke" /\ s \notin copy
      <4>1. granted' = granted /\ s \notin granted
            BY <2>2, <2>4, <2>6, <3>2
      <4>2. QED
            BY <2>2, <2>5, <3>2, <4>1
    <3>3. CASE ask.kind \in {"remove", "revoke"} /\ ~(ask.kind = "revoke" /\ s \notin copy)
      <4>1. granted' = (granted \ S) \cup (copy \ {s})
            BY <2>6, <3>3
      <4>2. QED
            BY <2>2, <2>4, <2>5, <3>3, <4>1
    <3>4. QED
          BY <2>4, <3>1, <3>2, <3>3
  <2>9. Changing(o)' /\ op'[o].at # "store"
        BY <2>1, <2>4 DEF Changing
  <2>10. Follows(Changed(op[o].ask), history.halfDone \ {op[o].ask.who})'
        BY <2>1, <2>7, <2>8 DEF Follows
  <2>11. QED
        BY <1>2, <2>9, <2>10 DEF GrantsOfOps, Changing
<1>7. CASE Change(o)
  <2> DEFINE ask == op[o].ask
  <2>1. /\ op[o].at = "change" /\ op'[o].at = "clear" /\ config' = Changed(ask) /\ granted' = granted
        BY <1>0, <1>7, OpSteps DEF Moves, Change
  <2>2. ask \in Asks /\ (ask.kind = "create" => config[ask.who] = <<>>)
        BY <2>1, NewKey
  <2>3. ask.kind = "update" => Live(Changed(ask)) = Live(config)
        BY <1>0, <2>2, ChangeIsSound
  <2>4. Live(config)' = Live(Changed(ask))
        BY <2>1 DEF Live
  <2>5. history'.halfDone = history.halfDone \ Settles(ask)
        BY <1>0, <1>7, HalfDoneSteps
  <2>6. \A t \in Subjects \ (history.halfDone \ Settles(ask)) : t \in granted <=> t \in Live(Changed(ask))
    <3>1. CASE ask.kind = "update"
          BY <1>3, <2>3, <3>1 DEF Follows, Settles
    <3>2. CASE ask.kind # "update"
          BY <2>1, <3>2 DEF GrantsOfOps, Changing, Follows, Settles
    <3>3. QED
          BY <3>1, <3>2
  <2>7. Follows(config, history.halfDone)'
        BY <2>1, <2>4, <2>5, <2>6 DEF Follows
  <2>8. QED
        BY <1>4, <2>1, <2>7
<1>8. CASE NotFound(o) \/ Rename(o) \/ SaveFails(o) \/ (Dropped(o) /\ op[o].at # "change")
  <2>1. Ends(o) /\ history'.halfDone = history.halfDone
        BY <1>0, <1>8, OpSteps, HalfDoneSteps
  <2>2. UNCHANGED <<config, granted>> /\ (op[o].at # "change" \/ op[o].ask.kind = "update")
        BY <1>8 DEF NotFound, Rename, SaveFails, Dropped, Saving
  <2>3. QED
        BY <1>3, <1>4, <1>c, <2>1, <2>2 DEF Ends, Done
<1>9. CASE Dropped(o) /\ op[o].at = "change"
  <2> DEFINE ask == op[o].ask
  <2>1. /\ Ends(o) /\ UNCHANGED <<config, granted>>
        /\ history'.halfDone = history.halfDone \cup Settles(ask)
        BY <1>0, <1>9, OpSteps, HalfDoneSteps DEF Dropped
  <2>2. ask \in Asks /\ (ask.kind = "create" => config[ask.who] = <<>>)
        BY <1>9, NewKey
  <2>3. \A t \in Subjects \ {ask.who} : t \in Live(Changed(ask)) <=> t \in Live(config)
        BY <1>0, <2>2, ChangeIsSound DEF Live
  <2>4. \A t \in Subjects \ (history.halfDone \cup Settles(ask)) : t \in granted <=> t \in Live(config)
    <3>1. CASE ask.kind = "update"
          BY <1>3, <3>1 DEF Follows, Settles
    <3>2. CASE ask.kind # "update"
          BY <1>9, <2>3, <3>2 DEF GrantsOfOps, Changing, Follows, Settles
    <3>3. QED
          BY <3>1, <3>2
  <2>5. Live(config)' = Live(config)
        BY <2>1 DEF Live
  <2>6. Follows(config, history.halfDone)'
        BY <2>1, <2>4, <2>5 DEF Follows
  <2>7. QED
        BY <1>4, <2>1, <2>6 DEF Ends, Done
<1>10. CASE Clear(o) \/ Insert(o) \/ Open(o) \/ Write(o)
  <2>1. op[o].at # "change" /\ op'[o].at \notin {"store", "change"}
        BY <1>0, <1>10, OpSteps DEF Moves
  <2>2. UNCHANGED <<config, granted>> /\ history'.halfDone = history.halfDone
        BY <1>0, <1>10, HalfDoneSteps DEF Clear, Insert, Open, Write
  <2>3. QED
        BY <1>3, <1>4, <1>c, <2>1, <2>2
<1>11. QED
      BY <1>5, <1>6, <1>7, <1>8, <1>9, <1>10 DEF OpStep

LEMMA GrantsStep == Inv /\ [Next]_vars => Grants'
<1> SUFFICES ASSUME Inv, [Next]_vars PROVE Grants'
    OBVIOUS
<1> DEFINE First == Alone /\ hup.at \notin {"list"} => granted \cap IPs = Live(hup.new) \cap IPs
           Second == Alone /\ hup.at = "config" => granted = Live(hup.new)
           Third == hup.at = "idle" /\ ~history.crossed => GrantsOfOps
<1>0. TypeOK /\ Overlaps /\ First /\ Second /\ Third
      BY DEF Inv, Grants, GrantsOfOps, Changing
<1>g. First' /\ Second' /\ Third' => Grants'
      BY DEF Grants, GrantsOfOps, Changing
<1>1. ASSUME NEW o \in Ops, NEW ask \in Asks, Ask(o, ask) PROVE Grants'
  <2>1. UNCHANGED <<config, granted, hup>> /\ op[o].at = "new"
        BY <1>1 DEF Ask, Reload
  <2>2. /\ history'.crossed <=> history.crossed \/ (\E p \in Ops : Running(p)) \/ hup.at # "idle"
        /\ history'.thisHup <=> history.thisHup \/ hup.at # "idle"
        BY <1>0, <1>1, HistorySteps
  <2>3. ~Alone'
        BY <2>1, <2>2 DEF Alone
  <2>4. Others(o) /\ op'[o].at # "store" /\ ~Changing(o)'
    <3>1. \/ Ends(o)
          \/ /\ op'[o].ask = ask /\ Others(o)
             /\ op'[o].at = IF ask.kind = "update" THEN "change" ELSE "load"
          BY <1>0, <1>1, OpSteps
    <3>2. QED
          BY <3>1 DEF Ends, Done, Changing
  <2>5. ASSUME hup.at = "idle", ~history.crossed, \A p \in Ops : ~Running(p) PROVE GrantsOfOps'
    <3>1. \A p \in Ops : op'[p].at # "store" /\ ~Changing(p)' /\ ~Changing(p)
          BY <2>4, <2>5 DEF Others, Running, Changing
    <3>2. Follows(config, history.halfDone) /\ Live(config)' = Live(config)
          BY <1>0, <2>1, <2>5, <3>1 DEF GrantsOfOps, Live
    <3>3. history'.halfDone = history.halfDone
          BY <1>0, <1>1, HalfDoneSteps
    <3>4. QED
          BY <2>1, <3>1, <3>2, <3>3 DEF GrantsOfOps, Follows
  <2>6. QED
        BY <1>g, <2>1, <2>2, <2>3, <2>5
<1>2. ASSUME NEW o \in Ops, OpStep(o) PROVE Grants'
  <2>1. Running(o) /\ Others(o) /\ hup' = hup /\ Crossed(history') = Crossed(history)
        BY <1>2, OpStepFacts
  <2>2. ~Alone' /\ history'.crossed = history.crossed
        BY <2>1, Meets DEF Alone, Crossed
  <2>3. ASSUME hup.at = "idle", ~history.crossed PROVE GrantsOfOps'
    <3>1. \A p \in Ops \ {o} : ~Running(p)
          BY <1>0, <2>1, <2>3 DEF Overlaps
    <3>2. QED
          BY <1>0, <1>2, <2>3, <3>1, GrantsByOps
  <2>4. QED
        BY <1>g, <2>1, <2>2, <2>3
<1>3. ASSUME UNCHANGED <<config, granted, op, hup>>, Crossed(history') = Crossed(history),
             history'.halfDone = history.halfDone
      PROVE  Grants'
  <2>1. (Alone' <=> Alone) /\ history'.crossed = history.crossed /\ Live(hup.new)' = Live(hup.new)
        BY <1>3 DEF Alone, Crossed, Live
  <2>2. GrantsOfOps => GrantsOfOps'
    <3>1. ASSUME NEW o \in Ops
          PROVE  /\ Live(Changed(op[o].ask))' = Live(Changed(op[o].ask))
                 /\ Changing(o)' <=> Changing(o)
      <4>1. Changed(op[o].ask)' = Changed(op[o].ask)
            BY <1>3 DEF Changed
      <4>2. QED
            BY <1>3, <4>1 DEF Live, Changing
    <3>2. Live(config)' = Live(config)
          BY <1>3 DEF Live
    <3>3. QED
          BY <1>3, <3>1, <3>2 DEF GrantsOfOps, Follows
  <2>3. QED
        BY <1>0, <1>3, <1>g, <2>1, <2>2
<1>4. ASSUME NEW conf \in Edits, Edit(conf) PROVE Grants'
  <2>1. Crossed(history') = Crossed(history)
        BY <1>0, <1>4, HistoryReloads
  <2>2. history'.halfDone = history.halfDone
        BY <1>0, <1>4 DEF Edit, TypeOK
  <2>3. QED
        BY <1>3, <1>4, <2>1, <2>2 DEF Edit, Reload
<1>5. CASE HupLoad
  <2>1. UNCHANGED <<config, granted, op>>
        BY <1>5 DEF HupLoad
  <2>2. (hup' = hup /\ history' = history) \/ hup'.at = "list"
        BY <1>0, <1>5, HistoryReloads
  <2>3. QED
        BY <1>3, <1>g, <2>1, <2>2
<1>6. CASE HupStep
  <2>1. /\ hup.at # "idle" /\ hup'.at # "idle" /\ hup'.new = hup.new
        /\ Alone' <=> Alone
        BY <1>6, HupStepFacts DEF Alone, Crossed
  <2> DEFINE L == Live(hup.new)
  <2>2. Live(hup.new)' = L /\ L \subseteq Subjects /\ granted \subseteq Subjects
        BY <1>0, <2>1 DEF Live, TypeOK
  <2> HIDE DEF L
  <2>3. CASE HupList
    <3>1. granted' = (granted \cap Keys) \cup (L \cap IPs) /\ hup'.at = "limits"
          BY <1>0, <2>3 DEF HupList, HupTo, TypeOK, L
    <3>2. granted' \cap IPs = L \cap IPs
          BY <3>1, AccessAssumption
    <3>3. QED
          BY <1>g, <2>1, <2>2, <3>1, <3>2
  <2>4. CASE HupLimits \/ HupClear \/ HupInsert
    <3>1. granted' = granted /\ hup.at \in {"limits", "clear", "insert"}
          BY <2>4 DEF HupLimits, HupClear, HupInsert, HupTo
    <3>2. hup'.at # "config"
          BY <1>0, <2>4 DEF HupLimits, HupClear, HupInsert, HupTo, TypeOK
    <3>3. QED
          BY <1>0, <1>g, <2>1, <2>2, <3>1, <3>2 DEF L
  <2>5. CASE HupKeys
    <3>1. granted' = (granted \cap IPs) \cup (L \cap Keys) /\ hup.at = "keys"
          BY <2>5 DEF HupKeys, HupTo, L
    <3>2. Alone => granted \cap IPs = L \cap IPs
          BY <1>0, <3>1 DEF L
    <3>3. Alone => granted' = L
          BY <2>2, <3>1, <3>2 DEF Subjects
    <3>4. QED
          BY <1>g, <2>1, <2>2, <3>3
  <2>6. QED
        BY <1>6, <2>3, <2>4, <2>5 DEF HupStep
<1>7. CASE HupConfig
  <2>1. /\ UNCHANGED <<granted, op>> /\ config' = hup.new /\ hup.at = "config" /\ hup'.at = "idle"
        BY <1>7 DEF HupConfig, NoHup
  <2>2. ~history'.crossed => Alone
        BY <1>0, <1>7, <2>1, HistoryReloads DEF Overlaps, Alone
  <2>3. ASSUME Alone PROVE GrantsOfOps'
    <3>1. \A o \in Ops : op'[o].at \notin {"store", "change"}
          BY <1>0, <2>1, <2>3 DEF Overlaps, Running
    <3>2. granted = Live(hup.new) /\ Live(config)' = Live(hup.new)
          BY <1>0, <2>1, <2>3 DEF Live
    <3>3. QED
          BY <2>1, <3>1, <3>2 DEF GrantsOfOps, Changing, Follows
  <2>4. ~Alone'
        BY <2>1 DEF Alone
  <2>5. QED
        BY <1>g, <2>2, <2>3, <2>4
<1>8. CASE (\E c \in Checks : CheckStep(c)) \/ UNCHANGED vars
  <2>1. /\ UNCHANGED <<config, granted, op, hup>> /\ Crossed(history') = Crossed(history)
        /\ history'.halfDone = history.halfDone
        BY <1>8, CheckStepFacts DEF Access, Reload, vars
  <2>2. QED
        BY <1>3, <2>1
<1>9. QED
      BY <1>1, <1>2, <1>4, <1>5, <1>6, <1>7, <1>8, StepsOfNext

-----------------------------------------------------------------------------
(* The theorems.                                                            *)

LEMMA NextInv == Inv /\ [Next]_vars => Inv'
BY TypeStep, OverlapsStep, LocksStep, RequestedStep, UnnamedStep, FollowedStep, ReadsStep,
   LimitersStep, NamesStep, SavesStep, GrantsStep
DEF Inv

LEMMA AccessInvariant == Spec => []Inv
BY InitInv, NextInv, PTL DEF Spec

\* Who is let in, once all is done (whitelist.rs, api_keys.rs): requests that
\* ran one at a time, reloads and failed saves in any number and order leave
\* the subjects that the configuration names.  A request dropped at the lock
\* between its two copies (handlers.rs:123-126, 373-376) leaves its own subject
\* in doubt and nobody else's, however many there were, until another request
\* or a reload settles it.
THEOREM AccessFollowsConfig == Spec => []GrantsFollowConfig
<1>1. Inv => GrantsFollowConfig
      BY DEF Inv, Grants, Follows, GrantsFollowConfig, Calm, Running
<1>2. QED
      BY <1>1, AccessInvariant, PTL

\* The rate limiter's copy and the file follow the configuration whatever
\* dashboard requests overlap: two saves through one toml.tmp included
\* (handlers.rs:30-35, config.rs:306-312).
THEOREM CopiesUnderTheLockAgree == Spec => []LockedCopiesAgree
<1>1. Inv => LockedCopiesAgree
      BY DEF Inv, Followed, Saves, LockedCopiesAgree, Calm, Running
<1>2. QED
      BY <1>1, AccessInvariant, PTL

\* Outside of a reload every limiter is the one its subject is due, however
\* requests create limiters while one runs, but for a request that had read
\* the limits before (rate_limiter.rs:110-202).
THEOREM LimitersAreDue == Spec => []LimitsInForce
<1>1. Inv => LimitsInForce
      BY DEF Inv, Limiters, LimitsInForce, Quiet
<1>2. QED
      BY <1>1, AccessInvariant, PTL

\* A crash at any moment finds a whole configuration in the file, unless two
\* requests saved at once (config.rs:306-312).
THEOREM CrashFindsAWholeFile == Spec => []FileIsWhole
<1>1. Inv => FileIsWhole
      BY DEF Inv
<1>2. QED
      BY <1>1, AccessInvariant, PTL

\* Every variable keeps its type: handlers, reloads and RPC requests.
THEOREM TypeCorrect == Spec => []TypeOK
<1>1. Inv => TypeOK
      BY DEF Inv
<1>2. QED
      BY <1>1, AccessInvariant, PTL
=============================================================================
