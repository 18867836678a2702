----------------------------- MODULE AccessConfig -----------------------------
(***************************************************************************)
(* Who may use the proxy, and how fast.  The configuration is kept in five  *)
(* places: the shared Config behind a lock, the file, the whitelist and key *)
(* store that requests are checked against, and the rate limiter's own      *)
(* Config with the table of limiters made from it.  Dashboard requests      *)
(* (src/src/dashboard/handlers.rs) and SIGHUP (main.rs) change all five in  *)
(* steps, while requests read two of them and create limiters on demand     *)
(* (middleware/rate_limiter.rs).                                            *)
(*                                                                         *)
(* Config.whitelist and Config.api_keys are one function here: it gives     *)
(* every IP and every key the sequence of its entries, since only the order *)
(* among entries of one subject matters.  The four limits of an entry are   *)
(* one number.  A HashMap or DashMap operation, an ArcSwap load or store is *)
(* one step.                                                                *)
(***************************************************************************)
EXTENDS Naturals, Sequences, FiniteSets

CONSTANTS
    IPs, Keys,       \* subjects
    Default,         \* rate_limits.default_rps and the like
    Ops,             \* dashboard requests that change something
    Asks,            \* what they may ask for: [kind, who, limit]
    Checks,          \* RPC requests in progress
    Start,           \* the configuration at startup
    Edits,           \* configurations an operator may write to the file
    MaxIpLimiters,   \* MAX_IP_LIMITERS
    MaxHups,         \* bound: SIGHUPs
    MaxMet           \* bound: dashboard requests so far when one meets a reload

Subjects == IPs \cup Keys
SameStore(s) == IF s \in IPs THEN IPs ELSE Keys
None == 0
Free == "free"

\* Whitelist entries have no `revoked` flag: those of an IP are always live.
\* A file is taken to name a key once.
Entries == [limit : Nat \ {None}, live : BOOLEAN]
Configs ==
    {conf \in [Subjects -> Seq(Entries)] :
        /\ \A ip \in IPs : \A i \in DOMAIN conf[ip] : conf[ip][i].live
        /\ \A key \in Keys : Len(conf[key]) <= 1}
Empty == [s \in Subjects |-> <<>>]

ASSUME AccessAssumption ==
    /\ IPs \cap Keys = {} /\ None \notin Subjects
    /\ Default \in Nat \ {None}
    /\ {Free, "original"} \cap Ops = {}
    /\ Asks \subseteq
         [kind : {"add", "update", "remove"}, who : IPs, limit : Nat \ {None}]
           \cup [kind : {"create", "revoke"}, who : Keys, limit : Nat \ {None}]
    /\ {Start} \cup Edits \subseteq Configs
    /\ \A ask \in Asks : ask.kind = "create" => Start[ask.who] = <<>>
    /\ MaxIpLimiters \in Nat /\ MaxHups \in Nat /\ MaxMet \in Nat

VARIABLES
    config,    \* config_shared
    writer,    \* who holds its write lock
    disk,      \* [path, tmp, content]: two names and the files behind them
    granted,   \* the whitelist and the key store
    limits,    \* the rate limiter's Config
    table,     \* ip_limiters and key_limiters: the limit, or None
    op,        \* [at, ask, copy, file] of each dashboard request
    hup,       \* [at, new] of the SIGHUP task
    hups,      \* number of SIGHUPs
    check,     \* [at, who, limit, stale] of each RPC request
    history    \* history: see Calm

vars == <<config, writer, disk, granted, limits, table, op, hup, hups, check, history>>

Torn == {}
Files == Ops \cup {"original"}
NoAsk == [kind |-> "none", who |-> None, limit |-> None]
NoHup == [at |-> "idle", new |-> Empty]
Idle == [at |-> "idle", who |-> None, limit |-> None, stale |-> FALSE]

OpPlaces == {"new", "load", "store", "change", "clear", "insert", "save", "write",
             "rename", "done"}
HupPlaces == {"idle", "list", "limits", "clear", "insert", "keys", "config"}

TypeOK ==
    /\ config \in Configs /\ limits \in Configs
    /\ writer \in Ops \cup {Free}
    /\ disk \in [path : Files, tmp : Ops \cup {Free}, content : [Files -> SUBSET Configs]]
    /\ granted \subseteq Subjects
    /\ table \in [Subjects -> Nat]
    /\ op \in [Ops -> [at : OpPlaces, ask : Asks \cup {NoAsk}, copy : SUBSET Subjects,
                       file : Files \cup {Free}]]
    /\ hup \in [at : HupPlaces, new : Configs] /\ hups \in 0..MaxHups
    /\ check \in [Checks -> [at : {"idle", "authorized", "creating"},
                             who : Subjects \cup {None}, limit : Nat, stale : BOOLEAN]]
    /\ history \in [crossed : BOOLEAN, hupCrossed : BOOLEAN, thisHup : BOOLEAN,
                    savesCrossed : BOOLEAN, fileDiffers : BOOLEAN,
                    made : SUBSET Keys, raced : SUBSET Subjects,
                    halfDone : SUBSET Subjects]

-----------------------------------------------------------------------------
(* Reading a configuration.                                                 *)

Live(conf) == {s \in Subjects : \E i \in DOMAIN conf[s] : conf[s][i].live}

\* get_ip_rps finds the first entry of an IP; a key's limiter is made from the
\* defaults.
LookUp(conf, s) ==
    IF s \in IPs /\ conf[s] # <<>> THEN conf[s][1].limit ELSE Default

\* A reload inserts entry after entry: the last one of a subject wins.
InForce(conf, s) == IF s \in Live(conf) THEN conf[s][Len(conf[s])].limit ELSE Default

\* The file's configuration, if it is one.
FileConfig == disk.content[disk.path]

-----------------------------------------------------------------------------
(* RateLimiterMiddleware::reload, in three steps of its own, with requests   *)
(* in between.                                                              *)

\* What a request has read of the limits is out of date.
Overtaken == [c \in Checks |-> [check[c] EXCEPT !.stale = (@ \/ check[c].at = "creating")]]

StoreLimits(conf) == limits' = conf /\ check' = Overtaken

\* Mutant: limiters of subjects that are gone stay.
KeepLimiters == UNCHANGED table /\ history' = history

ClearLimiters ==
    /\ table' = [s \in Subjects |-> None]
    /\ history' = [history EXCEPT !.raced = {}]

InsertLimiters(conf) ==
    /\ table' = [s \in Subjects |-> IF s \in Live(conf) THEN InForce(conf, s) ELSE table[s]]
    /\ history' = [history EXCEPT !.raced = @ \ Live(conf)]
    /\ check' = Overtaken

-----------------------------------------------------------------------------
(* Startup.                                                                 *)

Init ==
    /\ config = Start /\ limits = Start
    /\ writer = Free
    /\ disk = [path |-> "original", tmp |-> Free,
               content |-> [f \in Files |-> IF f \in Ops THEN Torn ELSE {Start}]]
    /\ granted = Live(Start)
    /\ table = [s \in Subjects |-> IF s \in Live(Start) THEN InForce(Start, s) ELSE None]
    /\ op = [o \in Ops |-> [at |-> "new", ask |-> NoAsk, copy |-> {}, file |-> Free]]
    /\ hup = NoHup /\ hups = 0
    /\ check = [c \in Checks |-> Idle]
    /\ history = [crossed |-> FALSE, hupCrossed |-> FALSE, thisHup |-> FALSE,
                  savesCrossed |-> FALSE, fileDiffers |-> FALSE, made |-> {}, raced |-> {},
                  halfDone |-> {}]

-----------------------------------------------------------------------------
(* Dashboard requests.                                                      *)

Running(o) == op[o].at \notin {"new", "done"}
OpTo(o, from, to) == op[o].at = from /\ op' = [op EXCEPT ![o].at = to]
Done == [at |-> "done", ask |-> NoAsk, copy |-> {}, file |-> Free]
Begun == {o \in Ops : op[o].at # "new"}
Limiter == <<limits, table, check>>
Reload == <<hup, hups>>

\* create_api_key draws a key that was never used.
Fresh(ask) ==
    ask.kind = "create" =>
        ask.who \notin history.made /\ \A o \in Ops : op[o].ask.who # ask.who

\* The request comes in.  revoke_api_key looks for the key first and answers
\* 404 without it.
Ask(o, ask) ==
    /\ op[o].at = "new" /\ Fresh(ask)
    /\ hup.at # "idle" \/ history.hupCrossed => Cardinality(Begun) < MaxMet
    /\ op' = [op EXCEPT ![o] =
                IF ask.kind = "revoke" /\ ask.who \notin granted THEN Done
                ELSE [@ EXCEPT !.ask = ask,
                               !.at = IF ask.kind = "update" THEN "change" ELSE "load"]]
    /\ history' = [history EXCEPT
                     !.crossed = @ \/ (\E p \in Ops : Running(p)) \/ hup.at # "idle",
                     !.hupCrossed = @ \/ hup.at # "idle",
                     !.thisHup = @ \/ hup.at # "idle"]
    /\ UNCHANGED <<config, writer, disk, granted, Limiter, Reload>>

\* add_ip, remove_ip, add_key and revoke_key copy the set, change the copy
\* and store it.
Load(o) ==
    /\ op[o].at = "load"
    /\ op' = [op EXCEPT ![o].at = "store", ![o].copy = granted \cap SameStore(op[o].ask.who)]
    /\ UNCHANGED <<config, writer, disk, granted, Limiter, Reload, history>>

\* Mutant: a removed subject stays in the set.
StoreOnlyAdds(o) ==
    /\ op[o].at = "store"
    /\ op' = [op EXCEPT ![o].at = "change", ![o].copy = {}]
    /\ granted' = granted \cup op[o].copy
         \cup (IF op[o].ask.kind \in {"add", "create"} THEN {op[o].ask.who} ELSE {})
    /\ UNCHANGED <<config, writer, disk, Limiter, Reload, history>>

\* revoke_key stores nothing if the key is not in its copy.
Store(o) ==
    LET ask == op[o].ask
        copy == op[o].copy
        others == granted \ SameStore(ask.who)
    IN  /\ op[o].at = "store"
        /\ op' = [op EXCEPT ![o].at = "change", ![o].copy = {}]
        /\ granted' = CASE ask.kind \in {"add", "create"} -> others \cup copy \cup {ask.who}
                        [] ask.kind = "revoke" /\ ask.who \notin copy -> granted
                        [] OTHER -> others \cup (copy \ {ask.who})
        /\ UNCHANGED <<config, writer, disk, Limiter, Reload, history>>

\* config with the change that is asked for; update_ip and revoke_api_key
\* change the first entry they find.
Changed(ask) ==
    LET s == ask.who
    IN  CASE ask.kind \in {"add", "create"} ->
               [config EXCEPT ![s] = Append(@, [limit |-> ask.limit, live |-> TRUE])]
          [] ask.kind = "remove" -> [config EXCEPT ![s] = <<>>]
          [] ask.kind = "update" -> [config EXCEPT ![s][1].limit = ask.limit]
          [] ask.kind = "revoke" ->
               IF config[s] = <<>> THEN config ELSE [config EXCEPT ![s][1].live = FALSE]

Made(ask) == IF ask.kind = "create" THEN history.made \cup {ask.who} ELSE history.made

\* Whose place in the set of those who are let in is at stake.
Settles(ask) == IF ask.kind = "update" THEN {} ELSE {ask.who}

\* Persisting holds a read lock from the moment the file is opened.
Saving(o) == op[o].at \in {"write", "rename"}
Unlocked == writer = Free /\ \A o \in Ops : ~Saving(o)

\* update_ip without an entry answers 404.
NotFound(o) ==
    /\ op[o].ask.kind = "update" /\ config[op[o].ask.who] = <<>>
    /\ Unlocked
    /\ op[o].at = "change" /\ op' = [op EXCEPT ![o] = Done]
    /\ UNCHANGED <<config, writer, disk, granted, Limiter, Reload, history>>

\* Mutant: the rate limiter is given the configuration before it is changed.
ChangeAfterReload(o) ==
    /\ op[o].ask.kind = "update" => config[op[o].ask.who] # <<>>
    /\ Unlocked
    /\ OpTo(o, "change", "clear")
    /\ writer' = o
    /\ config' = Changed(op[o].ask)
    /\ StoreLimits(config)
    /\ history' = [history EXCEPT !.made = Made(op[o].ask),
                                  !.halfDone = @ \ Settles(op[o].ask)]
    /\ UNCHANGED <<disk, granted, table, Reload>>

\* Under the write lock until the reload is done.
Change(o) ==
    /\ op[o].ask.kind = "update" => config[op[o].ask.who] # <<>>
    /\ Unlocked
    /\ OpTo(o, "change", "clear")
    /\ writer' = o
    /\ config' = Changed(op[o].ask)
    /\ StoreLimits(config')
    /\ history' = [history EXCEPT !.made = Made(op[o].ask),
                                  !.halfDone = @ \ Settles(op[o].ask)]
    /\ UNCHANGED <<disk, granted, table, Reload>>

Clear(o) ==
    /\ OpTo(o, "clear", "insert")
    /\ ClearLimiters
    /\ UNCHANGED <<config, writer, disk, granted, limits, check, Reload>>

Insert(o) ==
    /\ OpTo(o, "insert", "save")
    /\ InsertLimiters(config)
    /\ writer' = Free
    /\ UNCHANGED <<config, disk, granted, limits, Reload>>

\* The client hangs up while its request waits for the lock, to change the
\* configuration or to save it: the handler is dropped there, with the set
\* changed and the configuration not, or the file not.  Other holders of the
\* lock (health_check, ws_stats_stream) may make it wait at any time.
Dropped(o) ==
    /\ op[o].at \in {"change", "save"}
    /\ op' = [op EXCEPT ![o] = Done]
    /\ history' = [history EXCEPT
         !.made = Made(op[o].ask),
         !.halfDone = IF op[o].at = "change" THEN @ \cup Settles(op[o].ask) ELSE @,
         !.fileDiffers = @ \/ op[o].at = "save"]
    /\ UNCHANGED <<config, writer, disk, granted, Limiter, Reload>>

-----------------------------------------------------------------------------
(* persist_config and Config::save: write to toml.tmp, then rename.  Two     *)
(* requests may do it at once, with one toml.tmp between them.  A file is    *)
(* named after the request that created it.                                 *)

\* Mutant: the configuration is written in place.
OpenInPlace(o) ==
    /\ writer = Free
    /\ op[o].at = "save"
    /\ op' = [op EXCEPT ![o].at = "write", ![o].file = disk.path]
    /\ disk' = [disk EXCEPT !.tmp = disk.path, !.content[disk.path] = Torn]
    /\ history' = [history EXCEPT !.savesCrossed = @ \/ \E p \in Ops : Saving(p)]
    /\ UNCHANGED <<config, writer, granted, Limiter, Reload>>

\* The read lock; opening truncates the file, or creates it.
Open(o) ==
    LET f == IF disk.tmp = Free THEN o ELSE disk.tmp
    IN  /\ writer = Free
        /\ op[o].at = "save"
        /\ op' = [op EXCEPT ![o].at = "write", ![o].file = f]
        /\ disk' = [disk EXCEPT !.tmp = f, !.content[f] = Torn]
        /\ history' = [history EXCEPT !.savesCrossed = @ \/ \E p \in Ops : Saving(p)]
        /\ UNCHANGED <<config, writer, granted, Limiter, Reload>>

Write(o) ==
    /\ OpTo(o, "write", "rename")
    /\ disk' = [disk EXCEPT !.content[op[o].file] = {config}]
    /\ UNCHANGED <<config, writer, granted, Limiter, Reload, history>>

\* Without a toml.tmp the rename fails, which is only logged.  The file that
\* had the name is gone.
Rename(o) ==
    /\ op[o].at = "rename" /\ op' = [op EXCEPT ![o] = Done]
    /\ IF disk.tmp = Free THEN UNCHANGED <<disk, history>>
       ELSE /\ disk' = [disk EXCEPT !.path = disk.tmp, !.tmp = Free,
                                !.content[disk.path] = IF disk.path = disk.tmp THEN @ ELSE Torn]
            /\ history' = [history EXCEPT !.fileDiffers = @ /\ history.savesCrossed]
    /\ UNCHANGED <<config, writer, granted, Limiter, Reload>>

\* The disk is full or read-only: a warning, and the request succeeds.
SaveFails(o) ==
    /\ op[o].at = "save" => writer = Free
    /\ op[o].at = "save" \/ Saving(o)
    /\ op' = [op EXCEPT ![o] = Done]
    /\ history' = [history EXCEPT !.fileDiffers = TRUE]
    /\ UNCHANGED <<config, writer, disk, granted, Limiter, Reload>>

-----------------------------------------------------------------------------
(* SIGHUP.                                                                  *)

HupTo(from, to) == hup.at = from /\ hup' = [hup EXCEPT !.at = to] /\ UNCHANGED hups

\* The operator writes another configuration into the file; a key that the
\* dashboard is to make is not in it before it is made.
Edit(conf) ==
    /\ \A ask \in Asks :
         ask.kind = "create" /\ conf[ask.who] # <<>> => ask.who \in history.made
    /\ hups < MaxHups /\ FileConfig # {conf}
    /\ disk' = [disk EXCEPT !.content[disk.path] = {conf}]
    /\ history' = [history EXCEPT !.fileDiffers = TRUE]
    /\ UNCHANGED <<config, writer, granted, Limiter, op, Reload>>

\* A file that is not a configuration is reported, and nothing changes.
HupLoad ==
    /\ hup.at = "idle" /\ hups < MaxHups
    /\ hups' = hups + 1
    /\ \/ FileConfig = Torn /\ UNCHANGED <<hup, history>>
       \/ \E conf \in FileConfig :
            LET busy == \E o \in Ops : Running(o)
            IN  /\ busy => Cardinality(Begun) <= MaxMet
                /\ hup' = [at |-> "list", new |-> conf]
                /\ history' = [history EXCEPT
                     !.crossed = @ \/ busy, !.hupCrossed = @ \/ busy,
                     !.thisHup = busy, !.fileDiffers = FALSE]
    /\ UNCHANGED <<config, writer, disk, granted, Limiter, op>>

HupList ==
    /\ HupTo("list", "limits")
    /\ granted' = (granted \cap Keys) \cup (Live(hup.new) \cap IPs)
    /\ UNCHANGED <<config, writer, disk, Limiter, op, history>>

HupLimits ==
    /\ HupTo("limits", "clear")
    /\ StoreLimits(hup.new)
    /\ UNCHANGED <<config, writer, disk, granted, table, op, history>>

HupClear ==
    /\ HupTo("clear", "insert")
    /\ ClearLimiters
    /\ UNCHANGED <<config, writer, disk, granted, limits, check, op>>

HupInsert ==
    /\ HupTo("insert", "keys")
    /\ InsertLimiters(hup.new)
    /\ UNCHANGED <<config, writer, disk, granted, limits, op>>

HupKeys ==
    /\ HupTo("keys", "config")
    /\ granted' = (granted \cap IPs) \cup (Live(hup.new) \cap Keys)
    /\ UNCHANGED <<config, writer, disk, Limiter, op, history>>

\* Only now the write lock.  A reload that met no dashboard request makes up
\* for all that went wrong before it.
HupConfig ==
    /\ Unlocked
    /\ hup.at = "config" /\ hup' = NoHup /\ UNCHANGED hups
    /\ config' = hup.new
    /\ history' = [history EXCEPT !.crossed = @ /\ history.thisHup,
                                  !.hupCrossed = @ /\ history.thisHup,
                                  !.halfDone = IF history.thisHup THEN @ ELSE {}]
    /\ UNCHANGED <<writer, disk, granted, Limiter, op>>

-----------------------------------------------------------------------------
(* RPC requests.                                                            *)

CheckTo(c, new) == check' = [check EXCEPT ![c] = new]
Access == <<config, writer, disk, granted, limits, op, Reload>>

\* Authorised by IP or by key; then the body is read.
Authorize(c, s) ==
    /\ check[c].at = "idle" /\ s \in granted
    /\ CheckTo(c, [Idle EXCEPT !.at = "authorized", !.who = s])
    /\ UNCHANGED <<Access, table, history>>

LimiterCount == Cardinality({s \in IPs : table[s] # None})

\* The request goes on with the limiter it found, or is refused because there
\* are too many.
Checked(c) ==
    LET s == check[c].who
    IN  /\ check[c].at = "authorized"
        /\ table[s] # None \/ (s \in IPs /\ LimiterCount >= MaxIpLimiters)
        /\ CheckTo(c, Idle)
        /\ UNCHANGED <<Access, table, history>>

\* get_or_create_limiters reads the limits ...
Create(c) ==
    LET s == check[c].who
    IN  /\ check[c].at = "authorized"
        /\ table[s] = None /\ (s \in IPs => LimiterCount < MaxIpLimiters)
        /\ CheckTo(c, [check[c] EXCEPT !.at = "creating", !.limit = LookUp(limits, s)])
        /\ UNCHANGED <<Access, table, history>>

\* ... and inserts what it made of them, whatever happened in between.
Created(c) ==
    LET s == check[c].who
    IN  /\ check[c].at = "creating"
        /\ table' = [table EXCEPT ![s] = check[c].limit]
        /\ history' = [history EXCEPT !.raced = IF check[c].stale THEN @ \cup {s} ELSE @]
        /\ CheckTo(c, Idle)
        /\ UNCHANGED Access

Next ==
    \/ \E o \in Ops :
         \/ \E ask \in Asks : Ask(o, ask)
         \/ Load(o) \/ Store(o) \/ NotFound(o) \/ Change(o) \/ Clear(o) \/ Insert(o)
         \/ Dropped(o) \/ Open(o) \/ Write(o) \/ Rename(o) \/ SaveFails(o)
    \/ \E conf \in Edits : Edit(conf)
    \/ HupLoad \/ HupList \/ HupLimits \/ HupClear \/ HupInsert \/ HupKeys \/ HupConfig
    \/ \E c \in Checks :
         \/ \E s \in Subjects : Authorize(c, s)
         \/ Checked(c) \/ Create(c) \/ Created(c)

Spec == Init /\ [][Next]_vars

-----------------------------------------------------------------------------
(* Properties.  history.crossed: a dashboard request ran while another one   *)
(* or a reload did, hupCrossed: while a reload did, both since the last      *)
(* reload that ran alone (~thisHup); halfDone: subjects of requests that     *)
(* were dropped halfway since then, unless another one settled them;         *)
(* fileDiffers: a save failed or was dropped, or an operator wrote to the    *)
(* file, since the last reload, or since the last save if no two saves ran   *)
(* at once (savesCrossed); made: keys that were made; raced: limiters        *)
(* created from limits that a reload replaced meanwhile.                    *)

Calm == hup.at = "idle" /\ \A o \in Ops : ~Running(o)

\* When no two changes overlapped, who is let in is who the configuration
\* names once they are done, after any sequence of dashboard requests, failed
\* saves and reloads.  A request that its client gave up while it waited for the
\* lock (handlers.rs:123-126, 198-200, 323-335, 373-376) leaves its own subject
\* in between, and no other, until a request about that subject is done; and a
\* reload that runs alone repairs what overlapping or dropped requests left
\* behind (main.rs:136-149).
GrantsFollowConfig ==
    Calm /\ ~history.crossed =>
        \A s \in Subjects \ history.halfDone : s \in granted <=> s \in Live(config)

\* Dashboard requests that overlap one another still leave the rate limiter
\* and the file with the configuration, because both are written under its
\* lock, also when two of them save through one toml.tmp at once or one is
\* dropped on the way (handlers.rs:30-35, 125-138, config.rs:306-312).
LockedCopiesAgree ==
    Calm /\ ~history.hupCrossed =>
        limits = config /\ (history.fileDiffers \/ FileConfig = {config})

\* Between reloads every limiter is the one its subject is due: its last
\* entry's, or the default, whatever requests created while a reload ran, but
\* for those that had read the limits before (rate_limiter.rs:110-162, 164-202).
LimitsInForce ==
    /\ hup.at \notin {"clear", "insert"}
    /\ \A o \in Ops : op[o].at \notin {"clear", "insert"}
    /\ ~history.hupCrossed
    => \A s \in Subjects \ history.raced : table[s] \in {None, InForce(limits, s)}

\* At any moment, a crash included, the file is a whole configuration, unless
\* two requests saved at once (config.rs:306-312).
FileIsWhole == ~history.savesCrossed => FileConfig # Torn
=============================================================================
