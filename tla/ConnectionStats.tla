--------------------------- MODULE ConnectionStats ---------------------------
(*****************************************************************************)
(* The counters of src/src/stats.rs for RPC requests (proxy/http_rpc.rs) and *)
(* WebSocket connections (proxy/websocket.rs), and the statistics file: it   *)
(* is saved by a periodic task and once more at shutdown (main.rs), and      *)
(* restored when the process starts.                                         *)
(*                                                                           *)
(* Handlers are tasks; their atomic operations on shared counters, and the   *)
(* loads of a save, are steps, seen in program order (they are Relaxed: the  *)
(* compiler and the processor are taken not to reorder them).  hyper drops   *)
(* the future of a request whose client leaves, at its only await behind the *)
(* counters; a WebSocket handler is a task of its own and runs to its end.   *)
(* The process may die at any step; what it wrote to a file stays.           *)
(*                                                                           *)
(* total_rpc_requests stands for all totals of an IP.  Left out: requests    *)
(* that are refused before they are counted, the counters of the last        *)
(* second, and the relayed messages.  The stream counters are those of       *)
(* SubscribeSupervisor.                                                      *)
(*****************************************************************************)
EXTENDS Naturals, FiniteSets, Functions

CONSTANTS
    IPs,
    Calls,       \* RPC handlers
    Sockets,     \* WebSocket handlers
    Ip,          \* Ip[x]: the client of each handler
    MaxTotal,    \* bound: requests counted per IP
    MaxSockets   \* bound: connections accepted by a process

ASSUME StatsAssumption ==
    /\ IsFiniteSet(IPs) /\ IsFiniteSet(Calls) /\ IsFiniteSet(Sockets)
    /\ Ip \in [Calls \cup Sockets -> IPs]
    /\ MaxTotal \in Nat /\ MaxSockets \in Nat

Savers == {"periodic", "shutdown"}

VARIABLES
    process,    \* "running", "stopping" or "down"
    call,       \* where each RPC handler is
    socket,     \* where each WebSocket handler is
    activeRpc,  \* active_rpc_conns of each IP
    activeWs,   \* active_ws_conns
    total,      \* total_rpc_requests
    global,     \* global_total_requests
    saver,      \* saver[s]: [at, todo, snap, file] of a save_to_file call
    disk,       \* what stats.json ("path") and stats.json.tmp ("tmp") hold
    leaked,     \* history: [rpc, ws], counts of each IP that nobody gives back
    accepted,   \* history: connections accepted by this process
    durable,    \* history: the totals of the last save that completed
    crossed     \* history: two saves have overlapped

connections == <<call, socket, activeRpc, activeWs, leaked, accepted>>
totals == <<total, global>>
saving == <<saver, disk, durable, crossed>>
vars == <<process, connections, totals, saving>>

Zero == [ip \in IPs |-> 0]
Bump(f, ip) == [f EXCEPT ![ip] = @ + 1]
Lower(f, ip) == [f EXCEPT ![ip] = @ - 1]

\* What a save writes, and a file that is no such thing: not there, not yet
\* written, cut off or mixed.
Snapshots == [global : 0..(MaxTotal * Cardinality(IPs)), per : [IPs -> 0..MaxTotal]]
Nothing == [global |-> 0, per |-> Zero]
Torn == {}

\* The name that a save's open file goes by now; "none" when it has lost it,
\* or when no file is open.
Names == {"path", "tmp"}

Idle == [at |-> "idle", todo |-> {}, snap |-> Nothing, file |-> "none"]

TypeOK ==
    /\ process \in {"running", "stopping", "down"}
    /\ call \in [Calls -> {"none", "recorded", "routing"}]
    /\ socket \in [Sockets -> {"none", "connecting", "open"}]
    /\ activeRpc \in [IPs -> Nat] /\ activeWs \in [IPs -> Nat]
    /\ total \in [IPs -> 0..MaxTotal] /\ global \in Nat
    /\ saver \in [Savers -> [at : {"idle", "load", "open", "write", "rename", "done"},
                             todo : SUBSET IPs, snap : Snapshots, file : Names \cup {"none"}]]
    /\ disk \in [content : [Names -> SUBSET Snapshots], tmpExists : BOOLEAN]
    /\ leaked \in [rpc : [IPs -> Nat], ws : [IPs -> Nat]] /\ accepted \in 0..MaxSockets
    /\ durable \in Snapshots /\ crossed \in BOOLEAN

Init ==
    /\ process = "running"
    /\ call = [q \in Calls |-> "none"] /\ socket = [w \in Sockets |-> "none"]
    /\ activeRpc = Zero /\ activeWs = Zero
    /\ total = Zero /\ global = 0
    /\ saver = [s \in Savers |-> Idle]
    /\ disk = [content |-> [f \in Names |-> Torn], tmpExists |-> FALSE]
    /\ leaked = [rpc |-> Zero, ws |-> Zero] /\ accepted = 0
    /\ durable = Nothing /\ crossed = FALSE

Alive == process # "down"

-----------------------------------------------------------------------------
(* RPC requests: record_rpc, the active counter, and the await of a node.   *)

CallTo(q, from, to) == Alive /\ call[q] = from /\ call' = [call EXCEPT ![q] = to]

\* record_rpc counts the request for its IP ...
RecordIp(q) ==
    /\ total[Ip[q]] < MaxTotal
    /\ CallTo(q, "none", "recorded")
    /\ total' = Bump(total, Ip[q])
    /\ UNCHANGED <<process, socket, activeRpc, activeWs, leaked, accepted, global, saving>>

\* ... and globally; then the request is active and goes to the router.
RecordGlobal(q) ==
    /\ CallTo(q, "recorded", "routing")
    /\ global' = global + 1
    /\ activeRpc' = Bump(activeRpc, Ip[q])
    /\ UNCHANGED <<process, socket, activeWs, leaked, accepted, total, saving>>

Respond(q) ==
    /\ CallTo(q, "routing", "none")
    /\ activeRpc' = Lower(activeRpc, Ip[q])
    /\ UNCHANGED <<process, socket, activeWs, leaked, accepted, totals, saving>>

\* The client leaves, the handler is dropped: nobody lowers the counter.
ClientLeaves(q) ==
    /\ CallTo(q, "routing", "none")
    /\ leaked' = [leaked EXCEPT !.rpc = Bump(@, Ip[q])]
    /\ UNCHANGED <<process, socket, activeRpc, activeWs, accepted, totals, saving>>

-----------------------------------------------------------------------------
(* WebSocket connections.                                                   *)

SocketTo(w, from, to) == Alive /\ socket[w] = from /\ socket' = [socket EXCEPT ![w] = to]

\* Mutant: the connection is not counted before its upstream answers.
AcceptUncounted(w) ==
    /\ SocketTo(w, "none", "connecting")
    /\ accepted < MaxSockets /\ accepted' = accepted + 1
    /\ UNCHANGED <<process, call, activeRpc, activeWs, leaked, totals, saving>>

\* A node was picked and the handshake is done.
Accept(w) ==
    /\ SocketTo(w, "none", "connecting")
    /\ accepted < MaxSockets /\ accepted' = accepted + 1
    /\ activeWs' = Bump(activeWs, Ip[w])
    /\ UNCHANGED <<process, call, activeRpc, leaked, totals, saving>>

\* connect_async fails: the handler returns, and the count stays.
UpstreamFails(w) ==
    /\ SocketTo(w, "connecting", "none")
    /\ leaked' = [leaked EXCEPT !.ws = Bump(@, Ip[w])]
    /\ UNCHANGED <<process, call, activeRpc, activeWs, accepted, totals, saving>>

UpstreamConnects(w) ==
    /\ SocketTo(w, "connecting", "open")
    /\ UNCHANGED <<process, call, activeRpc, activeWs, leaked, accepted, totals, saving>>

\* One of the two directions ended.
Close(w) ==
    /\ SocketTo(w, "open", "none")
    /\ activeWs' = Lower(activeWs, Ip[w])
    /\ UNCHANGED <<process, call, activeRpc, leaked, accepted, totals, saving>>

-----------------------------------------------------------------------------
(* save_to_file: load the counters, write stats.json.tmp, rename it.  The    *)
(* save at shutdown may meet the periodic one, with one tmp between them.   *)

Busy(s) == saver[s].at \in {"load", "open", "write", "rename"}

\* The periodic save's tick, or the shutdown: the global total is loaded.
LoadGlobal(s) ==
    /\ process = IF s = "periodic" THEN process ELSE "stopping"
    /\ Alive /\ saver[s].at = "idle"
    /\ saver' = [saver EXCEPT ![s].at = "load", ![s].todo = IPs, ![s].snap.global = global]
    /\ crossed' = (crossed \/ \E o \in Savers : Busy(o))
    /\ UNCHANGED <<process, connections, totals, disk, durable>>

\* Mutant: the global total is loaded last.
LoadGlobalLast(s, ip) ==
    /\ saver[s].at = "load" /\ ip \in saver[s].todo
    /\ saver' = [saver EXCEPT
         ![s].snap.per[ip] = total[ip], ![s].snap.global = global, ![s].todo = @ \ {ip},
         ![s].at = IF saver[s].todo = {ip} THEN "open" ELSE "load"]
    /\ UNCHANGED <<process, connections, totals, disk, durable, crossed>>

\* The map's iterator comes to an IP.
LoadIp(s, ip) ==
    /\ saver[s].at = "load" /\ ip \in saver[s].todo
    /\ saver' = [saver EXCEPT
         ![s].snap.per[ip] = total[ip], ![s].todo = @ \ {ip},
         ![s].at = IF saver[s].todo = {ip} THEN "open" ELSE "load"]
    /\ UNCHANGED <<process, connections, totals, disk, durable, crossed>>

\* Mutant: the old stats.json is removed first.
OpenRemoving(s) ==
    /\ saver[s].at = "open"
    /\ saver' = [saver EXCEPT ![s].at = "write", ![s].file = "tmp"]
    /\ disk' = [content |-> [f \in Names |-> Torn], tmpExists |-> TRUE]
    /\ UNCHANGED <<process, connections, totals, durable, crossed>>

\* Opening truncates stats.json.tmp, or creates it.
Open(s) ==
    /\ saver[s].at = "open"
    /\ saver' = [saver EXCEPT ![s].at = "write", ![s].file = "tmp"]
    /\ disk' = [disk EXCEPT !.content["tmp"] = Torn, !.tmpExists = TRUE]
    /\ UNCHANGED <<process, connections, totals, durable, crossed>>

\* Where another save has written since, the longer text may show behind the
\* shorter one.  The file may have been renamed, or replaced, since it was opened.
Write(s) ==
    LET f == saver[s].file
    IN  /\ saver[s].at = "write"
        /\ saver' = [saver EXCEPT ![s].at = "rename"]
        /\ IF f = "none" THEN UNCHANGED disk
           ELSE \E c \in {{saver[s].snap}} \cup (IF disk.content[f] = Torn THEN {} ELSE {Torn}) :
                   disk' = [disk EXCEPT !.content[f] = c]
        /\ UNCHANGED <<process, connections, totals, durable, crossed>>

\* After the save at shutdown the process only waits to exit.
Finished(s) == IF s = "periodic" THEN Idle ELSE [Idle EXCEPT !.at = "done"]

\* An open file keeps its content under its new name, or loses its name.
AfterRename(file) == IF file = "tmp" THEN "path" ELSE "none"

\* Without a tmp file the rename fails, which is only logged.
Rename(s) ==
    LET end == [saver EXCEPT ![s] = Finished(s)]
    IN  /\ saver[s].at = "rename"
        /\ IF disk.tmpExists
           THEN /\ disk' = [content |-> [path |-> disk.content["tmp"], tmp |-> Torn],
                            tmpExists |-> FALSE]
                /\ saver' = [o \in Savers |-> [end[o] EXCEPT !.file = AfterRename(@)]]
                /\ durable' = saver[s].snap
           ELSE saver' = end /\ UNCHANGED <<disk, durable>>
        /\ UNCHANGED <<process, connections, totals, crossed>>

\* The disk is full or read-only: a warning.
SaveFails(s) ==
    /\ saver[s].at \in {"open", "write", "rename"}
    /\ saver' = [saver EXCEPT ![s] = Finished(s)]
    /\ UNCHANGED <<process, connections, totals, disk, durable, crossed>>

-----------------------------------------------------------------------------
(* The process.                                                             *)

\* A signal, or one of the servers failed; the spawned tasks run on.
Shutdown ==
    /\ process = "running" /\ process' = "stopping"
    /\ UNCHANGED <<connections, totals, saving>>

Dies ==
    /\ process' = "down"
    /\ call' = [q \in Calls |-> "none"] /\ socket' = [w \in Sockets |-> "none"]
    /\ activeRpc' = Zero /\ activeWs' = Zero
    /\ leaked' = [rpc |-> Zero, ws |-> Zero] /\ accepted' = 0
    /\ total' = Zero /\ global' = 0
    /\ saver' = [s \in Savers |-> Idle]
    /\ UNCHANGED <<disk, durable, crossed>>

\* The runtime is dropped, which waits for a save that is running.
Exit == process = "stopping" /\ saver["shutdown"].at = "done" /\ ~Busy("periodic") /\ Dies

Crash == Alive /\ Dies

\* Stats::new, load_from_file and restore, before anything is served.
Start ==
    LET found == disk.content["path"]
        persisted == IF found = Torn THEN Nothing ELSE CHOOSE snap \in found : TRUE
    IN  /\ process = "down" /\ process' = "running"
        /\ total' = persisted.per /\ global' = persisted.global
        /\ durable' = persisted /\ crossed' = FALSE
        /\ UNCHANGED <<connections, saver, disk>>

Next ==
    \/ \E q \in Calls : RecordIp(q) \/ RecordGlobal(q) \/ Respond(q) \/ ClientLeaves(q)
    \/ \E w \in Sockets : Accept(w) \/ UpstreamFails(w) \/ UpstreamConnects(w) \/ Close(w)
    \/ \E s \in Savers :
         \/ LoadGlobal(s) \/ \E ip \in IPs : LoadIp(s, ip)
         \/ Open(s) \/ Write(s) \/ Rename(s) \/ SaveFails(s)
    \/ Shutdown \/ Exit \/ Crash \/ Start

Spec == Init /\ [][Next]_vars

-----------------------------------------------------------------------------
(* Properties.                                                              *)

At(f, ip, places) == Cardinality({x \in DOMAIN f : f[x] \in places /\ Ip[x] = ip})

\* The active counters of an IP never fall below its requests and connections
\* (a u64 that fell below zero would show as 2^64 - 1), and exceed them by
\* what was abandoned on the two paths that forget to decrement: a request
\* whose client left, a connection whose upstream did not answer
\* (http_rpc.rs:128-165, websocket.rs:83-119).
ActiveIsAccountedFor ==
    \A ip \in IPs :
        /\ activeRpc[ip] = At(call, ip, {"routing"}) + leaked.rpc[ip]
        /\ activeWs[ip] = At(socket, ip, {"connecting", "open"}) + leaked.ws[ip]

Consistent(snap) == snap.global <= SumFunction(snap.per)

\* The global total never exceeds the sum over the IPs, in memory, in every
\* file and through every restart: a request is counted for its IP first
\* (stats.rs:134-141), a save loads the global total first (stats.rs:190-196).
GlobalNeverAhead ==
    /\ Consistent([global |-> global, per |-> total])
    /\ \A f \in Names : \A snap \in disk.content[f] : Consistent(snap)

\* What the last completed save wrote is restored, whenever the process died
\* since then, also in the middle of a later save; two saves that overlap are
\* excluded (stats.rs:213-216).
SavedIsRestored ==
    [][process = "down" /\ process' = "running" /\ ~crossed =>
         total' = durable.per /\ global' = durable.global]_vars
=============================================================================
