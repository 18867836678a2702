---------------------------- MODULE ManagedChannel ----------------------------
(***************************************************************************)
(* One pooled gRPC channel of src/src/cluster/grpc_pool.rs, shared by every *)
(* task that talks to one upstream node.                                   *)
(*                                                                         *)
(* A task that finds no cached channel races the others for the flag        *)
(* `connecting`.  The winner connects, stores the channel, clears the flag  *)
(* and wakes the waiters; a loser waits for that wake-up, ten seconds at    *)
(* most.  Each atomic load, store or compare_exchange is a step of its own, *)
(* so that the tasks interleave between any two of them as they do on the   *)
(* multi-threaded runtime.                                                  *)
(*                                                                         *)
(* The callers differ in two ways that matter here:                         *)
(*   Mux     upstream loops of grpc_mux.rs: never cancelled; invalidate the *)
(*           channel when the subscribe call or the stream fails;           *)
(*   Direct  upstream managers of grpc_yellowstone.rs: cancelled when the   *)
(*           client goes away, also while they connect; invalidate after    *)
(*           every failure, that of get() itself included;                  *)
(*   Unary   unary handlers of grpc_yellowstone.rs: dropped with the        *)
(*           request, never invalidate.                                     *)
(* A channel is only told apart from no channel: what it carries and        *)
(* whether its peer is alive belongs to the tasks that use it.              *)
(***************************************************************************)
EXTENDS Naturals, FiniteSets

CONSTANTS Mux, Direct, Unary      \* the tasks that share the channel

ASSUME CallersDisjoint ==
    /\ Mux \cap Direct = {}
    /\ Mux \cap Unary = {}
    /\ Direct \cap Unary = {}

Tasks == Mux \cup Direct \cup Unary

\* Tasks whose future may be dropped at an await point.
Cancellable == Direct \cup Unary

VARIABLES
    channel,      \* TRUE iff ManagedChannel.channel holds Some(ch)
    connecting,   \* ManagedChannel.connecting
    pc,           \* where each task is inside get()/reconnect()
    outcome       \* what the last get() of each task returned

poolVars == <<channel, connecting, pc, outcome>>

(***************************************************************************)
(* Where a task is:                                                        *)
(*   idle        not inside get()                                          *)
(*   uncached    loaded None, about to compete for the flag                *)
(*   lost        its compare_exchange failed, notified() not created yet   *)
(*   waiting     its Notified future exists and can be woken               *)
(*   woken       a notify_waiters() reached it                             *)
(*   connecting  won the flag, inside endpoint.connect().await             *)
(*   stored      stored the new channel, flag still set                    *)
(*   cleared, failed   cleared the flag after a success, after a failure;  *)
(*               the waiters are not notified yet                          *)
(***************************************************************************)
Places == {"idle", "uncached", "lost", "waiting", "woken",
           "connecting", "stored", "cleared", "failed"}

Outcomes == {"none", "ok", "err"}

PoolTypeOK ==
    /\ channel \in BOOLEAN
    /\ connecting \in BOOLEAN
    /\ pc \in [Tasks -> Places]
    /\ outcome \in [Tasks -> Outcomes]

PoolInit ==
    /\ channel = FALSE
    /\ connecting = FALSE
    /\ pc = [t \in Tasks |-> "idle"]
    /\ outcome = [t \in Tasks |-> "none"]

Goto(t, from, to) == pc[t] = from /\ pc' = [pc EXCEPT ![t] = to]

\* get() or reconnect() returns r to its caller.
Return(t, from, r) ==
    /\ Goto(t, from, "idle")
    /\ outcome' = [outcome EXCEPT ![t] = r]

-----------------------------------------------------------------------------
(* get(): a cached channel is returned at once.                             *)

GetCached(t) ==
    /\ channel
    /\ Return(t, "idle", "ok")
    /\ UNCHANGED <<channel, connecting>>

GetUncached(t) ==
    /\ ~channel
    /\ Goto(t, "idle", "uncached")
    /\ UNCHANGED <<channel, connecting, outcome>>

(* reconnect(): the compare_exchange on the flag.                           *)

\* Mutant: a plain store instead of the compare_exchange.
StoreFlag(t) ==
    /\ connecting' = TRUE
    /\ Goto(t, "uncached", "connecting")
    /\ UNCHANGED <<channel, outcome>>

WinFlag(t) ==
    /\ ~connecting
    /\ connecting' = TRUE
    /\ Goto(t, "uncached", "connecting")
    /\ UNCHANGED <<channel, outcome>>

LoseFlag(t) ==
    /\ connecting
    /\ Goto(t, "uncached", "lost")
    /\ UNCHANGED <<channel, connecting, outcome>>

(* The loser: tokio's Notified future hears every notify_waiters() call     *)
(* made after it was created and none made before.                          *)

CreateNotified(t) ==
    /\ Goto(t, "lost", "waiting")
    /\ UNCHANGED <<channel, connecting, outcome>>

\* Woken in time: the channel is loaded once more.
LoadAfterWake(t) ==
    /\ Return(t, "woken", IF channel THEN "ok" ELSE "err")
    /\ UNCHANGED <<channel, connecting>>

\* Mutant: notified() awaited without a timeout.
WaitForever(t) == FALSE /\ UNCHANGED poolVars

\* Ten seconds passed without a wake-up.
WaitTimeout(t) ==
    /\ Return(t, "waiting", "err")
    /\ UNCHANGED <<channel, connecting>>

(* The winner.                                                              *)

ConnectOk(t) ==
    /\ Goto(t, "connecting", "stored")
    /\ channel' = TRUE
    /\ UNCHANGED <<connecting, outcome>>

\* Mutant: the error path leaves the flag set.
ConnectErrKeepsFlag(t) ==
    /\ Goto(t, "connecting", "failed")
    /\ UNCHANGED <<channel, connecting, outcome>>

ConnectErr(t) ==
    /\ Goto(t, "connecting", "failed")
    /\ connecting' = FALSE
    /\ UNCHANGED <<channel, outcome>>

ClearFlag(t) ==
    /\ Goto(t, "stored", "cleared")
    /\ connecting' = FALSE
    /\ UNCHANGED <<channel, outcome>>

\* notify_waiters(), then the winner returns its own result.
NotifyWaiters(t) ==
    /\ pc[t] \in {"cleared", "failed"}
    /\ pc' = [u \in Tasks |->
                IF u = t THEN "idle"
                ELSE IF pc[u] = "waiting" THEN "woken" ELSE pc[u]]
    /\ outcome' = [outcome EXCEPT ![t] = IF pc[t] = "cleared" THEN "ok" ELSE "err"]
    /\ UNCHANGED <<channel, connecting>>

-----------------------------------------------------------------------------
(* The callers.                                                             *)

\* The future that awaits inside get() is dropped: nothing after the await
\* runs, the code has no guard that would.
Cancel(t) ==
    /\ t \in Cancellable
    /\ pc[t] \in {"connecting", "waiting", "woken"}
    /\ pc' = [pc EXCEPT ![t] = "idle"]
    /\ outcome' = [outcome EXCEPT ![t] = "none"]
    /\ UNCHANGED <<channel, connecting>>

\* The subscribe call or the stream of a task failed (or, for a Direct
\* task, get() itself did): it drops whatever channel is cached by now.
Invalidate(t) ==
    /\ pc[t] = "idle"
    /\ \/ t \in Mux /\ outcome[t] = "ok"
       \/ t \in Direct /\ outcome[t] \in {"ok", "err"}
    /\ channel' = FALSE
    /\ outcome' = [outcome EXCEPT ![t] = "none"]
    /\ UNCHANGED <<connecting, pc>>

PoolNext ==
    \E t \in Tasks :
        \/ GetCached(t) \/ GetUncached(t)
        \/ WinFlag(t) \/ LoseFlag(t)
        \/ CreateNotified(t) \/ LoadAfterWake(t) \/ WaitTimeout(t)
        \/ ConnectOk(t) \/ ConnectErr(t) \/ ClearFlag(t) \/ NotifyWaiters(t)
        \/ Cancel(t) \/ Invalidate(t)

(***************************************************************************)
(* PoolFairness.  A task that is past an await runs on (the runtime polls every *)
(* ready task), the endpoint's connect_timeout ends every connect, and the  *)
(* ten-second timer ends every wait.  Nothing makes a caller start a get(), *)
(* fail, or be cancelled.                                                   *)
(***************************************************************************)
InsideGet(t) ==
    \/ WinFlag(t) \/ LoseFlag(t)
    \/ CreateNotified(t) \/ LoadAfterWake(t) \/ WaitTimeout(t)
    \/ ConnectOk(t) \/ ConnectErr(t) \/ ClearFlag(t) \/ NotifyWaiters(t)

PoolFairness == \A t \in Tasks : WF_poolVars(InsideGet(t))

PoolSpec == PoolInit /\ [][PoolNext]_poolVars

PoolFairSpec == PoolSpec /\ PoolFairness

-----------------------------------------------------------------------------
(* Properties.                                                              *)

\* The places in which a task owns the flag `connecting`.
Owning == {"connecting", "stored"}

\* At most one task connects at a time: the flag taken by compare_exchange
\* (grpc_pool.rs:52-56) keeps every other task out of endpoint.connect(),
\* whatever was cancelled or invalidated before.
SingleConnector ==
    \A t, u \in Tasks : pc[t] \in Owning /\ pc[u] \in Owning => t = u

\* A task owns the flag until it has stored its result: the flag is never
\* seen clear while a connect is under way, so the losers of the race wait
\* instead of connecting a second time (grpc_pool.rs:83-93).
OwnerHoldsFlag ==
    \A t \in Tasks : pc[t] \in Owning => connecting

\* Every get() returns, whatever is cancelled: the timeout around the wait
\* (grpc_pool.rs:58-62) is what guarantees it when a wake-up never comes.
GetReturns == \A t \in Tasks : pc[t] # "idle" ~> pc[t] = "idle"

\* The flag does not stay set: after a connect attempt, good or bad, the
\* next task can try again (grpc_pool.rs:87, 93), as long as only tasks that
\* are never cancelled connect.
FlagReleased ==
    [](\A t \in Cancellable : pc[t] # "connecting") => []<>(~connecting)

\* What the comment "Another task is already reconnecting" (grpc_pool.rs:57)
\* says of a task that finds the flag set.
AnotherTaskReconnects ==
    connecting => \E t \in Tasks : pc[t] \in Owning
=============================================================================
