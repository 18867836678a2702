----------------------------- MODULE GrpcFilters -----------------------------
(***************************************************************************)
(* Filters and routing of Yellowstone subscriptions: CompiledFilters of     *)
(* src/src/proxy/grpc_filter.rs, the choice between the mux and a direct    *)
(* upstream stream in grpc_yellowstone.rs, and the subscription of the mux  *)
(* itself (build_mux_subscribe_request in grpc_mux.rs).                     *)
(*                                                                         *)
(* An Option is a set with at most one element.  A key is written as text   *)
(* in a request and as bytes in an update; a text in Base58 stands for the  *)
(* bytes it decodes to, any other text decodes to nothing.  The names of    *)
(* the filters that match are a set.                                        *)
(*                                                                         *)
(* A request is a record: `transactions` maps names to transaction filters, *)
(* `slots` to sets of options (filter_by_commitment, interslot_updates),    *)
(* `entry` and `block_footer` to whether the option of the filter           *)
(* (include_update_parent, include_certificates) is on; the other fields    *)
(* are sets of names, but for `commitment` and `from_slot`, which tells     *)
(* whether that field is set.  A transaction filter and what an update      *)
(* tells of a transaction are described at CompiledTxFilter and             *)
(* collect_tx_account_keys.                                                 *)
(*                                                                         *)
(* `at` is the commitment at which a server brings an update (the status of *)
(* a slot update), and `past` tells that it is of a slot before the         *)
(* subscription.                                                            *)
(***************************************************************************)
EXTENDS Naturals

CONSTANTS
    Base58,          \* the texts that decode
    SampleRequests,  \* the requests the properties are checked on
    SampleUpdates    \* the updates they are checked on

\* Every update is of a kind that a server sends for a request; its pings and
\* pongs are not compared.
Kinds ==
    {"transaction", "slot", "interslot", "block_meta", "entry", "entry_parent",
     "block_footer", "certificate", "account", "block", "transaction_status"}

ASSUME FilterAssumption == \A u \in SampleUpdates : u.kind \in Kinds

-----------------------------------------------------------------------------
(* Compiling a request.                                                     *)

\* None for a text that is not base58; of a list, what decodes.
decode_b58(texts) == texts \cap Base58

\* vote, failed and signature are Options; cuckoo and token tell that
\* cuckoo_account_include and token_accounts are set.
CompiledTxFilter(f) ==
    [vote |-> f.vote, failed |-> f.failed,
     signature |-> decode_b58(f.signature),
     account_include |-> decode_b58(f.account_include),
     account_exclude |-> decode_b58(f.account_exclude),
     account_required |-> decode_b58(f.account_required)]

UnsupportedOptions(req) ==
    \/ \E n \in DOMAIN req.transactions :
          req.transactions[n].cuckoo # {} \/ req.transactions[n].token
    \/ \E n \in DOMAIN req.entry : req.entry[n]
    \/ \E n \in DOMAIN req.block_footer : req.block_footer[n]

from_request(req) ==
    [transactions |-> [n \in DOMAIN req.transactions |-> CompiledTxFilter(req.transactions[n])],
     slots |-> DOMAIN req.slots, blocks_meta |-> req.blocks_meta,
     entry |-> DOMAIN req.entry, block_footer |-> DOMAIN req.block_footer,
     has_accounts |-> req.accounts # {}, has_blocks |-> req.blocks # {},
     has_transactions_status |-> req.transactions_status # {},
     has_unsupported_options |-> UnsupportedOptions(req)]

-----------------------------------------------------------------------------
(* Routing.                                                                 *)

needs_direct_connection(f) ==
    f.has_accounts \/ f.has_blocks \/ f.has_transactions_status \/ f.has_unsupported_options

has_mux_subscriptions(f) ==
    \/ DOMAIN f.transactions # {}
    \/ f.slots \cup f.blocks_meta \cup f.entry \cup f.block_footer # {}

ToMux(req) ==
    LET f == from_request(req)
    IN  ~needs_direct_connection(f) /\ has_mux_subscriptions(f)

\* What the mux asks its upstreams for: every transaction, ...
MuxTxFilter ==
    [vote |-> {}, failed |-> {}, signature |-> {}, account_include |-> {},
     account_exclude |-> {}, account_required |-> {}, cuckoo |-> {}, token |-> FALSE]

\* ... slot, block meta, entry and footer, as soon as they are processed.  The
\* mux sets from_slot to fill a gap of its own.
build_mux_subscribe_request(from_slot) ==
    [transactions |-> [n \in {"mux_tx"} |-> MuxTxFilter],
     slots |-> [n \in {"mux_slot"} |-> {}], blocks_meta |-> {"mux_blocks_meta"},
     entry |-> [n \in {"mux_entry"} |-> FALSE],
     block_footer |-> [n \in {"mux_block_footer"} |-> FALSE],
     accounts |-> {}, blocks |-> {}, transactions_status |-> {},
     commitment |-> "processed", from_slot |-> from_slot]

-----------------------------------------------------------------------------
(* Matching an update.                                                      *)

\* The keys of the message, and those loaded from tables (meta is an Option).
collect_tx_account_keys(info) == info.message \cup UNION {m.loaded : m \in info.meta}

\* Mutant: one required account is enough.
matches_any_required(f, keys) ==
    /\ f.account_include # {} => \E k \in keys : k \in f.account_include
    /\ f.account_exclude # {} => ~\E k \in keys : k \in f.account_exclude
    /\ f.account_required # {} => \E k \in f.account_required : k \in keys

matches_accounts(f, keys) ==
    /\ f.account_include # {} => \E k \in keys : k \in f.account_include
    /\ f.account_exclude # {} => ~\E k \in keys : k \in f.account_exclude
    /\ f.account_required # {} => \A k \in f.account_required : k \in keys

matches_tx_filter(f, info) ==
    /\ \A want \in f.vote : want = info.is_vote
    /\ \A want \in f.failed : want = \E m \in info.meta : m.err
    /\ \A want \in f.signature : want = info.signature
    /\ matches_accounts(f, collect_tx_account_keys(info))

\* A transaction update may come without its transaction: info is an Option.
match_transaction(filters, u) ==
    {n \in DOMAIN filters.transactions :
        \E info \in u.info : matches_tx_filter(filters.transactions[n], info)}

\* Some(names), or None when there are none.
SomeNames(names) == IF names = {} THEN {} ELSE {names}

\* The Option of the names of the filters that match.
match_update(filters, u) ==
    CASE u.kind = "transaction"  -> SomeNames(match_transaction(filters, u))
      [] u.kind \in {"slot", "interslot"} -> SomeNames(filters.slots)
      [] u.kind = "block_meta"   -> SomeNames(filters.blocks_meta)
      [] u.kind = "entry"        -> SomeNames(filters.entry)
      [] u.kind = "block_footer" -> SomeNames(filters.block_footer)
      [] u.kind \in {"ping", "pong"} -> {{}}
      [] OTHER -> {}

-----------------------------------------------------------------------------
(* What a Yellowstone server sends for a request, by the meaning of its     *)
(* fields: the reference the mux is compared with.  Token accounts add the  *)
(* owners of a transaction's token accounts to its keys; an update of an    *)
(* entry's parent, a certificate, and a slot's first shred or completion    *)
(* ("interslot") are sent only for their options; slot updates are sent at  *)
(* every status, the rest at the commitment asked for; and what was before  *)
(* the subscription only for a from_slot.                                   *)

ServedTx(f, info) ==
    LET loaded == UNION {m.loaded : m \in info.meta}
        keys == info.message \cup loaded \cup (IF f.token THEN info.owners ELSE {})
        named == f.account_include \cup f.cuckoo
    IN  /\ f.vote \subseteq {info.is_vote}
        /\ f.failed \subseteq {\E m \in info.meta : m.err}
        /\ f.signature \subseteq {info.signature}
        /\ named = {} \/ named \cap keys # {}
        /\ f.account_exclude \cap keys = {}
        /\ f.account_required \subseteq keys

Timely(req, u) ==
    /\ u.past => req.from_slot
    /\ u.kind \notin {"slot", "interslot"} => u.at = req.commitment

ServedBy(req, u) ==
    CASE u.kind = "transaction" ->
            {n \in DOMAIN req.transactions :
                \E info \in u.info : ServedTx(req.transactions[n], info)}
      [] u.kind = "slot" ->
            {n \in DOMAIN req.slots : "filter_by_commitment" \in req.slots[n] => u.at = req.commitment}
      [] u.kind = "interslot" ->
            {n \in DOMAIN req.slots : "interslot_updates" \in req.slots[n]}
      [] u.kind = "block_meta"   -> req.blocks_meta
      [] u.kind = "entry"        -> DOMAIN req.entry
      [] u.kind = "entry_parent" -> {n \in DOMAIN req.entry : req.entry[n]}
      [] u.kind = "block_footer" -> DOMAIN req.block_footer
      [] u.kind = "certificate"  -> {n \in DOMAIN req.block_footer : req.block_footer[n]}
      [] u.kind = "account"      -> req.accounts
      [] u.kind = "block"        -> req.blocks
      [] u.kind = "transaction_status" -> req.transactions_status

\* The names of the filters for which the update is sent.
Served(req, u) == IF Timely(req, u) THEN ServedBy(req, u) ELSE {}

\* A server refuses a request with a key that does not decode.
Accepted(req) ==
    \A n \in DOMAIN req.transactions :
        LET f == req.transactions[n]
        IN  f.signature \cup f.account_include \cup f.account_exclude
              \cup f.account_required \subseteq Base58

-----------------------------------------------------------------------------
(* The comparison, over all samples.                                        *)

\* The mux's own stream, once it is up to date, brings the update.
Carried(u) == Served(build_mux_subscribe_request(FALSE), u) # {}

\* The Option of the names under which the mux sends the update to a client.
MuxServes(req, u) == IF Carried(u) THEN match_update(from_request(req), u) ELSE {}

\* The request as the mux reads it: what is processed from now on, and every
\* slot update that such a stream has.
Live(req) ==
    [transactions |-> req.transactions,
     slots |-> [n \in DOMAIN req.slots |-> {}], blocks_meta |-> req.blocks_meta,
     entry |-> req.entry, block_footer |-> req.block_footer,
     accounts |-> req.accounts, blocks |-> req.blocks,
     transactions_status |-> req.transactions_status,
     commitment |-> "processed", from_slot |-> FALSE]

ServesLive ==
    \A req \in SampleRequests : Accepted(req) /\ ToMux(req) =>
        \A u \in SampleUpdates : MuxServes(req, u) = SomeNames(Served(Live(req), u))
=============================================================================
