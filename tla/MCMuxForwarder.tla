---------------------------- MODULE MCMuxForwarder ----------------------------
(***************************************************************************)
(* TLC instance of MuxForwarder and of the filters it works with: requests  *)
(* with every field and option, updates of every kind, over two accounts.   *)
(***************************************************************************)
EXTENDS MuxForwarder

Option(S) == {{}} \cup {{x} : x \in S}

TxFilters ==
    [vote : Option({TRUE}), failed : Option(BOOLEAN), signature : Option({"sig"}),
     account_include : SUBSET {"a", "b"}, account_exclude : SUBSET {"a"},
     account_required : SUBSET {"a", "b"}, cuckoo : {{}}, token : {FALSE}]

\* A filter on account a, and the same with each of the options, and with a
\* key that does not decode.
OnA ==
    [vote |-> {}, failed |-> {}, signature |-> {}, account_include |-> {"a"},
     account_exclude |-> {}, account_required |-> {}, cuckoo |-> {}, token |-> FALSE]
SpecialFilters ==
    {OnA, [OnA EXCEPT !.cuckoo = {"b"}], [OnA EXCEPT !.token = TRUE],
     [OnA EXCEPT !.account_include = {"a", "0OIl"}]}

Nothing ==
    [transactions |-> [n \in {} |-> OnA], slots |-> [n \in {} |-> {}], blocks_meta |-> {},
     entry |-> [n \in {} |-> FALSE], block_footer |-> [n \in {} |-> FALSE],
     accounts |-> {}, blocks |-> {}, transactions_status |-> {},
     commitment |-> "processed", from_slot |-> FALSE]

\* One transaction filter of every form, two that differ, and requests with
\* any of the other fields, live or not.
Requests ==
    {[Nothing EXCEPT !.transactions = [n \in {"tx"} |-> f]] : f \in TxFilters \cup SpecialFilters}
    \cup {[Nothing EXCEPT !.transactions = [n \in {"tx", "tx2"} |-> IF n = "tx" THEN OnA ELSE f]] :
             f \in SpecialFilters}
    \cup [transactions : {[n \in {} |-> OnA], [n \in {"tx"} |-> OnA]},
          slots : {[n \in {} |-> {}]} \cup [{"s"} -> SUBSET {"filter_by_commitment", "interslot_updates"}],
          blocks_meta : Option({"m"}),
          entry : {[n \in {} |-> FALSE]} \cup [{"e"} -> BOOLEAN],
          block_footer : {[n \in {} |-> FALSE]} \cup [{"f"} -> BOOLEAN],
          accounts : Option({"acc"}), blocks : Option({"b"}),
          transactions_status : Option({"st"}), commitment : {"processed"}, from_slot : {FALSE}]
    \cup {[Nothing EXCEPT !.transactions = [n \in {"tx"} |-> OnA], !.slots = [n \in {"s"} |-> options],
                          !.blocks_meta = {"m"}, !.commitment = c, !.from_slot = b] :
             options \in SUBSET {"filter_by_commitment", "interslot_updates"},
             c \in {"processed", "confirmed", "finalized"}, b \in BOOLEAN}

Infos ==
    [is_vote : BOOLEAN, signature : {"sig", "other"}, message : SUBSET {"a", "b"},
     meta : Option([err : BOOLEAN, loaded : {{}, {"b"}}]), owners : {{}, {"a"}}]

Transaction(account) ==
    [kind |-> "transaction",
     info |-> {[is_vote |-> FALSE, signature |-> "sig", message |-> {account},
                meta |-> {}, owners |-> {}]},
     at |-> "processed", past |-> FALSE]

AllUpdates ==
    {[kind |-> "transaction", info |-> o, at |-> "processed", past |-> FALSE] : o \in Option(Infos)}
    \cup {[kind |-> k, info |-> {}, at |-> c, past |-> b] :
             k \in Kinds, c \in {"processed", "confirmed", "finalized"}, b \in BOOLEAN}
    \cup {[Transaction("a") EXCEPT !.at = c, !.past = b] : c \in {"processed", "confirmed"}, b \in BOOLEAN}

\* The forwarders' part: every client asks for the transactions of account a,
\* and the feed has one of them and one of account b.
RequestA == [c \in Clients |-> [Nothing EXCEPT !.transactions = [n \in {"tx"} |-> OnA]]]
TwoTransactions == {Transaction("a"), Transaction("b")}
=============================================================================
