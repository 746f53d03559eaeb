------------------------------ MODULE TxManager -----------------------------
(***************************************************************************)
(* The SDK wallet's transaction manager                                    *)
(* (src/fairvm-sdk/src/wallet/transaction.rs) and the FairWallet methods   *)
(* that drive it (src/fairvm-sdk/src/wallet/mod.rs).  The manager is a     *)
(* HashMap from transaction hash to TransactionInfo with a max_size; it    *)
(* sits behind the wallet's RwLock, so each method is one action.          *)
(*                                                                         *)
(* A transaction keeps its status and timestamp (whole seconds of          *)
(* SystemTime::now, so several can share one); the other fields are left  *)
(* out.  HashMap iteration order is unspecified, so the "oldest" entry     *)
(* min_by_key picks among equal timestamps is any of them.                 *)
(***************************************************************************)
EXTENDS Naturals, FiniteSets, Functions

CONSTANTS
  Hashes,   \* transaction hashes
  MaxSize,  \* TransactionManager.max_size
  MaxTime   \* bound on the clock, in seconds

ASSUME TxManagerAssumption == MaxSize \in Nat /\ MaxTime \in Nat

Statuses == {"Pending", "Signed", "Sent", "Confirmed", "Failed"}

VARIABLES
  txs,      \* TransactionManager.transactions: hash -> [status, ts]
  now,      \* the wall clock, in seconds
  dropped   \* history: hashes removed while not Confirmed

vars == <<txs, now, dropped>>

-----------------------------------------------------------------------------
(* FairWallet::get_current_nonce: the number of transactions stored.       *)
CurrentNonce == Cardinality(DOMAIN txs)

(* The entries min_by_key(timestamp) may return.                           *)
Oldest == {h \in DOMAIN txs : \A g \in DOMAIN txs : txs[h].ts <= txs[g].ts}

(* Remove hash h from the map.                                             *)
Without(h) == [g \in DOMAIN txs \ {h} |-> txs[g]]

(* HashMap::insert: map m with key h bound to r, replacing any entry.      *)
Insert(m, h, r) == [g \in DOMAIN m \cup {h} |-> IF g = h THEN r ELSE m[g]]

Init ==
  /\ txs = [h \in {} |-> [status |-> "Pending", ts |-> 0]]
  /\ now = 0
  /\ dropped = {}

(* A second goes by.                                                       *)
Tick ==
  /\ now < MaxTime
  /\ now' = now + 1
  /\ UNCHANGED <<txs, dropped>>

\* Mutation of AddTransaction: the capacity test is > instead of >=.
AddTransactionOverfill(h) ==
  /\ \/ /\ Cardinality(DOMAIN txs) > MaxSize /\ DOMAIN txs # {}
        /\ \E o \in Oldest :
             /\ txs' = Insert(Without(o), h, [status |-> "Pending", ts |-> now])
             /\ dropped' = IF txs[o].status # "Confirmed" /\ o # h
                           THEN dropped \cup {o} ELSE dropped
     \/ /\ ~(Cardinality(DOMAIN txs) > MaxSize /\ DOMAIN txs # {})
        /\ txs' = Insert(txs, h, [status |-> "Pending", ts |-> now])
        /\ UNCHANGED dropped
  /\ UNCHANGED now

(* add_transaction(tx), as add_transactions calls it for each request: at *)
(* or above max_size, first remove one oldest entry (whatever its status,  *)
(* and even when tx's hash is already stored), then insert tx as Pending,  *)
(* replacing an entry with its hash.                                       *)
AddTransaction(h) ==
  /\ \/ /\ Cardinality(DOMAIN txs) >= MaxSize /\ DOMAIN txs # {}
        /\ \E o \in Oldest :
             /\ txs' = Insert(Without(o), h, [status |-> "Pending", ts |-> now])
             /\ dropped' = IF txs[o].status # "Confirmed" /\ o # h
                           THEN dropped \cup {o} ELSE dropped
     \/ /\ ~(Cardinality(DOMAIN txs) >= MaxSize /\ DOMAIN txs # {})
        /\ txs' = Insert(txs, h, [status |-> "Pending", ts |-> now])
        /\ UNCHANGED dropped
  /\ UNCHANGED now

(* update_transaction_status(h, s): only a stored hash is updated.         *)
UpdateTransactionStatus(h, s) ==
  /\ h \in DOMAIN txs
  /\ txs' = [txs EXCEPT ![h].status = s]
  /\ UNCHANGED <<now, dropped>>

(* cleanup_confirmed_transactions: retain what is not Confirmed.           *)
CleanupConfirmedTransactions ==
  /\ txs' = [h \in {g \in DOMAIN txs : txs[g].status # "Confirmed"} |-> txs[h]]
  /\ UNCHANGED <<now, dropped>>

(* FairWallet::reset_failed_transactions: every Failed entry to Pending.   *)
ResetFailedTransactions ==
  /\ txs' = [h \in DOMAIN txs |->
               IF txs[h].status = "Failed"
               THEN [txs[h] EXCEPT !.status = "Pending"] ELSE txs[h]]
  /\ UNCHANGED <<now, dropped>>

Next ==
  \/ Tick
  \/ \E h \in Hashes : AddTransaction(h)
  \/ \E h \in Hashes, s \in Statuses : UpdateTransactionStatus(h, s)
  \/ CleanupConfirmedTransactions
  \/ ResetFailedTransactions

Spec == Init /\ [][Next]_vars

-----------------------------------------------------------------------------
\* The manager never holds more than max_size transactions (one, when
\* max_size is 0), whatever the order of adds, re-adds of a stored hash,
\* status updates and clean-ups.
SizeBounded == CurrentNonce <= IF MaxSize = 0 THEN 1 ELSE MaxSize

(***************************************************************************)
(* A statement the code does not meet, checked by a run expected to find   *)
(* it violated.                                                            *)
(***************************************************************************)

\* A transaction add_transactions accepted stays in the manager until it
\* is Confirmed.  At max_size the oldest entry is evicted whatever its
\* status, and FairWallet::new passes the account nonce as max_size.
UnconfirmedNeverDropped == dropped = {}

=============================================================================
