--------------------------- MODULE TxManagerProofs -------------------------
(***************************************************************************)
(* Proof, for every set of hashes and every max_size, that the wallet's    *)
(* TransactionManager never holds more than max_size transactions (one     *)
(* when max_size is 0): add_transaction evicts one entry before it         *)
(* inserts whenever the map is full, and no other method adds a key.       *)
(***************************************************************************)
EXTENDS TxManager, FiniteSetTheorems, TLAPS

\* The bound SizeBounded states.
SizeBound == IF MaxSize = 0 THEN 1 ELSE MaxSize

\* SizeBounded, with the finiteness of the map's keys that makes its
\* cardinality meaningful; inductive as it stands.
SizeInv == IsFiniteSet(DOMAIN txs) /\ CurrentNonce <= SizeBound

(* HashMap::insert: the keys after inserting h are the keys before and h. *)
LEMMA InsertDomain ==
  ASSUME NEW h, NEW r, NEW f
  PROVE  DOMAIN Insert(f, h, r) = DOMAIN f \cup {h}
BY DEF Insert

LEMMA InitSizeInv == Init => SizeInv
<1> SUFFICES ASSUME Init PROVE SizeInv
  OBVIOUS
<1>1. DOMAIN txs = {}
  BY DEF Init
<1>. QED
  BY <1>1, FS_EmptySet, TxManagerAssumption DEF SizeInv, CurrentNonce, SizeBound

\* add_transaction(h): evict-then-insert when full keeps the count, insert
\* into a map with room (or an empty one) raises it by at most one.  The
\* finiteness facts are kept apart from the arithmetic ones: SMT is lost
\* when IsFiniteSet appears in an arithmetic goal's facts.
LEMMA AddTransactionSize ==
  ASSUME SizeInv, NEW h \in Hashes, AddTransaction(h)
  PROVE  SizeInv'
<1> DEFINE D == DOMAIN txs
           r == [status |-> "Pending", ts |-> now]
<1>1. IsFiniteSet(D)
  BY DEF SizeInv
<1>2. /\ Cardinality(D) \in Nat /\ MaxSize \in Nat /\ SizeBound \in Nat
      /\ Cardinality(D) <= SizeBound
  BY <1>1, FS_CardinalityType, TxManagerAssumption
  DEF SizeInv, CurrentNonce, SizeBound
<1>3. CASE /\ Cardinality(D) >= MaxSize /\ D # {}
           /\ \E o \in Oldest : txs' = Insert(Without(o), h, r)
  <2>1. PICK o \in Oldest : txs' = Insert(Without(o), h, r)
    BY <1>3
  <2>2. o \in D /\ DOMAIN Without(o) = D \ {o}
    BY DEF Oldest, Without
  <2>3. DOMAIN txs' = (D \ {o}) \cup {h}
    BY <2>1, <2>2, InsertDomain
  <2>4. IsFiniteSet(D \ {o})
    BY <1>1, FS_RemoveElement
  <2>5. Cardinality(D \ {o}) = Cardinality(D) - 1
    BY <1>1, <2>2, FS_RemoveElement
  <2>6. IsFiniteSet((D \ {o}) \cup {h})
    BY <2>4, FS_AddElement
  <2>7. Cardinality((D \ {o}) \cup {h})
          = IF h \in D \ {o} THEN Cardinality(D \ {o})
            ELSE Cardinality(D \ {o}) + 1
    BY <2>4, FS_AddElement
  <2>8. Cardinality((D \ {o}) \cup {h}) <= SizeBound
    BY <1>2, <2>5, <2>7
  <2>. QED
    BY <2>3, <2>6, <2>8 DEF SizeInv, CurrentNonce
<1>4. CASE /\ ~(Cardinality(D) >= MaxSize /\ D # {})
           /\ txs' = Insert(txs, h, r)
  <2>1. DOMAIN txs' = D \cup {h}
    BY <1>4, InsertDomain
  <2>2. /\ IsFiniteSet(D \cup {h})
        /\ Cardinality(D \cup {h})
             = IF h \in D THEN Cardinality(D) ELSE Cardinality(D) + 1
    BY <1>1, FS_AddElement
  <2>3. Cardinality(D) + 1 <= SizeBound
    <3>1. D = {} \/ Cardinality(D) < MaxSize
      BY <1>2, <1>4
    <3>2. CASE D = {}
      <4>1. Cardinality(D) = 0
        BY <3>2, FS_EmptySet
      <4>. QED
        BY <1>2, <4>1 DEF SizeBound
    <3>3. CASE Cardinality(D) < MaxSize
      BY <3>3, <1>2 DEF SizeBound
    <3>. QED
      BY <3>1, <3>2, <3>3
  <2>4. Cardinality(D \cup {h}) <= SizeBound
    BY <1>2, <2>2, <2>3
  <2>. QED
    BY <2>1, <2>2, <2>4 DEF SizeInv, CurrentNonce
<1>. QED
  BY <1>3, <1>4 DEF AddTransaction

\* cleanup_confirmed_transactions keeps a subset of the keys.
LEMMA CleanupSize ==
  ASSUME SizeInv, CleanupConfirmedTransactions
  PROVE  SizeInv'
<1>1. DOMAIN txs' \subseteq DOMAIN txs
  BY DEF CleanupConfirmedTransactions
<1>2. IsFiniteSet(DOMAIN txs')
      /\ Cardinality(DOMAIN txs') <= Cardinality(DOMAIN txs)
  BY <1>1, FS_Subset DEF SizeInv
<1>. QED
  BY <1>2, FS_CardinalityType, TxManagerAssumption
  DEF SizeInv, CurrentNonce, SizeBound

LEMMA NextSizeInv == SizeInv /\ [Next]_vars => SizeInv'
<1> SUFFICES ASSUME SizeInv, [Next]_vars PROVE SizeInv'
  OBVIOUS
<1>1. CASE Tick
  BY <1>1 DEF Tick, SizeInv, CurrentNonce, SizeBound
<1>2. CASE \E h \in Hashes : AddTransaction(h)
  BY <1>2, AddTransactionSize
<1>3. CASE \E h \in Hashes, s \in Statuses : UpdateTransactionStatus(h, s)
  <2>1. DOMAIN txs' = DOMAIN txs
    BY <1>3 DEF UpdateTransactionStatus
  <2>. QED
    BY <2>1 DEF SizeInv, CurrentNonce, SizeBound
<1>4. CASE CleanupConfirmedTransactions
  BY <1>4, CleanupSize
<1>5. CASE ResetFailedTransactions
  <2>1. DOMAIN txs' = DOMAIN txs
    BY <1>5 DEF ResetFailedTransactions
  <2>. QED
    BY <2>1 DEF SizeInv, CurrentNonce, SizeBound
<1>6. CASE UNCHANGED vars
  BY <1>6 DEF vars, SizeInv, CurrentNonce, SizeBound
<1>. QED
  BY <1>1, <1>2, <1>3, <1>4, <1>5, <1>6 DEF Next

\* In every behaviour of the wallet, the transaction manager holds at most
\* max_size transactions (one when max_size is 0), whatever the order of
\* add_transactions, re-adds of a stored hash, status updates, clean-ups
\* and resets (checked by the run txmanager on three hashes and room for two).
THEOREM SizeAlwaysBounded == Spec => []SizeBounded
<1>1. SizeInv => SizeBounded
  BY DEF SizeInv, SizeBounded, SizeBound
<1>. QED
  BY InitSizeInv, NextSizeInv, <1>1, PTL DEF Spec
=============================================================================
