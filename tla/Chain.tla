------------------------------- MODULE Chain --------------------------------
(***************************************************************************)
(* The chain layer of the fairvm crate (src/fairvm/src/vm/mod.rs): a VM    *)
(* holds the genesis configuration, the current base fee, the current      *)
(* block and the pool of pending transactions.  Its operations are         *)
(* initialize_from_genesis, submit_transaction and create_block; every     *)
(* one takes `&mut self`, so the VM's RwLock runs them one at a time and   *)
(* each is one action.                                                     *)
(*                                                                         *)
(* A transaction is a record of the fields submit_transaction reads (an    *)
(* Option is a set of at most one value).  Hashes, timestamps and the      *)
(* state root are left out: no operation branches on them.  The crate's    *)
(* transaction module is not in the repository; Transaction::validate and  *)
(* verify_signature are those of the crate copy src/fair-vm.               *)
(***************************************************************************)
EXTENDS Naturals, Sequences, FiniteSets

CONSTANTS
  Txs,            \* the transactions a client may submit
  Genesises,      \* the genesis configurations the VM may be given
  Addrs,          \* account addresses
  MaxSubmissions, \* bound on accepted submissions of one transaction
  MaxBlocks       \* bound on create_block calls

ASSUME BoundsAssumption == MaxSubmissions \in Nat /\ MaxBlocks \in Nat

\* The numeric fields of a genesis configuration are u64 or U256 values,
\* and its alloc is a HashMap keyed by addresses.
ASSUME GenesisesAssumption ==
  \A g \in Genesises : /\ g.minPrice \in Nat /\ g.gasTarget \in Nat
                       /\ g.denominator \in Nat /\ g.blockLimit \in Nat
                       /\ g.txLimit \in Nat /\ g.enable1559 \in BOOLEAN
                       /\ DOMAIN g.alloc \subseteq Addrs

TxTypes == {"Legacy", "EIP2930", "EIP1559"}
NoBlock == [number |-> 0, txs |-> <<>>, gasLimit |-> 0, gasUsed |-> 0,
            baseFee |-> 0, none |-> TRUE]

VARIABLES
  genesis,      \* config.genesis
  baseFee,      \* config.current_base_fee
  currentBlock, \* current_block (NoBlock for None)
  pending,      \* pending_transactions
  accounts,     \* the accounts the State's storage holds: address -> balance
  hasStorage,   \* the State was built with Some(storage)
  result,       \* outcome of the last call: "ok", "rejected" or "panic"
  blocks,       \* history: every block create_block made current, in order
  accepted      \* history: accepted submissions per transaction

vars == <<genesis, baseFee, currentBlock, pending, accounts, hasStorage,
          result, blocks, accepted>>

-----------------------------------------------------------------------------
(* Transaction::validate(base_fee, min_gas_price) (src/fair-vm).           *)
Validate(t, fee, minPrice) ==
  IF t.type = "EIP1559"
  THEN \E mf \in t.maxFee, mp \in t.maxPrio : mf >= fee /\ mp >= minPrice
  ELSE \E p \in t.gasPrice : p >= minPrice

(* Block::calculate_next_base_fee(gas_target, denominator): a divisor of   *)
(* zero is a panic, see FeeDivisorZero.                                    *)
FeeDivisorZero(b, target, denom) ==
  b.gasUsed # target /\ (target = 0 \/ denom = 0)

\* Mutation of NextBaseFee: the decrease has no floor of 1.
NextBaseFeeNoFloor(b, target, denom) ==
  IF b.gasUsed = target THEN b.baseFee
  ELSE IF b.gasUsed > target
  THEN b.baseFee + ((b.baseFee * (b.gasUsed - target)) \div target) \div denom
  ELSE LET delta == ((b.baseFee * (target - b.gasUsed)) \div target) \div denom
       IN IF delta >= b.baseFee THEN 0 ELSE b.baseFee - delta

\* Mutation of NextBaseFee: the operands of the decrease are swapped.
NextBaseFeeSwapped(b, target, denom) ==
  IF b.gasUsed = target THEN b.baseFee
  ELSE IF b.gasUsed > target
  THEN b.baseFee + ((b.baseFee * (b.gasUsed - target)) \div target) \div denom
  ELSE LET delta == ((b.baseFee * (target - b.gasUsed)) \div target) \div denom
       IN IF delta >= b.baseFee THEN 1 ELSE delta - b.baseFee

NextBaseFee(b, target, denom) ==
  IF b.gasUsed = target THEN b.baseFee
  ELSE IF b.gasUsed > target
  THEN b.baseFee + ((b.baseFee * (b.gasUsed - target)) \div target) \div denom
  ELSE LET delta == ((b.baseFee * (target - b.gasUsed)) \div target) \div denom
       IN IF delta >= b.baseFee THEN 1 ELSE b.baseFee - delta

(* Block::new_with_fees with the fields the model keeps.                   *)
MkBlock(number, txs, gasLimit, gasUsed, fee) ==
  [number |-> number, txs |-> txs, gasLimit |-> gasLimit, gasUsed |-> gasUsed,
   baseFee |-> fee, none |-> FALSE]

-----------------------------------------------------------------------------
(* VM::new(storage): the config's genesis, base fee = its minimum price,   *)
(* no block, no pending transaction.                                       *)
Init ==
  /\ genesis \in Genesises
  /\ baseFee = genesis.minPrice
  /\ currentBlock = NoBlock
  /\ pending = <<>>
  /\ accounts = [a \in {} |-> 0]
  /\ hasStorage \in BOOLEAN
  /\ result = "ok"
  /\ blocks = <<>>
  /\ accepted = [t \in Txs |-> 0]

(* initialize_from_genesis(g): replace the config, write every allocated   *)
(* account through State::set_account (an Err without storage, ignored),   *)
(* and make the genesis block, number 0, the current block.                *)
InitializeFromGenesis(g) ==
  /\ genesis' = g
  /\ baseFee' = g.minPrice
  /\ accounts' = IF hasStorage
                 THEN [a \in DOMAIN accounts \cup DOMAIN g.alloc |->
                         IF a \in DOMAIN g.alloc THEN g.alloc[a] ELSE accounts[a]]
                 ELSE accounts
  /\ currentBlock' = MkBlock(0, <<>>, g.blockLimit, 0, g.minPrice)
  /\ result' = "ok"
  /\ UNCHANGED <<pending, hasStorage, blocks, accepted>>

(* submit_transaction(t): signature (always valid), validate against the   *)
(* current base fee and the minimum price, the per-transaction gas limit,  *)
(* then push onto the pool.                                                *)
SubmitTransaction(t) ==
  /\ accepted[t] < MaxSubmissions
  /\ IF Validate(t, baseFee, genesis.minPrice) /\ t.gasLimit <= genesis.txLimit
     THEN /\ pending' = Append(pending, t)
          /\ accepted' = [accepted EXCEPT ![t] = @ + 1]
          /\ result' = "ok"
     ELSE /\ result' = "rejected"
          /\ UNCHANGED <<pending, accepted>>
  /\ UNCHANGED <<genesis, baseFee, currentBlock, accounts, hasStorage, blocks>>

\* Mutation of CreateBlock: the pool is not cleared.
CreateBlockKeepPool ==
  /\ Len(blocks) < MaxBlocks
  /\ LET number == IF currentBlock.none THEN 0 ELSE currentBlock.number + 1
         b == MkBlock(number, pending, genesis.blockLimit, 0, baseFee)
     IN /\ currentBlock' = b
        /\ pending' = pending
        /\ blocks' = Append(blocks, b)
        /\ IF genesis.enable1559 /\ number > 0
           THEN IF FeeDivisorZero(b, genesis.gasTarget, genesis.denominator)
                THEN result' = "panic" /\ UNCHANGED baseFee
                ELSE /\ baseFee' = NextBaseFee(b, genesis.gasTarget,
                                               genesis.denominator)
                     /\ result' = "ok"
           ELSE result' = "ok" /\ UNCHANGED baseFee
  /\ UNCHANGED <<genesis, accounts, hasStorage, accepted>>

(* create_block: the next number, every pending transaction, the block gas *)
(* limit and current base fee; the block becomes current and the pool is   *)
(* cleared; then, under EIP-1559 and for a number above 0, the base fee is *)
(* recomputed from `current_block`, which is by now the new block.  A zero *)
(* denominator panics there, after the block was made current and the     *)
(* pool cleared: the block is in the history though it is not returned.   *)
CreateBlock ==
  /\ Len(blocks) < MaxBlocks
  /\ LET number == IF currentBlock.none THEN 0 ELSE currentBlock.number + 1
         b == MkBlock(number, pending, genesis.blockLimit, 0, baseFee)
     IN /\ currentBlock' = b
        /\ pending' = <<>>
        /\ blocks' = Append(blocks, b)
        /\ IF genesis.enable1559 /\ number > 0
           THEN IF FeeDivisorZero(b, genesis.gasTarget, genesis.denominator)
                THEN result' = "panic" /\ UNCHANGED baseFee
                ELSE /\ baseFee' = NextBaseFee(b, genesis.gasTarget,
                                               genesis.denominator)
                     /\ result' = "ok"
           ELSE result' = "ok" /\ UNCHANGED baseFee
  /\ UNCHANGED <<genesis, accounts, hasStorage, accepted>>

Next ==
  \/ \E g \in Genesises : InitializeFromGenesis(g)
  \/ \E t \in Txs : SubmitTransaction(t)
  \/ CreateBlock

Spec == Init /\ [][Next]_vars

-----------------------------------------------------------------------------
\* Occurrences of t in a sequence of transactions.
Count(s, t) == Cardinality({i \in DOMAIN s : s[i] = t})

\* c[i]: occurrences of t in the first i blocks of bs.
CountsUpTo(bs, t) ==
  LET c[i \in 0..Len(bs)] == IF i = 0 THEN 0 ELSE c[i - 1] + Count(bs[i].txs, t)
  IN c

\* Occurrences of t in all the blocks of bs.
InBlocks(bs, t) == CountsUpTo(bs, t)[Len(bs)]

\* Every variable has the type of its Rust field.
TypeOK ==
  /\ genesis \in Genesises
  /\ baseFee \in Nat
  /\ currentBlock.number \in Nat /\ currentBlock.txs \in Seq(Txs)
  /\ pending \in Seq(Txs)
  /\ DOMAIN accounts \subseteq Addrs
  /\ hasStorage \in BOOLEAN
  /\ result \in {"ok", "rejected", "panic"}
  /\ accepted \in [Txs -> Nat]

\* No accepted transaction is lost or duplicated by create_block: each
\* accepted submission of t is either still pending or in exactly one of
\* the blocks create_block made current, across re-initialisations from a
\* genesis, which keep the pool.
SubmissionsAccounted ==
  \A t \in Txs : accepted[t] = Count(pending, t) + InBlocks(blocks, t)

\* The EIP-1559 adjustment of create_block never sets the base fee to zero,
\* however many blocks go by below the gas target: calculate_next_base_fee
\* returns at least 1 (a zero fee could come only from the genesis).
BaseFeePositive == baseFee >= 1 \/ baseFee = genesis.minPrice

=============================================================================
