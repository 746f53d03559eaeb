---------------------------- MODULE ChainProofs -----------------------------
(***************************************************************************)
(* Proofs about the chain layer (Chain.tla) for every genesis set and      *)
(* every bound: the base fee maintained by create_block never reaches 0    *)
(* unless the genesis itself set a minimum price of 0; every variable     *)
(* keeps the type of its Rust field; and every accepted submission is     *)
(* counted exactly once, in the pool or in the blocks returned.           *)
(***************************************************************************)
EXTENDS Chain, NatLemmas, NaturalsInduction, FiniteSetTheorems,
        SequenceTheorems, TLAPS

\* The part of the state the base-fee argument needs: the configuration
\* is one of the genesis configurations, the fee is a natural number, and
\* BaseFeePositive holds.  Inductive on its own.
FeeInv ==
  /\ genesis \in Genesises
  /\ baseFee \in Nat
  /\ BaseFeePositive

\* calculate_next_base_fee of a block with a natural base fee and gas used,
\* when create_block does not panic on it, is a natural number, and it is
\* at least 1 or the block's own base fee (the case of a zero fee the
\* block kept unchanged).
LEMMA NextBaseFeeFloor ==
  ASSUME NEW b, NEW target \in Nat, NEW denom \in Nat,
         b.baseFee \in Nat, b.gasUsed \in Nat,
         ~FeeDivisorZero(b, target, denom)
  PROVE  /\ NextBaseFee(b, target, denom) \in Nat
         /\ NextBaseFee(b, target, denom) >= 1
            \/ NextBaseFee(b, target, denom) = b.baseFee
<1> DEFINE bf == b.baseFee
           u == b.gasUsed
<1>1. CASE u = target
  BY <1>1 DEF NextBaseFee
<1>2. CASE u > target
  <2>1. target # 0 /\ denom # 0
    BY <1>2 DEF FeeDivisorZero
  <2>2. ((bf * (u - target)) \div target) \div denom \in Nat
    BY <1>2, <2>1
  <2>3. NextBaseFee(b, target, denom)
          = bf + ((bf * (u - target)) \div target) \div denom
    BY <1>2 DEF NextBaseFee
  <2>. QED
    BY <2>2, <2>3
<1>3. CASE u < target
  <2>1. target # 0 /\ denom # 0
    BY <1>3 DEF FeeDivisorZero
  <2> DEFINE delta == ((bf * (target - u)) \div target) \div denom
  <2>2. delta \in Nat
    BY <1>3, <2>1
  <2>3. NextBaseFee(b, target, denom) = IF delta >= bf THEN 1 ELSE bf - delta
    BY <1>3 DEF NextBaseFee
  <2>. QED
    BY <2>2, <2>3
<1>. QED
  BY <1>1, <1>2, <1>3

\* Base case: VM::new starts from the genesis minimum price.
LEMMA InitFeeInv == Init => FeeInv
BY GenesisesAssumption DEF Init, FeeInv, BaseFeePositive

\* Every operation of the VM preserves FeeInv.
LEMMA NextFeeInv == FeeInv /\ [Next]_vars => FeeInv'
<1> SUFFICES ASSUME FeeInv, [Next]_vars PROVE FeeInv'
  OBVIOUS
<1>1. CASE \E g \in Genesises : InitializeFromGenesis(g)
  BY <1>1, GenesisesAssumption DEF InitializeFromGenesis, FeeInv, BaseFeePositive
<1>2. CASE \E t \in Txs : SubmitTransaction(t)
  BY <1>2 DEF SubmitTransaction, FeeInv, BaseFeePositive
<1>3. CASE CreateBlock
  <2> DEFINE number == IF currentBlock.none THEN 0 ELSE currentBlock.number + 1
             b == MkBlock(number, pending, genesis.blockLimit, 0, baseFee)
             target == genesis.gasTarget
             denom == genesis.denominator
  <2>1. genesis' = genesis
    BY <1>3 DEF CreateBlock
  <2>2. \/ baseFee' = baseFee
        \/ /\ ~FeeDivisorZero(b, target, denom)
           /\ baseFee' = NextBaseFee(b, target, denom)
    BY <1>3 DEF CreateBlock
  <2>3. CASE baseFee' = baseFee
    BY <2>1, <2>3 DEF FeeInv, BaseFeePositive
  <2>4. CASE /\ ~FeeDivisorZero(b, target, denom)
             /\ baseFee' = NextBaseFee(b, target, denom)
    <3>1. b.baseFee = baseFee /\ b.gasUsed = 0
      BY DEF MkBlock
    <3>2. target \in Nat /\ denom \in Nat
      BY GenesisesAssumption DEF FeeInv
    <3>3. /\ baseFee' \in Nat
          /\ baseFee' >= 1 \/ baseFee' = baseFee
      BY <2>4, <3>1, <3>2, NextBaseFeeFloor DEF FeeInv
    <3>. QED
      BY <2>1, <3>3 DEF FeeInv, BaseFeePositive
  <2>. QED
    BY <2>2, <2>3, <2>4
<1>4. CASE UNCHANGED vars
  BY <1>4 DEF vars, FeeInv, BaseFeePositive
<1>. QED
  BY <1>1, <1>2, <1>3, <1>4 DEF Next

\* The base fee create_block maintains is always at least 1, except when
\* it is the minimum price of the current genesis (checked by the run
\* chain on a small instance).
THEOREM BaseFeeAlwaysPositive == Spec => []BaseFeePositive
<1>1. FeeInv => BaseFeePositive
  BY DEF FeeInv
<1>. QED
  BY InitFeeInv, NextFeeInv, <1>1, PTL DEF Spec

-----------------------------------------------------------------------------
(* Type correctness.  TypeOK is inductive as it stands: every operation    *)
(* builds its new values from typed old ones and a genesis of Genesises.   *)

LEMMA InitTypeOK == Init => TypeOK
<1> SUFFICES ASSUME Init PROVE TypeOK
  OBVIOUS
<1>1. baseFee \in Nat
  BY GenesisesAssumption DEF Init
<1>2. currentBlock.number \in Nat /\ currentBlock.txs \in Seq(Txs)
  BY DEF Init, NoBlock
<1>. QED
  BY <1>1, <1>2 DEF Init, TypeOK

\* initialize_from_genesis(g) writes the alloc's addresses into storage.
LEMMA InitializeFromGenesisType ==
  ASSUME TypeOK, NEW g \in Genesises, InitializeFromGenesis(g)
  PROVE  TypeOK'
<1>1. g.minPrice \in Nat /\ g.blockLimit \in Nat /\ DOMAIN g.alloc \subseteq Addrs
  BY GenesisesAssumption
<1>2. DOMAIN accounts' \subseteq Addrs
  BY <1>1 DEF InitializeFromGenesis, TypeOK
<1>3. currentBlock'.number \in Nat /\ currentBlock'.txs \in Seq(Txs)
  BY DEF InitializeFromGenesis, MkBlock
<1>. QED
  BY <1>1, <1>2, <1>3 DEF InitializeFromGenesis, TypeOK

\* submit_transaction(t) appends t to the pool and counts it, or rejects.
LEMMA SubmitTransactionType ==
  ASSUME TypeOK, NEW t \in Txs, SubmitTransaction(t)
  PROVE  TypeOK'
<1>1. Append(pending, t) \in Seq(Txs)
  BY AppendProperties DEF TypeOK
<1>2. accepted[t] + 1 \in Nat
  BY DEF TypeOK
<1>3. CASE Validate(t, baseFee, genesis.minPrice) /\ t.gasLimit <= genesis.txLimit
  <2>1. /\ pending' = Append(pending, t)
        /\ accepted' = [accepted EXCEPT ![t] = @ + 1]
        /\ result' = "ok"
    BY <1>3 DEF SubmitTransaction
  <2>. QED
    BY <1>1, <1>2, <2>1 DEF SubmitTransaction, TypeOK
<1>4. CASE ~(Validate(t, baseFee, genesis.minPrice) /\ t.gasLimit <= genesis.txLimit)
  <2>1. result' = "rejected" /\ UNCHANGED <<pending, accepted>>
    BY <1>4 DEF SubmitTransaction
  <2>. QED
    BY <2>1 DEF SubmitTransaction, TypeOK
<1>. QED
  BY <1>3, <1>4

\* create_block: the new block's number and transactions are typed, and so
\* is the recomputed base fee when create_block does not panic.
LEMMA CreateBlockType ==
  ASSUME TypeOK, CreateBlock
  PROVE  TypeOK'
<1> DEFINE number == IF currentBlock.none THEN 0 ELSE currentBlock.number + 1
           b == MkBlock(number, pending, genesis.blockLimit, 0, baseFee)
           target == genesis.gasTarget
           denom == genesis.denominator
<1>1. number \in Nat
  BY DEF TypeOK
<1>2. currentBlock' = b /\ pending' = <<>>
  BY DEF CreateBlock
<1>3. currentBlock'.number \in Nat /\ currentBlock'.txs \in Seq(Txs)
      /\ pending' \in Seq(Txs)
  BY <1>1, <1>2 DEF MkBlock, TypeOK
<1>4. baseFee' \in Nat
  <2>1. \/ baseFee' = baseFee
        \/ /\ ~FeeDivisorZero(b, target, denom)
           /\ baseFee' = NextBaseFee(b, target, denom)
    BY DEF CreateBlock
  <2>2. b.baseFee = baseFee /\ b.gasUsed = 0
    BY DEF MkBlock
  <2>3. target \in Nat /\ denom \in Nat
    BY GenesisesAssumption DEF TypeOK
  <2>4. CASE baseFee' = baseFee
    BY <2>4 DEF TypeOK
  <2>5. CASE /\ ~FeeDivisorZero(b, target, denom)
             /\ baseFee' = NextBaseFee(b, target, denom)
    <3>1. b.baseFee \in Nat /\ b.gasUsed \in Nat
      BY <2>2 DEF TypeOK
    <3>2. NextBaseFee(b, target, denom) \in Nat
      BY <2>3, <2>5, <3>1, NextBaseFeeFloor
    <3>. QED
      BY <2>5, <3>2
  <2>. QED
    BY <2>1, <2>4, <2>5
<1>5. result' \in {"ok", "rejected", "panic"}
  BY DEF CreateBlock
<1>. QED
  BY <1>3, <1>4, <1>5 DEF CreateBlock, TypeOK

LEMMA NextTypeOK == TypeOK /\ [Next]_vars => TypeOK'
<1> SUFFICES ASSUME TypeOK, [Next]_vars PROVE TypeOK'
  OBVIOUS
<1>1. CASE \E g \in Genesises : InitializeFromGenesis(g)
  BY <1>1, InitializeFromGenesisType
<1>2. CASE \E t \in Txs : SubmitTransaction(t)
  BY <1>2, SubmitTransactionType
<1>3. CASE CreateBlock
  BY <1>3, CreateBlockType
<1>4. CASE UNCHANGED vars
  BY <1>4 DEF vars, TypeOK
<1>. QED
  BY <1>1, <1>2, <1>3, <1>4 DEF Next

\* In every behaviour of the VM, the configuration is a genesis, the base
\* fee a natural number, the current block and the pool sequences of
\* transactions, storage keyed by addresses and the submission counts
\* natural numbers, whatever the order of initialize_from_genesis,
\* submit_transaction and create_block (checked by the run chain).
THEOREM ChainTypeCorrect == Spec => []TypeOK
BY InitTypeOK, NextTypeOK, PTL DEF Spec

-----------------------------------------------------------------------------
(* Accounting of submissions.  The counts are sums over sequences: the     *)
(* recursive CountsUpTo is unfolded by FiniteNatInductiveDef, and what it  *)
(* computes for an appended sequence follows from a least counterexample  *)
(* (LeastNat).                                                             *)

\* Occurrences of t in a sequence are a finite count.
LEMMA CountType ==
  ASSUME NEW S, NEW s \in Seq(S), NEW t
  PROVE  Count(s, t) \in Nat
<1>1. IsFiniteSet({i \in DOMAIN s : s[i] = t})
  <2>1. IsFiniteSet(1..Len(s))
    BY FS_Interval
  <2>. QED
    BY <2>1, FS_Subset
<1>. QED
  BY <1>1, FS_CardinalityType DEF Count

LEMMA CountEmpty == ASSUME NEW t PROVE Count(<<>>, t) = 0
BY FS_EmptySet DEF Count

\* Vec::push adds one occurrence of the pushed value and none of others.
LEMMA CountAppend ==
  ASSUME NEW S, NEW s \in Seq(S), NEW x \in S, NEW t
  PROVE  Count(Append(s, x), t) = Count(s, t) + (IF x = t THEN 1 ELSE 0)
<1> DEFINE D == {i \in DOMAIN s : s[i] = t}
           n == Len(s)
<1>1. IsFiniteSet(D) /\ n \in Nat /\ (n + 1) \notin D
  <2>1. IsFiniteSet(1..n)
    BY FS_Interval
  <2>. QED
    BY <2>1, FS_Subset
<1>2. {i \in DOMAIN Append(s, x) : Append(s, x)[i] = t}
        = IF x = t THEN D \cup {n + 1} ELSE D
  BY AppendProperties
<1>3. CASE x = t
  <2>1. Cardinality(D \cup {n + 1}) = Cardinality(D) + 1
    BY <1>1, FS_AddElement
  <2>. QED
    BY <1>2, <1>3, <2>1 DEF Count
<1>4. CASE x # t
  <2>1. Count(Append(s, x), t) = Cardinality(D)
    BY <1>2, <1>4 DEF Count
  <2>2. Cardinality(D) \in Nat
    BY <1>1, FS_CardinalityType
  <2>3. Count(s, t) = Cardinality(D)
    BY DEF Count
  <2>. QED
    BY <1>4, <2>1, <2>2, <2>3
<1>. QED
  BY <1>3, <1>4

\* The recursive definition of CountsUpTo has a solution: its equation
\* holds at every index.
LEMMA CountsUpToDef ==
  ASSUME NEW S, NEW bs \in Seq(S), NEW t
  PROVE  /\ CountsUpTo(bs, t)[0] = 0
         /\ \A i \in 1..Len(bs) :
              CountsUpTo(bs, t)[i] = CountsUpTo(bs, t)[i - 1] + Count(bs[i].txs, t)
<1> DEFINE Def(v, i) == v + Count(bs[i].txs, t)
           f == CountsUpTo(bs, t)
           n == Len(bs)
<1>0. n \in Nat /\ 0 \in Nat
  OBVIOUS
<1>1. FiniteNatInductiveDefHypothesis(f, 0, Def, 0, n)
  BY DEF FiniteNatInductiveDefHypothesis, CountsUpTo
<1> HIDE DEF f, Def
<1>2. FiniteNatInductiveDefConclusion(f, 0, Def, 0, n)
  BY <1>0, <1>1, FiniteNatInductiveDef, Zenon
<1>3. f = [i \in 0..n |-> IF i = 0 THEN 0 ELSE Def(f[i - 1], i)]
  BY <1>2 DEF FiniteNatInductiveDefConclusion
<1>4. f[0] = 0
  BY <1>0, <1>3
<1>5. \A i \in 1..n : f[i] = Def(f[i - 1], i)
  BY <1>0, <1>3
<1>. QED
  BY <1>4, <1>5 DEF Def, f

\* The blocks create_block appends: their transactions are from Txs.
BlockT == [number : Nat, txs : Seq(Txs), gasLimit : Nat, gasUsed : Nat,
           baseFee : Nat, none : BOOLEAN]

\* Every prefix count of a sequence of blocks is a natural number.
LEMMA CountsUpToType ==
  ASSUME NEW bs \in Seq(BlockT), NEW t
  PROVE  \A i \in 0..Len(bs) : CountsUpTo(bs, t)[i] \in Nat
<1> DEFINE f == CountsUpTo(bs, t)
           Bad == {i \in 0..Len(bs) : f[i] \notin Nat}
<1>1. f[0] = 0 /\ \A i \in 1..Len(bs) : f[i] = f[i - 1] + Count(bs[i].txs, t)
  BY CountsUpToDef
<1> SUFFICES ASSUME Bad # {} PROVE FALSE
  OBVIOUS
<1>2. PICK m \in Bad : \A k \in Bad : m <= k
  <2>1. Bad \in SUBSET Nat
    OBVIOUS
  <2>. QED
    BY <2>1, LeastNat
<1>3. m \in 1..Len(bs)
  BY <1>1, <1>2
<1>4. f[m - 1] \in Nat
  BY <1>2, <1>3
<1>5. Count(bs[m].txs, t) \in Nat
  <2>1. bs[m].txs \in Seq(Txs)
    <3>1. bs[m] \in BlockT
      BY <1>3
    <3>. QED
      BY <3>1, Zenon DEF BlockT
  <2>. QED
    BY <2>1, CountType
<1>6. f[m] = f[m - 1] + Count(bs[m].txs, t)
  BY <1>1, <1>3
<1>. QED
  BY <1>2, <1>4, <1>5, <1>6

\* Appending a block leaves the counts of the earlier prefixes alone.
LEMMA CountsUpToPrefix ==
  ASSUME NEW bs \in Seq(BlockT), NEW b \in BlockT, NEW t
  PROVE  \A i \in 0..Len(bs) : CountsUpTo(Append(bs, b), t)[i] = CountsUpTo(bs, t)[i]
<1> DEFINE f == CountsUpTo(Append(bs, b), t)
           g == CountsUpTo(bs, t)
           Bad == {i \in 0..Len(bs) : f[i] # g[i]}
<1>1. Append(bs, b) \in Seq(BlockT) /\ Len(Append(bs, b)) = Len(bs) + 1
      /\ \A i \in 1..Len(bs) : Append(bs, b)[i] = bs[i]
  BY AppendProperties
<1>2. f[0] = 0 /\ \A i \in 1..Len(bs) + 1 :
                    f[i] = f[i - 1] + Count(Append(bs, b)[i].txs, t)
  <2>1. f[0] = 0 /\ \A i \in 1..Len(Append(bs, b)) :
                      f[i] = f[i - 1] + Count(Append(bs, b)[i].txs, t)
    BY <1>1, CountsUpToDef
  <2>. QED
    BY <1>1, <2>1
<1>3. g[0] = 0 /\ \A i \in 1..Len(bs) : g[i] = g[i - 1] + Count(bs[i].txs, t)
  BY CountsUpToDef
<1> SUFFICES ASSUME Bad # {} PROVE FALSE
  OBVIOUS
<1>4. PICK m \in Bad : \A k \in Bad : m <= k
  <2>1. Bad \in SUBSET Nat
    OBVIOUS
  <2>. QED
    BY <2>1, LeastNat
<1>5. m \in 1..Len(bs)
  BY <1>2, <1>3, <1>4
<1>6. f[m - 1] = g[m - 1]
  BY <1>4, <1>5
<1>7. f[m] = g[m]
  BY <1>1, <1>2, <1>3, <1>5, <1>6
<1>. QED
  BY <1>4, <1>7

LEMMA InBlocksType ==
  ASSUME NEW bs \in Seq(BlockT), NEW t
  PROVE  InBlocks(bs, t) \in Nat
BY CountsUpToType DEF InBlocks

LEMMA InBlocksEmpty == ASSUME NEW t PROVE InBlocks(<<>>, t) = 0
<1>1. <<>> \in Seq(BlockT) /\ Len(<<>>) = 0
  OBVIOUS
<1>. QED
  BY <1>1, CountsUpToDef DEF InBlocks

\* create_block's push onto the history adds the occurrences in its block.
LEMMA InBlocksAppend ==
  ASSUME NEW bs \in Seq(BlockT), NEW b \in BlockT, NEW t
  PROVE  /\ InBlocks(bs, t) \in Nat
         /\ InBlocks(Append(bs, b), t) = InBlocks(bs, t) + Count(b.txs, t)
<1> DEFINE f == CountsUpTo(Append(bs, b), t)
           g == CountsUpTo(bs, t)
           n == Len(bs)
<1>1. Append(bs, b) \in Seq(BlockT) /\ Len(Append(bs, b)) = n + 1
      /\ Append(bs, b)[n + 1] = b
  BY AppendProperties
<1>2. f[n + 1] = f[n] + Count(b.txs, t)
  <2>1. \A i \in 1..Len(Append(bs, b)) :
          f[i] = f[i - 1] + Count(Append(bs, b)[i].txs, t)
    BY <1>1, CountsUpToDef
  <2>. QED
    BY <1>1, <2>1
<1>3. f[n] = g[n]
  BY CountsUpToPrefix
<1>4. g[n] \in Nat
  BY CountsUpToType
<1>. QED
  BY <1>1, <1>2, <1>3, <1>4 DEF InBlocks

\* SubmissionsAccounted, with the types that make its counts sums of
\* natural numbers; inductive as it stands.
AccInv == TypeOK /\ blocks \in Seq(BlockT) /\ SubmissionsAccounted

LEMMA InitAccInv == Init => AccInv
<1> SUFFICES ASSUME Init PROVE AccInv
  OBVIOUS
<1>1. \A t \in Txs : accepted[t] = Count(pending, t) + InBlocks(blocks, t)
  BY CountEmpty, InBlocksEmpty DEF Init
<1>. QED
  BY <1>1, InitTypeOK DEF AccInv, SubmissionsAccounted, Init

\* submit_transaction(t0): a push onto the pool and a count of t0, together.
LEMMA SubmitTransactionAcc ==
  ASSUME AccInv, NEW t0 \in Txs, SubmitTransaction(t0)
  PROVE  SubmissionsAccounted'
<1>1. CASE Validate(t0, baseFee, genesis.minPrice) /\ t0.gasLimit <= genesis.txLimit
  <2>1. /\ pending' = Append(pending, t0)
        /\ accepted' = [accepted EXCEPT ![t0] = @ + 1]
        /\ blocks' = blocks
    BY <1>1 DEF SubmitTransaction
  <2> SUFFICES ASSUME NEW t \in Txs
               PROVE  accepted'[t] = Count(pending', t) + InBlocks(blocks', t)
    BY DEF SubmissionsAccounted
  <2>2. Count(pending', t) = Count(pending, t) + (IF t0 = t THEN 1 ELSE 0)
    BY <2>1, CountAppend DEF AccInv, TypeOK
  <2>3. accepted'[t] = accepted[t] + (IF t0 = t THEN 1 ELSE 0)
    BY <2>1 DEF AccInv, TypeOK
  <2>4. /\ accepted[t] = Count(pending, t) + InBlocks(blocks, t)
        /\ Count(pending, t) \in Nat /\ InBlocks(blocks, t) \in Nat
    <3>1. accepted[t] = Count(pending, t) + InBlocks(blocks, t)
      BY DEF AccInv, SubmissionsAccounted
    <3>2. pending \in Seq(Txs) /\ blocks \in Seq(BlockT)
      BY DEF AccInv, TypeOK
    <3>3. Count(pending, t) \in Nat
      BY <3>2, CountType
    <3>4. InBlocks(blocks, t) \in Nat
      BY <3>2, InBlocksType
    <3>. QED
      BY <3>1, <3>3, <3>4
  <2>. QED
    BY <2>1, <2>2, <2>3, <2>4
<1>2. CASE ~(Validate(t0, baseFee, genesis.minPrice) /\ t0.gasLimit <= genesis.txLimit)
  BY <1>2 DEF SubmitTransaction, AccInv, SubmissionsAccounted
<1>. QED
  BY <1>1, <1>2

\* create_block: the pool moves, whole, into the block pushed onto the history.
LEMMA CreateBlockAcc ==
  ASSUME AccInv, CreateBlock
  PROVE  blocks' \in Seq(BlockT) /\ SubmissionsAccounted'
<1> DEFINE number == IF currentBlock.none THEN 0 ELSE currentBlock.number + 1
           b == MkBlock(number, pending, genesis.blockLimit, 0, baseFee)
<1>1. pending' = <<>> /\ blocks' = Append(blocks, b) /\ accepted' = accepted
  BY DEF CreateBlock
<1>2. b \in BlockT /\ b.txs = pending
  <2>1. number \in Nat /\ genesis.blockLimit \in Nat
    BY GenesisesAssumption DEF AccInv, TypeOK
  <2>. QED
    BY <2>1 DEF MkBlock, BlockT, AccInv, TypeOK
<1>3. blocks' \in Seq(BlockT)
  BY <1>1, <1>2, AppendProperties DEF AccInv
<1>4. ASSUME NEW t \in Txs
      PROVE  accepted'[t] = Count(pending', t) + InBlocks(blocks', t)
  <2>1. InBlocks(blocks', t) = InBlocks(blocks, t) + Count(pending, t)
        /\ InBlocks(blocks, t) \in Nat
    BY <1>1, <1>2, InBlocksAppend DEF AccInv
  <2>2. Count(pending', t) = 0 /\ Count(pending, t) \in Nat
    BY <1>1, CountEmpty, CountType DEF AccInv, TypeOK
  <2>3. accepted[t] = Count(pending, t) + InBlocks(blocks, t)
    BY DEF AccInv, SubmissionsAccounted
  <2>. QED
    BY <1>1, <2>1, <2>2, <2>3
<1>. QED
  BY <1>3, <1>4 DEF SubmissionsAccounted

LEMMA NextAccInv == AccInv /\ [Next]_vars => AccInv'
<1> SUFFICES ASSUME AccInv, [Next]_vars PROVE AccInv'
  OBVIOUS
<1>1. TypeOK'
  BY NextTypeOK DEF AccInv
<1>2. CASE \E g \in Genesises : InitializeFromGenesis(g)
  BY <1>1, <1>2 DEF InitializeFromGenesis, AccInv, SubmissionsAccounted
<1>3. CASE \E t \in Txs : SubmitTransaction(t)
  <2>1. blocks' = blocks
    BY <1>3 DEF SubmitTransaction
  <2>. QED
    BY <1>1, <1>3, <2>1, SubmitTransactionAcc DEF AccInv
<1>4. CASE CreateBlock
  BY <1>1, <1>4, CreateBlockAcc DEF AccInv
<1>5. CASE UNCHANGED vars
  BY <1>1, <1>5 DEF vars, AccInv, SubmissionsAccounted
<1>. QED
  BY <1>2, <1>3, <1>4, <1>5 DEF Next

\* In every behaviour of the VM, each accepted submission of a transaction
\* is either still in the pool or in exactly one block create_block
\* returned: create_block moves the whole pool into its block and clears
\* it, and initialize_from_genesis keeps both (checked by the run chain).
THEOREM SubmissionsAlwaysAccounted == Spec => []SubmissionsAccounted
<1>1. AccInv => SubmissionsAccounted
  BY DEF AccInv
<1>. QED
  BY InitAccInv, NextAccInv, <1>1, PTL DEF Spec

=============================================================================
