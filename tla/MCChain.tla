------------------------------ MODULE MCChain -------------------------------
(***************************************************************************)
(* Model-checking instance of Chain: two legacy transactions and one       *)
(* EIP-1559 transaction with small prices and gas limits, and genesis      *)
(* configurations scaled down from Genesis::default (minimum price 1e9,    *)
(* target 8e6, denominator 8, block limit 15e6, tx limit 8e6) so that one  *)
(* block can hold more gas than the block limit and the fee can decay.     *)
(***************************************************************************)
EXTENDS Chain, TLC

CONSTANTS a1, a2

\* Legacy transactions with a gas price, an EIP-1559 one with both fees.
MCTxs ==
  { [type |-> "Legacy", gasPrice |-> {2}, maxFee |-> {}, maxPrio |-> {},
     gasLimit |-> 2],
    [type |-> "Legacy", gasPrice |-> {1}, maxFee |-> {}, maxPrio |-> {},
     gasLimit |-> 1],
    [type |-> "EIP1559", gasPrice |-> {}, maxFee |-> {3}, maxPrio |-> {2},
     gasLimit |-> 2] }

\* A genesis with a given denominator: minimum price 2, target 2, block
\* limit 3, transaction limit 2, one allocated account.
MCGenesis(denom, min) ==
  [minPrice |-> min, gasTarget |-> 2, enable1559 |-> TRUE,
   denominator |-> denom, blockLimit |-> 3, txLimit |-> 2,
   alloc |-> (a1 :> 5)]

MCGenesises == {MCGenesis(1, 2), MCGenesis(2, 1)}

=============================================================================
