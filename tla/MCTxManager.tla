----------------------------- MODULE MCTxManager ----------------------------
(* Small instances of TxManager: three transaction hashes.                 *)
EXTENDS TxManager

CONSTANTS t1, t2, t3
=============================================================================
