\* The transaction pool and the base fee across submissions, blocks and
\* re-initialisations from two genesis configurations.
CONSTANTS
  a1 = a1
  a2 = a2
  Addrs = {a1, a2}
  MaxSubmissions = 2
  MaxBlocks = 2
  Txs <- MCTxs
  Genesises <- MCGenesises
INIT Init
NEXT Next
INVARIANTS TypeOK SubmissionsAccounted BaseFeePositive
