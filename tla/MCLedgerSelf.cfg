\* transfer(a, a, v) credits v out of nothing.
CONSTANTS
  a1 = a1
  a2 = a2
  p1 = p1
  p2 = p2
  Addrs = {a1, a2}
  Procs = {p1}
  MaxOps = 2
  Alloc <- MCAlloc
  Transfers <- MCSelfTransfers
  Deploys <- MCDeploys
SPECIFICATION Spec
INVARIANTS BalancesConserved
CHECK_DEADLOCK FALSE
