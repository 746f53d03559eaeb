\* Two threads, each on its own State handle over one storage, lose an update.
CONSTANTS
  a1 = a1
  a2 = a2
  p1 = p1
  p2 = p2
  Addrs = {a1, a2}
  Procs = {p1, p2}
  MaxOps = 2
  Alloc <- MCAlloc
  Transfers <- MCRaceTransfers
  Deploys <- MCDeploys
SPECIFICATION Spec
INVARIANTS BalancesConserved
CHECK_DEADLOCK FALSE
