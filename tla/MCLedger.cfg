\* One caller thread making transfers and deployments; the calls are bounded, so the system stops.
CONSTANTS
  a1 = a1
  a2 = a2
  p1 = p1
  p2 = p2
  Addrs = {a1, a2}
  Procs = {p1}
  MaxOps = 4
  Alloc <- MCAlloc
  Transfers <- MCTransfers
  Deploys <- MCDeploys
SPECIFICATION Spec
INVARIANTS TypeOK BalancesConserved
CHECK_DEADLOCK FALSE
