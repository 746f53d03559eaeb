\* Two families of codes (control flow, data), each with its own gas
\* limits, one-byte words and a stack of depth 2.  execute returns, and a
\* returned run takes no further step.
CONSTANTS
  WordBytes = 1
  MaxDepth = 2
  GasLimits = {14, 30, 40, 20300}
  Statics = {FALSE, TRUE}
  Codes <- MCFamilyCodes
SPECIFICATION MCFairSpec
INVARIANTS GasWithinLimit
PROPERTIES JumpLandsOnJumpdest Terminates
CHECK_DEADLOCK FALSE
