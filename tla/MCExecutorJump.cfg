\* A taken jump ends the run instead of resuming at the target.
CONSTANTS
  WordBytes = 1
  MaxDepth = 3
  Alphabet = {3, 86, 91, 96}
  CodeLen = 4
  GasLimits = {100}
  Codes <- MCCodes
INIT Init
NEXT Next
PROPERTY HaltOnlyAtTerminal
