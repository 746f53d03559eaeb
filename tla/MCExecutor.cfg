\* Three families of codes (stack and decoding, memory, control flow), each
\* with its own gas limits, one-byte words and a stack of depth 2.
CONSTANTS
  WordBytes = 1
  MaxDepth = 2
  Alphabet = {0}
  CodeLen = 1
  GasLimits = {5, 7, 9, 12, 40, 100, 30000}
  Codes <- MCFamilyCodes
INIT MCInit
NEXT Next
INVARIANTS TypeOK GasWithinLimit MemoryCharged PcOnInstruction
