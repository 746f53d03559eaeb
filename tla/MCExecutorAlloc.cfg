\* Memory is expanded before its expansion gas is charged.
CONSTANTS
  WordBytes = 1
  MaxDepth = 3
  Alphabet = {82, 96, 243}
  CodeLen = 5
  GasLimits = {9}
  Codes <- MCCodes
INIT Init
NEXT Next
INVARIANT AllocationBoundedByGas
