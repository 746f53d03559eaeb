----------------------------- MODULE MCExecutor -----------------------------
(***************************************************************************)
(* Model-checking instance of Executor: one-byte words (so that wrapping,  *)
(* the all-ones word and full-width PUSH operands occur with small         *)
(* numbers), a shallow stack, and every code buffer up to a length over a  *)
(* small alphabet.  The violation runs take one alphabet (Alphabet,        *)
(* CodeLen); the passing run takes three families of codes, each with the  *)
(* gas limits that cut its charges at different points.                    *)
(***************************************************************************)
EXTENDS Executor

CONSTANTS
  Alphabet,   \* the byte values a code buffer of the run is made of
  CodeLen     \* the longest code buffer of the run

\* Every code buffer of one to CodeLen bytes over Alphabet.
MCCodes == UNION {[1..m -> Alphabet] : m \in 1..CodeLen}

\* Every code buffer of one to n bytes over the alphabet a.
CodesOver(a, n) == UNION {[1..m -> a] : m \in 1..n}

\* Stack, arithmetic, storage and decoding: ADD, SUB, NOT, POP, SLOAD,
\* SSTORE, PUSH1, DUP1, SWAP1, INVALID, SELFDESTRUCT and the bytes without
\* an opcode 12 (outside every range), 98 (PUSH range) and 130 (DUP range);
\* limit 7 cuts SSTORE's base charge, 30000 pays it.
StackCodes == CodesOver({1, 3, 12, 25, 80, 84, 85, 96, 98, 128, 130, 144,
                         254, 255}, 4)
StackLimits == {7, 30000}

\* Memory: STOP, ADD, SHA3 (no arm), MLOAD, MSTORE, MSTORE8, PUSH1 and
\* RETURN; each limit cuts a different expansion.
MemoryCodes == CodesOver({0, 1, 32, 81, 82, 83, 96, 243}, 5)
MemoryLimits == {5, 9, 12, 40}

\* Control flow: SDIV (no arm), JUMP, JUMPI, JUMPDEST and PUSH1; six bytes
\* so that the destination 5 is inside the code.
ControlCodes == CodesOver({5, 86, 87, 91, 96}, 6)
ControlLimits == {100}

\* The passing run's code set, and its initial states: a code of a family
\* with a gas limit of that family.
MCFamilyCodes == StackCodes \cup MemoryCodes \cup ControlCodes

MCInit ==
  /\ Init
  /\ \/ code \in StackCodes /\ gasLimit \in StackLimits
     \/ code \in MemoryCodes /\ gasLimit \in MemoryLimits
     \/ code \in ControlCodes /\ gasLimit \in ControlLimits

=============================================================================
