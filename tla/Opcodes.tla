------------------------------ MODULE Opcodes ------------------------------
(***************************************************************************)
(* The opcode table of src/fairvm/src/evm/opcodes.rs and the way the       *)
(* executor of src/fairvm/src/evm/executor.rs decodes a code byte.         *)
(*                                                                         *)
(* A byte is a natural number in 0..255 (U256!Byte).  The enum Opcode      *)
(* assigns a variant to only some byte values; Opcode::from_u8 transmutes  *)
(* every byte into the enum, which is undefined behaviour for an           *)
(* unassigned value.                                                       *)
(* The model lets such a byte do either of the two things the build can    *)
(* do with it: be matched by the raw-byte range guard of the executor      *)
(* (PUSHn/DUPn/SWAPn) or fall through to the InvalidOpcode arm.            *)
(***************************************************************************)
EXTENDS Naturals

\* The byte values of the variants the executor matches by name.
STOP == 0
ADD == 1
MUL == 2
SUB == 3
DIV == 4
MOD == 6
LT == 16
GT == 17
EQ == 20
ISZERO == 21
AND == 22
OR == 23
XOR == 24
NOT == 25
POP == 80
MLOAD == 81
MSTORE == 82
MSTORE8 == 83
SLOAD == 84
SSTORE == 85
JUMP == 86
JUMPI == 87
JUMPDEST == 91
PUSH1 == 96
PUSH32 == 127
DUP1 == 128
DUP16 == 143
SWAP1 == 144
SWAP16 == 159
RETURN == 243

\* The byte values that have a variant in enum Opcode.
Assigned ==
  (0..11) \cup (16..29) \cup {32} \cup (48..63) \cup (64..72) \cup (80..91)
  \cup {96, 97, 127, 128, 129, 143, 144, 145, 159} \cup (160..164)
  \cup (240..245) \cup {250, 253, 254, 255}

\* Opcode::gas_cost, by byte value; every byte not listed takes the
\* default arm (3).
GasCost(b) ==
  CASE b \in {STOP, JUMPDEST, RETURN, 253}    -> 0
    [] b \in {MUL, DIV, 5, MOD, 7, 11}        -> 5
    [] b = SLOAD                              -> 200
    [] b = SSTORE                             -> 20000
    [] b \in {48, 50, 51, 52, 54, 56, 58, 61} -> 2
    [] b = 64                                 -> 20
    [] b \in 65..69                           -> 2
    [] b \in 160..164                         -> 375 * (b - 159)
    [] b \in {240, 245}                       -> 32000
    [] b \in {241, 242, 244, 250}             -> 700
    [] b = 255                                -> 5000
    [] OTHER                                  -> 3

\* Number of operand bytes following a PUSHn byte (the executor's
\* `op - PUSH1 + 1`, and the skip of analyze_jumpdests), 0 for others.
PushSize(b) == IF b \in PUSH1..PUSH32 THEN b - PUSH1 + 1 ELSE 0

\* The arm of Executor::execute_opcode that a byte whose variant is
\* assigned is dispatched to.
ArmByValue(b) ==
  CASE b \in {ADD, MUL, SUB, DIV, MOD, LT, GT, EQ, AND, OR, XOR} -> "binary"
    [] b \in {ISZERO, NOT}  -> "unary"
    [] b = STOP             -> "stop"
    [] b = POP              -> "pop"
    [] b = MLOAD            -> "mload"
    [] b = MSTORE           -> "mstore"
    [] b = MSTORE8          -> "mstore8"
    [] b = SLOAD            -> "sload"
    [] b = SSTORE           -> "sstore"
    [] b = JUMP             -> "jump"
    [] b = JUMPI            -> "jumpi"
    [] b = JUMPDEST         -> "jumpdest"
    [] b \in PUSH1..PUSH32  -> "push"
    [] b \in DUP1..DUP16    -> "dup"
    [] b \in SWAP1..SWAP16  -> "swap"
    [] b = RETURN           -> "return"
    [] OTHER                -> "invalid"

\* The arms a byte may reach: its own arm when the variant is assigned,
\* and either the raw-byte range arm or InvalidOpcode when it is not.
Arms(b) ==
  IF b \in Assigned THEN {ArmByValue(b)} ELSE {ArmByValue(b), "invalid"}

=============================================================================
