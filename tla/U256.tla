------------------------------- MODULE U256 --------------------------------
(***************************************************************************)
(* The machine word of the executor: ethers::types::U256, an unsigned      *)
(* integer of 32 bytes with wrapping arithmetic.  The width is the         *)
(* constant WordBytes (32 in the code); model-checking runs use a narrower *)
(* word so that wrap-around, the all-ones value and byte truncation are    *)
(* reached with small numbers.  A word is represented by its value in      *)
(* 0..Word-1; every operation below is the code's U256 operation reduced   *)
(* to that width.                                                          *)
(***************************************************************************)
EXTENDS Naturals, Sequences

CONSTANT WordBytes

ASSUME WordBytesAssumption == WordBytes \in 1..32

\* u8
Byte == 0..255

Word == 256^WordBytes

\* 256^WordBytes is a number of at least 256.  A fact of arithmetic, stated for
\* the provers, which have no theory of exponentiation.
ASSUME WordAssumption == Word \in Nat /\ Word >= 256
Value == 0..(Word - 1)

\* A result computed by one of the loops below, as a word.  Every loop
\* step stays within 0..Word-1, so the guard never falls back to 0; it
\* states that range in a form a proof can use without following the
\* recursion of the loop.
AsWord(x) == IF x \in Value THEN x ELSE 0

\* overflowing_add / overflowing_mul / overflowing_sub, keeping .0
WrapAdd(a, b) == (a + b) % Word
WrapMul(a, b) == (a * b) % Word
WrapSub(a, b) == (a + (Word - b)) % Word

\* `if b.is_zero() { U256::zero() } else { a / b }` and the same for %
DivOrZero(a, b) == IF b = 0 THEN 0 ELSE a \div b
ModOrZero(a, b) == IF b = 0 THEN 0 ELSE a % b

\* U256 `&`, `|`, `^` bit by bit, from the least significant bit up.
BitwiseOp(kind, a, b) ==
  LET bit(x, y) == CASE kind = "and" -> x * y
                     [] kind = "or"  -> IF x + y > 0 THEN 1 ELSE 0
                     [] kind = "xor" -> (x + y) % 2
      acc[k \in 0..(8 * WordBytes)] ==
        IF k = 0 THEN 0
        ELSE acc[k - 1]
             + 2^(k - 1) * bit((a \div 2^(k - 1)) % 2, (b \div 2^(k - 1)) % 2)
  IN AsWord(acc[8 * WordBytes])

\* U256 `!a`
BitNot(a) == Word - 1 - a

\* U256::to_big_endian into a 32-byte buffer: the bytes above the word
\* width are zero.
ToBytes32(v) ==
  [j \in 1..32 |-> IF j <= 32 - WordBytes THEN 0
                   ELSE (v \div 256^(32 - j)) % 256]

\* U256::from_big_endian of a 32-byte slice, reduced to the word width.
FromBytes32(bs) ==
  LET acc[k \in 0..WordBytes] ==
        IF k = 0 THEN 0 ELSE acc[k - 1] * 256 + bs[32 - WordBytes + k]
  IN AsWord(acc[WordBytes])

\* `value <<= 8; value |= byte` over the n operand bytes of a PUSHn
\* starting after position p (0-based) of code c: the shift drops the
\* bits above the word width.
PushValue(c, p, n) ==
  LET acc[k \in 0..n] ==
        IF k = 0 THEN 0 ELSE (acc[k - 1] * 256 + c[p + 1 + k]) % Word
  IN AsWord(acc[n])

=============================================================================
