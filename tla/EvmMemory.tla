----------------------------- MODULE EvmMemory -----------------------------
(***************************************************************************)
(* The linear memory of src/fairvm/src/evm/memory.rs.  The struct keeps a  *)
(* byte buffer `data` and a logical `size`; both start empty and only      *)
(* Memory::expand changes either, setting size to max(size, offset+size)   *)
(* and resizing data to it, so the two are always equal and the model      *)
(* keeps the buffer only: the size is its length.                          *)
(***************************************************************************)
EXTENDS U256

\* usize::div_ceil(n, 32): the number of 32-byte words covering n bytes.
Words(n) == (n + 31) \div 32

\* The cost of a memory of w words, 3*w + w*w/512 (the formula of the
\* comment in Memory::expand, used to state what the charges add up to).
MemCost(w) == 3 * w + (w * w) \div 512

Zeros(n) == [i \in 1..n |-> 0]

MaxOf(a, b) == IF a >= b THEN a ELSE b

\* Mutation of Expand: old_size read after `self.size = new_size`, so the
\* old and new word counts are equal and no expansion is ever charged.
ExpandReadsSizeLate(d, offset, size) ==
  LET newSize == MaxOf(Len(d), offset + size)
  IN [data |-> IF size = 0 THEN d ELSE d \o Zeros(newSize - Len(d)), gas |-> 0]

\* Memory::expand(offset, size): the new buffer and the marginal gas it
\* returns, computed as the code does (linear part plus the difference of
\* the two quadratic parts).
Expand(d, offset, size) ==
  IF size = 0 THEN [data |-> d, gas |-> 0]
  ELSE LET newSize == MaxOf(Len(d), offset + size)
           ow == Words(Len(d))
           nw == Words(newSize)
       IN [data |-> d \o Zeros(newSize - Len(d)),
           gas  |-> IF nw <= ow THEN 0
                    ELSE (nw - ow) * 3 + ((nw * nw) \div 512 - (ow * ow) \div 512)]

\* Memory::store(offset, bytes): expand, then copy the bytes in.
Store(d, offset, bs) ==
  LET e == Expand(d, offset, Len(bs)).data
  IN [i \in 1..Len(e) |->
        IF i > offset /\ i <= offset + Len(bs) THEN bs[i - offset] ELSE e[i]]

\* Memory::store32(offset, value): the big-endian 32 bytes of the value.
Store32(d, offset, v) == Store(d, offset, ToBytes32(v))

\* Memory::load32(offset): zero unless all 32 bytes are backed.
Load32(d, offset) ==
  IF offset + 32 > Len(d) THEN 0 ELSE FromBytes32(SubSeq(d, offset + 1, offset + 32))

\* Memory::load(offset, size): all zeros unless the whole range is backed.
Load(d, offset, size) ==
  IF offset + size > Len(d) THEN Zeros(size) ELSE SubSeq(d, offset + 1, offset + size)

=============================================================================
