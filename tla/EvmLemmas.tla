----------------------------- MODULE EvmLemmas ------------------------------
(***************************************************************************)
(* Facts about the word, stack and memory operators of U256, EvmStack and  *)
(* EvmMemory, for every word width and stack depth: the results have the   *)
(* types of the Rust values, and Memory::expand returns exactly the        *)
(* difference of the costs of the new and the old memory size.             *)
(***************************************************************************)
EXTENDS EvmStack, EvmMemory, TLAPS

\* AsWord always yields a word.
LEMMA AsWordType == \A x : AsWord(x) \in Value
  BY WordAssumption DEF AsWord, Value

\* Every arithmetic and bitwise result of the executor is a word.
LEMMA WordOps ==
  ASSUME NEW a \in Value, NEW b \in Value, NEW k
  PROVE  /\ WrapAdd(a, b) \in Value
         /\ WrapMul(a, b) \in Value
         /\ WrapSub(a, b) \in Value
         /\ DivOrZero(a, b) \in Value
         /\ ModOrZero(a, b) \in Value
         /\ BitNot(a) \in Value
         /\ BitwiseOp(k, a, b) \in Value
<1> USE WordAssumption DEF Value
<1>1. WrapAdd(a, b) \in Value /\ WrapMul(a, b) \in Value /\ WrapSub(a, b) \in Value
  BY DEF WrapAdd, WrapMul, WrapSub
<1>2. DivOrZero(a, b) \in Value
  <2>1. CASE b = 0
    BY <2>1 DEF DivOrZero
  <2>2. CASE b # 0
    <3>1. a \div b <= a
      BY <2>2, SMT
    <3> QED BY <2>2, <3>1 DEF DivOrZero
  <2> QED BY <2>1, <2>2
<1>3. ModOrZero(a, b) \in Value
  BY DEF ModOrZero
<1>4. BitNot(a) \in Value
  BY DEF BitNot
<1>5. BitwiseOp(k, a, b) \in Value
  BY AsWordType, Zenon DEF BitwiseOp
<1> QED BY <1>1, <1>2, <1>3, <1>4, <1>5

\* The sequences the stack operations leave are stacks of words.
LEMMA StackOps ==
  ASSUME NEW s \in Seq(Value), NEW v \in Value
  PROVE  /\ Push(s, v) \in Seq(Value) /\ Len(Push(s, v)) = Len(s) + 1
         /\ \A k \in 0..Len(s) : PopN(s, k) \in Seq(Value)
                                 /\ Len(PopN(s, k)) = Len(s) - k
         /\ \A i \in 0..(Len(s) - 1) : Peek(s, i) \in Value
         /\ \A i \in 0..(Len(s) - 1) : Dup(s, i) \in Seq(Value)
                                       /\ Len(Dup(s, i)) = Len(s) + 1
         /\ \A i \in 1..(Len(s) - 1) : Swap(s, i) \in Seq(Value)
                                       /\ Len(Swap(s, i)) = Len(s)
<1>1. Push(s, v) \in Seq(Value) /\ Len(Push(s, v)) = Len(s) + 1
  BY DEF Push
<1>2. \A k \in 0..Len(s) : PopN(s, k) \in Seq(Value) /\ Len(PopN(s, k)) = Len(s) - k
  BY DEF PopN
<1>3. \A i \in 0..(Len(s) - 1) : Peek(s, i) \in Value
  BY DEF Peek
<1>4. \A i \in 0..(Len(s) - 1) : Dup(s, i) \in Seq(Value) /\ Len(Dup(s, i)) = Len(s) + 1
  BY <1>3 DEF Dup
<1>5. \A i \in 1..(Len(s) - 1) : Swap(s, i) \in Seq(Value) /\ Len(Swap(s, i)) = Len(s)
  BY DEF Swap
<1> QED BY <1>1, <1>2, <1>3, <1>4, <1>5

\* Zeros(n) is n zero bytes.
LEMMA ZerosType ==
  ASSUME NEW n \in Nat
  PROVE  Zeros(n) \in Seq(Byte) /\ Len(Zeros(n)) = n
  BY DEF Zeros, Byte

\* The word count of a size is a natural number and grows with the size.
LEMMA WordsMonotone ==
  ASSUME NEW m \in Nat, NEW n \in Nat, m <= n
  PROVE  Words(m) \in Nat /\ Words(n) \in Nat /\ Words(m) <= Words(n)
  BY DEF Words

\* Memory::expand(offset, size) grows the buffer to max(len, offset+size)
\* with zero bytes, and the gas it returns is what that growth costs: the
\* cost of the new word count minus the cost of the old one.
LEMMA ExpandCharge ==
  ASSUME NEW d \in Seq(Byte), NEW offset \in Nat, NEW size \in Nat
  PROVE  LET x == Expand(d, offset, size) IN
           /\ x.data \in Seq(Byte)
           /\ Len(x.data) = IF size = 0 THEN Len(d) ELSE MaxOf(Len(d), offset + size)
           /\ x.gas \in Nat
           /\ MemCost(Words(Len(x.data))) = MemCost(Words(Len(d))) + x.gas
<1> DEFINE x == Expand(d, offset, size)
<1>1. CASE size = 0
  <2>1. Words(Len(d)) \in Nat
    BY WordsMonotone
  <2> QED BY <1>1, <2>1 DEF Expand, MemCost
<1>2. CASE size # 0
  <2> DEFINE newSize == MaxOf(Len(d), offset + size)
             ow == Words(Len(d))
             nw == Words(newSize)
  <2>1. newSize \in Nat /\ newSize >= Len(d)
    BY DEF MaxOf
  <2>2. x.data = d \o Zeros(newSize - Len(d))
        /\ x.gas = IF nw <= ow THEN 0
                   ELSE (nw - ow) * 3 + ((nw * nw) \div 512 - (ow * ow) \div 512)
    BY <1>2 DEF Expand
  <2>3. x.data \in Seq(Byte) /\ Len(x.data) = newSize
    BY <2>1, <2>2, ZerosType
  <2>4. ow \in Nat /\ nw \in Nat /\ ow <= nw
    BY <2>1, WordsMonotone
  <2>5. (ow * ow) \div 512 <= (nw * nw) \div 512
    <3>1. ow * ow <= nw * nw
      BY <2>4, SMT
    <3> QED BY <2>4, <3>1, SMT
  <2>6. x.gas \in Nat /\ MemCost(nw) = MemCost(ow) + x.gas
    <3>1. CASE nw <= ow
      <4>1. nw = ow /\ x.gas = 0
        BY <2>2, <2>4, <3>1
      <4> QED BY <2>4, <4>1 DEF MemCost
    <3>2. CASE ~(nw <= ow)
      <4> DEFINE qn == (nw * nw) \div 512
                 qo == (ow * ow) \div 512
      <4>1. qn \in Nat /\ qo \in Nat /\ qo <= qn
        BY <2>4, <2>5
      <4>2. x.gas = (nw - ow) * 3 + (qn - qo)
        BY <2>2, <3>2
      <4>3. MemCost(nw) = 3 * nw + qn /\ MemCost(ow) = 3 * ow + qo
        BY DEF MemCost
      <4> HIDE DEF qn, qo, x, nw, ow, newSize
      <4> QED BY <2>4, <4>1, <4>2, <4>3
    <3> QED BY <3>1, <3>2
  <2> QED BY <1>2, <2>3, <2>6
<1> QED BY <1>1, <1>2

\* The 32 big-endian bytes of a word are bytes.
LEMMA ToBytes32Type ==
  ASSUME NEW v \in Nat
  PROVE  ToBytes32(v) \in Seq(Byte) /\ Len(ToBytes32(v)) = 32
<1> DEFINE byte(j) == IF j <= 32 - WordBytes THEN 0 ELSE (v \div 256^(32 - j)) % 256
<1>1. \A j \in 1..32 : byte(j) \in Byte
  BY DEF Byte
<1>2. ToBytes32(v) = [j \in 1..32 |-> byte(j)]
  BY DEF ToBytes32
<1> HIDE DEF byte
<1> QED BY <1>1, <1>2

\* Memory::store(offset, bytes) leaves a byte buffer as long as the one
\* Memory::expand(offset, len) leaves.
LEMMA StoreType ==
  ASSUME NEW d \in Seq(Byte), NEW offset \in Nat, NEW bs \in Seq(Byte)
  PROVE  /\ Store(d, offset, bs) \in Seq(Byte)
         /\ Len(Store(d, offset, bs)) = Len(Expand(d, offset, Len(bs)).data)
<1> DEFINE e == Expand(d, offset, Len(bs)).data
<1>1. e \in Seq(Byte)
  BY ExpandCharge
<1>2. \A i \in 1..Len(e) :
        (IF i > offset /\ i <= offset + Len(bs) THEN bs[i - offset] ELSE e[i]) \in Byte
  BY <1>1
<1>3. Store(d, offset, bs)
        = [i \in 1..Len(e) |->
             IF i > offset /\ i <= offset + Len(bs) THEN bs[i - offset] ELSE e[i]]
  BY DEF Store
<1> HIDE DEF Expand
<1> QED BY <1>1, <1>2, <1>3

\* Memory::store after Memory::expand of the same range (the memory arms):
\* the store finds the range backed and leaves the length alone.
LEMMA StoreAfterExpand ==
  ASSUME NEW d \in Seq(Byte), NEW offset \in Nat, NEW bs \in Seq(Byte), Len(bs) >= 1
  PROVE  LET x == Expand(d, offset, Len(bs)) IN
           /\ Store(x.data, offset, bs) \in Seq(Byte)
           /\ Len(Store(x.data, offset, bs)) = Len(x.data)
<1> DEFINE x == Expand(d, offset, Len(bs))
<1>1. x.data \in Seq(Byte) /\ Len(x.data) = MaxOf(Len(d), offset + Len(bs))
  BY ExpandCharge
<1>2. Len(Expand(x.data, offset, Len(bs)).data) = MaxOf(Len(x.data), offset + Len(bs))
  BY <1>1, ExpandCharge
<1>3. Len(Expand(x.data, offset, Len(bs)).data) = Len(x.data)
  BY <1>1, <1>2 DEF MaxOf
<1>4. Store(x.data, offset, bs) \in Seq(Byte)
      /\ Len(Store(x.data, offset, bs)) = Len(Expand(x.data, offset, Len(bs)).data)
  BY <1>1, StoreType
<1> QED BY <1>3, <1>4

\* Memory::load32 and Memory::load return a word and bytes.
LEMMA LoadType ==
  ASSUME NEW d \in Seq(Byte), NEW offset \in Nat, NEW size \in Nat
  PROVE  Load32(d, offset) \in Value /\ Load(d, offset, size) \in Seq(Byte)
<1>1. Load32(d, offset) \in Value
  <2>1. 0 \in Value
    BY WordAssumption DEF Value
  <2>2. FromBytes32(SubSeq(d, offset + 1, offset + 32)) \in Value
    BY AsWordType, Zenon DEF FromBytes32
  <2> QED BY <2>1, <2>2 DEF Load32
<1>2. Load(d, offset, size) \in Seq(Byte)
  BY ZerosType DEF Load
<1> QED BY <1>1, <1>2

=============================================================================
