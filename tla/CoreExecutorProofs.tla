------------------------- MODULE CoreExecutorProofs -------------------------
(***************************************************************************)
(* Proofs about one run of the core crate's Executor::execute, for every   *)
(* code buffer, gas limit, word width and stack depth.                     *)
(*                                                                         *)
(* GasWithinLimit is inductive only with the types of gas_used and         *)
(* gas_limit; JumpLandsOnJumpdest needs more: that a popped destination is *)
(* a number (so the stack holds words, so memory holds bytes and storage   *)
(* words, since MLOAD and SLOAD push what they read) and that the jump     *)
(* table is still the one analyze_jumpdests computed from the code.  CInv  *)
(* is their conjunction.                                                   *)
(***************************************************************************)
EXTENDS CoreExecutor, EvmLemmas, TLAPS

CInv ==
  /\ code \in Seq(Byte) /\ jumpdests = CoreJumpdests(code)
  /\ pc \in Nat
  /\ stack \in Seq(Value)
  /\ mem \in Seq(Byte)
  /\ \A k \in DOMAIN storage : storage[k] \in Value
  /\ gasUsed \in Nat /\ gasLimit \in Nat
  /\ GasWithinLimit

\* The base charge of any byte is a number of gas.
LEMMA CoreGasCostType == \A b : GasCost(b) \in Nat
  BY DEF GasCost

\* Words are numbers, and 0 and 1 are words.
LEMMA ValueFacts == Value \subseteq Nat /\ 0 \in Value /\ 1 \in Value
  BY WordAssumption DEF Value

\* What a step that ran an arm knows: the byte, and a charge within the limit.
LEMMA CoreFetchFacts ==
  ASSUME CInv, NEW ops, Fetch(ops)
  PROVE  /\ status = "running" /\ pc < Len(code) /\ Op \in ops
         /\ gasUsed' \in Nat /\ gasUsed' <= gasLimit
<1>1. GasCost(Op) \in Nat
  BY CoreGasCostType
<1> QED BY <1>1 DEF CInv, Fetch, UseGasOk

\* The top two items of a stack of words are words.
LEMMA CoreTopType ==
  ASSUME CInv
  PROVE  /\ Len(stack) >= 1 => Top \in Value /\ PopN(stack, 1) \in Seq(Value)
         /\ Len(stack) >= 2 => Second \in Value /\ PopN(stack, 2) \in Seq(Value)
  BY DEF CInv, Top, Second, PopN

\* The value a two-operand arm pushes is a word.
LEMMA BinOpType ==
  ASSUME NEW o \in BinaryOps, NEW a \in Value, NEW b \in Value
  PROVE  BinOp(o, a, b) \in Value
<1>1. (IF a >= 32 THEN 0 ELSE (b \div (256 ^ (31 - a))) % 256) \in Value
  BY WordAssumption DEF Value
<1> QED
  BY <1>1, ValueFacts, WordOps
  DEF BinOp, BinaryOps, ADD, MUL, SUB, DIV, MOD, LT, GT, EQ, AND, OR, XOR, BYTE

\* CInv after a step that keeps the code, the table and the limit, from the
\* types of what the step changes.
LEMMA CInvStep ==
  ASSUME CInv, code' = code, jumpdests' = jumpdests, gasLimit' = gasLimit,
         pc' \in Nat, stack' \in Seq(Value), mem' \in Seq(Byte),
         \A k \in DOMAIN storage' : storage'[k] \in Value,
         gasUsed' \in Nat, gasUsed' <= gasLimit
  PROVE  CInv'
  BY DEF CInv, GasWithinLimit

\* A chain of pops that underflows leaves an empty stack of words.
LEMMA UnderflowStep ==
  ASSUME CInv, NEW k, Underflow(k), gasUsed' \in Nat, gasUsed' <= gasLimit,
         UNCHANGED Frame
  PROVE  CInv'
  BY CInvStep DEF CInv, Underflow, Frame

\* The destination a JUMP or a taken JUMPI accepts is a JUMPDEST byte of
\* the code.
LEMMA ValidDestLands ==
  ASSUME CInv, NEW d \in Nat, ValidDest(d)
  PROVE  d < Len(code) /\ code[d + 1] = JUMPDEST
<1>1. d < Len(code) /\ jumpdests[d]
  BY DEF ValidDest
<1>2. d \in 0..(Len(code) - 1)
  BY <1>1 DEF CInv
<1> QED BY <1>1, <1>2 DEF CInv, CoreJumpdests

-----------------------------------------------------------------------------
LEMMA CInvInit == Init => CInv
<1> SUFFICES ASSUME Init PROVE CInv
  OBVIOUS
<1>1. code \in Seq(Byte) /\ gasLimit \in Nat
  BY CoreAssumption DEF Init
<1> QED BY <1>1, ValueFacts DEF Init, CInv, GasWithinLimit

\* The steps that end the run or fail before an arm: only the status and
\* the error change.
LEMMA HaltSteps ==
  ASSUME CInv, EndOfCode \/ Undecodable \/ BaseOutOfGas \/ NoArm
  PROVE  CInv'
<1>1. CASE EndOfCode \/ Undecodable \/ BaseOutOfGas
  <2>1. UNCHANGED <<pc, stack, mem, storage, gasUsed, Frame>>
    BY <1>1 DEF EndOfCode, Undecodable, BaseOutOfGas
  <2> QED BY <2>1, CInvStep DEF CInv, Frame, GasWithinLimit
<1>2. CASE NoArm
  <2>1. gasUsed' \in Nat /\ gasUsed' <= gasLimit
    BY <1>2, CoreFetchFacts DEF NoArm
  <2> QED BY <1>2, <2>1, CInvStep DEF CInv, NoArm, Frame
<1> QED BY <1>1, <1>2

\* STOP and JUMPDEST change pc, the status and gas only.
LEMMA StopJumpDestStep ==
  ASSUME CInv, Stop \/ JumpDest
  PROVE  CInv'
<1>1. gasUsed' \in Nat /\ gasUsed' <= gasLimit
  BY CoreFetchFacts DEF Stop, JumpDest
<1>2. CASE Stop
  <2>1. UNCHANGED <<pc, stack, mem, storage, Frame>>
    BY <1>2 DEF Stop
  <2> QED BY <1>1, <2>1, CInvStep DEF CInv, Frame
<1>3. CASE JumpDest
  <2>1. pc' = pc + 1 /\ UNCHANGED <<stack, mem, storage, Frame>>
    BY <1>3 DEF JumpDest, Continue
  <2> QED BY <1>1, <2>1, CInvStep DEF CInv, Frame
<1> QED BY <1>2, <1>3

LEMMA BinaryStep == CInv /\ Binary => CInv'
<1> SUFFICES ASSUME CInv, Binary PROVE CInv'
  OBVIOUS
<1>1. gasUsed' \in Nat /\ gasUsed' <= gasLimit /\ Op \in BinaryOps
  BY CoreFetchFacts DEF Binary
<1>2. CASE Underflow(2)
  BY <1>1, <1>2, UnderflowStep DEF Binary
<1>3. CASE ~Underflow(2)
  <2>1. Len(stack) >= 2 /\ stack' = Append(PopN(stack, 2), BinOp(Op, Top, Second))
        /\ pc' = pc + 1 /\ UNCHANGED <<mem, storage, Frame>>
    BY <1>3 DEF Binary, Continue
  <2>2. BinOp(Op, Top, Second) \in Value
    BY <1>1, <2>1, CoreTopType, BinOpType
  <2> QED BY <1>1, <2>1, <2>2, CoreTopType, CInvStep DEF CInv, Frame
<1> QED BY <1>2, <1>3

LEMMA UnaryStep == CInv /\ Unary => CInv'
<1> SUFFICES ASSUME CInv, Unary PROVE CInv'
  OBVIOUS
<1>1. gasUsed' \in Nat /\ gasUsed' <= gasLimit
  BY CoreFetchFacts DEF Unary
<1>2. CASE Underflow(1)
  BY <1>1, <1>2, UnderflowStep DEF Unary
<1>3. CASE ~Underflow(1)
  <2> DEFINE v == IF Op = NOT THEN BitNot(Top) ELSE IF Top = 0 THEN 1 ELSE 0
  <2>1. Len(stack) >= 1 /\ stack' = Append(PopN(stack, 1), v)
        /\ pc' = pc + 1 /\ UNCHANGED <<mem, storage, Frame>>
    BY <1>3 DEF Unary, Continue
  <2>2. v \in Value
    BY <2>1, CoreTopType, WordOps, ValueFacts
  <2> HIDE DEF v
  <2> QED BY <1>1, <2>1, <2>2, CoreTopType, CInvStep DEF CInv, Frame
<1> QED BY <1>2, <1>3

LEMMA PopOpStep == CInv /\ PopOp => CInv'
<1> SUFFICES ASSUME CInv, PopOp PROVE CInv'
  OBVIOUS
<1>1. gasUsed' \in Nat /\ gasUsed' <= gasLimit
  BY CoreFetchFacts DEF PopOp
<1>2. CASE Underflow(1)
  BY <1>1, <1>2, UnderflowStep DEF PopOp
<1>3. CASE ~Underflow(1)
  <2>1. Len(stack) >= 1 /\ stack' = PopN(stack, 1)
        /\ pc' = pc + 1 /\ UNCHANGED <<mem, storage, Frame>>
    BY <1>3 DEF PopOp, Continue
  <2> QED BY <1>1, <2>1, CoreTopType, CInvStep DEF CInv, Frame
<1> QED BY <1>2, <1>3

\* MLOAD pushes a word read from memory, which it leaves alone.
LEMMA MLoadStep == CInv /\ MLoad => CInv'
<1> SUFFICES ASSUME CInv, MLoad PROVE CInv'
  OBVIOUS
<1>1. gasUsed' \in Nat /\ gasUsed' <= gasLimit
  BY CoreFetchFacts DEF MLoad
<1>2. CASE Underflow(1)
  BY <1>1, <1>2, UnderflowStep DEF MLoad
<1>3. CASE ~Underflow(1)
  <2>1. Len(stack) >= 1 /\ stack' = Append(PopN(stack, 1), Load32(mem, Top))
        /\ pc' = pc + 1 /\ UNCHANGED <<mem, storage, Frame>>
    BY <1>3 DEF MLoad, Continue
  <2>2. Load32(mem, Top) \in Value
    BY <2>1, CoreTopType, ValueFacts, LoadType DEF CInv
  <2> QED BY <1>1, <2>1, <2>2, CoreTopType, CInvStep DEF CInv, Frame
<1> QED BY <1>2, <1>3

\* MSTORE leaves a byte buffer.
LEMMA MStoreStep == CInv /\ MStore => CInv'
<1> SUFFICES ASSUME CInv, MStore PROVE CInv'
  OBVIOUS
<1>1. gasUsed' \in Nat /\ gasUsed' <= gasLimit
  BY CoreFetchFacts DEF MStore
<1>2. CASE Underflow(2)
  BY <1>1, <1>2, UnderflowStep DEF MStore
<1>3. CASE ~Underflow(2)
  <2>1. Len(stack) >= 2 /\ mem' = Store32(mem, Top, Second)
        /\ stack' = PopN(stack, 2)
        /\ pc' = pc + 1 /\ UNCHANGED <<storage, Frame>>
    BY <1>3 DEF MStore, Continue
  <2>2. Top \in Nat /\ Second \in Nat
    <3>1. Top \in Value /\ Second \in Value
      BY <2>1, CoreTopType
    <3> QED BY <3>1, ValueFacts
  <2>3. Store32(mem, Top, Second) \in Seq(Byte)
    BY <2>2, ToBytes32Type, StoreType DEF CInv, Store32
  <2> QED BY <1>1, <2>1, <2>3, CoreTopType, CInvStep DEF CInv, Frame
<1> QED BY <1>2, <1>3

\* SLOAD pushes a slot's word, or zero.
LEMMA SLoadStep == CInv /\ SLoad => CInv'
<1> SUFFICES ASSUME CInv, SLoad PROVE CInv'
  OBVIOUS
<1>1. gasUsed' \in Nat /\ gasUsed' <= gasLimit
  BY CoreFetchFacts DEF SLoad
<1>2. CASE Underflow(1)
  BY <1>1, <1>2, UnderflowStep DEF SLoad
<1>3. CASE ~Underflow(1)
  <2> DEFINE v == IF Top \in DOMAIN storage THEN storage[Top] ELSE 0
  <2>1. Len(stack) >= 1 /\ stack' = Append(PopN(stack, 1), v)
        /\ pc' = pc + 1 /\ UNCHANGED <<mem, storage, Frame>>
    BY <1>3 DEF SLoad, Continue
  <2>2. v \in Value
    BY ValueFacts DEF CInv
  <2> HIDE DEF v
  <2> QED BY <1>1, <2>1, <2>2, CoreTopType, CInvStep DEF CInv, Frame
<1> QED BY <1>2, <1>3

\* SSTORE writes a word into a slot, or fails.
LEMMA SStoreStep == CInv /\ SStore => CInv'
<1> SUFFICES ASSUME CInv, SStore PROVE CInv'
  OBVIOUS
<1>1. gasUsed' \in Nat /\ gasUsed' <= gasLimit
  BY CoreFetchFacts DEF SStore
<1>2. CASE isStatic
  <2>1. UNCHANGED <<pc, stack, mem, storage, Frame>>
    BY <1>2 DEF SStore, Underflow
  <2> QED BY <1>1, <2>1, CInvStep DEF CInv, Frame
<1>3. CASE ~isStatic /\ Underflow(2)
  BY <1>1, <1>3, UnderflowStep DEF SStore
<1>4. CASE ~isStatic /\ ~Underflow(2)
  <2>1. Len(stack) >= 2 /\ stack' = PopN(stack, 2)
        /\ storage' = [k \in DOMAIN storage \cup {Top} |->
                         IF k = Top THEN Second ELSE storage[k]]
        /\ pc' = pc + 1 /\ UNCHANGED <<mem, Frame>>
    BY <1>4 DEF SStore, Continue
  <2>2. Second \in Value
    BY <2>1, CoreTopType
  <2>3. \A k \in DOMAIN storage' : storage'[k] \in Value
    BY <2>1, <2>2 DEF CInv
  <2> QED BY <1>1, <2>1, <2>3, CoreTopType, CInvStep DEF CInv, Frame
<1> QED BY <1>2, <1>3, <1>4

\* A jump to a natural number either fails or sets pc to it.
LEMMA JumpToFacts ==
  ASSUME CInv, NEW d \in Nat, JumpTo(d)
  PROVE  pc' \in Nat
  BY DEF JumpTo, CInv

LEMMA JumpStep == CInv /\ Jump => CInv'
<1> SUFFICES ASSUME CInv, Jump PROVE CInv'
  OBVIOUS
<1>1. gasUsed' \in Nat /\ gasUsed' <= gasLimit
  BY CoreFetchFacts DEF Jump
<1>2. CASE Underflow(1)
  BY <1>1, <1>2, UnderflowStep DEF Jump
<1>3. CASE ~Underflow(1)
  <2>1. Len(stack) >= 1 /\ stack' = PopN(stack, 1) /\ JumpTo(Top)
        /\ UNCHANGED <<mem, storage, Frame>>
    BY <1>3 DEF Jump
  <2>2. pc' \in Nat
    BY <2>1, CoreTopType, ValueFacts, JumpToFacts
  <2> QED BY <1>1, <2>1, <2>2, CoreTopType, CInvStep DEF CInv, Frame
<1> QED BY <1>2, <1>3

LEMMA JumpIStep == CInv /\ JumpI => CInv'
<1> SUFFICES ASSUME CInv, JumpI PROVE CInv'
  OBVIOUS
<1>1. gasUsed' \in Nat /\ gasUsed' <= gasLimit
  BY CoreFetchFacts DEF JumpI
<1>2. CASE Underflow(2)
  BY <1>1, <1>2, UnderflowStep DEF JumpI
<1>3. CASE ~Underflow(2)
  <2>1. Len(stack) >= 2 /\ stack' = PopN(stack, 2)
        /\ (IF Second # 0 THEN JumpTo(Top) ELSE Continue)
        /\ UNCHANGED <<mem, storage, Frame>>
    BY <1>3 DEF JumpI
  <2>2. pc' \in Nat
    <3>1. CASE Second # 0
      <4>1. Top \in Value
        BY <2>1, CoreTopType
      <4>2. Top \in Nat
        BY <4>1, ValueFacts
      <4> QED BY <2>1, <3>1, <4>2, JumpToFacts
    <3>2. CASE Second = 0
      BY <2>1, <3>2 DEF Continue, CInv
    <3> QED BY <3>1, <3>2
  <2> QED BY <1>1, <2>1, <2>2, CoreTopType, CInvStep DEF CInv, Frame
<1> QED BY <1>2, <1>3

\* PC, MSIZE and GAS push a number reduced to a word.
LEMMA PushInfoStep == CInv /\ PushInfo => CInv'
<1> SUFFICES ASSUME CInv, PushInfo PROVE CInv'
  OBVIOUS
<1>1. gasUsed' \in Nat /\ gasUsed' <= gasLimit
  BY CoreFetchFacts DEF PushInfo
<1>2. CASE ~CanPush(stack)
  <2>1. UNCHANGED <<pc, stack, mem, storage, Frame>>
    BY <1>2 DEF PushInfo
  <2> QED BY <1>1, <2>1, CInvStep DEF CInv, Frame
<1>3. CASE CanPush(stack)
  <2> DEFINE x == CASE Op = PC    -> pc
                    [] Op = MSIZE -> Len(mem)
                    [] Op = GAS   -> gasLimit - gasUsed'
  <2>1. stack' = Append(stack, x % Word) /\ pc' = pc + 1
        /\ UNCHANGED <<mem, storage, Frame>>
    BY <1>3 DEF PushInfo, Continue
  <2>2. Op \in {PC, MSIZE, GAS}
    BY CoreFetchFacts DEF PushInfo
  <2>3. x \in Nat
    BY <1>1, <2>2 DEF CInv, PC, MSIZE, GAS
  <2> HIDE DEF x
  <2>4. x % Word \in Value
    BY <2>3, WordAssumption DEF Value
  <2>5. stack' \in Seq(Value) /\ pc' \in Nat
    BY <2>1, <2>4 DEF CInv
  <2> QED BY <1>1, <2>1, <2>5, CInvStep DEF CInv, Frame
<1> QED BY <1>2, <1>3

\* RETURN and REVERT pop two words and set the return data only.
LEMMA ReturnRevertStep == CInv /\ (Return \/ Revert) => CInv'
<1> SUFFICES ASSUME CInv, Return \/ Revert PROVE CInv'
  OBVIOUS
<1>1. gasUsed' \in Nat /\ gasUsed' <= gasLimit
  BY CoreFetchFacts DEF Return, Revert
<1>2. CASE Underflow(2)
  BY <1>1, <1>2, UnderflowStep DEF Return, Revert
<1>3. CASE ~Underflow(2)
  <2>1. Len(stack) >= 2 /\ stack' = PopN(stack, 2)
        /\ UNCHANGED <<pc, mem, storage, Frame>>
    BY <1>3 DEF Return, Revert
  <2> QED BY <1>1, <2>1, CoreTopType, CInvStep DEF CInv, Frame
<1> QED BY <1>2, <1>3

LEMMA CInvNext == CInv /\ [Next]_vars => CInv'
<1> SUFFICES ASSUME CInv, [Next]_vars PROVE CInv'
  OBVIOUS
<1>1. CASE UNCHANGED vars
  BY <1>1 DEF CInv, vars, GasWithinLimit
<1> QED
  BY <1>1, HaltSteps, StopJumpDestStep, BinaryStep, UnaryStep, PopOpStep,
     MLoadStep, MStoreStep, SLoadStep, SStoreStep, JumpStep, JumpIStep,
     PushInfoStep, ReturnRevertStep DEF Next

\* A jump to a natural number fails or lands on a JUMPDEST of the code.
LEMMA JumpToLands ==
  ASSUME CInv, NEW d \in Nat, JumpTo(d), code' = code
  PROVE  LandsOnJumpdest
<1>1. CASE ValidDest(d)
  <2>1. pc' = d
    BY <1>1 DEF JumpTo
  <2> QED BY <1>1, <2>1, ValidDestLands DEF LandsOnJumpdest
<1>2. CASE ~ValidDest(d)
  BY <1>2 DEF JumpTo, Fail, LandsOnJumpdest
<1> QED BY <1>1, <1>2

\* Every step other than a jump ends the run or moves pc by at most one.
LEMMA NonJumpSteps ==
  ASSUME CInv, [Next]_vars, ~Jump, ~JumpI
  PROVE  status' # "running" \/ pc' \in {pc, pc + 1}
<1>1. CASE EndOfCode \/ Undecodable \/ BaseOutOfGas \/ NoArm \/ Stop
  BY <1>1 DEF EndOfCode, Undecodable, BaseOutOfGas, NoArm, Stop, Fail, Break
<1>2. CASE Binary \/ Unary \/ PopOp \/ MLoad \/ MStore \/ SLoad
  BY <1>2 DEF Binary, Unary, PopOp, MLoad, MStore, SLoad, Underflow, Fail,
             Continue
<1>3. CASE SStore \/ PushInfo \/ JumpDest
  BY <1>3 DEF SStore, PushInfo, JumpDest, Underflow, Fail, Continue
<1>4. CASE Return \/ Revert
  BY <1>4 DEF Return, Revert, Underflow, Fail, Break
<1>5. CASE UNCHANGED vars
  BY <1>5 DEF vars
<1> QED BY <1>1, <1>2, <1>3, <1>4, <1>5 DEF Next

\* Under CInv, every step, stuttering included, satisfies LandsOnJumpdest.
LEMMA NextLands == CInv /\ [Next]_vars => [LandsOnJumpdest]_vars
<1> SUFFICES ASSUME CInv, [Next]_vars PROVE LandsOnJumpdest
  OBVIOUS
<1>1. CASE Jump
  <2>1. CASE Underflow(1)
    BY <2>1 DEF Underflow, Fail, LandsOnJumpdest
  <2>2. CASE ~Underflow(1)
    <3>1. Len(stack) >= 1 /\ JumpTo(Top) /\ code' = code
      BY <1>1, <2>2 DEF Jump, Frame
    <3>2. Top \in Nat
      BY <3>1, CoreTopType, ValueFacts
    <3> QED BY <3>1, <3>2, JumpToLands
  <2> QED BY <2>1, <2>2
<1>2. CASE JumpI
  <2>1. CASE Underflow(2)
    BY <2>1 DEF Underflow, Fail, LandsOnJumpdest
  <2>2. CASE ~Underflow(2)
    <3>1. Len(stack) >= 2 /\ (IF Second # 0 THEN JumpTo(Top) ELSE Continue)
          /\ code' = code
      BY <1>2, <2>2 DEF JumpI, Frame
    <3>2. CASE Second # 0
      <4>1. Top \in Value
        BY <3>1, CoreTopType
      <4>2. Top \in Nat
        BY <4>1, ValueFacts
      <4> QED BY <3>1, <3>2, <4>2, JumpToLands
    <3>3. CASE Second = 0
      BY <3>1, <3>3 DEF Continue, LandsOnJumpdest
    <3> QED BY <3>2, <3>3
  <2> QED BY <2>1, <2>2
<1>3. CASE ~Jump /\ ~JumpI
  BY <1>3, NonJumpSteps DEF LandsOnJumpdest
<1> QED BY <1>1, <1>2, <1>3

-----------------------------------------------------------------------------
\* CInv holds in every state of every run.
THEOREM CoreInvariance == Spec => []CInv
  BY CInvInit, CInvNext, PTL DEF Spec

\* The core executor never lets gas_used exceed gas_limit
\* (CoreExecutor!GasWithinLimit): use_gas is the only writer of gas_used
\* and checks the sum first, so GAS never computes a negative remainder.
THEOREM CoreGasBounded == Spec => []GasWithinLimit
  BY CoreInvariance, PTL DEF CInv

\* Every jump of the core executor lands on a JUMPDEST byte
\* (CoreExecutor!JumpLandsOnJumpdest): JUMP and JUMPI check the table of
\* analyze_jumpdests, which no step changes, and that table marks only
\* JUMPDEST bytes.
THEOREM JumpsLandOnJumpdests == Spec => JumpLandsOnJumpdest
<1>1. []CInv /\ [][Next]_vars => [][LandsOnJumpdest]_vars
  BY NextLands, PTL
<1> QED BY CoreInvariance, <1>1, PTL DEF Spec, JumpLandsOnJumpdest

=============================================================================
