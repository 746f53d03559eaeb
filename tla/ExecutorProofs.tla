--------------------------- MODULE ExecutorProofs ---------------------------
(***************************************************************************)
(* Proofs about one run of Executor::execute, for every code buffer, gas   *)
(* limit, word width and stack depth.                                      *)
(*                                                                         *)
(* TypeOK, GasWithinLimit and MemoryCharged are each checked by TLC; none  *)
(* of them is inductive alone.  TypeOK needs the gas and memory facts to   *)
(* know the memory arms leave a byte buffer, and MemoryCharged needs       *)
(* TypeOK to know that offsets are numbers and that gas_used only grows.   *)
(* Their conjunction IInv is inductive; the argument for MemoryCharged is  *)
(* that each expansion charges exactly the difference of the costs of the  *)
(* new and the old size (EvmLemmas!ExpandCharge), so the charges add up to *)
(* the cost of the current size, while base costs only add to gas_used.    *)
(*                                                                         *)
(* PcOnInstruction rests on PcInv: the jump table is the scan of the code  *)
(* and pc is a value of the decode chain of InstrStarts.  The scan and the *)
(* chain are recursive functions; each visited offset is shown to be on   *)
(* the chain by taking the least one that is not (NatLemmas!LeastNat).     *)
(***************************************************************************)
EXTENDS Executor, EvmLemmas, NatLemmas, NaturalsInduction, TLAPS

IInv == TypeOK /\ GasWithinLimit /\ MemoryCharged

\* The arm an opcode byte is dispatched to determines the range of the byte.
LEMMA ArmsDecode ==
  ASSUME NEW b
  PROVE  /\ "binary" \in Arms(b) => b \in {ADD, MUL, SUB, DIV, MOD, LT, GT, EQ, AND, OR, XOR}
         /\ "unary" \in Arms(b) => b \in {ISZERO, NOT}
         /\ "push" \in Arms(b) => b \in PUSH1..PUSH32
         /\ "dup" \in Arms(b) => b \in DUP1..DUP16
         /\ "swap" \in Arms(b) => b \in SWAP1..SWAP16
  BY DEF Arms, ArmByValue, ADD, MUL, SUB, DIV, MOD, LT, GT, EQ, AND, OR, XOR,
         ISZERO, NOT, STOP, POP, MLOAD, MSTORE, MSTORE8, SLOAD, SSTORE, JUMP,
         JUMPI, JUMPDEST, PUSH1, PUSH32, DUP1, DUP16, SWAP1, SWAP16, RETURN

\* The value pushed by a two-operand arm is a word.
LEMMA BinaryResultType ==
  ASSUME NEW op \in {ADD, MUL, SUB, DIV, MOD, LT, GT, EQ, AND, OR, XOR},
         NEW a \in Value, NEW b \in Value
  PROVE  BinaryResult(op, a, b) \in Value
<1>1. 0 \in Value /\ 1 \in Value
  BY WordAssumption DEF Value
<1> QED
  BY <1>1, WordOps DEF BinaryResult, ADD, MUL, SUB, DIV, MOD, LT, GT, EQ, AND, OR, XOR

\* The base charge of any byte is a number of gas.
LEMMA GasCostType == \A b : GasCost(b) \in Nat
  BY DEF GasCost

\* What a step that fetched its byte knows.
LEMMA FetchFacts ==
  ASSUME TypeOK, NEW arm, Fetch(arm)
  PROVE  /\ status = "running" /\ pc < Len(code)
         /\ Op \in Byte /\ arm \in Arms(Op)
         /\ Charged \in Nat /\ gasUsed <= Charged /\ Charged <= gasLimit
<1>1. pc \in Nat /\ pc < Len(code) /\ code \in Seq(Byte) /\ gasUsed \in Nat
  BY DEF TypeOK, Fetch
<1>2. Op \in Byte
  BY <1>1 DEF Op
<1>3. GasCost(Op) \in Nat
  BY GasCostType
<1> QED BY <1>1, <1>2, <1>3 DEF Fetch, Charged

\* The top two items of a stack of words are words.
LEMMA TopType ==
  ASSUME TypeOK
  PROVE  /\ Len(stack) >= 1 => Top \in Value
         /\ Len(stack) >= 2 => Second \in Value
  BY DEF TypeOK, Top, Second

\* A step from a running state that leaves memory alone, keeps the limit
\* and only adds to gas_used within the limit keeps both gas invariants.
LEMMA GasStep ==
  ASSUME IInv, status = "running", mem' = mem, gasLimit' = gasLimit,
         gasUsed' \in Nat, gasUsed <= gasUsed', gasUsed' <= gasLimit'
  PROVE  GasWithinLimit' /\ MemoryCharged'
<1>1. mem \in Seq(Byte) /\ gasUsed \in Nat
  BY DEF IInv, TypeOK
<1>2. Words(Len(mem)) \in Nat
  BY <1>1, WordsMonotone
<1>3. MemCost(Words(Len(mem))) <= gasUsed
  BY DEF IInv, MemoryCharged
<1> QED BY <1>1, <1>2, <1>3 DEF GasWithinLimit, MemoryCharged, MemCost

\* TypeOK after a step, from the types of what the step changes.
LEMMA TypeStep ==
  ASSUME TypeOK,
         stack' \in Seq(Value), Len(stack') <= MaxDepth, pc' \in Nat,
         gasUsed' \in Nat, mem' \in Seq(Byte), returnData' \in Seq(Byte),
         status' \in Status, err' \in Errors, (status' = "failed") = (err' # "none"),
         code' = code, jumpdests' = jumpdests, gasLimit' = gasLimit, storage' = storage
  PROVE  TypeOK'
  BY Zenon DEF TypeOK

\* A step that charged only the base cost keeps both gas invariants.
LEMMA ChargedStep ==
  ASSUME IInv, NEW arm, Fetch(arm), gasUsed' = Charged, mem' = mem,
         gasLimit' = gasLimit
  PROVE  GasWithinLimit' /\ MemoryCharged'
<1>1. TypeOK
  BY DEF IInv
<1>2. status = "running" /\ Charged \in Nat /\ gasUsed <= Charged /\ Charged <= gasLimit
  BY <1>1, FetchFacts
<1> QED BY <1>2, GasStep

\* Popping k items off a stack that holds at least k words.
LEMMA PopFacts ==
  ASSUME TypeOK, NEW k \in Nat, Len(stack) >= k
  PROVE  /\ PopN(stack, k) \in Seq(Value)
         /\ Len(PopN(stack, k)) = Len(stack) - k
         /\ Len(stack) - k <= MaxDepth
         /\ k >= 1 => Len(stack) - k + 1 <= MaxDepth
<1>1. stack \in Seq(Value) /\ k \in 0..Len(stack) /\ Len(stack) <= MaxDepth
  BY DEF TypeOK
<1>2. PopN(stack, k) \in Seq(Value) /\ Len(PopN(stack, k)) = Len(stack) - k
  <2>1. 0 \in Value
    BY WordAssumption DEF Value
  <2> QED BY <1>1, <2>1, StackOps
<1> QED BY <1>1, <1>2, MaxDepthAssumption

\* The three ways an arm ends keep the status and the error in step.
LEMMA ContinueFacts ==
  ASSUME TypeOK, Continue
  PROVE  /\ pc' \in Nat
         /\ status' \in Status /\ err' \in Errors
         /\ (status' = "failed") = (err' # "none")
<1>1. pc' = pc + 1 /\ status' = status /\ err' = err
  BY DEF Continue
<1> QED BY <1>1 DEF TypeOK

LEMMA FailFacts ==
  ASSUME NEW e \in Errors \ {"none"}, Fail(e)
  PROVE  status' \in Status /\ err' \in Errors /\ (status' = "failed") = (err' # "none")
  BY DEF Fail, Status

LEMMA BreakFacts ==
  ASSUME TypeOK, status = "running", Break
  PROVE  status' \in Status /\ err' \in Errors /\ (status' = "failed") = (err' # "none")
<1>1. err = "none"
  BY DEF TypeOK
<1> QED BY <1>1 DEF Break, Status, Errors

\* An underflowing pop chain leaves an empty stack and a failed result.
LEMMA UnderflowFacts ==
  ASSUME TypeOK, NEW k, Underflow(k)
  PROVE  /\ stack' \in Seq(Value) /\ Len(stack') <= MaxDepth /\ pc' \in Nat
         /\ mem' \in Seq(Byte) /\ returnData' \in Seq(Byte)
         /\ status' \in Status /\ err' \in Errors
         /\ (status' = "failed") = (err' # "none")
<1>1. stack' = <<>> /\ pc' = pc /\ mem' = mem /\ returnData' = returnData
  BY DEF Underflow
<1>2. status' \in Status /\ err' \in Errors /\ (status' = "failed") = (err' # "none")
  BY FailFacts DEF Underflow, Errors
<1> QED BY <1>1, <1>2, MaxDepthAssumption DEF TypeOK

\* A taken jump to a number either fails or moves pc to it and breaks.
LEMMA TakeJumpFacts ==
  ASSUME TypeOK, status = "running", NEW dest \in Nat, TakeJump(dest)
  PROVE  /\ pc' \in Nat
         /\ status' \in Status /\ err' \in Errors
         /\ (status' = "failed") = (err' # "none")
<1>1. CASE BadJumpdest(dest) /\ Fail("InvalidJumpdest") /\ UNCHANGED pc
  BY <1>1, FailFacts DEF TypeOK, Errors
<1>2. CASE ~BadJumpdest(dest) /\ pc' = dest /\ Break
  BY <1>2, BreakFacts
<1> QED BY <1>1, <1>2 DEF TakeJump

\* A memory arm that charged the base cost and the expansion of the range
\* (off, size) within the limit, and left a buffer of the expanded length,
\* keeps both gas invariants: the expansion charge is exactly the growth of
\* MemCost (EvmLemmas!ExpandCharge).
LEMMA ExpandGasStep ==
  ASSUME IInv, NEW arm, Fetch(arm), NEW off \in Nat, NEW size \in Nat,
         gasLimit' = gasLimit, status' # "failed",
         Charged + Expand(mem, off, size).gas <= gasLimit,
         gasUsed' = Charged + Expand(mem, off, size).gas,
         Len(mem') = Len(Expand(mem, off, size).data)
  PROVE  GasWithinLimit' /\ MemoryCharged' /\ gasUsed' \in Nat
<1> DEFINE x == Expand(mem, off, size)
<1>1. TypeOK /\ MemCost(Words(Len(mem))) <= gasUsed /\ gasUsed \in Nat
  BY FetchFacts DEF IInv, MemoryCharged, Fetch, TypeOK
<1>2. Charged \in Nat /\ gasUsed <= Charged
  BY <1>1, FetchFacts
<1>3. x.gas \in Nat /\ MemCost(Words(Len(x.data))) = MemCost(Words(Len(mem))) + x.gas
  BY <1>1, ExpandCharge DEF TypeOK
<1>4. MemCost(Words(Len(mem'))) = MemCost(Words(Len(mem))) + x.gas
  BY <1>3
<1>5. MemCost(Words(Len(mem))) \in Nat
  <2>1. Len(mem) \in Nat
    BY <1>1 DEF TypeOK
  <2>2. Words(Len(mem)) \in Nat
    BY <2>1, WordsMonotone
  <2> QED BY <2>2 DEF MemCost
<1> HIDE DEF Expand, MemCost
<1>6. gasUsed' <= gasLimit' /\ gasUsed' \in Nat
  <2>1. gasUsed' \in Nat
    BY <1>2, <1>3
  <2>2. gasUsed' <= gasLimit
    OBVIOUS
  <2> QED BY <2>1, <2>2
<1>7. MemCost(Words(Len(mem'))) <= gasUsed'
  <2>1. MemCost(Words(Len(mem))) + x.gas <= Charged + x.gas
    BY <1>1, <1>2, <1>3, <1>5
  <2> QED BY <1>4, <2>1
<1> QED BY <1>6, <1>7 DEF GasWithinLimit, MemoryCharged

\* A memory arm that ran out of gas on the expansion: only the base cost
\* was used, and the failed result owes no memory charge.
LEMMA FailGasStep ==
  ASSUME IInv, NEW arm, Fetch(arm), gasUsed' = Charged, gasLimit' = gasLimit,
         status' = "failed"
  PROVE  GasWithinLimit' /\ MemoryCharged' /\ gasUsed' \in Nat
  BY FetchFacts DEF IInv, GasWithinLimit, MemoryCharged

\* The initial state satisfies IInv.
LEMMA InitIInv == Init => IInv
<1> SUFFICES ASSUME Init PROVE IInv
  OBVIOUS
<1>1. code \in Seq(Byte)
  BY CodesAssumption DEF Init
<1>2. jumpdests \in [0..(Len(code) - 1) -> BOOLEAN]
  <2>1. \A p, q : (p /\ q) \in BOOLEAN
    OBVIOUS
  <2> QED BY <2>1 DEF Init, AnalyzeJumpdests
<1>3. TypeOK
  BY <1>1, <1>2, GasLimitsAssumption, MaxDepthAssumption DEF Init, TypeOK, Status, Errors
<1>4. GasWithinLimit
  BY GasLimitsAssumption DEF Init, GasWithinLimit
<1>5. MemoryCharged
  BY DEF Init, MemoryCharged, MemCost, Words
<1> QED BY <1>3, <1>4, <1>5 DEF IInv

-----------------------------------------------------------------------------
(* One lemma per action: the action keeps IInv.                            *)

LEMMA EndOfCodeStep == IInv /\ EndOfCode => IInv'
<1> SUFFICES ASSUME IInv, EndOfCode PROVE IInv'
  OBVIOUS
<1>1. TypeOK'
  BY DEF IInv, TypeOK, EndOfCode, Break, Status
<1>2. gasUsed \in Nat
  BY DEF IInv, TypeOK
<1>3. GasWithinLimit' /\ MemoryCharged'
  <2>1. status = "running" /\ mem' = mem /\ gasLimit' = gasLimit /\ gasUsed' = gasUsed
    BY DEF EndOfCode
  <2>2. gasUsed <= gasLimit
    BY DEF IInv, GasWithinLimit
  <2> QED BY <1>2, <2>1, <2>2, GasStep
<1> QED BY <1>1, <1>3 DEF IInv

LEMMA BaseOutOfGasStep == IInv /\ BaseOutOfGas => IInv'
<1> SUFFICES ASSUME IInv, BaseOutOfGas PROVE IInv'
  OBVIOUS
<1>1. TypeOK'
  BY DEF IInv, TypeOK, BaseOutOfGas, Fail, Status, Errors
<1>2. GasWithinLimit' /\ MemoryCharged'
  BY DEF IInv, BaseOutOfGas, Fail, GasWithinLimit, MemoryCharged
<1> QED BY <1>1, <1>2 DEF IInv

LEMMA StopStep == IInv /\ Stop => IInv'
<1> SUFFICES ASSUME IInv, Stop PROVE IInv'
  OBVIOUS
<1>1. Charged \in Nat /\ gasUsed <= Charged /\ Charged <= gasLimit /\ status = "running"
  BY FetchFacts DEF IInv, Stop
<1>2. TypeOK'
  BY <1>1 DEF IInv, TypeOK, Stop, Break, Status
<1>3. GasWithinLimit' /\ MemoryCharged'
  BY <1>1, GasStep DEF Stop
<1> QED BY <1>2, <1>3 DEF IInv

LEMMA JumpDestStep == IInv /\ JumpDest => IInv'
<1> SUFFICES ASSUME IInv, JumpDest PROVE IInv'
  OBVIOUS
<1>1. Charged \in Nat /\ gasUsed <= Charged /\ Charged <= gasLimit /\ status = "running"
  BY FetchFacts DEF IInv, JumpDest
<1>2. TypeOK'
  BY <1>1 DEF IInv, TypeOK, JumpDest, Continue
<1>3. GasWithinLimit' /\ MemoryCharged'
  BY <1>1, GasStep DEF JumpDest
<1> QED BY <1>2, <1>3 DEF IInv

LEMMA InvalidStep == IInv /\ Invalid => IInv'
<1> SUFFICES ASSUME IInv, Invalid PROVE IInv'
  OBVIOUS
<1>1. Charged \in Nat /\ gasUsed <= Charged /\ Charged <= gasLimit /\ status = "running"
  BY FetchFacts DEF IInv, Invalid
<1>2. TypeOK'
  BY <1>1 DEF IInv, TypeOK, Invalid, Fail, Status, Errors
<1>3. GasWithinLimit' /\ MemoryCharged'
  BY <1>1, GasStep DEF Invalid
<1> QED BY <1>2, <1>3 DEF IInv

LEMMA StutterStep == IInv /\ (Terminated \/ UNCHANGED vars) => IInv'
  BY DEF IInv, TypeOK, GasWithinLimit, MemoryCharged, Terminated, vars

LEMMA BinaryStep == IInv /\ Binary => IInv'
<1> SUFFICES ASSUME IInv, Binary PROVE IInv'
  OBVIOUS
<1>0. TypeOK /\ gasUsed <= gasLimit
  BY DEF IInv, GasWithinLimit
<1>1. /\ status = "running" /\ Op \in Byte /\ "binary" \in Arms(Op)
      /\ Charged \in Nat /\ gasUsed <= Charged /\ Charged <= gasLimit
  BY <1>0, FetchFacts DEF Binary
<1>2. /\ gasUsed' = Charged /\ mem' = mem
      /\ UNCHANGED <<code, jumpdests, gasLimit, storage, returnData>>
  BY DEF Binary, Underflow
<1>3. GasWithinLimit' /\ MemoryCharged'
  BY <1>0, <1>1, <1>2, GasStep
<1>4. TypeOK'
  <2>1. CASE Underflow(2)
    BY <1>0, <1>1, <1>2, <2>1, MaxDepthAssumption
       DEF Underflow, Fail, TypeOK, Status, Errors
  <2>2. CASE /\ Len(stack) >= 2
             /\ stack' = Push(PopN(stack, 2), BinaryResult(Op, Top, Second))
             /\ Continue
    <3>1. BinaryResult(Op, Top, Second) \in Value
      <4>1. Op \in {ADD, MUL, SUB, DIV, MOD, LT, GT, EQ, AND, OR, XOR}
        BY <1>1, ArmsDecode
      <4>2. Top \in Value /\ Second \in Value
        BY <1>0, <2>2, TopType
      <4> QED BY <4>1, <4>2, BinaryResultType
    <3>2. stack' \in Seq(Value) /\ Len(stack') = Len(stack) - 1
      <4>1. stack \in Seq(Value) /\ 2 \in 0..Len(stack)
        BY <1>0, <2>2 DEF TypeOK
      <4>2. PopN(stack, 2) \in Seq(Value) /\ Len(PopN(stack, 2)) = Len(stack) - 2
        BY <4>1, StackOps
      <4> QED BY <2>2, <3>1, <4>2, StackOps
    <3>3. pc' = pc + 1 /\ status' = status /\ err' = err
      BY <2>2 DEF Continue
    <3>4. code' = code /\ jumpdests' = jumpdests /\ gasLimit' = gasLimit
          /\ storage' = storage /\ returnData' = returnData
      BY <1>2
    <3>5. Len(stack') <= MaxDepth
      BY <1>0, <3>2, MaxDepthAssumption DEF TypeOK
    <3>6. pc' \in Nat
      BY <1>0, <3>3 DEF TypeOK
    <3>7. gasUsed' \in Nat
      BY <1>1, <1>2
    <3> QED BY <1>0, <1>2, <3>2, <3>3, <3>4, <3>5, <3>6, <3>7, Zenon DEF TypeOK
  <2> QED BY <2>1, <2>2 DEF Binary
<1> QED BY <1>3, <1>4 DEF IInv

LEMMA UnaryStep == IInv /\ Unary => IInv'
<1> SUFFICES ASSUME IInv, Unary PROVE IInv'
  OBVIOUS
<1>0. TypeOK /\ gasUsed <= gasLimit
  BY DEF IInv, GasWithinLimit
<1>1. /\ status = "running" /\ Op \in Byte /\ "unary" \in Arms(Op)
      /\ Charged \in Nat /\ gasUsed <= Charged /\ Charged <= gasLimit
  BY <1>0, FetchFacts DEF Unary
<1>2. /\ gasUsed' = Charged /\ mem' = mem
      /\ UNCHANGED <<code, jumpdests, gasLimit, storage, returnData>>
  BY DEF Unary, Underflow
<1>3. GasWithinLimit' /\ MemoryCharged'
  BY <1>0, <1>1, <1>2, GasStep
<1>4. TypeOK'
  <2>1. CASE Underflow(1)
    BY <1>0, <1>1, <1>2, <2>1, MaxDepthAssumption, TypeStep
       DEF Underflow, Fail, TypeOK, Status, Errors
  <2>2. CASE /\ Len(stack) >= 1
             /\ stack' = Push(PopN(stack, 1), IF Op = NOT THEN BitNot(Top)
                                              ELSE IF Top = 0 THEN 1 ELSE 0)
             /\ Continue
    <3>1. (IF Op = NOT THEN BitNot(Top) ELSE IF Top = 0 THEN 1 ELSE 0) \in Value
      <4>1. Top \in Value
        BY <1>0, <2>2, TopType
      <4>2. BitNot(Top) \in Value
        BY <4>1, WordOps
      <4>3. {0, 1} \subseteq Value
        BY WordAssumption DEF Value
      <4> QED BY <4>2, <4>3
    <3>2. stack \in Seq(Value) /\ 1 \in 0..Len(stack)
      BY <1>0, <2>2 DEF TypeOK
    <3>3. PopN(stack, 1) \in Seq(Value) /\ Len(PopN(stack, 1)) = Len(stack) - 1
      BY <3>2, StackOps
    <3>4. stack' \in Seq(Value) /\ Len(stack') = Len(stack)
      BY <2>2, <3>1, <3>3, StackOps
    <3>5. Len(stack') <= MaxDepth /\ pc' \in Nat /\ status' = status /\ err' = err
      BY <1>0, <2>2, <3>4 DEF Continue, TypeOK
    <3> QED BY <1>0, <1>1, <1>2, <3>4, <3>5, TypeStep DEF TypeOK
  <2> QED BY <2>1, <2>2 DEF Unary
<1> QED BY <1>3, <1>4 DEF IInv

LEMMA PopOpStep == IInv /\ PopOp => IInv'
<1> SUFFICES ASSUME IInv, PopOp PROVE IInv'
  OBVIOUS
<1>0. TypeOK /\ gasUsed <= gasLimit
  BY DEF IInv, GasWithinLimit
<1>1. /\ status = "running"
      /\ Charged \in Nat /\ gasUsed <= Charged /\ Charged <= gasLimit
  BY <1>0, FetchFacts DEF PopOp
<1>2. /\ gasUsed' = Charged /\ mem' = mem
      /\ UNCHANGED <<code, jumpdests, gasLimit, storage, returnData>>
  BY DEF PopOp, Underflow
<1>3. GasWithinLimit' /\ MemoryCharged'
  BY <1>0, <1>1, <1>2, GasStep
<1>4. TypeOK'
  <2>1. CASE Underflow(1)
    BY <1>0, <1>1, <1>2, <2>1, MaxDepthAssumption, TypeStep
       DEF Underflow, Fail, TypeOK, Status, Errors
  <2>2. CASE Len(stack) >= 1 /\ stack' = PopN(stack, 1) /\ Continue
    <3>1. stack \in Seq(Value) /\ Len(stack) >= 1
      BY <1>0, <2>2 DEF TypeOK
    <3>2. stack' \in Seq(Value) /\ Len(stack') = Len(stack) - 1
      <4>1. 1 \in 0..Len(stack)
        BY <3>1
      <4>2. PopN(stack, 1) \in Seq(Value) /\ Len(PopN(stack, 1)) = Len(stack) - 1
        BY <3>1, <4>1, StackOps
      <4> QED BY <2>2, <4>2
    <3>3. Len(stack') <= MaxDepth /\ pc' \in Nat /\ status' = status /\ err' = err
      <4>1. status' = status /\ err' = err /\ pc' = pc + 1
        BY <2>2 DEF Continue
      <4> QED BY <1>0, <3>2, <4>1, MaxDepthAssumption DEF TypeOK
    <3> QED BY <1>0, <1>1, <1>2, <3>2, <3>3, TypeStep DEF TypeOK
  <2> QED BY <2>1, <2>2 DEF PopOp
<1> QED BY <1>3, <1>4 DEF IInv

LEMMA SLoadStep == IInv /\ SLoad => IInv'
<1> SUFFICES ASSUME IInv, SLoad PROVE IInv'
  OBVIOUS
<1>0. TypeOK
  BY DEF IInv
<1>1. /\ gasUsed' = Charged /\ mem' = mem /\ returnData' = returnData
      /\ code' = code /\ jumpdests' = jumpdests /\ gasLimit' = gasLimit
      /\ storage' = storage
  BY DEF SLoad, Underflow
<1>2. GasWithinLimit' /\ MemoryCharged' /\ gasUsed' \in Nat
  BY <1>0, <1>1, ChargedStep, FetchFacts DEF SLoad
<1>4. mem' \in Seq(Byte) /\ returnData' \in Seq(Byte)
  BY <1>0, <1>1 DEF TypeOK
<1>3. TypeOK'
  <2>1. CASE Underflow(1)
    BY <1>0, <1>1, <1>2, <2>1, UnderflowFacts, TypeStep
  <2>2. CASE Len(stack) >= 1 /\ stack' = Push(PopN(stack, 1), StorageRead(Top)) /\ Continue
    <3>1. PopN(stack, 1) \in Seq(Value) /\ Len(PopN(stack, 1)) + 1 <= MaxDepth
      BY <1>0, <2>2, PopFacts
    <3>2. StorageRead(Top) \in Value
      BY WordAssumption DEF StorageRead, Value
    <3>3. stack' \in Seq(Value) /\ Len(stack') <= MaxDepth
      BY <2>2, <3>1, <3>2, StackOps
    <3>9. /\ pc' \in Nat /\ status' \in Status /\ err' \in Errors
          /\ (status' = "failed") = (err' # "none")
      BY <1>0, <2>2, ContinueFacts
    <3> QED BY <1>0, <1>1, <1>2, <1>4, <3>9, <3>3, TypeStep, Zenon
  <2> QED BY <2>1, <2>2 DEF SLoad
<1> QED BY <1>2, <1>3 DEF IInv

LEMMA SStoreStep == IInv /\ SStore => IInv'
<1> SUFFICES ASSUME IInv, SStore PROVE IInv'
  OBVIOUS
<1>0. TypeOK
  BY DEF IInv
<1>1. /\ gasUsed' = Charged /\ mem' = mem /\ returnData' = returnData
      /\ code' = code /\ jumpdests' = jumpdests /\ gasLimit' = gasLimit
      /\ storage' = storage
  BY DEF SStore, Underflow, StorageWrite
<1>2. GasWithinLimit' /\ MemoryCharged' /\ gasUsed' \in Nat
  BY <1>0, <1>1, ChargedStep, FetchFacts DEF SStore
<1>4. mem' \in Seq(Byte) /\ returnData' \in Seq(Byte)
  BY <1>0, <1>1 DEF TypeOK
<1>3. TypeOK'
  <2>1. CASE Underflow(2)
    BY <1>0, <1>1, <1>2, <2>1, UnderflowFacts, TypeStep
  <2>2. CASE Len(stack) >= 2 /\ stack' = PopN(stack, 2) /\ Continue
    <3>1. stack' \in Seq(Value) /\ Len(stack') <= MaxDepth
      BY <1>0, <2>2, PopFacts
    <3>9. /\ pc' \in Nat /\ status' \in Status /\ err' \in Errors
          /\ (status' = "failed") = (err' # "none")
      BY <1>0, <2>2, ContinueFacts
    <3> QED BY <1>0, <1>1, <1>2, <1>4, <3>9, <3>1, TypeStep, Zenon
  <2> QED BY <2>1, <2>2 DEF SStore
<1> QED BY <1>2, <1>3 DEF IInv

LEMMA JumpStep == IInv /\ Jump => IInv'
<1> SUFFICES ASSUME IInv, Jump PROVE IInv'
  OBVIOUS
<1>0. TypeOK /\ status = "running"
  BY FetchFacts DEF IInv, Jump
<1>1. /\ gasUsed' = Charged /\ mem' = mem /\ returnData' = returnData
      /\ code' = code /\ jumpdests' = jumpdests /\ gasLimit' = gasLimit
      /\ storage' = storage
  BY DEF Jump, Underflow
<1>2. GasWithinLimit' /\ MemoryCharged' /\ gasUsed' \in Nat
  BY <1>0, <1>1, ChargedStep, FetchFacts DEF Jump
<1>4. mem' \in Seq(Byte) /\ returnData' \in Seq(Byte)
  BY <1>0, <1>1 DEF TypeOK
<1>3. TypeOK'
  <2>1. CASE Underflow(1)
    BY <1>0, <1>1, <1>2, <2>1, UnderflowFacts, TypeStep
  <2>2. CASE Len(stack) >= 1 /\ stack' = PopN(stack, 1) /\ TakeJump(Top)
    <3>1. stack' \in Seq(Value) /\ Len(stack') <= MaxDepth
      BY <1>0, <2>2, PopFacts
    <3>2. Top \in Nat
      BY <1>0, <2>2, TopType DEF Value
    <3>9. /\ pc' \in Nat /\ status' \in Status /\ err' \in Errors
          /\ (status' = "failed") = (err' # "none")
      BY <1>0, <2>2, <3>2, TakeJumpFacts
    <3> QED BY <1>0, <1>1, <1>2, <1>4, <3>9, <3>1, TypeStep, Zenon
  <2> QED BY <2>1, <2>2 DEF Jump
<1> QED BY <1>2, <1>3 DEF IInv

LEMMA JumpIStep == IInv /\ JumpI => IInv'
<1> SUFFICES ASSUME IInv, JumpI PROVE IInv'
  OBVIOUS
<1>0. TypeOK /\ status = "running"
  BY FetchFacts DEF IInv, JumpI
<1>1. /\ gasUsed' = Charged /\ mem' = mem /\ returnData' = returnData
      /\ code' = code /\ jumpdests' = jumpdests /\ gasLimit' = gasLimit
      /\ storage' = storage
  BY DEF JumpI, Underflow
<1>2. GasWithinLimit' /\ MemoryCharged' /\ gasUsed' \in Nat
  BY <1>0, <1>1, ChargedStep, FetchFacts DEF JumpI
<1>4. mem' \in Seq(Byte) /\ returnData' \in Seq(Byte)
  BY <1>0, <1>1 DEF TypeOK
<1>3. TypeOK'
  <2>1. CASE Underflow(2)
    BY <1>0, <1>1, <1>2, <2>1, UnderflowFacts, TypeStep
  <2>2. CASE /\ Len(stack) >= 2 /\ stack' = PopN(stack, 2)
             /\ IF Second # 0 THEN TakeJump(Top) ELSE Continue
    <3>1. stack' \in Seq(Value) /\ Len(stack') <= MaxDepth
      BY <1>0, <2>2, PopFacts
    <3>2. Top \in Nat
      BY <1>0, <2>2, TopType DEF Value
    <3>3. /\ pc' \in Nat /\ status' \in Status /\ err' \in Errors
          /\ (status' = "failed") = (err' # "none")
      <4>1. CASE Second # 0
        BY <1>0, <2>2, <3>2, <4>1, TakeJumpFacts
      <4>2. CASE Second = 0
        BY <1>0, <2>2, <4>2, ContinueFacts
      <4> QED BY <4>1, <4>2
    <3> QED BY <1>0, <1>1, <1>2, <1>4, <3>1, <3>3, TypeStep, Zenon
  <2> QED BY <2>1, <2>2 DEF JumpI
<1> QED BY <1>2, <1>3 DEF IInv

LEMMA PushNStep == IInv /\ PushN => IInv'
<1> SUFFICES ASSUME IInv, PushN PROVE IInv'
  OBVIOUS
<1>0. TypeOK /\ status = "running" /\ "push" \in Arms(Op)
  BY FetchFacts DEF IInv, PushN
<1>1. /\ gasUsed' = Charged /\ mem' = mem /\ returnData' = returnData
      /\ code' = code /\ jumpdests' = jumpdests /\ gasLimit' = gasLimit
      /\ storage' = storage
  BY DEF PushN
<1>2. GasWithinLimit' /\ MemoryCharged' /\ gasUsed' \in Nat
  BY <1>0, <1>1, ChargedStep, FetchFacts DEF PushN
<1>4. mem' \in Seq(Byte) /\ returnData' \in Seq(Byte)
  BY <1>0, <1>1 DEF TypeOK
<1>5. Op - PUSH1 + 1 \in Nat
  BY <1>0, ArmsDecode DEF PUSH1, PUSH32
<1>3. TypeOK'
  <2> DEFINE n == Op - PUSH1 + 1
  <2>1. CASE \/ Fail("UnexpectedEOF") /\ UNCHANGED <<pc, stack>>
             \/ Fail("DepthLimitExceeded") /\ UNCHANGED <<pc, stack>>
    <3>1. status' \in Status /\ err' \in Errors /\ (status' = "failed") = (err' # "none")
      BY <2>1, FailFacts DEF Errors
    <3>2. stack' \in Seq(Value) /\ Len(stack') <= MaxDepth /\ pc' \in Nat
      BY <1>0, <2>1 DEF TypeOK
    <3> QED BY <1>0, <1>1, <1>2, <1>4, <3>1, <3>2, TypeStep, Zenon
  <2>2. CASE /\ CanPush(stack)
             /\ stack' = Push(stack, PushValue(code, pc, n))
             /\ pc' = pc + n + 1
             /\ UNCHANGED <<status, err>>
    <3>1. PushValue(code, pc, n) \in Value
      BY AsWordType, Zenon DEF PushValue
    <3>2. stack \in Seq(Value) /\ Len(stack) < MaxDepth
      BY <1>0, <2>2 DEF TypeOK, CanPush
    <3>3. stack' \in Seq(Value) /\ Len(stack') <= MaxDepth
      <4>1. PICK v \in Value : stack' = Push(stack, v)
        BY <2>2, <3>1
      <4>2. Push(stack, v) \in Seq(Value) /\ Len(Push(stack, v)) = Len(stack) + 1
        BY <3>2, StackOps
      <4> QED BY <3>2, <4>1, <4>2, MaxDepthAssumption
    <3>4. /\ pc' \in Nat /\ status' \in Status /\ err' \in Errors
          /\ (status' = "failed") = (err' # "none")
      BY <1>0, <1>5, <2>2 DEF TypeOK
    <3> QED BY <1>0, <1>1, <1>2, <1>4, <3>3, <3>4, TypeStep, Zenon
  <2> QED BY <2>1, <2>2 DEF PushN
<1> QED BY <1>2, <1>3 DEF IInv

LEMMA DupOpStep == IInv /\ DupOp => IInv'
<1> SUFFICES ASSUME IInv, DupOp PROVE IInv'
  OBVIOUS
<1>0. TypeOK /\ status = "running" /\ "dup" \in Arms(Op)
  BY FetchFacts DEF IInv, DupOp
<1>1. /\ gasUsed' = Charged /\ mem' = mem /\ returnData' = returnData
      /\ code' = code /\ jumpdests' = jumpdests /\ gasLimit' = gasLimit
      /\ storage' = storage
  BY DEF DupOp
<1>2. GasWithinLimit' /\ MemoryCharged' /\ gasUsed' \in Nat
  BY <1>0, <1>1, ChargedStep, FetchFacts DEF DupOp
<1>4. mem' \in Seq(Byte) /\ returnData' \in Seq(Byte)
  BY <1>0, <1>1 DEF TypeOK
<1>5. Op - DUP1 \in Nat
  BY <1>0, ArmsDecode DEF DUP1, DUP16
<1>6. pc' \in Nat
  BY <1>0 DEF DupOp, TypeOK
<1>3. TypeOK'
  <2> DEFINE index == Op - DUP1
  <2>1. CASE \/ Fail("InvalidIndex") /\ UNCHANGED stack
             \/ Fail("DepthLimitExceeded") /\ UNCHANGED stack
    <3>1. status' \in Status /\ err' \in Errors /\ (status' = "failed") = (err' # "none")
      BY <2>1, FailFacts DEF Errors
    <3>2. stack' \in Seq(Value) /\ Len(stack') <= MaxDepth
      BY <1>0, <2>1 DEF TypeOK
    <3> QED BY <1>0, <1>1, <1>2, <1>4, <1>6, <3>1, <3>2, TypeStep, Zenon
  <2>2. CASE /\ DupIndexOk(stack, index) /\ CanPush(stack)
             /\ stack' = Dup(stack, index)
             /\ UNCHANGED <<status, err>>
    <3>1. stack \in Seq(Value) /\ Len(stack) < MaxDepth /\ index \in 0..(Len(stack) - 1)
      BY <1>0, <1>5, <2>2 DEF TypeOK, CanPush, DupIndexOk
    <3>2. stack' \in Seq(Value) /\ Len(stack') <= MaxDepth
      <4>1. 0 \in Value
        BY WordAssumption DEF Value
      <4>2. PICK i \in 0..(Len(stack) - 1) : stack' = Dup(stack, i)
        BY <2>2, <3>1
      <4>3. Dup(stack, i) \in Seq(Value) /\ Len(Dup(stack, i)) = Len(stack) + 1
        BY <3>1, <4>1, StackOps
      <4> QED BY <3>1, <4>2, <4>3, MaxDepthAssumption
    <3>3. status' \in Status /\ err' \in Errors /\ (status' = "failed") = (err' # "none")
      BY <1>0, <2>2 DEF TypeOK
    <3> QED BY <1>0, <1>1, <1>2, <1>4, <1>6, <3>2, <3>3, TypeStep, Zenon
  <2> QED BY <2>1, <2>2 DEF DupOp
<1> QED BY <1>2, <1>3 DEF IInv

LEMMA SwapOpStep == IInv /\ SwapOp => IInv'
<1> SUFFICES ASSUME IInv, SwapOp PROVE IInv'
  OBVIOUS
<1>0. TypeOK /\ status = "running" /\ "swap" \in Arms(Op)
  BY FetchFacts DEF IInv, SwapOp
<1>1. /\ gasUsed' = Charged /\ mem' = mem /\ returnData' = returnData
      /\ code' = code /\ jumpdests' = jumpdests /\ gasLimit' = gasLimit
      /\ storage' = storage
  BY DEF SwapOp
<1>2. GasWithinLimit' /\ MemoryCharged' /\ gasUsed' \in Nat
  BY <1>0, <1>1, ChargedStep, FetchFacts DEF SwapOp
<1>4. mem' \in Seq(Byte) /\ returnData' \in Seq(Byte)
  BY <1>0, <1>1 DEF TypeOK
<1>5. Op - SWAP1 + 1 \in Nat
  BY <1>0, ArmsDecode DEF SWAP1, SWAP16
<1>3. TypeOK'
  <2> DEFINE index == Op - SWAP1 + 1
  <2>1. CASE Fail("InvalidIndex") /\ UNCHANGED <<stack, pc>>
    <3>1. status' \in Status /\ err' \in Errors /\ (status' = "failed") = (err' # "none")
      BY <2>1, FailFacts DEF Errors
    <3>2. stack' \in Seq(Value) /\ Len(stack') <= MaxDepth /\ pc' \in Nat
      BY <1>0, <2>1 DEF TypeOK
    <3> QED BY <1>0, <1>1, <1>2, <1>4, <3>1, <3>2, TypeStep, Zenon
  <2>2. CASE SwapIndexOk(stack, index) /\ stack' = Swap(stack, index) /\ Continue
    <3>1. stack \in Seq(Value) /\ Len(stack) <= MaxDepth /\ index \in 1..(Len(stack) - 1)
      BY <1>0, <1>5, <2>2 DEF TypeOK, SwapIndexOk
    <3>2. stack' \in Seq(Value) /\ Len(stack') <= MaxDepth
      <4>1. 0 \in Value
        BY WordAssumption DEF Value
      <4>2. Swap(stack, index) \in Seq(Value) /\ Len(Swap(stack, index)) = Len(stack)
        BY <3>1, <4>1, StackOps
      <4> QED BY <2>2, <3>1, <4>2
    <3>3. /\ pc' \in Nat /\ status' \in Status /\ err' \in Errors
          /\ (status' = "failed") = (err' # "none")
      BY <1>0, <2>2, ContinueFacts
    <3> QED BY <1>0, <1>1, <1>2, <1>4, <3>2, <3>3, TypeStep, Zenon
  <2> QED BY <2>1, <2>2 DEF SwapOp
<1> QED BY <1>2, <1>3 DEF IInv

LEMMA MLoadStep == IInv /\ MLoad => IInv'
<1> SUFFICES ASSUME IInv, MLoad PROVE IInv'
  OBVIOUS
<1>0. TypeOK /\ status = "running"
  BY FetchFacts DEF IInv, MLoad
<1>1. /\ returnData' = returnData
      /\ code' = code /\ jumpdests' = jumpdests /\ gasLimit' = gasLimit
      /\ storage' = storage
  BY DEF MLoad, Underflow
<1>2. returnData' \in Seq(Byte)
  BY <1>0, <1>1 DEF TypeOK
<1>3. CASE Underflow(1) /\ gasUsed' = Charged
  <2>1. GasWithinLimit' /\ MemoryCharged' /\ gasUsed' \in Nat
    BY <1>3, FailGasStep, FetchFacts DEF MLoad, Underflow, Fail
  <2>2. TypeOK'
    BY <1>0, <1>1, <1>3, <2>1, UnderflowFacts, TypeStep
  <2> QED BY <2>1, <2>2 DEF IInv
<1>4. CASE Len(stack) >= 1
  <2> DEFINE x == Expand(mem, Top, 32)
  <2>1. Top \in Nat
    BY <1>0, <1>4, TopType DEF Value
  <2>2. x.data \in Seq(Byte) /\ mem' = x.data
    BY <1>0, <1>4, <2>1, ExpandCharge DEF TypeOK, MLoad, Underflow
  <2>3. PopN(stack, 1) \in Seq(Value) /\ Len(PopN(stack, 1)) + 1 <= MaxDepth
    BY <1>0, <1>4, PopFacts
  <2>4. CASE /\ Charged + x.gas > gasLimit /\ gasUsed' = Charged
             /\ stack' = PopN(stack, 1) /\ Fail("OutOfGas") /\ UNCHANGED pc
    <3>1. GasWithinLimit' /\ MemoryCharged' /\ gasUsed' \in Nat
      BY <2>4, FailGasStep, FetchFacts DEF MLoad, Fail
    <3>2. /\ status' \in Status /\ err' \in Errors
          /\ (status' = "failed") = (err' # "none")
      BY <2>4, FailFacts DEF Errors
    <3>3. stack' \in Seq(Value) /\ Len(stack') <= MaxDepth /\ pc' \in Nat
      BY <1>0, <2>3, <2>4, MaxDepthAssumption DEF TypeOK
    <3>4. TypeOK'
      BY <1>0, <1>1, <1>2, <2>2, <3>1, <3>2, <3>3, TypeStep, Zenon
    <3> QED BY <3>1, <3>4 DEF IInv
  <2>5. CASE /\ Charged + x.gas <= gasLimit /\ gasUsed' = Charged + x.gas
             /\ stack' = Push(PopN(stack, 1), Load32(x.data, Top)) /\ Continue
    <3>1. /\ pc' \in Nat /\ status' \in Status /\ err' \in Errors
          /\ (status' = "failed") = (err' # "none")
      BY <1>0, <2>5, ContinueFacts
    <3>2. status' # "failed"
      BY <1>0, <2>5 DEF Continue
    <3>3. GasWithinLimit' /\ MemoryCharged' /\ gasUsed' \in Nat
      BY <1>1, <2>1, <2>2, <2>5, <3>2, ExpandGasStep DEF MLoad
    <3>4. stack' \in Seq(Value) /\ Len(stack') <= MaxDepth
      <4>1. Load32(x.data, Top) \in Value
        BY <2>1, <2>2, LoadType
      <4>2. PICK v \in Value : stack' = Push(PopN(stack, 1), v)
        BY <2>5, <4>1
      <4>3. Push(PopN(stack, 1), v) \in Seq(Value)
            /\ Len(Push(PopN(stack, 1), v)) = Len(PopN(stack, 1)) + 1
        BY <2>3, StackOps
      <4> QED BY <2>3, <4>2, <4>3
    <3>5. TypeOK'
      BY <1>0, <1>1, <1>2, <2>2, <3>1, <3>3, <3>4, TypeStep, Zenon
    <3> QED BY <3>3, <3>5 DEF IInv
  <2> QED BY <1>4, <2>4, <2>5 DEF MLoad, Underflow
<1> QED BY <1>3, <1>4 DEF MLoad, Underflow

\* MSTORE and MSTORE8 share the arm StoreArm(arm, wordBytes).
LEMMA StoreArmStep ==
  ASSUME NEW arm, NEW w \in {1, 32}, IInv, StoreArm(arm, w)
  PROVE  IInv'
<1>0. TypeOK /\ status = "running"
  BY FetchFacts DEF IInv, StoreArm
<1>1. /\ returnData' = returnData
      /\ code' = code /\ jumpdests' = jumpdests /\ gasLimit' = gasLimit
      /\ storage' = storage
  BY DEF StoreArm, Underflow
<1>2. returnData' \in Seq(Byte)
  BY <1>0, <1>1 DEF TypeOK
<1>3. CASE Underflow(2) /\ gasUsed' = Charged
  <2>1. GasWithinLimit' /\ MemoryCharged' /\ gasUsed' \in Nat
    BY <1>3, FailGasStep, FetchFacts DEF StoreArm, Underflow, Fail
  <2>2. TypeOK'
    BY <1>0, <1>1, <1>3, <2>1, UnderflowFacts, TypeStep
  <2> QED BY <2>1, <2>2 DEF IInv
<1>4. CASE Len(stack) >= 2 /\ stack' = PopN(stack, 2)
  <2> DEFINE x == Expand(mem, Top, w)
  <2>1. Top \in Nat /\ Second \in Value
    BY <1>0, <1>4, TopType DEF Value
  <2>2. x.data \in Seq(Byte)
    BY <1>0, <2>1, ExpandCharge DEF TypeOK
  <2>3. stack' \in Seq(Value) /\ Len(stack') <= MaxDepth
    BY <1>0, <1>4, PopFacts
  <2>4. CASE /\ Charged + x.gas > gasLimit /\ gasUsed' = Charged
             /\ mem' = x.data /\ Fail("OutOfGas") /\ UNCHANGED pc
    <3>1. GasWithinLimit' /\ MemoryCharged' /\ gasUsed' \in Nat
      BY <2>4, FailGasStep, FetchFacts DEF StoreArm, Fail
    <3>2. /\ status' \in Status /\ err' \in Errors
          /\ (status' = "failed") = (err' # "none")
      BY <2>4, FailFacts DEF Errors
    <3>3. pc' \in Nat
      BY <1>0, <2>4 DEF TypeOK
    <3>4. TypeOK'
      BY <1>0, <1>1, <1>2, <2>2, <2>3, <2>4, <3>1, <3>2, <3>3, TypeStep, Zenon
    <3> QED BY <3>1, <3>4 DEF IInv
  <2>5. CASE /\ Charged + x.gas <= gasLimit /\ gasUsed' = Charged + x.gas
             /\ mem' = IF w = 32 THEN Store32(x.data, Top, Second)
                       ELSE Store(x.data, Top, <<Second % 256>>)
             /\ Continue
    <3>1. mem' \in Seq(Byte) /\ Len(mem') = Len(x.data)
      <4>1. CASE w = 32
        <5> DEFINE bs == ToBytes32(Second)
        <5>1. bs \in Seq(Byte) /\ Len(bs) = 32
          BY <2>1, ToBytes32Type DEF Value
        <5>2. mem' = Store(Expand(mem, Top, Len(bs)).data, Top, bs)
          BY <2>5, <4>1, <5>1 DEF Store32
        <5>3. LET y == Expand(mem, Top, Len(bs)) IN
                /\ Store(y.data, Top, bs) \in Seq(Byte)
                /\ Len(Store(y.data, Top, bs)) = Len(y.data)
          <6>1. mem \in Seq(Byte) /\ Len(bs) >= 1 /\ bs \in Seq(Byte) /\ Top \in Nat
            BY <1>0, <2>1, <5>1 DEF TypeOK
          <6> HIDE DEF bs
          <6> QED BY <6>1, StoreAfterExpand, Zenon
        <5> QED BY <4>1, <5>1, <5>2, <5>3
      <4>2. CASE w = 1
        <5> DEFINE bs == <<Second % 256>>
        <5>1. bs \in Seq(Byte) /\ Len(bs) = 1
          BY <2>1 DEF Value, Byte
        <5>2. mem' = Store(Expand(mem, Top, Len(bs)).data, Top, bs)
          BY <2>5, <4>2, <5>1
        <5>3. LET y == Expand(mem, Top, Len(bs)) IN
                /\ Store(y.data, Top, bs) \in Seq(Byte)
                /\ Len(Store(y.data, Top, bs)) = Len(y.data)
          <6>1. mem \in Seq(Byte) /\ Len(bs) >= 1 /\ bs \in Seq(Byte) /\ Top \in Nat
            BY <1>0, <2>1, <5>1 DEF TypeOK
          <6> HIDE DEF bs
          <6> QED BY <6>1, StoreAfterExpand, Zenon
        <5> QED BY <4>2, <5>1, <5>2, <5>3
      <4> QED BY <4>1, <4>2
    <3>2. /\ pc' \in Nat /\ status' \in Status /\ err' \in Errors
          /\ (status' = "failed") = (err' # "none")
      BY <1>0, <2>5, ContinueFacts
    <3>3. status' # "failed"
      BY <1>0, <2>5 DEF Continue
    <3>4. GasWithinLimit' /\ MemoryCharged' /\ gasUsed' \in Nat
      BY <1>1, <2>1, <2>5, <3>1, <3>3, ExpandGasStep DEF StoreArm
    <3>5. TypeOK'
      BY <1>0, <1>1, <1>2, <2>3, <3>1, <3>2, <3>4, TypeStep, Zenon
    <3> QED BY <3>4, <3>5 DEF IInv
  <2> QED BY <1>4, <2>4, <2>5 DEF StoreArm, Underflow
<1> QED BY <1>3, <1>4 DEF StoreArm, Underflow

LEMMA ReturnStep == IInv /\ Return => IInv'
<1> SUFFICES ASSUME IInv, Return PROVE IInv'
  OBVIOUS
<1>0. TypeOK /\ status = "running"
  BY FetchFacts DEF IInv, Return
<1>1. /\ pc' = pc
      /\ code' = code /\ jumpdests' = jumpdests /\ gasLimit' = gasLimit
      /\ storage' = storage
  BY DEF Return
<1>2. pc' \in Nat
  BY <1>0, <1>1 DEF TypeOK
<1>3. CASE Underflow(2) /\ gasUsed' = Charged
  <2>1. GasWithinLimit' /\ MemoryCharged' /\ gasUsed' \in Nat
    BY <1>3, FailGasStep, FetchFacts DEF Return, Underflow, Fail
  <2>2. TypeOK'
    BY <1>0, <1>1, <1>3, <2>1, UnderflowFacts, TypeStep
  <2> QED BY <2>1, <2>2 DEF IInv
<1>4. CASE Len(stack) >= 2 /\ stack' = PopN(stack, 2)
  <2> DEFINE x == Expand(mem, Top, Second)
  <2>1. Top \in Nat /\ Second \in Nat
    BY <1>0, <1>4, TopType DEF Value
  <2>2. x.data \in Seq(Byte) /\ mem' = x.data
    BY <1>0, <1>4, <2>1, ExpandCharge DEF TypeOK, Return, Underflow
  <2>3. stack' \in Seq(Value) /\ Len(stack') <= MaxDepth
    BY <1>0, <1>4, PopFacts
  <2>4. CASE /\ Charged + x.gas > gasLimit /\ gasUsed' = Charged
             /\ Fail("OutOfGas") /\ UNCHANGED returnData
    <3>1. GasWithinLimit' /\ MemoryCharged' /\ gasUsed' \in Nat
      BY <2>4, FailGasStep, FetchFacts DEF Return, Fail
    <3>2. /\ status' \in Status /\ err' \in Errors
          /\ (status' = "failed") = (err' # "none")
      BY <2>4, FailFacts DEF Errors
    <3>3. returnData' \in Seq(Byte)
      BY <1>0, <2>4 DEF TypeOK
    <3>4. TypeOK'
      BY <1>0, <1>1, <1>2, <2>2, <2>3, <3>1, <3>2, <3>3, TypeStep, Zenon
    <3> QED BY <3>1, <3>4 DEF IInv
  <2>5. CASE /\ Charged + x.gas <= gasLimit /\ gasUsed' = Charged + x.gas
             /\ returnData' = Load(x.data, Top, Second) /\ Break
    <3>1. /\ status' \in Status /\ err' \in Errors
          /\ (status' = "failed") = (err' # "none")
      BY <1>0, <2>5, BreakFacts
    <3>2. status' # "failed"
      BY <2>5 DEF Break
    <3>3. GasWithinLimit' /\ MemoryCharged' /\ gasUsed' \in Nat
      BY <1>1, <2>1, <2>2, <2>5, <3>2, ExpandGasStep DEF Return
    <3>4. returnData' \in Seq(Byte)
      BY <2>1, <2>2, <2>5, LoadType
    <3>5. TypeOK'
      BY <1>0, <1>1, <1>2, <2>2, <2>3, <3>1, <3>3, <3>4, TypeStep, Zenon
    <3> QED BY <3>3, <3>5 DEF IInv
  <2> QED BY <1>4, <2>4, <2>5 DEF Return, Underflow
<1> QED BY <1>3, <1>4 DEF Return, Underflow

-----------------------------------------------------------------------------
(* The invariant.                                                          *)

\* Every step of the loop, or the stutter after execute returned, keeps IInv.
LEMMA NextIInv == IInv /\ [Next]_vars => IInv'
<1> SUFFICES ASSUME IInv, [Next]_vars PROVE IInv'
  OBVIOUS
<1>1. CASE MStore
  BY <1>1, StoreArmStep DEF MStore
<1>2. CASE MStore8
  BY <1>2, StoreArmStep DEF MStore8
<1> QED
  BY <1>1, <1>2, EndOfCodeStep, BaseOutOfGasStep, StopStep, BinaryStep, UnaryStep,
     PopOpStep, MLoadStep, SLoadStep, SStoreStep, JumpStep, JumpIStep,
     JumpDestStep, PushNStep, DupOpStep, SwapOpStep, ReturnStep, InvalidStep,
     StutterStep DEF Next

\* Invariance of IInv for every code buffer, gas limit, word width and
\* stack depth: execute never lets gas_used pass the limit, and the memory
\* of a run that has not failed has always been paid for.
THEOREM Invariance == Spec => []IInv
  BY InitIInv, NextIInv, PTL DEF Spec

\* Type correctness of the interpreter state (Executor!TypeOK).
THEOREM TypeCorrect == Spec => []TypeOK
  BY Invariance, PTL DEF IInv

\* execute never lets gas_used exceed gas_limit (Executor!GasWithinLimit):
\* use_gas is the only writer of gas_used and checks the sum first.
THEOREM GasBounded == Spec => []GasWithinLimit
  BY Invariance, PTL DEF IInv

\* While a run has not failed, the gas used covers the cost of the memory
\* it has grown (Executor!MemoryCharged): every Memory::expand charge is the
\* growth of 3w + w^2/512 and is paid before the arm continues.
THEOREM MemoryPaid == Spec => []MemoryCharged
  BY Invariance, PTL DEF IInv

-----------------------------------------------------------------------------
(***************************************************************************)
(* The program counter stays on instruction boundaries (PcOnInstruction). *)
(* The straight-line decode of InstrStarts and the scan visited[] of       *)
(* analyze_jumpdests are recursive functions; their defining equations    *)
(* come from NaturalsInduction and WellFoundedInduction, and what they    *)
(* compute from a least counterexample (NatLemmas!LeastNat).              *)
(***************************************************************************)

\* The decode chain of InstrStarts(c): the k-th instruction start.
Decode(c) ==
  CHOOSE chain : chain = [k \in 0..Len(c) |->
    IF k = 0 THEN 0
    ELSE LET prev == chain[k - 1]
         IN IF prev >= Len(c) THEN prev
            ELSE prev + 1 + PushSize(c[prev + 1])]

\* The scan of analyze_jumpdests: visited[i] says the scan's i takes the
\* value i.
Visited(c) ==
  CHOOSE visited : visited = [i \in 0..Len(c) |->
    \/ i = 0
    \/ \E j \in 0..(i - 1) : visited[j] /\ j + 1 + PushSize(c[j + 1]) = i]

LEMMA InstrStartsDecode ==
  ASSUME NEW c
  PROVE  InstrStarts(c) = {Decode(c)[k] : k \in 0..Len(c)} \cap 0..(Len(c) - 1)
BY DEF InstrStarts, Decode

LEMMA JumpdestsVisited ==
  ASSUME NEW c
  PROVE  AnalyzeJumpdests(c)
           = [i \in 0..(Len(c) - 1) |-> Visited(c)[i] /\ c[i + 1] = JUMPDEST]
BY DEF AnalyzeJumpdests, Visited

\* A PUSHn skips n operand bytes; every other byte none.
LEMMA PushSizeNat == \A b : PushSize(b) \in Nat
BY DEF PushSize, PUSH1, PUSH32

\* The decode chain's defining equation, pointwise.
LEMMA DecodeDef ==
  ASSUME NEW c
  PROVE  /\ Decode(c)[0] = 0
         /\ \A k \in 1..Len(c) :
              Decode(c)[k] = IF Decode(c)[k - 1] >= Len(c) THEN Decode(c)[k - 1]
                             ELSE Decode(c)[k - 1] + 1
                                  + PushSize(c[Decode(c)[k - 1] + 1])
<1> DEFINE Def(v, k) == IF v >= Len(c) THEN v ELSE v + 1 + PushSize(c[v + 1])
           f == Decode(c)
           n == Len(c)
<1>0. n \in Nat /\ 0 \in Nat
  OBVIOUS
<1>1. FiniteNatInductiveDefHypothesis(f, 0, Def, 0, n)
  BY DEF FiniteNatInductiveDefHypothesis, Decode
<1> HIDE DEF f, Def
<1>2. FiniteNatInductiveDefConclusion(f, 0, Def, 0, n)
  BY <1>0, <1>1, FiniteNatInductiveDef, Zenon
<1>3. f = [i \in 0..n |-> IF i = 0 THEN 0 ELSE Def(f[i - 1], i)]
  BY <1>2 DEF FiniteNatInductiveDefConclusion
<1>4. f[0] = 0
  BY <1>0, <1>3
<1>5. \A k \in 1..n : f[k] = Def(f[k - 1], k)
  BY <1>0, <1>3
<1>. QED
  BY <1>4, <1>5 DEF Def, f


\* The scan's defining equation: whether i is visited depends only on the
\* offsets below i.
LEMMA VisitedDef ==
  ASSUME NEW c
  PROVE  \A i \in 0..Len(c) :
           Visited(c)[i] = \/ i = 0
                           \/ \E j \in 0..(i - 1) :
                                 Visited(c)[j] /\ j + 1 + PushSize(c[j + 1]) = i
<1> DEFINE Def(g, i) == \/ i = 0
                        \/ \E j \in 0..(i - 1) : g[j] /\ j + 1 + PushSize(c[j + 1]) = i
           S == 0..Len(c)
<1>1. IsWellFoundedOn(NatLess, S)
  <2>1. S \in SUBSET Nat
    OBVIOUS
  <2>. QED
    BY <2>1, NatLessWellFounded, IsWellFoundedOnSubset
<1>2. WFDefOn(NatLess, S, Def)
  <2> SUFFICES ASSUME NEW g, NEW h, NEW x \in S,
                      \A y \in SetLessThan(x, NatLess, S) : g[y] = h[y]
               PROVE  Def(g, x) = Def(h, x)
    BY Zenon DEF WFDefOn
  <2>1. \A j \in 0..(x - 1) : g[j] = h[j]
    <3>1. \A j \in 0..(x - 1) : j \in SetLessThan(x, NatLess, S)
      BY DEF SetLessThan, NatLess
    <3>. QED
      BY <3>1
  <2>. QED
    BY <2>1
<1>3. OpDefinesFcn(Visited(c), S, Def)
  BY DEF OpDefinesFcn, Visited
<1> HIDE DEF Def, S
<1>4. WFInductiveDefines(Visited(c), S, Def)
  BY <1>1, <1>2, <1>3, WFInductiveDef, Zenon
<1>5. Visited(c) = [i \in S |-> Def(Visited(c), i)]
  BY <1>4 DEF WFInductiveDefines
<1>. QED
  BY <1>5, Zenon DEF Def, S

\* The decode chain is made of naturals, and until it leaves the code the
\* k-th instruction starts at or after byte k.
LEMMA DecodeGrows ==
  ASSUME NEW c
  PROVE  \A k \in 0..Len(c) :
           Decode(c)[k] \in Nat /\ (Decode(c)[k] >= k \/ Decode(c)[k] >= Len(c))
<1> DEFINE f == Decode(c)
           n == Len(c)
           Bad == {i \in 0..n : ~(f[i] \in Nat /\ (f[i] >= i \/ f[i] >= n))}
<1>1. /\ f[0] = 0
      /\ \A k \in 1..n : f[k] = IF f[k - 1] >= n THEN f[k - 1]
                                ELSE f[k - 1] + 1 + PushSize(c[f[k - 1] + 1])
  BY DecodeDef
<1> SUFFICES ASSUME Bad # {} PROVE FALSE
  OBVIOUS
<1>2. PICK m \in Bad : \A i \in Bad : m <= i
  <2>1. Bad \in SUBSET Nat
    OBVIOUS
  <2>. QED
    BY <2>1, LeastNat, Zenon
<1>3. m \in 1..n
  BY <1>1, <1>2
<1>4. f[m - 1] \in Nat /\ (f[m - 1] >= m - 1 \/ f[m - 1] >= n)
  BY <1>2, <1>3
<1>5. PushSize(c[f[m - 1] + 1]) \in Nat
  BY PushSizeNat
<1>. QED
  BY <1>1, <1>2, <1>3, <1>4, <1>5

\* One step along the chain: from an instruction start inside the code,
\* the next start is one byte and its operands further on.
LEMMA DecodeStep ==
  ASSUME NEW c, NEW k \in 0..Len(c), Decode(c)[k] < Len(c)
  PROVE  /\ k + 1 \in 0..Len(c)
         /\ Decode(c)[k + 1] = Decode(c)[k] + 1 + PushSize(c[Decode(c)[k] + 1])
<1>1. Decode(c)[k] \in Nat /\ Decode(c)[k] >= k
  BY DecodeGrows
<1>2. k + 1 \in 1..Len(c)
  BY <1>1
<1>. QED
  BY <1>1, <1>2, DecodeDef


\* Every offset the scan of analyze_jumpdests visits is an instruction
\* start of the decode: the scan and the decode step over the same PUSH
\* operands.
LEMMA VisitedDecoded ==
  ASSUME NEW c
  PROVE  \A i \in 0..Len(c) : Visited(c)[i] => \E k \in 0..Len(c) : Decode(c)[k] = i
<1> DEFINE f == Decode(c)
           n == Len(c)
           Bad == {i \in 0..n : Visited(c)[i] /\ ~\E k \in 0..n : f[k] = i}
<1> SUFFICES ASSUME Bad # {} PROVE FALSE
  OBVIOUS
<1>1. PICK m \in Bad : \A i \in Bad : m <= i
  <2>1. Bad \in SUBSET Nat
    OBVIOUS
  <2>. QED
    BY <2>1, LeastNat, Zenon
<1>2. m # 0
  <2>1. f[0] = 0
    BY DecodeDef
  <2>. QED
    BY <1>1, <2>1
<1>3. PICK j \in 0..(m - 1) : Visited(c)[j] /\ j + 1 + PushSize(c[j + 1]) = m
  <2>1. Visited(c)[m] /\ m \in 0..n
    BY <1>1
  <2>2. \A i \in 0..n :
          Visited(c)[i] = \/ i = 0
                          \/ \E j \in 0..(i - 1) :
                                Visited(c)[j] /\ j + 1 + PushSize(c[j + 1]) = i
    BY VisitedDef, Zenon
  <2>. QED
    BY <1>2, <2>1, <2>2, Zenon
<1>4. j \in 0..n /\ j \notin Bad
  BY <1>1, <1>3
<1>5. PICK k \in 0..n : f[k] = j
  BY <1>3, <1>4
<1>6. j < n
  BY <1>1, <1>3
<1>7. k + 1 \in 0..n /\ f[k + 1] = j + 1 + PushSize(c[j + 1])
  BY <1>5, <1>6, DecodeStep
<1>. QED
  BY <1>1, <1>3, <1>7


\* A byte that reaches an arm other than PUSHn and the `_` arm is not a
\* PUSHn byte: PUSH1..PUSH32 is matched by the push arm alone.
LEMMA NotPushArm ==
  ASSUME NEW b, NEW arm \in Arms(b), arm \notin {"push", "invalid"}
  PROVE  PushSize(b) = 0
<1>1. CASE b \in PUSH1..PUSH32
  <2>1. ArmByValue(b) = "push"
    BY <1>1 DEF ArmByValue, ADD, MUL, SUB, DIV, MOD, LT, GT, EQ, AND, OR, XOR,
               ISZERO, NOT, STOP, POP, MLOAD, MSTORE, MSTORE8, SLOAD, SSTORE,
               JUMP, JUMPI, JUMPDEST, PUSH1, PUSH32, DUP1, DUP16, SWAP1, SWAP16,
               RETURN
  <2>. QED
    BY <2>1 DEF Arms
<1>. QED
  BY <1>1 DEF PushSize

\* How one iteration of the loop may move pc: not at all, to the byte
\* after the instruction and its operands, or to a byte the jump table
\* marks.
PcMove ==
  \/ pc' = pc
  \/ pc < Len(code) /\ pc' = pc + 1 + PushSize(Op)
  \/ pc' \in 0..(Len(code) - 1) /\ jumpdests[pc']

\* The arms other than PUSHn and the jumps leave pc or add one to it.
LEMMA FetchMove ==
  ASSUME pc \in Nat, NEW arm, Fetch(arm), arm \notin {"push", "invalid"},
         pc' \in {pc, pc + 1}
  PROVE  PcMove
<1>1. pc < Len(code) /\ PushSize(Op) = 0
  BY NotPushArm DEF Fetch
<1>. QED
  BY <1>1 DEF PcMove

\* A taken jump lands on a byte the table marks, or fails where it was.
LEMMA TakeJumpMove ==
  ASSUME NEW dest \in Nat, TakeJump(dest)
  PROVE  PcMove
BY DEF TakeJump, BadJumpdest, PcMove


\* Every iteration of the loop moves pc in one of the three ways, and none
\* changes the code or its jump table.
LEMMA NextPcMove ==
  ASSUME IInv, [Next]_vars
  PROVE  PcMove /\ code' = code /\ jumpdests' = jumpdests
<1>0. pc \in Nat /\ TypeOK
  BY DEF IInv, TypeOK
<1>1. CASE UNCHANGED vars \/ Terminated
  BY <1>1 DEF vars, Terminated, PcMove
<1>2. CASE EndOfCode \/ BaseOutOfGas \/ Stop \/ Return \/ Invalid
  BY <1>2 DEF EndOfCode, BaseOutOfGas, Stop, Return, Invalid, PcMove
<1>3. CASE Binary
  <2>1. pc' \in {pc, pc + 1} /\ code' = code /\ jumpdests' = jumpdests
    BY <1>3 DEF Binary, Underflow, Continue
  <2>. QED
    BY <1>0, <1>3, <2>1, FetchMove DEF Binary
<1>4. CASE Unary
  <2>1. pc' \in {pc, pc + 1} /\ code' = code /\ jumpdests' = jumpdests
    BY <1>4 DEF Unary, Underflow, Continue
  <2>. QED
    BY <1>0, <1>4, <2>1, FetchMove DEF Unary
<1>5. CASE PopOp
  <2>1. pc' \in {pc, pc + 1} /\ code' = code /\ jumpdests' = jumpdests
    BY <1>5 DEF PopOp, Underflow, Continue
  <2>. QED
    BY <1>0, <1>5, <2>1, FetchMove DEF PopOp
<1>6. CASE MLoad
  <2>1. pc' \in {pc, pc + 1} /\ code' = code /\ jumpdests' = jumpdests
    BY <1>6 DEF MLoad, Underflow, Continue
  <2>. QED
    BY <1>0, <1>6, <2>1, FetchMove DEF MLoad
<1>7. CASE MStore \/ MStore8
  <2>1. PICK arm \in {"mstore", "mstore8"}, w \in {32, 1} : StoreArm(arm, w)
    BY <1>7 DEF MStore, MStore8
  <2>2. pc' \in {pc, pc + 1} /\ code' = code /\ jumpdests' = jumpdests
    BY <2>1 DEF StoreArm, Underflow, Continue
  <2>. QED
    BY <1>0, <2>1, <2>2, FetchMove DEF StoreArm
<1>8. CASE SLoad
  <2>1. pc' \in {pc, pc + 1} /\ code' = code /\ jumpdests' = jumpdests
    BY <1>8 DEF SLoad, Underflow, Continue
  <2>. QED
    BY <1>0, <1>8, <2>1, FetchMove DEF SLoad
<1>9. CASE SStore
  <2>1. pc' \in {pc, pc + 1} /\ code' = code /\ jumpdests' = jumpdests
    BY <1>9 DEF SStore, Underflow, Continue
  <2>. QED
    BY <1>0, <1>9, <2>1, FetchMove DEF SStore
<1>10. CASE JumpDest
  <2>1. pc' \in {pc, pc + 1} /\ code' = code /\ jumpdests' = jumpdests
    BY <1>10 DEF JumpDest, Continue
  <2>. QED
    BY <1>0, <1>10, <2>1, FetchMove DEF JumpDest
<1>11. CASE DupOp
  <2>1. pc' \in {pc, pc + 1} /\ code' = code /\ jumpdests' = jumpdests
    BY <1>11 DEF DupOp
  <2>. QED
    BY <1>0, <1>11, <2>1, FetchMove DEF DupOp
<1>12. CASE SwapOp
  <2>1. pc' \in {pc, pc + 1} /\ code' = code /\ jumpdests' = jumpdests
    BY <1>12 DEF SwapOp, Continue
  <2>. QED
    BY <1>0, <1>12, <2>1, FetchMove DEF SwapOp
<1>13. CASE Jump
  <2>1. code' = code /\ jumpdests' = jumpdests
    BY <1>13 DEF Jump
  <2>2. CASE Underflow(1)
    BY <2>1, <2>2 DEF Underflow, PcMove
  <2>3. CASE Len(stack) >= 1 /\ TakeJump(Top)
    <3>1. Top \in Nat
      BY <1>0, <2>3, TopType DEF Value
    <3>. QED
      BY <2>1, <2>3, <3>1, TakeJumpMove
  <2>. QED
    BY <1>13, <2>2, <2>3 DEF Jump
<1>14. CASE JumpI
  <2>1. code' = code /\ jumpdests' = jumpdests
    BY <1>14 DEF JumpI
  <2>2. CASE Underflow(2)
    BY <2>1, <2>2 DEF Underflow, PcMove
  <2>3. CASE Len(stack) >= 2 /\ Second # 0 /\ TakeJump(Top)
    <3>1. Top \in Nat
      BY <1>0, <2>3, TopType DEF Value
    <3>. QED
      BY <2>1, <2>3, <3>1, TakeJumpMove
  <2>4. CASE Len(stack) >= 2 /\ Second = 0 /\ Continue
    BY <1>0, <1>14, <2>1, <2>4, FetchMove DEF JumpI, Continue
  <2>. QED
    BY <1>14, <2>2, <2>3, <2>4 DEF JumpI
<1>15. CASE PushN
  <2>1. code' = code /\ jumpdests' = jumpdests
    BY <1>15 DEF PushN
  <2>2. pc < Len(code) /\ PushSize(Op) = Op - PUSH1 + 1 /\ Op \in Byte
    <3>1. "push" \in Arms(Op) /\ pc < Len(code) /\ Op \in Byte
      BY <1>0, <1>15, FetchFacts DEF PushN
    <3>. QED
      BY <3>1, ArmsDecode DEF PushSize
  <2>3. pc' = pc \/ pc' = pc + (Op - PUSH1 + 1) + 1
    BY <1>15 DEF PushN
  <2>. QED
    BY <1>0, <2>1, <2>2, <2>3 DEF PcMove, Byte, PUSH1
<1>. QED
  BY <1>1, <1>2, <1>3, <1>4, <1>5, <1>6, <1>7, <1>8, <1>9, <1>10, <1>11,
     <1>12, <1>13, <1>14, <1>15 DEF Next


\* PcOnInstruction, strengthened: the jump table is the scan of the code,
\* and pc is on the decode chain (inside the code or past its end).
PcInv ==
  /\ jumpdests = AnalyzeJumpdests(code)
  /\ \E k \in 0..Len(code) : Decode(code)[k] = pc

LEMMA InitPcInv == Init => PcInv
<1> SUFFICES ASSUME Init PROVE PcInv
  OBVIOUS
<1>1. Decode(code)[0] = 0 /\ 0 \in 0..Len(code)
  BY DecodeDef
<1>. QED
  BY <1>1 DEF Init, PcInv

LEMMA NextPcInv == IInv /\ PcInv /\ [Next]_vars => PcInv'
<1> SUFFICES ASSUME IInv, PcInv, [Next]_vars PROVE PcInv'
  OBVIOUS
<1>1. PcMove /\ code' = code /\ jumpdests' = jumpdests
  BY NextPcMove
<1>2. PICK k \in 0..Len(code) : Decode(code)[k] = pc
  BY DEF PcInv
<1>3. jumpdests' = AnalyzeJumpdests(code')
  BY <1>1 DEF PcInv
<1>4. CASE pc' = pc
  BY <1>1, <1>2, <1>3, <1>4 DEF PcInv
<1>5. CASE pc < Len(code) /\ pc' = pc + 1 + PushSize(Op)
  <2>1. k + 1 \in 0..Len(code)
        /\ Decode(code)[k + 1] = pc + 1 + PushSize(code[pc + 1])
    BY <1>2, <1>5, DecodeStep
  <2>. QED
    BY <1>1, <1>3, <1>5, <2>1 DEF PcInv, Op
<1>6. CASE pc' \in 0..(Len(code) - 1) /\ jumpdests[pc']
  <2>0. jumpdests = [i \in 0..(Len(code) - 1) |->
                       Visited(code)[i] /\ code[i + 1] = JUMPDEST]
    BY JumpdestsVisited DEF PcInv
  <2>1. Visited(code)[pc']
    BY <1>6, <2>0, Zenon
  <2>2. pc' \in 0..Len(code)
    BY <1>6
  <2>3. \E j \in 0..Len(code) : Decode(code)[j] = pc'
    BY <2>1, <2>2, VisitedDecoded
  <2>. QED
    BY <1>1, <1>3, <2>3 DEF PcInv
<1>. QED
  BY <1>1, <1>4, <1>5, <1>6 DEF PcMove

\* Whatever the code and gas limit, whenever the loop is about to fetch a
\* byte, that byte starts an instruction (PcOnInstruction, checked by the
\* run executor): the PUSH arm skips exactly its operand, the other arms
\* step one byte, and a jump that passes the table analyze_jumpdests
\* built lands on an offset the scan visited, which is an instruction
\* start, never on a 0x5b inside a PUSH operand.
THEOREM PcAlwaysOnInstruction == Spec => []PcOnInstruction
<1>1. Init => IInv /\ PcInv
  BY InitIInv, InitPcInv
<1>2. IInv /\ PcInv /\ [Next]_vars => IInv' /\ PcInv'
  BY NextIInv, NextPcInv
<1>3. PcInv => PcOnInstruction
  <2> SUFFICES ASSUME PcInv, pc < Len(code) PROVE pc \in InstrStarts(code)
    BY DEF PcOnInstruction
  <2>1. PICK k \in 0..Len(code) : Decode(code)[k] = pc
    BY DEF PcInv
  <2>2. pc \in 0..(Len(code) - 1)
    BY <2>1, DecodeGrows
  <2>3. InstrStarts(code)
          = {Decode(code)[j] : j \in 0..Len(code)} \cap 0..(Len(code) - 1)
    BY InstrStartsDecode
  <2>. QED
    BY <2>1, <2>2, <2>3
<1>. QED
  BY <1>1, <1>2, <1>3, PTL DEF Spec

=============================================================================
