---------------------------- MODULE CoreExecutor ----------------------------
(***************************************************************************)
(* One run of Executor::execute of the core crate                          *)
(* (src/fair-vm-core/vm/executor.rs), a second interpreter beside the one  *)
(* of the fairvm crate (module Executor).  It differs from that one in     *)
(* what the loop does with Ok(false) and in its arms: JUMP and a taken     *)
(* JUMPI set pc and the loop goes on from there; only STOP and RETURN      *)
(* break; REVERT returns Ok(false) but is neither, so pc stays on it; no   *)
(* arm charges memory expansion; there is no PUSH, DUP, SWAP or MSTORE8    *)
(* arm, and BYTE, PC, MSIZE and GAS have one.                              *)
(*                                                                         *)
(* The core crate's opcode module is not in the repository.  Opcode's     *)
(* byte values and gas_cost are taken to be those of the fairvm crate      *)
(* (module Opcodes), and its from_u8 is ASSUMED to return None for a byte  *)
(* with no variant (the loop's `ok_or` implies an Option), unlike fairvm's  *)
(* from_u8, which transmutes every byte.  Its State has no storage         *)
(* accessors either: SLOAD and SSTORE read and write a map, as spec        *)
(* section 6 describes.  The fairness score is left out: no branch reads   *)
(* it.                                                                     *)
(***************************************************************************)
EXTENDS Opcodes, EvmStack, EvmMemory

CONSTANTS
  Codes,      \* the code buffers a run may be given
  GasLimits,  \* the gas limits a run may be given
  Statics     \* the values ExecutionContext.is_static may take

ASSUME CoreAssumption ==
  /\ Codes \subseteq Seq(Byte) /\ GasLimits \subseteq Nat
  /\ Statics \subseteq BOOLEAN

\* The opcodes this interpreter has an arm for that Opcodes does not name.
BYTE == 26
PC == 88
MSIZE == 89
GAS == 90
REVERT == 253

VARIABLES
  code,        \* the `code` argument of execute
  jumpdests,   \* analyze_jumpdests(&code)
  pc,          \* Executor.pc
  stack,       \* Executor.stack items, top last
  mem,         \* Executor.memory data (its size field always equals its length)
  gasUsed,     \* Executor.gas_used
  gasLimit,    \* Executor.gas_limit
  isStatic,    \* context.is_static
  returnData,  \* Executor.return_data
  storage,     \* the contract's storage slots that were written
  status,      \* "running", "success" or "failed"
  err          \* the error of a failed run, "none" otherwise

vars == <<code, jumpdests, pc, stack, mem, gasUsed, gasLimit, isStatic,
          returnData, storage, status, err>>

-----------------------------------------------------------------------------
(* analyze_jumpdests: the same scan as the fairvm crate's, skipping the    *)
(* operand bytes of every PUSHn.                                           *)
CoreJumpdests(c) ==
  LET visited[i \in 0..Len(c)] ==
        \/ i = 0
        \/ \E j \in 0..(i - 1) : visited[j] /\ j + 1 + PushSize(c[j + 1]) = i
  IN [i \in 0..(Len(c) - 1) |-> visited[i] /\ c[i + 1] = JUMPDEST]

Op == code[pc + 1]
Top == stack[Len(stack)]
Second == stack[Len(stack) - 1]

\* Mutation of UseGasOk: the amount alone is compared with the limit.
UseGasAmountOnly == GasCost(Op) <= gasLimit

(* use_gas(op.gas_cost()) succeeds.                                        *)
UseGasOk == gasUsed + GasCost(Op) <= gasLimit

(* The arms of execute_opcode's match; every other Opcode takes `_`.      *)
BinaryOps == {ADD, MUL, SUB, DIV, MOD, LT, GT, EQ, AND, OR, XOR, BYTE}
CoreArmed == BinaryOps \cup {STOP, ISZERO, NOT, POP, MLOAD, MSTORE, SLOAD,
               SSTORE, JUMP, JUMPI, PC, MSIZE, GAS, JUMPDEST, RETURN, REVERT}

(* The value a binary arm pushes for a = first pop, b = second pop.        *)
BinOp(o, a, b) ==
  CASE o = ADD -> WrapAdd(a, b)   [] o = MUL -> WrapMul(a, b)
    [] o = SUB -> WrapSub(a, b)   [] o = DIV -> DivOrZero(a, b)
    [] o = MOD -> ModOrZero(a, b)
    [] o = LT  -> IF a < b THEN 1 ELSE 0
    [] o = GT  -> IF a > b THEN 1 ELSE 0
    [] o = EQ  -> IF a = b THEN 1 ELSE 0
    [] o = AND -> BitwiseOp("and", a, b)
    [] o = OR  -> BitwiseOp("or", a, b)
    [] o = XOR -> BitwiseOp("xor", a, b)
    [] o = BYTE -> IF a >= 32 THEN 0
                   ELSE (b \div (256 ^ (31 - a))) % 256

(* An arm runs: the byte decodes, its base gas is charged, and the arm for *)
(* Op is one of `ops`.                                                     *)
Fetch(ops) ==
  /\ status = "running" /\ pc < Len(code)
  /\ Op \in Assigned /\ UseGasOk /\ Op \in ops
  /\ gasUsed' = gasUsed + GasCost(Op)

Fail(e) == status' = "failed" /\ err' = e
Continue == pc' = pc + 1 /\ UNCHANGED <<status, err>>
Break == status' = "success" /\ UNCHANGED err

(* A chain of k `pop()?` on fewer than k items: all are popped, then       *)
(* Underflow.                                                              *)
Underflow(k) ==
  /\ Len(stack) < k
  /\ stack' = <<>>
  /\ Fail("StackUnderflow")
  /\ UNCHANGED <<pc, mem, returnData, storage>>

Frame == <<code, jumpdests, gasLimit, isStatic>>

-----------------------------------------------------------------------------
Init ==
  /\ code \in Codes
  /\ jumpdests = CoreJumpdests(code)
  /\ pc = 0
  /\ stack = <<>>
  /\ mem = <<>>
  /\ gasUsed = 0
  /\ gasLimit \in GasLimits
  /\ isStatic \in Statics
  /\ returnData = <<>>
  /\ storage = [k \in {} |-> 0]
  /\ status = "running"
  /\ err = "none"

(* `while self.pc < code.len()` ends: execute returns success.             *)
EndOfCode ==
  /\ status = "running" /\ pc >= Len(code)
  /\ Break
  /\ UNCHANGED <<Frame, pc, stack, mem, gasUsed, returnData, storage>>

(* Opcode::from_u8 is None: InvalidOpcode, before any gas is charged.      *)
Undecodable ==
  /\ status = "running" /\ pc < Len(code) /\ Op \notin Assigned
  /\ Fail("InvalidOpcode")
  /\ UNCHANGED <<Frame, pc, stack, mem, gasUsed, returnData, storage>>

(* use_gas fails: OutOfGas, with gas_used as it was.                       *)
BaseOutOfGas ==
  /\ status = "running" /\ pc < Len(code) /\ Op \in Assigned /\ ~UseGasOk
  /\ Fail("OutOfGas")
  /\ UNCHANGED <<Frame, pc, stack, mem, gasUsed, returnData, storage>>

(* STOP: Ok(false), and the loop breaks on STOP.                           *)
Stop ==
  /\ Fetch({STOP}) /\ Break
  /\ UNCHANGED <<Frame, pc, stack, mem, returnData, storage>>

(* The two-operand arms: pop a, pop b, push the result.                    *)
Binary ==
  /\ Fetch(BinaryOps)
  /\ \/ Underflow(2)
     \/ /\ Len(stack) >= 2
        /\ stack' = Append(PopN(stack, 2), BinOp(Op, Top, Second))
        /\ Continue /\ UNCHANGED <<mem, returnData, storage>>
  /\ UNCHANGED Frame

(* ISZERO and NOT.                                                         *)
Unary ==
  /\ Fetch({ISZERO, NOT})
  /\ \/ Underflow(1)
     \/ /\ Len(stack) >= 1
        /\ stack' = Append(PopN(stack, 1),
                           IF Op = NOT THEN BitNot(Top)
                           ELSE IF Top = 0 THEN 1 ELSE 0)
        /\ Continue /\ UNCHANGED <<mem, returnData, storage>>
  /\ UNCHANGED Frame

PopOp ==
  /\ Fetch({POP})
  /\ \/ Underflow(1)
     \/ /\ Len(stack) >= 1 /\ stack' = PopN(stack, 1)
        /\ Continue /\ UNCHANGED <<mem, returnData, storage>>
  /\ UNCHANGED Frame

(* MLOAD: load32 reads zero past the end and never grows memory.           *)
MLoad ==
  /\ Fetch({MLOAD})
  /\ \/ Underflow(1)
     \/ /\ Len(stack) >= 1
        /\ stack' = Append(PopN(stack, 1), Load32(mem, Top))
        /\ Continue /\ UNCHANGED <<mem, returnData, storage>>
  /\ UNCHANGED Frame

(* MSTORE: pop offset, pop value, store32 (which expands memory; the cost  *)
(* expand returns is dropped).                                             *)
MStore ==
  /\ Fetch({MSTORE})
  /\ \/ Underflow(2)
     \/ /\ Len(stack) >= 2
        /\ mem' = Store32(mem, Top, Second)
        /\ stack' = PopN(stack, 2)
        /\ Continue /\ UNCHANGED <<returnData, storage>>
  /\ UNCHANGED Frame

(* SLOAD: pop a key, push the slot (zero when never written).              *)
SLoad ==
  /\ Fetch({SLOAD})
  /\ \/ Underflow(1)
     \/ /\ Len(stack) >= 1
        /\ stack' = Append(PopN(stack, 1),
                           IF Top \in DOMAIN storage THEN storage[Top] ELSE 0)
        /\ Continue /\ UNCHANGED <<mem, returnData, storage>>
  /\ UNCHANGED Frame

(* SSTORE: refused in a static call before anything is popped; otherwise   *)
(* pop key, pop value, write the slot.                                     *)
SStore ==
  /\ Fetch({SSTORE})
  /\ \/ /\ isStatic
        /\ Fail("StaticCallStateChange")
        /\ UNCHANGED <<pc, stack, mem, returnData, storage>>
     \/ /\ ~isStatic /\ Underflow(2)
     \/ /\ ~isStatic /\ Len(stack) >= 2
        /\ storage' = [k \in DOMAIN storage \cup {Top} |->
                       IF k = Top THEN Second ELSE storage[k]]
        /\ stack' = PopN(stack, 2)
        /\ Continue /\ UNCHANGED <<mem, returnData>>
  /\ UNCHANGED Frame

\* Mutation of ValidDest: the destination is checked against the code length
\* only, not against the jump-destination table.
ValidDestLengthOnly(d) == d < Len(code)

(* `dest >= code.len() || !jumpdests[dest]` is false.                      *)
ValidDest(d) == d < Len(code) /\ jumpdests[d]

(* The jump to d of JUMP or a taken JUMPI, after its pops: InvalidJumpdest *)
(* or pc = d and Ok(false), on which the loop neither breaks nor advances. *)
JumpTo(d) ==
  \/ /\ ~ValidDest(d)
     /\ Fail("InvalidJumpdest") /\ UNCHANGED pc
  \/ /\ ValidDest(d)
     /\ pc' = d /\ UNCHANGED <<status, err>>

Jump ==
  /\ Fetch({JUMP})
  /\ \/ Underflow(1)
     \/ /\ Len(stack) >= 1 /\ stack' = PopN(stack, 1)
        /\ JumpTo(Top) /\ UNCHANGED <<mem, returnData, storage>>
  /\ UNCHANGED Frame

(* JUMPI: pop dest, pop condition; jump when the condition is not zero.    *)
JumpI ==
  /\ Fetch({JUMPI})
  /\ \/ Underflow(2)
     \/ /\ Len(stack) >= 2 /\ stack' = PopN(stack, 2)
        /\ IF Second # 0 THEN JumpTo(Top) ELSE Continue
        /\ UNCHANGED <<mem, returnData, storage>>
  /\ UNCHANGED Frame

(* PC, MSIZE, GAS: push pc, the memory size, or gas_limit - gas_used       *)
(* (gas_used already charged), as a word; DepthLimitExceeded on a full     *)
(* stack.                                                                  *)
PushInfo ==
  /\ Fetch({PC, MSIZE, GAS})
  /\ \/ /\ ~CanPush(stack)
        /\ Fail("DepthLimitExceeded") /\ UNCHANGED <<pc, stack>>
     \/ /\ CanPush(stack)
        /\ stack' = Append(stack, (CASE Op = PC    -> pc
                                    [] Op = MSIZE -> Len(mem)
                                    [] Op = GAS   -> gasLimit - gasUsed')
                                  % Word)
        /\ Continue
  /\ UNCHANGED <<Frame, mem, returnData, storage>>

JumpDest ==
  /\ Fetch({JUMPDEST}) /\ Continue
  /\ UNCHANGED <<Frame, stack, mem, returnData, storage>>

(* RETURN: pop offset, pop size, return data = load(offset, size), break.  *)
Return ==
  /\ Fetch({RETURN})
  /\ \/ Underflow(2)
     \/ /\ Len(stack) >= 2 /\ stack' = PopN(stack, 2)
        /\ returnData' = Load(mem, Top, Second)
        /\ Break /\ UNCHANGED <<pc, mem, storage>>
  /\ UNCHANGED Frame

\* Mutation of Revert: the operands are read without being popped.
RevertPeek ==
  /\ Fetch({REVERT})
  /\ \/ Underflow(2)
     \/ /\ Len(stack) >= 2
        /\ returnData' = Load(mem, Top, Second)
        /\ UNCHANGED <<pc, stack, mem, storage, status, err>>
  /\ UNCHANGED Frame

(* REVERT: the pops and the load of RETURN, then Ok(false); the loop does  *)
(* not break (the byte is not STOP or RETURN) and pc stays on the REVERT.  *)
Revert ==
  /\ Fetch({REVERT})
  /\ \/ Underflow(2)
     \/ /\ Len(stack) >= 2 /\ stack' = PopN(stack, 2)
        /\ returnData' = Load(mem, Top, Second)
        /\ UNCHANGED <<pc, mem, storage, status, err>>
  /\ UNCHANGED Frame

(* `_`: an Opcode with no arm (PUSHn, DUPn, SWAPn, MSTORE8, ...) fails     *)
(* with InvalidOpcode after its base gas has been charged.                 *)
NoArm ==
  /\ Fetch(Assigned \ CoreArmed)
  /\ Fail("InvalidOpcode")
  /\ UNCHANGED <<Frame, pc, stack, mem, returnData, storage>>

Next ==
  \/ EndOfCode \/ Undecodable \/ BaseOutOfGas \/ Stop \/ Binary \/ Unary
  \/ PopOp \/ MLoad \/ MStore \/ SLoad \/ SStore \/ Jump \/ JumpI
  \/ PushInfo \/ JumpDest \/ Return \/ Revert \/ NoArm

Spec == Init /\ [][Next]_vars

(* execute is one sequential loop: while it runs, its next step is taken.  *)
FairSpec == Spec /\ WF_vars(Next)

-----------------------------------------------------------------------------
\* gas_used never passes gas_limit, whatever the sequence of charges: so
\* the subtraction gas_limit - gas_used of the GAS arm never underflows and
\* a failed result never reports more gas than the caller allowed.
GasWithinLimit == gasUsed <= gasLimit

\* One step that moves pc anywhere but to the next byte and keeps the run
\* going (a JUMP or a taken JUMPI) lands on a JUMPDEST byte.
LandsOnJumpdest ==
  status = "running" /\ status' = "running" /\ pc' \notin {pc, pc + 1}
    => pc' < Len(code) /\ code[pc' + 1] = JUMPDEST

\* Every jump of a run lands on a JUMPDEST byte: the loop resumes there,
\* and never at a byte the jump table of analyze_jumpdests did not admit.
JumpLandsOnJumpdest == [][LandsOnJumpdest]_vars

\* Every run of execute ends: a loop through a JUMP costs gas on every
\* turn, and a REVERT that does not end the loop pops the stack each time.
Terminates == <>(status # "running")

=============================================================================
