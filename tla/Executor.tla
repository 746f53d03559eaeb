------------------------------ MODULE Executor ------------------------------
(***************************************************************************)
(* One run of Executor::execute (src/fairvm/src/evm/executor.rs): the      *)
(* jump-destination scan, then the fetch-decode-execute loop over one code *)
(* buffer with its own stack, memory, program counter and gas counter.     *)
(*                                                                         *)
(* A state is the executor between two iterations of the `while` loop.     *)
(* Each action is one iteration: execute_opcode for the byte at pc (one    *)
(* action per arm of its match), followed by what the loop does with the   *)
(* result: `pc += 1` on Ok(true), `break` on Ok(false), `return` of a      *)
(* failed ExecutionResult on Err.  `status` records which: "running" while *)
(* the loop goes on, "success" after the loop exits, "failed" after an Err.*)
(*                                                                         *)
(* The external State is touched by SLOAD and SSTORE only.  In this crate  *)
(* SLOAD resolves to EvmContext::get_storage, which returns zero, and      *)
(* SSTORE to State::set_storage_value, whose body is empty; `storage` is   *)
(* the contract's storage in the State, which therefore never changes.     *)
(***************************************************************************)
EXTENDS Opcodes, EvmStack, EvmMemory

CONSTANTS
  Codes,      \* the code buffers a run may be given
  GasLimits   \* the gas limits a run may be given (ExecutionContext.gas_limit)

ASSUME CodesAssumption == Codes \subseteq Seq(Byte)
ASSUME GasLimitsAssumption == GasLimits \subseteq Nat

VARIABLES
  code,        \* the `code` argument of execute
  jumpdests,   \* the result of analyze_jumpdests(&code)
  pc,          \* Executor.pc
  stack,       \* Executor.stack items, top last
  mem,         \* Executor.memory data
  gasUsed,     \* Executor.gas_used
  gasLimit,    \* Executor.gas_limit
  returnData,  \* Executor.return_data
  status,      \* "running", "success" or "failed"
  err,         \* the error of a failed run, "none" otherwise
  storage      \* the slots of the contract's storage in the external State
               \* that hold a written value (the others read as zero)

vars == <<code, jumpdests, pc, stack, mem, gasUsed, gasLimit, returnData,
          status, err, storage>>

Status == {"running", "success", "failed"}
Errors == {"none", "OutOfGas", "StackUnderflow", "DepthLimitExceeded",
           "InvalidIndex", "InvalidOpcode", "InvalidJumpdest", "UnexpectedEOF"}

-----------------------------------------------------------------------------
(***************************************************************************)
(* Executor::analyze_jumpdests: a scan from byte 0 that steps over the     *)
(* operand bytes of every PUSHn.  visited[i] says the scan's `i` takes the *)
(* value i; a visited byte equal to JUMPDEST is marked.                    *)
(***************************************************************************)
\* Mutation of AnalyzeJumpdests: a scan that does not skip PUSH operands.
AnalyzeJumpdestsNoSkip(c) == [i \in 0..(Len(c) - 1) |-> c[i + 1] = JUMPDEST]

AnalyzeJumpdests(c) ==
  LET visited[i \in 0..Len(c)] ==
        \/ i = 0
        \/ \E j \in 0..(i - 1) : visited[j] /\ j + 1 + PushSize(c[j + 1]) = i
  IN [i \in 0..(Len(c) - 1) |-> visited[i] /\ c[i + 1] = JUMPDEST]

\* The byte at the program counter (code is 1-indexed, pc 0-based).
Op == code[pc + 1]

\* The top of the stack and the element below it.
Top == stack[Len(stack)]
Second == stack[Len(stack) - 1]

\* Gas used after use_gas(op.gas_cost()) succeeds.
Charged == gasUsed + GasCost(Op)

\* Mutation of Fetch: use_gas compares the amount alone with the limit,
\* forgetting the gas already used.
FetchAmountOnly(arm) ==
  /\ status = "running"
  /\ pc < Len(code)
  /\ arm \in Arms(Op)
  /\ GasCost(Op) <= gasLimit

\* The loop fetches the byte at pc, the decode reaches arm `arm`, and the
\* base gas charge succeeds.
Fetch(arm) ==
  /\ status = "running"
  /\ pc < Len(code)
  /\ arm \in Arms(Op)
  /\ Charged <= gasLimit

\* execute_opcode returned Err(e): execute returns a failed result.
Fail(e) == status' = "failed" /\ err' = e

\* execute_opcode returned Ok(true): the loop does `self.pc += 1`.
Continue == pc' = pc + 1 /\ UNCHANGED <<status, err>>

\* execute_opcode returned Ok(false): the loop breaks, execute succeeds.
Break == status' = "success" /\ UNCHANGED err

\* A `pop()?` chain of k pops on a stack with fewer than k items: every
\* item is popped, then the first failing pop returns Underflow.
Underflow(k) ==
  /\ Len(stack) < k
  /\ stack' = <<>>
  /\ Fail("StackUnderflow")
  /\ UNCHANGED <<pc, mem, returnData>>

-----------------------------------------------------------------------------
Init ==
  /\ code \in Codes
  /\ jumpdests = AnalyzeJumpdests(code)
  /\ pc = 0
  /\ stack = <<>>
  /\ mem = <<>>
  /\ gasUsed = 0
  /\ gasLimit \in GasLimits
  /\ returnData = <<>>
  /\ status = "running"
  /\ err = "none"
  /\ storage = [k \in {} |-> 0]

\* `while self.pc < code.len()` is false: the loop ends, execute succeeds.
EndOfCode ==
  /\ status = "running"
  /\ pc >= Len(code)
  /\ Break
  /\ UNCHANGED <<code, jumpdests, pc, stack, mem, gasUsed, gasLimit,
                 returnData, storage>>

\* use_gas(op.gas_cost()) fails, before any arm runs.
BaseOutOfGas ==
  /\ status = "running"
  /\ pc < Len(code)
  /\ Charged > gasLimit
  /\ Fail("OutOfGas")
  /\ UNCHANGED <<code, jumpdests, pc, stack, mem, gasUsed, gasLimit,
                 returnData, storage>>

\* 0x00 STOP: Ok(false).
Stop ==
  /\ Fetch("stop")
  /\ gasUsed' = Charged
  /\ Break
  /\ UNCHANGED <<code, jumpdests, pc, stack, mem, gasLimit, returnData, storage>>

\* The value a two-operand arithmetic, comparison or bitwise arm pushes,
\* a being the first value popped.
BinaryResult(op, a, b) ==
  CASE op = ADD -> WrapAdd(a, b)
    [] op = MUL -> WrapMul(a, b)
    [] op = SUB -> WrapSub(a, b)
    [] op = DIV -> DivOrZero(a, b)
    [] op = MOD -> ModOrZero(a, b)
    [] op = LT  -> IF a < b THEN 1 ELSE 0
    [] op = GT  -> IF a > b THEN 1 ELSE 0
    [] op = EQ  -> IF a = b THEN 1 ELSE 0
    [] op = AND -> BitwiseOp("and", a, b)
    [] op = OR  -> BitwiseOp("or", a, b)
    [] op = XOR -> BitwiseOp("xor", a, b)

\* ADD, MUL, SUB, DIV, MOD, LT, GT, EQ, AND, OR, XOR: pop a, pop b, push.
Binary ==
  /\ Fetch("binary")
  /\ gasUsed' = Charged
  /\ \/ Underflow(2)
     \/ /\ Len(stack) >= 2
        /\ stack' = Push(PopN(stack, 2), BinaryResult(Op, Top, Second))
        /\ Continue
        /\ UNCHANGED <<mem, returnData>>
  /\ UNCHANGED <<code, jumpdests, gasLimit, storage>>

\* ISZERO and NOT: pop a, push.
Unary ==
  /\ Fetch("unary")
  /\ gasUsed' = Charged
  /\ \/ Underflow(1)
     \/ /\ Len(stack) >= 1
        /\ stack' = Push(PopN(stack, 1),
                         IF Op = NOT THEN BitNot(Top)
                         ELSE IF Top = 0 THEN 1 ELSE 0)
        /\ Continue
        /\ UNCHANGED <<mem, returnData>>
  /\ UNCHANGED <<code, jumpdests, gasLimit, storage>>

\* 0x50 POP
PopOp ==
  /\ Fetch("pop")
  /\ gasUsed' = Charged
  /\ \/ Underflow(1)
     \/ /\ Len(stack) >= 1
        /\ stack' = PopN(stack, 1)
        /\ Continue
        /\ UNCHANGED <<mem, returnData>>
  /\ UNCHANGED <<code, jumpdests, gasLimit, storage>>

\* The memory arms: pop the operands, expand memory (the buffer grows
\* before its gas is charged), use_gas(expansion), then the access.
\* `offset` and `size` are the popped words (as_usize).

\* 0x51 MLOAD
MLoad ==
  /\ Fetch("mload")
  /\ \/ /\ Underflow(1)
        /\ gasUsed' = Charged
     \/ /\ Len(stack) >= 1
        /\ LET x == Expand(mem, Top, 32) IN
             /\ mem' = x.data
             /\ \/ /\ Charged + x.gas > gasLimit
                   /\ gasUsed' = Charged
                   /\ stack' = PopN(stack, 1)
                   /\ Fail("OutOfGas")
                   /\ UNCHANGED pc
                \/ /\ Charged + x.gas <= gasLimit
                   /\ gasUsed' = Charged + x.gas
                   /\ stack' = Push(PopN(stack, 1), Load32(x.data, Top))
                   /\ Continue
        /\ UNCHANGED returnData
  /\ UNCHANGED <<code, jumpdests, gasLimit, storage>>

\* 0x52 MSTORE (wordBytes = 32) and 0x53 MSTORE8 (wordBytes = 1): pop
\* offset, pop value, expand, charge, store the word or its low byte.
StoreArm(arm, wordBytes) ==
  /\ Fetch(arm)
  /\ \/ /\ Underflow(2)
        /\ gasUsed' = Charged
     \/ /\ Len(stack) >= 2
        /\ stack' = PopN(stack, 2)
        /\ LET x == Expand(mem, Top, wordBytes) IN
             \/ /\ Charged + x.gas > gasLimit
                /\ gasUsed' = Charged
                /\ mem' = x.data
                /\ Fail("OutOfGas")
                /\ UNCHANGED pc
             \/ /\ Charged + x.gas <= gasLimit
                /\ gasUsed' = Charged + x.gas
                /\ mem' = IF wordBytes = 32 THEN Store32(x.data, Top, Second)
                          ELSE Store(x.data, Top, <<Second % 256>>)
                /\ Continue
        /\ UNCHANGED returnData
  /\ UNCHANGED <<code, jumpdests, gasLimit, storage>>

MStore == StoreArm("mstore", 32)
MStore8 == StoreArm("mstore8", 1)

\* 0x54 SLOAD: pop key, read the State (EvmContext::get_storage, which
\* returns H256::zero() whatever the key), push the value.
StorageRead(key) == 0

SLoad ==
  /\ Fetch("sload")
  /\ gasUsed' = Charged
  /\ \/ Underflow(1)
     \/ /\ Len(stack) >= 1
        /\ stack' = Push(PopN(stack, 1), StorageRead(Top))
        /\ Continue
        /\ UNCHANGED <<mem, returnData>>
  /\ UNCHANGED <<code, jumpdests, gasLimit, storage>>

\* 0x55 SSTORE: pop key, pop value, State::set_storage_value (a no-op).
StorageWrite(key, value) == storage

SStore ==
  /\ Fetch("sstore")
  /\ gasUsed' = Charged
  /\ \/ /\ Underflow(2)
        /\ UNCHANGED storage
     \/ /\ Len(stack) >= 2
        /\ stack' = PopN(stack, 2)
        /\ storage' = StorageWrite(Top, Second)
        /\ Continue
        /\ UNCHANGED <<mem, returnData>>
  /\ UNCHANGED <<code, jumpdests, gasLimit>>

\* `dest_usize >= code.len() || !jumpdests[dest_usize]`
BadJumpdest(dest) == ~(dest < Len(code) /\ jumpdests[dest])

\* A taken jump: validate, set pc, return Ok(false), so the loop breaks.
TakeJump(dest) ==
  \/ /\ BadJumpdest(dest)
     /\ Fail("InvalidJumpdest")
     /\ UNCHANGED pc
  \/ /\ ~BadJumpdest(dest)
     /\ pc' = dest
     /\ Break

\* 0x56 JUMP
Jump ==
  /\ Fetch("jump")
  /\ gasUsed' = Charged
  /\ \/ Underflow(1)
     \/ /\ Len(stack) >= 1
        /\ stack' = PopN(stack, 1)
        /\ TakeJump(Top)
        /\ UNCHANGED <<mem, returnData>>
  /\ UNCHANGED <<code, jumpdests, gasLimit, storage>>

\* 0x57 JUMPI: pop dest, pop cond; jump when cond is not zero.
JumpI ==
  /\ Fetch("jumpi")
  /\ gasUsed' = Charged
  /\ \/ Underflow(2)
     \/ /\ Len(stack) >= 2
        /\ stack' = PopN(stack, 2)
        /\ IF Second # 0 THEN TakeJump(Top) ELSE Continue
        /\ UNCHANGED <<mem, returnData>>
  /\ UNCHANGED <<code, jumpdests, gasLimit, storage>>

\* 0x5b JUMPDEST: Ok(true).
JumpDest ==
  /\ Fetch("jumpdest")
  /\ gasUsed' = Charged
  /\ Continue
  /\ UNCHANGED <<code, jumpdests, stack, mem, gasLimit, returnData, storage>>

\* 0x60..0x7f PUSHn (matched by the raw byte): the operand must lie
\* inside the code, the value is pushed, pc skips the operand, then the
\* loop adds one more.
PushN ==
  /\ Fetch("push")
  /\ gasUsed' = Charged
  /\ LET n == Op - PUSH1 + 1 IN
       \/ /\ pc + n >= Len(code)
          /\ Fail("UnexpectedEOF")
          /\ UNCHANGED <<pc, stack>>
       \/ /\ pc + n < Len(code)
          /\ ~CanPush(stack)
          /\ Fail("DepthLimitExceeded")
          /\ UNCHANGED <<pc, stack>>
       \/ /\ pc + n < Len(code)
          /\ CanPush(stack)
          /\ stack' = Push(stack, PushValue(code, pc, n))
          /\ pc' = pc + n + 1
          /\ UNCHANGED <<status, err>>
  /\ UNCHANGED <<code, jumpdests, mem, gasLimit, returnData, storage>>

\* 0x80..0x8f DUPn: Stack::dup(op - DUP1).
DupOp ==
  /\ Fetch("dup")
  /\ gasUsed' = Charged
  /\ LET index == Op - DUP1 IN
       \/ /\ ~DupIndexOk(stack, index)
          /\ Fail("InvalidIndex")
          /\ UNCHANGED stack
       \/ /\ DupIndexOk(stack, index)
          /\ ~CanPush(stack)
          /\ Fail("DepthLimitExceeded")
          /\ UNCHANGED stack
       \/ /\ DupIndexOk(stack, index)
          /\ CanPush(stack)
          /\ stack' = Dup(stack, index)
          /\ UNCHANGED <<status, err>>
  /\ pc' = IF status' = "running" THEN pc + 1 ELSE pc
  /\ UNCHANGED <<code, jumpdests, mem, gasLimit, returnData, storage>>

\* 0x90..0x9f SWAPn: Stack::swap(op - SWAP1 + 1).
SwapOp ==
  /\ Fetch("swap")
  /\ gasUsed' = Charged
  /\ LET index == Op - SWAP1 + 1 IN
       \/ /\ ~SwapIndexOk(stack, index)
          /\ Fail("InvalidIndex")
          /\ UNCHANGED <<stack, pc>>
       \/ /\ SwapIndexOk(stack, index)
          /\ stack' = Swap(stack, index)
          /\ Continue
  /\ UNCHANGED <<code, jumpdests, mem, gasLimit, returnData, storage>>

\* 0xf3 RETURN: pop offset, pop size, expand, charge, copy the bytes out,
\* Ok(false).
Return ==
  /\ Fetch("return")
  /\ \/ /\ Underflow(2)
        /\ gasUsed' = Charged
     \/ /\ Len(stack) >= 2
        /\ stack' = PopN(stack, 2)
        /\ LET x == Expand(mem, Top, Second) IN
             /\ mem' = x.data
             /\ \/ /\ Charged + x.gas > gasLimit
                   /\ gasUsed' = Charged
                   /\ Fail("OutOfGas")
                   /\ UNCHANGED returnData
                \/ /\ Charged + x.gas <= gasLimit
                   /\ gasUsed' = Charged + x.gas
                   /\ returnData' = Load(x.data, Top, Second)
                   /\ Break
  /\ UNCHANGED <<code, jumpdests, pc, gasLimit, storage>>

\* Every other byte: the `_` arm, after the base gas was charged.
Invalid ==
  /\ Fetch("invalid")
  /\ gasUsed' = Charged
  /\ Fail("InvalidOpcode")
  /\ UNCHANGED <<code, jumpdests, pc, stack, mem, gasLimit, returnData, storage>>

\* execute has returned: nothing changes any more.
Terminated ==
  /\ status \in {"success", "failed"}
  /\ UNCHANGED vars

Next ==
  \/ EndOfCode \/ BaseOutOfGas \/ Stop \/ Binary \/ Unary \/ PopOp
  \/ MLoad \/ MStore \/ MStore8 \/ SLoad \/ SStore
  \/ Jump \/ JumpI \/ JumpDest \/ PushN \/ DupOp \/ SwapOp \/ Return
  \/ Invalid \/ Terminated

Spec == Init /\ [][Next]_vars

-----------------------------------------------------------------------------
(***************************************************************************)
(* Properties.                                                             *)
(***************************************************************************)

\* The offsets at which a straight-line decode of c starts an instruction:
\* from byte 0, each instruction is one byte plus the operand bytes of a
\* PUSHn.  A reference for the scan of analyze_jumpdests and for the pc
\* updates of the loop, written independently of both.
InstrStarts(c) ==
  LET chain[k \in 0..Len(c)] ==
        IF k = 0 THEN 0
        ELSE LET prev == chain[k - 1]
             IN IF prev >= Len(c) THEN prev
                ELSE prev + 1 + PushSize(c[prev + 1])
  IN {chain[k] : k \in 0..Len(c)} \cap 0..(Len(c) - 1)

\* Every variable holds a value of the type the Rust field has; the stack
\* never holds more than max_depth items.
TypeOK ==
  /\ code \in Seq(Byte)
  /\ jumpdests \in [0..(Len(code) - 1) -> BOOLEAN]
  /\ pc \in Nat
  /\ stack \in Seq(Value) /\ Len(stack) <= MaxDepth
  /\ mem \in Seq(Byte)
  /\ gasUsed \in Nat /\ gasLimit \in GasLimits
  /\ returnData \in Seq(Byte)
  /\ status \in Status /\ err \in Errors
  /\ (status = "failed") = (err # "none")
  /\ DOMAIN storage \subseteq Value
  /\ \A k \in DOMAIN storage : storage[k] \in Value

\* The gas counter of the executor never passes the limit of the context,
\* whatever sequence of base and memory-expansion charges the code makes
\* (use_gas is the only writer of gas_used).
GasWithinLimit == gasUsed <= gasLimit

\* Whenever the loop is about to fetch (or has stopped at) a byte, that byte
\* is the first byte of an instruction: the PUSH arm skips exactly its
\* operand, and a jump accepted by the jump-destination table never lands
\* inside the operand of a PUSH, even one whose value is 0x5b.
PcOnInstruction == pc < Len(code) => pc \in InstrStarts(code)

\* Unless the run has failed, all the memory the executor holds has been
\* paid for: the expansion charges of MLOAD, MSTORE, MSTORE8 and RETURN add
\* up to the cost 3w + w*w/512 of the current size in words, with nothing
\* lost when memory is expanded twice or by a span inside it.
MemoryCharged == status # "failed" => MemCost(Words(Len(mem))) <= gasUsed

(***************************************************************************)
(* Statements of the spec of the repository that the code does not meet;   *)
(* each is checked by a run expected to find it violated.                  *)
(***************************************************************************)

\* Spec 4.2 and 5: the expansion delta is charged before memory grows, so
\* a run never holds more memory than its gas limit pays for, not even
\* when it fails.  Executor::execute_opcode calls memory.expand before
\* use_gas in MLOAD, MSTORE, MSTORE8 and RETURN.
AllocationBoundedByGas == MemCost(Words(Len(mem))) <= gasLimit

\* Spec 5 and 8: a run ends successfully only at STOP, RETURN or the end of
\* the code; after a JUMP or a taken JUMPI execution resumes at the target.
\* In the code both arms return Ok(false), which breaks the loop.
HaltOnlyAtTerminal ==
  [][status = "running" /\ status' = "success"
       => pc >= Len(code) \/ Op \in {STOP, RETURN}]_vars

=============================================================================
