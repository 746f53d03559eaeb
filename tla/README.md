# TLA+ models of FairVM

This directory holds formal models of FairVM: TLA+ modules, TLC
configurations that model-check them on small instances, and TLAPS proofs
that hold for every instance. The models cover six parts of the repository:

1. the bytecode interpreter in `src/fairvm/src/evm/`, which `spec.md` names
   as the canonical one (`Executor`);
2. the second interpreter in `src/fair-vm-core/vm/`, whose loop and opcode
   arms differ (`CoreExecutor`);
3. the VM chain driver and blocks, `src/fairvm/src/vm/mod.rs` and
   `block/mod.rs` (`Chain`);
4. the account ledger: `MemoryStorage`, the `State` handles over it,
   `EvmContext::transfer` and `Evm::deploy_contract` (`Ledger`);
5. the node lifecycle, the consensus engine's start/stop and the event bus,
   `src/fairvm/src/lib.rs`, `consensus/basic.rs` and `event.rs`
   (`Lifecycle`);
6. the SDK wallet's transaction manager, `src/fairvm-sdk/src/wallet/`
   (`TxManager`).

Parts 1 and 2 are described first and in most detail, since the spec is
about them; the other parts follow in their own section.

## The system

`Evm::execute` (`evm/mod.rs`) builds an `Executor` (`evm/executor.rs`) and
runs it on one code buffer. The executor has these parts:

* **Run state.** It owns a `Stack` (`evm/stack.rs`: a `Vec<U256>` of at most
  `max_depth` = 1024 items) and a `Memory` (`evm/memory.rs`: a zero-filled
  byte buffer). It also holds `pc`, `gas_used`, `gas_limit` (taken from the
  `ExecutionContext`), `return_data`, and a shared `Arc<RwLock<State>>`.
* **Before the loop.** `execute` calls `analyze_jumpdests` once, which marks
  every `JUMPDEST` byte that is not inside a `PUSHn` operand.
* **The loop.** While `pc < code.len()`, `execute` fetches a byte and calls
  `execute_opcode`. That call does three things in order:
  1. It decodes the byte with `Opcode::from_u8`, a `transmute`.
  2. It charges the base cost with `use_gas(op.gas_cost())`.
  3. It runs the arm. The arm may pop and push the stack and grow memory
     (`Memory::expand` returns the marginal gas, which the arm then charges
     with `use_gas`). It may read or write storage through the `State`
     lock, and it may move `pc`.
* **How an arm ends.**
  * `Ok(true)`: the loop adds 1 to `pc`.
  * `Ok(false)`: the loop breaks and the run succeeds with `return_data`.
  * `Err(e)`: `execute` returns a failed result carrying `gas_used`.
  * When `pc` reaches the end of the code, the run also succeeds.
* **Storage.** SLOAD reads `EvmContext::get_storage`, which is implemented
  for `State` (`state.rs`) and always returns zero. SSTORE calls
  `State::set_storage_value`, whose body is empty.

A run is sequential: one task owns the executor (`&mut self`). The only
suspension points are the two `RwLock` awaits of SLOAD and SSTORE.

## Modules

| module | models | source |
|---|---|---|
| `Opcodes` | byte values of the dispatched variants, `gas_cost`, the bytes with a variant (`Assigned`), the arm each byte reaches (`Arms`, including the undefined behaviour of `from_u8`) | `opcodes.rs`, dispatch of `executor.rs` |
| `U256` | the word: `WordBytes` bytes (32 in the code), wrapping `overflowing_add/mul/sub`, DIV/MOD with zero divisor, AND/OR/XOR/NOT bit by bit, big-endian conversions, the PUSH accumulator | `executor.rs` arms, `memory.rs` |
| `EvmStack` | `push` (depth check), `pop`, `dup`, `swap` on a sequence whose last element is the top | `stack.rs` |
| `EvmMemory` | `expand` (new size, buffer growth, marginal gas `3*(nw-ow) + nw²/512 - ow²/512`), `store`, `store32`, `load`, `load32` | `memory.rs` |
| `Executor` | the state of one run as VARIABLES, `Init` (= `Executor::new` + `analyze_jumpdests`), one action per arm of `execute_opcode` plus end of code and base out-of-gas, the properties | `executor.rs`, `state.rs` |
| `MCExecutor` | enumerates every code buffer up to a length over a small alphabet, for TLC | — |
| `EvmLemmas` | TLAPS lemmas about `U256`, `EvmStack` and `EvmMemory` | — |
| `ExecutorProofs` | the inductive invariant of `Executor` and its proof; the proof that `pc` stays on an instruction | — |
| `NatLemmas` | the least-number principle for a set of naturals | — |
| `CoreExecutor` | the `fair-vm-core` interpreter: `Executor::new`, `analyze_jumpdests`, `use_gas`, the loop and every arm of its `execute_opcode` (its stack and memory are `EvmStack` and `EvmMemory`, whose code is the same) | `fair-vm-core/vm/executor.rs` |
| `MCCoreExecutor` | every code buffer up to a length over an alphabet, for TLC | — |
| `CoreExecutorProofs` | the inductive invariant of `CoreExecutor`, the gas bound and the jump-destination action property | — |
| `Chain` | `VM::new`, `initialize_from_genesis`, `submit_transaction` (with `Transaction::validate`), `create_block` (with `Block::new_with_fees` and `calculate_next_base_fee`) | `vm/mod.rs`, `block/mod.rs`, `fair-vm/src/transaction/mod.rs` |
| `MCChain`, `ChainProofs` | two genesis files and three transactions for TLC; the proofs of `TypeOK`, that the base fee stays positive and that submissions are accounted for | — |
| `Ledger` | `MemoryStorage` behind its lock, one `State` handle per caller thread over it, each storage call of `transfer` as a step of its own, and `deploy_contract` as one step | `state.rs`, `storage/memory.rs`, `evm/mod.rs`, `lib.rs` |
| `MCLedger` | two addresses, one or two caller threads, the call sets of the runs | — |
| `LedgerProofs` | the proof of `TypeOK` | — |
| `Lifecycle` | `FairVM::new`, `set_consensus`, `start`, `stop`, `publish_event`, the handler list, and each spawned recv loop as a task of its own | `lib.rs`, `consensus/basic.rs`, `event.rs` |
| `MCLifecycle`, `LifecycleProofs` | two handlers and at most two list entries for TLC; the proofs of `TypeOK` and that a running node's engine is initialized | — |
| `TxManager` | `TransactionManager::new`, `add_transaction` (with eviction of the oldest), `update_transaction_status`, `cleanup_confirmed_transactions`, and the `FairWallet` methods that use them | `wallet/transaction.rs`, `wallet/mod.rs` |
| `MCTxManager` | three hashes for TLC | — |
| `TxManagerProofs` | the proof of `SizeBounded` | — |

### How `Executor` corresponds to the code

* **Variables.** `code`, `jumpdests`, `pc`, `stack`, `mem`, `gasUsed`,
  `gasLimit` and `returnData` are the fields and locals of `execute`.
  `status` ∈ {running, success, failed} together with `err` is the
  `ExecutionResult` once one is returned. `storage` is the executor's view of
  the written slots.
* **Fetching and charging.** Every arm action starts with `Fetch(arm)`: the
  run is running, `pc < Len(code)`, the byte decodes to `arm`, and the base
  charge fits the limit. A failing base charge is the separate action
  `BaseOutOfGas`.
* **How an arm ends.** It ends with `Continue` (`Ok(true)`, which adds 1 to
  `pc`), `Break` (`Ok(false)`) or `Fail(e)` (`Err(e)`).
* **Popping.** A chain of `pop()?` that runs out is `Underflow(k)`. It empties
  the stack, because each pop before the failing one has already removed its
  item.
* **The memory arms.** They follow the order of the code:
  1. pop the operands;
  2. `Expand`, which grows the buffer;
  3. charge the expansion, and if that fails the buffer stays grown;
  4. do the access.
* **MSTORE and MSTORE8** share `StoreArm(arm, wordBytes)`.
* **Jumps.** `TakeJump` validates the destination and sets `pc`. A successful
  jump returns `Ok(false)`, as the code does, so the run ends.
* **Bytes with no Opcode variant.** `from_u8` transmutes them, which is
  undefined behaviour. `Arms(b)` lets such a byte reach either the raw-byte
  range arm its value falls in (PUSHn/DUPn/SWAPn) or the `_` fallback
  (`InvalidOpcode`). These are the two outcomes a build can produce.
* **After the run.** `Terminated` stutters once a result has been returned.

### How `CoreExecutor` corresponds to the code

The `fair-vm-core` interpreter has the same fetch, charge and dispatch as
`Executor`, but different arms. `CoreExecutor` has the same variables plus
`isStatic` (from the context). Its actions are:

* `EndOfCode`, `Undecodable` (a byte with no variant: the loop fails
  before charging), `BaseOutOfGas`. The core crate's `Opcode` type is not
  under `src/`; the loop's `from_u8(opcode).ok_or(...)`
  (`fair-vm-core/vm/executor.rs:167`) implies that its `from_u8` returns an
  `Option`, and the model assumes `None` for a byte with no variant. This
  is unlike fairvm's `from_u8`, which transmutes every byte (see `Arms`);
* `Stop`, `Binary` (ADD … BYTE), `Unary` (ISZERO, NOT), `PopOp`;
* `MLoad` (`load32`, which does not grow memory), `MStore` (`store32`,
  which grows memory and charges nothing), `SLoad`, `SStore` (WriteProtection
  first when static);
* `Jump`, `JumpI` (through `JumpTo` and `ValidDest`: in range and marked by
  the jump analysis). A successful jump sets `pc` and the loop goes on
  without adding 1;
* `PushInfo` (PC, MSIZE and GAS push a number, `gas_limit - gas_used` for
  GAS), `JumpDest`, `Return`, `Revert` (sets the return data and returns
  `Ok(false)` without moving `pc`);
* `NoArm`: a byte with a variant but no arm (PUSH, DUP, SWAP, MSTORE8 …)
  fails with InvalidOpcode after its base charge.

The loop breaks only on STOP and RETURN, which is why `Revert` leaves the
run running.

## The other components

* **`Chain`.** Variables: the genesis, `current_base_fee`, `current_block`,
  the pool, the history of blocks `create_block` made current, whether storage is present,
  the last result, and a history of accepted submissions. Each public method
  takes `&mut self` behind the VM's lock, so each is one action. `CreateBlock`
  is the whole method: build the block from the whole pool, store it, clear
  the pool, then update the base fee with `calculate_next_base_fee` when
  EIP-1559 is on and the number is above 0, panicking when a divisor is 0.
  The panic comes after the block was made current and the pool cleared,
  so the block is in the history although the call returns nothing.
* **`Ledger`.** `FairVM::new` builds two `State` objects over one storage
  `Arc` (`lib.rs:84-94`), and a client can build more with `State::new`.
  `State`'s accessors use `blocking_read` and `blocking_write`, which panic
  on a tokio runtime thread, so `transfer` (synchronous, `&mut self`) is
  called from threads outside the runtime, each on a handle of its own.
  `transfer` takes no lock: each `get_balance`/`set_balance` locks the
  storage by itself. So `transfer` is four steps (`TransferBegin` reads the
  sender and returns `false` when its balance is too small,
  `TransferReadTo`, `TransferWriteFrom`, `TransferWriteTo`), and the steps
  of two threads interleave. An account is reduced to its balance;
  `GetBalance` and `SetBalance` are the `State` and `MemoryStorage`
  methods, 0 and a dropped `Err` without storage, and a write to an
  address with no account is ignored.

  `DeployContract` is the whole of `deploy_contract`, which is async and
  runs on the runtime. With storage, its first call, `get_nonce`, reaches
  `State::get_account`, whose `blocking_read` panics there: the task ends
  before it writes anything. Without storage the nonce is 0, the creation
  code runs and succeeds or fails, and on success `set_account` returns an
  `Err` that is dropped. Either way storage is unchanged, which is what the
  action says; the caller sees a panic, `Ok` or `Err`.
* **`Lifecycle`.** Variables: `is_running`, whether an engine is set and
  whether its state is `Some`, the handler list, the channel's tail, the
  spawned loops (each with its handler snapshot, next position and whether
  it is alive). `AddHandler` is `Vec::push`, duplicates included; the list
  is bounded by `MaxHandlers` so that the state space is finite. `Start` is
  the whole of `FairVM::start`: spawn a loop, then the engine's `start`, then
  publish the Consensus event, then set `is_running`. `LoopRecv(l)` is one
  turn of loop `l`: a `Lagged` error ends it, otherwise it moves to the next
  position. The handlers it calls are client code and are not modelled.
* **`TxManager`.** The map from hash to status and timestamp, the clock, and
  a history of entries evicted before they were confirmed.
  `AddTransaction` evicts one oldest entry (any of several with the same
  timestamp, since HashMap order is unspecified) when the map holds at least
  `max_size` entries, then inserts.

## Runs

The two interpreters are checked with 1-byte words (`WordBytes = 1`), so
wrap-around and byte truncation happen with small numbers, and a stack of
depth 2. `Codes` is every sequence of bytes up to a length over a small
alphabet, so a run explores every program of that shape from its first step
and not a handful of tests. Each passing interpreter run takes several such
families, and its initial states (`MCInit`) pair each family with the gas
limits that cut its charges at different points. The violation runs take one
family (`Alphabet`, `CodeLen`). The runs of the other components use small
sets of model values.

| run | cfg | expect | checks |
|---|---|---|---|
| executor | `MCExecutor.cfg` | pass | `TypeOK`, `GasWithinLimit`, `MemoryCharged`, `PcOnInstruction` over three families: (1) ADD, SUB, NOT, POP, SLOAD, SSTORE, PUSH1, DUP1, SWAP1, INVALID, SELFDESTRUCT and the unassigned bytes 12, 98 (PUSH range) and 130 (DUP range), length ≤ 4, limits 7 and 30000 (SSTORE costs 20000); (2) MLOAD, MSTORE, MSTORE8, RETURN, PUSH1, STOP, ADD and SHA3 (which falls to the `_` arm), length ≤ 5, limits 5, 9, 12, 40; (3) SDIV, JUMP, JUMPI, JUMPDEST, PUSH1, length ≤ 6, limit 100 |
| alloc_before_gas | `MCExecutorAlloc.cfg` | violation | `AllocationBoundedByGas` |
| jump_halts | `MCExecutorJump.cfg` | violation | `HaltOnlyAtTerminal` |
| core | `MCCoreExecutor.cfg` | pass | `GasWithinLimit`, `JumpLandsOnJumpdest`, `Terminates` (under weak fairness) over two families: (1) ADD, JUMP, JUMPI, PC, MSIZE, JUMPDEST, REVERT, length ≤ 5, limits 14 and 40; (2) STOP, the unassigned byte 12, ISZERO, NOT, POP, MLOAD, MSTORE, SLOAD, SSTORE, MSIZE, GAS, PUSH1 (no arm in the core) and RETURN, length ≤ 4, limits 30 and 20300, static and not |
| chain | `MCChain.cfg` | pass | `TypeOK`, `SubmissionsAccounted`, `BaseFeePositive`: two EIP-1559 genesis files (denominator 1 and minimum price 2; denominator 2 and minimum price 1; target 2, block limit 3), two legacy transactions and one EIP-1559 transaction with prices around the minimum, two accepted submissions each, two blocks |
| ledger | `MCLedger.cfg` | pass | `TypeOK`, `BalancesConserved`: one caller thread, up to four calls among transfers a1→a2 and a2→a1 of 1, an underfunded a1→a2 of 3, and a deployment, with and without storage |
| ledger_self | `MCLedgerSelf.cfg` | violation | `BalancesConserved` with a transfer from a1 to a1 |
| ledger_race | `MCLedgerRace.cfg` | violation | `BalancesConserved` with two threads, each on its own handle, both transferring a1→a2 |
| lifecycle | `MCLifecycle.cfg` | pass | `TypeOK`, `RunningImpliesEngineInitialized`: two handlers, at most two list entries, two starts, one client publish, capacity 3 |
| lifecycle_lagged | `MCLifecycleLagged.cfg` | violation | `EventuallyReceived` with capacity 1 and two publishes |
| txmanager | `MCTxManager.cfg` | pass | `SizeBounded`: three hashes, `max_size` 2, three clock values |
| txmanager_evict | `MCTxManagerEvict.cfg` | violation | `UnconfirmedNeverDropped` with `max_size` 0 (a wallet made with nonce 0) |

### The properties that pass

* `TypeOK`:
  * the stack holds words and is never deeper than `MaxDepth`;
  * memory and return data are bytes;
  * `jumpdests` is a Boolean vector over the code;
  * `status = "failed"` exactly when an error is recorded.

  It is broken if the depth check of `push` is off by one.
* `GasWithinLimit`: `gas_used ≤ gas_limit` in every state, in particular in
  the result of a failed run. It is broken if `use_gas` compares the amount
  alone with the limit.
* `MemoryCharged`: while a run has not failed, `gas_used` is at least
  `MemCost(words(len(mem)))`, that is 3w + w²/512 for w words. So every byte
  of memory has been paid for. It is broken if `expand` reads the old size
  after overwriting it, which makes every expansion free.
* `PcOnInstruction`: `pc`, when inside the code, is the start of an
  instruction of the straight-line decode. It is compared with `InstrStarts`,
  an independent reference chain. The property needs `analyze_jumpdests` to
  skip PUSH operands, and PUSHn and the loop to advance `pc` correctly. It is
  broken if the scan does not skip operands.

* `GasWithinLimit` of `CoreExecutor`: the same bound for the core
  interpreter. It matters more there: the GAS arm pushes
  `gas_limit - gas_used`, a u64 subtraction that would underflow. It is
  broken if `use_gas` compares the amount alone.
* `JumpLandsOnJumpdest` (an action property): every step of a running run
  that moves `pc` other than to itself or the next byte lands inside the code
  on a JUMPDEST byte. It is broken if the destination check of JUMP/JUMPI
  tests only the code length.
* `Terminates` (liveness): every core run ends. The loop only ends at STOP,
  RETURN, an error or the end of code, and a jump can go backwards, so this needs
  every loop back to pay gas. It is broken if REVERT peeks instead of
  popping, because the re-executed REVERT then never underflows.
* `SubmissionsAccounted`: every accepted submission of a transaction is in
  the pool or in exactly one block `create_block` returned. It is broken if
  `create_block` does not clear the pool.
* `BaseFeePositive`: the base fee never drops to zero (unless the genesis
  minimum price is 0 and nothing has changed it). It is broken if
  `calculate_next_base_fee` drops its floor of 1.
* `BalancesConserved`: whenever no transfer is under way, the balances add
  up to the genesis allocation. The passing run has one caller thread and
  transfers between distinct funded accounts; the two violation runs show
  how the code breaks it otherwise. It is broken if `transfer` reads the
  sender's balance for the recipient.
* `RunningImpliesEngineInitialized`: broken if BasicConsensus::start does
  not check its state.
* `SizeBounded`: the manager never holds more than `max_size` entries (one,
  when `max_size` is 0). It is broken if the eviction test is `>`.
* The `TypeOK` of `Chain`, `Ledger` and `Lifecycle` are broken by a
  swapped-argument fee update (which makes the fee negative), a dropped
  balance check (which makes a balance negative) and a loop that skips a
  position.

Each of these properties has a mutant in `PROJECT.json`: a plausible bug written as
an operator next to the definition it replaces, which TLC finds.

### The violations (findings)

1. **Memory is allocated before it is paid for** (`executor.rs:274` and the
   other memory arms; `alloc_before_gas`). `expand` resizes the buffer before
   `use_gas` checks the charge. TLC's trace: `PUSH1 82 PUSH1 82 RETURN` under
   a limit of 9 fails with OutOfGas, yet has grown memory to 164 bytes. With
   32-byte words one large offset forces an allocation no gas limit pays
   for. Spec §4.2 and §5 make gas the only admission control.
2. **A successful jump ends the run** (`executor.rs:366`, `:383`;
   `jump_halts`). JUMP and a taken JUMPI return `Ok(false)`, and `execute`
   treats that as a halt with success. Spec §8 says execution resumes at the
   destination.
3. **A self-transfer mints value** (`state.rs:278`; `ledger_self`).
   `transfer` reads the recipient's balance before it debits the sender.
4. **Two State handles lose updates** (`state.rs:271`; `ledger_race`). `transfer`
   holds no lock across its calls, and each storage call locks the storage
   by itself: two threads, each on its own handle, both read the sender's
   balance before either writes, and one debit is lost.
5. **One lag ends event delivery for good** (`event.rs:143`;
   `lifecycle_lagged`). The loop stops at the first `RecvError::Lagged`.
   The run checks `EventuallyReceived`: under fair scheduling of the loops,
   each loop eventually receives every message sent after it subscribed.
6. **A pending transaction can be evicted** (`wallet/mod.rs:584`;
   `txmanager_evict`). `FairWallet::new` makes the account nonce the
   manager's `max_size`, and eviction ignores the status: a fresh account
   (nonce 0) drops a pending transaction on the next add.

**Other disagreements in the code** met while writing the models. The models
reach them, but no run of this project checks them:

* SSTORE writes nothing (`state.rs:237`), against spec §6.
* `from_u8` transmutes an unassigned byte (`opcodes.rs:210`), which can then
  run as PUSH3; spec §4.3 asks for InvalidOpcode.
* RETURN pops the offset first (`executor.rs:427`), so spec §8 scenario 1
  returns no data.
* The core interpreter's REVERT re-executes until the stack underflows
  (`fair-vm-core/vm/executor.rs:416`), and its MSTORE grows memory without
  a charge (`:318`).
* `create_block` packs the whole pool whatever its gas (`vm/mod.rs:229`),
  and divides by a zero `base_fee_change_denominator` that `parse_genesis`
  accepts (`block/mod.rs:130`).
* `transfer` to an address with no account debits the sender and credits
  nobody (`storage/memory.rs:36`).
* `deploy_contract` with storage panics at its first storage read
  (`state.rs:114`, `blocking_read` on the runtime), so it never deploys; it
  would also never increment the caller's nonce (`evm/mod.rs:107`).
* Each `start` spawns one more event loop and `stop` ends none
  (`event.rs:138`), so after a restart handlers see each event twice.
* `get_current_nonce` counts stored transactions (`wallet/mod.rs:632`), so it
  goes down after `cleanup_confirmed_transactions`.

### Bounds

* A 1-byte word keeps `Value` at 256 elements while still reaching
  wrap-around (`255 + 1`), the all-ones NOT, and MSTORE8 truncation.
* A stack depth of 2 (3 in the violation runs) reaches both the underflow
  and the depth-limit paths with codes of 4–6 bytes.
* The code lengths are the largest that keep each run within a few minutes
  (the `executor` run takes about two).
  They are enough for every arm to be reached from every prefix, for a PUSH
  to end in the middle of a later opcode, and for a taken and a not-taken
  JUMPI, valid and invalid destinations, and a JUMPDEST byte inside a PUSH
  operand.
* Each gas limit of the memory family is chosen to cut a different
  expansion.
* The core run: the control family's limits 14 and 40 let a backward jump
  loop run out of gas after a few and after several turns; the data family's
  20300 pays one SSTORE and 30 does not.
* `Chain`: two blocks are the fewest in which the fee update runs (it skips
  block 0); the transaction gas limits add up past the block limit of 3.
* `Ledger`: four calls give every order of a funded, a returned-false and
  a reversed transfer and a deployment; two addresses give a sender and a
  recipient. The race needs only two calls, one per thread.
* `Lifecycle`: two starts are the fewest for a restart; capacity 3 is more
  than the messages two starts and one publish send, and capacity 1 with
  two publishes gives a lag.
* `TxManager`: three hashes with `max_size` 2 reach eviction, and three
  clock values give both equal and distinct timestamps.

### Fairness

* `Executor`: none. Every step either increases `pc` or ends the run, and
  every jump ends the run, so termination holds by the structure of the
  code. Deadlock is checked: once a run has returned, `Terminated` stutters.
* `CoreExecutor`: `FairSpec` (and `MCFairSpec`, its form with the run's
  initial states) adds weak fairness of `Next`. A run is one
  task that loops without awaiting except at the storage lock, so while it
  is running its next step is always taken. The configurations say
  `CHECK_DEADLOCK FALSE`, since `execute` returns and the run stops.
* `Ledger`: none; no liveness is checked. The runs say
  `CHECK_DEADLOCK FALSE` because the system goes idle once `MaxOps` calls
  have been made.
* `Lifecycle`: the passing run checks safety only. The violation run
  `lifecycle_lagged` uses `FairSpec`, weak fairness of each spawned loop's
  turn (a loop whose receiver has a message is a ready tokio task), so that
  the lost events are not explained by a loop that is never scheduled.
  Deadlock is checked; `set_consensus` is always possible.
* `Chain` and `TxManager` check no liveness and assume no fairness.

## Proofs (TLAPS)

`ExecutorProofs` proves, for every code set, gas-limit set, `WordBytes` in
1..32 and `MaxDepth ≥ 1`:

* `Invariance`: `Spec => []IInv`, where
  `IInv == TypeOK /\ GasWithinLimit /\ MemoryCharged`;
* `TypeCorrect`, `GasBounded` and `MemoryPaid`: `Spec => []TypeOK`,
  `[]GasWithinLimit` and `[]MemoryCharged`. The runs check the same three
  properties on small instances.

**Why the conjunction.** None of the three properties is inductive alone.

* TypeOK needs MemoryCharged and the gas bound to know that a memory arm
  leaves a byte buffer.
* MemoryCharged needs TypeOK to know that offsets are numbers and that
  `gas_used` only grows.

**The argument.** `EvmLemmas!ExpandCharge` shows that the gas `expand`
returns is exactly `MemCost(words(new)) − MemCost(words(old))`. It proves
this for the code's formula, which returns 0 when the word count does not
grow. So the expansion charges add up to the cost of the current size, while
base charges only add to `gas_used`.

**Structure.** There is one lemma per action (`BinaryStep`, `MLoadStep`,
`StoreArmStep`, …). They rest on shared lemmas:

* `FetchFacts`, `GasStep`, `ChargedStep`, `ExpandGasStep` and `FailGasStep`
  for the gas;
* `TypeStep`, `UnderflowFacts`, `PopFacts` and `TakeJumpFacts` for the
  types.

`NextIInv` combines them by cases of `Next`.

**Assumptions.** They are named and stated where the constants are declared:

* `WordBytesAssumption`;
* `MaxDepthAssumption`;
* `CodesAssumption` (codes are byte sequences);
* `GasLimitsAssumption` (limits are naturals);
* `WordAssumption`: `256^WordBytes` is a natural of at least 256. This is a
  fact of arithmetic that the provers cannot derive, because they have no
  theory of exponentiation.

**Recursive functions.** The word operations (`BitwiseOp`, `FromBytes32`,
`PushValue`) are recursive functions, which the provers cannot evaluate.
Their results are wrapped in `AsWord`, which returns the value when it is a
word and 0 otherwise. Every loop step stays in range, so the guard never
changes a value; it only lets a proof know the result is a word without
following the recursion.

`PcAlwaysOnInstruction`: `Spec => []PcOnInstruction`. `PcOnInstruction`
is not inductive: a jump may land anywhere the table marks, so the proof
needs to know what the table is. The inductive invariant is
`IInv /\ PcInv`, where `PcInv` says two things:

* `jumpdests` is `AnalyzeJumpdests(code)`, the scan of the current code;
* `pc` is a value of `Decode(code)`, the chain of instruction starts that
  `InstrStarts` computes (0, then each start plus one plus its PUSH size).

The argument has three parts.

* `DecodeDef` and `VisitedDef` unfold the two recursive functions, by
  `FiniteNatInductiveDef` and by `WFInductiveDef` with `NatLess`.
* `VisitedDecoded`: every offset the scan marks is on the chain. Suppose
  not, and take the least offset that is a counterexample
  (`NatLemmas!LeastNat`). The scan reached it from the offset before, which
  is on the chain, so the chain reaches it too (`DecodeStep`).
* `NextPcMove`: every action leaves `pc`, moves it past the instruction and
  its PUSH operand, or jumps to a marked offset. Each of these stays on
  the chain.

**Left to TLC.**
* The violated properties.
* Anything about liveness.

### The other proof modules

* **`CoreExecutorProofs`.** It proves three theorems for every code set,
  gas-limit set, static flags, `WordBytes` and `MaxDepth`:
  * `CoreInvariance`: `Spec => []CInv`;
  * `CoreGasBounded`: `Spec => []GasWithinLimit`;
  * `JumpsLandOnJumpdests`: `Spec => JumpLandsOnJumpdest`.

  `CInv` holds the types of the variables, `GasWithinLimit`, and the fact
  that `jumpdests` is the analysis of the current code
  (`jumpdests = CoreJumpdests(code)`). The gas bound needs the types, since
  the charge must be a natural number. The action property needs the
  analysis conjunct: `ValidDest` tests the table, and `ValidDestLands`
  shows that a marked position holds a JUMPDEST byte. `NextLands` proves
  the step property for each action: jumps go through `JumpToLands`, and
  every other action moves `pc` to itself or the next byte, or ends the
  run. The temporal theorem combines `[]CInv` with `NextLands` by PTL.
* **`ChainProofs`.** `BaseFeeAlwaysPositive`: `Spec => []BaseFeePositive`,
  from the inductive `FeeInv` (the genesis is one of `Genesises`, the fee
  is a natural, and `BaseFeePositive`). Its main lemma, `NextBaseFeeFloor`,
  shows that the fee update returns a natural that is at least 1, or the
  block's own fee when it is unchanged. It rests on `GenesisesAssumption`.

  `ChainTypeCorrect`: `Spec => []TypeOK`. TypeOK is inductive as it stands:
  `initialize_from_genesis` writes only the alloc's addresses, which are
  `Addrs` by `GenesisesAssumption`. `submit_transaction` appends a member of
  `Txs`. `create_block`'s new fee is a natural by `NextBaseFeeFloor`.

  `SubmissionsAlwaysAccounted`: `Spec => []SubmissionsAccounted`, from
  `AccInv`. `AccInv` is TypeOK, the fact that the blocks form a sequence of
  blocks, and the property. With those types the property is inductive.
  * `submit_transaction` raises `accepted[t]` and the count of `t` in the
    pool by one (`CountAppend`).
  * `create_block` moves the pool into a new block. `InBlocksAppend`
    shows that the count over the blocks grows by that block's count.
  * `initialize_from_genesis` changes neither the pool nor the blocks.

  `InBlocks` is the last value of the recursive function `CountsUpTo`.
  `CountsUpToDef` unfolds it by `FiniteNatInductiveDef`.
  `CountsUpToPrefix` shows that a longer history agrees with a shorter
  one on the shorter one's indices, by a least counterexample.
* **`LifecycleProofs`.** `EngineInitializedWhileRunning`:
  `Spec => []RunningImpliesEngineInitialized`, from `EngineInv` (the three
  flags are Booleans, and the property). It is inductive: `Start` refuses
  an engine whose state is None, `Stop` clears the state and `is_running`
  together, and `SetConsensus` is refused while running.

  `LifecycleTypeCorrect`: `Spec => []TypeOK`, from `TypeInv`. `TypeInv` is
  TypeOK plus the fact that the loops form a sequence of loop records,
  which `Append` in `Start` needs. The hard part is
  the bound on each loop's next position, `1..sent + 1`. `publish_event`
  raises `sent`, so the bound only widens. A loop receives only when
  `next ≤ sent`. It then moves one past that position, or, on `Lagged`,
  ends.
  `Start` adds a loop at `sent + 1`. There is one lemma per action, and
  `SequenceTheorems` supplies the facts about `Append` and `EXCEPT` on
  sequences.
* **`TxManagerProofs`.** `SizeAlwaysBounded`: `Spec => []SizeBounded`.
  The inductive invariant `SizeInv` is `SizeBounded` plus the finiteness of
  the map's keys, without which the cardinality means nothing. `Insert` is
  `HashMap::insert` as a function over the old keys and the new one.
  `add_transaction` on a full map evicts a key that is present, then
  inserts, so the count does not grow (`FS_RemoveElement`,
  `FS_AddElement`). On a map with room it grows by at most one. Clean-up
  keeps a subset (`FS_Subset`), and the other methods keep the keys.
* **`LedgerProofs`.** `LedgerTypeCorrect`: `Spec => []TypeOK`, for every
  allocation, set of caller threads and calls, with their storage calls
  interleaved in any order. The inductive invariant `LedgerInv` adds to
  TypeOK that each thread's call state is a typed record and `CallInv`: a
  transfer past its check, before its debit, has `value ≤ from_balance`.
  `CallInv` is what makes `from_balance - value` a natural at the debit,
  even when another thread has changed the sender since the read (U256
  subtraction would panic). There is one lemma per action; `OtherCalls`
  states that a step of one thread keeps `CallInv` of the others.

  Balance conservation is not proved. It holds only for one caller,
  distinct and funded accounts, and a theorem assuming all of that would
  rule out every way the code breaks it; it stays a TLC check of that
  case, beside the two runs that break it.

**Left to TLC** in these components:
* `Terminates`, which needs fairness and ENABLED.
* `BalancesConserved` for one caller thread.

**Induction over data.** The library's induction theorems take an
operator parameter (`NEW P(_)`), and no installed prover instantiates one.
The proofs about `CountsUpTo`, `Decode` and `Visited`
avoid these theorems in two ways:
* the equation of each recursive function comes from
  `FiniteNatInductiveDef` or `WFInductiveDef`, whose parameters are
  instantiated in a `DEFINE` and then hidden;
* a fact "for every index" is proved by contradiction. Collect the
  counterexamples as a set, take the least of them with `LeastNat` (a lemma
  about a set, not a predicate), and show that the one before it is also a
  counterexample.

## Not modelled

* **The creation code run by `deploy_contract`**: `Ledger` treats the run
  as succeeding or failing; neither changes storage.
* **Precompiled contracts**: pure hash functions, which are not computable by
  TLC. The executor never calls them.
* **Account code, storage slots and the RocksDB backend**: no modelled
  operation branches on them.
* **Transaction execution, receipts, hashes and signatures** in the chain
  driver: hashes are not computable by TLC. A transaction is a record of the
  fields `submit_transaction` reads.
* **BasicConsensus internals** (validators, heights, proposals): reduced to
  whether its state is `Some`.
* **NFT and genesis parsing, the API, CLI, signing and hardware wallets, and
  `timestampvm`**: data types, serialisation and I/O.
* **Overflow of `gas_used + amount`** (u64), the panic of `as_usize` on
  words wider than `usize`, and the U256 overflow of `to_balance + value` in
  `transfer`: each needs 64- or 256-bit quantities that no TLC run reaches.
  They are listed as hazards in `PROJECT.json`.
* **The `RwLock` awaits of SLOAD and SSTORE** are atomic steps: storage
  reads return zero and writes are dropped, so no interleaving can change
  what a run sees.
