------------------------------- MODULE Ledger -------------------------------
(***************************************************************************)
(* The account ledger of the fairvm crate: MemoryStorage                   *)
(* (src/fairvm/src/storage/memory.rs) behind an Arc<RwLock<..>>, the State *)
(* handles that wrap it (src/fairvm/src/state.rs), EvmContext::transfer on *)
(* a State, and Evm::deploy_contract (src/fairvm/src/evm/mod.rs).          *)
(*                                                                         *)
(* transfer is synchronous and its callers are threads outside the tokio  *)
(* runtime (State's accessors use blocking_read and blocking_write, which  *)
(* panic inside it), each with a State handle of its own over one storage  *)
(* Arc, as FairVM::new builds two (lib.rs:85-94); deploy_contract is async *)
(* and runs on the runtime.  transfer takes &mut self, so the calls on one *)
(* handle never overlap; it takes no lock of its own, and each get_balance *)
(* and set_balance takes the storage lock by itself: the storage calls of  *)
(* threads on different handles interleave.  Each storage call is one     *)
(* step.  An account is abstracted to its balance.                         *)
(***************************************************************************)
EXTENDS Naturals, FiniteSets, Functions

CONSTANTS
  Addrs,        \* addresses
  Alloc,        \* the accounts storage holds at start: address -> balance
  Procs,        \* caller threads, each with its own State handle
  Transfers,    \* the calls transfer(from, to, value) a thread may make
  Deploys,      \* the calls deploy_contract(caller, value) a caller may make
  MaxOps        \* bound on the calls started

ASSUME LedgerAssumption ==
  /\ DOMAIN Alloc \subseteq Addrs /\ \A a \in DOMAIN Alloc : Alloc[a] \in Nat
  /\ IsFiniteSet(DOMAIN Alloc)
  /\ Transfers \subseteq [from : Addrs, to : Addrs, value : Nat]
  /\ Deploys \subseteq [caller : Addrs, value : Nat]
  /\ MaxOps \in Nat

VARIABLES
  store,      \* MemoryStorage.accounts: address -> balance
  hasStorage, \* the States were built with Some(storage)
  pc,         \* each thread's place in its current call
  loc,        \* each thread's arguments and the balances it has read
  ret,        \* each thread's last return value
  ops         \* calls started so far

vars == <<store, hasStorage, pc, loc, ret, ops>>

-----------------------------------------------------------------------------
(* State::get_balance: 0 without storage or account.                       *)
GetBalance(a) == IF hasStorage /\ a \in DOMAIN store THEN store[a] ELSE 0

(* State::set_balance: MemoryStorage::set_balance writes only an account   *)
(* that exists; without storage the Err is dropped by transfer.            *)
SetBalance(a, b) ==
  store' = IF hasStorage /\ a \in DOMAIN store
           THEN [store EXCEPT ![a] = b] ELSE store

NoLoc == [from |-> "none", to |-> "none", value |-> 0, fromBal |-> 0, toBal |-> 0]

Init ==
  /\ store = Alloc
  /\ hasStorage \in BOOLEAN
  /\ pc = [p \in Procs |-> "idle"]
  /\ loc = [p \in Procs |-> NoLoc]
  /\ ret = [p \in Procs |-> "none"]
  /\ ops = 0

\* Mutation of TransferBegin: the balance check is dropped.
TransferBeginNoCheck(p, t) ==
  /\ pc[p] = "idle" /\ ops < MaxOps
  /\ ops' = ops + 1
  /\ pc' = [pc EXCEPT ![p] = "readTo"]
  /\ loc' = [loc EXCEPT ![p] = [from |-> t.from, to |-> t.to, value |-> t.value,
                                fromBal |-> GetBalance(t.from), toBal |-> 0]]
  /\ UNCHANGED <<store, hasStorage, ret>>

(* transfer, first step: read the sender's balance; a balance below the    *)
(* value returns false at once.                                            *)
TransferBegin(p, t) ==
  /\ pc[p] = "idle" /\ ops < MaxOps
  /\ ops' = ops + 1
  /\ LET fb == GetBalance(t.from) IN
     \/ /\ fb < t.value
        /\ ret' = [ret EXCEPT ![p] = "false"]
        /\ UNCHANGED <<pc, loc>>
     \/ /\ fb >= t.value
        /\ pc' = [pc EXCEPT ![p] = "readTo"]
        /\ loc' = [loc EXCEPT ![p] = [from |-> t.from, to |-> t.to,
                                      value |-> t.value, fromBal |-> fb, toBal |-> 0]]
        /\ UNCHANGED ret
  /\ UNCHANGED <<store, hasStorage>>

\* Mutation of TransferReadTo: the sender's balance is read for the recipient.
TransferReadToFrom(p) ==
  /\ pc[p] = "readTo"
  /\ pc' = [pc EXCEPT ![p] = "writeFrom"]
  /\ loc' = [loc EXCEPT ![p].toBal = GetBalance(loc[p].from)]
  /\ UNCHANGED <<store, hasStorage, ret, ops>>

(* transfer: read the recipient's balance.                                 *)
TransferReadTo(p) ==
  /\ pc[p] = "readTo"
  /\ pc' = [pc EXCEPT ![p] = "writeFrom"]
  /\ loc' = [loc EXCEPT ![p].toBal = GetBalance(loc[p].to)]
  /\ UNCHANGED <<store, hasStorage, ret, ops>>

(* transfer: write from_balance - value, computed from the value read.     *)
TransferWriteFrom(p) ==
  /\ pc[p] = "writeFrom"
  /\ SetBalance(loc[p].from, loc[p].fromBal - loc[p].value)
  /\ pc' = [pc EXCEPT ![p] = "writeTo"]
  /\ UNCHANGED <<hasStorage, loc, ret, ops>>

(* transfer: write to_balance + value and return true.                     *)
TransferWriteTo(p) ==
  /\ pc[p] = "writeTo"
  /\ SetBalance(loc[p].to, loc[p].toBal + loc[p].value)
  /\ pc' = [pc EXCEPT ![p] = "idle"]
  /\ ret' = [ret EXCEPT ![p] = "true"]
  /\ UNCHANGED <<hasStorage, loc, ops>>

(* deploy_contract, polled by the tokio runtime.  With storage, get_nonce  *)
(* calls State::get_account, whose blocking_read panics inside the         *)
(* runtime: the task ends before any write.  Without storage the nonce is  *)
(* 0, the creation code runs (success or not), and on success             *)
(* State::set_account returns an Err that deploy_contract drops.  Either   *)
(* way storage is left as it was.                                          *)
DeployContract(p, d) ==
  /\ pc[p] = "idle" /\ ops < MaxOps
  /\ ops' = ops + 1
  /\ \/ hasStorage /\ ret' = [ret EXCEPT ![p] = "panic"]
     \/ ~hasStorage /\ \E r \in {"ok", "err"} : ret' = [ret EXCEPT ![p] = r]
  /\ UNCHANGED <<store, hasStorage, pc, loc>>

Next ==
  \E p \in Procs :
    \/ \E t \in Transfers : TransferBegin(p, t)
    \/ TransferReadTo(p)
    \/ TransferWriteFrom(p)
    \/ TransferWriteTo(p)
    \/ \E d \in Deploys : DeployContract(p, d)

Spec == Init /\ [][Next]_vars

-----------------------------------------------------------------------------
\* Sum of the balances storage holds.
Supply(st) == SumFunction(st)

\* Every variable has the type of its Rust field; in particular no balance
\* is negative, so no from_balance - value of transfer underflows (U256
\* subtraction panics on underflow).
TypeOK ==
  /\ DOMAIN store = DOMAIN Alloc
  /\ \A a \in DOMAIN store : store[a] \in Nat
  /\ hasStorage \in BOOLEAN
  /\ pc \in [Procs -> {"idle", "readTo", "writeFrom", "writeTo"}]
  /\ ret \in [Procs -> {"none", "true", "false", "ok", "err", "panic"}]
  /\ ops \in 0..MaxOps

\* transfer moves value and never creates or destroys it: whenever no
\* call is under way, the balances storage holds add up to the genesis
\* allocation.
BalancesConserved ==
  (\A p \in Procs : pc[p] = "idle") => Supply(store) = SumFunction(Alloc)

=============================================================================
