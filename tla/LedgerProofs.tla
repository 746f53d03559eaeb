----------------------------- MODULE LedgerProofs ----------------------------
(***************************************************************************)
(* Proof, for every allocation, set of caller threads and set of calls,    *)
(* that storage only ever holds natural balances (TypeOK): transfer's      *)
(* from_balance - value never underflows, even when threads on different   *)
(* State handles interleave their storage calls and a thread writes a      *)
(* sender balance it read before another thread changed it.                *)
(***************************************************************************)
EXTENDS Ledger, TLAPS

\* The arguments a thread carries and the balances it has read.
LocRec == [from : Addrs \cup {"none"}, to : Addrs \cup {"none"},
           value : Nat, fromBal : Nat, toBal : Nat]

\* What a transfer under way has established: it read a sender balance no
\* smaller than the value it moves (the check of its first step).
CallInv(p) == pc[p] \in {"readTo", "writeFrom"} => loc[p].value <= loc[p].fromBal

\* TypeOK, with each thread's call state.
LedgerInv ==
  /\ TypeOK
  /\ loc \in [Procs -> LocRec]
  /\ \A p \in Procs : CallInv(p)

-----------------------------------------------------------------------------
\* The values of the calls' states TypeOK allows.
PcVals == {"idle", "readTo", "writeFrom", "writeTo"}
RetVals == {"none", "true", "false", "ok", "err", "panic"}

\* State::get_balance returns a natural from a typed storage.
LEMMA GetBalanceNat ==
  ASSUME TypeOK, NEW a
  PROVE  GetBalance(a) \in Nat
BY DEF TypeOK, GetBalance

\* State::set_balance with a natural balance keeps storage typed: it
\* rewrites the balance of an account that exists, and adds none.
LEMMA SetBalanceTyped ==
  ASSUME TypeOK, NEW a, NEW v \in Nat, SetBalance(a, v)
  PROVE  /\ DOMAIN store' = DOMAIN Alloc
         /\ \A x \in DOMAIN store' : store'[x] \in Nat
BY DEF TypeOK, SetBalance

\* A step that leaves the call state of every thread but p alone keeps
\* their CallInv.
LEMMA OtherCalls ==
  ASSUME LedgerInv, NEW p \in Procs,
         \A q \in Procs \ {p} : pc'[q] = pc[q] /\ loc'[q] = loc[q]
  PROVE  \A q \in Procs \ {p} : CallInv(q)'
BY DEF LedgerInv, CallInv

LEMMA InitLedgerInv == Init => LedgerInv
<1> SUFFICES ASSUME Init PROVE LedgerInv
  OBVIOUS
<1>1. NoLoc \in LocRec
  BY DEF NoLoc, LocRec
<1>2. loc \in [Procs -> LocRec] /\ \A p \in Procs : CallInv(p)
  BY <1>1 DEF Init, CallInv
<1>3. TypeOK
  BY LedgerAssumption DEF Init, TypeOK
<1>. QED
  BY <1>2, <1>3 DEF LedgerInv

\* transfer's first step: the balance check passes only a sender balance
\* no smaller than the value, and that balance is what the thread keeps.
LEMMA TransferBeginInv ==
  ASSUME LedgerInv, NEW p \in Procs, NEW t \in Transfers, TransferBegin(p, t)
  PROVE  LedgerInv'
<1> DEFINE fb == GetBalance(t.from)
<1>1. t.from \in Addrs /\ t.to \in Addrs /\ t.value \in Nat
  BY LedgerAssumption
<1>2. fb \in Nat
  BY GetBalanceNat DEF LedgerInv
<1>3. /\ ops \in 0..MaxOps /\ ops < MaxOps /\ ops' = ops + 1
      /\ UNCHANGED <<store, hasStorage>>
  BY DEF TransferBegin, LedgerInv, TypeOK
<1>4. ops' \in 0..MaxOps
  BY <1>3, LedgerAssumption
<1>5. CASE fb < t.value
  <2>1. UNCHANGED <<pc, loc>> /\ ret' = [ret EXCEPT ![p] = "false"]
    BY <1>1, <1>2, <1>5 DEF TransferBegin
  <2>2. ret' \in [Procs -> RetVals]
    BY <2>1 DEF LedgerInv, TypeOK, RetVals
  <2>. QED
    BY <1>3, <1>4, <2>1, <2>2 DEF LedgerInv, TypeOK, CallInv, RetVals
<1>6. CASE ~(fb < t.value)
  <2> DEFINE new == [from |-> t.from, to |-> t.to, value |-> t.value,
                     fromBal |-> fb, toBal |-> 0]
  <2>1. /\ pc' = [pc EXCEPT ![p] = "readTo"]
        /\ loc' = [loc EXCEPT ![p] = new]
        /\ UNCHANGED ret
    BY <1>2, <1>6 DEF TransferBegin
  <2>2. new \in LocRec /\ new.value <= new.fromBal
    BY <1>1, <1>2, <1>6 DEF LocRec
  <2>3. pc' \in [Procs -> PcVals] /\ loc' \in [Procs -> LocRec]
    BY <2>1, <2>2 DEF LedgerInv, TypeOK, PcVals
  <2>4. CallInv(p)'
    BY <2>1, <2>2 DEF LedgerInv, TypeOK, CallInv
  <2>5. \A q \in Procs \ {p} : CallInv(q)'
    <3>1. \A q \in Procs \ {p} : pc'[q] = pc[q] /\ loc'[q] = loc[q]
      BY <2>1 DEF LedgerInv, TypeOK
    <3>. QED
      BY <3>1, OtherCalls
  <2>. QED
    BY <1>3, <1>4, <2>1, <2>3, <2>4, <2>5 DEF LedgerInv, TypeOK, PcVals
<1>. QED
  BY <1>5, <1>6

\* transfer's second step reads a natural recipient balance.
LEMMA TransferReadToInv ==
  ASSUME LedgerInv, NEW p \in Procs, TransferReadTo(p)
  PROVE  LedgerInv'
<1> DEFINE new == [loc[p] EXCEPT !.toBal = GetBalance(loc[p].to)]
<1>1. GetBalance(loc[p].to) \in Nat
  BY GetBalanceNat DEF LedgerInv
<1>2. /\ pc' = [pc EXCEPT ![p] = "writeFrom"]
      /\ loc' = [loc EXCEPT ![p] = new]
      /\ UNCHANGED <<store, hasStorage, ret, ops>>
  BY DEF TransferReadTo
<1>3. new \in LocRec /\ new.value = loc[p].value /\ new.fromBal = loc[p].fromBal
  BY <1>1 DEF LedgerInv, LocRec
<1>4. CallInv(p)'
  BY <1>2, <1>3 DEF TransferReadTo, LedgerInv, TypeOK, CallInv
<1>5. \A q \in Procs \ {p} : CallInv(q)'
  <2>1. \A q \in Procs \ {p} : pc'[q] = pc[q] /\ loc'[q] = loc[q]
    BY <1>2 DEF LedgerInv, TypeOK
  <2>. QED
    BY <2>1, OtherCalls
<1>. QED
  BY <1>2, <1>3, <1>4, <1>5 DEF LedgerInv, TypeOK

\* transfer's third step writes from_balance - value: a natural, since the
\* balance it was computed from passed the check, however stale it is.
LEMMA TransferWriteFromInv ==
  ASSUME LedgerInv, NEW p \in Procs, TransferWriteFrom(p)
  PROVE  LedgerInv'
<1>1. loc[p].fromBal - loc[p].value \in Nat
  <2>1. pc[p] = "writeFrom"
    BY DEF TransferWriteFrom
  <2>2. loc[p] \in LocRec /\ loc[p].value <= loc[p].fromBal
    BY <2>1 DEF LedgerInv, CallInv
  <2>. QED
    BY <2>2 DEF LocRec
<1>2. /\ DOMAIN store' = DOMAIN Alloc
      /\ \A x \in DOMAIN store' : store'[x] \in Nat
  BY <1>1, SetBalanceTyped DEF TransferWriteFrom, LedgerInv
<1>3. pc' = [pc EXCEPT ![p] = "writeTo"]
      /\ UNCHANGED <<hasStorage, loc, ret, ops>>
  BY DEF TransferWriteFrom
<1>4. CallInv(p)'
  BY <1>3 DEF LedgerInv, TypeOK, CallInv
<1>5. \A q \in Procs \ {p} : CallInv(q)'
  <2>1. \A q \in Procs \ {p} : pc'[q] = pc[q] /\ loc'[q] = loc[q]
    BY <1>3 DEF LedgerInv, TypeOK
  <2>. QED
    BY <2>1, OtherCalls
<1>. QED
  BY <1>2, <1>3, <1>4, <1>5 DEF LedgerInv, TypeOK

\* transfer's last step writes to_balance + value and returns true.
LEMMA TransferWriteToInv ==
  ASSUME LedgerInv, NEW p \in Procs, TransferWriteTo(p)
  PROVE  LedgerInv'
<1>1. loc[p].toBal + loc[p].value \in Nat
  BY DEF LedgerInv, LocRec
<1>2. /\ DOMAIN store' = DOMAIN Alloc
      /\ \A x \in DOMAIN store' : store'[x] \in Nat
  BY <1>1, SetBalanceTyped DEF TransferWriteTo, LedgerInv
<1>3. /\ pc' = [pc EXCEPT ![p] = "idle"]
      /\ ret' = [ret EXCEPT ![p] = "true"]
      /\ UNCHANGED <<hasStorage, loc, ops>>
  BY DEF TransferWriteTo
<1>4. CallInv(p)'
  BY <1>3 DEF LedgerInv, TypeOK, CallInv
<1>5. \A q \in Procs \ {p} : CallInv(q)'
  <2>1. \A q \in Procs \ {p} : pc'[q] = pc[q] /\ loc'[q] = loc[q]
    BY <1>3 DEF LedgerInv, TypeOK
  <2>. QED
    BY <2>1, OtherCalls
<1>6. pc' \in [Procs -> PcVals] /\ ret' \in [Procs -> RetVals]
  BY <1>3 DEF LedgerInv, TypeOK, PcVals, RetVals
<1>. QED
  BY <1>2, <1>3, <1>4, <1>5, <1>6 DEF LedgerInv, TypeOK, PcVals, RetVals

\* deploy_contract leaves storage and every thread's transfer alone.
LEMMA DeployContractInv ==
  ASSUME LedgerInv, NEW p \in Procs, NEW d \in Deploys, DeployContract(p, d)
  PROVE  LedgerInv'
<1>1. /\ UNCHANGED <<store, hasStorage, pc, loc>>
      /\ ops \in 0..MaxOps /\ ops < MaxOps /\ ops' = ops + 1
  BY DEF DeployContract, LedgerInv, TypeOK
<1>2. ops' \in 0..MaxOps
  BY <1>1, LedgerAssumption
<1>3. ret' \in [Procs -> RetVals]
  BY DEF DeployContract, LedgerInv, TypeOK, RetVals
<1>. QED
  BY <1>1, <1>2, <1>3 DEF LedgerInv, TypeOK, CallInv, RetVals

LEMMA NextLedgerInv == LedgerInv /\ [Next]_vars => LedgerInv'
<1> SUFFICES ASSUME LedgerInv, [Next]_vars PROVE LedgerInv'
  OBVIOUS
<1>1. CASE \E p \in Procs : \E t \in Transfers : TransferBegin(p, t)
  BY <1>1, TransferBeginInv
<1>2. CASE \E p \in Procs : TransferReadTo(p)
  BY <1>2, TransferReadToInv
<1>3. CASE \E p \in Procs : TransferWriteFrom(p)
  BY <1>3, TransferWriteFromInv
<1>4. CASE \E p \in Procs : TransferWriteTo(p)
  BY <1>4, TransferWriteToInv
<1>5. CASE \E p \in Procs : \E d \in Deploys : DeployContract(p, d)
  BY <1>5, DeployContractInv
<1>6. CASE UNCHANGED vars
  BY <1>6 DEF vars, LedgerInv, TypeOK, CallInv
<1>. QED
  BY <1>1, <1>2, <1>3, <1>4, <1>5, <1>6 DEF Next

\* Storage never holds a negative balance, so transfer's U256 subtraction
\* never panics, whatever the interleaving of the threads' storage calls
\* (checked by the run ledger on a small instance).
THEOREM LedgerTypeCorrect == Spec => []TypeOK
<1>1. LedgerInv => TypeOK
  BY DEF LedgerInv
<1>. QED
  BY InitLedgerInv, NextLedgerInv, <1>1, PTL DEF Spec
=============================================================================
