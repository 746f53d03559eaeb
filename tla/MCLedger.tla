------------------------------ MODULE MCLedger ------------------------------
(* Small instances of Ledger: two addresses, one or two caller threads.  *)
EXTENDS Ledger, TLC

CONSTANTS a1, a2, p1, p2

\* The genesis allocation: a1 holds 2, a2 holds 1.
MCAlloc == (a1 :> 2) @@ (a2 :> 1)

\* Transfers between two distinct funded accounts, one of them too large.
MCTransfers == {[from |-> a1, to |-> a2, value |-> 1],
                [from |-> a2, to |-> a1, value |-> 1],
                [from |-> a1, to |-> a2, value |-> 3]}
\* A transfer of an account to itself.
MCSelfTransfers == {[from |-> a1, to |-> a1, value |-> 1]}
\* One transfer, made by both threads.
MCRaceTransfers == {[from |-> a1, to |-> a2, value |-> 1]}

\* A deployment by a funded account.
MCDeploys == {[caller |-> a1, value |-> 1]}
=============================================================================
