--------------------------- MODULE MCCoreExecutor ---------------------------
(***************************************************************************)
(* Model-checking instance of CoreExecutor: one-byte words, a stack of     *)
(* depth 2, and every code buffer up to a length over a small alphabet, in *)
(* two families, each with the gas limits and static flags that cut its   *)
(* charges and checks at different points.                                 *)
(***************************************************************************)
EXTENDS CoreExecutor

\* Every code buffer of one to n bytes over the alphabet a.
CodesOver(a, n) == UNION {[1..m -> a] : m \in 1..n}

\* Control flow: ADD, JUMP, JUMPI, PC, MSIZE, JUMPDEST and REVERT, so that
\* loops through a backward jump and REVERT loops occur; limits 14 and 40
\* end a loop after a few and after several turns.
ControlCodes == CodesOver({1, 86, 87, 88, 89, 91, 253}, 5)
ControlLimits == {14, 40}

\* Data: STOP, the unassigned byte 12, ISZERO, NOT, POP, MLOAD, MSTORE,
\* SLOAD, SSTORE, MSIZE, GAS, PUSH1 (no arm here) and RETURN, in static
\* and non-static runs; 30 cuts SSTORE's charge and 20300 pays it.
DataCodes == CodesOver({0, 12, 21, 25, 80, 81, 82, 84, 85, 89, 90, 96, 243}, 4)
DataLimits == {30, 20300}

\* The run's code set, and its initial states: a code of a family with a
\* gas limit of that family; control codes run without the static flag.
MCFamilyCodes == ControlCodes \cup DataCodes

MCInit ==
  /\ Init
  /\ \/ code \in ControlCodes /\ gasLimit \in ControlLimits /\ ~isStatic
     \/ code \in DataCodes /\ gasLimit \in DataLimits

(* FairSpec with the initial states of the run.                            *)
MCFairSpec == MCInit /\ [][Next]_vars /\ WF_vars(Next)

=============================================================================
