------------------------------ MODULE EvmStack ------------------------------
(***************************************************************************)
(* The operand stack of src/fairvm/src/evm/stack.rs: a Vec<U256> whose     *)
(* last element is the top, bounded by max_depth (1024 in Stack::new).     *)
(* Each operation is an operator on the sequence of items; its guard is    *)
(* the condition under which the Rust method returns Ok.                   *)
(***************************************************************************)
EXTENDS U256

CONSTANT MaxDepth

ASSUME MaxDepthAssumption == MaxDepth \in Nat \ {0}

\* The element `index` positions below the top (0 = top).
Peek(s, index) == s[Len(s) - index]

\* Mutation of CanPush: `>` for `>=` in the depth check of Stack::push.
CanPushAtLimit(s) == Len(s) <= MaxDepth

\* Stack::push succeeds unless the stack is full.
CanPush(s) == Len(s) < MaxDepth
Push(s, v) == Append(s, v)

\* k successive Stack::pop calls that all succeed leave this stack.
PopN(s, k) == SubSeq(s, 1, Len(s) - k)

\* Stack::dup(index): the index check, then a push of the copy.
DupIndexOk(s, index) == index < Len(s)
Dup(s, index) == Append(s, Peek(s, index))

\* Stack::swap(index): exchanges the top with the element index below it.
SwapIndexOk(s, index) == index # 0 /\ index < Len(s)
Swap(s, index) ==
  [s EXCEPT ![Len(s)] = s[Len(s) - index], ![Len(s) - index] = s[Len(s)]]

=============================================================================
