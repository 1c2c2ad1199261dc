------------------------------- MODULE Stack -------------------------------
(***************************************************************************)
(* What the pager stack promises (pager_stack.h): pagers come off in the   *)
(* opposite order in which they were put on; one pager may be on it twice. *)
(***************************************************************************)
EXTENDS Integers, Sequences

CONSTANT Pagers
VARIABLE stack     \* the last is the top

Init == stack = <<>>

Push(p) == stack' = Append(stack, p)

Pop == stack # <<>> /\ stack' = SubSeq(stack, 1, Len(stack) - 1)

Next == Pop \/ \E p \in Pagers : Push(p)

Spec == Init /\ [][Next]_stack
=============================================================================
