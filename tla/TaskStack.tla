----------------------------- MODULE TaskStack -------------------------------
(***************************************************************************)
(* What struct pcq promises to its users (file.c): a stack of at most sz   *)
(* elements on which each enqueue and each dequeue is one atomic step.     *)
(***************************************************************************)
EXTENDS Sequences, Naturals

CONSTANTS Element, sz

VARIABLE stack

Init == stack = <<>>

Push(e) == Len(stack) < sz /\ stack' = Append(stack, e)

Pop == Len(stack) > 0 /\ stack' = SubSeq(stack, 1, Len(stack) - 1)

Next == Pop \/ \E e \in Element : Push(e)

Spec == Init /\ [][Next]_stack
=============================================================================
