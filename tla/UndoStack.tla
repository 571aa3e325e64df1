----------------------------- MODULE UndoStack -----------------------------
(***************************************************************************)
(* What resolver/state.py promises its caller: a current state, and a      *)
(* stack of earlier ones to which backtracking returns exactly.            *)
(***************************************************************************)
EXTENDS Naturals, Sequences

VARIABLES
    cur,   \* the state the resolver decides on
    stack  \* the states its logged operations were applied to, oldest first

\* An operation: what it does to the state is its own affair.
Do == stack' = Append(stack, cur)

\* backtrack: the state is again the one the n-th operation left.
BackTo(n) ==
    /\ n \in 0 .. Len(stack) - 1
    /\ cur' = stack[n + 1]
    /\ stack' = SubSeq(stack, 1, n)

Next == Do \/ \E n \in 0 .. Len(stack) : BackTo(n)

Init == stack = <<>>

Spec == Init /\ [][Next]_<<cur, stack>>
=============================================================================
