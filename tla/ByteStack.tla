------------------------------- MODULE ByteStack -------------------------------
(***************************************************************************)
(* What the stack instructions promise: a last-in first-out sequence of    *)
(* bytes with a capacity.  A push adds one or four bytes, a pop takes the  *)
(* last four, whatever pushes they came from.  A pop that finds exactly    *)
(* three bytes is not refused but breaks the stack, and then nothing is    *)
(* promised any more; one that finds fewer is refused.                     *)
(***************************************************************************)
EXTENDS Naturals, Sequences

CONSTANT Capacity

VARIABLES
  stack,    \* the bytes, the top last
  moved,    \* the bytes the last instruction pushed or popped, the top last
  broken

vars == <<stack, moved, broken>>

Init == stack = <<>> /\ moved = <<>> /\ broken = FALSE

Push ==
  /\ Len(moved') \in {1, 4}
  /\ Len(stack) + Len(moved') <= Capacity
  /\ stack' = stack \o moved'

Pop ==
  /\ Len(moved') = 4
  /\ stack = stack' \o moved'

Refuse == moved' = <<>> /\ stack' = stack

Underflow == Len(stack) = 3 /\ broken'

Next ==
  \/ ~broken /\ ~broken' /\ (Push \/ Pop \/ Refuse)
  \/ ~broken /\ Underflow
  \/ broken

Spec == Init /\ [][Next]_vars

=============================================================================
