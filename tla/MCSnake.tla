------------------------------ MODULE MCSnake -------------------------------
(* Model checking Snake: the values of its constants. *)
EXTENDS Snake

CONSTANT nowhere

\* One key for each direction, the digit that also restarts, Enter and C.
MCKeys == {103, 108, 105, 106, 5, 28, 14}
=============================================================================
