----------------------------- MODULE MCMessages -----------------------------
(* Model checking Messages: the values of its constants. *)
EXTENDS Messages

CONSTANTS a, b

MCSeeds == {<<b>>}
=============================================================================
