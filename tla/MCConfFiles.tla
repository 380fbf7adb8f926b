---------------------------- MODULE MCConfFiles -----------------------------
(***************************************************************************)
(* ConfFiles with two symbols of three values: written and not written,    *)
(* n and not n.                                                            *)
(***************************************************************************)
EXTENDS ConfFiles, TLC

Symmetry == Permutations(Syms)
=============================================================================
