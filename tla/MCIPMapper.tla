----------------------------- MODULE MCIPMapper -----------------------------
(***************************************************************************)
(* Instances of IPMapper small enough for TLC.                             *)
(***************************************************************************)
EXTENDS IPMapper, TLC

Symmetry == Permutations(Fakes) \union Permutations(Reals) \union Permutations(Callers)
=============================================================================
