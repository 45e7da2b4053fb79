------------------------------ MODULE MCLogin5 ------------------------------
(***************************************************************************)
(* Model-checking instances of Login5.                                     *)
(***************************************************************************)
EXTENDS Login5, TLC

Symmetry == Permutations(Accounts) \cup Permutations(Callers) \cup Permutations(MintIds)
=============================================================================
