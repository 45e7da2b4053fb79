---------------------------- MODULE MCPathfinder ----------------------------
(***************************************************************************)
(* Model-checking instances of Pathfinder.                                 *)
(***************************************************************************)
EXTENDS Pathfinder, TLC

Symmetry == Permutations(Jobs)
=============================================================================
