----------------------------- MODULE MCSpClient -----------------------------
(***************************************************************************)
(* Model-checking instances of SpClient.                                   *)
(***************************************************************************)
EXTENDS SpClient, TLC

\* Requests that leave the response cache alone are interchangeable; sound for the
\* safety run.
Symmetry == Permutations(Requests \ Writers)
=============================================================================
