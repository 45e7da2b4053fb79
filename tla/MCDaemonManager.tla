-------------------------- MODULE MCDaemonManager --------------------------
(* Small instances of DaemonManager for TLC.                               *)
EXTENDS DaemonManager, TLC

\* The players are interchangeable; sound for the safety run.
Symmetry == Permutations(Players)
=============================================================================
