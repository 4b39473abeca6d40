------------------------ MODULE MCDisasterRecovery ------------------------
(* TLC instance of DisasterRecovery. *)
EXTENDS DisasterRecovery, TLC

Symmetry == Permutations(File) \cup Permutations(Accepter)
===========================================================================
