---------------------------- MODULE MCTaskSystem ----------------------------
(* The symmetry of TaskSystem.                                             *)
EXTENDS TaskSystem, TLC

Symmetry == Permutations(Tasks) \cup Permutations(Consumers)
=============================================================================
