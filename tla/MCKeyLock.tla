------------------------------- MODULE MCKeyLock -------------------------------
(* Instances of KeyLock for TLC. *)
EXTENDS KeyLock, TLC

Symmetry == Permutations(Procs) \cup Permutations(Inodes)
=============================================================================
