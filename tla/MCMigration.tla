------------------------------ MODULE MCMigration ------------------------------
(* Instances of Migration for TLC. *)
EXTENDS Migration, TLC

\* All processes run the rkt of this repository (dbVersion 2).
ThisRelease == [p \in Procs |-> 3]

\* One process runs the release before.
TwoReleases == [p \in Procs |-> IF p = CHOOSE q \in Procs : TRUE THEN 2 ELSE 3]

Symmetry == Permutations(Procs)
=============================================================================
