----------------------------- MODULE MCImageStore -----------------------------
(* Instances of ImageStore for TLC. *)
EXTENDS ImageStore, TLC

Symmetry == Permutations(Keys) \cup Permutations(Urls) \cup Permutations(Procs)
=============================================================================
