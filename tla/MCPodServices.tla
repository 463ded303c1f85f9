----------------------------- MODULE MCPodServices -----------------------------
(* Instances of PodServices for TLC. *)
EXTENDS PodServices, TLC
=============================================================================
