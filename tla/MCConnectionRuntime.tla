------------------------ MODULE MCConnectionRuntime --------------------------
(* Instances of ConnectionRuntime for TLC. *)
EXTENDS ConnectionRuntime, TLC

Symmetry == Permutations(Connections) \cup Permutations(Databases) \cup Permutations(Jobs)
=============================================================================
