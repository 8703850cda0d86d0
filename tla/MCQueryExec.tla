----------------------------- MODULE MCQueryExec -----------------------------
(* Instances of QueryExec for TLC. *)
EXTENDS QueryExec, TLC

Symmetry == Permutations(Calls) \cup Permutations(QueryIds) \cup Permutations(Pids)
=============================================================================
