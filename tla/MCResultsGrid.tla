---------------------------- MODULE MCResultsGrid ----------------------------
(* Instances of ResultsGrid for TLC. *)
EXTENDS ResultsGrid, TLC

CONSTANTS k1, k2, k3, a, b

MCTables == {<<[k |-> k1, v |-> a], [k |-> k2, v |-> Null]>>}

\* A key that is taken, unless its row is deleted first, one nobody has, and none.
MCNewRows == {[k |-> k1, v |-> b], [k |-> k3, v |-> Undefined], [k |-> Null, v |-> a]}

MCEdits == {[column |-> "v", value |-> b]}

Symmetry == Permutations(Results)
=============================================================================
