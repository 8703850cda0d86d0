----------------------------- MODULE MCEditorRun -----------------------------
(* Instances of EditorRun for TLC. *)
EXTENDS EditorRun, TLC

\* The calls EditorRun names, for the constant of QueryExec.
MCCalls == (Runs \X (1..MaxStatements)) \cup (SideRuns \X {1})

Symmetry == Permutations(Runs) \cup Permutations(Tabs) \cup Permutations(Pids)
=============================================================================
