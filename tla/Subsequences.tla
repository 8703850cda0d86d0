---------------------------- MODULE Subsequences -----------------------------
(***************************************************************************)
(* Array.prototype.filter, by the positions it keeps.  (SelectSeq says the *)
(* same and takes a predicate, which the proof system cannot look into.)   *)
(***************************************************************************)
EXTENDS Integers, FiniteSets, Sequences

\* The place of position i among those of S, and the position at place j.
Rank(S, i) == Cardinality({h \in S : h <= i})
Nth(S, j) == CHOOSE i \in S : Rank(S, i) = j

\* What s holds at the positions S, in order.
Keep(s, S) == [j \in 1..Cardinality(S) |-> s[Nth(S, j)]]

\* s without what it holds at the positions S.
Drop(s, S) == Keep(s, (1..Len(s)) \ S)
=============================================================================
