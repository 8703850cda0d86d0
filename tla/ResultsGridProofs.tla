-------------------------- MODULE ResultsGridProofs --------------------------
(***************************************************************************)
(* What editing in the grid promises, for every table, every typed value   *)
(* and any number of rows, tabs and results.                               *)
(***************************************************************************)
EXTENDS ResultsGrid, FiniteSetTheorems, SequenceTheorems, WellFoundedInduction, TLAPS

(* Subsequences. *)

\* A set of positions is finite, and has as many of them as it can hold.
LEMMA Positions ==
    ASSUME NEW n \in Nat, NEW S \in SUBSET (1..n)
    PROVE  IsFiniteSet(S) /\ Cardinality(S) \in 0..n /\ S \subseteq Int
<1>1. IsFiniteSet(1..n) /\ Cardinality(1..n) = n
  BY FS_Interval
<1>2. IsFiniteSet(S) /\ Cardinality(S) <= n
  BY <1>1, FS_Subset
<1>3. Cardinality(S) \in Nat
  BY <1>2, FS_CardinalityType
<1> QED
  BY <1>2, <1>3

\* All of n positions are n.
LEMMA AllPositions ==
    ASSUME NEW n \in Nat
    PROVE  Cardinality(1..n) = n
  BY FS_Interval

\* Of two positions of a set, the one behind has the higher rank.
LEMMA RankGrows ==
    ASSUME NEW n \in Nat, NEW S \in SUBSET (1..n)
    PROVE  /\ \A i \in S : Rank(S, i) \in 1..Cardinality(S)
           /\ \A i, j \in S : i < j => Rank(S, i) < Rank(S, j)
<1>1. \A i \in 1..n : {h \in S : h <= i} \in SUBSET S
  OBVIOUS
<1>2. ASSUME NEW i \in S PROVE Rank(S, i) \in 1..Cardinality(S)
  <2>1. IsFiniteSet({h \in S : h <= i}) /\ Cardinality({h \in S : h <= i}) <= Cardinality(S)
    BY <1>1, FS_Subset, Positions
  <2>2. {h \in S : h <= i} # {}
    BY <1>2
  <2>3. Cardinality({h \in S : h <= i}) \in Nat \ {0}
    BY <2>1, <2>2, FS_EmptySet, FS_CardinalityType
  <2> QED
    BY <2>1, <2>3, Positions DEF Rank
<1>3. ASSUME NEW i \in S, NEW j \in S, i < j PROVE Rank(S, i) < Rank(S, j)
  <2>1. IsFiniteSet({h \in S : h <= i}) /\ IsFiniteSet({h \in S : h <= j})
    BY <1>1, FS_Subset, Positions
  <2>0. S \subseteq Int /\ i \in Int /\ j \in Int
    BY Positions
  <2>2. {h \in S : h <= i} \in SUBSET {h \in S : h <= j} /\ j \notin {h \in S : h <= i} /\ j \in {h \in S : h <= j}
    <3>1. \A h \in S : h <= i => h <= j
      BY <1>3, <2>0
    <3>2. ~(j <= i) /\ j <= j
      BY <1>3, <2>0
    <3> QED
      BY <3>1, <3>2
  <2>3. /\ Cardinality({h \in S : h <= i}) <= Cardinality({h \in S : h <= j})
        /\ Cardinality({h \in S : h <= i}) # Cardinality({h \in S : h <= j})
    BY <2>1, <2>2, FS_Subset
  <2> QED
    BY <1>2, <2>3, Positions DEF Rank
<1> QED
  BY <1>2, <1>3

\* The positions of a set, in order.
LEMMA NthProperties ==
    ASSUME NEW n \in Nat, NEW S \in SUBSET (1..n)
    PROVE  /\ \A j \in 1..Cardinality(S) : Nth(S, j) \in S /\ Rank(S, Nth(S, j)) = j
           /\ \A i \in S : Nth(S, Rank(S, i)) = i
           /\ \A j, k \in 1..Cardinality(S) : j < k => Nth(S, j) < Nth(S, k)
<1> DEFINE rank == [i \in S |-> Rank(S, i)]
<1>0. S \subseteq Int /\ Cardinality(S) \in Nat
  BY Positions
<1>1. \A i, j \in S : Rank(S, i) = Rank(S, j) => i = j
  <2>1. \A i, j \in S : Rank(S, i) = Rank(S, j) => Rank(S, i) \in Int /\ ~(i < j) /\ ~(j < i)
    BY <1>0, RankGrows
  <2> QED
    BY <1>0, <2>1
<1>2. rank \in Injection(S, 1..Cardinality(S))
  BY <1>1, RankGrows DEF Injection, IsInjective
<1>3. IsFiniteSet(1..Cardinality(S)) /\ Cardinality(1..Cardinality(S)) = Cardinality(S)
  BY <1>0, FS_Interval
<1>4. rank \in Surjection(S, 1..Cardinality(S))
  BY <1>2, <1>3, FS_Injection
<1>5. \A j \in 1..Cardinality(S) : \E i \in S : Rank(S, i) = j
  BY <1>4 DEF Surjection
<1>6. \A j \in 1..Cardinality(S) : Nth(S, j) \in S /\ Rank(S, Nth(S, j)) = j
  BY <1>5 DEF Nth
<1>7. \A i \in S : Nth(S, Rank(S, i)) = i
  BY <1>1, <1>6, RankGrows
<1>8. ASSUME NEW j \in 1..Cardinality(S), NEW k \in 1..Cardinality(S), j < k PROVE Nth(S, j) < Nth(S, k)
  <2>1. Nth(S, j) \in Int /\ Nth(S, k) \in Int
    BY <1>0, <1>6
  <2>2. Nth(S, k) < Nth(S, j) => k < j
    BY <1>6, RankGrows
  <2>3. Nth(S, j) # Nth(S, k)
    BY <1>0, <1>6, <1>8
  <2> QED
    BY <1>0, <1>8, <2>1, <2>2, <2>3
<1> QED
  BY <1>6, <1>7, <1>8

\* They are the only way to list the set in order.
LEMMA NthIsTheOrder ==
    ASSUME NEW n \in Nat, NEW S \in SUBSET (1..n), NEW m \in Nat, NEW g \in [1..m -> S],
           \A j, k \in 1..m : j < k => g[j] < g[k],
           \A i \in S : \E j \in 1..m : g[j] = i
    PROVE  m = Cardinality(S) /\ \A j \in 1..m : g[j] = Nth(S, j)
<1>0. S \subseteq Int /\ \A j \in 1..m : g[j] \in S /\ g[j] \in Int /\ j \in Int
  BY Positions
<1>1. \A j, k \in 1..m : g[j] <= g[k] <=> j <= k
  <2>1. \A j, k \in 1..m : j < k => g[j] < g[k]
    OBVIOUS
  <2> QED
    BY <1>0, <2>1
<1>2. ASSUME NEW k \in 1..m PROVE Rank(S, g[k]) = k
  <2> DEFINE h == [j \in 1..k |-> g[j]]
  <2>1. \A j \in 1..k : j \in 1..m /\ j <= k
    BY <1>2
  <2>2. \A i, j \in 1..k : h[i] = h[j] => i = j
    BY <1>0, <1>1, <2>1
  <2>3. \A j \in 1..k : h[j] \in {i \in S : i <= g[k]}
    BY <1>0, <1>1, <2>1
  <2>4. \A i \in {i \in S : i <= g[k]} : \E j \in 1..k : h[j] = i
    <3>1. SUFFICES ASSUME NEW i \in S, i <= g[k] PROVE \E j \in 1..k : h[j] = i
      OBVIOUS
    <3>2. PICK j \in 1..m : g[j] = i
      OBVIOUS
    <3>3. j \in 1..k
      BY <1>0, <1>1, <3>1, <3>2
    <3> QED
      BY <3>2, <3>3
  <2>5. h \in Bijection(1..k, {i \in S : i <= g[k]})
    BY <2>2, <2>3, <2>4 DEF Bijection, Injection, IsInjective, Surjection
  <2>6. ExistsBijection(1..k, {i \in S : i <= g[k]})
    BY <2>5 DEF ExistsBijection
  <2> QED
    BY <1>2, <2>6, FS_CountingElements DEF Rank
<1>3. ASSUME NEW j \in 1..m PROVE g[j] = Nth(S, j)
  <2>1. Rank(S, g[j]) = j /\ g[j] \in S
    BY <1>0, <1>2
  <2> QED
    BY <2>1, NthProperties
<1>4. g \in Bijection(1..m, S)
  <2>1. \A i, j \in 1..m : g[i] = g[j] => i = j
    BY <1>2
  <2>2. \A i \in S : \E j \in 1..m : g[j] = i
    OBVIOUS
  <2> QED
    BY <2>1, <2>2 DEF Bijection, Injection, IsInjective, Surjection
<1>5. m = Cardinality(S)
  BY <1>4, FS_CountingElements DEF ExistsBijection
<1> QED
  BY <1>3, <1>5

-----------------------------------------------------------------------------
\* What is kept of a sequence.
LEMMA Kept ==
    ASSUME NEW T, NEW s \in Seq(T), NEW S \in SUBSET (1..Len(s))
    PROVE  /\ Keep(s, S) \in Seq(T) /\ Len(Keep(s, S)) = Cardinality(S) /\ Cardinality(S) \in 0..Len(s)
           /\ \A j \in 1..Cardinality(S) : Nth(S, j) \in S /\ Keep(s, S)[j] = s[Nth(S, j)]
           /\ \A i \in S : Rank(S, i) \in 1..Cardinality(S) /\ Keep(s, S)[Rank(S, i)] = s[i]
<1>0. Len(s) \in Nat /\ DOMAIN s = 1..Len(s) /\ \A i \in 1..Len(s) : s[i] \in T
  BY LenProperties
<1>1. Cardinality(S) \in 0..Len(s)
  BY <1>0, Positions
<1>2. \A j \in 1..Cardinality(S) : Nth(S, j) \in S
  BY <1>0, NthProperties
<1>3. Keep(s, S) = [j \in 1..Cardinality(S) |-> s[Nth(S, j)]]
  BY DEF Keep
<1>4. \A j \in 1..Cardinality(S) : s[Nth(S, j)] \in T
  BY <1>0, <1>2
<1>5. Keep(s, S) \in Seq(T) /\ Len(Keep(s, S)) = Cardinality(S)
  BY <1>1, <1>3, <1>4
<1>6. \A i \in S : Rank(S, i) \in 1..Cardinality(S) /\ Nth(S, Rank(S, i)) = i
  BY <1>0, RankGrows, NthProperties
<1> QED
  BY <1>1, <1>2, <1>3, <1>5, <1>6

\* The beginning of a sequence that is kept stays where it is.
LEMMA PrefixStays ==
    ASSUME NEW n \in Nat, NEW S \in SUBSET (1..n), NEW m \in 0..n, 1..m \subseteq S
    PROVE  /\ m <= Cardinality(S) /\ \A j \in 1..m : Nth(S, j) = j
           /\ \A j \in 1..Cardinality(S) : j > m => Nth(S, j) > m
<1>0. Cardinality(S) \in Nat /\ S \subseteq Int
  BY Positions
<1>1. \A j \in 1..m : Rank(S, j) = j
  <2> SUFFICES ASSUME NEW j \in 1..m PROVE Rank(S, j) = j
    OBVIOUS
  <2>1. {h \in S : h <= j} = 1..j
    <3>1. \A h \in S : h <= j => h \in 1..j
      OBVIOUS
    <3>2. \A h \in 1..j : h \in 1..m /\ h <= j
      OBVIOUS
    <3>3. \A h \in 1..j : h \in S /\ h <= j
      BY <3>2
    <3> QED
      BY <3>1, <3>3
  <2>2. Cardinality(1..j) = j
    <3>1. j \in Int /\ 1 <= j
      OBVIOUS
    <3> QED
      BY <3>1, FS_Interval
  <2> QED
    BY <2>1, <2>2 DEF Rank
<1>2. \A j \in 1..m : Nth(S, j) = j
  BY <1>1, NthProperties
<1>3. m <= Cardinality(S)
  <2>1. CASE m = 0
    BY <1>0, <2>1
  <2>2. CASE m # 0
    <3>1. m \in 1..m
      BY <2>2
    <3> QED
      BY <1>0, <1>1, <3>1, RankGrows
  <2> QED
    BY <2>1, <2>2
<1>4. ASSUME NEW j \in 1..Cardinality(S), j > m PROVE Nth(S, j) > m
  <2>1. Nth(S, j) \in S /\ Rank(S, Nth(S, j)) = j
    BY NthProperties
  <2>2. Nth(S, j) \in 1..m => j = Nth(S, j)
    BY <1>1, <2>1
  <2>3. Nth(S, j) \in 1..n
    BY <2>1
  <2> QED
    BY <1>0, <1>4, <2>2, <2>3
<1> QED
  BY <1>2, <1>3, <1>4

\* A position that stays moves up by the number of positions removed before it.
LEMMA RankOfKept ==
    ASSUME NEW n \in Nat, NEW R \in SUBSET (1..n), NEW i \in (1..n) \ R
    PROVE  i - Cardinality({h \in R : h < i}) = Rank((1..n) \ R, i)
<1> DEFINE before == {h \in R : h < i}
           kept == {h \in (1..n) \ R : h <= i}
<1>1. before \cup kept = 1..i /\ before \cap kept = {}
  <2>1. \A h \in R : h <= i => h < i
    OBVIOUS
  <2>2. \A h \in before : h \in 1..i /\ h \in R
    OBVIOUS
  <2>3. \A h \in kept : h \in 1..i /\ h \notin R
    OBVIOUS
  <2>4. \A h \in 1..i : h \in 1..n /\ h <= i
    OBVIOUS
  <2>5. \A h \in 1..i : h \in before \/ h \in kept
    BY <2>1, <2>4
  <2> HIDE DEF before, kept
  <2> QED
    BY <2>2, <2>3, <2>5
<1>2. before \in SUBSET (1..n) /\ kept \in SUBSET (1..n)
  OBVIOUS
<1>3. /\ IsFiniteSet(before) /\ IsFiniteSet(kept)
      /\ Cardinality(before) \in Nat /\ Cardinality(kept) \in Nat
  BY <1>2, Positions
<1>4. Cardinality(1..i) = i
  BY FS_Interval
<1>5. Cardinality(before \cup kept) = Cardinality(before) + Cardinality(kept)
  <2>1. Cardinality(before \cap kept) = 0
    BY <1>1, FS_EmptySet
  <2> HIDE DEF before, kept
  <2>2. Cardinality(before \cup kept) = Cardinality(before) + Cardinality(kept) - Cardinality(before \cap kept)
    BY <1>3, FS_Union
  <2> QED
    BY <1>3, <2>1, <2>2
<1> HIDE DEF before, kept
<1>6. i = Cardinality(before) + Cardinality(kept)
  BY <1>1, <1>4, <1>5
<1>7. i - Cardinality(before) = Cardinality(kept)
  BY <1>3, <1>6
<1> QED
  BY <1>7 DEF Rank, before, kept

\* Where no row is removed, all of them are left.
LEMMA NoneRemoved ==
    ASSUME NEW n \in Nat
    PROVE  Cardinality((1..n) \ {}) = n
<1>1. (1..n) \ {} = 1..n
  OBVIOUS
<1>2. Cardinality(1..n) = n
  BY AllPositions
<1> QED
  BY <1>1, <1>2

\* What comes to the front of a sequence.
LEMMA Prepended ==
    ASSUME NEW T, NEW s \in Seq(T), NEW x \in T
    PROVE  /\ <<x>> \o s \in Seq(T) /\ Len(<<x>> \o s) = Len(s) + 1 /\ <<x>> \o s # <<>>
           /\ (<<x>> \o s)[1] = x /\ \A i \in 1..Len(s) : (<<x>> \o s)[i + 1] = s[i]
           /\ Range(<<x>> \o s) = {x} \cup Range(s)
<1> DEFINE p == <<x>> \o s
<1>0. <<x>> \in Seq(T) /\ Len(<<x>>) = 1 /\ Len(s) \in Nat /\ DOMAIN s = 1..Len(s)
  BY LenProperties
<1>1. /\ p \in Seq(T) /\ Len(p) = Len(s) + 1
      /\ \A i \in 1..(Len(s) + 1) : p[i] = IF i <= 1 THEN <<x>>[i] ELSE s[i - 1]
  BY <1>0, ConcatProperties
<1>2. p[1] = x
  BY <1>0, <1>1
<1>3. \A i \in 1..Len(s) : p[i + 1] = s[i]
  <2> TAKE i \in 1..Len(s)
  <2>1. i + 1 \in 1..(Len(s) + 1) /\ ~(i + 1 <= 1) /\ (i + 1) - 1 = i
    BY <1>0
  <2> QED
    BY <1>1, <2>1
<1>4. DOMAIN p = 1..(Len(s) + 1)
  BY <1>1, LenProperties
<1> HIDE DEF p
<1>5. Range(p) = {x} \cup Range(s)
  <2>1. \A i \in 1..(Len(s) + 1) : p[i] = x \/ \E j \in 1..Len(s) : p[i] = s[j]
    <3> TAKE i \in 1..(Len(s) + 1)
    <3>1. CASE i = 1
      BY <1>2, <3>1
    <3>2. CASE i # 1
      <4>1. i - 1 \in 1..Len(s) /\ (i - 1) + 1 = i
        BY <1>0, <3>2
      <4> QED
        BY <1>3, <4>1
    <3> QED
      BY <3>1, <3>2
  <2>2. 1 \in 1..(Len(s) + 1) /\ \A j \in 1..Len(s) : j + 1 \in 1..(Len(s) + 1)
    BY <1>0
  <2>3. Range(p) \subseteq {x} \cup Range(s)
    BY <1>0, <1>4, <2>1 DEF Range
  <2>4. x \in Range(p)
    BY <1>2, <1>4, <2>2 DEF Range
  <2>5. \A j \in 1..Len(s) : s[j] \in Range(p)
    BY <1>3, <1>4, <2>2 DEF Range
  <2> QED
    BY <1>0, <2>3, <2>4, <2>5 DEF Range
<1>6. p # <<>>
  BY <1>0, <1>1
<1> QED
  BY <1>1, <1>2, <1>3, <1>5, <1>6 DEF p

\* What comes to the front of a sequence may be several, or none.
LEMMA Prefixed ==
    ASSUME NEW T, NEW p \in Seq(T), NEW s \in Seq(T)
    PROVE  /\ p \o s \in Seq(T) /\ Len(p \o s) = Len(p) + Len(s)
           /\ \A i \in 1..(Len(p) + Len(s)) : (p \o s)[i] = IF i <= Len(p) THEN p[i] ELSE s[i - Len(p)]
           /\ Range(p \o s) = Range(p) \cup Range(s)
           /\ p = <<>> => p \o s = s
           /\ p # <<>> => p \o s # <<>> /\ Head(p) \in Range(p)
<1> DEFINE q == p \o s
<1>0. Len(p) \in Nat /\ Len(s) \in Nat /\ DOMAIN p = 1..Len(p) /\ DOMAIN s = 1..Len(s)
  BY LenProperties
<1>1. /\ q \in Seq(T) /\ Len(q) = Len(p) + Len(s)
      /\ \A i \in 1..(Len(p) + Len(s)) : q[i] = IF i <= Len(p) THEN p[i] ELSE s[i - Len(p)]
  BY ConcatProperties
<1>2. DOMAIN q = 1..(Len(p) + Len(s))
  BY <1>1, LenProperties
<1>3. p = <<>> => q = s
  BY ConcatEmptySeq
<1>4. ASSUME p # <<>> PROVE q # <<>> /\ Head(p) \in Range(p)
  <2>1. Len(p) # 0 /\ Head(p) = p[1]
    BY <1>0, <1>4, EmptySeq, HeadTailProperties
  <2>2. Len(q) # 0 /\ 1 \in DOMAIN p
    BY <1>0, <1>1, <2>1
  <2> QED
    BY <1>1, <2>1, <2>2, EmptySeq DEF Range
<1> HIDE DEF q
<1>5. Range(q) = Range(p) \cup Range(s)
  <2>1. \A i \in 1..Len(p) : i \in DOMAIN q /\ q[i] = p[i]
    BY <1>0, <1>1, <1>2
  <2>2. \A i \in 1..Len(s) : Len(p) + i \in DOMAIN q /\ q[Len(p) + i] = s[i]
    <3> TAKE i \in 1..Len(s)
    <3>1. Len(p) + i \in 1..(Len(p) + Len(s)) /\ ~(Len(p) + i <= Len(p)) /\ (Len(p) + i) - Len(p) = i
      BY <1>0
    <3> QED
      BY <1>1, <1>2, <3>1
  <2>3. \A i \in DOMAIN q : (i \in 1..Len(p) /\ q[i] = p[i])
                            \/ (i - Len(p) \in 1..Len(s) /\ q[i] = s[i - Len(p)])
    BY <1>0, <1>1, <1>2
  <2>4. Range(p) \cup Range(s) \subseteq Range(q)
    BY <1>0, <2>1, <2>2 DEF Range
  <2>5. Range(q) \subseteq Range(p) \cup Range(s)
    BY <1>0, <2>3 DEF Range
  <2> QED
    BY <2>4, <2>5
<1> QED
  BY <1>1, <1>3, <1>4, <1>5 DEF q

-----------------------------------------------------------------------------
(* The tabs. *)

Unique(s) == \A i, j \in 1..Len(s) : s[i] = s[j] => i = j

\* Only an open tab executes.
TabsInv == TabsTypeOK /\ TabsAreWellFormed /\ executing \subseteq Open

\* What changes the tabs; a result has an id that no other has.
TabsStep ==
    \/ Selecting \/ Closing
    \/ \E t \in QueryTabs : setTabExecuting(t)
    \/ \E t \in QueryTabs, rs \in Seq(Results \ InUse) : Unique(rs) /\ setTabResults(t, rs)

\* Steps that leave the results.
LEMMA OpeningKeeps ==
    ASSUME TabsInv, UNCHANGED <<resultTabs, activeResult>>, tabs' \in Seq(Tab), Unique(tabs'),
           Open \subseteq Open', activeTabId' \in Tab \cup {Absent},
           executing' \subseteq QueryTabs \cap Open'
    PROVE  TabsInv'
<1>1. TabsTypeOK'
  BY DEF TabsInv, TabsTypeOK
<1>2. TabsAreWellFormed'
  BY DEF TabsInv, TabsAreWellFormed, Unique
<1> QED
  BY <1>1, <1>2 DEF TabsInv

\* Steps that close tabs, and forget those that are closed.
LEMMA ForgettingKeeps ==
    ASSUME TabsInv, NEW S, Forget(S), tabs' \in Seq(Tab), Unique(tabs'), Open' \subseteq Open,
           (Open \cap QueryTabs) \ S \subseteq Open', activeTabId' \in Tab \cup {Absent}
    PROVE  TabsInv'
<1>1. \A t \in QueryTabs :
         /\ resultTabs'[t] = IF t \in S THEN <<>> ELSE resultTabs[t]
         /\ activeResult'[t] = IF t \in S THEN Absent ELSE activeResult[t]
  BY DEF Forget
<1>2. executing' = executing \ S
  BY DEF Forget
<1>3. Range(<<>>) = {} /\ Len(<<>>) = 0 /\ \A T : <<>> \in Seq(T)
  BY DEF Range
<1>4. TabsTypeOK'
  <2>1. \A t \in QueryTabs : resultTabs'[t] \in Seq(Results) /\ activeResult'[t] \in Results \cup {Absent}
    BY <1>1, <1>3 DEF TabsInv, TabsTypeOK
  <2>2. resultTabs' \in [QueryTabs -> Seq(Results)] /\ activeResult' \in [QueryTabs -> Results \cup {Absent}]
    BY <2>1 DEF Forget
  <2> QED
    BY <1>2, <2>2 DEF TabsInv, TabsTypeOK
<1>5. TabsAreWellFormed'
  <2>1. \A t \in QueryTabs :
          /\ resultTabs'[t] # <<>> => t \in Open' /\ activeResult'[t] \in Range(resultTabs'[t])
          /\ resultTabs'[t] = <<>> => activeResult'[t] = Absent
    BY <1>1 DEF TabsInv, TabsAreWellFormed
  <2>2. \A t \in QueryTabs : \A i, j \in 1..Len(resultTabs'[t]) : resultTabs'[t][i] = resultTabs'[t][j] => i = j
    BY <1>1, <1>3 DEF TabsInv, TabsAreWellFormed
  <2>3. \A s, t \in QueryTabs : s # t => Range(resultTabs'[s]) \cap Range(resultTabs'[t]) = {}
    BY <1>1, <1>3 DEF TabsInv, TabsAreWellFormed
  <2> QED
    BY <2>1, <2>2, <2>3 DEF TabsAreWellFormed, Unique
<1>6. executing' \subseteq Open'
  BY <1>2 DEF TabsInv, TabsTypeOK
<1> QED
  BY <1>4, <1>5, <1>6 DEF TabsInv

\* The tabs that are left when those at some positions go.
LEMMA Dropped ==
    ASSUME NEW T, NEW s \in Seq(T), Unique(s), NEW S
    PROVE  /\ Drop(s, S) \in Seq(T) /\ Unique(Drop(s, S))
           /\ Range(Drop(s, S)) = {s[i] : i \in (1..Len(s)) \ S}
<1> DEFINE kept == (1..Len(s)) \ S
<1>0. Len(s) \in Nat /\ kept \in SUBSET (1..Len(s)) /\ kept \subseteq Int
  BY LenProperties
<1>1. /\ Drop(s, S) \in Seq(T) /\ Len(Drop(s, S)) = Cardinality(kept)
      /\ \A j \in 1..Cardinality(kept) : Nth(kept, j) \in kept /\ Drop(s, S)[j] = s[Nth(kept, j)]
      /\ \A i \in kept : Rank(kept, i) \in 1..Cardinality(kept) /\ Drop(s, S)[Rank(kept, i)] = s[i]
  BY <1>0, Kept DEF Drop
<1>2. DOMAIN Drop(s, S) = 1..Cardinality(kept)
  BY <1>1, LenProperties
<1>3. \A j, k \in 1..Cardinality(kept) : Nth(kept, j) = Nth(kept, k) => j = k
  <2>1. \A j \in 1..Cardinality(kept) : Rank(kept, Nth(kept, j)) = j
    BY <1>0, NthProperties
  <2> QED
    BY <2>1
<1> HIDE DEF kept
<1>4. Unique(Drop(s, S))
  <2> SUFFICES ASSUME NEW j \in 1..Cardinality(kept), NEW k \in 1..Cardinality(kept),
                      Drop(s, S)[j] = Drop(s, S)[k]
               PROVE  j = k
    BY <1>1 DEF Unique
  <2>1. Nth(kept, j) \in 1..Len(s) /\ Nth(kept, k) \in 1..Len(s) /\ s[Nth(kept, j)] = s[Nth(kept, k)]
    BY <1>0, <1>1
  <2>2. Nth(kept, j) = Nth(kept, k)
    BY <2>1 DEF Unique
  <2> QED
    BY <1>3, <2>2
<1>5. Range(Drop(s, S)) = {s[i] : i \in kept}
  <2>1. Range(Drop(s, S)) \subseteq {s[i] : i \in kept}
    BY <1>1, <1>2 DEF Range
  <2>2. \A i \in kept : s[i] \in Range(Drop(s, S))
    <3> TAKE i \in kept
    <3>1. Rank(kept, i) \in DOMAIN Drop(s, S) /\ Drop(s, S)[Rank(kept, i)] = s[i]
      BY <1>1, <1>2
    <3> QED
      BY <3>1 DEF Range
  <2> QED
    BY <2>1, <2>2
<1> QED
  BY <1>1, <1>4, <1>5 DEF kept

\* A query tab, or a schema tab not yet there, opens at the front.
LEMMA FrontOpens ==
    ASSUME TabsInv, NEW t \in Tab \ Open, tabs' = <<t>> \o tabs
    PROVE  tabs' \in Seq(Tab) /\ Unique(tabs') /\ Open' = {t} \cup Open
<1>0. tabs \in Seq(Tab) /\ Unique(tabs) /\ Len(tabs) \in Nat /\ DOMAIN tabs = 1..Len(tabs)
  BY LenProperties DEF TabsInv, TabsTypeOK, TabsAreWellFormed, Unique
<1>1. /\ tabs' \in Seq(Tab) /\ Len(tabs') = Len(tabs) + 1 /\ tabs'[1] = t
      /\ \A i \in 1..Len(tabs) : tabs'[i + 1] = tabs[i]
      /\ Range(tabs') = {t} \cup Range(tabs)
  BY <1>0, Prepended
<1>2. \A i \in 1..Len(tabs') : i = 1 \/ (i - 1 \in 1..Len(tabs) /\ tabs'[i] = tabs[i - 1])
  <2> TAKE i \in 1..Len(tabs')
  <2>1. i # 1 => i - 1 \in 1..Len(tabs) /\ (i - 1) + 1 = i
    BY <1>0, <1>1
  <2> QED
    BY <1>1, <2>1
<1>3. \A i \in 1..Len(tabs) : tabs[i] # t
  BY <1>0 DEF Open, Range
<1>4. Unique(tabs')
  <2> SUFFICES ASSUME NEW i \in 1..Len(tabs'), NEW j \in 1..Len(tabs'), tabs'[i] = tabs'[j] PROVE i = j
    BY DEF Unique
  <2>1. i \in Int /\ j \in Int
    OBVIOUS
  <2>2. CASE i = 1 \/ j = 1
    BY <1>1, <1>2, <1>3, <2>2
  <2>3. CASE i # 1 /\ j # 1
    <3>1. i - 1 = j - 1
      BY <1>0, <1>2, <2>3 DEF Unique
    <3> QED
      BY <2>1, <3>1
  <2> QED
    BY <2>2, <2>3
<1> QED
  BY <1>1, <1>4 DEF Open

\* Every change of the tabs keeps them well formed.
LEMMA TabsStepKeeps ==
    ASSUME EditorTabsAssumption, TabsInv, TabsStep
    PROVE  TabsInv'
<1>0. /\ tabs \in Seq(Tab) /\ Unique(tabs) /\ Len(tabs) \in Nat /\ DOMAIN tabs = 1..Len(tabs)
      /\ activeTabId \in Tab \cup {Absent} /\ executing \subseteq QueryTabs \cap Open
      /\ Open \subseteq Tab
  <2>1. tabs \in Seq(Tab)
    BY DEF TabsInv, TabsTypeOK
  <2>2. Len(tabs) \in Nat /\ DOMAIN tabs = 1..Len(tabs)
    BY <2>1, LenProperties
  <2>3. Open \subseteq Tab
    BY <2>1, <2>2 DEF Open, Range
  <2>4. Unique(tabs)
    BY DEF TabsInv, TabsAreWellFormed, Unique
  <2>5. activeTabId \in Tab \cup {Absent} /\ executing \subseteq QueryTabs \cap Open
    BY DEF TabsInv, TabsTypeOK
  <2> QED
    BY <2>1, <2>2, <2>3, <2>4, <2>5
<1>1. ASSUME NEW t \in QueryTabs, createTab(t) PROVE TabsInv'
  <2>1. t \in Tab \ Open
    BY <1>1 DEF createTab, Tab
  <2>2. tabs' \in Seq(Tab) /\ Unique(tabs') /\ Open' = {t} \cup Open
    BY <1>1, <2>1, FrontOpens DEF createTab
  <2> QED
    BY <1>0, <1>1, <2>1, <2>2, OpeningKeeps DEF createTab
<1>2. ASSUME NEW t \in SchemaTabs, createSchemaTab(t) PROVE TabsInv'
  <2>1. CASE t \in Open
    BY <1>0, <1>2, <2>1, OpeningKeeps DEF createSchemaTab, Open
  <2>2. CASE t \notin Open
    <3>1. t \in Tab \ Open
      BY <1>2, <2>2 DEF Tab
    <3>2. tabs' \in Seq(Tab) /\ Unique(tabs') /\ Open' = {t} \cup Open
      BY <1>2, <2>2, <3>1, FrontOpens DEF createSchemaTab
    <3> QED
      BY <1>0, <1>2, <3>1, <3>2, OpeningKeeps DEF createSchemaTab
  <2> QED
    BY <2>1, <2>2
<1>3. ASSUME NEW t \in Tab, setActiveTabId(t) PROVE TabsInv'
  BY <1>0, <1>3, OpeningKeeps DEF setActiveTabId, Open
<1>4. ASSUME NEW t \in QueryTabs, NEW r \in Results, setActiveResultTab(t, r) PROVE TabsInv'
  <2>1. activeResult' = [activeResult EXCEPT ![t] = r] /\ UNCHANGED <<tabs, activeTabId, resultTabs, executing>>
        /\ r \in Range(resultTabs[t])
    BY <1>4 DEF setActiveResultTab
  <2>2. Range(<<>>) = {}
    BY DEF Range
  <2>3. activeResult' \in [QueryTabs -> Results \cup {Absent}]
        /\ \A u \in QueryTabs : activeResult'[u] = IF u = t THEN r ELSE activeResult[u]
    BY <2>1 DEF TabsInv, TabsTypeOK
  <2> QED
    BY <2>1, <2>2, <2>3 DEF TabsInv, TabsTypeOK, TabsAreWellFormed, Open
<1>5. ASSUME NEW t \in Tab, closeTab(t) PROVE TabsInv'
  <2>1. /\ tabs' \in Seq(Tab) /\ Unique(tabs')
        /\ Range(tabs') = {tabs[i] : i \in (1..Len(tabs)) \ {j \in 1..Len(tabs) : tabs[j] = t}}
    BY <1>0, <1>5, Dropped DEF closeTab, Without
  <2>2. Open' = Open \ {t}
    BY <1>0, <2>1 DEF Open, Range
  <2>3. activeTabId' \in Tab \cup {Absent}
    <3>1. tabs' # <<>> => Head(tabs') \in Tab
      BY <2>1, HeadTailProperties
    <3> QED
      BY <1>0, <1>5, <3>1 DEF closeTab
  <2>4. Forget({t})
    BY <1>5 DEF closeTab
  <2> QED
    BY <2>1, <2>2, <2>3, <2>4, ForgettingKeeps
<1>6. ASSUME NEW t \in Tab, closeOtherTabs(t) PROVE TabsInv'
  <2>1. tabs' = <<t>> /\ activeTabId' = t /\ t \in Open /\ Forget(Open \ {t})
    BY <1>6 DEF closeOtherTabs
  <2>2. tabs' \in Seq(Tab) /\ Unique(tabs')
    BY <2>1 DEF Unique
  <2>3. Open' = {t}
    BY <2>1 DEF Open, Range
  <2> QED
    BY <2>1, <2>2, <2>3, ForgettingKeeps
<1>7. ASSUME NEW i \in 1..Len(tabs), closeTabsToRight(i) PROVE TabsInv'
  <2> DEFINE left == SubSeq(tabs, 1, i)
  <2>1. tabs' = left /\ UNCHANGED activeTabId /\ Forget(Open \ Range(left))
    BY <1>7 DEF closeTabsToRight
  <2>2. i \in Nat /\ i <= Len(tabs) /\ \A j \in 1..i : j \in 1..Len(tabs) /\ tabs[j] \in Tab
    BY <1>0, LenProperties
  <2>3. left \in Seq(Tab) /\ Len(left) = i /\ \A j \in 1..i : left[j] = tabs[j]
    BY <1>0, <2>2, SubSeqProperties
  <2>4. DOMAIN left = 1..i
    BY <2>3, LenProperties
  <2> HIDE DEF left
  <2>5. Unique(tabs')
    BY <1>0, <2>1, <2>2, <2>3 DEF Unique
  <2>6. Range(left) \subseteq Open
    BY <1>0, <2>2, <2>3, <2>4 DEF Open, Range
  <2>7. Open' = Range(left)
    BY <2>1 DEF Open
  <2> QED
    BY <1>0, <2>1, <2>3, <2>5, <2>6, <2>7, ForgettingKeeps
<1>8. ASSUME closeAllTabs PROVE TabsInv'
  <2>1. tabs' = <<>> /\ activeTabId' = Absent /\ Forget(QueryTabs)
    BY <1>8 DEF closeAllTabs
  <2>2. tabs' \in Seq(Tab) /\ Unique(tabs') /\ Open' = {}
    BY <2>1 DEF Unique, Open, Range
  <2> QED
    BY <2>1, <2>2, ForgettingKeeps
<1>9. ASSUME Reload PROVE TabsInv'
  <2>1. Forget(QueryTabs) /\ UNCHANGED <<tabs, activeTabId>>
    BY <1>9 DEF Reload
  <2>2. tabs' \in Seq(Tab) /\ Unique(tabs') /\ Open' = Open
    BY <1>0, <2>1 DEF Open
  <2> QED
    BY <1>0, <2>1, <2>2, ForgettingKeeps
<1>10. ASSUME NEW t \in QueryTabs, setTabExecuting(t) PROVE TabsInv'
  BY <1>0, <1>10, OpeningKeeps DEF setTabExecuting, Open
<1>11. ASSUME NEW t \in QueryTabs, NEW rs \in Seq(Results \ InUse), Unique(rs), setTabResults(t, rs)
       PROVE  TabsInv'
  <2> DEFINE old == resultTabs[t]
             new == rs \o old
             front == IF rs = <<>> THEN activeResult[t] ELSE Head(rs)
  <2>1. /\ t \in executing /\ executing' = executing \ {t} /\ UNCHANGED <<tabs, activeTabId>>
        /\ resultTabs' = [resultTabs EXCEPT ![t] = new]
        /\ activeResult' = [activeResult EXCEPT ![t] = front]
    BY <1>11 DEF setTabResults
  <2>2. old \in Seq(Results) /\ rs \in Seq(Results)
    BY DEF TabsInv, TabsTypeOK
  <2>3. /\ new \in Seq(Results) /\ Len(new) = Len(rs) + Len(old)
        /\ \A i \in 1..(Len(rs) + Len(old)) : new[i] = IF i <= Len(rs) THEN rs[i] ELSE old[i - Len(rs)]
        /\ Range(new) = Range(rs) \cup Range(old)
        /\ rs = <<>> => new = old
        /\ rs # <<>> => new # <<>> /\ Head(rs) \in Range(rs)
    BY <2>2, Prefixed
  <2>4. Range(rs) \subseteq Results /\ \A u \in QueryTabs : Range(rs) \cap Range(resultTabs[u]) = {}
    <3>1. Range(rs) \subseteq Results \ InUse
      BY DEF Range
    <3> QED
      BY <3>1 DEF InUse
  <2>5. Unique(new)
    <3>0. /\ Len(rs) \in Nat /\ Len(old) \in Nat
          /\ DOMAIN rs = 1..Len(rs) /\ DOMAIN old = 1..Len(old)
      BY <2>2, LenProperties
    <3>1. /\ \A i, j \in 1..Len(rs) : rs[i] = rs[j] => i = j
          /\ \A i, j \in 1..Len(old) : old[i] = old[j] => i = j
      BY <1>11 DEF Unique, TabsInv, TabsAreWellFormed
    <3>2. \A i \in 1..Len(rs), j \in 1..Len(old) : rs[i] # old[j]
      BY <2>4, <3>0 DEF Range
    <3> SUFFICES ASSUME NEW i \in 1..Len(new), NEW j \in 1..Len(new), new[i] = new[j] PROVE i = j
      BY DEF Unique
    <3>3. \A h \in 1..Len(new) : \/ (h \in 1..Len(rs) /\ new[h] = rs[h])
                                  \/ (h - Len(rs) \in 1..Len(old) /\ new[h] = old[h - Len(rs)])
      BY <2>3, <3>0
    <3>4. i \in Int /\ j \in Int
      OBVIOUS
    <3> HIDE DEF new, old
    <3>5. CASE i \in 1..Len(rs) /\ new[i] = rs[i]
      <4>1. j \in 1..Len(rs) /\ new[j] = rs[j]
        BY <3>2, <3>3, <3>5
      <4> QED
        BY <3>1, <3>5, <4>1
    <3>6. CASE i - Len(rs) \in 1..Len(old) /\ new[i] = old[i - Len(rs)]
      <4>1. j - Len(rs) \in 1..Len(old) /\ new[j] = old[j - Len(rs)]
        BY <3>2, <3>3, <3>6
      <4>2. i - Len(rs) = j - Len(rs)
        BY <3>1, <3>6, <4>1
      <4> QED
        BY <3>0, <3>4, <4>2
    <3> QED
      BY <3>3, <3>5, <3>6
  <2> HIDE DEF new, front
  <2>6. \A u \in QueryTabs : /\ resultTabs'[u] = IF u = t THEN new ELSE resultTabs[u]
                             /\ activeResult'[u] = IF u = t THEN front ELSE activeResult[u]
    BY <2>1 DEF TabsInv, TabsTypeOK
  <2>7. TabsTypeOK'
    <3>1. front \in Results \cup {Absent}
      BY <2>3, <2>4 DEF front, TabsInv, TabsTypeOK
    <3> QED
      BY <2>1, <2>3, <3>1 DEF TabsInv, TabsTypeOK
  <2>8. t \in Open /\ Open' = Open
    BY <2>1 DEF TabsInv, Open
  <2>9. TabsAreWellFormed'
    <3>1. \A u \in QueryTabs :
            /\ resultTabs'[u] # <<>> => u \in Open' /\ activeResult'[u] \in Range(resultTabs'[u])
            /\ resultTabs'[u] = <<>> => activeResult'[u] = Absent
      BY <2>3, <2>6, <2>8 DEF TabsInv, TabsAreWellFormed, front
    <3>2. \A u \in QueryTabs : \A i, j \in 1..Len(resultTabs'[u]) : resultTabs'[u][i] = resultTabs'[u][j] => i = j
      BY <2>5, <2>6 DEF TabsInv, TabsAreWellFormed, Unique
    <3>3. \A s, u \in QueryTabs : s # u => Range(resultTabs'[s]) \cap Range(resultTabs'[u]) = {}
      <4>1. \A s, u \in QueryTabs : s # u => Range(resultTabs[s]) \cap Range(resultTabs[u]) = {}
        BY DEF TabsInv, TabsAreWellFormed
      <4>2. \A u \in QueryTabs : Range(resultTabs'[u])
              = IF u = t THEN Range(rs) \cup Range(resultTabs[t]) ELSE Range(resultTabs[u])
        BY <2>3, <2>6
      <4> QED
        BY <2>4, <4>1, <4>2
    <3>4. \A i, j \in 1..Len(tabs') : tabs'[i] = tabs'[j] => i = j
      BY <2>1 DEF TabsInv, TabsAreWellFormed
    <3> QED
      BY <3>1, <3>2, <3>3, <3>4 DEF TabsAreWellFormed
  <2> QED
    BY <2>1, <2>7, <2>8, <2>9 DEF TabsInv
<1> QED
  BY <1>1, <1>2, <1>3, <1>4, <1>5, <1>6, <1>7, <1>8, <1>9, <1>10, <1>11 DEF TabsStep, Selecting, Closing

\* A result never moves from one tab to another.
LEMMA ResultsStay ==
    ASSUME TabsInv, TabsStep, NEW t \in QueryTabs, NEW r \in InUse, r \in Range(resultTabs'[t])
    PROVE  r \in Range(resultTabs[t])
<1>1. ASSUME NEW S, Forget(S) PROVE r \in Range(resultTabs[t])
  <2>1. resultTabs'[t] = <<>> \/ resultTabs'[t] = resultTabs[t]
    BY <1>1 DEF Forget
  <2> QED
    BY <2>1 DEF Range
<1>2. CASE resultTabs' = resultTabs
  BY <1>2
<1>3. ASSUME NEW u \in QueryTabs, NEW rs \in Seq(Results \ InUse), setTabResults(u, rs)
      PROVE  r \in Range(resultTabs[t])
  <2>1. resultTabs \in [QueryTabs -> Seq(Results)] /\ rs \in Seq(Results)
    BY DEF TabsInv, TabsTypeOK
  <2>2. resultTabs'[t] = IF t = u THEN rs \o resultTabs[t] ELSE resultTabs[t]
    BY <1>3, <2>1 DEF setTabResults
  <2>3. Range(rs \o resultTabs[t]) = Range(rs) \cup Range(resultTabs[t])
    BY <2>1, Prefixed
  <2>4. r \notin Range(rs)
    BY DEF Range
  <2> QED
    BY <2>2, <2>3, <2>4
<1> QED
  BY <1>1, <1>2, <1>3 DEF TabsStep, Selecting, Closing, createTab, createSchemaTab, setActiveTabId,
     setActiveResultTab, closeTab, closeOtherTabs, closeTabsToRight, closeAllTabs, Reload,
     setTabExecuting

\* The tab on screen is open, or closeTabsToRight has just closed it.
LEMMA ScreenStays ==
    ASSUME EditorTabsAssumption, TabsInv, TabsStep, ActiveTabIsOpen, ~ActiveTabIsOpen'
    PROVE  \E i \in 1..Len(tabs) : closeTabsToRight(i)
<1>0. /\ tabs \in Seq(Tab) /\ Unique(tabs) /\ Len(tabs) \in Nat /\ DOMAIN tabs = 1..Len(tabs)
  BY LenProperties DEF TabsInv, TabsTypeOK, TabsAreWellFormed, Unique
<1>1. tabs' # <<>> /\ activeTabId' \notin Open'
  BY DEF ActiveTabIsOpen
<1>2. ASSUME NEW t \in Tab \ Open, tabs' = <<t>> \o tabs, activeTabId' = t PROVE FALSE
  BY <1>1, <1>2, FrontOpens
<1>3. ASSUME NEW t \in QueryTabs, createTab(t) PROVE FALSE
  BY <1>2, <1>3 DEF createTab, Tab
<1>4. ASSUME NEW t \in SchemaTabs, createSchemaTab(t) PROVE FALSE
  BY <1>1, <1>2, <1>4 DEF createSchemaTab, Tab, Open
<1>5. ASSUME NEW t \in Tab, setActiveTabId(t) PROVE FALSE
  BY <1>1, <1>5 DEF setActiveTabId, Open
<1>6. CASE UNCHANGED <<tabs, activeTabId>>
  BY <1>6 DEF ActiveTabIsOpen, Open
<1>7. ASSUME NEW t \in Tab, closeTab(t) PROVE FALSE
  <2>1. tabs' \in Seq(Tab)
        /\ Range(tabs') = {tabs[i] : i \in (1..Len(tabs)) \ {j \in 1..Len(tabs) : tabs[j] = t}}
    BY <1>0, <1>7, Dropped DEF closeTab, Without
  <2>2. t \in Open /\ Open' = Open \ {t}
    BY <1>0, <1>7, <2>1 DEF Open, Range, closeTab
  <2>3. CASE activeTabId = t
    <3>1. activeTabId' = Head(tabs')
      BY <1>1, <1>7, <2>3 DEF closeTab
    <3>2. Head(tabs') = tabs'[1] /\ 1 \in DOMAIN tabs'
      BY <1>1, <2>1, LenProperties, EmptySeq
    <3> QED
      BY <1>1, <3>1, <3>2 DEF Open, Range
  <2>4. CASE activeTabId # t
    <3>1. tabs # <<>>
      BY <2>2 DEF Open, Range
    <3>2. activeTabId \in Open /\ activeTabId' = activeTabId
      BY <1>7, <2>4, <3>1 DEF ActiveTabIsOpen, closeTab
    <3> QED
      BY <1>1, <2>2, <2>4, <3>2
  <2> QED
    BY <2>3, <2>4
<1>8. ASSUME NEW t \in Tab, closeOtherTabs(t) PROVE FALSE
  BY <1>1, <1>8 DEF closeOtherTabs, Open, Range
<1>9. ~closeAllTabs
  BY <1>1 DEF closeAllTabs
<1> QED
  BY <1>3, <1>4, <1>5, <1>6, <1>7, <1>8, <1>9 DEF TabsStep, Selecting, Closing, setActiveResultTab,
     Reload, setTabExecuting, setTabResults

-----------------------------------------------------------------------------
(* The invariant of the grid. *)

TableRow == [k : Keys, v : Values \cup {Null}]

\* The results of the editor tab on screen.
OfTheTab == IF activeTab \in QueryTabs THEN Range(resultTabs[activeTab]) ELSE {}

RowsOK(rows) ==
    /\ rows \in Seq(DisplayRow)
    /\ \A i \in 1..Len(rows) : rows[i].status = "staged-update" => rows[i].originalData # NoRow

\* The rows the query read are in the grid, in their places and with what discarding gives
\* them back; the new rows are behind them.
Grounded(rows, table) ==
    /\ Len(table) <= Len(rows)
    /\ \A i \in 1..Len(rows) :
         IF i <= Len(table)
         THEN /\ rows[i].status # "staged-insert" /\ Original(rows[i]) = table[i]
              /\ rows[i].status # "staged-update" => rows[i].originalData = NoRow
         ELSE rows[i].status = "staged-insert" /\ rows[i].originalData = NoRow

\* A panel over a grid of n rows.
PanelOK(p, n) ==
    /\ p \in Panel
    /\ p.on \in {"row", "hidden"} => p.at \in 1..n
    /\ p.on = "hidden" => ~p.editing /\ ~p.pending
    /\ p.pending => p.editing

Height == IF OnScreen THEN Len(Rows) ELSE 0

GInv ==
    /\ TabsInv
    /\ fetched \in [Results -> Seq(TableRow)] /\ displayRows \in [Results -> Seq(DisplayRow)]
    /\ mounted \subseteq OfTheTab /\ (OnScreen => shown \in mounted)
    /\ \A r \in mounted : RowsOK(displayRows[r])
    /\ \A r \in mounted \ converted : Grounded(displayRows[r], fetched[r])
    /\ PanelOK(panel, Height)
    /\ preview => OnScreen /\ StagedIn(Rows) # {}

\* The JSON modal is over a result, and never over the review.
JsonOK == jsonModal \in Nat /\ (jsonModal # 0 => OnScreen /\ ~preview)

\* What the assumption on the constants says of rows and tables.
LEMMA Assumed ==
    /\ \A x : x \in Row => x # NoRow
    /\ TableRow \subseteq Row /\ \A table \in Tables : table \in Seq(TableRow)
BY ResultsGridAssumption DEF ResultsGridAssumption, TableRow, Row

\* The invariant that the run checks follows.
LEMMA GridImplied == GInv /\ JsonOK => GridInv
<1> SUFFICES ASSUME GInv, JsonOK PROVE GridInv
  OBVIOUS
<1>1. TabsTypeOK /\ TabsAreWellFormed
  BY DEF GInv, TabsInv
<1>2. mounted \subseteq InUse
  BY DEF GInv, OfTheTab, InUse
<1>3. panel \in Panel /\ (panel.on \in {"row", "hidden"} => panel.at \in 1..Len(Rows))
  BY DEF GInv, PanelOK, Height
<1>4. panel.on = "hidden" => ~panel.editing /\ ~panel.pending
  BY DEF GInv, PanelOK
<1>5. \A r \in mounted : \A i \in 1..Len(displayRows[r]) :
        displayRows[r][i].status = "staged-update" => displayRows[r][i].originalData # NoRow
  BY DEF GInv, RowsOK
<1> QED
  BY <1>1, <1>2, <1>3, <1>4, <1>5 DEF GInv, JsonOK, GridInv, GridTypeOK, TableRow

-----------------------------------------------------------------------------
(* What the handlers make of the rows. *)

\* The rows of a grid are a sequence of rows.
LEMMA RowsLength ==
    ASSUME NEW rows, RowsOK(rows)
    PROVE  /\ Len(rows) \in Nat /\ DOMAIN rows = 1..Len(rows)
           /\ \A i \in 1..Len(rows) : rows[i] \in DisplayRow
BY LenProperties DEF RowsOK

\* The rows of a query, as they come.
LEMMA FreshRows ==
    ASSUME NEW table \in Seq(TableRow)
    PROVE  RowsOK(Fresh(table)) /\ Grounded(Fresh(table), table) /\ StagedIn(Fresh(table)) = {}
<1> DEFINE row(i) == [data |-> table[i], status |-> "normal", originalData |-> NoRow]
<1>1. Len(table) \in Nat /\ \A i \in 1..Len(table) : table[i] \in Row
  BY Assumed, LenProperties
<1>2. \A i \in 1..Len(table) : row(i) \in DisplayRow
  BY <1>1 DEF DisplayRow
<1>3. Fresh(table) = [i \in 1..Len(table) |-> row(i)]
  BY DEF Fresh
<1>4. Fresh(table) \in Seq(DisplayRow) /\ Len(Fresh(table)) = Len(table)
      /\ \A i \in 1..Len(table) : Fresh(table)[i] = row(i)
  BY <1>1, <1>2, <1>3
<1>5. \A i \in 1..Len(table) : /\ Fresh(table)[i].status = "normal"
                                /\ Fresh(table)[i].data = table[i]
                                /\ Fresh(table)[i].originalData = NoRow
  <2>1. \A i \in 1..Len(table) :
          row(i).status = "normal" /\ row(i).data = table[i] /\ row(i).originalData = NoRow
    OBVIOUS
  <2> HIDE DEF row
  <2> QED
    BY <1>4, <2>1
<1>6. RowsOK(Fresh(table))
  BY <1>4, <1>5 DEF RowsOK
<1>7. Grounded(Fresh(table), table)
  BY <1>1, <1>4, <1>5 DEF Grounded, Original
<1>8. StagedIn(Fresh(table)) = {}
  BY <1>4, <1>5 DEF StagedIn, isStaged
<1> QED
  BY <1>6, <1>7, <1>8

\* A row that is staged, unstaged or changed, in its place.
LEMMA StagedRow ==
    ASSUME NEW rows, RowsOK(rows), NEW i \in 1..Len(rows), NEW data \in Row,
           NEW status \in {"normal", "staged-delete", "staged-update", "staged-insert"},
           NEW original \in Row \cup {NoRow}, status = "staged-update" => original # NoRow
    PROVE  /\ RowsOK(Stage(rows, i, data, status, original))
           /\ Len(Stage(rows, i, data, status, original)) = Len(rows)
           /\ \A j \in 1..Len(rows) :
                Stage(rows, i, data, status, original)[j] =
                  IF j = i THEN [data |-> data, status |-> status, originalData |-> original]
                  ELSE rows[j]
<1> DEFINE new == Stage(rows, i, data, status, original)
           row == [data |-> data, status |-> status, originalData |-> original]
<1>0. row \in DisplayRow /\ row.status = status /\ row.originalData = original /\ row.data = data
  BY DEF DisplayRow
<1>1. new = [rows EXCEPT ![i] = row]
  BY DEF Stage
<1> HIDE DEF row
<1>2. new \in Seq(DisplayRow) /\ Len(new) = Len(rows)
      /\ \A j \in 1..Len(rows) : new[j] = IF j = i THEN row ELSE rows[j]
  BY <1>0, <1>1 DEF RowsOK
<1> HIDE DEF new
<1>3. RowsOK(new)
  BY <1>0, <1>2 DEF RowsOK
<1> QED
  BY <1>0, <1>2, <1>3 DEF new, row

\* Staging deletes.
LEMMA DeletedRows ==
    ASSUME NEW rows, RowsOK(rows), NEW selected
    PROVE  /\ RowsOK(Delete(rows, selected)) /\ Len(Delete(rows, selected)) = Len(rows)
           /\ \A table : Grounded(rows, table) => Grounded(Delete(rows, selected), table)
<1> DEFINE deleted(row) == [row EXCEPT !.status = "staged-delete"]
           new == Delete(rows, selected)
           hit(i) == i \in selected /\ rows[i].status = "normal"
<1>0. Len(rows) \in Nat /\ \A i \in 1..Len(rows) : rows[i] \in DisplayRow
  BY RowsLength
<1>1. \A row \in DisplayRow : /\ deleted(row) \in DisplayRow /\ deleted(row).status = "staged-delete"
                              /\ deleted(row).data = row.data
                              /\ deleted(row).originalData = row.originalData
  BY DEF DisplayRow
<1>2. new = [i \in 1..Len(rows) |-> IF hit(i) THEN deleted(rows[i]) ELSE rows[i]]
  BY DEF Delete
<1> HIDE DEF deleted
<1>3. /\ new \in Seq(DisplayRow) /\ Len(new) = Len(rows)
      /\ \A i \in 1..Len(rows) : new[i] = IF hit(i) THEN deleted(rows[i]) ELSE rows[i]
  BY <1>0, <1>1, <1>2
<1> HIDE DEF new
<1>4. RowsOK(new)
  BY <1>0, <1>1, <1>3 DEF RowsOK
<1>5. ASSUME NEW table, Grounded(rows, table) PROVE Grounded(new, table)
  BY <1>0, <1>1, <1>3, <1>5 DEF Grounded, Original
<1> QED
  BY <1>3, <1>4, <1>5 DEF new

\* A new row, at the end.
LEMMA AppendedRow ==
    ASSUME NEW rows, RowsOK(rows), NEW data \in Row
    PROVE  LET new == Append(rows, [data |-> data, status |-> "staged-insert", originalData |-> NoRow])
           IN  /\ RowsOK(new) /\ Len(new) = Len(rows) + 1
               /\ \A table : Grounded(rows, table) /\ Len(table) \in Nat => Grounded(new, table)
<1> DEFINE row == [data |-> data, status |-> "staged-insert", originalData |-> NoRow]
           new == Append(rows, row)
<1>0. row \in DisplayRow /\ row.status = "staged-insert" /\ row.originalData = NoRow
  BY DEF DisplayRow
<1> HIDE DEF row
<1>1. rows \in Seq(DisplayRow) /\ Len(rows) \in Nat
  BY RowsLength DEF RowsOK
<1>2. /\ new \in Seq(DisplayRow) /\ Len(new) = Len(rows) + 1
      /\ \A i \in 1..(Len(rows) + 1) : new[i] = IF i <= Len(rows) THEN rows[i] ELSE row
  BY <1>0, <1>1
<1> HIDE DEF new
<1>3. \A i \in 1..(Len(rows) + 1) : i <= Len(rows) => i \in 1..Len(rows)
  BY <1>1
<1>4. RowsOK(new)
  BY <1>0, <1>1, <1>2, <1>3 DEF RowsOK
<1>5. ASSUME NEW table, Grounded(rows, table), Len(table) \in Nat PROVE Grounded(new, table)
  <2>1. Len(table) <= Len(rows)
    BY <1>5 DEF Grounded
  <2>2. \A i \in 1..(Len(rows) + 1) : ~(i <= Len(rows)) => ~(i <= Len(table))
    BY <1>1, <1>5, <2>1
  <2>3. Len(table) <= Len(new)
    BY <1>1, <1>2, <1>5, <2>1
  <2> QED
    BY <1>0, <1>2, <1>3, <1>5, <2>2, <2>3 DEF Grounded, Original
<1> QED
  BY <1>2, <1>4, <1>5 DEF new, row

\* Rows that are removed: new rows only, so that the others keep their places.
LEMMA DroppedRows ==
    ASSUME NEW rows, RowsOK(rows), NEW gone \in SUBSET (1..Len(rows))
    PROVE  /\ RowsOK(Drop(rows, gone))
           /\ Len(Drop(rows, gone)) = Cardinality((1..Len(rows)) \ gone)
           /\ \A table : /\ Grounded(rows, table) /\ Len(table) \in Nat
                         /\ \A i \in gone : i > Len(table)
                         => /\ Grounded(Drop(rows, gone), table)
                            /\ \A j \in 1..Len(table) : /\ Nth((1..Len(rows)) \ gone, j) = j
                                                        /\ Drop(rows, gone)[j] = rows[j]
<1> DEFINE kept == (1..Len(rows)) \ gone
           new == Drop(rows, gone)
<1>0. rows \in Seq(DisplayRow) /\ Len(rows) \in Nat /\ kept \in SUBSET (1..Len(rows))
  BY RowsLength DEF RowsOK
<1>1. /\ new \in Seq(DisplayRow) /\ Len(new) = Cardinality(kept) /\ Cardinality(kept) \in 0..Len(rows)
      /\ \A j \in 1..Cardinality(kept) : Nth(kept, j) \in kept /\ new[j] = rows[Nth(kept, j)]
  BY <1>0, Kept DEF Drop
<1> HIDE DEF new
<1>2. RowsOK(new)
  BY <1>0, <1>1 DEF RowsOK
<1>3. ASSUME NEW table, Grounded(rows, table), Len(table) \in Nat, \A i \in gone : i > Len(table)
      PROVE  /\ Grounded(new, table)
             /\ \A j \in 1..Len(table) : Nth(kept, j) = j /\ new[j] = rows[j]
  <2>1. Len(table) \in 0..Len(rows)
    BY <1>0, <1>3 DEF Grounded
  <2>2. 1..Len(table) \subseteq kept
    <3> SUFFICES ASSUME NEW i \in 1..Len(table) PROVE i \in 1..Len(rows) /\ i \notin gone
      OBVIOUS
    <3> QED
      BY <1>0, <1>3, <2>1
  <2>3. /\ Len(table) <= Cardinality(kept) /\ \A j \in 1..Len(table) : Nth(kept, j) = j
        /\ \A j \in 1..Cardinality(kept) : j > Len(table) => Nth(kept, j) > Len(table)
    BY <1>0, <2>1, <2>2, PrefixStays
  <2>4. \A j \in 1..Len(table) : j \in 1..Cardinality(kept) /\ new[j] = rows[j]
    <3> TAKE j \in 1..Len(table)
    <3>1. j \in 1..Cardinality(kept)
      BY <1>1, <2>3
    <3> QED
      BY <1>1, <2>3, <3>1
  <2>5. \A j \in 1..Cardinality(kept) : j > Len(table) =>
          Nth(kept, j) \in 1..Len(rows) /\ ~(Nth(kept, j) <= Len(table))
    <3> HIDE DEF kept
    <3> TAKE j \in 1..Cardinality(kept)
    <3>1. Nth(kept, j) \in 1..Len(rows)
      BY <1>0, <1>1
    <3>2. j > Len(table) => Nth(kept, j) > Len(table)
      BY <2>3
    <3> QED
      BY <1>3, <3>1, <3>2
  <2> HIDE DEF kept
  <2>6. Grounded(new, table)
    <3> SUFFICES ASSUME NEW j \in 1..Len(new)
                 PROVE  IF j <= Len(table)
                        THEN /\ new[j].status # "staged-insert" /\ Original(new[j]) = table[j]
                             /\ new[j].status # "staged-update" => new[j].originalData = NoRow
                        ELSE new[j].status = "staged-insert" /\ new[j].originalData = NoRow
      BY <1>1, <2>3 DEF Grounded
    <3>1. CASE j <= Len(table)
      <4>1. j \in 1..Len(table) /\ j \in 1..Len(rows)
        BY <1>0, <1>1, <2>1, <3>1
      <4> QED
        BY <1>3, <2>4, <3>1, <4>1 DEF Grounded
    <3>2. CASE ~(j <= Len(table))
      <4>1. j \in 1..Cardinality(kept) /\ j > Len(table)
        BY <1>1, <1>3, <3>2
      <4>2. new[j] = rows[Nth(kept, j)] /\ Nth(kept, j) \in 1..Len(rows) /\ ~(Nth(kept, j) <= Len(table))
        BY <1>1, <2>5, <4>1
      <4> QED
        BY <1>3, <3>2, <4>2 DEF Grounded
    <3> QED
      BY <3>1, <3>2
  <2> QED
    BY <2>3, <2>4, <2>6
<1> QED
  BY <1>1, <1>2, <1>3 DEF new

\* What discarding makes of a row that stays.
Restored(row) ==
    IF row.status = "staged-delete" THEN [row EXCEPT !.status = "normal"]
    ELSE IF row.status = "staged-update"
         THEN [data |-> row.originalData, status |-> "normal", originalData |-> NoRow]
    ELSE row

\* A row that is restored is a row; as an original it stays what it was.
LEMMA RestoredRow ==
    ASSUME NEW row \in DisplayRow, row.status = "staged-update" => row.originalData # NoRow
    PROVE  /\ Restored(row) \in DisplayRow /\ Restored(row).status \notin {"staged-update", "staged-delete"}
           /\ row.status = "staged-insert" => Restored(row) = row
           /\ /\ row.status # "staged-insert"
              /\ row.status # "staged-update" => row.originalData = NoRow
              => /\ Restored(row).status = "normal" /\ Restored(row).data = Original(row)
                 /\ Restored(row).originalData = NoRow /\ Original(Restored(row)) = Original(row)
<1>1. CASE row.status = "staged-delete"
  BY <1>1 DEF Restored, DisplayRow, Original
<1>2. CASE row.status = "staged-update"
  BY <1>2 DEF Restored, DisplayRow, Original
<1>3. CASE row.status \in {"normal", "staged-insert"}
  BY <1>3 DEF Restored, DisplayRow, Original
<1>4. row.status \in {"normal", "staged-delete", "staged-update", "staged-insert"}
  BY DEF DisplayRow
<1> QED
  BY <1>1, <1>2, <1>3, <1>4

Restoring(rows, S) == [j \in 1..Len(rows) |-> IF j \in S THEN Restored(rows[j]) ELSE rows[j]]

\* Restoring some of the rows.
LEMMA RestoredRows ==
    ASSUME NEW rows, RowsOK(rows), NEW S
    PROVE  /\ RowsOK(Restoring(rows, S)) /\ Len(Restoring(rows, S)) = Len(rows)
           /\ \A j \in 1..Len(rows) :
                Restoring(rows, S)[j] = IF j \in S THEN Restored(rows[j]) ELSE rows[j]
           /\ \A table : Grounded(rows, table) => Grounded(Restoring(rows, S), table)
<1> DEFINE new == Restoring(rows, S)
<1>0. Len(rows) \in Nat /\ \A i \in 1..Len(rows) : rows[i] \in DisplayRow
  BY RowsLength
<1>1. \A j \in 1..Len(rows) :
        /\ Restored(rows[j]) \in DisplayRow
        /\ Restored(rows[j]).status # "staged-update"
        /\ rows[j].status = "staged-insert" => Restored(rows[j]) = rows[j]
        /\ /\ rows[j].status # "staged-insert"
           /\ rows[j].status # "staged-update" => rows[j].originalData = NoRow
           => /\ Restored(rows[j]).status = "normal" /\ Restored(rows[j]).originalData = NoRow
              /\ Original(Restored(rows[j])) = Original(rows[j])
  <2> TAKE j \in 1..Len(rows)
  <2>1. rows[j] \in DisplayRow /\ (rows[j].status = "staged-update" => rows[j].originalData # NoRow)
    BY <1>0 DEF RowsOK
  <2> QED
    BY <2>1, RestoredRow
<1>2. /\ new \in Seq(DisplayRow) /\ Len(new) = Len(rows)
      /\ \A j \in 1..Len(rows) : new[j] = IF j \in S THEN Restored(rows[j]) ELSE rows[j]
  BY <1>0, <1>1 DEF Restoring
<1> HIDE DEF new
<1>3. RowsOK(new)
  BY <1>1, <1>2 DEF RowsOK
<1>4. ASSUME NEW table, Grounded(rows, table) PROVE Grounded(new, table)
  BY <1>0, <1>1, <1>2, <1>4 DEF Grounded
<1> QED
  BY <1>2, <1>3, <1>4 DEF new

\* Only new rows are removed.
LEMMA InsertsAreBehind ==
    ASSUME NEW rows, NEW table, Grounded(rows, table)
    PROVE  \A i \in StagedAs(rows, "staged-insert") : i > Len(table)
BY DEF Grounded, StagedAs

\* Discarding a selection: what it removes and what it restores.
LEMMA DiscardedRows ==
    ASSUME NEW rows, RowsOK(rows), NEW selected
    PROVE  LET gone == selected \cap StagedAs(rows, "staged-insert") IN
           /\ RowsOK(Discard(rows, selected))
           /\ Len(Discard(rows, selected)) = Cardinality((1..Len(rows)) \ gone)
           /\ \A j \in 1..Cardinality((1..Len(rows)) \ gone) :
                Discard(rows, selected)[j] = IF j \in selected THEN Restored(Drop(rows, gone)[j])
                                             ELSE Drop(rows, gone)[j]
           /\ \A table : Grounded(rows, table) /\ Len(table) \in Nat
                         => Grounded(Discard(rows, selected), table)
<1> DEFINE gone == selected \cap StagedAs(rows, "staged-insert")
           rest == Drop(rows, gone)
           new == Discard(rows, selected)
<1>1. gone \in SUBSET (1..Len(rows))
  BY DEF StagedAs
<1>2. RowsOK(rest) /\ Len(rest) = Cardinality((1..Len(rows)) \ gone)
  BY <1>1, DroppedRows
<1>3. \A table : Grounded(rows, table) /\ Len(table) \in Nat => Grounded(rest, table)
  <2> SUFFICES ASSUME NEW table, Grounded(rows, table), Len(table) \in Nat PROVE Grounded(rest, table)
    OBVIOUS
  <2>1. \A i \in gone : i > Len(table)
    BY InsertsAreBehind
  <2> QED
    BY <1>1, <2>1, DroppedRows
<1>4. new = Restoring(rest, selected)
  BY DEF Discard, Restored, Restoring
<1> HIDE DEF gone, rest, new
<1>5. RowsOK(new) /\ Len(new) = Len(rest)
      /\ \A table : Grounded(rest, table) => Grounded(new, table)
  BY <1>2, <1>4, RestoredRows
<1>6. \A j \in 1..Len(rest) : new[j] = IF j \in selected THEN Restored(rest[j]) ELSE rest[j]
  BY <1>2, <1>4, RestoredRows
<1> QED
  BY <1>2, <1>3, <1>5, <1>6 DEF gone, rest, new

\* Discarding everything leaves the rows the query read, as it read them.
LEMMA DiscardedAll ==
    ASSUME NEW rows, RowsOK(rows)
    PROVE  /\ RowsOK(DiscardAll(rows))
           /\ Len(DiscardAll(rows)) = Cardinality((1..Len(rows)) \ StagedAs(rows, "staged-insert"))
           /\ \A table \in Seq(TableRow) : Grounded(rows, table)
                => /\ Grounded(DiscardAll(rows), table) /\ Len(DiscardAll(rows)) = Len(table)
                   /\ \A j \in 1..Len(table) : DiscardAll(rows)[j].data = table[j]
<1> DEFINE gone == StagedAs(rows, "staged-insert")
           rest == Drop(rows, gone)
           new == DiscardAll(rows)
           back(row) == [data |-> IF row.status = "staged-update" THEN row.originalData ELSE row.data,
                         status |-> "normal", originalData |-> NoRow]
<1>1. gone \in SUBSET (1..Len(rows))
  BY DEF StagedAs
<1>2. RowsOK(rest) /\ Len(rest) = Cardinality((1..Len(rows)) \ gone)
  BY <1>1, DroppedRows
<1>3. new = [j \in 1..Len(rest) |-> IF isStaged(rest[j]) THEN back(rest[j]) ELSE rest[j]]
  BY DEF DiscardAll
<1>4. Len(rest) \in Nat /\ \A j \in 1..Len(rest) : rest[j] \in DisplayRow
  BY <1>2, RowsLength
<1>5. \A row \in DisplayRow :
        /\ (row.status = "staged-update" => row.originalData # NoRow) => back(row) \in DisplayRow
        /\ back(row).status = "normal" /\ back(row).originalData = NoRow
        /\ back(row).data = IF row.status = "staged-update" THEN row.originalData ELSE row.data
  BY DEF DisplayRow
<1> HIDE DEF gone, rest, new, back
<1>6. \A j \in 1..Len(rest) : rest[j].status = "staged-update" => rest[j].originalData # NoRow
  BY <1>2 DEF RowsOK
<1>7. /\ new \in Seq(DisplayRow) /\ Len(new) = Len(rest)
      /\ \A j \in 1..Len(rest) : new[j] = IF isStaged(rest[j]) THEN back(rest[j]) ELSE rest[j]
  BY <1>3, <1>4, <1>5, <1>6
<1>8. RowsOK(new)
  BY <1>4, <1>5, <1>6, <1>7 DEF RowsOK
<1>9. ASSUME NEW table \in Seq(TableRow), Grounded(rows, table)
      PROVE  /\ Grounded(new, table) /\ Len(new) = Len(table)
             /\ \A j \in 1..Len(table) : new[j].data = table[j]
  <2>0. Len(table) \in Nat
    BY LenProperties
  <2>1. Grounded(rest, table)
    <3>1. \A i \in gone : i > Len(table)
      BY <1>9, InsertsAreBehind DEF gone
    <3> QED
      BY <1>1, <1>9, <2>0, <3>1, DroppedRows DEF rest
  <2>2. (1..Len(rows)) \ gone = 1..Len(table)
    <3>1. Len(rows) \in Nat /\ Len(table) <= Len(rows)
      BY <1>9, RowsLength DEF Grounded
    <3>2. \A i \in 1..Len(rows) : i \in gone <=> ~(i <= Len(table))
      BY <1>9, <3>1 DEF Grounded, gone, StagedAs
    <3> QED
      BY <2>0, <3>1, <3>2
  <2>3. Len(rest) = Len(table)
    <3>1. Cardinality(1..Len(table)) = Len(table)
      BY <2>0, AllPositions
    <3> QED
      BY <1>2, <2>2, <3>1
  <2>4. \A j \in 1..Len(table) : /\ rest[j].status # "staged-insert" /\ Original(rest[j]) = table[j]
                                 /\ rest[j].status # "staged-update" => rest[j].originalData = NoRow
    BY <2>0, <2>1, <2>3 DEF Grounded
  <2>5. \A j \in 1..Len(table) : /\ new[j].status = "normal" /\ new[j].originalData = NoRow
                                 /\ new[j].data = table[j]
    BY <1>4, <1>5, <1>6, <1>7, <2>3, <2>4 DEF isStaged, Original
  <2>6. Grounded(new, table)
    BY <1>7, <2>0, <2>3, <2>5 DEF Grounded, Original
  <2> QED
    BY <1>7, <2>3, <2>5, <2>6
<1> QED
  BY <1>2, <1>7, <1>8, <1>9 DEF gone, new

-----------------------------------------------------------------------------
(* The panel. *)

\* The panel follows its row to where the rows before it leave it.
LEMMA Followed ==
    ASSUME GInv, OnScreen, NEW replaced, NEW removed \in SUBSET (1..Len(Rows))
    PROVE  /\ PanelOK(Follow(replaced, removed), Cardinality((1..Len(Rows)) \ removed))
           /\ Follow(replaced, removed).editing = panel.editing
           /\ Follow(replaced, removed).pending = panel.pending
<1> DEFINE behind == Cardinality({i \in removed : i < panel.at})
           p == Follow(replaced, removed)
<1>1. PanelOK(panel, Len(Rows)) /\ panel \in Panel
  BY DEF GInv, Height, PanelOK
<1>2. Len(Rows) \in Nat
  <2>1. displayRows[shown] \in Seq(DisplayRow)
    BY DEF GInv, RowsOK, OnScreen
  <2> QED
    BY <2>1, LenProperties DEF Rows
<1>3. CASE panel.on \notin {"row", "hidden"}
  BY <1>1, <1>3 DEF Follow, PanelOK
<1>4. CASE panel.on \in {"row", "hidden"} /\ panel.at \in replaced \cup removed
  <2>1. p = [panel EXCEPT !.on = "gone", !.at = 0]
    BY <1>4 DEF Follow
  <2> HIDE DEF p
  <2>2. p \in Panel /\ p.on = "gone" /\ p.editing = panel.editing /\ p.pending = panel.pending
    BY <1>1, <2>1 DEF Panel
  <2> QED
    BY <1>1, <2>2 DEF PanelOK, p
<1>5. CASE panel.on \in {"row", "hidden"} /\ panel.at \notin replaced \cup removed
  <2>1. panel.at \in (1..Len(Rows)) \ removed
    BY <1>1, <1>5 DEF PanelOK
  <2>2. panel.at - behind \in 1..Cardinality((1..Len(Rows)) \ removed)
    <3>1. panel.at - behind = Rank((1..Len(Rows)) \ removed, panel.at)
      BY <1>2, <2>1, RankOfKept
    <3> QED
      BY <1>2, <2>1, <3>1, RankGrows
  <2>3. panel.at - behind \in Nat
    <3>1. Cardinality((1..Len(Rows)) \ removed) \in Nat
      BY <1>2, Positions
    <3> QED
      BY <2>2, <3>1
  <2>4. p = [panel EXCEPT !.at = panel.at - behind]
    BY <1>5 DEF Follow
  <2> HIDE DEF p, behind
  <2>5. p \in Panel /\ p.on = panel.on /\ p.at = panel.at - behind
        /\ p.editing = panel.editing /\ p.pending = panel.pending
    BY <1>1, <2>3, <2>4 DEF Panel
  <2> QED
    BY <1>1, <2>2, <2>5 DEF PanelOK, p
<1> QED
  BY <1>3, <1>4, <1>5

\* The panel on row i.
LEMMA PanelOnARow ==
    ASSUME GInv, OnScreen, NEW i \in 1..Len(Rows)
    PROVE  /\ PanelOK(Clicked(i), Len(Rows)) /\ Clicked(i).on = "row" /\ Clicked(i).at = i
           /\ Clicked(i).pending = panel.pending /\ (~panel.editing => ~Clicked(i).editing)
<1> DEFINE p == Clicked(i)
           editing == panel.editing /\ (panel.on \in {"none", "new"} \/ panel.pending
                                        \/ (panel.on = "row" /\ panel.at = i))
<1>1. panel \in Panel /\ (panel.pending => panel.editing)
  BY DEF GInv, PanelOK
<1>2. i \in Nat /\ editing \in BOOLEAN
  OBVIOUS
<1>3. p = [panel EXCEPT !.on = "row", !.at = i, !.editing = editing]
  BY DEF Clicked
<1>4. panel.pending => editing
  BY <1>1
<1>5. ~panel.editing => ~editing
  OBVIOUS
<1> HIDE DEF p, editing
<1>6. p = [on |-> "row", at |-> i, editing |-> editing, pending |-> panel.pending]
  BY <1>1, <1>3 DEF Panel
<1>7. panel.pending \in BOOLEAN
  BY <1>1 DEF Panel
<1>8. p \in Panel
  BY <1>2, <1>6, <1>7 DEF Panel
<1> QED
  BY <1>4, <1>5, <1>6, <1>8 DEF PanelOK, p

\* Steps of the panel alone.
LEMMA PanelMoves ==
    ASSUME GInv, PanelOK(panel', Height),
           UNCHANGED <<tabVars, fetched, displayRows, mounted, preview, converted>>
    PROVE  GInv'
<1>1. TabsInv' /\ OfTheTab' = OfTheTab /\ shown' = shown
  BY DEF GInv, TabsInv, TabsTypeOK, TabsAreWellFormed, tabVars, Open, activeTab, shown, OfTheTab
<1>2. Rows' = Rows /\ OnScreen' = OnScreen /\ Height' = Height
  BY <1>1 DEF Rows, OnScreen, Height
<1> QED
  BY <1>1, <1>2 DEF GInv

\* The rows on screen are those of one result, which is mounted.
LEMMA RowsOnScreen ==
    ASSUME GInv, OnScreen
    PROVE  /\ shown \in Results /\ shown \in mounted /\ RowsOK(Rows) /\ Height = Len(Rows)
           /\ PanelOK(panel, Len(Rows)) /\ fetched[shown] \in Seq(TableRow)
           /\ shown \notin converted => Grounded(Rows, fetched[shown])
<1>1. shown \in mounted /\ shown \in OfTheTab
  BY DEF GInv
<1>2. OfTheTab \subseteq Results
  <2>1. \A t \in QueryTabs : resultTabs[t] \in Seq(Results)
    BY DEF GInv, TabsInv, TabsTypeOK
  <2>2. \A t \in QueryTabs : Range(resultTabs[t]) \subseteq Results
    BY <2>1 DEF Range
  <2> QED
    BY <2>2 DEF OfTheTab
<1> QED
  BY <1>1, <1>2 DEF GInv, Rows, Height

\* Steps that change the rows on screen.
LEMMA RowsSet ==
    ASSUME GInv, OnScreen, NEW rows, preview => StagedIn(rows) # {}, RowsOK(rows), SetRows(rows),
           PanelOK(panel', Len(rows)), converted \subseteq converted',
           shown \notin converted' => Grounded(rows, fetched[shown])
    PROVE  GInv'
<1>1. /\ UNCHANGED <<tabVars, fetched, mounted, preview>>
      /\ displayRows' = [displayRows EXCEPT ![shown] = rows]
  BY DEF SetRows
<1>2. TabsInv' /\ OfTheTab' = OfTheTab /\ shown' = shown
  BY <1>1 DEF GInv, TabsInv, TabsTypeOK, TabsAreWellFormed, tabVars, Open, activeTab, shown, OfTheTab
<1>3. shown \in Results /\ shown \in mounted
  BY RowsOnScreen
<1>4. /\ displayRows' \in [Results -> Seq(DisplayRow)]
      /\ \A r \in Results : displayRows'[r] = IF r = shown THEN rows ELSE displayRows[r]
  BY <1>1, <1>3 DEF GInv, RowsOK
<1>5. Rows' = rows /\ OnScreen' /\ Height' = Len(rows)
  BY <1>2, <1>3, <1>4 DEF Rows, OnScreen, Height
<1>6. mounted \subseteq Results
  BY DEF GInv, OfTheTab, TabsInv, TabsTypeOK, Range
<1>7. \A r \in mounted : RowsOK(displayRows'[r])
  BY <1>4, <1>6 DEF GInv
<1>8. \A r \in mounted \ converted' : Grounded(displayRows'[r], fetched[r])
  BY <1>4, <1>6 DEF GInv
<1> QED
  BY <1>1, <1>2, <1>3, <1>4, <1>5, <1>7, <1>8 DEF GInv

\* What a user does in the panel.
LEMMA PanelStepsKeep ==
    ASSUME GInv,
           \/ \E i \in 1..MaxRows : ClickRow(i) \/ EditRow(i) \/ NavigateRow(i) \/ selectRowByCanonicalIndex(i)
           \/ CtrlClickRow \/ ClosePanel \/ CancelEdit \/ NewRow
           \/ \E i : PinRow(i)
    PROVE  GInv'
<1> DEFINE Rest == UNCHANGED <<tabVars, fetched, displayRows, mounted, preview, converted>>
<1>0. PanelOK(ClosedPanel, 0) /\ \A n : PanelOK(ClosedPanel, n)
  BY DEF PanelOK, ClosedPanel, Panel
<1>1. ASSUME OnScreen, Rest, PanelOK(panel', Len(Rows)) PROVE GInv'
  BY <1>1, RowsOnScreen, PanelMoves
<1>2. ASSUME NEW i, ClickRow(i) PROVE GInv'
  BY <1>1, <1>2, PanelOnARow DEF ClickRow
<1>3. ASSUME NEW i, EditRow(i) PROVE GInv'
  <2>1. /\ OnScreen /\ i \in 1..Len(Rows) /\ Rest /\ panel' = [Clicked(i) EXCEPT !.editing = TRUE]
    BY <1>3 DEF EditRow
  <2>2. PanelOK(Clicked(i), Len(Rows)) /\ Clicked(i).on = "row"
    BY <2>1, PanelOnARow
  <2>3. PanelOK(panel', Len(Rows))
    BY <2>1, <2>2 DEF PanelOK, Panel
  <2> QED
    BY <1>1, <2>1, <2>3
<1>4. ASSUME NEW i, NavigateRow(i) PROVE GInv'
  <2>1. /\ OnScreen /\ i \in 1..Len(Rows) /\ Rest /\ panel' = [Clicked(i) EXCEPT !.on = panel.on]
        /\ panel.on \in {"row", "hidden"} /\ ~panel.editing
    BY <1>4 DEF NavigateRow
  <2>2. PanelOK(Clicked(i), Len(Rows)) /\ Clicked(i).at = i /\ ~Clicked(i).editing /\ Clicked(i).on = "row"
        /\ Clicked(i) \in Panel
    BY <2>1, PanelOnARow DEF PanelOK
  <2>3. /\ panel' \in Panel /\ panel'.on = panel.on /\ panel'.at = i
        /\ panel'.editing = Clicked(i).editing /\ panel'.pending = Clicked(i).pending
    BY <2>1, <2>2 DEF Panel
  <2>4. PanelOK(panel', Len(Rows))
    BY <2>1, <2>2, <2>3 DEF PanelOK
  <2> QED
    BY <1>1, <2>1, <2>4
<1>5. ASSUME NEW i, selectRowByCanonicalIndex(i) PROVE GInv'
  <2>1. /\ OnScreen /\ i \in 1..Len(Rows) /\ Rest /\ panel' = [panel EXCEPT !.on = "hidden", !.at = i]
        /\ ~panel.editing
    BY <1>5 DEF selectRowByCanonicalIndex
  <2>2. panel \in Panel /\ (panel.pending => panel.editing)
    BY DEF GInv, PanelOK
  <2>3. panel' = [on |-> "hidden", at |-> i, editing |-> panel.editing, pending |-> panel.pending]
    BY <2>1, <2>2 DEF Panel
  <2>4. i \in Nat /\ panel.editing \in BOOLEAN /\ panel.pending \in BOOLEAN
    BY <2>1, <2>2 DEF Panel
  <2>5. panel' \in Panel
    BY <2>3, <2>4 DEF Panel
  <2>6. PanelOK(panel', Len(Rows))
    BY <2>1, <2>2, <2>3, <2>5 DEF PanelOK
  <2> QED
    BY <1>1, <2>1, <2>6
<1>6. ASSUME CtrlClickRow PROVE GInv'
  <2>1. OnScreen /\ Rest /\ panel' = [panel EXCEPT !.on = "none", !.at = 0]
    BY <1>6 DEF CtrlClickRow
  <2>2. panel \in Panel /\ (panel.pending => panel.editing)
    BY DEF GInv, PanelOK
  <2>3. panel' \in Panel /\ panel'.on = "none" /\ panel'.editing = panel.editing /\ panel'.pending = panel.pending
    BY <2>1, <2>2 DEF Panel
  <2>4. PanelOK(panel', Len(Rows))
    BY <2>2, <2>3 DEF PanelOK
  <2> QED
    BY <1>1, <2>1, <2>4
<1>7. ASSUME ClosePanel PROVE GInv'
  <2>1. OnScreen /\ Rest /\ panel' = [panel EXCEPT !.on = "hidden"] /\ "close" \in Buttons
    BY <1>7 DEF ClosePanel
  <2>2. panel.on = "row" /\ ~panel.pending /\ ~panel.editing
    BY <2>1 DEF Buttons
  <2>3. PanelOK(panel, Len(Rows)) /\ panel \in Panel
    BY <2>1, RowsOnScreen DEF PanelOK
  <2>4. /\ panel' \in Panel /\ panel'.on = "hidden" /\ panel'.at = panel.at
        /\ panel'.editing = panel.editing /\ panel'.pending = panel.pending
    BY <2>1, <2>3 DEF Panel
  <2>5. PanelOK(panel', Len(Rows))
    BY <2>2, <2>3, <2>4 DEF PanelOK
  <2> QED
    BY <1>1, <2>1, <2>5
<1>8. ASSUME CancelEdit PROVE GInv'
  <2>1. OnScreen /\ Rest /\ panel' = IF panel.pending THEN ClosedPanel ELSE [panel EXCEPT !.editing = FALSE]
    BY <1>8 DEF CancelEdit
  <2>2. PanelOK(panel, Len(Rows)) /\ panel \in Panel
    BY <2>1, RowsOnScreen DEF PanelOK
  <2>3. CASE panel.pending
    BY <1>0, <1>1, <2>1, <2>3
  <2>4. CASE ~panel.pending
    <3>1. /\ panel' \in Panel /\ panel'.on = panel.on /\ panel'.at = panel.at
          /\ ~panel'.editing /\ panel'.pending = panel.pending
      BY <2>1, <2>2, <2>4 DEF Panel
    <3>2. PanelOK(panel', Len(Rows))
      BY <2>2, <2>4, <3>1 DEF PanelOK
    <3> QED
      BY <1>1, <2>1, <3>2
  <2> QED
    BY <2>3, <2>4
<1>9. ASSUME NewRow PROVE GInv'
  <2>1. OnScreen /\ Rest /\ panel' = [on |-> "new", at |-> 0, editing |-> TRUE, pending |-> TRUE]
    BY <1>9 DEF NewRow
  <2>2. PanelOK(panel', Len(Rows))
    BY <2>1 DEF PanelOK, Panel
  <2> QED
    BY <1>1, <2>1, <2>2
<1>10. ASSUME NEW i, PinRow(i) PROVE GInv'
  <2>1. OnScreen /\ Rest /\ panel' = Follow({i}, {})
    BY <1>10 DEF PinRow
  <2>2. PanelOK(panel', Cardinality((1..Len(Rows)) \ {}))
    BY <2>1, Followed
  <2>3. Cardinality((1..Len(Rows)) \ {}) = Len(Rows)
    BY <2>1, RowsOnScreen, RowsLength, NoneRemoved
  <2> QED
    BY <1>1, <2>1, <2>2, <2>3
<1> QED
  BY <1>2, <1>3, <1>4, <1>5, <1>6, <1>7, <1>8, <1>9, <1>10

\* A row on screen that is staged or changed, and the panel with it.
LEMMA RowChanges ==
    ASSUME GInv, OnScreen, ~preview, NEW i \in 1..Len(Rows), NEW data \in Row,
           NEW status \in {"normal", "staged-delete", "staged-update", "staged-insert"},
           NEW original \in Row \cup {NoRow}, status = "staged-update" => original # NoRow,
           SetRows(Stage(Rows, i, data, status, original)),
           PanelOK(panel', Len(Rows)), converted \subseteq converted',
           shown \notin converted' =>
             IF Rows[i].status = "staged-insert" THEN status = "staged-insert" /\ original = NoRow
             ELSE /\ status # "staged-insert"
                  /\ (IF original # NoRow THEN original ELSE data) = Original(Rows[i])
                  /\ status # "staged-update" => original = NoRow
    PROVE  GInv'
<1> DEFINE table == fetched[shown]
           new == Stage(Rows, i, data, status, original)
<1>1. RowsOK(Rows) /\ table \in Seq(TableRow) /\ (shown \notin converted => Grounded(Rows, table))
  BY RowsOnScreen
<1>2. Len(table) \in Nat
  BY <1>1, LenProperties
<1> HIDE DEF table
<1>3. /\ RowsOK(new) /\ Len(new) = Len(Rows)
      /\ \A j \in 1..Len(Rows) :
           new[j] = IF j = i THEN [data |-> data, status |-> status, originalData |-> original]
                    ELSE Rows[j]
  BY <1>1, StagedRow
<1> HIDE DEF new
<1>4. ASSUME shown \notin converted' PROVE Grounded(new, table)
  <2>0. new[i].data = data /\ new[i].status = status /\ new[i].originalData = original
    BY <1>3
  <2>1. Grounded(Rows, table)
    BY <1>1, <1>4
  <2>2. IF i <= Len(table)
        THEN Rows[i].status # "staged-insert" /\ Original(Rows[i]) = table[i]
        ELSE Rows[i].status = "staged-insert"
    BY <2>1 DEF Grounded
  <2>3. IF i <= Len(table)
        THEN /\ new[i].status # "staged-insert" /\ Original(new[i]) = table[i]
             /\ new[i].status # "staged-update" => new[i].originalData = NoRow
        ELSE new[i].status = "staged-insert" /\ new[i].originalData = NoRow
    BY <1>4, <2>0, <2>2 DEF Original
  <2> QED
    BY <1>3, <2>1, <2>3 DEF Grounded
<1> QED
  BY <1>3, <1>4, RowsSet DEF new, table

\* Where a panel follows a row that was changed.
LEMMA FollowedChange ==
    ASSUME GInv, OnScreen, NEW i
    PROVE  /\ PanelOK(Follow({i}, {}), Len(Rows))
           /\ PanelOK([Follow({i}, {}) EXCEPT !.editing = FALSE], Len(Rows)) \/ panel.pending
<1>1. Len(Rows) \in Nat
  BY RowsOnScreen, RowsLength
<1>2. PanelOK(Follow({i}, {}), Len(Rows)) /\ Follow({i}, {}).pending = panel.pending
  BY <1>1, Followed, NoneRemoved
<1> DEFINE p == Follow({i}, {})
           q == [p EXCEPT !.editing = FALSE]
<1> HIDE DEF p
<1>3. p \in Panel
  BY <1>2 DEF PanelOK, p
<1>4. /\ q \in Panel /\ q.on = p.on /\ q.at = p.at /\ ~q.editing /\ q.pending = p.pending
  BY <1>3 DEF Panel
<1>5. ~panel.pending => PanelOK(q, Len(Rows))
  BY <1>2, <1>4 DEF PanelOK, p
<1> QED
  BY <1>2, <1>5 DEF p

\* The old value of a row.
LEMMA OriginalTyped ==
    ASSUME NEW row \in DisplayRow
    PROVE  /\ row.data \in Row /\ row.originalData \in Row \cup {NoRow}
           /\ Original(row) \in Row /\ Original(row) # NoRow
           /\ row.status \in {"normal", "staged-delete", "staged-update", "staged-insert"}
<1>1. row.data \in Row /\ row.originalData \in Row \cup {NoRow}
      /\ row.status \in {"normal", "staged-delete", "staged-update", "staged-insert"}
  BY DEF DisplayRow
<1>2. Original(row) \in Row
  BY <1>1 DEF Original
<1> QED
  BY <1>1, <1>2, Assumed

\* What leaves the rows, the results and the panel.
LEMMA ReviewsKeep ==
    ASSUME GInv, UNCHANGED <<resultTabs, activeResult, tabs, activeTabId>>,
           UNCHANGED <<fetched, displayRows, mounted, panel, converted>>, TabsInv',
           preview' => preview \/ (OnScreen /\ StagedIn(Rows) # {})
    PROVE  GInv'
<1>1. activeTab' = activeTab
  BY DEF activeTab, Open
<1>2. shown' = shown /\ OfTheTab' = OfTheTab
  BY <1>1 DEF shown, OfTheTab
<1>3. OnScreen' = OnScreen /\ Rows' = Rows /\ Height' = Height
  BY <1>2 DEF OnScreen, Rows, Height
<1> QED
  BY <1>2, <1>3 DEF GInv

\* Saving what was typed.
LEMMA SavesKeep ==
    ASSUME GInv, JsonOK,
           \/ ~preview /\ \E data \in NewRows : SaveNewRow(data)
           \/ ~preview /\ \E edit \in Edits : SaveEdit(edit)
           \/ \E value \in JsonValues : SaveJson(value)
    PROVE  GInv'
<1>0. PanelOK(ClosedPanel, 0) /\ \A n : PanelOK(ClosedPanel, n)
  BY DEF PanelOK, ClosedPanel, Panel
<1>1. ASSUME ~preview, NEW data \in NewRows, SaveNewRow(data) PROVE GInv'
  <2> DEFINE new == Append(Rows, [data |-> data, status |-> "staged-insert", originalData |-> NoRow])
  <2>1. OnScreen /\ SetRows(new) /\ panel' = ClosedPanel /\ converted' = converted
    BY <1>1 DEF SaveNewRow
  <2>2. data \in Row
    BY ResultsGridAssumption DEF ResultsGridAssumption
  <2>3. /\ RowsOK(Rows) /\ Len(fetched[shown]) \in Nat
        /\ shown \notin converted => Grounded(Rows, fetched[shown])
    BY <2>1, RowsOnScreen, LenProperties
  <2>4. RowsOK(new) /\ (shown \notin converted => Grounded(new, fetched[shown]))
    BY <2>2, <2>3, AppendedRow
  <2> HIDE DEF new
  <2> QED
    BY <1>0, <1>1, <2>1, <2>4, RowsSet
<1>2. ASSUME ~preview, NEW edit \in Edits, SaveEdit(edit) PROVE GInv'
  <2> DEFINE i == panel.at
             data == [Rows[i].data EXCEPT ![edit.column] = edit.value]
             original == Original(Rows[i])
  <2>1. /\ OnScreen /\ "save" \in Buttons /\ edit.value \in FieldValues(edit.column, FALSE)
        /\ SetRows(Stage(Rows, i, data, "staged-update", original))
        /\ panel' = [Follow({i}, {}) EXCEPT !.editing = FALSE]
        /\ converted' = IF Rows[i].status = "staged-insert" THEN converted \cup {shown} ELSE converted
    BY <1>2 DEF SaveEdit
  <2>2. panel.on = "row" /\ ~panel.pending
    BY <2>1 DEF Buttons
  <2>3. i \in 1..Len(Rows) /\ Rows[i] \in DisplayRow
    BY <2>1, <2>2, RowsOnScreen, RowsLength DEF PanelOK
  <2>4. original \in Row /\ original # NoRow /\ Rows[i].data \in Row
    BY <2>3, OriginalTyped
  <2>5. data \in Row
    <3>1. edit.column \in {"k", "v"}
      BY ResultsGridAssumption DEF ResultsGridAssumption
    <3>2. CASE edit.column = "k"
      <4>1. edit.value \in Keys \cup {Null}
        BY <2>1, <3>2 DEF FieldValues
      <4>2. data = [Rows[i].data EXCEPT !.k = edit.value]
        BY <3>2
      <4> QED
        BY <2>4, <4>1, <4>2 DEF Row
    <3>3. CASE edit.column = "v"
      <4>1. edit.value \in Values \cup {Null}
        BY <2>1, <3>3 DEF FieldValues
      <4>2. data = [Rows[i].data EXCEPT !.v = edit.value]
        BY <3>3
      <4> QED
        BY <2>4, <4>1, <4>2 DEF Row
    <3> QED
      BY <3>1, <3>2, <3>3
  <2>6. PanelOK(panel', Len(Rows))
    BY <2>1, <2>2, FollowedChange
  <2>7. converted \subseteq converted' /\ (shown \notin converted' => Rows[i].status # "staged-insert")
    BY <2>1
  <2> HIDE DEF data, original, i
  <2> QED
    BY <1>2, <2>1, <2>3, <2>4, <2>5, <2>6, <2>7, RowChanges DEF original
<1>3. ASSUME NEW value \in JsonValues, SaveJson(value), ~(panel.pending \/ jsonModal > Len(Rows))
      PROVE  GInv'
  <2> DEFINE i == jsonModal
             data == [Rows[i].data EXCEPT !.v = value]
             original == Original(Rows[i])
  <2>0. OnScreen /\ i # 0 /\ ~preview /\ i \in Nat
    BY <1>3 DEF SaveJson, JsonOK
  <2>1. /\ OnScreen /\ i \in 1..Len(Rows) /\ panel' = Follow({i}, {}) /\ converted' = converted
        /\ SetRows(IF Rows[i].status = "staged-insert" THEN [Rows EXCEPT ![i].data = data]
                   ELSE Stage(Rows, i, data, "staged-update", original))
    <3>1. Len(Rows) \in Nat
      BY <2>0, RowsOnScreen, RowsLength
    <3>2. i \in 1..Len(Rows)
      BY <1>3, <2>0, <3>1
    <3> QED
      BY <1>3, <2>0, <3>2 DEF SaveJson
  <2> HIDE DEF i
  <2>2. Rows[i] \in DisplayRow /\ RowsOK(Rows)
    BY <2>1, RowsOnScreen, RowsLength
  <2>3. original \in Row /\ original # NoRow /\ Rows[i].data \in Row
        /\ Rows[i].originalData \in Row \cup {NoRow}
    BY <2>2, OriginalTyped
  <2>4. value \in Values
    BY ResultsGridAssumption DEF ResultsGridAssumption
  <2>5. data \in Row
    BY <2>3, <2>4 DEF Row
  <2>6. PanelOK(panel', Len(Rows))
    BY <2>1, FollowedChange
  <2>7. CASE Rows[i].status = "staged-insert"
    <3>1. [Rows EXCEPT ![i].data = data] = Stage(Rows, i, data, "staged-insert", Rows[i].originalData)
      <4>1. [Rows[i] EXCEPT !.data = data]
              = [data |-> data, status |-> "staged-insert", originalData |-> Rows[i].originalData]
        BY <2>2, <2>7 DEF DisplayRow
      <4> QED
        BY <4>1 DEF Stage
    <3>2. shown \notin converted => Rows[i].originalData = NoRow
      <4>1. shown \notin converted => Grounded(Rows, fetched[shown])
        BY <2>1, RowsOnScreen
      <4> QED
        BY <2>1, <2>7, <4>1 DEF Grounded
    <3> HIDE DEF data, original
    <3> QED
      BY <2>0, <2>1, <2>3, <2>5, <2>6, <2>7, <3>1, <3>2, RowChanges
  <2>8. CASE Rows[i].status # "staged-insert"
    <3> HIDE DEF data, original
    <3> QED
      BY <2>0, <2>1, <2>3, <2>5, <2>6, <2>8, RowChanges DEF original
  <2> QED
    BY <2>7, <2>8
<1>4. ASSUME NEW value \in JsonValues, SaveJson(value), panel.pending \/ jsonModal > Len(Rows)
      PROVE  GInv'
  <2>1. UNCHANGED <<tabVars, fetched, displayRows, mounted, panel, preview, converted>>
    BY <1>4 DEF SaveJson
  <2>2. TabsInv'
    BY <2>1 DEF GInv, TabsInv, TabsTypeOK, TabsAreWellFormed, tabVars, Open
  <2> QED
    BY <2>1, <2>2, ReviewsKeep DEF tabVars
<1> QED
  BY <1>1, <1>2, <1>3, <1>4

\* A row that is staged for deletion, also under review.
LEMMA DeletionKeeps ==
    ASSUME GInv, NEW selected, DeleteSelection(selected)
    PROVE  GInv'
<1> DEFINE new == Delete(Rows, selected)
<1>1. /\ OnScreen /\ SetRows(new) /\ converted' = converted
      /\ panel' = Follow({i \in selected : ~isStaged(Rows[i])}, {})
  BY DEF DeleteSelection
<1>2. /\ RowsOK(Rows) /\ Len(Rows) \in Nat
      /\ shown \notin converted => Grounded(Rows, fetched[shown])
  BY <1>1, RowsOnScreen, RowsLength
<1>3. /\ RowsOK(new) /\ Len(new) = Len(Rows)
      /\ shown \notin converted => Grounded(new, fetched[shown])
  BY <1>2, DeletedRows
<1>4. PanelOK(panel', Len(new))
  BY <1>1, <1>2, <1>3, Followed, NoneRemoved
<1>5. preview => StagedIn(new) # {}
  <2>1. StagedIn(Rows) \subseteq StagedIn(new)
    <3>1. \A i \in 1..Len(Rows) : isStaged(Rows[i]) => new[i] = Rows[i]
      BY <1>2 DEF Delete, isStaged
    <3> HIDE DEF new
    <3> QED
      BY <1>3, <3>1 DEF StagedIn
  <2> QED
    BY <2>1 DEF GInv
<1> HIDE DEF new
<1> QED
  BY <1>1, <1>3, <1>4, <1>5, RowsSet

\* Discarding.
LEMMA StagingKeeps ==
    ASSUME GInv, ~preview, Staging
    PROVE  GInv'
<1>1. ASSUME OnScreen
      PROVE  /\ RowsOK(Rows) /\ Len(Rows) \in Nat /\ Len(fetched[shown]) \in Nat
             /\ fetched[shown] \in Seq(TableRow)
             /\ shown \notin converted => Grounded(Rows, fetched[shown])
  BY <1>1, RowsOnScreen, RowsLength, LenProperties
<1>3. ASSUME NEW selected, DiscardSelection(selected) PROVE GInv'
  <2> DEFINE new == Discard(Rows, selected)
             removed == selected \cap StagedAs(Rows, "staged-insert")
  <2>1. /\ OnScreen /\ SetRows(new) /\ converted' = converted
        /\ panel' = Follow((selected \cap StagedIn(Rows)) \ removed, removed)
    BY <1>3 DEF DiscardSelection
  <2>2. /\ RowsOK(new) /\ Len(new) = Cardinality((1..Len(Rows)) \ removed)
        /\ shown \notin converted => Grounded(new, fetched[shown])
    BY <1>1, <2>1, DiscardedRows
  <2>3. removed \in SUBSET (1..Len(Rows))
    BY DEF StagedAs
  <2> HIDE DEF new, removed
  <2>4. PanelOK(panel', Len(new))
    BY <2>1, <2>2, <2>3, Followed
  <2> QED
    BY <2>1, <2>2, <2>4, RowsSet
<1>4. ASSUME DiscardEverything PROVE GInv'
  <2> DEFINE new == DiscardAll(Rows)
             removed == StagedAs(Rows, "staged-insert")
  <2>1. /\ OnScreen /\ SetRows(new) /\ converted' = converted
        /\ panel' = Follow(StagedIn(Rows) \ removed, removed)
    BY <1>4 DEF DiscardEverything
  <2>2. /\ RowsOK(new) /\ Len(new) = Cardinality((1..Len(Rows)) \ removed)
        /\ shown \notin converted => Grounded(new, fetched[shown])
    BY <1>1, <2>1, DiscardedAll
  <2>3. removed \in SUBSET (1..Len(Rows))
    BY DEF StagedAs
  <2> HIDE DEF new, removed
  <2>4. PanelOK(panel', Len(new))
    BY <2>1, <2>2, <2>3, Followed
  <2> QED
    BY <2>1, <2>2, <2>4, RowsSet
<1>5. ASSUME DiscardShownRow PROVE GInv'
  <2> DEFINE i == panel.at
             row == Rows[i]
             data == IF row.status = "staged-update" THEN row.originalData ELSE row.data
  <2>1. /\ OnScreen /\ "discard" \in Buttons /\ converted' = converted
        /\ IF row.status = "staged-insert"
           THEN SetRows(Drop(Rows, {i})) /\ panel' = [panel EXCEPT !.on = "none", !.at = 0]
           ELSE SetRows(Stage(Rows, i, data, "normal", NoRow)) /\ panel' = Follow({i}, {})
    BY <1>5 DEF DiscardShownRow
  <2>2. panel.on = "row" /\ PanelOK(panel, Len(Rows))
    BY <2>1, RowsOnScreen DEF Buttons
  <2>3. i \in 1..Len(Rows) /\ row \in DisplayRow
    BY <1>1, <2>1, <2>2, RowsLength DEF PanelOK
  <2>4. CASE row.status = "staged-insert"
    <3> DEFINE new == Drop(Rows, {i})
    <3>1. {i} \in SUBSET (1..Len(Rows))
      BY <2>3
    <3>2. RowsOK(new)
      BY <1>1, <2>1, <3>1, DroppedRows
    <3>3. shown \notin converted => Grounded(new, fetched[shown])
      <4> SUFFICES ASSUME shown \notin converted PROVE Grounded(new, fetched[shown])
        OBVIOUS
      <4>1. Grounded(Rows, fetched[shown]) /\ RowsOK(Rows) /\ Len(fetched[shown]) \in Nat
        BY <1>1, <2>1
      <4>2. i \in StagedAs(Rows, "staged-insert")
        BY <2>3, <2>4 DEF StagedAs
      <4>3. \A j \in {i} : j > Len(fetched[shown])
        BY <4>1, <4>2, InsertsAreBehind
      <4> QED
        BY <3>1, <4>1, <4>3, DroppedRows
    <3>4. PanelOK(panel', Len(new))
      <4>1. panel \in Panel /\ panel' = [panel EXCEPT !.on = "none", !.at = 0]
        BY <2>1, <2>2, <2>4 DEF PanelOK
      <4>2. panel' \in Panel /\ panel'.on = "none" /\ panel'.editing = panel.editing
            /\ panel'.pending = panel.pending
        BY <4>1 DEF Panel
      <4> QED
        BY <2>2, <4>2 DEF PanelOK
    <3>5. SetRows(new)
      BY <2>1, <2>4
    <3> HIDE DEF new
    <3> QED
      BY <2>1, <3>2, <3>3, <3>4, <3>5, RowsSet
  <2>5. CASE row.status # "staged-insert"
    <3>1. /\ row.data \in Row /\ row.originalData \in Row \cup {NoRow}
          /\ row.status = "staged-update" => row.originalData # NoRow
      BY <1>1, <2>1, <2>3, OriginalTyped DEF RowsOK
    <3>2. data \in Row
      BY <3>1
    <3>3. shown \notin converted => data = Original(row)
      <4>1. shown \notin converted => (row.status # "staged-update" => row.originalData = NoRow)
        BY <1>1, <2>1, <2>3, <2>5 DEF Grounded
      <4> QED
        BY <3>1, <4>1 DEF Original
    <3>4. PanelOK(panel', Len(Rows))
      BY <2>1, <2>5, FollowedChange
    <3>5. SetRows(Stage(Rows, i, data, "normal", NoRow))
      BY <2>1, <2>5
    <3> HIDE DEF data, i
    <3>6. shown \notin converted' =>
            IF Rows[i].status = "staged-insert" THEN "normal" = "staged-insert" /\ NoRow = NoRow
            ELSE /\ "normal" # "staged-insert"
                 /\ (IF NoRow # NoRow THEN NoRow ELSE data) = Original(Rows[i])
                 /\ "normal" # "staged-update" => NoRow = NoRow
      BY <2>1, <2>5, <3>3
    <3> QED
      BY <2>1, <2>3, <3>2, <3>4, <3>5, <3>6, RowChanges
  <2> QED
    BY <2>4, <2>5
<1> QED
  BY <1>3, <1>4, <1>5 DEF Staging

-----------------------------------------------------------------------------
(* Queries, and moving between tabs. *)

\* The result on screen is one of the tab on screen, whose results are all mounted or not.
LEMMA ShownOfTheTab ==
    ASSUME EditorTabsAssumption, TabsInv
    PROVE  /\ OfTheTab \subseteq Results /\ OfTheTab \subseteq InUse
           /\ shown # Absent => activeTab \in QueryTabs /\ shown \in OfTheTab
<1>1. \A t \in QueryTabs : resultTabs[t] \in Seq(Results) /\ Range(resultTabs[t]) \subseteq Results
  BY DEF TabsInv, TabsTypeOK, Range
<1>2. OfTheTab \subseteq Results /\ OfTheTab \subseteq InUse
  BY <1>1 DEF OfTheTab, InUse
<1>3. ASSUME shown # Absent PROVE activeTab \in QueryTabs /\ shown \in OfTheTab
  <2>1. activeTab \in QueryTabs /\ shown = activeResult[activeTab]
    BY <1>3 DEF shown
  <2> QED
    BY <1>3, <2>1 DEF TabsInv, TabsAreWellFormed, OfTheTab
<1> QED
  BY <1>2, <1>3

\* The effects: entries that are kept are unchanged, and the others are as read.
LEMMA EffectsKeep ==
    ASSUME GInv, TabsInv', Effects, fetched' \in [Results -> Seq(TableRow)],
           \A r \in Swept : fetched'[r] = fetched[r]
    PROVE  GInv'
<1> DEFINE fill == IF shown' = Absent THEN {} ELSE {shown'} \ Swept
<1>1. /\ mounted' = Swept \cup fill
      /\ displayRows' = [r \in Results |-> IF r \in fill THEN Fresh(fetched'[r])
                                           ELSE IF r \in Swept THEN displayRows[r] ELSE <<>>]
      /\ panel' = IF shown' = shown THEN panel ELSE ClosedPanel
      /\ preview' = (preview /\ shown' # Absent /\ StagedIn(displayRows'[shown']) # {})
      /\ converted' = converted \cap Swept
  BY DEF Effects
<1>2. Swept \subseteq mounted /\ Swept = mounted \cap OfTheTab'
  BY DEF Swept, OfTheTab
<1>3. /\ OfTheTab' \subseteq Results
      /\ shown' # Absent => shown' \in OfTheTab'
  <2>1. \A t \in QueryTabs : Range(resultTabs'[t]) \subseteq Results
    BY DEF TabsInv, TabsTypeOK, Range
  <2>2. ASSUME shown' # Absent PROVE activeTab' \in QueryTabs /\ shown' = activeResult'[activeTab']
    BY <2>2 DEF shown
  <2>3. TabsAreWellFormed'
    BY DEF TabsInv
  <2> QED
    BY <2>1, <2>2, <2>3 DEF TabsAreWellFormed, OfTheTab
<1>4. fill \subseteq OfTheTab' /\ mounted' \subseteq OfTheTab' /\ (OnScreen' => shown' \in mounted')
  BY <1>1, <1>2, <1>3 DEF OnScreen
<1>5. \A r \in Results : RowsOK(Fresh(fetched'[r])) /\ Grounded(Fresh(fetched'[r]), fetched'[r])
                         /\ StagedIn(Fresh(fetched'[r])) = {}
  <2> TAKE r \in Results
  <2>1. fetched'[r] \in Seq(TableRow)
    OBVIOUS
  <2> QED
    BY <2>1, FreshRows
<1>6. \A r \in Results : displayRows'[r] = IF r \in fill THEN Fresh(fetched'[r])
                                           ELSE IF r \in Swept THEN displayRows[r] ELSE <<>>
  BY <1>1
<1>7. \A r \in Swept : /\ RowsOK(displayRows[r])
                       /\ r \notin converted' => Grounded(displayRows[r], fetched'[r])
  BY <1>1, <1>2 DEF GInv
<1> HIDE DEF fill
<1>8. displayRows' \in [Results -> Seq(DisplayRow)]
  <2>1. \A r \in Results : displayRows'[r] \in Seq(DisplayRow)
    <3>1. <<>> \in Seq(DisplayRow)
      OBVIOUS
    <3> QED
      BY <1>5, <1>6, <1>7, <3>1 DEF RowsOK
  <2> QED
    BY <1>1, <2>1
<1>9. \A r \in mounted' : RowsOK(displayRows'[r])
  BY <1>1, <1>3, <1>4, <1>5, <1>6, <1>7
<1>10. \A r \in mounted' \ converted' : Grounded(displayRows'[r], fetched'[r])
  BY <1>1, <1>3, <1>4, <1>5, <1>6, <1>7
<1>11. PanelOK(panel', Height')
  <2>1. CASE shown' = shown
    <3>1. OnScreen' = OnScreen /\ panel' = panel
      BY <1>1, <2>1 DEF OnScreen
    <3>2. OnScreen => shown \in Swept /\ shown \in Results
      BY <1>2, <1>3, <2>1 DEF OnScreen, GInv
    <3>3. OnScreen => Rows' = Rows
      BY <1>6, <2>1, <3>2 DEF Rows, fill
    <3>4. Height' = Height
      BY <3>1, <3>3 DEF Height
    <3> QED
      BY <3>1, <3>4 DEF GInv
  <2>2. CASE shown' # shown
    <3>1. panel' = ClosedPanel
      BY <1>1, <2>2
    <3> QED
      BY <3>1 DEF PanelOK, ClosedPanel, Panel
  <2> QED
    BY <2>1, <2>2
<1>12. preview' => OnScreen' /\ StagedIn(Rows') # {}
  BY <1>1 DEF OnScreen, Rows
<1> QED
  BY <1>4, <1>8, <1>9, <1>10, <1>11, <1>12 DEF GInv


\* The results of an answer are new, and each read a table.
LEMMA AnswerShape ==
    ASSUME GInv, NEW t \in QueryTabs, NEW rs \in Answers, NEW contents \in [Range(rs) -> Tables],
           FinishQuery(t, rs, contents)
    PROVE  /\ TabsStep /\ Effects /\ fetched' \in [Results -> Seq(TableRow)]
           /\ rs \in Seq(Results \ InUse) /\ Range(rs) \subseteq Results \ InUse
           /\ \A r \in Results \ Range(rs) : fetched'[r] = fetched[r]
           /\ \A r \in Range(rs) : fetched'[r] \in Tables
<1>1. rs \in Seq(Results \ InUse) /\ Range(rs) \subseteq Results \ InUse
  <2>1. PICK n \in 0..Cardinality(Results) : rs \in [1..n -> Results \ InUse]
    BY DEF Answers
  <2>2. n \in Nat
    BY <2>1
  <2> QED
    BY <2>1, <2>2 DEF Range
<1>2. TabsStep
  BY <1>1 DEF FinishQuery, TabsStep, Unique
<1>3. fetched' = [r \in Results |-> IF r \in Range(rs) THEN contents[r] ELSE fetched[r]]
  BY DEF FinishQuery
<1>4. /\ \A r \in Results \ Range(rs) : fetched'[r] = fetched[r]
      /\ \A r \in Range(rs) : fetched'[r] \in Tables
  BY <1>1, <1>3
<1>5. \A r \in Results : fetched'[r] \in Seq(TableRow)
  BY <1>4, Assumed DEF GInv
<1> QED
  BY <1>1, <1>2, <1>3, <1>4, <1>5 DEF FinishQuery

\* Going to another tab, closing one and loading the page are steps of the tabs.
LEMMA MovingIsAStep ==
    ASSUME MoveBetweenTabs
    PROVE  TabsStep /\ Effects
BY DEF MoveBetweenTabs, TabsStep, Closing

\* The tabs change only as EditorTabs says, a result having an id of its own.
LEMMA TabsMove ==
    ASSUME GInv, GridNext
    PROVE  TabsStep \/ UNCHANGED tabVars
<1>1. CASE MoveBetweenTabs
  BY <1>1, MovingIsAStep
<1>2. CASE StartQuery
  BY <1>2 DEF StartQuery, TabsStep
<1>3. ASSUME NEW t \in QueryTabs, NEW rs \in Answers, NEW contents \in [Range(rs) -> Tables],
             FinishQuery(t, rs, contents)
      PROVE  TabsStep
  BY <1>3, AnswerShape
<1>4. CASE ExecuteAll
  <2>1. shown # Absent
    BY <1>4 DEF ExecuteAll, GInv, OnScreen
  <2>2. activeTab \in QueryTabs
    BY <2>1 DEF shown
  <2> QED
    BY <1>4, <2>2 DEF ExecuteAll, TabsStep
<1>5. CASE Keyboard \/ Panelling \/ Staging \/ Expanding \/ OpenPreview \/ ClosePreview
  <2>1. \A rows : SetRows(rows) => UNCHANGED tabVars
    BY DEF SetRows
  <2>2. Keyboard => UNCHANGED tabVars
    BY <2>1 DEF Keyboard, NavigateRow, selectRowByCanonicalIndex, PinRow, DeleteSelection
  <2>3. Panelling => UNCHANGED tabVars
    BY <2>1 DEF Panelling, ClickRow, EditRow, PinRow, OpenJson, CtrlClickRow, ClosePanel, CancelEdit,
       NewRow, SaveNewRow, SaveEdit
  <2>4. Staging => UNCHANGED tabVars
    BY <2>1 DEF Staging, DiscardSelection, DiscardShownRow, DiscardEverything
  <2>5. Expanding => UNCHANGED tabVars
    BY <2>1 DEF Expanding, SaveJson, CloseJson
  <2> QED
    BY <1>5, <2>2, <2>3, <2>4, <2>5 DEF OpenPreview, ClosePreview
<1> QED
  BY <1>1, <1>2, <1>3, <1>4, <1>5 DEF GridNext, Querying, Reviewing

\* A change of the tabs on screen.
LEMMA MovesKeep ==
    ASSUME GInv, MoveBetweenTabs
    PROVE  GInv'
<1>1. TabsInv'
  BY EditorTabsAssumption, TabsStepKeeps, MovingIsAStep DEF GInv
<1>2. fetched' = [r \in Results |-> IF \E t \in QueryTabs : r \in Range(resultTabs'[t])
                                    THEN fetched[r] ELSE <<>>]
  BY DEF MoveBetweenTabs
<1>3. fetched' \in [Results -> Seq(TableRow)]
  <2>1. \A r \in Results : fetched[r] \in Seq(TableRow) /\ <<>> \in Seq(TableRow)
    BY DEF GInv
  <2> QED
    BY <1>2, <2>1
<1>4. \A r \in Swept : r \in Results /\ \E t \in QueryTabs : r \in Range(resultTabs'[t])
  <2>1. mounted \subseteq Results
    BY ShownOfTheTab, EditorTabsAssumption DEF GInv
  <2> QED
    BY <2>1 DEF Swept
<1>5. \A r \in Swept : fetched'[r] = fetched[r]
  BY <1>2, <1>4
<1> QED
  BY <1>1, <1>3, <1>5, EffectsKeep DEF MoveBetweenTabs

\* The answer of a query.
LEMMA AnswersKeep ==
    ASSUME GInv, NEW t \in QueryTabs, NEW rs \in Answers, NEW contents \in [Range(rs) -> Tables],
           FinishQuery(t, rs, contents)
    PROVE  GInv'
<1>1. TabsInv'
  BY EditorTabsAssumption, TabsStepKeeps, AnswerShape DEF GInv
<1>2. mounted \subseteq InUse /\ mounted \subseteq Results
  BY ShownOfTheTab, EditorTabsAssumption DEF GInv
<1>3. \A q \in Swept : fetched'[q] = fetched[q]
  BY <1>2, AnswerShape DEF Swept
<1> QED
  BY <1>1, <1>3, AnswerShape, EffectsKeep

\* Every step keeps the invariant.
LEMMA StepKeeps ==
    ASSUME GInv, JsonOK, GridNext
    PROVE  GInv'
<1>1. TabsInv'
  <2>1. TabsInv
    BY DEF GInv
  <2>2. TabsStep => TabsInv'
    BY <2>1, EditorTabsAssumption, TabsStepKeeps
  <2>3. UNCHANGED tabVars => TabsInv'
    BY <2>1 DEF TabsInv, TabsTypeOK, TabsAreWellFormed, tabVars, Open
  <2> QED
    BY <2>2, <2>3, TabsMove
<1>2. CASE MoveBetweenTabs
  BY <1>2, MovesKeep
<1>3. CASE StartQuery
  BY <1>1, <1>3, ReviewsKeep DEF StartQuery, setTabExecuting, gridVars
<1>4. ASSUME NEW t \in QueryTabs, NEW rs \in Answers, NEW contents \in [Range(rs) -> Tables],
             FinishQuery(t, rs, contents)
      PROVE  GInv'
  BY <1>4, AnswersKeep
<1>5. CASE OpenPreview
  BY <1>1, <1>5, ReviewsKeep DEF OpenPreview, tabVars
<1>6. CASE ClosePreview
  BY <1>1, <1>6, ReviewsKeep DEF ClosePreview, tabVars
<1>7. CASE ExecuteAll
  BY <1>1, <1>7, ReviewsKeep DEF ExecuteAll, setTabExecuting
<1>8. CASE ~preview /\ Staging
  BY <1>8, StagingKeeps
<1>9. CASE Keyboard
  <2>1. CASE \E i \in 1..MaxRows : NavigateRow(i) \/ selectRowByCanonicalIndex(i) \/ PinRow(i)
    BY <2>1, PanelStepsKeep
  <2>2. CASE \E selected : DeleteSelection(selected)
    BY <2>2, DeletionKeeps
  <2> QED
    BY <1>9, <2>1, <2>2 DEF Keyboard
<1>10. CASE ~preview /\ Panelling
  <2>1. CASE \E i \in 1..MaxRows : ClickRow(i) \/ EditRow(i) \/ PinRow(i)
    BY <2>1, PanelStepsKeep
  <2>2. CASE \E i \in 1..MaxRows : OpenJson(i)
    BY <1>1, <2>2, ReviewsKeep DEF OpenJson, tabVars
  <2>3. CASE CtrlClickRow \/ ClosePanel \/ CancelEdit \/ NewRow
    BY <2>3, PanelStepsKeep
  <2>4. CASE \E data \in NewRows : SaveNewRow(data)
    BY <1>10, <2>4, SavesKeep
  <2>5. CASE \E edit \in Edits : SaveEdit(edit)
    BY <1>10, <2>5, SavesKeep
  <2> QED
    BY <1>10, <2>1, <2>2, <2>3, <2>4, <2>5 DEF Panelling
<1>11. CASE Expanding
  <2>1. CASE CloseJson
    BY <1>1, <2>1, ReviewsKeep DEF CloseJson, tabVars
  <2>2. CASE \E value \in JsonValues : SaveJson(value)
    BY <2>2, SavesKeep
  <2> QED
    BY <1>11, <2>1, <2>2 DEF Expanding
<1> QED
  BY <1>2, <1>3, <1>4, <1>5, <1>6, <1>7, <1>8, <1>9, <1>10, <1>11 DEF GridNext, Querying, Reviewing, NoModal

\* The JSON modal opens over a result, which does not leave the screen under it.
LEMMA JsonStays ==
    ASSUME GInv, JsonOK, GridNext
    PROVE  JsonOK'
<1>1. ASSUME UNCHANGED tabVars, UNCHANGED <<jsonModal, preview>> PROVE JsonOK'
  BY <1>1 DEF JsonOK, OnScreen, shown, activeTab, Open, tabVars
<1>2. ASSUME UNCHANGED <<tabs, activeTabId, activeResult, jsonModal>>, preview' => preview PROVE JsonOK'
  BY <1>2 DEF JsonOK, OnScreen, shown, activeTab, Open
<1>3. CASE MoveBetweenTabs
  BY <1>3 DEF MoveBetweenTabs, JsonOK
<1>4. CASE StartQuery
  BY <1>2, <1>4 DEF StartQuery, setTabExecuting, gridVars
<1>5. ASSUME NEW t \in QueryTabs, NEW rs \in Answers, NEW contents \in [Range(rs) -> Tables],
             FinishQuery(t, rs, contents)
      PROVE  JsonOK'
  <2>1. /\ UNCHANGED <<tabs, activeTabId, jsonModal>>
        /\ preview' => preview
        /\ activeResult' = [activeResult EXCEPT ![t] = IF rs = <<>> THEN @ ELSE Head(rs)]
    BY <1>5 DEF FinishQuery, setTabResults, Effects
  <2>2. rs # <<>> => Head(rs) \in Results
    BY <1>5, AnswerShape, HeadTailProperties
  <2>3. activeResult \in [QueryTabs -> Results \cup {Absent}] /\ Absent \notin Results
    BY EditorTabsAssumption DEF GInv, TabsInv, TabsTypeOK, EditorTabsAssumption
  <2>4. activeTab' = activeTab
    BY <2>1 DEF activeTab, Open
  <2>5. OnScreen => OnScreen'
    BY <2>1, <2>2, <2>3, <2>4 DEF OnScreen, shown
  <2> QED
    BY <2>1, <2>5 DEF JsonOK
<1>6. CASE Reviewing
  <2>1. CASE jsonModal = 0 /\ OpenPreview
    BY <2>1 DEF OpenPreview, JsonOK
  <2>2. CASE ClosePreview
    BY <1>2, <2>2 DEF ClosePreview, tabVars
  <2>3. CASE ExecuteAll
    BY <1>2, <2>3 DEF ExecuteAll, setTabExecuting
  <2> QED
    BY <1>6, <2>1, <2>2, <2>3 DEF Reviewing
<1>7. CASE Expanding
  <2>1. jsonModal' = 0
    <3>1. \A value : SaveJson(value) => jsonModal' = 0
      BY DEF SaveJson
    <3> QED
      BY <1>7, <3>1 DEF Expanding, CloseJson
  <2> QED
    BY <2>1 DEF JsonOK
<1>8. \A rows : SetRows(rows) => UNCHANGED <<tabVars, preview>>
  BY DEF SetRows
<1>9. CASE Keyboard
  BY <1>1, <1>8, <1>9 DEF Keyboard, NavigateRow, selectRowByCanonicalIndex, PinRow, DeleteSelection
<1>10. CASE NoModal /\ Panelling
  <2>1. ASSUME NEW i \in 1..MaxRows, OpenJson(i) PROVE JsonOK'
    <3>1. OnScreen' = OnScreen
      BY <2>1 DEF OpenJson, OnScreen, shown, activeTab, Open, tabVars
    <3> QED
      BY <1>10, <2>1, <3>1 DEF OpenJson, NoModal, JsonOK
  <2>2. CASE ~\E i \in 1..MaxRows : OpenJson(i)
    BY <1>1, <1>8, <1>10, <2>2 DEF Panelling, ClickRow, EditRow, PinRow, CtrlClickRow, ClosePanel,
       CancelEdit, NewRow, SaveNewRow, SaveEdit
  <2> QED
    BY <2>1, <2>2
<1>11. CASE Staging
  BY <1>1, <1>8, <1>11 DEF Staging, DiscardSelection, DiscardShownRow, DiscardEverything
<1> QED
  BY <1>3, <1>4, <1>5, <1>6, <1>7, <1>9, <1>10, <1>11 DEF GridNext, Querying


-----------------------------------------------------------------------------
(* What editing promises. *)

\* The invariant holds in every state.
LEMMA Reachable == GridSpec => [](GInv /\ JsonOK)
<1>1. GridInit => GInv
  <2> SUFFICES ASSUME GridInit PROVE GInv
    OBVIOUS
  <2>1. tabs = <<>> /\ activeTabId = Absent /\ executing = {}
        /\ resultTabs = [t \in QueryTabs |-> <<>>] /\ activeResult = [t \in QueryTabs |-> Absent]
    BY DEF GridInit, TabsInit
  <2>2. Range(<<>>) = {} /\ Len(<<>>) = 0 /\ \A T : <<>> \in Seq(T)
    BY DEF Range
  <2>3. activeTab = Absent /\ Open = {}
    BY <2>1, <2>2 DEF activeTab, Open
  <2>4. ~OnScreen /\ OfTheTab = {}
    BY <2>3, EditorTabsAssumption DEF OnScreen, shown, OfTheTab
  <2>5. TabsInv
    <3>1. \A t \in QueryTabs : resultTabs[t] = <<>> /\ activeResult[t] = Absent
      BY <2>1
    <3>2. resultTabs \in [QueryTabs -> Seq(Results)]
      BY <2>1, <2>2
    <3>3. activeResult \in [QueryTabs -> Results \cup {Absent}]
      BY <2>1
    <3>4. TabsTypeOK
      BY <2>1, <2>2, <3>2, <3>3 DEF TabsTypeOK
    <3>5. TabsAreWellFormed
      BY <2>1, <2>2, <3>1 DEF TabsAreWellFormed
    <3> QED
      BY <2>1, <2>3, <3>4, <3>5 DEF TabsInv
  <2>6. PanelOK(panel, Height)
    BY DEF GridInit, ClosedPanel, PanelOK, Panel
  <2>7. fetched \in [Results -> Seq(TableRow)] /\ displayRows \in [Results -> Seq(DisplayRow)]
    BY <2>2 DEF GridInit
  <2> QED
    BY <2>4, <2>5, <2>6, <2>7 DEF GInv, GridInit
<1>2. GridInit => JsonOK
  BY DEF GridInit, JsonOK
<1>3. GInv /\ JsonOK /\ [GridNext]_allVars => GInv' /\ JsonOK'
  <2> SUFFICES ASSUME GInv, JsonOK, [GridNext]_allVars PROVE GInv' /\ JsonOK'
    OBVIOUS
  <2>1. CASE GridNext
    BY <2>1, StepKeeps, JsonStays
  <2>2. CASE UNCHANGED allVars
    <3>1. TabsInv'
      BY <2>2 DEF allVars, tabVars, GInv, TabsInv, TabsTypeOK, TabsAreWellFormed, Open
    <3>2. JsonOK'
      BY <2>2 DEF JsonOK, OnScreen, shown, activeTab, Open, allVars, tabVars, gridVars
    <3> QED
      BY <2>2, <3>1, <3>2, ReviewsKeep DEF allVars, tabVars, gridVars
  <2> QED
    BY <2>1, <2>2
<1> QED
  BY <1>1, <1>2, <1>3, PTL DEF GridSpec

\* The types, and tabs and results that the lookups by id find, after any steps of the user
\* and any answers of queries.
THEOREM TabsStayWellFormed == GridSpec => []GridInv
BY Reachable, GridImplied, PTL

\* handleDiscardAll gives back the rows the query read, whatever was edited, deleted, added
\* and edited again, in whatever order (QueryResults.tsx).
THEOREM DiscardAllRestores == GridSpec => []DiscardRestores
<1>1. GInv => DiscardRestores
  <2> SUFFICES ASSUME GInv, EditedAsMeant
               PROVE  LET rest == DiscardAll(Rows)
                      IN  [i \in 1..Len(rest) |-> rest[i].data] = fetched[shown]
    BY DEF DiscardRestores
  <2>1. shown \in mounted \ converted /\ shown \in Results
    BY ShownOfTheTab, EditorTabsAssumption DEF GInv, EditedAsMeant, OnScreen
  <2>2. RowsOK(Rows) /\ Grounded(Rows, fetched[shown]) /\ fetched[shown] \in Seq(TableRow)
    BY <2>1 DEF GInv, Rows
  <2> DEFINE rest == DiscardAll(Rows)
             table == fetched[shown]
  <2>3. Len(rest) = Len(table) /\ \A j \in 1..Len(table) : rest[j].data = table[j]
    BY <2>2, DiscardedAll
  <2>4. table = [i \in 1..Len(table) |-> table[i]]
    BY <2>2
  <2> HIDE DEF rest, table
  <2>5. [i \in 1..Len(rest) |-> rest[i].data] = [i \in 1..Len(table) |-> table[i]]
    BY <2>3
  <2> QED
    BY <2>4, <2>5 DEF rest, table
<1> QED
  BY <1>1, Reachable, PTL

\* While tabs are open one of them is on screen, unless closeTabsToRight closed it.
THEOREM OnlyCloseToRight == GridSpec => OnlyCloseToRightBlanksTheScreen
<1>1. GInv /\ [GridNext]_allVars =>
        [ActiveTabIsOpen /\ ~ActiveTabIsOpen' => \E i \in 1..Len(tabs) : closeTabsToRight(i)]_tabVars
  <2> SUFFICES ASSUME GInv, [GridNext]_allVars, tabVars' # tabVars, ActiveTabIsOpen, ~ActiveTabIsOpen'
               PROVE  \E i \in 1..Len(tabs) : closeTabsToRight(i)
    OBVIOUS
  <2>1. GridNext
    BY DEF allVars
  <2>2. TabsStep
    BY <2>1, TabsMove
  <2> QED
    BY <2>2, ScreenStays, EditorTabsAssumption DEF GInv
<1> QED
  BY <1>1, Reachable, PTL DEF GridSpec, OnlyCloseToRightBlanksTheScreen


\* A selection, discarded: row by row, in the places the filter leaves them.
LEMMA SelectionDiscarded ==
    ASSUME NEW rows, RowsOK(rows), NEW table \in Seq(TableRow), Grounded(rows, table), NEW selected,
           NEW j \in 1..Cardinality((1..Len(rows)) \ (selected \cap StagedAs(rows, "staged-insert")))
    PROVE  LET n == Nth((1..Len(rows)) \ (selected \cap StagedAs(rows, "staged-insert")), j)
           IN  /\ n \in 1..Len(rows)
               /\ Face(Discard(rows, selected)[j])
                    = IF n \in selected THEN <<Original(rows[n]), "normal">> ELSE Face(rows[n])
<1> DEFINE gone == selected \cap StagedAs(rows, "staged-insert")
           kept == (1..Len(rows)) \ gone
           n == Nth(kept, j)
           rest == Drop(rows, gone)
<1>0. Len(table) \in Nat /\ Len(rows) \in Nat /\ \A i \in 1..Len(rows) : rows[i] \in DisplayRow
  BY RowsLength, LenProperties
<1>1. gone \in SUBSET (1..Len(rows)) /\ \A i \in gone : i > Len(table)
  BY InsertsAreBehind DEF StagedAs
<1>2. n \in kept /\ rest[j] = rows[n] /\ Len(rest) = Cardinality(kept) /\ j \in 1..Cardinality(kept)
  <2>1. rows \in Seq(DisplayRow) /\ kept \in SUBSET (1..Len(rows))
    BY DEF RowsOK
  <2>2. Len(Keep(rows, kept)) = Cardinality(kept)
        /\ \A i \in 1..Cardinality(kept) : Nth(kept, i) \in kept /\ Keep(rows, kept)[i] = rows[Nth(kept, i)]
    BY <2>1, Kept
  <2> QED
    BY <2>2 DEF Drop
<1>3. Grounded(rest, table) /\ \A i \in 1..Len(table) : Nth(kept, i) = i
  <2>1. Grounded(rest, table)
    BY <1>0, <1>1, DroppedRows
  <2>2. Len(table) \in 0..Len(rows)
    BY <1>0 DEF Grounded
  <2>3. \A i \in 1..Len(table) : i \in 1..Len(rows) /\ i \notin gone
    BY <1>0, <1>1, <2>2
  <2>4. 1..Len(table) \subseteq kept /\ kept \in SUBSET (1..Len(rows))
    BY <2>3
  <2> HIDE DEF kept, rest
  <2> QED
    BY <1>0, <2>1, <2>2, <2>4, PrefixStays
<1>4. Discard(rows, selected)[j] = IF j \in selected THEN Restored(rest[j]) ELSE rest[j]
  BY DiscardedRows
<1>5. j \in Int /\ j >= 1 /\ j <= Len(rest)
  <2>1. Cardinality(kept) \in Nat
    BY <1>0, Positions
  <2> QED
    BY <1>2, <2>1
<1>6. n \in 1..Len(rows) /\ (n \in selected => n \notin StagedAs(rows, "staged-insert"))
  BY <1>2
<1> HIDE DEF rest, n, kept, gone
<1> SUFFICES Face(Discard(rows, selected)[j])
               = IF n \in selected THEN <<Original(rows[n]), "normal">> ELSE Face(rows[n])
  BY <1>6 DEF n, kept, gone
<1>7. CASE j <= Len(table)
  <2>1. n = j /\ j \in 1..Len(rest)
    <3>1. j \in 1..Len(table) /\ Len(rest) \in Int
      BY <1>0, <1>2, <1>5, <1>7
    <3> QED
      BY <1>3, <1>5, <3>1 DEF n
  <2>2. /\ rest[j].status # "staged-insert"
        /\ rest[j].status # "staged-update" => rest[j].originalData = NoRow
    BY <1>3, <1>7, <2>1 DEF Grounded
  <2>3. rows[n] \in DisplayRow /\ (rows[n].status = "staged-update" => rows[n].originalData # NoRow)
    BY <1>0, <1>6 DEF RowsOK
  <2>4. Restored(rows[n]).status = "normal" /\ Restored(rows[n]).data = Original(rows[n])
    BY <1>2, <2>2, <2>3, RestoredRow
  <2> QED
    BY <1>2, <1>4, <2>1, <2>4 DEF Face
<1>8. CASE ~(j <= Len(table))
  <2>1. rest[j].status = "staged-insert"
    BY <1>3, <1>5, <1>8 DEF Grounded
  <2>2. n \notin selected
    BY <1>2, <1>6, <2>1 DEF StagedAs
  <2>3. Restored(rest[j]) = rest[j]
    BY <2>1 DEF Restored
  <2> QED
    BY <1>2, <1>4, <2>2, <2>3
<1> QED
  BY <1>7, <1>8

\* handleDiscardSelection restores the rows that were selected and no others, although it
\* looks shifted positions up in the selection (QueryResults.tsx).
THEOREM DiscardSelectionIsExact == GridSpec => []DiscardHitsItsSelection
<1>1. GInv => DiscardHitsItsSelection
  <2> SUFFICES ASSUME GInv, EditedAsMeant, NEW selected \in SUBSET (1..Len(Rows))
               PROVE  LET rest == Discard(Rows, selected)
                          restored(i) == <<Original(Rows[i]), "normal">>
                      IN  [i \in 1..Len(rest) |-> Face(rest[i])]
                            = Drop([i \in 1..Len(Rows) |-> IF i \in selected THEN restored(i)
                                                           ELSE Face(Rows[i])],
                                   selected \cap StagedAs(Rows, "staged-insert"))
    BY DEF DiscardHitsItsSelection
  <2> DEFINE gone == selected \cap StagedAs(Rows, "staged-insert")
             rest == Discard(Rows, selected)
             face(i) == IF i \in selected THEN <<Original(Rows[i]), "normal">> ELSE Face(Rows[i])
             faces == [i \in 1..Len(Rows) |-> face(i)]
             kept == (1..Len(Rows)) \ gone
  <2>1. shown \in mounted \ converted /\ shown \in Results
    BY ShownOfTheTab, EditorTabsAssumption DEF GInv, EditedAsMeant, OnScreen
  <2>2. RowsOK(Rows) /\ Grounded(Rows, fetched[shown]) /\ fetched[shown] \in Seq(TableRow)
    BY <2>1 DEF GInv, Rows
  <2>3. Len(rest) = Cardinality(kept) /\ Len(Rows) \in Nat
    BY <2>2, DiscardedRows, RowsLength
  <2>4. \A j \in 1..Cardinality(kept) : Nth(kept, j) \in 1..Len(Rows) /\ Face(rest[j]) = face(Nth(kept, j))
    BY <2>2, SelectionDiscarded
  <2>5. Len(faces) = Len(Rows)
    BY <2>3
  <2>6. Drop(faces, gone) = [j \in 1..Cardinality(kept) |-> faces[Nth(kept, j)]]
    <3> HIDE DEF faces, gone
    <3>1. (1..Len(faces)) \ gone = kept
      BY <2>5
    <3> QED
      BY <3>1 DEF Drop, Keep
  <2>7. \A j \in 1..Cardinality(kept) : faces[Nth(kept, j)] = face(Nth(kept, j))
    BY <2>4
  <2> HIDE DEF rest, kept, faces, face
  <2>8. [i \in 1..Len(rest) |-> Face(rest[i])] = Drop(faces, gone)
    BY <2>3, <2>4, <2>6, <2>7
  <2> QED
    BY <2>8 DEF rest, faces, face, kept
<1> QED
  BY <1>1, Reachable, PTL


\* A result that is kept in the editor tab on screen keeps its rows through the effects.
LEMMA SiblingsStay ==
    ASSUME GInv, TabsStep, Effects, activeTab' = activeTab, NEW r \in mounted,
           NEW t \in QueryTabs, r \in Range(resultTabs'[t])
    PROVE  r \in Swept /\ displayRows'[r] = displayRows[r]
<1>1. activeTab \in QueryTabs /\ r \in Range(resultTabs[activeTab]) /\ r \in Results /\ r \in InUse
  <2>1. r \in OfTheTab /\ OfTheTab \subseteq Results /\ OfTheTab \subseteq InUse
    BY ShownOfTheTab, EditorTabsAssumption DEF GInv
  <2> QED
    BY <2>1 DEF OfTheTab
<1>2. TabsInv /\ TabsAreWellFormed
  BY DEF GInv, TabsInv
<1>3. r \in Range(resultTabs[t])
  BY <1>1, <1>2, ResultsStay
<1>4. t = activeTab
  BY <1>1, <1>2, <1>3 DEF TabsAreWellFormed
<1>5. r \in Swept
  BY <1>1, <1>4 DEF Swept
<1> QED
  BY <1>1, <1>5 DEF Effects

\* A handler of the grid changes the rows of the result on screen alone, and no step that
\* leaves the tabs does more; under review the only handler that does is that of Delete.
LEMMA OthersStay ==
    ASSUME GInv, JsonOK, GridNext, ~MoveBetweenTabs,
           ~\E t \in QueryTabs, rs \in Answers :
               \E contents \in [Range(rs) -> Tables] : FinishQuery(t, rs, contents)
    PROVE  /\ \A r \in Results \ {shown} : displayRows'[r] = displayRows[r]
           /\ ~UNCHANGED tabVars => UNCHANGED displayRows
           /\ preview /\ preview' => \/ UNCHANGED <<tabVars, displayRows>>
                                    \/ \E selected : DeleteSelection(selected)
<1>1. \A rows : SetRows(rows) => /\ UNCHANGED tabVars
                                 /\ \A r \in Results \ {shown} : displayRows'[r] = displayRows[r]
  BY DEF SetRows, GInv
<1>2. Keyboard => /\ UNCHANGED tabVars
                  /\ \A r \in Results \ {shown} : displayRows'[r] = displayRows[r]
                  /\ UNCHANGED displayRows \/ \E selected : DeleteSelection(selected)
  BY <1>1 DEF Keyboard, NavigateRow, selectRowByCanonicalIndex, PinRow, DeleteSelection
<1>3. Panelling => /\ UNCHANGED tabVars
                   /\ \A r \in Results \ {shown} : displayRows'[r] = displayRows[r]
  BY <1>1 DEF Panelling, ClickRow, EditRow, PinRow, OpenJson, CtrlClickRow, ClosePanel, CancelEdit,
     NewRow, SaveNewRow, SaveEdit
<1>4. Staging => /\ UNCHANGED tabVars
                 /\ \A r \in Results \ {shown} : displayRows'[r] = displayRows[r]
  BY <1>1 DEF Staging, DiscardSelection, DiscardShownRow, DiscardEverything
<1>5. StartQuery => UNCHANGED displayRows
  BY DEF StartQuery, gridVars
<1>6. Reviewing => UNCHANGED displayRows /\ ~(preview /\ preview')
  BY DEF Reviewing, OpenPreview, ClosePreview, ExecuteAll
<1>7. Expanding => /\ UNCHANGED tabVars /\ ~preview
                   /\ \A r \in Results \ {shown} : displayRows'[r] = displayRows[r]
  BY <1>1 DEF Expanding, CloseJson, SaveJson, JsonOK
<1> QED
  BY <1>2, <1>3, <1>4, <1>5, <1>6, <1>7 DEF GridNext, Querying, NoModal

\* An answer leaves what is under review, or ends the review.
LEMMA ReviewsStay ==
    ASSUME GInv, NEW t \in QueryTabs, NEW rs \in Answers, NEW contents \in [Range(rs) -> Tables],
           FinishQuery(t, rs, contents), preview, preview'
    PROVE  Rows' = Rows
<1>1. TabsInv /\ shown \in mounted /\ shown # Absent /\ mounted \subseteq OfTheTab
  BY DEF GInv, OnScreen
<1>2. activeTab \in QueryTabs /\ shown = activeResult[activeTab] /\ OfTheTab \subseteq InUse
  BY <1>1, ShownOfTheTab, EditorTabsAssumption DEF shown
<1>3. activeTab' = activeTab
  BY DEF FinishQuery, setTabResults, activeTab, Open
<1>4. /\ resultTabs \in [QueryTabs -> Seq(Results)] /\ activeResult \in [QueryTabs -> Results \cup {Absent}]
      /\ resultTabs' = [resultTabs EXCEPT ![t] = rs \o @]
      /\ activeResult' = [activeResult EXCEPT ![t] = IF rs = <<>> THEN @ ELSE Head(rs)]
  BY <1>1 DEF TabsInv, TabsTypeOK, FinishQuery, setTabResults
<1>5. shown' = activeResult'[activeTab]
  BY <1>2, <1>3 DEF shown
<1>6. /\ TabsStep /\ Effects /\ fetched' \in [Results -> Seq(TableRow)]
      /\ rs \in Seq(Results \ InUse) /\ Range(rs) \subseteq Results \ InUse
  BY AnswerShape
<1>7. CASE t = activeTab /\ rs # <<>>
  <2>1. Head(rs) \in Range(rs)
    <3>1. rs \in Seq(Results) /\ <<>> \in Seq(Results)
      BY <1>6
    <3> QED
      BY <1>7, <3>1, Prefixed
  <2>2. shown' = Head(rs) /\ shown' \in Results /\ shown' \notin Swept
    BY <1>1, <1>2, <1>4, <1>5, <1>6, <1>7, <2>1 DEF Swept
  <2>3. shown' # Absent /\ StagedIn(displayRows'[shown']) # {}
    BY <1>6 DEF Effects
  <2>4. displayRows'[shown'] = Fresh(fetched'[shown'])
    BY <1>6, <2>2, <2>3 DEF Effects
  <2>5. StagedIn(Fresh(fetched'[shown'])) = {}
    BY <1>6, <2>2, FreshRows
  <2> QED
    BY <2>3, <2>4, <2>5
<1>8. CASE ~(t = activeTab /\ rs # <<>>)
  <2>1. shown' = shown
    BY <1>2, <1>4, <1>5, <1>8
  <2>2. Range(rs \o resultTabs[t]) = Range(rs) \cup Range(resultTabs[t])
    <3>1. rs \in Seq(Results) /\ resultTabs[t] \in Seq(Results)
      BY <1>4, <1>6
    <3> QED
      BY <3>1, Prefixed
  <2>3. Range(resultTabs[activeTab]) \subseteq Range(resultTabs'[activeTab])
    BY <1>2, <1>4, <2>2
  <2>4. shown \in Range(resultTabs'[activeTab])
    BY <1>1, <1>2, <2>3 DEF OfTheTab
  <2>5. displayRows'[shown] = displayRows[shown]
    BY <1>1, <1>2, <1>3, <1>6, <2>4, SiblingsStay
  <2> QED
    BY <2>1, <2>5 DEF Rows
<1> QED
  BY <1>7, <1>8

\* The rows that keep their status keep their statements, and a row that is deleted adds one.
LEMMA DeletionAdds ==
    ASSUME NEW rows, RowsOK(rows), NEW selected
    PROVE  LET new == Delete(rows, selected)
           IN  /\ generateUpdateSQL(new) = generateUpdateSQL(rows)
               /\ generateInsertSQL(new) = generateInsertSQL(rows)
               /\ Range(generateDeleteSQL(rows)) \subseteq Range(generateDeleteSQL(new))
<1> DEFINE new == Delete(rows, selected)
<1>1. RowsOK(new) /\ Len(new) = Len(rows)
  BY DeletedRows
<1>2. Len(rows) \in Nat /\ \A i \in 1..Len(rows) : rows[i] \in DisplayRow
  BY RowsLength
<1>3. /\ \A i \in 1..Len(rows) : isStaged(rows[i]) => new[i] = rows[i]
      /\ \A i \in 1..Len(rows) : ~isStaged(rows[i]) => new[i].status \in {"normal", "staged-delete"}
  <2>1. \A row \in DisplayRow : [row EXCEPT !.status = "staged-delete"].status = "staged-delete"
    BY DEF DisplayRow
  <2> QED
    BY <1>2, <2>1 DEF Delete, isStaged
<1> HIDE DEF new
<1>4. \A status \in {"staged-update", "staged-insert"} : StagedAs(new, status) = StagedAs(rows, status)
  BY <1>1, <1>3 DEF StagedAs, isStaged
<1>5. \A status \in {"staged-update", "staged-insert"} : Staged(new, status) = Staged(rows, status)
  <2> TAKE status \in {"staged-update", "staged-insert"}
  <2> DEFINE S == StagedAs(rows, status)
  <2>1. S \in SUBSET (1..Len(rows)) /\ \A i \in S : new[i] = rows[i]
    BY <1>3 DEF StagedAs, isStaged
  <2> HIDE DEF S
  <2>2. \A j \in 1..Cardinality(S) : Nth(S, j) \in S
    BY <1>2, <2>1, NthProperties
  <2>3. Keep(new, S) = Keep(rows, S)
    BY <2>1, <2>2 DEF Keep
  <2> QED
    BY <1>4, <2>3 DEF Staged, S
<1>6. Range(generateDeleteSQL(rows)) \subseteq Range(generateDeleteSQL(new))
  <2> DEFINE stmt(row) == [op |-> "delete", where |-> Restrict(row.data, PrimaryKey), set |-> <<>>]
  <2>1. ASSUME NEW some, RowsOK(some)
        PROVE  Range(generateDeleteSQL(some)) = {stmt(some[i]) : i \in StagedAs(some, "staged-delete")}
    <3> DEFINE S == StagedAs(some, "staged-delete")
               sql == generateDeleteSQL(some)
    <3>1. some \in Seq(DisplayRow) /\ S \in SUBSET (1..Len(some))
      BY <2>1 DEF RowsOK, StagedAs
    <3> HIDE DEF S
    <3>2. /\ Len(Keep(some, S)) = Cardinality(S)
          /\ \A j \in 1..Cardinality(S) : Nth(S, j) \in S /\ Keep(some, S)[j] = some[Nth(S, j)]
          /\ \A i \in S : Rank(S, i) \in 1..Cardinality(S) /\ Keep(some, S)[Rank(S, i)] = some[i]
      BY <3>1, Kept
    <3>3. sql = [j \in 1..Cardinality(S) |-> stmt(Keep(some, S)[j])]
      BY <3>2 DEF generateDeleteSQL, Staged, S
    <3> HIDE DEF sql, stmt
    <3>4. Range(sql) = {stmt(Keep(some, S)[j]) : j \in 1..Cardinality(S)}
      BY <3>3 DEF Range
    <3> QED
      BY <3>2, <3>4 DEF sql, S
  <2>2. \A i \in StagedAs(rows, "staged-delete") : i \in StagedAs(new, "staged-delete") /\ new[i] = rows[i]
    BY <1>1, <1>3 DEF StagedAs, isStaged
  <2> HIDE DEF stmt
  <2> QED
    BY <1>1, <2>1, <2>2
<1> QED
  BY <1>5, <1>6 DEF generateUpdateSQL, generateInsertSQL, new

\* Staged changes are lost only by the handlers that discard them, with their tab, or when
\* the editor tab is left; and under review nothing is taken back and no edit or new row
\* comes: only the Delete key adds statements.
THEOREM StagedChangesAreKept == GridSpec => StagedChangesStay
<1> DEFINE Reviewed == /\ generateUpdateSQL(Rows') = generateUpdateSQL(Rows)
                       /\ generateInsertSQL(Rows') = generateInsertSQL(Rows)
                       /\ Range(generateDeleteSQL(Rows)) \subseteq Range(generateDeleteSQL(Rows'))
<1>1. ASSUME GInv, JsonOK, GridNext
      PROVE  /\ \A r \in mounted :
                  \/ displayRows'[r] = displayRows[r]
                  \/ activeTab' # activeTab
                  \/ r = shown /\ UNCHANGED tabVars
                  \/ StagedIn(displayRows[r]) = {}
                  \/ \A t \in QueryTabs : r \notin Range(resultTabs'[t])
             /\ preview /\ preview' => Reviewed
  <2>0. mounted \subseteq Results
    BY <1>1, ShownOfTheTab, EditorTabsAssumption DEF GInv
  <2>1. Rows' = Rows => Reviewed
    OBVIOUS
  <2> HIDE DEF Reviewed
  <2>2. CASE MoveBetweenTabs
    <3>1. TabsStep /\ Effects
      BY <2>2, MovingIsAStep
    <3>2. ~(preview /\ preview')
      <4>1. CASE NoModal
        BY <4>1 DEF NoModal
      <4>2. CASE Reload
        <5>1. shown' = Absent
          BY <4>2 DEF Reload, Forget, shown
        <5> QED
          BY <3>1, <5>1 DEF Effects
      <4> QED
        BY <2>2, <4>1, <4>2 DEF MoveBetweenTabs
    <3> QED
      BY <1>1, <3>1, <3>2, SiblingsStay
  <2>3. ASSUME NEW u \in QueryTabs, NEW rs \in Answers, NEW contents \in [Range(rs) -> Tables],
               FinishQuery(u, rs, contents)
        PROVE  /\ \A r \in mounted :
                    \/ displayRows'[r] = displayRows[r]
                    \/ activeTab' # activeTab
                    \/ \A t \in QueryTabs : r \notin Range(resultTabs'[t])
               /\ preview /\ preview' => Rows' = Rows
    <3>1. TabsStep /\ Effects
      BY <1>1, <2>3, AnswerShape
    <3> QED
      BY <1>1, <2>3, <3>1, SiblingsStay, ReviewsStay
  <2>4. CASE /\ ~MoveBetweenTabs
             /\ ~\E t \in QueryTabs, rs \in Answers :
                   \E contents \in [Range(rs) -> Tables] : FinishQuery(t, rs, contents)
    <3>1. /\ \A r \in Results \ {shown} : displayRows'[r] = displayRows[r]
          /\ ~UNCHANGED tabVars => UNCHANGED displayRows
          /\ preview /\ preview' => \/ UNCHANGED <<tabVars, displayRows>>
                                   \/ \E selected : DeleteSelection(selected)
      BY <1>1, <2>4, OthersStay
    <3>2. UNCHANGED tabVars => shown' = shown
      BY DEF tabVars, shown, activeTab, Open
    <3>3. UNCHANGED <<tabVars, displayRows>> => Reviewed
      BY <2>1, <3>2 DEF Rows
    <3>4. ASSUME NEW selected, DeleteSelection(selected) PROVE Reviewed
      <4>1. OnScreen /\ SetRows(Delete(Rows, selected))
        BY <3>4 DEF DeleteSelection
      <4>2. RowsOK(Rows) /\ shown \in Results
        BY <1>1, <4>1, RowsOnScreen
      <4>3. Rows' = Delete(Rows, selected)
        BY <1>1, <3>2, <4>1, <4>2 DEF SetRows, Rows, GInv
      <4> QED
        BY <4>2, <4>3, DeletionAdds DEF Reviewed
    <3> QED
      BY <2>0, <3>1, <3>3, <3>4
  <2> QED
    BY <2>1, <2>2, <2>3, <2>4
<1>2. GInv /\ JsonOK /\ [GridNext]_allVars =>
        [/\ \A r \in mounted :
              \/ displayRows'[r] = displayRows[r]
              \/ activeTab' # activeTab
              \/ r = shown /\ UNCHANGED tabVars
              \/ StagedIn(displayRows[r]) = {}
              \/ \A t \in QueryTabs : r \notin Range(resultTabs'[t])
         /\ preview /\ preview' => Reviewed]_allVars
  BY <1>1
<1> QED
  BY <1>2, Reachable, PTL DEF GridSpec, StagedChangesStay


-----------------------------------------------------------------------------
(* The statements, one after the other. *)

\* A set of numbers has a least one.
LEMMA Least ==
    ASSUME NEW T, T \subseteq Nat, T # {}
    PROVE  \E x \in T : \A y \in T : x <= y
<1>1. PICK x \in T : \A y \in T : ~(<<y, x>> \in OpToRel(<, Nat))
  BY NatLessThanWellFounded, WFMin
<1>2. \A y \in T : y < x => <<y, x>> \in OpToRel(<, Nat)
  BY DEF OpToRel
<1>3. \A y \in T : ~(y < x)
  BY <1>1, <1>2
<1> QED
  BY <1>3

\* What a batch comes to is where a sequence of tables ends that begins with the first
\* table and of which each is made of the one before by the next statement.
LEMMA ApplyIs ==
    ASSUME NEW rows, NEW stmts, Len(stmts) \in Nat, NEW f,
           f = [n \in 0..Len(stmts) |-> IF n = 0 THEN rows ELSE Exec(f[n - 1], stmts[n])]
    PROVE  Apply(rows, stmts) = f[Len(stmts)]
<1> DEFINE Steps(g) == g = [n \in 0..Len(stmts) |-> IF n = 0 THEN rows ELSE Exec(g[n - 1], stmts[n])]
           after == CHOOSE g : Steps(g)
<1>1. Apply(rows, stmts) = after[Len(stmts)]
  BY DEF Apply
<1>2. Steps(f)
  OBVIOUS
<1>3. Steps(after)
  BY <1>2
<1> HIDE DEF after
<1>4. \A n \in 0..Len(stmts) : after[n] = f[n]
  <2> DEFINE T == {n \in 0..Len(stmts) : after[n] # f[n]}
  <2> SUFFICES ASSUME T # {} PROVE FALSE
    OBVIOUS
  <2>0. T \subseteq Nat /\ T # {}
    OBVIOUS
  <2>1. PICK n \in T : \A y \in T : n <= y
    <3> HIDE DEF T
    <3> QED
      BY <2>0, Least
  <2>2. after[n] = IF n = 0 THEN rows ELSE Exec(after[n - 1], stmts[n])
    BY <1>3
  <2>3. f[n] = IF n = 0 THEN rows ELSE Exec(f[n - 1], stmts[n])
    BY <1>2
  <2>4. n # 0
    BY <2>2, <2>3
  <2>5. n - 1 \in 0..Len(stmts) /\ n - 1 \notin T
    BY <2>1, <2>4
  <2> QED
    BY <2>2, <2>3, <2>5
<1> QED
  BY <1>1, <1>4

\* Keeping some of what was kept.
LEMMA KeptOfKept ==
    ASSUME NEW T, NEW s \in Seq(T), NEW A \in SUBSET (1..Len(s)), NEW B \in SUBSET A
    PROVE  Keep(Keep(s, A), {i \in 1..Cardinality(A) : Nth(A, i) \in B}) = Keep(s, B)
<1> DEFINE m == Cardinality(A)
           P == {i \in 1..m : Nth(A, i) \in B}
           g == [j \in 1..Cardinality(P) |-> Nth(A, Nth(P, j))]
<1>0. Len(s) \in Nat /\ B \in SUBSET (1..Len(s)) /\ m \in Nat /\ P \in SUBSET (1..m)
  BY LenProperties, Positions
<1>1. \A i \in 1..m : Nth(A, i) \in A /\ Nth(A, i) \in Int
  BY <1>0, NthProperties, Positions
<1>2. \A j \in 1..Cardinality(P) : Nth(P, j) \in P /\ Nth(P, j) \in 1..m
  <2> HIDE DEF P, m
  <2> QED
    BY <1>0, NthProperties
<1>3. Cardinality(P) \in Nat
  BY <1>0, Positions
<1> HIDE DEF P, m
<1>4. g \in [1..Cardinality(P) -> B]
  <2>1. \A j \in 1..Cardinality(P) : Nth(A, Nth(P, j)) \in B
    BY <1>2 DEF P
  <2> QED
    BY <2>1
<1>5. \A j, k \in 1..Cardinality(P) : j < k => g[j] < g[k]
  <2> SUFFICES ASSUME NEW j \in 1..Cardinality(P), NEW k \in 1..Cardinality(P), j < k
               PROVE  Nth(A, Nth(P, j)) < Nth(A, Nth(P, k))
    OBVIOUS
  <2>1. Nth(P, j) < Nth(P, k)
    BY <1>0, NthProperties
  <2> QED
    BY <1>0, <1>2, <2>1, NthProperties DEF m
<1>6. \A i \in B : \E j \in 1..Cardinality(P) : g[j] = i
  <2> SUFFICES ASSUME NEW i \in B PROVE \E j \in 1..Cardinality(P) : Nth(A, Nth(P, j)) = i
    OBVIOUS
  <2>1. Rank(A, i) \in 1..m /\ Nth(A, Rank(A, i)) = i
    BY <1>0, RankGrows, NthProperties DEF m
  <2>2. Rank(A, i) \in P
    BY <2>1 DEF P
  <2>3. Rank(P, Rank(A, i)) \in 1..Cardinality(P) /\ Nth(P, Rank(P, Rank(A, i))) = Rank(A, i)
    BY <1>0, <2>2, RankGrows, NthProperties
  <2> QED
    BY <2>1, <2>3
<1> HIDE DEF g
<1>7. Cardinality(P) = Cardinality(B) /\ \A j \in 1..Cardinality(P) : g[j] = Nth(B, j)
  BY <1>0, <1>3, <1>4, <1>5, <1>6, NthIsTheOrder
<1>8. \A j \in 1..Cardinality(P) : Keep(s, A)[Nth(P, j)] = s[Nth(A, Nth(P, j))]
  BY <1>2, Kept DEF m
<1>9. \A j \in 1..Cardinality(P) : Keep(s, A)[Nth(P, j)] = s[Nth(B, j)]
  BY <1>7, <1>8 DEF g
<1> QED
  BY <1>7, <1>9 DEF Keep, P, m


\* Keeping one position less, and one position more behind the others.
LEMMA KeptButOne ==
    ASSUME NEW T, NEW s \in Seq(T), NEW S \in SUBSET (1..Len(s)), NEW p \in S
    PROVE  Drop(Keep(s, S), {i \in 1..Cardinality(S) : Nth(S, i) = p}) = Keep(s, S \ {p})
<1> DEFINE one == {i \in 1..Cardinality(S) : Nth(S, i) = p}
           B == S \ {p}
<1>1. Len(Keep(s, S)) = Cardinality(S) /\ \A i \in 1..Cardinality(S) : Nth(S, i) \in S
  BY Kept
<1>2. (1..Len(Keep(s, S))) \ one = {i \in 1..Cardinality(S) : Nth(S, i) \in B}
  BY <1>1
<1>3. B \in SUBSET S
  OBVIOUS
<1> HIDE DEF one, B
<1>4. Keep(Keep(s, S), {i \in 1..Cardinality(S) : Nth(S, i) \in B}) = Keep(s, B)
  BY <1>3, KeptOfKept
<1>5. Drop(Keep(s, S), one) = Keep(s, B)
  BY <1>2, <1>4 DEF Drop
<1> QED
  BY <1>5 DEF one, B

\* A subsequence with one position more, behind all the others.
LEMMA KeptAndOne ==
    ASSUME NEW T, NEW s \in Seq(T), NEW S \in SUBSET (1..Len(s)), NEW p \in 1..Len(s),
           \A i \in S : i < p
    PROVE  Append(Keep(s, S), s[p]) = Keep(s, S \cup {p})
<1> DEFINE m == Cardinality(S)
           B == S \cup {p}
           g == [j \in 1..(m + 1) |-> IF j <= m THEN Nth(S, j) ELSE p]
<1>0. Len(s) \in Nat /\ B \in SUBSET (1..Len(s)) /\ m \in Nat /\ p \in Int
  BY LenProperties, Positions
<1>1. \A j \in 1..m : Nth(S, j) \in S /\ Nth(S, j) \in Int
  BY <1>0, NthProperties, Positions
<1>2. \A j, k \in 1..m : j < k => Nth(S, j) < Nth(S, k)
  BY <1>0, NthProperties
<1>3. \A i \in S : \E j \in 1..m : Nth(S, j) = i
  BY <1>0, RankGrows, NthProperties
<1> HIDE DEF m
<1>4. g \in [1..(m + 1) -> B]
  BY <1>0, <1>1
<1>5. \A j, k \in 1..(m + 1) : j < k => g[j] < g[k]
  <2> SUFFICES ASSUME NEW j \in 1..(m + 1), NEW k \in 1..(m + 1), j < k PROVE g[j] < g[k]
    OBVIOUS
  <2>1. j \in 1..m /\ g[j] = Nth(S, j)
    BY <1>0
  <2>2. CASE k \in 1..m
    BY <1>0, <1>2, <2>1, <2>2
  <2>3. CASE k = m + 1
    <3>1. g[k] = p
      BY <1>0, <2>3
    <3> QED
      BY <1>1, <2>1, <3>1
  <2> QED
    BY <1>0, <2>2, <2>3
<1>6. \A i \in B : \E j \in 1..(m + 1) : g[j] = i
  <2>1. g[m + 1] = p /\ m + 1 \in 1..(m + 1)
    BY <1>0
  <2>2. \A j \in 1..m : j \in 1..(m + 1) /\ g[j] = Nth(S, j)
    BY <1>0
  <2> QED
    BY <1>3, <2>1, <2>2
<1>7. \A j \in 1..(m + 1) : g[j] = IF j <= m THEN Nth(S, j) ELSE p
  OBVIOUS
<1> HIDE DEF g, B
<1>8. Cardinality(B) = m + 1 /\ \A j \in 1..(m + 1) : g[j] = Nth(B, j)
  <2> DEFINE M == m + 1
  <2>1. M \in Nat
    BY <1>0
  <2>2. g \in [1..M -> B] /\ (\A j, k \in 1..M : j < k => g[j] < g[k]) /\ \A i \in B : \E j \in 1..M : g[j] = i
    BY <1>4, <1>5, <1>6
  <2> HIDE DEF M
  <2>3. M = Cardinality(B) /\ \A j \in 1..M : g[j] = Nth(B, j)
    BY <1>0, <2>1, <2>2, NthIsTheOrder
  <2> QED
    BY <2>3 DEF M
<1>9. Keep(s, B) = [j \in 1..(m + 1) |-> IF j <= m THEN s[Nth(S, j)] ELSE s[p]]
  <2>1. Keep(s, B) = [j \in 1..(m + 1) |-> s[Nth(B, j)]]
    BY <1>8 DEF Keep
  <2>2. \A j \in 1..(m + 1) : s[Nth(B, j)] = IF j <= m THEN s[Nth(S, j)] ELSE s[p]
    BY <1>7, <1>8
  <2> QED
    BY <2>1, <2>2
<1>10. /\ Keep(s, S) \in Seq(T) /\ Len(Keep(s, S)) = m /\ s[p] \in T
       /\ \A j \in 1..m : Keep(s, S)[j] = s[Nth(S, j)]
  BY Kept DEF m
<1> DEFINE k == Keep(s, S)
<1>11. Append(k, s[p]) = [j \in 1..(m + 1) |-> IF j <= m THEN s[Nth(S, j)] ELSE s[p]]
  <2> HIDE DEF k
  <2>1. k \in Seq(T) /\ Len(k) = m /\ \A j \in 1..m : k[j] = s[Nth(S, j)]
    BY <1>10 DEF k
  <2>2. /\ Append(k, s[p]) \in Seq(T) /\ Len(Append(k, s[p])) = m + 1
        /\ Append(k, s[p])[m + 1] = s[p] /\ \A j \in 1..m : Append(k, s[p])[j] = k[j]
    BY <1>10, <2>1, AppendProperties
  <2> DEFINE a == Append(k, s[p])
  <2>3. a = [j \in 1..(m + 1) |-> a[j]]
    <3> HIDE DEF a
    <3>1. a \in Seq(T) /\ Len(a) = m + 1
      BY <2>2 DEF a
    <3> QED
      BY <3>1
  <2>4. \A j \in 1..(m + 1) : a[j] = IF j <= m THEN s[Nth(S, j)] ELSE s[p]
    <3> HIDE DEF a
    <3>1. \A j \in 1..(m + 1) : j \in 1..m \/ (j = m + 1 /\ ~(j <= m))
      BY <1>0
    <3>2. \A j \in 1..m : j <= m
      BY <1>0
    <3>3. a[m + 1] = s[p] /\ \A j \in 1..m : a[j] = s[Nth(S, j)]
      BY <2>1, <2>2 DEF a
    <3> QED
      BY <3>1, <3>2, <3>3
  <2> HIDE DEF a
  <2>5. a = [j \in 1..(m + 1) |-> IF j <= m THEN s[Nth(S, j)] ELSE s[p]]
    BY <2>3, <2>4
  <2> QED
    BY <2>5 DEF a
<1> QED
  BY <1>9, <1>11 DEF k, B, m


\* A table is not a failed request.
LEMMA TablesRun ==
    ASSUME NEW rows \in Seq(Row)
    PROVE  rows # Failed
BY ResultsGridAssumption DEF ResultsGridAssumption

\* A DELETE by a key that one row has, an UPDATE of the other column, an INSERT of a new key;
\* the table holds what `image` has at the positions S.
LEMMA DeleteRuns ==
    ASSUME NEW image \in Seq(Row), NEW S \in SUBSET (1..Len(image)), NEW p \in S,
           \A i \in S : image[i].k = image[p].k => i = p,
           NEW stmt, stmt.op = "delete", DOMAIN stmt.where = {"k"}, stmt.where["k"] = image[p].k
    PROVE  Exec(Keep(image, S), stmt) = Keep(image, S \ {p})
<1> DEFINE rows == Keep(image, S)
           hit == {i \in 1..Len(rows) : Matches(rows[i], stmt.where)}
<1>1. /\ rows \in Seq(Row) /\ Len(rows) = Cardinality(S)
      /\ \A i \in 1..Cardinality(S) : Nth(S, i) \in S /\ rows[i] = image[Nth(S, i)]
  BY Kept
<1> HIDE DEF rows
<1>2. rows # Failed
  BY <1>1, TablesRun
<1>3. Exec(rows, stmt) = Drop(rows, hit)
  BY <1>2 DEF Exec
<1>4. \A row : Matches(row, stmt.where) <=> row["k"] = image[p].k
  BY DEF Matches
<1>5. \A i \in S : image[i]["k"] = image[i].k
  OBVIOUS
<1>6. hit = {i \in 1..Cardinality(S) : Nth(S, i) = p}
  BY <1>1, <1>4, <1>5
<1> HIDE DEF hit
<1> QED
  BY <1>3, <1>6, KeptButOne DEF rows

\* A row with another value.
Rewritten(row, value) == [k |-> row.k, v |-> value]

\* An UPDATE by a key that one row has rewrites that row alone.
LEMMA UpdateRuns ==
    ASSUME NEW image \in Seq(Row), NEW S \in SUBSET (1..Len(image)), NEW p \in S,
           \A i \in S : image[i].k = image[p].k => i = p,
           NEW stmt, stmt.op = "update", DOMAIN stmt.where = {"k"}, stmt.where["k"] = image[p].k,
           DOMAIN stmt.set = {"v"},
           NEW after \in Seq(Row), \A i \in S \ {p} : after[i] = image[i],
           after[p] = Rewritten(image[p], stmt.set["v"])
    PROVE  Exec(Keep(image, S), stmt) = Keep(after, S)
<1> DEFINE rows == Keep(image, S)
           updated(row) == [k |-> IF "k" \in DOMAIN stmt.set THEN stmt.set["k"] ELSE row.k,
                            v |-> IF "v" \in DOMAIN stmt.set THEN stmt.set["v"] ELSE row.v]
<1>1. /\ rows \in Seq(Row) /\ Len(rows) = Cardinality(S)
      /\ \A i \in 1..Cardinality(S) : Nth(S, i) \in S /\ rows[i] = image[Nth(S, i)]
  BY Kept
<1> HIDE DEF rows
<1>2. rows # Failed
  BY <1>1, TablesRun
<1>3. Exec(rows, stmt) = [i \in 1..Len(rows) |-> IF Matches(rows[i], stmt.where) THEN updated(rows[i])
                                                 ELSE rows[i]]
  BY <1>2 DEF Exec
<1>4. \A row : Matches(row, stmt.where) <=> row["k"] = image[p].k
  BY DEF Matches
<1>5. \A row : updated(row) = Rewritten(row, stmt.set["v"])
  <2>1. "k" \notin {"v"}
    OBVIOUS
  <2> QED
    BY <2>1 DEF Rewritten
<1>6. \A i \in 1..Cardinality(S) :
        (IF Matches(rows[i], stmt.where) THEN updated(rows[i]) ELSE rows[i]) = after[Nth(S, i)]
  <2> TAKE i \in 1..Cardinality(S)
  <2>1. Nth(S, i) \in S /\ rows[i] = image[Nth(S, i)]
    BY <1>1
  <2> DEFINE n == Nth(S, i)
  <2> HIDE DEF n, updated
  <2>2. n \in S /\ rows[i] = image[n]
    BY <2>1 DEF n
  <2>3. CASE n = p
    BY <1>4, <1>5, <2>2, <2>3 DEF n
  <2>4. CASE n # p
    BY <1>4, <2>2, <2>4 DEF n
  <2> QED
    BY <2>3, <2>4
<1> HIDE DEF updated
<1>7. Keep(after, S) = [i \in 1..Cardinality(S) |-> after[Nth(S, i)]]
  BY DEF Keep
<1>8. Exec(rows, stmt) = [i \in 1..Cardinality(S) |-> after[Nth(S, i)]]
  BY <1>1, <1>3, <1>6
<1> QED
  BY <1>7, <1>8 DEF rows

\* An INSERT with a key that no row has puts its row behind the others.
LEMMA InsertRuns ==
    ASSUME NEW image \in Seq(Row), NEW S \in SUBSET (1..Len(image)), NEW p \in 1..Len(image),
           NEW stmt, stmt.op = "insert",
           \A i \in S : i < p /\ image[i].k # stmt.set["k"],
           image[p] = [k |-> stmt.set["k"],
                       v |-> IF "v" \in DOMAIN stmt.set THEN stmt.set["v"] ELSE DefaultValue]
    PROVE  Exec(Keep(image, S), stmt) = Keep(image, S \cup {p})
<1> DEFINE rows == Keep(image, S)
<1>1. /\ rows \in Seq(Row) /\ Len(rows) = Cardinality(S)
      /\ \A i \in 1..Cardinality(S) : Nth(S, i) \in S /\ rows[i] = image[Nth(S, i)]
  BY Kept
<1> HIDE DEF rows
<1>2. rows # Failed
  BY <1>1, TablesRun
<1>3. ~\E i \in 1..Len(rows) : rows[i].k = stmt.set["k"]
  BY <1>1
<1>4. Exec(rows, stmt) = Append(rows, image[p])
  BY <1>2, <1>3 DEF Exec
<1> QED
  BY <1>4, KeptAndOne DEF rows


\* The statements are written for these rows, in this order; a row's turn is the place of its
\* statement, 0 when it has none.
Deleted(rows) == StagedAs(rows, "staged-delete")
Changed(rows) == {i \in StagedAs(rows, "staged-update") : changedColumns(rows[i]) # {}}
Inserted(rows) == StagedAs(rows, "staged-insert")

Turn(rows, i) ==
    IF i \in Deleted(rows) THEN Rank(Deleted(rows), i)
    ELSE IF i \in Changed(rows) THEN Cardinality(Deleted(rows)) + Rank(Changed(rows), i)
    ELSE IF i \in Inserted(rows)
         THEN Cardinality(Deleted(rows)) + Cardinality(Changed(rows)) + Rank(Inserted(rows), i)
    ELSE 0

\* The row of the outcome.
OutcomeOf(row) ==
    [k |-> row.data.k, v |-> IF row.data.v = Undefined THEN DefaultValue ELSE row.data.v]

\* The rows the statements are written for, with what a row of the table looks like.
LEMMA StagedTyped ==
    ASSUME NEW rows, RowsOK(rows)
    PROVE  /\ Len(rows) \in Nat /\ \A i \in 1..Len(rows) : rows[i] \in DisplayRow
           /\ Deleted(rows) \in SUBSET (1..Len(rows)) /\ Changed(rows) \in SUBSET (1..Len(rows))
           /\ Inserted(rows) \in SUBSET (1..Len(rows))
           /\ Deleted(rows) \cap Changed(rows) = {} /\ Deleted(rows) \cap Inserted(rows) = {}
           /\ Changed(rows) \cap Inserted(rows) = {}
           /\ Cardinality(Deleted(rows)) \in Nat /\ Cardinality(Changed(rows)) \in Nat
           /\ Cardinality(Inserted(rows)) \in Nat
<1>1. Len(rows) \in Nat /\ \A i \in 1..Len(rows) : rows[i] \in DisplayRow
  BY RowsLength
<1>2. /\ Deleted(rows) \in SUBSET (1..Len(rows)) /\ Changed(rows) \in SUBSET (1..Len(rows))
      /\ Inserted(rows) \in SUBSET (1..Len(rows))
      /\ Deleted(rows) \cap Changed(rows) = {} /\ Deleted(rows) \cap Inserted(rows) = {}
      /\ Changed(rows) \cap Inserted(rows) = {}
  BY DEF Deleted, Changed, Inserted, StagedAs
<1> QED
  BY <1>1, <1>2, Positions

\* A value per position that is kept.
LEMMA ListOf ==
    ASSUME NEW rows, RowsOK(rows), NEW S \in SUBSET (1..Len(rows))
    PROVE  /\ Len(Keep(rows, S)) = Cardinality(S) /\ Cardinality(S) \in Nat
           /\ \A i \in 1..Cardinality(S) : Nth(S, i) \in S /\ Keep(rows, S)[i] = rows[Nth(S, i)]
<1>1. rows \in Seq(DisplayRow)
  BY DEF RowsOK
<1> QED
  BY <1>1, Kept

\* The DELETE statements, one for each deleted row, in the order of the rows.
LEMMA DeletesWritten ==
    ASSUME HasPrimaryKey, NEW rows, RowsOK(rows)
    PROVE  generateDeleteSQL(rows)
             = [i \in 1..Cardinality(Deleted(rows)) |->
                  [op |-> "delete", where |-> Restrict(rows[Nth(Deleted(rows), i)].data, {"k"}), set |-> <<>>]]
<1>1. PrimaryKey = {"k"}
  BY DEF PrimaryKey
<1>2. Staged(rows, "staged-delete") = Keep(rows, Deleted(rows))
  BY DEF Staged, Deleted
<1>3. /\ Len(Keep(rows, Deleted(rows))) = Cardinality(Deleted(rows))
      /\ \A i \in 1..Cardinality(Deleted(rows)) : Keep(rows, Deleted(rows))[i] = rows[Nth(Deleted(rows), i)]
  BY StagedTyped, ListOf
<1> QED
  BY <1>1, <1>2, <1>3 DEF generateDeleteSQL

\* The INSERT statements, one for each new row, in the order of the rows.
LEMMA InsertsWritten ==
    ASSUME NEW rows, RowsOK(rows)
    PROVE  generateInsertSQL(rows)
             = [i \in 1..Cardinality(Inserted(rows)) |->
                  [op |-> "insert", where |-> <<>>,
                   set |-> Restrict(rows[Nth(Inserted(rows), i)].data,
                                    {c \in Columns : rows[Nth(Inserted(rows), i)].data[c] # Undefined})]]
<1>2. Staged(rows, "staged-insert") = Keep(rows, Inserted(rows))
  BY DEF Staged, Inserted
<1>3. /\ Len(Keep(rows, Inserted(rows))) = Cardinality(Inserted(rows))
      /\ \A i \in 1..Cardinality(Inserted(rows)) : Keep(rows, Inserted(rows))[i] = rows[Nth(Inserted(rows), i)]
  BY StagedTyped, ListOf
<1> QED
  BY <1>2, <1>3 DEF generateInsertSQL

\* The UPDATE statements, one for each edited row that has a change to write.
LEMMA UpdatesWritten ==
    ASSUME HasPrimaryKey, NEW rows, RowsOK(rows)
    PROVE  generateUpdateSQL(rows)
             = [i \in 1..Cardinality(Changed(rows)) |->
                  [op |-> "update",
                   where |-> [c \in {"k"} |-> rows[Nth(Changed(rows), i)].originalData[c]],
                   set |-> Restrict(rows[Nth(Changed(rows), i)].data, {"v"})]]
<1> DEFINE A == StagedAs(rows, "staged-update")
           updates == Keep(rows, A)
           some == {i \in 1..Len(updates) : changedColumns(updates[i]) # {}}
           effective == Keep(updates, some)
<1>1. PrimaryKey = {"k"} /\ Columns \ PrimaryKey = {"v"} /\ PrimaryKey # {}
  BY DEF PrimaryKey, Columns
<1>2. Staged(rows, "staged-update") = updates
  BY DEF Staged
<1>3. A \in SUBSET (1..Len(rows)) /\ Changed(rows) \in SUBSET A
  BY DEF StagedAs, Changed
<1>4. /\ Len(updates) = Cardinality(A)
      /\ \A i \in 1..Cardinality(A) : Nth(A, i) \in A /\ updates[i] = rows[Nth(A, i)]
  BY <1>3, ListOf
<1>5. some = {i \in 1..Cardinality(A) : Nth(A, i) \in Changed(rows)}
  BY <1>4 DEF Changed
<1>6. effective = Keep(rows, Changed(rows))
  <2>1. rows \in Seq(DisplayRow)
    BY DEF RowsOK
  <2>2. Keep(Keep(rows, A), {i \in 1..Cardinality(A) : Nth(A, i) \in Changed(rows)}) = Keep(rows, Changed(rows))
    <3> HIDE DEF A
    <3> QED
      BY <1>3, <2>1, KeptOfKept
  <2> HIDE DEF some
  <2> QED
    BY <1>5, <2>2
<1>7. generateUpdateSQL(rows) =
        [i \in 1..Len(effective) |->
            [op |-> "update",
             where |-> [c \in {"k"} |-> IF c \in {"k"} THEN effective[i].originalData[c] ELSE Null],
             set |-> Restrict(effective[i].data, changedColumns(effective[i]))]]
  BY <1>1, <1>2 DEF generateUpdateSQL
<1> HIDE DEF effective, some, updates, A
<1>8. /\ Len(effective) = Cardinality(Changed(rows))
      /\ \A i \in 1..Cardinality(Changed(rows)) :
           Nth(Changed(rows), i) \in Changed(rows) /\ effective[i] = rows[Nth(Changed(rows), i)]
  BY <1>6, StagedTyped, ListOf
<1>9. \A i \in Changed(rows) : changedColumns(rows[i]) = {"v"}
  BY <1>1 DEF Changed, changedColumns
<1>10. \A row : [c \in {"k"} |-> IF c \in {"k"} THEN row.originalData[c] ELSE Null]
                  = [c \in {"k"} |-> row.originalData[c]]
  OBVIOUS
<1>11. \A i \in 1..Cardinality(Changed(rows)) :
         /\ [c \in {"k"} |-> IF c \in {"k"} THEN effective[i].originalData[c] ELSE Null]
              = [c \in {"k"} |-> rows[Nth(Changed(rows), i)].originalData[c]]
         /\ Restrict(effective[i].data, changedColumns(effective[i]))
              = Restrict(rows[Nth(Changed(rows), i)].data, {"v"})
  BY <1>8, <1>9
<1> QED
  BY <1>7, <1>8, <1>11


\* Turns: deletes, then updates, then inserts, each in the order of the rows.
LEMMA Turns ==
    ASSUME NEW rows, RowsOK(rows)
    PROVE  LET d == Cardinality(Deleted(rows))
               u == Cardinality(Changed(rows))
               e == Cardinality(Inserted(rows))
           IN  /\ \A i \in Deleted(rows) : Turn(rows, i) = Rank(Deleted(rows), i) /\ Turn(rows, i) \in 1..d
               /\ \A i \in Changed(rows) : /\ Turn(rows, i) = d + Rank(Changed(rows), i)
                                           /\ Rank(Changed(rows), i) \in 1..u
               /\ \A i \in Inserted(rows) : /\ Turn(rows, i) = d + u + Rank(Inserted(rows), i)
                                            /\ Rank(Inserted(rows), i) \in 1..e
               /\ \A n \in 1..(d + u + e) : \E i \in Deleted(rows) \cup Changed(rows) \cup Inserted(rows) :
                    Turn(rows, i) = n
<1> DEFINE D == Deleted(rows)
           U == Changed(rows)
           I == Inserted(rows)
           d == Cardinality(D)
           u == Cardinality(U)
           e == Cardinality(I)
<1>1. /\ Len(rows) \in Nat /\ D \in SUBSET (1..Len(rows)) /\ U \in SUBSET (1..Len(rows)) /\ I \in SUBSET (1..Len(rows))
      /\ D \cap U = {} /\ D \cap I = {} /\ U \cap I = {} /\ d \in Nat /\ u \in Nat /\ e \in Nat
  BY StagedTyped
<1>2. \A i : Turn(rows, i) = IF i \in D THEN Rank(D, i) ELSE IF i \in U THEN d + Rank(U, i)
                             ELSE IF i \in I THEN d + u + Rank(I, i) ELSE 0
  BY DEF Turn
<1> HIDE DEF D, U, I
<1>3. /\ \A i \in D : Rank(D, i) \in 1..d
      /\ \A i \in U : Rank(U, i) \in 1..u
      /\ \A i \in I : Rank(I, i) \in 1..e
  BY <1>1, RankGrows
<1>4. /\ \A j \in 1..d : Nth(D, j) \in D /\ Rank(D, Nth(D, j)) = j
      /\ \A j \in 1..u : Nth(U, j) \in U /\ Rank(U, Nth(U, j)) = j
      /\ \A j \in 1..e : Nth(I, j) \in I /\ Rank(I, Nth(I, j)) = j
  BY <1>1, NthProperties
<1> HIDE DEF d, u, e
<1>5. /\ \A i \in D : Turn(rows, i) = Rank(D, i)
      /\ \A i \in U : Turn(rows, i) = d + Rank(U, i)
      /\ \A i \in I : Turn(rows, i) = d + u + Rank(I, i)
  BY <1>1, <1>2
<1>6. ASSUME NEW n \in 1..(d + u + e) PROVE \E i \in D \cup U \cup I : Turn(rows, i) = n
  <2>0. n \in Int /\ n >= 1
    BY <1>1
  <2>1. CASE n <= d
    <3>1. n \in 1..d
      BY <1>1, <2>0, <2>1
    <3> QED
      BY <1>4, <1>5, <3>1
  <2>2. CASE n > d /\ n <= d + u
    <3>1. n - d \in 1..u /\ d + (n - d) = n
      BY <1>1, <2>0, <2>2
    <3> QED
      BY <1>4, <1>5, <3>1
  <2>3. CASE n > d + u
    <3>1. n - (d + u) \in 1..e /\ d + u + (n - (d + u)) = n
      BY <1>1, <1>6, <2>0, <2>3
    <3> QED
      BY <1>4, <1>5, <3>1
  <2> QED
    BY <1>1, <2>0, <2>1, <2>2, <2>3
<1> QED
  BY <1>3, <1>5, <1>6 DEF D, U, I, d, u, e

\* Two lists, and three, one behind the other.
LEMMA TwoJoined ==
    ASSUME NEW T, NEW s \in Seq(T), NEW t \in Seq(T)
    PROVE  /\ s \o t \in Seq(T) /\ Len(s \o t) = Len(s) + Len(t)
           /\ \A j \in 1..Len(s) : (s \o t)[j] = s[j]
           /\ \A j \in 1..Len(t) : (s \o t)[Len(s) + j] = t[j]
OBVIOUS

\* What stands where in three sequences that are joined.
LEMMA Joined ==
    ASSUME NEW T, NEW r \in Seq(T), NEW s \in Seq(T), NEW t \in Seq(T)
    PROVE  /\ Len(r \o s \o t) = Len(r) + Len(s) + Len(t)
           /\ \A j \in 1..Len(r) : (r \o s \o t)[j] = r[j]
           /\ \A j \in 1..Len(s) : (r \o s \o t)[Len(r) + j] = s[j]
           /\ \A j \in 1..Len(t) : (r \o s \o t)[Len(r) + Len(s) + j] = t[j]
<1>1. r \o s \in Seq(T)
  OBVIOUS
<1>2. /\ Len(r \o s) = Len(r) + Len(s)
      /\ \A j \in 1..Len(r) : (r \o s)[j] = r[j]
      /\ \A j \in 1..Len(s) : (r \o s)[Len(r) + j] = s[j]
  BY TwoJoined
<1>3. \A j \in 1..Len(r) : j \in 1..(Len(r) + Len(s))
  OBVIOUS
<1>4. \A j \in 1..Len(s) : Len(r) + j \in 1..(Len(r) + Len(s))
  OBVIOUS
<1>5. /\ Len((r \o s) \o t) = Len(r \o s) + Len(t)
      /\ \A j \in 1..Len(r \o s) : ((r \o s) \o t)[j] = (r \o s)[j]
      /\ \A j \in 1..Len(t) : ((r \o s) \o t)[Len(r \o s) + j] = t[j]
  <2> DEFINE two == r \o s
  <2>1. two \in Seq(T)
    BY <1>1
  <2> HIDE DEF two
  <2>2. /\ Len(two \o t) = Len(two) + Len(t)
        /\ \A j \in 1..Len(two) : (two \o t)[j] = two[j]
        /\ \A j \in 1..Len(t) : (two \o t)[Len(two) + j] = t[j]
    BY <2>1, TwoJoined
  <2> QED
    BY <2>2 DEF two
<1> QED
  BY <1>2, <1>3, <1>4, <1>5

\* The statement at a row's turn.
LEMMA StatementOf ==
    ASSUME HasPrimaryKey, NEW rows, RowsOK(rows)
    PROVE  /\ Len(stagedSQL(rows)) = Cardinality(Deleted(rows)) + Cardinality(Changed(rows))
                                       + Cardinality(Inserted(rows))
           /\ \A i \in Deleted(rows) : stagedSQL(rows)[Turn(rows, i)] =
                [op |-> "delete", where |-> Restrict(rows[i].data, {"k"}), set |-> <<>>]
           /\ \A i \in Changed(rows) : stagedSQL(rows)[Turn(rows, i)] =
                [op |-> "update", where |-> [c \in {"k"} |-> rows[i].originalData[c]],
                 set |-> Restrict(rows[i].data, {"v"})]
           /\ \A i \in Inserted(rows) : stagedSQL(rows)[Turn(rows, i)] =
                [op |-> "insert", where |-> <<>>,
                 set |-> Restrict(rows[i].data, {c \in Columns : rows[i].data[c] # Undefined})]
<1> DEFINE D == Deleted(rows)
           U == Changed(rows)
           I == Inserted(rows)
           d == Cardinality(D)
           u == Cardinality(U)
           e == Cardinality(I)
           del(i) == [op |-> "delete", where |-> Restrict(rows[i].data, {"k"}), set |-> <<>>]
           upd(i) == [op |-> "update", where |-> [c \in {"k"} |-> rows[i].originalData[c]],
                      set |-> Restrict(rows[i].data, {"v"})]
           ins(i) == [op |-> "insert", where |-> <<>>,
                      set |-> Restrict(rows[i].data, {c \in Columns : rows[i].data[c] # Undefined})]
           dels == [j \in 1..d |-> del(Nth(D, j))]
           upds == [j \in 1..u |-> upd(Nth(U, j))]
           inss == [j \in 1..e |-> ins(Nth(I, j))]
           T == {del(i) : i \in D} \cup {upd(i) : i \in U} \cup {ins(i) : i \in I}
<1>1. /\ Len(rows) \in Nat /\ D \in SUBSET (1..Len(rows)) /\ U \in SUBSET (1..Len(rows)) /\ I \in SUBSET (1..Len(rows))
      /\ d \in Nat /\ u \in Nat /\ e \in Nat
  BY StagedTyped
<1>2. stagedSQL(rows) = dels \o upds \o inss
  BY DeletesWritten, UpdatesWritten, InsertsWritten DEF stagedSQL
<1>3. /\ \A i \in D : Turn(rows, i) = Rank(D, i) /\ Rank(D, i) \in 1..d
      /\ \A i \in U : Turn(rows, i) = d + Rank(U, i) /\ Rank(U, i) \in 1..u
      /\ \A i \in I : Turn(rows, i) = d + u + Rank(I, i) /\ Rank(I, i) \in 1..e
  BY Turns
<1> HIDE DEF D, U, I, del, upd, ins
<1>4. /\ \A j \in 1..d : Nth(D, j) \in D
      /\ \A j \in 1..u : Nth(U, j) \in U
      /\ \A j \in 1..e : Nth(I, j) \in I
      /\ \A i \in D : Nth(D, Rank(D, i)) = i
      /\ \A i \in U : Nth(U, Rank(U, i)) = i
      /\ \A i \in I : Nth(I, Rank(I, i)) = i
  BY <1>1, NthProperties
<1> HIDE DEF d, u, e
<1>5. dels \in Seq(T) /\ Len(dels) = d /\ upds \in Seq(T) /\ Len(upds) = u /\ inss \in Seq(T) /\ Len(inss) = e
  <2>1. /\ \A j \in 1..d : del(Nth(D, j)) \in T
        /\ \A j \in 1..u : upd(Nth(U, j)) \in T
        /\ \A j \in 1..e : ins(Nth(I, j)) \in T
    BY <1>4
  <2> HIDE DEF T
  <2> QED
    BY <1>1, <2>1
<1>6. /\ \A i \in D : dels[Rank(D, i)] = del(i)
      /\ \A i \in U : upds[Rank(U, i)] = upd(i)
      /\ \A i \in I : inss[Rank(I, i)] = ins(i)
  BY <1>3, <1>4
<1> HIDE DEF dels, upds, inss, T
<1>7. /\ Len(dels \o upds \o inss) = d + u + e
      /\ \A j \in 1..d : (dels \o upds \o inss)[j] = dels[j]
      /\ \A j \in 1..u : (dels \o upds \o inss)[d + j] = upds[j]
      /\ \A j \in 1..e : (dels \o upds \o inss)[d + u + j] = inss[j]
  <2>1. /\ Len(dels \o upds \o inss) = Len(dels) + Len(upds) + Len(inss)
        /\ \A j \in 1..Len(dels) : (dels \o upds \o inss)[j] = dels[j]
        /\ \A j \in 1..Len(upds) : (dels \o upds \o inss)[Len(dels) + j] = upds[j]
        /\ \A j \in 1..Len(inss) : (dels \o upds \o inss)[Len(dels) + Len(upds) + j] = inss[j]
    <3>1. dels \in Seq(T) /\ upds \in Seq(T) /\ inss \in Seq(T)
      BY <1>5
    <3>2. Len(dels \o upds \o inss) = Len(dels) + Len(upds) + Len(inss)
      BY <3>1, Joined
    <3>3. \A j \in 1..Len(dels) : (dels \o upds \o inss)[j] = dels[j]
      BY <3>1, Joined
    <3>4. \A j \in 1..Len(upds) : (dels \o upds \o inss)[Len(dels) + j] = upds[j]
      BY <3>1, Joined
    <3>5. \A j \in 1..Len(inss) : (dels \o upds \o inss)[Len(dels) + Len(upds) + j] = inss[j]
      BY <3>1, Joined
    <3> QED
      BY <3>2, <3>3, <3>4, <3>5
  <2> QED
    BY <1>5, <2>1
<1>8. /\ \A i \in D : stagedSQL(rows)[Turn(rows, i)] = del(i)
      /\ \A i \in U : stagedSQL(rows)[Turn(rows, i)] = upd(i)
      /\ \A i \in I : stagedSQL(rows)[Turn(rows, i)] = ins(i)
  BY <1>2, <1>3, <1>6, <1>7
<1> QED
  BY <1>2, <1>7, <1>8 DEF del, upd, ins, D, U, I, d, u, e


\* Rows that were edited as meant: the keys of the table are distinct, and kept.
Sound(rows, table) ==
    /\ RowsOK(rows) /\ table \in Seq(TableRow) /\ Grounded(rows, table) /\ KeysAreKept(rows)
    /\ \A i, j \in 1..Len(table) : table[i].k = table[j].k => i = j
    /\ \A i \in 1..Len(rows) : rows[i].status = "staged-update" => rows[i].data.v # Undefined

\* The table after n statements holds, at the positions that are left, rows as they were
\* read or as they are to be.
Image(rows, table, n) ==
    [i \in 1..Len(rows) |-> IF i \in Inserted(rows) \/ (i \in Changed(rows) /\ Turn(rows, i) <= n)
                            THEN OutcomeOf(rows[i]) ELSE table[i]]

Left(rows, n) ==
    {i \in 1..Len(rows) : /\ i \in Deleted(rows) => Turn(rows, i) > n
                          /\ i \in Inserted(rows) => Turn(rows, i) <= n}

\* What is known of a row, by what is staged for it.
LEMMA RowFacts ==
    ASSUME HasPrimaryKey, NEW rows, NEW table, Sound(rows, table), NEW i \in 1..Len(rows)
    PROVE  /\ OutcomeOf(rows[i]) \in Row /\ OutcomeOf(rows[i]).k = rows[i].data.k
           /\ rows[i].data.k # Undefined
           /\ i \in Inserted(rows) => ~(i <= Len(table))
           /\ i \notin Inserted(rows) => i \in 1..Len(table) /\ table[i] \in Row
           /\ i \notin Inserted(rows) => table[i].k = rows[i].data.k
           /\ i \notin Inserted(rows) \cup Deleted(rows) \cup Changed(rows)
                => table[i] = OutcomeOf(rows[i])
           /\ i \in Changed(rows) => rows[i].originalData = table[i] /\ rows[i].data.v # Undefined
<1> DEFINE row == rows[i]
<1>0. /\ Len(rows) \in Nat /\ Len(table) \in Nat /\ row \in DisplayRow /\ i \in Int /\ i >= 1
      /\ \A j \in 1..Len(table) : table[j] \in TableRow
  BY RowsLength, LenProperties DEF Sound
<1>1. /\ row.data \in Row
      /\ Undefined \notin Keys \cup Values \cup {Null} /\ DefaultValue \in Values
      /\ row.status \in {"normal", "staged-delete", "staged-update", "staged-insert"}
  BY <1>0, ResultsGridAssumption DEF DisplayRow, ResultsGridAssumption
<1>2. row.data.k \in Keys \cup {Null} /\ row.data.v \in Values \cup {Null, Undefined}
      /\ row.data = [k |-> row.data.k, v |-> row.data.v]
  BY <1>1 DEF Row
<1>3. /\ OutcomeOf(row) \in Row /\ OutcomeOf(row).k = row.data.k /\ row.data.k # Undefined
      /\ row.data.v # Undefined => OutcomeOf(row) = row.data
  BY <1>1, <1>2 DEF OutcomeOf, Row
<1>4. ASSUME i \in Inserted(rows) PROVE ~(i <= Len(table))
  BY <1>4 DEF Inserted, StagedAs, Sound, Grounded
<1>5. ASSUME i \notin Inserted(rows)
      PROVE  /\ i \in 1..Len(table) /\ table[i] \in TableRow /\ table[i] \in Row
             /\ Original(row) = table[i] /\ table[i].v # Undefined
             /\ row.status # "staged-update" => row.originalData = NoRow
  <2>1. i <= Len(table)
    BY <1>5 DEF Inserted, StagedAs, Sound, Grounded
  <2>2. i \in 1..Len(table)
    BY <1>0, <2>1
  <2>3. table[i] \in TableRow
    BY <1>0, <2>2
  <2>4. Original(row) = table[i] /\ (row.status # "staged-update" => row.originalData = NoRow)
    BY <2>1 DEF Sound, Grounded
  <2>5. table[i] \in Row /\ table[i].v # Undefined
    BY <1>1, <2>3, Assumed DEF TableRow
  <2> QED
    BY <2>2, <2>3, <2>4, <2>5
<1>6. ASSUME row.status = "staged-update"
      PROVE  row.originalData # NoRow /\ row.data.k = row.originalData.k /\ row.data.v # Undefined
  BY <1>6 DEF Sound, RowsOK, KeysAreKept
<1>7. i \in Inserted(rows) <=> row.status = "staged-insert"
  BY DEF Inserted, StagedAs
<1>8. i \in Deleted(rows) <=> row.status = "staged-delete"
  BY DEF Deleted, StagedAs
<1>9. i \in Changed(rows) <=> row.status = "staged-update" /\ row.data["v"] # row.originalData["v"]
  <2>1. Columns \ PrimaryKey = {"v"}
    BY DEF Columns, PrimaryKey
  <2> QED
    BY <2>1 DEF Changed, StagedAs, changedColumns
<1> HIDE DEF row
<1>10. CASE row.status = "staged-update"
  <2>1. i \notin Inserted(rows) /\ i \notin Deleted(rows)
    BY <1>7, <1>8, <1>10
  <2>2. row.originalData = table[i] /\ table[i].k = row.data.k /\ OutcomeOf(row) = row.data
    BY <1>3, <1>5, <1>6, <1>10, <2>1 DEF Original
  <2>3. OutcomeOf(row) = [k |-> table[i].k, v |-> row.data.v]
    BY <1>2, <2>2
  <2>4. table[i] = [k |-> table[i].k, v |-> table[i].v]
    BY <1>5, <2>1 DEF TableRow
  <2>5. i \notin Changed(rows) => row.data.v = table[i].v
    BY <1>9, <1>10, <2>2
  <2>6. i \notin Changed(rows) => table[i] = OutcomeOf(row)
    BY <2>3, <2>4, <2>5
  <2> QED
    BY <1>3, <1>5, <1>6, <1>10, <2>1, <2>2, <2>6 DEF row
<1>11. CASE row.status \in {"normal", "staged-delete"}
  <2>1. i \notin Inserted(rows) /\ i \notin Changed(rows)
    BY <1>7, <1>9, <1>11
  <2>2. row.data = table[i] /\ OutcomeOf(row) = row.data
    BY <1>3, <1>5, <1>11, <2>1 DEF Original
  <2> QED
    BY <1>3, <1>5, <2>1, <2>2 DEF row
<1>12. CASE row.status = "staged-insert"
  BY <1>3, <1>4, <1>7, <1>9, <1>12 DEF row
<1> QED
  BY <1>1, <1>10, <1>11, <1>12

\* A row that the query read has the key it was read with.
LEMMA KeyKept ==
    ASSUME HasPrimaryKey, NEW rows, NEW table, Sound(rows, table), NEW i \in 1..Len(rows),
           i \notin Inserted(rows)
    PROVE  table[i].k = rows[i].data.k
BY RowFacts

\* Every image is a table, and its keys are those of the grid.
LEMMA ImageTyped ==
    ASSUME HasPrimaryKey, NEW rows, NEW table, Sound(rows, table), NEW n \in Int
    PROVE  /\ Image(rows, table, n) \in Seq(Row) /\ Len(Image(rows, table, n)) = Len(rows)
           /\ Len(rows) \in Nat
           /\ \A i \in 1..Len(rows) :
                /\ Image(rows, table, n)[i] =
                     IF i \in Inserted(rows) \/ (i \in Changed(rows) /\ Turn(rows, i) <= n)
                     THEN OutcomeOf(rows[i]) ELSE table[i]
                /\ Image(rows, table, n)[i].k = rows[i].data.k
<1> DEFINE at(i) == IF i \in Inserted(rows) \/ (i \in Changed(rows) /\ Turn(rows, i) <= n)
                    THEN OutcomeOf(rows[i]) ELSE table[i]
<1>1. Len(rows) \in Nat
  BY RowsLength DEF Sound
<1>2. \A i \in 1..Len(rows) : at(i) \in Row /\ at(i).k = rows[i].data.k
  <2> TAKE i \in 1..Len(rows)
  <2>1. OutcomeOf(rows[i]) \in Row /\ OutcomeOf(rows[i]).k = rows[i].data.k
    BY RowFacts
  <2>2. i \notin Inserted(rows) => table[i] \in Row
    BY RowFacts
  <2>3. i \notin Inserted(rows) => table[i].k = rows[i].data.k
    BY KeyKept
  <2> QED
    BY <2>1, <2>2, <2>3
<1>3. Image(rows, table, n) = [i \in 1..Len(rows) |-> at(i)]
  BY DEF Image
<1> HIDE DEF at
<1>4. /\ Image(rows, table, n) \in Seq(Row) /\ Len(Image(rows, table, n)) = Len(rows)
      /\ \A i \in 1..Len(rows) : Image(rows, table, n)[i] = at(i)
  BY <1>1, <1>2, <1>3
<1> QED
  BY <1>1, <1>2, <1>4 DEF at


\* No two rows have one turn, and new rows take theirs from the top.
LEMMA TurnsDiffer ==
    ASSUME NEW rows, RowsOK(rows),
           NEW i \in Deleted(rows) \cup Changed(rows) \cup Inserted(rows),
           NEW j \in Deleted(rows) \cup Changed(rows) \cup Inserted(rows)
    PROVE  /\ Turn(rows, i) \in Int /\ (Turn(rows, i) = Turn(rows, j) => i = j)
           /\ i \in Inserted(rows) /\ j \in Inserted(rows) /\ Turn(rows, i) < Turn(rows, j) => i < j
           /\ i \in Deleted(rows) /\ j \notin Deleted(rows) => Turn(rows, i) < Turn(rows, j)
           /\ i \in Changed(rows) /\ j \in Inserted(rows) => Turn(rows, i) < Turn(rows, j)
<1> DEFINE D == Deleted(rows)
           U == Changed(rows)
           I == Inserted(rows)
           d == Cardinality(D)
           u == Cardinality(U)
           e == Cardinality(I)
<1>1. /\ Len(rows) \in Nat /\ D \in SUBSET (1..Len(rows)) /\ U \in SUBSET (1..Len(rows)) /\ I \in SUBSET (1..Len(rows))
      /\ D \cap U = {} /\ D \cap I = {} /\ U \cap I = {} /\ d \in Nat /\ u \in Nat /\ e \in Nat
  BY StagedTyped
<1>2. /\ \A h \in D : Turn(rows, h) = Rank(D, h) /\ Rank(D, h) \in 1..d
      /\ \A h \in U : Turn(rows, h) = d + Rank(U, h) /\ Rank(U, h) \in 1..u
      /\ \A h \in I : Turn(rows, h) = d + u + Rank(I, h) /\ Rank(I, h) \in 1..e
  BY Turns
<1> HIDE DEF D, U, I
<1>3. /\ \A g, h \in D : g < h => Rank(D, g) < Rank(D, h)
      /\ \A g, h \in U : g < h => Rank(U, g) < Rank(U, h)
      /\ \A g, h \in I : g < h => Rank(I, g) < Rank(I, h)
  BY <1>1, RankGrows
<1> HIDE DEF d, u, e
<1>4. i \in D \cup U \cup I /\ j \in D \cup U \cup I /\ i \in Int /\ j \in Int
  BY <1>1 DEF D, U, I
<1>5. /\ i \in D /\ j \in D => /\ i < j => Rank(D, i) < Rank(D, j)
                               /\ j < i => Rank(D, j) < Rank(D, i)
      /\ i \in U /\ j \in U => /\ i < j => Rank(U, i) < Rank(U, j)
                               /\ j < i => Rank(U, j) < Rank(U, i)
      /\ i \in I /\ j \in I => /\ i < j => Rank(I, i) < Rank(I, j)
                               /\ j < i => Rank(I, j) < Rank(I, i)
  BY <1>3
<1>6. CASE i \in D
  <2>1. Turn(rows, i) = Rank(D, i) /\ Rank(D, i) \in 1..d /\ i \notin U /\ i \notin I
    BY <1>1, <1>2, <1>6
  <2> QED
    BY <1>1, <1>2, <1>4, <1>5, <1>6, <2>1 DEF D, U, I
<1>7. CASE i \in U
  <2>1. Turn(rows, i) = d + Rank(U, i) /\ Rank(U, i) \in 1..u /\ i \notin D /\ i \notin I
    BY <1>1, <1>2, <1>7
  <2> QED
    BY <1>1, <1>2, <1>4, <1>5, <1>7, <2>1 DEF D, U, I
<1>8. CASE i \in I
  <2>1. Turn(rows, i) = d + u + Rank(I, i) /\ Rank(I, i) \in 1..e /\ i \notin D /\ i \notin U
    BY <1>1, <1>2, <1>8
  <2> QED
    BY <1>1, <1>2, <1>4, <1>5, <1>8, <2>1 DEF D, U, I
<1> QED
  BY <1>4, <1>6, <1>7, <1>8


\* The turn of a deleted row, of an edited one, and of a new one.
LEMMA DeleteStep ==
    ASSUME HasPrimaryKey, NEW rows, NEW table, Sound(rows, table), NEW p \in Deleted(rows),
           NEW n \in Int, n = Turn(rows, p)
    PROVE  Exec(Keep(Image(rows, table, n - 1), Left(rows, n - 1)), stagedSQL(rows)[n])
             = Keep(Image(rows, table, n), Left(rows, n))
<1> DEFINE image == Image(rows, table, n - 1)
           S == Left(rows, n - 1)
           stmt == stagedSQL(rows)[n]
           marked == Deleted(rows) \cup Changed(rows) \cup Inserted(rows)
<1>0. RowsOK(rows) /\ n - 1 \in Int /\ p \in marked
  BY DEF Sound
<1>1. /\ image \in Seq(Row) /\ Len(image) = Len(rows)
      /\ \A i \in 1..Len(rows) : image[i].k = rows[i].data.k
  BY <1>0, ImageTyped
<1>2. /\ p \in 1..Len(rows) /\ Deleted(rows) \cap Inserted(rows) = {} /\ Deleted(rows) \cap Changed(rows) = {}
      /\ marked \subseteq 1..Len(rows)
  BY <1>0, StagedTyped
<1>3. \A i \in marked : /\ Turn(rows, i) \in Int /\ (Turn(rows, i) = n => i = p)
                        /\ i \notin Deleted(rows) => n < Turn(rows, i)
  BY <1>0, TurnsDiffer
<1> HIDE DEF marked
<1>4. \A i \in 1..Len(rows) : /\ i \in Deleted(rows) => i \in marked
                              /\ i \in Changed(rows) => i \in marked /\ i \notin Deleted(rows)
                              /\ i \in Inserted(rows) => i \in marked /\ i \notin Deleted(rows)
  BY <1>2 DEF marked
<1>5. S \in SUBSET (1..Len(rows)) /\ p \in S /\ \A i \in S : i \notin Inserted(rows)
  <2>1. \A i \in 1..Len(rows) : i \in Inserted(rows) => ~(Turn(rows, i) <= n - 1)
    BY <1>3, <1>4
  <2>2. Turn(rows, p) > n - 1 /\ p \notin Inserted(rows)
    BY <1>2
  <2> QED
    BY <1>2, <2>1, <2>2 DEF Left
<1>6. Left(rows, n) = S \ {p}
  <2>1. \A i \in 1..Len(rows) : i \in Deleted(rows) => (Turn(rows, i) > n <=> Turn(rows, i) > n - 1 /\ i # p)
    BY <1>3, <1>4
  <2>2. \A i \in 1..Len(rows) : i \in Inserted(rows) => ~(Turn(rows, i) <= n - 1) /\ ~(Turn(rows, i) <= n)
    BY <1>3, <1>4
  <2> QED
    BY <1>2, <2>1, <2>2 DEF Left
<1>7. Image(rows, table, n) = image
  <2>1. \A i \in 1..Len(rows) : i \in Changed(rows) => ~(Turn(rows, i) <= n - 1) /\ ~(Turn(rows, i) <= n)
    BY <1>3, <1>4
  <2> QED
    BY <2>1 DEF Image
<1>8. \A i \in S : image[i].k = image[p].k => i = p
  <2> SUFFICES ASSUME NEW i \in S, image[i].k = image[p].k PROVE i = p
    OBVIOUS
  <2>1. i \in 1..Len(rows) /\ p \in 1..Len(rows) /\ i \notin Inserted(rows) /\ p \notin Inserted(rows)
    BY <1>2, <1>5
  <2>2. rows[i].data.k = rows[p].data.k
    BY <1>1, <2>1
  <2>3. table[i].k = rows[i].data.k /\ table[p].k = rows[p].data.k
    BY <2>1, KeyKept
  <2>4. i \in 1..Len(table) /\ p \in 1..Len(table)
    BY <2>1, RowFacts
  <2> QED
    BY <2>2, <2>3, <2>4 DEF Sound
<1>9. stmt = [op |-> "delete", where |-> Restrict(rows[p].data, {"k"}), set |-> <<>>]
  BY <1>0, StatementOf
<1>10. stmt.op = "delete" /\ DOMAIN stmt.where = {"k"} /\ stmt.where["k"] = image[p].k
  <2>1. DOMAIN Restrict(rows[p].data, {"k"}) = {"k"} /\ Restrict(rows[p].data, {"k"})["k"] = rows[p].data["k"]
    BY DEF Restrict
  <2> QED
    BY <1>1, <1>2, <1>9, <2>1
<1> HIDE DEF stmt, S, image
<1>11. Exec(Keep(image, S), stmt) = Keep(image, S \ {p})
  BY <1>1, <1>5, <1>8, <1>10, DeleteRuns
<1> QED
  BY <1>6, <1>7, <1>11 DEF image, S, stmt

\* The turn of an edited row.
LEMMA UpdateStep ==
    ASSUME HasPrimaryKey, NEW rows, NEW table, Sound(rows, table), NEW p \in Changed(rows),
           NEW n \in Int, n = Turn(rows, p)
    PROVE  Exec(Keep(Image(rows, table, n - 1), Left(rows, n - 1)), stagedSQL(rows)[n])
             = Keep(Image(rows, table, n), Left(rows, n))
<1> DEFINE image == Image(rows, table, n - 1)
           after == Image(rows, table, n)
           S == Left(rows, n - 1)
           stmt == stagedSQL(rows)[n]
           marked == Deleted(rows) \cup Changed(rows) \cup Inserted(rows)
<1>0. RowsOK(rows) /\ n - 1 \in Int /\ p \in marked
  BY DEF Sound
<1>1. /\ image \in Seq(Row) /\ Len(image) = Len(rows)
      /\ after \in Seq(Row) /\ Len(after) = Len(rows)
      /\ \A i \in 1..Len(rows) : image[i].k = rows[i].data.k
  BY <1>0, ImageTyped
<1>2. /\ p \in 1..Len(rows) /\ Deleted(rows) \cap Inserted(rows) = {} /\ Deleted(rows) \cap Changed(rows) = {}
      /\ Changed(rows) \cap Inserted(rows) = {}
      /\ marked \subseteq 1..Len(rows)
  BY <1>0, StagedTyped
<1>3. \A i \in marked : /\ Turn(rows, i) \in Int /\ (Turn(rows, i) = n => i = p)
                        /\ i \in Inserted(rows) => n < Turn(rows, i)
                        /\ i \in Deleted(rows) => Turn(rows, i) < n
  <2> TAKE i \in marked
  <2>1. p \notin Deleted(rows)
    BY <1>2
  <2> QED
    BY <1>0, <2>1, TurnsDiffer
<1> HIDE DEF marked
<1>4. \A i \in Deleted(rows) \cup Changed(rows) \cup Inserted(rows) : i \in marked
  BY DEF marked
<1>5. S \in SUBSET (1..Len(rows)) /\ p \in S /\ \A i \in S : i \notin Inserted(rows) /\ i \notin Deleted(rows)
  <2>1. \A i \in Inserted(rows) : ~(Turn(rows, i) <= n - 1)
    BY <1>3, <1>4
  <2>2. \A i \in Deleted(rows) : ~(Turn(rows, i) > n - 1)
    BY <1>3, <1>4
  <2> QED
    BY <1>2, <2>1, <2>2 DEF Left
<1>6. Left(rows, n) = S
  <2>1. \A i \in Inserted(rows) : ~(Turn(rows, i) <= n - 1) /\ ~(Turn(rows, i) <= n)
    BY <1>3, <1>4
  <2>2. \A i \in Deleted(rows) : ~(Turn(rows, i) > n - 1) /\ ~(Turn(rows, i) > n)
    BY <1>3, <1>4
  <2> QED
    BY <2>1, <2>2 DEF Left
<1>7. /\ after[p] = OutcomeOf(rows[p])
      /\ \A i \in S \ {p} : after[i] = image[i]
  <2>1. \A i \in Changed(rows) : i # p => (Turn(rows, i) <= n - 1 <=> Turn(rows, i) <= n)
    BY <1>3, <1>4
  <2>2. Turn(rows, p) <= n
    OBVIOUS
  <2>3. \A i \in 1..Len(rows) : /\ image[i] = IF i \in Inserted(rows) \/ (i \in Changed(rows) /\ Turn(rows, i) <= n - 1)
                                              THEN OutcomeOf(rows[i]) ELSE table[i]
                                /\ after[i] = IF i \in Inserted(rows) \/ (i \in Changed(rows) /\ Turn(rows, i) <= n)
                                              THEN OutcomeOf(rows[i]) ELSE table[i]
    BY <1>0, ImageTyped
  <2> HIDE DEF image, after
  <2> QED
    BY <1>2, <1>5, <2>1, <2>2, <2>3
<1>8. \A i \in S : image[i].k = image[p].k => i = p
  <2> SUFFICES ASSUME NEW i \in S, image[i].k = image[p].k PROVE i = p
    OBVIOUS
  <2>1. i \in 1..Len(rows) /\ p \in 1..Len(rows) /\ i \notin Inserted(rows) /\ p \notin Inserted(rows)
    BY <1>2, <1>5
  <2>2. rows[i].data.k = rows[p].data.k
    BY <1>1, <2>1
  <2>3. table[i].k = rows[i].data.k /\ table[p].k = rows[p].data.k
    BY <2>1, KeyKept
  <2>4. i \in 1..Len(table) /\ p \in 1..Len(table)
    BY <2>1, RowFacts
  <2> QED
    BY <2>2, <2>3, <2>4 DEF Sound
<1>9. stmt = [op |-> "update", where |-> [c \in {"k"} |-> rows[p].originalData[c]],
              set |-> Restrict(rows[p].data, {"v"})]
  BY <1>0, StatementOf
<1>10. rows[p].originalData.k = rows[p].data.k /\ rows[p].data.v # Undefined
  <2>1. p \notin Inserted(rows)
    BY <1>2
  <2>2. table[p].k = rows[p].data.k
    BY <1>2, <2>1, KeyKept
  <2>3. rows[p].originalData = table[p] /\ rows[p].data.v # Undefined
    BY <1>2, RowFacts
  <2> QED
    BY <2>2, <2>3
<1>11. /\ stmt.op = "update" /\ DOMAIN stmt.where = {"k"} /\ stmt.where["k"] = image[p].k
       /\ DOMAIN stmt.set = {"v"} /\ stmt.set["v"] = rows[p].data.v
  <2>1. DOMAIN Restrict(rows[p].data, {"v"}) = {"v"} /\ Restrict(rows[p].data, {"v"})["v"] = rows[p].data["v"]
    BY DEF Restrict
  <2> QED
    BY <1>1, <1>2, <1>9, <1>10, <2>1
<1>12. after[p] = Rewritten(image[p], stmt.set["v"])
  <2>1. OutcomeOf(rows[p]) = [k |-> rows[p].data.k, v |-> rows[p].data.v]
    BY <1>10 DEF OutcomeOf
  <2>2. image[p].k = rows[p].data.k
    BY <1>1, <1>2
  <2> QED
    BY <1>7, <1>11, <2>1, <2>2 DEF Rewritten
<1> HIDE DEF stmt, S, image, after
<1>13. Exec(Keep(image, S), stmt) = Keep(after, S)
  <2>1. S \in SUBSET (1..Len(image)) /\ image \in Seq(Row) /\ after \in Seq(Row) /\ p \in S
    BY <1>1, <1>5
  <2>2. \A i \in S \ {p} : after[i] = image[i]
    BY <1>7
  <2>3. stmt.op = "update" /\ DOMAIN stmt.where = {"k"} /\ stmt.where["k"] = image[p].k /\ DOMAIN stmt.set = {"v"}
    BY <1>11
  <2> QED
    BY <1>8, <1>12, <2>1, <2>2, <2>3, UpdateRuns
<1> QED
  BY <1>6, <1>13 DEF image, S, stmt, after

\* The turn of a new row.
LEMMA InsertStep ==
    ASSUME HasPrimaryKey, NEW rows, NEW table, Sound(rows, table), NEW p \in Inserted(rows),
           NEW n \in Int, n = Turn(rows, p)
    PROVE  Exec(Keep(Image(rows, table, n - 1), Left(rows, n - 1)), stagedSQL(rows)[n])
             = Keep(Image(rows, table, n), Left(rows, n))
<1> DEFINE image == Image(rows, table, n - 1)
           S == Left(rows, n - 1)
           stmt == stagedSQL(rows)[n]
           marked == Deleted(rows) \cup Changed(rows) \cup Inserted(rows)
<1>0. RowsOK(rows) /\ n - 1 \in Int /\ p \in marked
  BY DEF Sound
<1>1. /\ image \in Seq(Row) /\ Len(image) = Len(rows) /\ Len(rows) \in Nat
      /\ \A i \in 1..Len(rows) : image[i].k = rows[i].data.k
  BY <1>0, ImageTyped
<1>2. /\ p \in 1..Len(rows) /\ Deleted(rows) \cap Inserted(rows) = {} /\ Deleted(rows) \cap Changed(rows) = {}
      /\ Changed(rows) \cap Inserted(rows) = {}
      /\ marked \subseteq 1..Len(rows)
  BY <1>0, StagedTyped
<1>3. \A i \in marked : /\ Turn(rows, i) \in Int /\ (Turn(rows, i) = n => i = p)
                        /\ i \in Inserted(rows) /\ Turn(rows, i) < n => i < p
                        /\ i \in Deleted(rows) => Turn(rows, i) < n
                        /\ i \in Changed(rows) => Turn(rows, i) < n
  <2> TAKE i \in marked
  <2>1. p \notin Deleted(rows)
    BY <1>2
  <2> QED
    BY <1>0, <2>1, TurnsDiffer
<1> HIDE DEF marked
<1>4. \A i \in Deleted(rows) \cup Changed(rows) \cup Inserted(rows) : i \in marked
  BY DEF marked
<1>5. S \in SUBSET (1..Len(rows)) /\ p \notin S /\ \A i \in S : i \notin Deleted(rows)
  <2>1. ~(Turn(rows, p) <= n - 1)
    OBVIOUS
  <2>2. \A i \in Deleted(rows) : ~(Turn(rows, i) > n - 1)
    BY <1>3, <1>4
  <2> QED
    BY <1>2, <2>1, <2>2 DEF Left
<1>6. Left(rows, n) = S \cup {p}
  <2>1. \A i \in Inserted(rows) : Turn(rows, i) <= n <=> Turn(rows, i) <= n - 1 \/ i = p
    BY <1>3, <1>4
  <2>2. \A i \in Deleted(rows) : ~(Turn(rows, i) > n - 1) /\ ~(Turn(rows, i) > n)
    BY <1>3, <1>4
  <2> QED
    BY <1>2, <2>1, <2>2 DEF Left
<1>7. Image(rows, table, n) = image
  <2>1. \A i \in Changed(rows) : Turn(rows, i) <= n - 1 /\ Turn(rows, i) <= n
    BY <1>3, <1>4
  <2> QED
    BY <2>1 DEF Image
<1>8. \A i \in S : i < p
  <2> SUFFICES ASSUME NEW i \in S PROVE i < p
    OBVIOUS
  <2>1. i \in 1..Len(rows) /\ i \in Int /\ p \in Int
    BY <1>1, <1>2, <1>5
  <2>2. CASE i \in Inserted(rows)
    <3>1. Turn(rows, i) <= n - 1 /\ i \in marked
      BY <1>4, <2>2 DEF Left
    <3> QED
      BY <1>3, <2>2, <3>1
  <2>3. CASE i \notin Inserted(rows)
    <3>1. i \in 1..Len(table)
      BY <2>1, <2>3, RowFacts
    <3>2. ~(p <= Len(table))
      BY <1>2, RowFacts
    <3>3. Len(table) \in Nat
      BY LenProperties DEF Sound
    <3> QED
      BY <2>1, <3>1, <3>2, <3>3
  <2> QED
    BY <2>2, <2>3
<1>9. stmt = [op |-> "insert", where |-> <<>>,
              set |-> Restrict(rows[p].data, {c \in Columns : rows[p].data[c] # Undefined})]
  BY <1>0, StatementOf
<1> DEFINE given == {c \in Columns : rows[p].data[c] # Undefined}
<1>10. /\ stmt.op = "insert" /\ DOMAIN stmt.set = given
       /\ \A c \in given : stmt.set[c] = rows[p].data[c]
  BY <1>9 DEF Restrict
<1>11. rows[p].data.k # Undefined
  BY <1>2, RowFacts
<1>12. /\ "k" \in given /\ ("v" \in given <=> rows[p].data.v # Undefined)
  BY <1>11 DEF Columns
<1>13. stmt.set["k"] = rows[p].data.k /\ ("v" \in given => stmt.set["v"] = rows[p].data.v)
  BY <1>10, <1>12
<1>14. image[p] = [k |-> stmt.set["k"], v |-> IF "v" \in DOMAIN stmt.set THEN stmt.set["v"] ELSE DefaultValue]
  <2>1. image[p] = OutcomeOf(rows[p])
    BY <1>0, <1>2, ImageTyped
  <2> HIDE DEF stmt, image, given
  <2> QED
    BY <1>10, <1>12, <1>13, <2>1 DEF OutcomeOf
<1>15. \A i \in S : image[i].k # stmt.set["k"]
  <2> SUFFICES ASSUME NEW i \in S, rows[i].data.k = rows[p].data.k PROVE FALSE
    BY <1>1, <1>5, <1>13
  <2>1. i \in 1..Len(rows) /\ i # p /\ i \notin Deleted(rows) /\ p \notin Deleted(rows)
    BY <1>2, <1>5
  <2>2. rows[i].status # "staged-delete" /\ rows[p].status # "staged-delete"
    BY <1>2, <2>1 DEF Deleted, StagedAs
  <2> QED
    BY <1>2, <2>1, <2>2 DEF Sound, KeysAreKept
<1> HIDE DEF stmt, S, image
<1>16. Exec(Keep(image, S), stmt) = Keep(image, S \cup {p})
  <2>1. S \in SUBSET (1..Len(image)) /\ image \in Seq(Row) /\ p \in 1..Len(image)
    BY <1>1, <1>2, <1>5
  <2>2. \A i \in S : i < p /\ image[i].k # stmt.set["k"]
    BY <1>8, <1>15
  <2> QED
    BY <1>10, <1>14, <2>1, <2>2, InsertRuns
<1> QED
  BY <1>6, <1>7, <1>16 DEF image, S, stmt


\* From the table that was read to the outcome.
LEMMA SQLWrites ==
    ASSUME HasPrimaryKey, NEW rows, NEW table, Sound(rows, table)
    PROVE  Apply(table, stagedSQL(rows)) = Outcome(rows)
<1> DEFINE stmts == stagedSQL(rows)
           N == Len(stmts)
           f == [n \in 0..N |-> Keep(Image(rows, table, n), Left(rows, n))]
           D == Deleted(rows)
           U == Changed(rows)
           I == Inserted(rows)
<1>0. RowsOK(rows) /\ Len(table) \in Nat /\ table \in Seq(TableRow)
  BY LenProperties DEF Sound
<1>1. /\ Len(rows) \in Nat /\ D \in SUBSET (1..Len(rows)) /\ U \in SUBSET (1..Len(rows)) /\ I \in SUBSET (1..Len(rows))
      /\ D \cap U = {} /\ D \cap I = {} /\ U \cap I = {}
  BY <1>0, StagedTyped
<1>2. /\ N \in Nat
      /\ \A i \in D \cup U \cup I : Turn(rows, i) \in 1..N
      /\ \A n \in 1..N : \E i \in D \cup U \cup I : Turn(rows, i) = n
  <2> DEFINE d == Cardinality(D)
             u == Cardinality(U)
             e == Cardinality(I)
  <2>1. d \in Nat /\ u \in Nat /\ e \in Nat /\ N = d + u + e
    BY <1>0, StagedTyped, StatementOf
  <2>2. /\ \A i \in D : Turn(rows, i) \in 1..d
        /\ \A i \in U : Turn(rows, i) = d + Rank(U, i) /\ Rank(U, i) \in 1..u
        /\ \A i \in I : Turn(rows, i) = d + u + Rank(I, i) /\ Rank(I, i) \in 1..e
        /\ \A n \in 1..(d + u + e) : \E i \in D \cup U \cup I : Turn(rows, i) = n
    BY <1>0, Turns
  <2> HIDE DEF d, u, e, N, D, U, I
  <2>3. \A i \in D : Turn(rows, i) \in 1..N
    BY <2>1, <2>2
  <2>4. \A i \in U : Turn(rows, i) \in 1..N
    BY <2>1, <2>2
  <2>5. \A i \in I : Turn(rows, i) \in 1..N
    BY <2>1, <2>2
  <2> QED
    BY <2>1, <2>2, <2>3, <2>4, <2>5
<1> HIDE DEF N, stmts, D, U, I
<1>3. Keep(Image(rows, table, 0), Left(rows, 0)) = table
  <2> DEFINE image == Image(rows, table, 0)
             m == Len(table)
  <2>1. /\ Len(image) = Len(rows)
        /\ \A i \in 1..Len(rows) : image[i] = IF i \in I \/ (i \in U /\ Turn(rows, i) <= 0)
                                              THEN OutcomeOf(rows[i]) ELSE table[i]
    BY ImageTyped DEF I, U
  <2>2. \A i \in 1..Len(rows) : i \in I <=> ~(i <= m)
    <3> TAKE i \in 1..Len(rows)
    <3>1. i \in I => ~(i <= m)
      BY RowFacts DEF I
    <3>2. i \notin I => i \in 1..m
      BY RowFacts DEF I
    <3> QED
      BY <1>0, <1>1, <3>1, <3>2
  <2>3. m \in 0..Len(rows)
    BY <1>0, <1>1 DEF Sound, Grounded
  <2> HIDE DEF image, m
  <2>4. Left(rows, 0) = 1..m
    <3>1. \A i \in 1..Len(rows) : /\ i \in D => Turn(rows, i) > 0
                                  /\ i \in I => ~(Turn(rows, i) <= 0)
      BY <1>2
    <3>2. Left(rows, 0) = {i \in 1..Len(rows) : i \notin I}
      BY <3>1 DEF Left, D, I
    <3>3. \A i \in 1..m : i \in 1..Len(rows) /\ i <= m
      BY <2>3
    <3>4. \A i \in 1..Len(rows) : i <= m => i \in 1..m
      BY <1>1, <2>3
    <3> QED
      BY <2>2, <3>2, <3>3, <3>4
  <2>5. \A i \in 1..m : image[i] = table[i]
    <3> TAKE i \in 1..m
    <3>1. i \in 1..Len(rows) /\ i <= m
      BY <2>3
    <3>2. i \notin I /\ (i \in U => ~(Turn(rows, i) <= 0))
      BY <1>2, <2>2, <3>1
    <3> QED
      BY <2>1, <3>1, <3>2
  <2>6. Cardinality(1..m) = m /\ \A j \in 1..m : Nth(1..m, j) = j
    <3>1. m \in Nat /\ 1..m \in SUBSET (1..m) /\ m \in 0..m /\ 1..m \subseteq 1..m
      BY <2>3
    <3>2. Cardinality(1..m) = m
      BY <3>1, AllPositions
    <3> QED
      BY <3>1, <3>2, PrefixStays
  <2>7. Keep(image, 1..m) = [j \in 1..m |-> table[j]]
    BY <2>5, <2>6 DEF Keep
  <2>8. table = [j \in 1..m |-> table[j]]
    BY <1>0 DEF m
  <2> QED
    BY <2>4, <2>7, <2>8 DEF image
<1>4. \A n \in 1..N : Exec(Keep(Image(rows, table, n - 1), Left(rows, n - 1)), stmts[n])
                        = Keep(Image(rows, table, n), Left(rows, n))
  <2> TAKE n \in 1..N
  <2>1. n \in Int
    BY <1>2
  <2>2. PICK p \in D \cup U \cup I : Turn(rows, p) = n
    BY <1>2
  <2>3. CASE p \in D
    BY <2>1, <2>2, <2>3, DeleteStep DEF stmts, D
  <2>4. CASE p \in U
    BY <2>1, <2>2, <2>4, UpdateStep DEF stmts, U
  <2>5. CASE p \in I
    BY <2>1, <2>2, <2>5, InsertStep DEF stmts, I
  <2> QED
    BY <2>3, <2>4, <2>5
<1>5. f = [n \in 0..N |-> IF n = 0 THEN table ELSE Exec(f[n - 1], stmts[n])]
  <2>1. \A n \in 0..N : Keep(Image(rows, table, n), Left(rows, n))
                          = IF n = 0 THEN table ELSE Exec(f[n - 1], stmts[n])
    <3> TAKE n \in 0..N
    <3>1. CASE n = 0
      BY <1>3, <3>1
    <3>2. CASE n # 0
      <4>1. n \in 1..N /\ n - 1 \in 0..N
        BY <1>2, <3>2
      <4>2. f[n - 1] = Keep(Image(rows, table, n - 1), Left(rows, n - 1))
        BY <4>1
      <4> HIDE DEF f
      <4> QED
        BY <1>4, <3>2, <4>1, <4>2
    <3> QED
      BY <3>1, <3>2
  <2> QED
    BY <2>1
<1>6. f[N] = Keep(Image(rows, table, N), Left(rows, N))
  BY <1>2
<1> HIDE DEF f
<1>7. Apply(table, stmts) = f[N]
  BY <1>2, <1>5, ApplyIs DEF N
<1>8. Keep(Image(rows, table, N), Left(rows, N)) = Outcome(rows)
  <2> DEFINE kept == (1..Len(rows)) \ D
  <2>1. Left(rows, N) = kept
    <3>1. \A i \in 1..Len(rows) : /\ i \in D => ~(Turn(rows, i) > N)
                                  /\ i \in I => Turn(rows, i) <= N
      BY <1>2
    <3> QED
      BY <3>1 DEF Left, D, I
  <2>2. \A i \in kept : Image(rows, table, N)[i] = OutcomeOf(rows[i])
    <3> TAKE i \in kept
    <3>1. i \in 1..Len(rows) /\ i \notin D /\ N \in Int
      BY <1>2
    <3>2. Image(rows, table, N)[i] = IF i \in I \/ (i \in U /\ Turn(rows, i) <= N)
                                     THEN OutcomeOf(rows[i]) ELSE table[i]
      BY <3>1, ImageTyped DEF I, U
    <3>3. i \in U => Turn(rows, i) <= N
      BY <1>2
    <3>4. i \notin I \cup U => table[i] = OutcomeOf(rows[i])
      BY <3>1, RowFacts DEF D, U, I
    <3> QED
      BY <3>2, <3>3, <3>4
  <2>3. kept \in SUBSET (1..Len(rows))
    OBVIOUS
  <2>4. Drop(rows, StagedAs(rows, "staged-delete")) = Keep(rows, kept)
    BY DEF Drop, D, Deleted
  <2> HIDE DEF kept
  <2>5. /\ Len(Keep(rows, kept)) = Cardinality(kept)
        /\ \A j \in 1..Cardinality(kept) : Nth(kept, j) \in kept /\ Keep(rows, kept)[j] = rows[Nth(kept, j)]
    BY <1>0, <2>3, ListOf
  <2>6. Outcome(rows) = [j \in 1..Len(Keep(rows, kept)) |-> OutcomeOf(Keep(rows, kept)[j])]
    BY <2>4 DEF Outcome, OutcomeOf
  <2>7. Outcome(rows) = [j \in 1..Cardinality(kept) |-> OutcomeOf(rows[Nth(kept, j)])]
    BY <2>5, <2>6
  <2>8. Keep(Image(rows, table, N), kept) = [j \in 1..Cardinality(kept) |-> Image(rows, table, N)[Nth(kept, j)]]
    BY DEF Keep
  <2>9. \A j \in 1..Cardinality(kept) : Image(rows, table, N)[Nth(kept, j)] = OutcomeOf(rows[Nth(kept, j)])
    BY <2>2, <2>5
  <2> QED
    BY <2>1, <2>7, <2>8, <2>9
<1> QED
  BY <1>6, <1>7, <1>8 DEF stmts

-----------------------------------------------------------------------------
(* What the statements rely on besides: edited rows have a value in every field, and the    *)
(* keys a query read are distinct.                                                         *)

Filled(rows) == \A i \in 1..Len(rows) : rows[i].status = "staged-update" => rows[i].data.v # Undefined

KeysDiffer(table) ==
    HasPrimaryKey => \A i, j \in 1..Len(table) : table[i].k = table[j].k => i = j

KInv ==
    /\ \A r \in mounted \ converted : Filled(displayRows[r])
    /\ \A r \in Results : KeysDiffer(fetched[r])

\* Steps that change the rows on screen.
LEMMA RowsFilled ==
    ASSUME GInv, KInv, OnScreen, NEW rows, SetRows(rows), converted \subseteq converted',
           shown \notin converted' => Filled(rows)
    PROVE  KInv'
<1>1. UNCHANGED <<fetched, mounted>> /\ displayRows' = [displayRows EXCEPT ![shown] = rows]
  BY DEF SetRows
<1>2. mounted \subseteq Results
  BY ShownOfTheTab, EditorTabsAssumption DEF GInv
<1>3. \A r \in mounted : displayRows'[r] = IF r = shown THEN rows ELSE displayRows[r]
  BY <1>1, <1>2 DEF GInv
<1>4. \A r \in mounted \ converted' : Filled(displayRows'[r])
  BY <1>3 DEF KInv
<1> QED
  BY <1>1, <1>4 DEF KInv

\* One row that is staged or changed.
LEMMA StagedFilled ==
    ASSUME NEW rows, RowsOK(rows), NEW i \in 1..Len(rows), NEW data \in Row, Filled(rows),
           NEW status \in {"normal", "staged-delete", "staged-update", "staged-insert"},
           NEW original \in Row \cup {NoRow}, status = "staged-update" => original # NoRow,
           status = "staged-update" => data.v # Undefined
    PROVE  Filled(Stage(rows, i, data, status, original))
<1> DEFINE new == Stage(rows, i, data, status, original)
           row == [data |-> data, status |-> status, originalData |-> original]
<1>1. /\ Len(new) = Len(rows)
      /\ \A j \in 1..Len(rows) : new[j] = IF j = i THEN row ELSE rows[j]
  BY StagedRow
<1>2. row.data = data /\ row.status = status
  OBVIOUS
<1> HIDE DEF new, row
<1>3. Filled(new)
  BY <1>1, <1>2 DEF Filled
<1> QED
  BY <1>3 DEF new

\* A row that is edited has its value from the query or from an earlier edit.
LEMMA EditedValue ==
    ASSUME NEW rows, RowsOK(rows), Filled(rows), NEW table \in Seq(TableRow), Grounded(rows, table),
           NEW i \in 1..Len(rows), rows[i].status # "staged-insert"
    PROVE  rows[i].data.v # Undefined
<1>1. CASE rows[i].status = "staged-update"
  BY <1>1 DEF Filled
<1>2. CASE rows[i].status # "staged-update"
  <2>1. Len(table) \in Nat /\ Len(rows) \in Nat
    BY LenProperties, RowsLength
  <2>2. i <= Len(table) /\ rows[i].originalData = NoRow /\ Original(rows[i]) = table[i]
    BY <1>2 DEF Grounded
  <2>3. i \in 1..Len(table)
    BY <2>1, <2>2
  <2>4. rows[i].data = table[i] /\ table[i] \in TableRow
    BY <2>2, <2>3 DEF Original
  <2> QED
    BY <2>4, ResultsGridAssumption DEF TableRow, ResultsGridAssumption
<1> QED
  BY <1>1, <1>2

\* Saving what was typed.
LEMMA SavesFill ==
    ASSUME GInv, JsonOK, KInv,
           \/ \E data \in NewRows : SaveNewRow(data)
           \/ \E edit \in Edits : SaveEdit(edit)
           \/ \E value \in JsonValues : SaveJson(value)
    PROVE  KInv'
<1>0. ASSUME OnScreen
      PROVE  /\ RowsOK(Rows) /\ Len(Rows) \in Nat /\ fetched[shown] \in Seq(TableRow)
             /\ shown \notin converted => Grounded(Rows, fetched[shown]) /\ Filled(Rows)
  BY <1>0, RowsOnScreen, RowsLength DEF KInv, Rows
<1>1. ASSUME NEW data \in NewRows, SaveNewRow(data) PROVE KInv'
  <2> DEFINE row == [data |-> data, status |-> "staged-insert", originalData |-> NoRow]
             new == Append(Rows, row)
  <2>1. OnScreen /\ SetRows(new) /\ converted' = converted
    BY <1>1 DEF SaveNewRow
  <2>2. data \in Row
    BY ResultsGridAssumption DEF ResultsGridAssumption
  <2>3. Rows \in Seq(DisplayRow) /\ row \in DisplayRow /\ row.status = "staged-insert"
    BY <1>0, <2>1, <2>2 DEF RowsOK, DisplayRow
  <2> HIDE DEF row
  <2>4. Len(new) = Len(Rows) + 1
        /\ \A j \in 1..(Len(Rows) + 1) : new[j] = IF j <= Len(Rows) THEN Rows[j] ELSE row
    BY <2>3
  <2> HIDE DEF new
  <2>5. \A j \in 1..(Len(Rows) + 1) : j <= Len(Rows) => j \in 1..Len(Rows)
    BY <1>0, <2>1
  <2>6. shown \notin converted => Filled(new)
    BY <1>0, <2>1, <2>3, <2>4, <2>5 DEF Filled
  <2> QED
    BY <2>1, <2>6, RowsFilled
<1>2. ASSUME NEW edit \in Edits, SaveEdit(edit) PROVE KInv'
  <2> DEFINE i == panel.at
             data == [Rows[i].data EXCEPT ![edit.column] = edit.value]
             original == Original(Rows[i])
             new == Stage(Rows, i, data, "staged-update", original)
  <2>1. /\ OnScreen /\ "save" \in Buttons /\ edit.value \in FieldValues(edit.column, FALSE)
        /\ SetRows(new)
        /\ converted' = IF Rows[i].status = "staged-insert" THEN converted \cup {shown} ELSE converted
    BY <1>2 DEF SaveEdit
  <2>2. panel.on = "row"
    BY <2>1 DEF Buttons
  <2>3. i \in 1..Len(Rows) /\ Rows[i] \in DisplayRow
    BY <2>1, <2>2, RowsOnScreen, RowsLength DEF PanelOK
  <2>4. original \in Row /\ original # NoRow /\ Rows[i].data \in Row
    BY <2>3, OriginalTyped
  <2>5. edit.column \in {"k", "v"}
    BY ResultsGridAssumption DEF ResultsGridAssumption
  <2>6. ASSUME shown \notin converted' PROVE Filled(new)
    <3>1. shown \notin converted /\ Rows[i].status # "staged-insert"
      BY <2>1, <2>6
    <3>2. Rows[i].data.v # Undefined
      BY <1>0, <2>1, <2>3, <3>1, EditedValue
    <3>3. data \in Row /\ data.v # Undefined
      <4>1. CASE edit.column = "k"
        <5>1. edit.value \in Keys \cup {Null} /\ data = [Rows[i].data EXCEPT !.k = edit.value]
          BY <2>1, <4>1 DEF FieldValues
        <5> QED
          BY <2>4, <3>2, <5>1 DEF Row
      <4>2. CASE edit.column = "v"
        <5>1. edit.value \in Values \cup {Null} /\ data = [Rows[i].data EXCEPT !.v = edit.value]
          BY <2>1, <4>2 DEF FieldValues
        <5>2. edit.value # Undefined
          BY <5>1, ResultsGridAssumption DEF ResultsGridAssumption
        <5> QED
          BY <2>4, <5>1, <5>2 DEF Row
      <4> QED
        BY <2>5, <4>1, <4>2
    <3> HIDE DEF data, original, i
    <3> QED
      BY <1>0, <2>1, <2>3, <2>4, <3>1, <3>3, StagedFilled
  <2> HIDE DEF new, i
  <2> QED
    BY <2>1, <2>6, RowsFilled
<1>3. ASSUME NEW value \in JsonValues, SaveJson(value), ~(panel.pending \/ jsonModal > Len(Rows))
      PROVE  KInv'
  <2> DEFINE i == jsonModal
             data == [Rows[i].data EXCEPT !.v = value]
             original == Original(Rows[i])
  <2>0. OnScreen /\ i # 0 /\ i \in Nat
    BY <1>3 DEF SaveJson, JsonOK
  <2>1. /\ OnScreen /\ i \in 1..Len(Rows) /\ converted' = converted
        /\ SetRows(IF Rows[i].status = "staged-insert" THEN [Rows EXCEPT ![i].data = data]
                   ELSE Stage(Rows, i, data, "staged-update", original))
    <3>1. i \in 1..Len(Rows)
      BY <1>0, <1>3, <2>0
    <3> QED
      BY <1>3, <2>0, <3>1 DEF SaveJson
  <2> HIDE DEF i
  <2>2. Rows[i] \in DisplayRow /\ RowsOK(Rows)
    BY <2>1, RowsOnScreen, RowsLength
  <2>3. original \in Row /\ original # NoRow /\ Rows[i].data \in Row
        /\ Rows[i].originalData \in Row \cup {NoRow}
    BY <2>2, OriginalTyped
  <2>4. value \in Values /\ value # Undefined
    BY ResultsGridAssumption DEF ResultsGridAssumption
  <2>5. data \in Row /\ data.v # Undefined
    BY <2>3, <2>4 DEF Row
  <2>6. CASE Rows[i].status = "staged-insert"
    <3> DEFINE new == Stage(Rows, i, data, "staged-insert", Rows[i].originalData)
    <3>1. [Rows EXCEPT ![i].data = data] = new
      <4>1. [Rows[i] EXCEPT !.data = data]
              = [data |-> data, status |-> "staged-insert", originalData |-> Rows[i].originalData]
        BY <2>2, <2>6 DEF DisplayRow
      <4> QED
        BY <4>1 DEF Stage
    <3>2. SetRows(new)
      BY <2>1, <2>6, <3>1
    <3> HIDE DEF data
    <3>3. shown \notin converted => Filled(new)
      BY <1>0, <2>1, <2>3, <2>5, StagedFilled
    <3> HIDE DEF new
    <3> QED
      BY <2>1, <3>2, <3>3, RowsFilled
  <2>7. CASE Rows[i].status # "staged-insert"
    <3> DEFINE new == Stage(Rows, i, data, "staged-update", original)
    <3>1. SetRows(new)
      BY <2>1, <2>7
    <3> HIDE DEF data, original
    <3>2. shown \notin converted => Filled(new)
      BY <1>0, <2>1, <2>3, <2>5, StagedFilled
    <3> HIDE DEF new
    <3> QED
      BY <2>1, <3>1, <3>2, RowsFilled
  <2> QED
    BY <2>6, <2>7
<1>4. ASSUME NEW value \in JsonValues, SaveJson(value), panel.pending \/ jsonModal > Len(Rows)
      PROVE  KInv'
  BY <1>4 DEF SaveJson, KInv
<1> QED
  BY <1>1, <1>2, <1>3, <1>4

\* Rows that are removed.
LEMMA DroppedFilled ==
    ASSUME NEW rows, RowsOK(rows), Filled(rows), NEW gone \in SUBSET (1..Len(rows))
    PROVE  Filled(Drop(rows, gone))
<1> DEFINE kept == (1..Len(rows)) \ gone
           new == Drop(rows, gone)
<1>1. new = Keep(rows, kept) /\ kept \in SUBSET (1..Len(rows))
  BY RowsLength DEF Drop
<1> HIDE DEF new, kept
<1>2. Len(new) = Cardinality(kept)
      /\ \A j \in 1..Len(new) : Nth(kept, j) \in 1..Len(rows) /\ new[j] = rows[Nth(kept, j)]
  BY <1>1, ListOf
<1>3. Filled(new)
  BY <1>2 DEF Filled
<1> QED
  BY <1>3 DEF new

\* Deleting and discarding.
LEMMA StagingFills ==
    ASSUME GInv, KInv, Staging \/ \E selected : DeleteSelection(selected)
    PROVE  KInv'
<1>0. ASSUME OnScreen
      PROVE  /\ RowsOK(Rows) /\ Len(Rows) \in Nat /\ DOMAIN Rows = 1..Len(Rows)
             /\ shown \notin converted => Filled(Rows)
  BY <1>0, RowsOnScreen, RowsLength DEF KInv, Rows
<1>1. ASSUME NEW selected, DeleteSelection(selected) PROVE KInv'
  <2> DEFINE new == Delete(Rows, selected)
             deleted(row) == [row EXCEPT !.status = "staged-delete"]
  <2>1. OnScreen /\ SetRows(new) /\ converted' = converted
    BY <1>1 DEF DeleteSelection
  <2>2. /\ Len(new) = Len(Rows)
        /\ new = [i \in 1..Len(Rows) |-> IF i \in selected /\ Rows[i].status = "normal"
                                         THEN deleted(Rows[i]) ELSE Rows[i]]
    BY <1>0, <2>1, DeletedRows DEF Delete
  <2>3. \A i \in 1..Len(Rows) : deleted(Rows[i]).status = "staged-delete"
    <3>1. \A row \in DisplayRow : deleted(row).status = "staged-delete"
      BY DEF DisplayRow
    <3> HIDE DEF deleted
    <3> QED
      BY <1>0, <2>1, <3>1, RowsLength
  <2> HIDE DEF new, deleted
  <2>4. shown \notin converted => Filled(new)
    BY <1>0, <2>1, <2>2, <2>3 DEF Filled
  <2> QED
    BY <2>1, <2>4, RowsFilled
<1>2. ASSUME NEW selected, DiscardSelection(selected) PROVE KInv'
  <2> DEFINE new == Discard(Rows, selected)
             gone == selected \cap StagedAs(Rows, "staged-insert")
             rest == Drop(Rows, gone)
  <2>1. OnScreen /\ SetRows(new) /\ converted' = converted
    BY <1>2 DEF DiscardSelection
  <2>2. gone \in SUBSET (1..Len(Rows))
    BY DEF StagedAs
  <2>3. RowsOK(rest) /\ Len(rest) = Cardinality((1..Len(Rows)) \ gone)
    BY <1>0, <2>1, <2>2, DroppedRows
  <2>4. /\ Len(new) = Len(rest)
        /\ \A j \in 1..Len(rest) : new[j] = IF j \in selected THEN Restored(rest[j]) ELSE rest[j]
    BY <1>0, <2>1, <2>3, DiscardedRows
  <2>5. shown \notin converted => Filled(rest)
    BY <1>0, <2>1, <2>2, DroppedFilled
  <2> HIDE DEF new, gone, rest
  <2>6. \A j \in 1..Len(rest) : Restored(rest[j]).status # "staged-update"
    <3> TAKE j \in 1..Len(rest)
    <3>1. rest[j] \in DisplayRow /\ (rest[j].status = "staged-update" => rest[j].originalData # NoRow)
      BY <2>3, RowsLength DEF RowsOK
    <3> QED
      BY <3>1, RestoredRow
  <2>7. shown \notin converted => Filled(new)
    BY <2>4, <2>5, <2>6 DEF Filled
  <2> QED
    BY <2>1, <2>7, RowsFilled
<1>3. ASSUME DiscardEverything PROVE KInv'
  <2> DEFINE new == DiscardAll(Rows)
             gone == StagedAs(Rows, "staged-insert")
             rest == Drop(Rows, gone)
             back(row) == [data |-> IF row.status = "staged-update" THEN row.originalData ELSE row.data,
                           status |-> "normal", originalData |-> NoRow]
  <2>1. OnScreen /\ SetRows(new) /\ converted' = converted
    BY <1>3 DEF DiscardEverything
  <2>2. gone \in SUBSET (1..Len(Rows))
    BY DEF StagedAs
  <2>3. RowsOK(rest)
    BY <1>0, <2>1, <2>2, DroppedRows
  <2>4. Len(rest) \in Nat
    BY <2>3, RowsLength
  <2>5. new = [j \in 1..Len(rest) |-> IF isStaged(rest[j]) THEN back(rest[j]) ELSE rest[j]]
    BY DEF DiscardAll
  <2>6. \A row : back(row).status = "normal"
    OBVIOUS
  <2> HIDE DEF new, gone, rest, back
  <2>7. Len(new) = Len(rest)
        /\ \A j \in 1..Len(rest) : new[j] = IF isStaged(rest[j]) THEN back(rest[j]) ELSE rest[j]
    BY <2>4, <2>5
  <2>8. \A j \in 1..Len(rest) : new[j].status # "staged-update"
    BY <2>6, <2>7 DEF isStaged
  <2>9. Filled(new)
    BY <2>7, <2>8 DEF Filled
  <2> QED
    BY <2>1, <2>9, RowsFilled
<1>4. ASSUME DiscardShownRow PROVE KInv'
  <2> DEFINE i == panel.at
             row == Rows[i]
             data == IF row.status = "staged-update" THEN row.originalData ELSE row.data
  <2>1. /\ OnScreen /\ "discard" \in Buttons /\ converted' = converted
        /\ IF row.status = "staged-insert" THEN SetRows(Drop(Rows, {i}))
           ELSE SetRows(Stage(Rows, i, data, "normal", NoRow))
    BY <1>4 DEF DiscardShownRow
  <2>2. panel.on = "row" /\ PanelOK(panel, Len(Rows))
    BY <2>1, RowsOnScreen DEF Buttons
  <2>3. i \in 1..Len(Rows) /\ row \in DisplayRow
    BY <1>0, <2>1, <2>2, RowsLength DEF PanelOK
  <2>4. data \in Row
    BY <1>0, <2>1, <2>3, OriginalTyped DEF RowsOK
  <2>5. CASE row.status = "staged-insert"
    <3>1. {i} \in SUBSET (1..Len(Rows))
      BY <2>3
    <3>2. shown \notin converted => Filled(Drop(Rows, {i}))
      BY <1>0, <2>1, <3>1, DroppedFilled
    <3> QED
      BY <2>1, <2>5, <3>2, RowsFilled
  <2>6. CASE row.status # "staged-insert"
    <3> HIDE DEF data
    <3>1. shown \notin converted => Filled(Stage(Rows, i, data, "normal", NoRow))
      BY <1>0, <2>1, <2>3, <2>4, StagedFilled
    <3> QED
      BY <2>1, <2>6, <3>1, RowsFilled
  <2> QED
    BY <2>5, <2>6
<1> QED
  BY <1>1, <1>2, <1>3, <1>4 DEF Staging

\* The effects: what comes into the grid is as a query read it.
LEMMA EffectsFill ==
    ASSUME GInv, KInv, Effects, TabsInv', fetched' \in [Results -> Seq(TableRow)],
           \A r \in Results : KeysDiffer(fetched'[r])
    PROVE  KInv'
<1> DEFINE fill == IF shown' = Absent THEN {} ELSE {shown'} \ Swept
<1>1. /\ mounted' = Swept \cup fill
      /\ displayRows' = [r \in Results |-> IF r \in fill THEN Fresh(fetched'[r])
                                           ELSE IF r \in Swept THEN displayRows[r] ELSE <<>>]
      /\ converted' = converted \cap Swept
  BY DEF Effects
<1>2. Swept \subseteq mounted /\ mounted \subseteq Results
  BY ShownOfTheTab, EditorTabsAssumption DEF Swept, GInv
<1>3. fill \subseteq Results /\ fill \cap Swept = {}
  <2>1. shown' # Absent => shown' = activeResult'[activeTab'] /\ activeTab' \in QueryTabs
    BY DEF shown
  <2> QED
    BY <2>1 DEF TabsInv, TabsTypeOK
<1>4. \A r \in Results : Filled(Fresh(fetched'[r]))
  <2> TAKE r \in Results
  <2>1. Len(fetched'[r]) \in Nat
    BY LenProperties
  <2> QED
    BY <2>1 DEF Fresh, Filled
<1> HIDE DEF fill
<1>5. \A r \in Results : displayRows'[r] = IF r \in fill THEN Fresh(fetched'[r])
                                           ELSE IF r \in Swept THEN displayRows[r] ELSE <<>>
  BY <1>1
<1>6. \A r \in mounted' \ converted' : Filled(displayRows'[r])
  BY <1>1, <1>2, <1>3, <1>4, <1>5 DEF KInv
<1> QED
  BY <1>6 DEF KInv

\* Every step keeps both invariants.
LEMMA StepFills ==
    ASSUME GInv, JsonOK, KInv, GridNext
    PROVE  KInv'
<1>1. CASE MoveBetweenTabs
  <2>1. TabsInv'
    BY <1>1, EditorTabsAssumption, TabsStepKeeps, MovingIsAStep DEF GInv
  <2>2. /\ fetched' = [r \in Results |-> IF \E t \in QueryTabs : r \in Range(resultTabs'[t])
                                         THEN fetched[r] ELSE <<>>]
        /\ Effects
    BY <1>1 DEF MoveBetweenTabs
  <2>3. <<>> \in Seq(TableRow) /\ Len(<<>>) = 0 /\ KeysDiffer(<<>>)
    BY DEF KeysDiffer
  <2>4. \A r \in Results : fetched'[r] \in {fetched[r], <<>>}
    BY <2>2
  <2>5. fetched' \in [Results -> Seq(TableRow)]
    BY <2>2, <2>3 DEF GInv
  <2>6. \A r \in Results : KeysDiffer(fetched'[r])
    BY <2>3, <2>4 DEF KInv
  <2> QED
    BY <2>1, <2>2, <2>5, <2>6, EffectsFill
<1>2. ASSUME NEW t \in QueryTabs, NEW rs \in Answers, NEW contents \in [Range(rs) -> Tables],
             FinishQuery(t, rs, contents)
      PROVE  KInv'
  <2>1. TabsInv'
    BY <1>2, EditorTabsAssumption, TabsStepKeeps, AnswerShape DEF GInv
  <2>2. /\ Effects /\ fetched' \in [Results -> Seq(TableRow)]
        /\ Range(rs) \subseteq Results \ InUse
        /\ \A r \in Results \ Range(rs) : fetched'[r] = fetched[r]
        /\ \A r \in Range(rs) : fetched'[r] \in Tables
    BY <1>2, AnswerShape
  <2>3. \A table \in Tables : KeysDiffer(table)
    BY ResultsGridAssumption DEF ResultsGridAssumption, KeysDiffer
  <2>4. \A q \in Results : KeysDiffer(fetched'[q])
    BY <2>2, <2>3 DEF KInv
  <2>5. mounted \cap Range(rs) = {}
    BY <2>2, ShownOfTheTab, EditorTabsAssumption DEF GInv
  <2> QED
    BY <2>1, <2>2, <2>4, <2>5, EffectsFill
<1>3. CASE StartQuery \/ Reviewing
  BY <1>3 DEF StartQuery, gridVars, Reviewing, OpenPreview, ClosePreview, ExecuteAll, KInv
<1>4. CASE Keyboard
  <2>1. CASE \E selected : DeleteSelection(selected)
    BY <2>1, StagingFills
  <2>2. CASE ~\E selected : DeleteSelection(selected)
    BY <1>4, <2>2 DEF Keyboard, NavigateRow, selectRowByCanonicalIndex, PinRow, KInv
  <2> QED
    BY <2>1, <2>2
<1>5. CASE Staging
  BY <1>5, StagingFills
<1>6. CASE Panelling
  <2>1. CASE \E i \in 1..MaxRows : ClickRow(i) \/ EditRow(i) \/ PinRow(i) \/ OpenJson(i)
    BY <2>1 DEF ClickRow, EditRow, PinRow, OpenJson, KInv
  <2>2. CASE CtrlClickRow \/ ClosePanel \/ CancelEdit \/ NewRow
    BY <2>2 DEF CtrlClickRow, ClosePanel, CancelEdit, NewRow, KInv
  <2>3. CASE \/ \E data \in NewRows : SaveNewRow(data)
             \/ \E edit \in Edits : SaveEdit(edit)
    BY <2>3, SavesFill
  <2> QED
    BY <1>6, <2>1, <2>2, <2>3 DEF Panelling
<1>7. CASE Expanding
  <2>1. CASE CloseJson
    BY <2>1 DEF CloseJson, KInv
  <2> QED
    BY <1>7, <2>1, SavesFill DEF Expanding
<1> QED
  BY <1>1, <1>2, <1>3, <1>4, <1>5, <1>6, <1>7 DEF GridNext, Querying

\* Both invariants hold in every state.
LEMMA ReachableKeyed == GridSpec => [](GInv /\ KInv)
<1>1. GridInit => KInv
  <2> SUFFICES ASSUME GridInit PROVE KInv
    OBVIOUS
  <2>1. mounted = {} /\ \A r \in Results : fetched[r] = <<>>
    BY DEF GridInit
  <2>2. KeysDiffer(<<>>)
    <3>1. Len(<<>>) = 0
      OBVIOUS
    <3> QED
      BY <3>1 DEF KeysDiffer
  <2> QED
    BY <2>1, <2>2 DEF KInv
<1>2. GInv /\ JsonOK /\ KInv /\ [GridNext]_allVars => KInv'
  <2> SUFFICES ASSUME GInv, JsonOK, KInv, [GridNext]_allVars PROVE KInv'
    OBVIOUS
  <2>1. CASE GridNext
    BY <2>1, StepFills
  <2>2. CASE UNCHANGED allVars
    BY <2>2 DEF allVars, gridVars, KInv
  <2> QED
    BY <2>1, <2>2
<1> QED
  BY <1>1, <1>2, Reachable, PTL DEF GridSpec

\* With a primary key, the statements generated for what is staged, run against the rows the
\* query read, leave exactly what the grid shows, whatever was edited, deleted, added,
\* discarded and edited again before, in any number of rows (lib/staged-changes.ts, and the
\* handlers of QueryResults.tsx that stage).
THEOREM SQLIsExact ==
    ASSUME HasPrimaryKey
    PROVE  GridSpec => []SQLWritesTheGrid
<1>1. ASSUME GInv, KInv PROVE SQLWritesTheGrid
  <2> SUFFICES ASSUME EditedAsMeant, KeysAreKept(Rows)
               PROVE  Apply(fetched[shown], stagedSQL(Rows)) = Outcome(Rows)
    BY DEF SQLWritesTheGrid
  <2>1. OnScreen /\ shown \notin converted
    BY DEF EditedAsMeant
  <2>2. /\ shown \in Results /\ shown \in mounted /\ RowsOK(Rows)
        /\ fetched[shown] \in Seq(TableRow) /\ Grounded(Rows, fetched[shown])
    BY <1>1, <2>1, RowsOnScreen
  <2>3. Filled(Rows) /\ KeysDiffer(fetched[shown])
    BY <1>1, <2>1, <2>2 DEF KInv, Rows
  <2>4. Sound(Rows, fetched[shown])
    BY <2>2, <2>3 DEF Sound, Filled, KeysDiffer
  <2> QED
    BY <2>4, SQLWrites
<1>2. GInv /\ KInv => SQLWritesTheGrid
  BY <1>1
<1> QED
  BY <1>2, ReachableKeyed, PTL

=============================================================================
