---------------------------- MODULE SqlEditorProofs ----------------------------
(*****************************************************************************)
(* The SQL editor: its cache of statements, its document and its requests, for *)
(* any tabs, texts of any length and any number of edits; and its completion,  *)
(* for any statements and any database.                                        *)
(*****************************************************************************)
EXTENDS EditorBuffer, Completion, FiniteSetTheorems, SequenceTheorems, WellFoundedInduction, TLAPS

(* Subsequences. *)

\* A set of positions is finite, and has as many of them as it can hold.
LEMMA Positions ==
    ASSUME NEW n \in Nat, NEW S \in SUBSET (1..n)
    PROVE  IsFiniteSet(S) /\ Cardinality(S) \in 0..n /\ S \subseteq Int
<1>1. IsFiniteSet(1..n) /\ Cardinality(1..n) = n
  BY FS_Interval
<1>2. IsFiniteSet(S) /\ Cardinality(S) <= n
  BY <1>1, FS_Subset
<1>3. Cardinality(S) \in Nat
  BY <1>2, FS_CardinalityType
<1> QED
  BY <1>2, <1>3

\* Of two positions of a set, the one behind has the higher rank.
LEMMA RankGrows ==
    ASSUME NEW n \in Nat, NEW S \in SUBSET (1..n)
    PROVE  /\ \A i \in S : Rank(S, i) \in 1..Cardinality(S)
           /\ \A i, j \in S : i < j => Rank(S, i) < Rank(S, j)
<1>1. \A i \in 1..n : {h \in S : h <= i} \in SUBSET S
  OBVIOUS
<1>2. ASSUME NEW i \in S PROVE Rank(S, i) \in 1..Cardinality(S)
  <2>1. IsFiniteSet({h \in S : h <= i}) /\ Cardinality({h \in S : h <= i}) <= Cardinality(S)
    BY <1>1, FS_Subset, Positions
  <2>2. {h \in S : h <= i} # {}
    BY <1>2
  <2>3. Cardinality({h \in S : h <= i}) \in Nat \ {0}
    BY <2>1, <2>2, FS_EmptySet, FS_CardinalityType
  <2> QED
    BY <2>1, <2>3, Positions DEF Rank
<1>3. ASSUME NEW i \in S, NEW j \in S, i < j PROVE Rank(S, i) < Rank(S, j)
  <2>1. IsFiniteSet({h \in S : h <= i}) /\ IsFiniteSet({h \in S : h <= j})
    BY <1>1, FS_Subset, Positions
  <2>0. S \subseteq Int /\ i \in Int /\ j \in Int
    BY Positions
  <2>2. {h \in S : h <= i} \in SUBSET {h \in S : h <= j} /\ j \notin {h \in S : h <= i} /\ j \in {h \in S : h <= j}
    <3>1. \A h \in S : h <= i => h <= j
      BY <1>3, <2>0
    <3>2. ~(j <= i) /\ j <= j
      BY <1>3, <2>0
    <3> QED
      BY <3>1, <3>2
  <2>3. /\ Cardinality({h \in S : h <= i}) <= Cardinality({h \in S : h <= j})
        /\ Cardinality({h \in S : h <= i}) # Cardinality({h \in S : h <= j})
    BY <2>1, <2>2, FS_Subset
  <2> QED
    BY <1>2, <2>3, Positions DEF Rank
<1> QED
  BY <1>2, <1>3

\* The positions of a set, in order.
LEMMA NthProperties ==
    ASSUME NEW n \in Nat, NEW S \in SUBSET (1..n)
    PROVE  /\ \A j \in 1..Cardinality(S) : Nth(S, j) \in S /\ Rank(S, Nth(S, j)) = j
           /\ \A i \in S : Nth(S, Rank(S, i)) = i
           /\ \A j, k \in 1..Cardinality(S) : j < k => Nth(S, j) < Nth(S, k)
<1> DEFINE rank == [i \in S |-> Rank(S, i)]
<1>0. S \subseteq Int /\ Cardinality(S) \in Nat
  BY Positions
<1>1. \A i, j \in S : Rank(S, i) = Rank(S, j) => i = j
  <2>1. \A i, j \in S : Rank(S, i) = Rank(S, j) => Rank(S, i) \in Int /\ ~(i < j) /\ ~(j < i)
    BY <1>0, RankGrows
  <2> QED
    BY <1>0, <2>1
<1>2. rank \in Injection(S, 1..Cardinality(S))
  BY <1>1, RankGrows DEF Injection, IsInjective
<1>3. IsFiniteSet(1..Cardinality(S)) /\ Cardinality(1..Cardinality(S)) = Cardinality(S)
  BY <1>0, FS_Interval
<1>4. rank \in Surjection(S, 1..Cardinality(S))
  BY <1>2, <1>3, FS_Injection
<1>5. \A j \in 1..Cardinality(S) : \E i \in S : Rank(S, i) = j
  BY <1>4 DEF Surjection
<1>6. \A j \in 1..Cardinality(S) : Nth(S, j) \in S /\ Rank(S, Nth(S, j)) = j
  BY <1>5 DEF Nth
<1>7. \A i \in S : Nth(S, Rank(S, i)) = i
  BY <1>1, <1>6, RankGrows
<1>8. ASSUME NEW j \in 1..Cardinality(S), NEW k \in 1..Cardinality(S), j < k PROVE Nth(S, j) < Nth(S, k)
  <2>1. Nth(S, j) \in Int /\ Nth(S, k) \in Int
    BY <1>0, <1>6
  <2>2. Nth(S, k) < Nth(S, j) => k < j
    BY <1>6, RankGrows
  <2>3. Nth(S, j) # Nth(S, k)
    BY <1>0, <1>6, <1>8
  <2> QED
    BY <1>0, <1>8, <2>1, <2>2, <2>3
<1> QED
  BY <1>6, <1>7, <1>8

--------------------------------------------------------------------------------
(* Statements of a text. *)

\* A set of numbers has a least one.
LEMMA LeastOf ==
    ASSUME NEW T, T \subseteq Nat, T # {}
    PROVE  /\ Minimum(T) \in T
           /\ \A y \in T : Minimum(T) <= y
<1>1. PICK x \in T : \A y \in T : ~(<<y, x>> \in OpToRel(<, Nat))
  BY NatLessThanWellFounded, WFMin
<1>2. \A y \in T : y < x => <<y, x>> \in OpToRel(<, Nat)
  BY DEF OpToRel
<1>3. \A y \in T : ~(y < x)
  BY <1>1, <1>2
<1>4. \E z \in T : \A y \in T : z <= y
  BY <1>3
<1> QED
  BY <1>4 DEF Minimum

\* A text has no fewer bytes than characters.
LEMMA BytesAreCounted ==
    ASSUME NEW text \in Seq(Token)
    PROVE  Bytes(text) \in Nat
<1>1. {i \in DOMAIN text : text[i] = "U"} \in SUBSET (1..Len(text)) /\ Len(text) \in Nat
  BY LenProperties
<1>2. Cardinality({i \in DOMAIN text : text[i] = "U"}) \in Nat
  BY <1>1, Positions
<1> QED
  BY <1>1, <1>2 DEF Bytes

\* The beginning of a text.
LEMMA LocationIsNat ==
    ASSUME NEW text \in Seq(Token), NEW i \in DOMAIN text
    PROVE  Location(text, i) \in Nat
<1>1. Len(text) \in Nat /\ i \in 1..Len(text) /\ \A j \in 1..Len(text) : text[j] \in Token
  BY LenProperties
<1>2. i - 1 \in Int /\ \A j \in 1 .. i - 1 : text[j] \in Token
  BY <1>1
<1>3. SubSeq(text, 1, i - 1) \in Seq(Token)
  BY <1>2, SubSeqProperties
<1> QED
  BY <1>3, BytesAreCounted DEF Location

\* A list of ranges.
RangeList(rs) ==
    /\ DOMAIN rs \subseteq Nat
    /\ \A k \in DOMAIN rs : rs[k].from \in Nat /\ rs[k].to \in Nat /\ rs[k].none = FALSE

\* What a parse yields is one.
LEMMA InfoIsList ==
    ASSUME NEW text \in Seq(Token), NEW p
    PROVE  RangeList(GetEditorInfo(text, p))
<1>1. Len(text) \in Nat /\ DOMAIN text = 1..Len(text)
  BY LenProperties
<1>2. Starts(text) \subseteq DOMAIN text /\ Starts(text) \subseteq Nat
  BY <1>1 DEF Starts
<1>3. ASSUME NEW i \in Starts(text)
      PROVE  /\ GetStatementBoundaries(text)[i].from \in Nat
             /\ GetStatementBoundaries(text)[i].to \in Nat
             /\ GetStatementBoundaries(text)[i].none = FALSE
  <2>1. Location(text, i) \in Nat
    BY <1>2, LocationIsNat
  <2>2. Following(text, i) # {} => Location(text, Minimum(Following(text, i))) \in Nat
    <3>1. Following(text, i) \subseteq Nat /\ Following(text, i) \subseteq DOMAIN text
      BY <1>2 DEF Following
    <3>2. Following(text, i) # {} => Minimum(Following(text, i)) \in DOMAIN text
      BY <3>1, LeastOf
    <3> QED
      BY <3>2, LocationIsNat
  <2> QED
    BY <1>1, <2>1, <2>2 DEF GetStatementBoundaries, Span
<1>4. RangeList(GetStatementBoundaries(text))
  BY <1>2, <1>3 DEF RangeList, GetStatementBoundaries
<1>5. RangeList(<<>>)
  BY DEF RangeList
<1> QED
  BY <1>4, <1>5 DEF GetEditorInfo

\* The statement that is found is a range of the list around the position.
LEMMA Found ==
    ASSUME NEW rs, RangeList(rs), NEW pos \in Int
    PROVE  LET r == FindStatementAt(rs, pos)
           IN  /\ r.from \in Nat /\ r.to \in Nat /\ r.none \in BOOLEAN
               /\ ~r.none => /\ r.from <= pos /\ pos <= r.to
                             /\ \E k \in DOMAIN rs : r = rs[k]
<1> DEFINE around == {k \in DOMAIN rs : rs[k].from <= pos /\ pos <= rs[k].to}
<1>1. CASE around = {}
  BY <1>1 DEF FindStatementAt, None
<1>2. CASE around # {}
  <2>1. around \subseteq Nat
    BY DEF RangeList
  <2>2. Minimum(around) \in around
    BY <1>2, <2>1, LeastOf
  <2>3. FindStatementAt(rs, pos) = rs[Minimum(around)]
    BY <1>2 DEF FindStatementAt
  <2> DEFINE k == Minimum(around)
  <2>4. k \in DOMAIN rs /\ rs[k].from <= pos /\ pos <= rs[k].to /\ FindStatementAt(rs, pos) = rs[k]
    BY <2>2, <2>3
  <2> HIDE DEF k
  <2>5. rs[k].from \in Nat /\ rs[k].to \in Nat /\ ~rs[k].none
    BY <2>4 DEF RangeList
  <2>6. rs[k].none \in BOOLEAN
    BY <2>4 DEF RangeList
  <2> QED
    BY <2>4, <2>5, <2>6
<1> QED
  BY <1>1, <1>2

\* A part of a text is a text.
LEMMA Sliced ==
    ASSUME NEW text \in Seq(Token), NEW r, r.from \in Nat, r.to \in Nat
    PROVE  SliceDoc(text, r) \in Seq(Token)
<1>1. Len(text) \in Nat /\ \A j \in 1..Len(text) : text[j] \in Token
  BY LenProperties
<1>2. Least(r.to, Len(text)) \in Int /\ Least(r.to, Len(text)) <= Len(text) /\ r.from + 1 \in Int
  BY <1>1 DEF Least
<1>3. \A j \in r.from + 1 .. Least(r.to, Len(text)) : text[j] \in Token
  BY <1>1, <1>2
<1> QED
  BY <1>2, <1>3, SubSeqProperties DEF SliceDoc

\* The whole of it.
LEMMA WholeSlice ==
    ASSUME NEW text \in Seq(Token)
    PROVE  SliceDoc(text, Span(0, Len(text))) = text
<1>1. Len(text) \in Nat
  BY LenProperties
<1>2. Least(Len(text), Len(text)) = Len(text)
  BY <1>1 DEF Least
<1>3. SubSeq(text, 1, Len(text)) = text
  BY SubSeqFull
<1> QED
  BY <1>2, <1>3 DEF SliceDoc, Span

\* A text with a part replaced.
LEMMA Replaced ==
    ASSUME NEW text \in Seq(Token), NEW r, r.from \in Nat, r.to \in Nat, r.from <= r.to, r.to <= Len(text),
           NEW insert \in Seq(Token)
    PROVE  /\ Spliced(text, r, insert) \in Seq(Token)
           /\ Len(Spliced(text, r, insert)) = r.from + Len(insert) + (Len(text) - r.to)
<1> DEFINE before == SubSeq(text, 1, r.from)
           behind == SubSeq(text, r.to + 1, Len(text))
<1>1. Len(text) \in Nat /\ Len(insert) \in Nat /\ \A j \in 1..Len(text) : text[j] \in Token
  BY LenProperties
<1>2. before \in Seq(Token) /\ Len(before) = r.from
  <2>1. \A j \in 1..r.from : text[j] \in Token
    BY <1>1
  <2>2. Len(before) = IF 1 <= r.from THEN r.from - 1 + 1 ELSE 0
    BY <2>1, SubSeqProperties
  <2> QED
    BY <2>1, <2>2, SubSeqProperties
<1>3. behind \in Seq(Token) /\ Len(behind) = Len(text) - r.to
  <2>1. \A j \in r.to + 1 .. Len(text) : text[j] \in Token
    BY <1>1
  <2>2. Len(behind) = IF r.to + 1 <= Len(text) THEN Len(text) - (r.to + 1) + 1 ELSE 0
    BY <1>1, <2>1, SubSeqProperties
  <2>3. behind \in Seq(Token)
    BY <1>1, <2>1, SubSeqProperties
  <2> QED
    BY <1>1, <2>2, <2>3
<1> HIDE DEF before, behind
<1> DEFINE front == before \o insert
<1>4. front \in Seq(Token) /\ Len(front) = r.from + Len(insert)
  BY <1>2, ConcatProperties
<1> HIDE DEF front
<1>a. front \in Seq(Token) /\ behind \in Seq(Token)
  BY <1>3, <1>4
<1>5. front \o behind \in Seq(Token) /\ Len(front \o behind) = Len(front) + Len(behind)
  BY ONLY <1>a, ConcatProperties
<1>6. Spliced(text, r, insert) = front \o behind
  BY DEF Spliced, front, before, behind
<1> QED
  BY <1>1, <1>3, <1>4, <1>5, <1>6

\* A formatted text is a text.
LEMMA Formatted ==
    ASSUME NEW text \in Seq(Token)
    PROVE  FormatSql(text) \in Seq(Token)
<1> DEFINE t == Append(text, ";")
           S == {i \in DOMAIN t : t[i] # ";" \/ (i > 1 /\ t[i - 1] # ";")}
<1>1. t \in Seq(Token) /\ Len(t) \in Nat /\ DOMAIN t = 1..Len(t)
  <2>1. t \in Seq(Token)
    BY AppendProperties DEF Token
  <2> QED
    BY <2>1, LenProperties
<1> HIDE DEF t
<1>2. S \in SUBSET (1..Len(t))
  BY <1>1
<1> HIDE DEF S
<1>3. \A j \in 1..Cardinality(S) : Nth(S, j) \in 1..Len(t)
  BY <1>1, <1>2, NthProperties
<1>4. \A j \in 1..Cardinality(S) : t[Nth(S, j)] \in Token
  BY <1>1, <1>3
<1>5. Cardinality(S) \in Nat
  BY <1>1, <1>2, Positions
<1>6. Keep(t, S) \in Seq(Token)
  BY <1>4, <1>5 DEF Keep
<1> QED
  BY <1>6 DEF FormatSql, t, S

--------------------------------------------------------------------------------
(* The invariant. *)

\* What a request remembers.
AskOK(k) ==
    /\ k.range.from \in Nat /\ k.range.to \in Nat /\ k.range.from <= k.range.to
    /\ k.sql \in Seq(Token)
    /\ k.quiet => SliceDoc(k.doc, k.range) = k.sql

\* The view holds the text of its tab, ranges, and parses under way.
ViewOK ==
    /\ doc = content[active]
    /\ rendered \in Seq(Token)
    /\ RangeList(ranges)
    /\ current.from \in Nat /\ current.to \in Nat
    /\ parses \in Seq([text : Seq(Token), mount : BOOLEAN])

\* Unless a parse is due, the last one under way is of the document, if that is not blank; when
\* none is under way either, the module is there and the cache is the one of the document.
CacheOK ==
    ~timer /\ doc # <<>> =>
        IF parses = <<>>
        THEN /\ parser # "loading"
             /\ ranges = GetEditorInfo(doc, parser) /\ current = FindStatementAt(ranges, head)
        ELSE parses[Len(parses)].text = doc

BInv == BufferTypeOK /\ ViewOK /\ CacheOK /\ \A k \in asks : AskOK(k)

\* The document is a text, and the selection lies in it.
LEMMA DocIsText ==
    ASSUME BInv
    PROVE  /\ doc \in Seq(Token) /\ Len(doc) \in Nat
           /\ head \in 0..Len(doc) /\ anchor \in 0..Len(doc)
           /\ Selection.from \in Nat /\ Selection.to \in Nat
           /\ Selection.from <= Selection.to /\ Selection.to <= Len(doc)
<1>1. doc \in Seq(Token) /\ head \in 0..Len(doc) /\ anchor \in 0..Len(doc)
  BY DEF BInv, BufferTypeOK, ViewOK
<1>2. Len(doc) \in Nat
  BY <1>1, LenProperties
<1> QED
  BY <1>1, <1>2 DEF Selection, Span, Least, Most

\* What is run or sent is a text.
LEMMA SqlIsText ==
    ASSUME BInv
    PROVE  Selected \in Seq(Token) /\ GetSqlToExecute \in Seq(Token)
<1>1. Selected \in Seq(Token)
  BY DocIsText, Sliced DEF Selected
<1>2. current.from \in Nat /\ current.to \in Nat
  BY DEF BInv, ViewOK
<1>3. SliceDoc(doc, current) \in Seq(Token)
  BY <1>2, DocIsText, Sliced
<1> QED
  BY <1>1, <1>3, DocIsText DEF GetSqlToExecute

\* At first the document is being parsed.
LEMMA InvAtFirst == BufferInit => BInv
<1> SUFFICES ASSUME BufferInit PROVE BInv
  OBVIOUS
<1> DEFINE p == [text |-> content[active], mount |-> TRUE]
<1>1. Texts \subseteq Seq(Token)
  <2>1. {"D", "U", "W", ";"} \subseteq Token
    BY DEF Token, Heads
  <2>2. Seq({"D", "U", "W", ";"}) \subseteq Seq(Token)
    BY <2>1, SeqMonotonic
  <2> QED
    BY <2>2, BufferAssumption
<1>2. content \in [Tabs -> Seq(Token)] /\ active \in Tabs /\ doc = content[active]
  BY <1>1 DEF BufferInit
<1>3. Len(doc) \in Nat /\ doc \in Seq(Token)
  BY <1>2, LenProperties
<1>4. BufferTypeOK
  <2>1. head = 0 /\ anchor = 0 /\ parser = "loading" /\ timer = FALSE /\ effectDue = FALSE /\ rewriting = FALSE /\ schema \in Schemas
    BY DEF BufferInit
  <2>2. head \in 0..Len(doc) /\ anchor \in 0..Len(doc)
    BY <1>3, <2>1
  <2> QED
    BY <1>2, <2>1, <2>2 DEF BufferTypeOK
<1>5. parses = <<p>> /\ p \in [text : Seq(Token), mount : BOOLEAN] /\ p.text = doc
  BY <1>2, <1>3 DEF BufferInit
<1> HIDE DEF p
<1>6. parses \in Seq([text : Seq(Token), mount : BOOLEAN]) /\ Len(parses) = 1 /\ parses[1] = p
  BY <1>5
<1>7. ViewOK
  BY <1>2, <1>3, <1>6 DEF BufferInit, ViewOK, RangeList, None
<1>8. CacheOK
  BY <1>5, <1>6 DEF CacheOK
<1> QED
  BY <1>4, <1>7, <1>8 DEF BInv, BufferInit

\* Whatever leaves texts and the view's cache alone keeps the invariant.
LEMMA FrameKeeps ==
    ASSUME BInv, UNCHANGED <<content, active, doc, head, anchor, ranges, current, timer, parses, parser>>,
           rendered' \in Seq(Token), effectDue' \in BOOLEAN, schema' \in Schemas, rewriting' \in BOOLEAN,
           \A k \in asks' : AskOK(k)
    PROVE  BInv'
<1>1. BufferTypeOK'
  BY DEF BInv, BufferTypeOK
<1>2. ViewOK'
  BY DEF BInv, ViewOK
<1>3. CacheOK'
  BY DEF BInv, CacheOK
<1> QED
  BY <1>1, <1>2, <1>3 DEF BInv

\* So does a change of the document that the tab hears of, wherever it leaves the cursor.
LEMMA DocStep ==
    ASSUME BInv, NEW text \in Seq(Token), DocChanged(text),
           head' \in 0..Len(text), anchor' \in 0..Len(text),
           current' = current \/ current' = FindStatementAt(ranges, head'),
           UNCHANGED <<active, ranges, parses, rendered, parser, schema>>,
           effectDue' \in BOOLEAN, rewriting' \in BOOLEAN,
           \A k \in asks' : AskOK(k)
    PROVE  BInv'
<1>1. content' \in [Tabs -> Seq(Token)] /\ active' \in Tabs /\ doc' = content'[active'] /\ doc' = text
  BY DEF BInv, BufferTypeOK, DocChanged
<1>2. BufferTypeOK'
  BY <1>1 DEF BInv, BufferTypeOK, DocChanged
<1>3. current'.from \in Nat /\ current'.to \in Nat
  <2>1. RangeList(ranges) /\ current.from \in Nat /\ current.to \in Nat /\ head' \in Int
    BY LenProperties DEF BInv, ViewOK
  <2> QED
    BY <2>1, Found
<1>4. ViewOK'
  BY <1>1, <1>3 DEF BInv, ViewOK
<1>5. CacheOK'
  BY DEF CacheOK, DocChanged
<1> QED
  BY <1>2, <1>4, <1>5 DEF BInv

--------------------------------------------------------------------------------
(* Steps. *)

\* Typing.
LEMMA InsertKeeps ==
    ASSUME BInv, NEW tok \in Typed, InsertAtCursor(<<tok>>)
    PROVE  BInv'
<1> DEFINE insert == <<tok>>
           text == Spliced(doc, Selection, insert)
           at == Selection.from + Len(insert)
<1>1. insert \in Seq(Token) /\ Len(insert) = 1
  <2>1. tok \in Token
    BY BufferAssumption DEF Token, Heads
  <2> QED
    BY <2>1
<1>2. DocChanged(text) /\ SelectionSet(at, at)
  BY DEF InsertAtCursor
<1>3. /\ UNCHANGED <<active, ranges, parses, rendered, parser, schema>>
      /\ effectDue' = effectDue /\ rewriting' = rewriting /\ asks' = asks
  BY DEF InsertAtCursor
<1> HIDE DEF insert
<1>4. /\ text \in Seq(Token) /\ at \in 0..Len(text)
  <2>1. /\ text \in Seq(Token)
        /\ Len(text) = Selection.from + Len(insert) + (Len(doc) - Selection.to)
    BY <1>1, DocIsText, Replaced
  <2> HIDE DEF text
  <2> QED
    BY <1>1, <2>1, DocIsText
<1> HIDE DEF text, at
<1>5. head' \in 0..Len(text) /\ anchor' \in 0..Len(text) /\ current' = FindStatementAt(ranges, head')
  BY <1>2, <1>4 DEF SelectionSet
<1>6. effectDue' \in BOOLEAN /\ rewriting' \in BOOLEAN /\ \A k \in asks' : AskOK(k)
  BY <1>3 DEF BInv, BufferTypeOK
<1> QED
  BY <1>2, <1>3, <1>4, <1>5, <1>6, DocStep

\* Deleting.
LEMMA DeleteKeeps ==
    ASSUME BInv, DeleteBackward
    PROVE  BInv'
<1> DEFINE r == Span(head - 1, head)
           text == Spliced(doc, r, <<>>)
<1>1. DocChanged(text) /\ SelectionSet(head - 1, head - 1) /\ head > 0
  BY DEF DeleteBackward
<1>2. /\ UNCHANGED <<active, ranges, parses, rendered, parser, schema>>
      /\ effectDue' = effectDue /\ rewriting' = rewriting /\ asks' = asks
  BY DEF DeleteBackward
<1>3. /\ r.from = head - 1 /\ r.to = head
      /\ r.from \in Nat /\ r.to \in Nat /\ r.from <= r.to /\ r.to <= Len(doc)
  BY <1>1, DocIsText DEF Span
<1> HIDE DEF r
<1>4. text \in Seq(Token) /\ head - 1 \in 0..Len(text)
  <2>1. <<>> \in Seq(Token) /\ Len(<<>>) = 0
    OBVIOUS
  <2>2. text \in Seq(Token) /\ Len(text) = r.from + Len(<<>>) + (Len(doc) - r.to)
    BY <1>3, <2>1, DocIsText, Replaced
  <2> HIDE DEF text
  <2> QED
    BY <1>3, <2>1, <2>2, DocIsText
<1> HIDE DEF text
<1>5. head' \in 0..Len(text) /\ anchor' \in 0..Len(text) /\ current' = FindStatementAt(ranges, head')
  BY <1>1, <1>4 DEF SelectionSet
<1>6. effectDue' \in BOOLEAN /\ rewriting' \in BOOLEAN /\ \A k \in asks' : AskOK(k)
  BY <1>2 DEF BInv, BufferTypeOK
<1> QED
  BY <1>1, <1>2, <1>4, <1>5, <1>6, DocStep

\* Moving the cursor looks the statement up.
LEMMA MoveKeeps ==
    ASSUME BInv, NEW h \in 0..Len(doc), NEW a \in 0..Len(doc), MoveCursor(h, a)
    PROVE  BInv'
<1>1. /\ head' = h /\ anchor' = a /\ current' = FindStatementAt(ranges, h)
      /\ UNCHANGED <<content, active, doc, ranges, timer, parses, rendered, effectDue, parser, schema, rewriting, asks>>
  BY DEF MoveCursor, SelectionSet
<1>2. current'.from \in Nat /\ current'.to \in Nat
  <2>1. RangeList(ranges) /\ h \in Int
    BY DocIsText DEF BInv, ViewOK
  <2> QED
    BY <1>1, <2>1, Found
<1>3. BufferTypeOK'
  BY <1>1 DEF BInv, BufferTypeOK
<1>4. ViewOK'
  BY <1>1, <1>2 DEF BInv, ViewOK
<1>5. CacheOK'
  BY <1>1 DEF BInv, CacheOK
<1> QED
  BY <1>1, <1>3, <1>4, <1>5 DEF BInv

\* A parse begins: the last one under way is of the document.
LEMMA TimerKeeps ==
    ASSUME BInv, ParseTimer
    PROVE  BInv'
<1> DEFINE p == [text |-> doc, mount |-> FALSE]
<1>1. /\ timer' = FALSE /\ parses' = Append(parses, p)
      /\ UNCHANGED <<content, active, doc, head, anchor, ranges, current, rendered, effectDue, parser, schema, rewriting, asks>>
  BY DEF ParseTimer
<1>2. p \in [text : Seq(Token), mount : BOOLEAN] /\ p.text = doc
  BY DocIsText
<1> HIDE DEF p
<1>3. /\ parses' \in Seq([text : Seq(Token), mount : BOOLEAN]) /\ parses' # <<>>
      /\ parses'[Len(parses')] = p
  <2>1. parses \in Seq([text : Seq(Token), mount : BOOLEAN])
    BY DEF BInv, ViewOK
  <2> QED
    BY <1>1, <1>2, <2>1, AppendProperties
<1>4. BufferTypeOK'
  BY <1>1 DEF BInv, BufferTypeOK
<1>5. ViewOK'
  BY <1>1, <1>3 DEF BInv, ViewOK
<1>6. CacheOK'
  BY <1>1, <1>2, <1>3 DEF CacheOK
<1> QED
  BY <1>1, <1>4, <1>5, <1>6 DEF BInv

\* A parse ends: when it was the last one, and none is due, it was of the document.  One that
\* overtakes others is of a blank text, and so not the last one of a document that is not.
LEMMA ParsedKeeps ==
    ASSUME BInv, NEW i \in 1..Len(parses), ParseDone(i)
    PROVE  BInv'
<1> DEFINE P == [text : Seq(Token), mount : BOOLEAN]
           n == Len(parses)
           p == parses[i]
           rs == GetEditorInfo(p.text, parser)
<1>1. /\ parses' = [j \in 1 .. n - 1 |-> parses[IF j < i THEN j ELSE j + 1]]
      /\ UNCHANGED <<content, active, doc, head, anchor, timer, rendered, effectDue, parser, schema, rewriting, asks>>
      /\ IF parser = "loading" THEN p.text = <<>> ELSE i = 1
  BY DEF ParseDone, Ends
<1>2. IF p.mount \/ p.text = doc
      THEN ranges' = rs /\ current' = FindStatementAt(rs, head)
      ELSE ranges' = ranges /\ current' = current
  BY DEF ParseDone
<1>3. parses \in Seq(P) /\ n \in Nat /\ i \in 1..n /\ \A j \in 1..n : parses[j] \in P
  <2>1. parses \in Seq(P)
    BY DEF BInv, ViewOK
  <2> QED
    BY <2>1, LenProperties
<1>4. p \in P
  BY <1>3
<1> HIDE DEF n, p
<1>5. parses' \in Seq(P) /\ Len(parses') = n - 1 /\ DOMAIN parses' = 1 .. n - 1
  <2>1. \A j \in 1 .. n - 1 : (IF j < i THEN j ELSE j + 1) \in 1..n
    BY <1>3
  <2>2. \A j \in 1 .. n - 1 : parses[IF j < i THEN j ELSE j + 1] \in P
    BY <1>3, <2>1
  <2> QED
    BY <1>1, <1>3, <2>2
<1>6. RangeList(rs) /\ head \in Int /\ p.text \in Seq(Token)
  BY <1>4, InfoIsList, DocIsText
<1>7. /\ RangeList(ranges)' /\ current'.from \in Nat /\ current'.to \in Nat
  <2>1. CASE p.mount \/ p.text = doc
    <3>1. ranges' = rs /\ current' = FindStatementAt(rs, head)
      BY <1>2, <2>1
    <3> HIDE DEF rs
    <3> QED
      BY <1>6, <3>1, Found DEF RangeList
  <2>2. CASE ~(p.mount \/ p.text = doc)
    <3>1. ranges' = ranges /\ current' = current
      BY <1>2, <2>2
    <3> QED
      BY <3>1 DEF BInv, ViewOK, RangeList
  <2> QED
    BY <2>1, <2>2
<1>8. BufferTypeOK'
  BY <1>1 DEF BInv, BufferTypeOK
<1>9. ViewOK'
  BY <1>1, <1>5, <1>7 DEF BInv, ViewOK
<1>10. CacheOK'
  <2> SUFFICES ASSUME ~timer, doc # <<>>
               PROVE  IF parses' = <<>>
                      THEN /\ parser # "loading"
                           /\ ranges' = GetEditorInfo(doc, parser) /\ current' = FindStatementAt(ranges', head)
                      ELSE parses'[Len(parses')].text = doc
    BY <1>1 DEF CacheOK
  <2>1. parses[n].text = doc
    <3>1. parses # <<>>
      BY <1>3 DEF n
    <3> QED
      BY <3>1 DEF BInv, CacheOK, n
  <2>2. CASE i = n
    <3>1. p.text = doc /\ parser # "loading" /\ i = 1
      BY <1>1, <2>1, <2>2 DEF p
    <3>2. parses' = <<>>
      BY <1>3, <1>5, <2>2, <3>1
    <3> QED
      BY <1>2, <3>1, <3>2
  <2>3. CASE i # n
    <3>1. n - 1 \in 1 .. n - 1 /\ ~(n - 1 < i) /\ (n - 1) + 1 = n
      BY <1>3, <2>3
    <3>2. parses'[n - 1] = parses[n]
      BY <1>1, <3>1
    <3>3. parses' # <<>>
      BY <1>5, <3>1
    <3> QED
      BY <1>5, <2>1, <3>2, <3>3
  <2> QED
    BY <2>2, <2>3
<1> QED
  BY <1>1, <1>8, <1>9, <1>10 DEF BInv

\* The module comes, or does not: a document that waited for it is being parsed.
LEMMA ModuleKeeps ==
    ASSUME BInv, LoadModule
    PROVE  BInv'
<1>1. /\ parser = "loading" /\ parser' \in {"ready", "failed"}
      /\ UNCHANGED <<content, active, doc, head, anchor, ranges, current, timer, parses, rendered, effectDue,
                     schema, rewriting, asks>>
  BY DEF LoadModule, view
<1>2. BufferTypeOK' /\ ViewOK'
  BY <1>1 DEF BInv, BufferTypeOK, ViewOK, RangeList
<1>3. CacheOK'
  BY <1>1 DEF BInv, CacheOK
<1> QED
  BY <1>1, <1>2, <1>3 DEF BInv

\* Marks, renders, schemas and runs touch neither texts nor the cache.
LEMMA QuietKeeps ==
    ASSUME BInv, Lint \/ Render \/ RunKey \/ RunButton \/ \E s \in Schemas : SelectSchema(s)
    PROVE  BInv'
<1>1. UNCHANGED <<content, active, doc, head, anchor, ranges, current, timer, parses, parser, rewriting, asks>>
  BY DEF Lint, Render, RunKey, RunButton, Execute, SelectSchema, view, counters
<1>2. rendered' = rendered \/ rendered' = content[active]
  BY DEF Lint, Render, RunKey, RunButton, Execute, SelectSchema, view, counters
<1>3. effectDue' = effectDue \/ effectDue' = TRUE
  BY DEF Lint, Render, RunKey, RunButton, Execute, SelectSchema, view, counters
<1>4. schema' = schema \/ schema' \in Schemas
  BY DEF Lint, Render, RunKey, RunButton, Execute, SelectSchema, view, counters
<1>5. rendered' \in Seq(Token) /\ effectDue' \in BOOLEAN /\ schema' \in Schemas /\ rewriting' \in BOOLEAN
  BY <1>1, <1>2, <1>3, <1>4, DocIsText DEF BInv, ViewOK, BufferTypeOK
<1>6. \A k \in asks' : AskOK(k)
  BY <1>1 DEF BInv
<1> QED
  BY <1>1, <1>5, <1>6, FrameKeeps

\* The effect of a render.
LEMMA EffectKeeps ==
    ASSUME BInv, ValueEffect
    PROVE  BInv'
<1>1. /\ effectDue' = FALSE
      /\ UNCHANGED <<active, ranges, current, parses, rendered, parser, schema, rewriting, asks>>
  BY DEF ValueEffect
<1>2. effectDue' \in BOOLEAN /\ rewriting' \in BOOLEAN /\ rendered' \in Seq(Token) /\ schema' \in Schemas
  BY <1>1 DEF BInv, BufferTypeOK, ViewOK
<1>3. \A k \in asks' : AskOK(k)
  BY <1>1 DEF BInv
<1>4. CASE doc = rendered
  <2>1. UNCHANGED <<doc, content, timer, head, anchor>>
    BY <1>4 DEF ValueEffect
  <2> QED
    BY <1>1, <1>2, <1>3, <2>1, FrameKeeps
<1>5. CASE doc # rendered
  <2>1. /\ DocChanged(rendered)
        /\ head' = (IF head = 0 THEN 0 ELSE Len(rendered)) /\ anchor' = head'
    BY <1>5 DEF ValueEffect
  <2>2. rendered \in Seq(Token) /\ Len(rendered) \in Nat
    BY LenProperties DEF BInv, ViewOK
  <2>3. head' \in 0..Len(rendered) /\ anchor' \in 0..Len(rendered)
    BY <2>1, <2>2
  <2> QED
    BY <1>1, <1>2, <1>3, <2>1, <2>2, <2>3, DocStep
<1> QED
  BY <1>4, <1>5

\* A view is mounted: the text of its tab is parsed at once.
LEMMA MountKeeps ==
    ASSUME BInv, NEW t \in Tabs, SelectTab(t)
    PROVE  BInv'
<1> DEFINE p == [text |-> content[t], mount |-> TRUE]
<1>1. /\ active' = t /\ doc' = content[t] /\ head' = 0 /\ anchor' = 0 /\ ranges' = <<>> /\ current' = None
      /\ timer' = FALSE /\ parses' = <<p>> /\ rendered' = content[t] /\ effectDue' = FALSE
      /\ UNCHANGED <<content, parser, schema, rewriting, asks>>
  BY DEF SelectTab, Mount
<1>2. content[t] \in Seq(Token) /\ Len(content[t]) \in Nat
  <2>1. content[t] \in Seq(Token)
    BY DEF BInv, BufferTypeOK
  <2> QED
    BY <2>1, LenProperties
<1>3. p \in [text : Seq(Token), mount : BOOLEAN] /\ p.text = content[t]
  BY <1>2
<1> HIDE DEF p
<1>4. parses' \in Seq([text : Seq(Token), mount : BOOLEAN]) /\ Len(parses') = 1 /\ parses'[1] = p
  BY <1>1, <1>3
<1>5. BufferTypeOK'
  <2>1. 0 \in 0..Len(doc')
    BY <1>1, <1>2
  <2> QED
    BY <1>1, <2>1 DEF BInv, BufferTypeOK
<1>6. ViewOK'
  BY <1>1, <1>2, <1>4 DEF ViewOK, RangeList, None
<1>7. CacheOK'
  BY <1>1, <1>3, <1>4 DEF CacheOK
<1> QED
  BY <1>1, <1>5, <1>6, <1>7 DEF BInv

\* A request remembers a range of the document and a text; when nothing was due or under way
\* and nothing was selected, the text is that of the range.
LEMMA AskKeeps ==
    ASSUME BInv, NEW kind, NEW r, NEW sql, Ask(kind, r, sql),
           r.from \in Nat, r.to \in Nat, r.from <= r.to, sql \in Seq(Token),
           (~timer /\ parses = <<>> /\ head = anchor) => SliceDoc(doc, r) = sql,
           UNCHANGED <<content, active, view, parser, schema>>, rewriting' \in BOOLEAN
    PROVE  BInv'
<1> DEFINE k == [kind |-> kind, id |-> asked, range |-> r, sql |-> sql,
                 doc |-> doc, quiet |-> ~timer /\ parses = <<>> /\ head = anchor]
<1>1. asks' = asks \cup {k}
  BY DEF Ask
<1>2. /\ k.range = r /\ k.sql = sql /\ k.doc = doc /\ k.quiet = (~timer /\ parses = <<>> /\ head = anchor)
  OBVIOUS
<1> HIDE DEF k
<1>3. AskOK(k)
  BY <1>2 DEF AskOK
<1>4. \A j \in asks' : AskOK(j)
  BY <1>1, <1>3 DEF BInv
<1>5. /\ UNCHANGED <<content, active, doc, head, anchor, ranges, current, timer, parses, parser>>
      /\ rendered' \in Seq(Token) /\ effectDue' \in BOOLEAN /\ schema' \in Schemas
  BY DEF view, BInv, ViewOK, BufferTypeOK
<1> QED
  BY <1>4, <1>5, FrameKeeps

\* Format sends what it will replace.
LEMMA FormatKeeps ==
    ASSUME BInv, HandleFormat
    PROVE  BInv'
<1> DEFINE r == IF head = anchor THEN Span(0, Len(doc)) ELSE Selection
<1>1. Ask("format", r, SliceDoc(doc, r)) /\ UNCHANGED <<content, active, view, parser, schema>> /\ rewriting' = rewriting
  BY DEF HandleFormat
<1>2. r.from \in Nat /\ r.to \in Nat /\ r.from <= r.to
  BY DocIsText DEF Span
<1> HIDE DEF r
<1>3. SliceDoc(doc, r) \in Seq(Token)
  BY <1>2, DocIsText, Sliced
<1>4. rewriting' \in BOOLEAN
  BY <1>1 DEF BInv, BufferTypeOK
<1> QED
  BY <1>1, <1>2, <1>3, <1>4, AskKeeps

\* Rewrite takes the range from a parse of its own and the text from the cache: when nothing
\* is due or under way the cache is that of the document.
LEMMA RewriteKeeps ==
    ASSUME BInv, HandleRewrite
    PROVE  BInv'
<1> DEFINE r == GetActiveStatementRange(doc, head)
<1>1. /\ ~r.none /\ Ask("rewrite", r, GetSqlToExecute)
      /\ rewriting' = TRUE /\ UNCHANGED <<content, active, view, parser, schema>>
  BY DEF HandleRewrite
<1>2. r = FindStatementAt(GetEditorInfo(doc, parser), head) /\ RangeList(GetEditorInfo(doc, parser)) /\ head \in Int
  BY DocIsText, InfoIsList DEF GetActiveStatementRange
<1> HIDE DEF r
<1>3. r.from \in Nat /\ r.to \in Nat /\ r.from <= r.to
  BY <1>1, <1>2, Found
<1>4. ASSUME ~timer, parses = <<>>, head = anchor PROVE SliceDoc(doc, r) = GetSqlToExecute
  <2>1. current = r
    <3>1. PICK k \in DOMAIN GetEditorInfo(doc, parser) : TRUE
      BY <1>1, <1>2, Found
    <3>2. k \in Starts(doc) \/ k \in DOMAIN <<>>
      BY <3>1 DEF GetEditorInfo, GetStatementBoundaries
    <3>3. doc # <<>>
      BY <3>2 DEF Starts
    <3> QED
      BY <1>2, <1>4, <3>3 DEF BInv, CacheOK
  <2>2. Selected = <<>>
    <3>1. Selection.from = head /\ Selection.to = head
      BY <1>4, DocIsText DEF Selection, Span, Least, Most
    <3>2. Selected = SubSeq(doc, head + 1, head)
      BY <3>1, DocIsText DEF Selected, SliceDoc, Least
    <3> QED
      BY <3>2, DocIsText, SubSeqEmpty
  <2> QED
    BY <1>1, <2>1, <2>2 DEF GetSqlToExecute
<1>5. GetSqlToExecute \in Seq(Token)
  BY SqlIsText
<1>6. (~timer /\ parses = <<>> /\ head = anchor) => SliceDoc(doc, r) = GetSqlToExecute
  BY <1>4
<1>7. rewriting' \in BOOLEAN
  BY <1>1
<1> QED
  BY <1>1, <1>3, <1>5, <1>6, <1>7, AskKeeps

\* A Rewrite that waits for the module was not pressed in a quiet editor.
LEMMA WaitingKeeps ==
    ASSUME BInv, RewriteWaits
    PROVE  BInv'
<1> DEFINE r == Span(head, head)
<1>1. /\ Ask("seek", r, doc) /\ doc # <<>> /\ parser = "loading"
      /\ UNCHANGED <<content, active, view, parser, schema>> /\ rewriting' = rewriting
  BY DEF RewriteWaits, Ask
<1>2. r.from \in Nat /\ r.to \in Nat /\ r.from <= r.to /\ doc \in Seq(Token)
  BY DocIsText DEF Span
<1> HIDE DEF r
<1>3. ~(~timer /\ parses = <<>>)
  BY <1>1 DEF BInv, CacheOK
<1>4. rewriting' \in BOOLEAN
  BY <1>1 DEF BInv, BufferTypeOK
<1> QED
  BY <1>1, <1>2, <1>3, <1>4, AskKeeps

\* It goes on with a range of the text of then.
LEMMA GoingOnKeeps ==
    ASSUME BInv, NEW k \in asks, RewriteGoesOn(k)
    PROVE  BInv'
<1> DEFINE r == GetActiveStatementRange(k.sql, k.range.from)
           j == [kind |-> "rewrite", id |-> k.id, range |-> r, sql |-> GetSqlToExecute,
                 doc |-> doc, quiet |-> FALSE]
<1>1. /\ k.kind = "seek" /\ UNCHANGED <<content, active, view, parser, schema>>
      /\ \/ asks' = asks \ {k} /\ rewriting' = rewriting
         \/ ~r.none /\ asks' = (asks \ {k}) \cup {j} /\ rewriting' = TRUE
  BY DEF RewriteGoesOn
<1>2. AskOK(k)
  BY DEF BInv
<1>3. r = FindStatementAt(GetEditorInfo(k.sql, parser), k.range.from)
      /\ RangeList(GetEditorInfo(k.sql, parser)) /\ k.range.from \in Int
  BY <1>2, InfoIsList DEF GetActiveStatementRange, AskOK
<1> HIDE DEF r
<1>4. ~r.none => r.from \in Nat /\ r.to \in Nat /\ r.from <= r.to
  BY <1>3, Found
<1>5. j.range = r /\ j.sql = GetSqlToExecute /\ j.quiet = FALSE
  OBVIOUS
<1> HIDE DEF j
<1>7. ~r.none => AskOK(j)
  BY <1>4, <1>5, SqlIsText DEF AskOK
<1>8. \A a \in asks' : AskOK(a)
  BY <1>1, <1>7 DEF BInv
<1>9. /\ UNCHANGED <<content, active, doc, head, anchor, ranges, current, timer, parses, parser>>
      /\ rendered' \in Seq(Token) /\ effectDue' \in BOOLEAN /\ schema' \in Schemas /\ rewriting' \in BOOLEAN
  BY <1>1 DEF view, BInv, ViewOK, BufferTypeOK
<1> QED
  BY <1>8, <1>9, FrameKeeps

\* Fix sends what it will replace.
LEMMA FixKeeps ==
    ASSUME BInv, NEW pos \in Diagnostics(linted), HandleFix(pos)
    PROVE  BInv'
<1> DEFINE rs == GetEditorInfo(doc, parser)
           f == FindStatementAt(rs, pos)
           r == IF f.none THEN Span(0, Len(doc)) ELSE f
           sql == IF f.none THEN doc ELSE SliceDoc(doc, f)
<1>1. Ask("fix", r, sql) /\ UNCHANGED <<content, active, view, parser, schema>> /\ rewriting' = TRUE
  BY DEF HandleFix
<1>2. pos \in Int
  BY DEF Diagnostics, MarkedPositions
<1>3. RangeList(rs)
  BY DocIsText, InfoIsList
<1> HIDE DEF rs
<1>4. f.from \in Nat /\ f.to \in Nat /\ f.none \in BOOLEAN /\ (~f.none => f.from <= pos /\ pos <= f.to)
  BY <1>2, <1>3, Found
<1> HIDE DEF f
<1>5. r.from \in Nat /\ r.to \in Nat /\ r.from <= r.to
  BY <1>2, <1>4, DocIsText DEF Span
<1>6. sql \in Seq(Token)
  BY <1>4, DocIsText, Sliced
<1>7. SliceDoc(doc, r) = sql
  BY DocIsText, WholeSlice
<1> HIDE DEF r, sql
<1>8. rewriting' \in BOOLEAN
  BY <1>1
<1> QED
  BY <1>1, <1>5, <1>6, <1>7, <1>8, AskKeeps

\* The cursor stays in the text when a part of it is replaced.
LEMMA MappedPosition ==
    ASSUME NEW n \in Nat, NEW pos \in 0..n, NEW r, r.from \in Nat, r.to \in Nat, r.from <= r.to, r.to <= n,
           NEW insert \in Seq(Token), NEW m, m = r.from + Len(insert) + (n - r.to)
    PROVE  MapPosition(pos, r, insert) \in 0..m
<1>1. Len(insert) \in Nat
  BY LenProperties
<1> QED
  BY <1>1 DEF MapPosition

\* An answer replaces a part of the document that is mounted now.
LEMMA AnswerKeeps ==
    ASSUME BInv, NEW k \in asks, NEW reply \in {<<"R">>, <<"P">>, k.sql}, Answer(k, reply)
    PROVE  BInv'
<1>1. /\ asks' = asks \ {k} /\ rewriting' = (rewriting /\ k.kind = "format")
      /\ UNCHANGED <<active, ranges, current, parses, rendered, effectDue, parser, schema>>
  BY DEF Answer
<1>2. AskOK(k) /\ \A j \in asks' : AskOK(j)
  BY <1>1 DEF BInv
<1>3. rewriting' \in BOOLEAN
  BY <1>1
<1>4. effectDue' \in BOOLEAN /\ rendered' \in Seq(Token) /\ schema' \in Schemas
  BY <1>1 DEF BInv, BufferTypeOK, ViewOK
<1>5. CASE k.range.to > Len(doc)
  <2>1. UNCHANGED <<doc, content, timer, head, anchor>>
    BY <1>5 DEF Answer
  <2> QED
    BY <1>1, <1>2, <1>3, <1>4, <2>1, FrameKeeps
<1>6. CASE ~(k.range.to > Len(doc))
  <2> DEFINE text == FormatSql(reply)
             new == Spliced(doc, k.range, text)
  <2>1. /\ DocChanged(new)
        /\ head' = MapPosition(head, k.range, text)
        /\ anchor' = MapPosition(anchor, k.range, text)
    BY <1>6 DEF Answer
  <2>2. /\ k.range.from \in Nat /\ k.range.to \in Nat /\ k.range.from <= k.range.to /\ k.range.to <= Len(doc)
    BY <1>2, <1>6, DocIsText DEF AskOK
  <2>3. text \in Seq(Token)
    <3>1. <<"R">> \in Seq(Token) /\ <<"P">> \in Seq(Token)
      BY DEF Token, Heads
    <3>2. reply \in Seq(Token)
      BY <1>2, <3>1 DEF AskOK
    <3> QED
      BY <3>2, Formatted
  <2> HIDE DEF text
  <2>4. /\ new \in Seq(Token)
        /\ Len(new) = k.range.from + Len(text) + (Len(doc) - k.range.to)
    BY <2>2, <2>3, DocIsText, Replaced
  <2> HIDE DEF new
  <2>5. head' \in 0..Len(new) /\ anchor' \in 0..Len(new)
    BY <2>1, <2>2, <2>3, <2>4, DocIsText, MappedPosition
  <2> QED
    BY <1>1, <1>2, <1>3, <1>4, <2>1, <2>4, <2>5, DocStep
<1> QED
  BY <1>5, <1>6

\* A failed request is forgotten.
LEMMA FailureKeeps ==
    ASSUME BInv, NEW k \in asks, AnswerFails(k)
    PROVE  BInv'
<1>1. asks' = asks \ {k} /\ rewriting' = FALSE /\ UNCHANGED <<content, active, view, parser, schema>>
  BY DEF AnswerFails
<1>2. /\ UNCHANGED <<content, active, doc, head, anchor, ranges, current, timer, parses, parser>>
      /\ rendered' \in Seq(Token) /\ effectDue' \in BOOLEAN /\ schema' \in Schemas
  BY <1>1 DEF view, BInv, ViewOK, BufferTypeOK
<1>3. rewriting' \in BOOLEAN /\ \A j \in asks' : AskOK(j)
  BY <1>1 DEF BInv
<1> QED
  BY <1>2, <1>3, FrameKeeps

\* Every step keeps it.
LEMMA StepKeeps == BInv /\ [BufferNext]_bufferVars => BInv'
<1> SUFFICES ASSUME BInv, [BufferNext]_bufferVars PROVE BInv'
  OBVIOUS
<1>1. CASE \E tok \in Typed : InsertAtCursor(<<tok>>)
  BY <1>1, InsertKeeps
<1>2. CASE DeleteBackward
  BY <1>2, DeleteKeeps
<1>3. CASE \E h \in 0 .. Len(doc) : MoveCursor(h, h) \/ MoveCursor(h, anchor)
  <2>1. PICK h \in 0 .. Len(doc) : MoveCursor(h, h) \/ MoveCursor(h, anchor)
    BY <1>3
  <2>2. anchor \in 0 .. Len(doc)
    BY DocIsText
  <2>3. CASE MoveCursor(h, h)
    BY <2>3, MoveKeeps
  <2>4. CASE MoveCursor(h, anchor)
    BY <2>2, <2>4, MoveKeeps
  <2> QED
    BY <2>1, <2>3, <2>4
<1>4. CASE ParseTimer
  BY <1>4, TimerKeeps
<1>5. CASE \E i \in 1..Len(parses) : ParseDone(i)
  BY <1>5, ParsedKeeps
<1>6. CASE Lint \/ Render \/ RunKey \/ RunButton \/ \E s \in Schemas : SelectSchema(s)
  BY <1>6, QuietKeeps
<1>7. CASE ValueEffect
  BY <1>7, EffectKeeps
<1>8. CASE \E t \in Tabs : SelectTab(t)
  BY <1>8, MountKeeps
<1>9. CASE HandleFormat
  BY <1>9, FormatKeeps
<1>10. CASE HandleRewrite
  BY <1>10, RewriteKeeps
<1>11. CASE \E pos \in Diagnostics(linted) : HandleFix(pos)
  BY <1>11, FixKeeps
<1>12. CASE \E k \in asks : AnswerFails(k) \/ \E reply \in {<<"R">>, <<"P">>, k.sql} : Answer(k, reply)
  BY <1>12, AnswerKeeps, FailureKeeps
<1>14. CASE LoadModule
  BY <1>14, ModuleKeeps
<1>15. CASE RewriteWaits
  BY <1>15, WaitingKeeps
<1>16. CASE \E k \in asks : RewriteGoesOn(k)
  BY <1>16, GoingOnKeeps
<1>13. CASE UNCHANGED bufferVars
  <2>1. UNCHANGED <<content, active, doc, head, anchor, ranges, current, timer, parses, parser>>
    BY <1>13 DEF bufferVars, view
  <2>2. rendered' = rendered /\ effectDue' = effectDue /\ schema' = schema /\ rewriting' = rewriting /\ asks' = asks
    BY <1>13 DEF bufferVars, view
  <2>3. rendered' \in Seq(Token) /\ effectDue' \in BOOLEAN /\ schema' \in Schemas /\ rewriting' \in BOOLEAN
        /\ \A k \in asks' : AskOK(k)
    BY <2>2 DEF BInv, BufferTypeOK, ViewOK
  <2> QED
    BY <2>1, <2>3, FrameKeeps
<1> QED
  BY <1>1, <1>2, <1>3, <1>4, <1>5, <1>6, <1>7, <1>8, <1>9, <1>10, <1>11, <1>12, <1>13, <1>14, <1>15, <1>16 DEF BufferNext, Background

\* It holds always.
LEMMA AlwaysBInv == BufferSpec => []BInv
<1> QED
  BY InvAtFirst, StepKeeps, PTL DEF BufferSpec

--------------------------------------------------------------------------------
(* What follows from it. *)

\* Types, and the cache: whatever edits, parses that end late or overtake others while the
\* module loads, mounts, renders and answers come in between, once no parse is due or under
\* way the cached ranges are those of the document, unless that is blank, and the cached
\* statement is the one around the cursor.
THEOREM CacheIsCurrent == BufferSpec => []BufferInv
<1>1. BInv => BufferInv
  BY DEF BInv, CacheOK, BufferInv, QuietCacheIsCurrent
<1> QED
  BY <1>1, AlwaysBInv, PTL

\* Every change of the document reaches the tab it belongs to.
THEOREM DocumentIsSaved == BufferSpec => []DocIsSaved
<1>1. BInv => DocIsSaved
  BY DEF BInv, ViewOK, DocIsSaved
<1> QED
  BY <1>1, AlwaysBInv, PTL

\* An answer to a request made in a quiet editor replaces exactly what was sent, if the
\* document is still the same.
THEOREM AnswerFits == BufferSpec => []UndisturbedAnswerFits
<1>1. BInv => UndisturbedAnswerFits
  BY DEF BInv, AskOK, UndisturbedAnswerFits
<1> QED
  BY <1>1, AlwaysBInv, PTL

--------------------------------------------------------------------------------
(* What is run. *)

\* In a text of one byte per character the parser's locations are positions.
LEMMA LocationIsPosition ==
    ASSUME NEW text \in Seq(Token), Bytes(text) = Len(text), NEW i \in DOMAIN text
    PROVE  Location(text, i) = i - 1
<1> DEFINE part == SubSeq(text, 1, i - 1)
           wide == {j \in DOMAIN text : text[j] = "U"}
<1>1. Len(text) \in Nat /\ DOMAIN text = 1..Len(text) /\ i \in 1..Len(text)
  BY LenProperties
<1>2. wide = {}
  <2>1. wide \in SUBSET (1..Len(text))
    BY <1>1
  <2>2. IsFiniteSet(wide) /\ Cardinality(wide) \in Nat
    BY <1>1, <2>1, Positions
  <2>3. Bytes(text) = Len(text) + Cardinality(wide)
    BY DEF Bytes
  <2> HIDE DEF wide
  <2>4. Cardinality(wide) = 0
    BY <1>1, <2>2, <2>3
  <2> QED
    BY <2>2, <2>4, FS_EmptySet
<1>3. \A j \in 1 .. i - 1 : text[j] \in Token /\ text[j] # "U"
  <2>1. \A j \in 1..Len(text) : text[j] \in Token
    BY LenProperties
  <2>2. \A j \in 1..Len(text) : text[j] # "U"
    BY <1>1, <1>2
  <2>3. \A j \in 1 .. i - 1 : j \in 1..Len(text)
    BY <1>1
  <2> QED
    BY <2>1, <2>2, <2>3
<1>4. i - 1 \in Int /\ 1 \in Int
  BY <1>1
<1>5. /\ part \in Seq(Token) /\ Len(part) = (IF 1 <= i - 1 THEN i - 1 - 1 + 1 ELSE 0)
      /\ \A j \in 1 .. i - 1 - 1 + 1 : part[j] = text[1 + j - 1]
  BY <1>3, <1>4, SubSeqProperties
<1> HIDE DEF part
<1>6. Len(part) = i - 1 /\ DOMAIN part = 1 .. i - 1
  BY <1>1, <1>5, LenProperties
<1>7. \A j \in DOMAIN part : part[j] # "U"
  <2>1. \A j \in 1 .. i - 1 : j \in 1 .. i - 1 - 1 + 1 /\ 1 + j - 1 = j
    BY <1>1
  <2> QED
    BY <1>3, <1>5, <1>6, <2>1
<1>8. {j \in DOMAIN part : part[j] = "U"} = {}
  BY <1>7
<1>9. Cardinality({j \in DOMAIN part : part[j] = "U"}) = 0
  BY <1>8, FS_EmptySet
<1>10. Bytes(part) = i - 1
  <2>1. Bytes(part) = Len(part) + Cardinality({j \in DOMAIN part : part[j] = "U"})
    BY DEF Bytes
  <2> QED
    BY <1>4, <1>6, <1>9, <2>1
<1> QED
  BY <1>10 DEF Location, part

\* A statement as it is cut out of a text that parses: it begins with its head, holds no other
\* and parses by itself.
LEMMA CutStatement ==
    ASSUME NEW text \in Seq(Token), Parses(text), Bytes(text) = Len(text), NEW k \in Starts(text)
    PROVE  LET part == SliceDoc(text, GetStatementBoundaries(text)[k])
           IN  /\ part \in Seq(Token) /\ Len(part) \in Nat \ {0}
               /\ Parses(part) /\ Starts(part) = {1}
<1> DEFINE r == GetStatementBoundaries(text)[k]
           part == SliceDoc(text, r)
           last == r.to
<1>1. Len(text) \in Nat /\ DOMAIN text = 1..Len(text) /\ k \in 1..Len(text) /\ \A i \in 1..Len(text) : text[i] \in Token
  BY LenProperties DEF Starts
<1>2. r.from = k - 1
  <2>1. r.from = Location(text, k)
    BY DEF GetStatementBoundaries, Span
  <2> QED
    BY <1>1, <2>1, LocationIsPosition
<1>3. last \in k..Len(text) /\ \A i \in Starts(text) : ~(k < i /\ i <= last)
  <2>1. CASE Following(text, k) = {}
    <3>1. last = Len(text)
      BY <2>1 DEF GetStatementBoundaries, Span
    <3> QED
      BY <1>1, <2>1, <3>1 DEF Following
  <2>2. CASE Following(text, k) # {}
    <3> DEFINE next == Minimum(Following(text, k))
    <3>1. Following(text, k) \subseteq 1..Len(text) /\ Following(text, k) \subseteq Nat
      BY <1>1 DEF Following, Starts
    <3>2. next \in Following(text, k) /\ \A i \in Following(text, k) : next <= i
      BY <2>2, <3>1, LeastOf
    <3>3. last = Location(text, next)
      BY <2>2 DEF GetStatementBoundaries, Span
    <3> HIDE DEF next
    <3>4. next \in DOMAIN text /\ next > k
      BY <1>1, <3>1, <3>2 DEF Following
    <3>5. last = next - 1
      BY <3>3, <3>4, LocationIsPosition
    <3>6. \A i \in Starts(text) : k < i => next <= i /\ i \in Int
      BY <1>1, <3>2 DEF Following, Starts
    <3> HIDE DEF last
    <3> QED
      BY <1>1, <3>4, <3>5, <3>6
  <2> QED
    BY <2>1, <2>2
<1> HIDE DEF r
<1>4. part = SubSeq(text, k, last)
  BY <1>1, <1>2, <1>3 DEF SliceDoc, Least
<1> HIDE DEF part, last
<1>5. /\ part \in Seq(Token) /\ Len(part) = last - k + 1
      /\ \A i \in 1 .. last - k + 1 : part[i] = text[k + i - 1]
  <2>1. \A i \in k..last : text[i] \in Token
    BY <1>1, <1>3
  <2>2. k \in Int /\ last \in Int /\ k <= last
    BY <1>1, <1>3
  <2>3. Len(part) = IF k <= last THEN last - k + 1 ELSE 0
    BY <1>4, <2>1, <2>2, SubSeqProperties
  <2> QED
    BY <1>4, <2>1, <2>2, <2>3, SubSeqProperties
<1>6. DOMAIN part = 1 .. last - k + 1 /\ Len(part) \in Nat \ {0}
  BY <1>1, <1>3, <1>5, LenProperties
<1>7. \A i \in DOMAIN part : /\ k + i - 1 \in DOMAIN text /\ k + i - 1 <= last /\ part[i] = text[k + i - 1]
                             /\ i \in Nat /\ i >= 1
  BY <1>1, <1>3, <1>5, <1>6
<1>8. Starts(part) = {1}
  <2>1. 1 \in DOMAIN part /\ k + 1 - 1 = k
    BY <1>1, <1>3, <1>6
  <2>2. part[1] \in Heads
    BY <1>7, <2>1 DEF Starts
  <2>3. ASSUME NEW i \in DOMAIN part, i # 1 PROVE part[i] \notin Heads
    <3>1. k + i - 1 > k
      BY <1>1, <1>7, <2>3
    <3>2. k + i - 1 \notin Starts(text)
      BY <1>3, <1>7, <3>1
    <3> QED
      BY <1>7, <3>2 DEF Starts
  <2> QED
    BY <2>1, <2>2, <2>3 DEF Starts
<1>9. Parses(part)
  <2>1. \A i \in Starts(part) : i = 1 \/ part[i - 1] = ";"
    BY <1>8
  <2>2. ASSUME NEW i \in DOMAIN part, part[i] = "W" PROVE i > 1 /\ part[i - 1] # ";"
    <3>1. i # 1
      BY <1>8, <2>2 DEF Starts, Heads
    <3>a. i \in Nat /\ i >= 1 /\ i <= last - k + 1 /\ k \in Int /\ last \in Int
      BY <1>1, <1>3, <1>6
    <3>2. i > 1 /\ i - 1 \in 1 .. last - k + 1 /\ k + (i - 1) - 1 = (k + i - 1) - 1
      BY <3>1, <3>a
    <3>3. text[k + i - 1] = "W" /\ k + i - 1 \in DOMAIN text
      BY <1>7, <2>2
    <3>4. text[(k + i - 1) - 1] # ";"
      BY <3>3 DEF Parses
    <3> QED
      BY <1>6, <1>7, <3>2, <3>4
  <2>3. \A i \in DOMAIN part : part[i] # "P"
    BY <1>7 DEF Parses
  <2> QED
    BY <2>1, <2>2, <2>3 DEF Parses
<1> QED
  BY <1>5, <1>6, <1>8, <1>9 DEF part, r

\* A text of one statement is that statement.
LEMMA OneStatement ==
    ASSUME NEW part \in Seq(Token), Len(part) \in Nat \ {0}, Parses(part), Starts(part) = {1}
    PROVE  SplitStatements(part, "ready") = <<part>>
<1> DEFINE rs == GetEditorInfo(part, "ready")
<1>1. DOMAIN rs = {1} /\ rs[1] = Span(0, Len(part))
  <2>1. rs = GetStatementBoundaries(part)
    BY DEF GetEditorInfo
  <2>2. Following(part, 1) = {}
    BY DEF Following
  <2>3. Location(part, 1) = 0
    <3>1. SubSeq(part, 1, 0) = <<>>
      BY SubSeqEmpty
    <3>2. {i \in DOMAIN <<>> : <<>>[i] = "U"} = {}
      OBVIOUS
    <3>3. Bytes(<<>>) = 0
      BY <3>2, FS_EmptySet DEF Bytes
    <3>4. Location(part, 1) = Bytes(SubSeq(part, 1, 1 - 1)) /\ 1 - 1 = 0
      BY DEF Location
    <3> QED
      BY <3>1, <3>3, <3>4
  <2> QED
    BY <2>1, <2>2, <2>3 DEF GetStatementBoundaries
<1> HIDE DEF rs
<1>2. SliceDoc(part, rs[1]) = part /\ part # <<>>
  BY <1>1, WholeSlice
<1>3. {j \in DOMAIN rs : SliceDoc(part, rs[j]) # <<>>} = {1}
  BY <1>1, <1>2
<1>4. SplitStatements(part, "ready") = [j \in {1} |-> SliceDoc(part, rs[j])]
  BY <1>1, <1>3 DEF SplitStatements, rs
<1> QED
  BY <1>2, <1>4

\* A run from a settled editor without a selection, in a text of one byte per character that
\* parses, sends the one statement around the cursor, whole and alone; or all of them, when
\* there is none around the cursor.
LEMMA RunIsExact ==
    ASSUME BInv, Settled, parser = "ready", head = anchor, Parses(doc), Bytes(doc) = Len(doc), RunKey \/ RunButton
    PROVE  LET rs == GetEditorInfo(doc, parser)
           IN  IF FindStatementAt(rs, head).none
               THEN sent'.statements = SplitStatements(doc, parser)
               ELSE \E k \in DOMAIN rs : /\ rs[k].from <= head /\ head <= rs[k].to
                                         /\ sent'.statements = <<SplitStatements(doc, parser)[k]>>
<1> DEFINE rs == GetEditorInfo(doc, parser)
           r == FindStatementAt(rs, head)
<1>1. sent'.statements = SplitStatements(GetSqlToExecute, parser)
  BY DEF RunKey, RunButton, Execute, Loaded
<1>2. current = r
  BY DEF Settled, BInv, CacheOK, RunKey, RunButton, Execute
<1>3. doc \in Seq(Token) /\ head \in Int
  BY DocIsText
<1>4. Selected = <<>>
  <2>1. Selection.from = head /\ Selection.to = head
    BY DocIsText DEF Selection, Span, Least, Most
  <2>2. Selected = SubSeq(doc, head + 1, head)
    BY <2>1, DocIsText DEF Selected, SliceDoc, Least
  <2> QED
    BY <2>2, DocIsText, SubSeqEmpty
<1>5. RangeList(rs)
  BY <1>3, InfoIsList
<1>6. rs = GetStatementBoundaries(doc) /\ DOMAIN rs = Starts(doc)
  BY DEF GetEditorInfo, GetStatementBoundaries
<1> HIDE DEF rs
<1>7. CASE r.none
  BY <1>1, <1>2, <1>4, <1>7 DEF GetSqlToExecute, rs
<1>8. CASE ~r.none
  <2>1. PICK k \in DOMAIN rs : r = rs[k]
    BY <1>3, <1>5, <1>8, Found
  <2>2. r.from <= head /\ head <= r.to
    BY <1>3, <1>5, <1>8, Found
  <2> DEFINE part == SliceDoc(doc, rs[k])
  <2>3. part \in Seq(Token) /\ Len(part) \in Nat \ {0} /\ Parses(part) /\ Starts(part) = {1}
    BY <1>3, <1>6, CutStatement
  <2>4. SplitStatements(doc, parser)[k] = part
    <3>1. part # <<>>
      BY <2>3
    <3> QED
      BY <3>1 DEF SplitStatements, rs
  <2>5. GetSqlToExecute = part
    BY <1>2, <1>4, <1>8, <2>1 DEF GetSqlToExecute
  <2> HIDE DEF part, r
  <2>6. SplitStatements(part, parser) = <<part>>
    BY <2>3, OneStatement
  <2>7. rs[k].from <= head /\ head <= rs[k].to /\ sent'.statements = <<SplitStatements(doc, parser)[k]>>
    BY <1>1, <2>1, <2>2, <2>4, <2>5, <2>6
  <2> QED
    BY <1>8, <2>7 DEF r, rs
<1> QED
  BY <1>7, <1>8

\* A settled editor never sends a statement without its condition, never two for one.
THEOREM RunsAreExact == BufferSpec => SettledRunIsExact
<1>1. BInv => (Settled /\ parser = "ready" /\ head = anchor /\ Parses(doc) /\ Bytes(doc) = Len(doc) /\ (RunKey \/ RunButton)
                  => LET rs == GetEditorInfo(doc, parser)
                     IN  IF FindStatementAt(rs, head).none
                         THEN sent'.statements = SplitStatements(doc, parser)
                         ELSE \E k \in DOMAIN rs : /\ rs[k].from <= head /\ head <= rs[k].to
                                                   /\ sent'.statements = <<SplitStatements(doc, parser)[k]>>)
  BY RunIsExact
<1> QED
  BY <1>1, AlwaysBInv, PTL DEF SettledRunIsExact

--------------------------------------------------------------------------------
(* Sets of one value, and the ends of sets of numbers. *)

\* A set of one value has that one.
LEMMA OnlyOne ==
    ASSUME NEW e PROVE Only({e}) = e
BY DEF Only

\* The greatest and the least number of a set are the ones that nothing in it exceeds.
LEMMA MaxIs ==
    ASSUME NEW S, S \subseteq Int, NEW m \in S, \A k \in S : k <= m
    PROVE  Max(S) = m
<1>1. \A x \in S : (\A y \in S : x >= y) => x = m
  <2>1. ASSUME NEW x \in S, \A y \in S : x >= y PROVE x = m
    <3>1. x \in Int /\ m \in Int /\ x >= m /\ x <= m
      BY <2>1
    <3> QED
      BY <3>1
  <2> QED
    BY <2>1
<1>2. \A y \in S : m >= y
  OBVIOUS
<1>3. Max(S) = CHOOSE x \in S : \A y \in S : x >= y
  BY DEF Max
<1> QED
  BY <1>1, <1>2, <1>3

LEMMA MinIs ==
    ASSUME NEW S, S \subseteq Int, NEW m \in S, \A k \in S : m <= k
    PROVE  Min(S) = m
<1>1. \A x \in S : (\A y \in S : x =< y) => x = m
  <2>1. ASSUME NEW x \in S, \A y \in S : x =< y PROVE x = m
    <3>1. x \in Int /\ m \in Int /\ m <= x /\ x <= m
      BY <2>1
    <3> QED
      BY <3>1
  <2> QED
    BY <2>1
<1>2. \A y \in S : m =< y
  OBVIOUS
<1>3. Min(S) = CHOOSE x \in S : \A y \in S : x =< y
  BY DEF Min
<1> QED
  BY <1>1, <1>2, <1>3

\* A set of numbers up to n has a greatest one.
LEMMA MaxExists ==
    ASSUME NEW n \in Nat, NEW S, S \subseteq 0 .. n, S # {}
    PROVE  Max(S) \in S /\ \A k \in S : k <= Max(S)
<1> DEFINE T == {x \in 0 .. n : n - x \in S}
<1>1. T \subseteq Nat
  OBVIOUS
<1>2. PICK s \in S : TRUE
  OBVIOUS
<1>3. s \in 0 .. n /\ n - s \in 0 .. n /\ n - (n - s) = s
  BY <1>2
<1>4. T # {}
  BY <1>2, <1>3
<1>5. Minimum(T) \in T /\ \A y \in T : Minimum(T) <= y
  BY <1>1, <1>4, LeastOf
<1> DEFINE m == n - Minimum(T)
<1>6. m \in S /\ Minimum(T) \in 0 .. n
  BY <1>5
<1>7. ASSUME NEW k \in S PROVE k <= m
  <2>1. k \in 0 .. n /\ n - k \in 0 .. n /\ n - (n - k) = k
    BY <1>7
  <2>2. n - k \in T
    BY <2>1
  <2>3. Minimum(T) <= n - k
    BY <2>2, <1>5
  <2> QED
    BY <2>1, <2>3, <1>6
<1>8. S \subseteq Int
  OBVIOUS
<1>9. Max(S) = m
  BY <1>6, <1>7, <1>8, MaxIs
<1> QED
  BY <1>6, <1>7, <1>9

LEMMA MinExists ==
    ASSUME NEW S, S \subseteq Nat, S # {}
    PROVE  Min(S) \in S /\ \A k \in S : Min(S) <= k
<1>1. Minimum(S) \in S /\ \A y \in S : Minimum(S) <= y
  BY LeastOf
<1>2. S \subseteq Int
  OBVIOUS
<1>3. Min(S) = Minimum(S)
  BY <1>1, <1>2, MinIs
<1> QED
  BY <1>1, <1>3

--------------------------------------------------------------------------------
(* Parentheses. *)

LEMMA MarksDiffer ==
    /\ Comma # "(" /\ Comma # ")" /\ Comma # "[" /\ Comma # "]"
    /\ Semicolon # "(" /\ Semicolon # ")"
BY Zenon DEF Comma, Semicolon

\* A count is a number, and none where there is nothing to count.
LEMMA CountIsNat ==
    ASSUME NEW ws, NEW i \in Int, NEW j \in Int, NEW marks
    PROVE  /\ Count(ws, i, j, marks) \in Nat /\ IsFiniteSet({k \in i .. j : ws[k] \in marks})
           /\ i > j => Count(ws, i, j, marks) = 0
<1>1. IsFiniteSet(i .. j)
  BY FS_Interval
<1>2. IsFiniteSet({k \in i .. j : ws[k] \in marks})
  BY <1>1, FS_Subset
<1>3. i > j => {k \in i .. j : ws[k] \in marks} = {}
  OBVIOUS
<1> QED
  BY <1>2, <1>3, FS_CardinalityType, FS_EmptySet DEF Count

\* What is counted up to a place and behind it is counted in all.
LEMMA CountSplits ==
    ASSUME NEW ws, NEW i \in Int, NEW m \in Int, NEW j \in Int, i <= m + 1, m <= j, NEW marks
    PROVE  Count(ws, i, j, marks) = Count(ws, i, m, marks) + Count(ws, m + 1, j, marks)
<1> DEFINE A == {k \in i .. m : ws[k] \in marks}
           B == {k \in m + 1 .. j : ws[k] \in marks}
           C == {k \in i .. j : ws[k] \in marks}
<1>1. A \cap B = {} /\ C = A \cup B
  OBVIOUS
<1>0. m + 1 \in Int
  OBVIOUS
<1>2. IsFiniteSet(A) /\ IsFiniteSet(B)
  BY <1>0, CountIsNat
<1>3. Cardinality(A \cap B) = 0
  BY <1>1, FS_EmptySet
<1>4. Cardinality(A \cup B) = Cardinality(A) + Cardinality(B) - Cardinality(A \cap B)
  BY <1>2, FS_Union
<1>5. Cardinality(A) \in Nat /\ Cardinality(B) \in Nat
  BY <1>2, FS_CardinalityType
<1>6. /\ Count(ws, i, j, marks) = Cardinality(C) /\ Count(ws, i, m, marks) = Cardinality(A)
      /\ Count(ws, m + 1, j, marks) = Cardinality(B)
  BY DEF Count
<1> HIDE DEF A, B, C
<1> QED
  BY <1>1, <1>3, <1>4, <1>5, <1>6

\* A single word counts once or not.
LEMMA CountOne ==
    ASSUME NEW ws, NEW i \in Int, NEW marks
    PROVE  Count(ws, i, i, marks) = IF ws[i] \in marks THEN 1 ELSE 0
<1>1. {k \in i .. i : ws[k] \in marks} = IF ws[i] \in marks THEN {i} ELSE {}
  OBVIOUS
<1>2. Cardinality({i}) = 1 /\ Cardinality({}) = 0
  BY FS_EmptySet, FS_Singleton
<1> QED
  BY <1>1, <1>2 DEF Count

\* How many more parentheses are opened than closed.
Depth(ws, i, j) == Count(ws, i, j, {"("}) - Count(ws, i, j, {")"})

LEMMA DepthSplits ==
    ASSUME NEW ws, NEW i \in Int, NEW m \in Int, NEW j \in Int, i <= m + 1, m <= j
    PROVE  /\ Depth(ws, i, j) = Depth(ws, i, m) + Depth(ws, m + 1, j)
           /\ Depth(ws, i, j) \in Int /\ Depth(ws, i, m) \in Int /\ Depth(ws, m + 1, j) \in Int
           /\ Depth(ws, m + 1, m) = 0
<1>0. m + 1 \in Int /\ m + 1 > m
  OBVIOUS
<1>1. \A marks : /\ Count(ws, i, j, marks) = Count(ws, i, m, marks) + Count(ws, m + 1, j, marks)
                 /\ Count(ws, i, m, marks) \in Nat /\ Count(ws, m + 1, j, marks) \in Nat
                 /\ Count(ws, m + 1, m, marks) = 0
  <2>1. \A marks : Count(ws, i, j, marks) = Count(ws, i, m, marks) + Count(ws, m + 1, j, marks)
    BY CountSplits
  <2>2. \A marks : Count(ws, i, m, marks) \in Nat
    BY CountIsNat
  <2>3. \A marks : Count(ws, m + 1, j, marks) \in Nat /\ Count(ws, m + 1, m, marks) = 0
    BY <1>0, CountIsNat
  <2> QED
    BY <2>1, <2>2, <2>3
<1> QED
  BY <1>1 DEF Depth

\* One word changes the depth by one at most.
LEMMA DepthSteps ==
    ASSUME NEW ws, NEW i \in Int, NEW j \in Int, i <= j
    PROVE  Depth(ws, i, j) = Depth(ws, i + 1, j)
                               + (IF ws[i] = "(" THEN 1 ELSE IF ws[i] = ")" THEN 0 - 1 ELSE 0)
<1>1. Depth(ws, i, j) = Depth(ws, i, i) + Depth(ws, i + 1, j) /\ Depth(ws, i + 1, j) \in Int
  BY DepthSplits
<1>2. Depth(ws, i, i) = IF ws[i] = "(" THEN 1 ELSE IF ws[i] = ")" THEN 0 - 1 ELSE 0
  BY CountOne DEF Depth
<1> QED
  BY <1>1, <1>2

\* The parentheses that nothing closes, going back from the end.
Unmet(ws) == {i \in DOMAIN ws : ws[i] = "(" /\ Depth(ws, i + 1, Len(ws)) = 0}

\* The parentheses from which on no more are closed than opened, said with the depth.
LEMMA StillOpenByDepth ==
    ASSUME NEW ws \in Seq(STRING), NEW i \in Int
    PROVE  i \in StillOpen(ws) <=> /\ i \in 1 .. Len(ws) /\ ws[i] = "("
                                   /\ \A j \in i + 1 .. Len(ws) : Depth(ws, i + 1, j) >= 0
<1>1. Len(ws) \in Nat /\ DOMAIN ws = 1 .. Len(ws)
  BY LenProperties
<1>2. \A j \in i + 1 .. Len(ws) :
        Count(ws, i + 1, j, {")"}) <= Count(ws, i + 1, j, {"("}) <=> Depth(ws, i + 1, j) >= 0
  <2>0. i + 1 \in Int /\ \A j \in i + 1 .. Len(ws) : j \in Int
    BY <1>1
  <2>1. \A j \in i + 1 .. Len(ws) : Count(ws, i + 1, j, {")"}) \in Nat /\ Count(ws, i + 1, j, {"("}) \in Nat
    BY <2>0, CountIsNat
  <2> QED
    BY <2>1 DEF Depth
<1>3. i \in StillOpen(ws) <=> /\ i \in 1 .. Len(ws) /\ ws[i] = "("
                              /\ \A j \in i + 1 .. Len(ws) : Count(ws, i + 1, j, {")"}) <= Count(ws, i + 1, j, {"("})
  BY <1>1 DEF StillOpen
<1> QED
  BY <1>2, <1>3

\* Where more parentheses are opened than closed up to the end, one of them is not met.
LEMMA OpenAhead ==
    ASSUME NEW ws \in Seq(STRING), NEW j \in 1 .. Len(ws) + 1, Depth(ws, j, Len(ws)) > 0
    PROVE  \E k \in Unmet(ws) : j <= k
<1> DEFINE n == Len(ws)
           S == {k \in j .. n : Depth(ws, k, n) > 0}
<1>1. n \in Nat /\ DOMAIN ws = 1 .. n
  BY LenProperties
<1> HIDE DEF n
<1>2. Depth(ws, n + 1, n) = 0
  BY <1>1, DepthSplits
<1>3. j \in 1 .. n + 1 /\ Depth(ws, j, n) > 0
  BY DEF n
<1>4. j \in j .. n
  BY <1>1, <1>2, <1>3
<1>5. S \subseteq 0 .. n /\ S # {}
  BY <1>1, <1>3, <1>4
<1> DEFINE k == Max(S)
<1>6. k \in S /\ \A h \in S : h <= k
  BY <1>1, <1>5, MaxExists
<1>7. k \in j .. n /\ Depth(ws, k, n) > 0 /\ k \in Int
  BY <1>1, <1>3, <1>6
<1> HIDE DEF k
<1>8. Depth(ws, k + 1, n) \in Int
  BY <1>1, <1>7, DepthSplits
<1>9. ~(Depth(ws, k + 1, n) > 0)
  <2>1. CASE k = n
    BY <2>1, <1>1, <1>2
  <2>2. CASE k # n
    <3>1. k + 1 \in j .. n /\ ~(k + 1 <= k)
      BY <2>2, <1>1, <1>3, <1>7
    <3>2. k + 1 \notin S
      BY <3>1, <1>6
    <3> QED
      BY <3>1, <3>2
  <2> QED
    BY <2>1, <2>2
<1>10. Depth(ws, k, n) = Depth(ws, k + 1, n) + (IF ws[k] = "(" THEN 1 ELSE IF ws[k] = ")" THEN 0 - 1 ELSE 0)
  BY <1>1, <1>7, DepthSteps
<1>11. ws[k] = "(" /\ Depth(ws, k + 1, n) = 0
  BY <1>7, <1>8, <1>9, <1>10
<1>12. k \in Unmet(ws) /\ j <= k
  BY <1>1, <1>3, <1>7, <1>11 DEF Unmet, n
<1> QED
  BY <1>12

\* The call around the end of a text: the last parenthesis that is still open is the first one that
\* the search back from the end does not meet the other of.
LEMMA SameCall ==
    ASSUME NEW ws \in Seq(STRING)
    PROVE  /\ Max({0} \cup StillOpen(ws)) = Max({0} \cup Unmet(ws))
           /\ Max({0} \cup Unmet(ws)) \in {0} \cup (StillOpen(ws) \cap Unmet(ws))
           /\ Max({0} \cup Unmet(ws)) \in 0 .. Len(ws)
           /\ \A k \in StillOpen(ws) \cup Unmet(ws) : k \in 1 .. Len(ws) /\ k <= Max({0} \cup Unmet(ws))
<1> DEFINE n == Len(ws)
           u == Max({0} \cup Unmet(ws))
<1>1. n \in Nat /\ DOMAIN ws = 1 .. n
  BY LenProperties
<1> HIDE DEF n
<1>2. {0} \cup Unmet(ws) \subseteq 0 .. n /\ {0} \cup Unmet(ws) # {}
  BY <1>1 DEF Unmet
<1>3. u \in {0} \cup Unmet(ws) /\ \A k \in {0} \cup Unmet(ws) : k <= u
  BY <1>1, <1>2, MaxExists
<1> HIDE DEF u
<1>4. u \in 0 .. n /\ u \in Int
  BY <1>2, <1>3
\* Nothing behind u is unmet, so the depth is nowhere positive there.
<1>5. \A j \in u + 1 .. n + 1 : Depth(ws, j, n) <= 0
  <2>1. SUFFICES ASSUME NEW j \in u + 1 .. n + 1, ~(Depth(ws, j, n) <= 0) PROVE FALSE
    OBVIOUS
  <2>2. j \in 1 .. n + 1 /\ j \in Int
    BY <1>1, <1>4, <2>1
  <2>3. Depth(ws, j, n) \in Int
    <3>1. j - 1 \in Int /\ j - 1 <= n /\ j <= (j - 1) + 1 /\ (j - 1) + 1 = j
      BY <1>1, <2>2
    <3> QED
      BY <3>1, <1>1, <2>2, DepthSplits
  <2>4. PICK k \in Unmet(ws) : j <= k
    <3>1. Depth(ws, j, Len(ws)) > 0 /\ j \in 1 .. Len(ws) + 1
      BY <2>1, <2>2, <2>3 DEF n
    <3> QED
      BY <3>1, OpenAhead
  <2>5. k \in 1 .. n /\ k <= u
    BY <1>1, <1>3, <2>4 DEF Unmet
  <2> QED
    BY <1>4, <2>1, <2>4, <2>5
<1>6. ASSUME u # 0 PROVE u \in StillOpen(ws)
  <2>1. u \in Unmet(ws)
    BY <1>3, <1>6
  <2>2. u \in 1 .. n /\ ws[u] = "(" /\ Depth(ws, u + 1, n) = 0
    BY <1>1, <2>1 DEF Unmet, n
  <2>3. ASSUME NEW j \in u + 1 .. n PROVE Depth(ws, u + 1, j) >= 0
    <3>1. u + 1 \in Int /\ j \in Int /\ u + 1 <= j + 1 /\ j <= n /\ j + 1 \in u + 1 .. n + 1
      BY <1>1, <1>4, <2>3
    <3>2. /\ Depth(ws, u + 1, n) = Depth(ws, u + 1, j) + Depth(ws, j + 1, n)
          /\ Depth(ws, u + 1, j) \in Int /\ Depth(ws, j + 1, n) \in Int
      <4>1. n \in Int
        BY <1>1
      <4> QED
        BY <4>1, <3>1, DepthSplits
    <3>3. Depth(ws, j + 1, n) <= 0
      BY <1>5, <3>1
    <3> QED
      BY <2>2, <3>2, <3>3
  <2> QED
    BY <1>4, <2>2, <2>3, StillOpenByDepth DEF n
<1>7. ASSUME NEW s \in StillOpen(ws) PROVE s \in 1 .. n /\ s <= u
  <2>1. s \in 1 .. n /\ s \in Int
    BY <1>1, <1>7 DEF StillOpen
  <2>2. ws[s] = "(" /\ \A j \in s + 1 .. n : Depth(ws, s + 1, j) >= 0
    BY <1>7, <2>1, StillOpenByDepth DEF n
  <2>3. Depth(ws, s + 1, n) >= 0 /\ Depth(ws, s + 1, n) \in Int
    <3>1. Depth(ws, s + 1, n) \in Int /\ Depth(ws, n + 1, n) = 0
      BY <1>1, <2>1, DepthSplits
    <3>2. CASE s = n
      BY <3>1, <3>2
    <3>3. CASE s # n
      <4>1. n \in s + 1 .. n
        BY <3>3, <1>1, <2>1
      <4> QED
        BY <4>1, <3>1, <2>2
    <3> QED
      BY <3>2, <3>3
  <2>4. SUFFICES ASSUME ~(s <= u) PROVE FALSE
    BY <2>1
  <2>5. s \in u + 1 .. n + 1 /\ s + 1 \in u + 1 .. n + 1 /\ s <= n
    BY <1>1, <1>4, <2>1, <2>4
  <2>6. Depth(ws, s, n) <= 0 /\ Depth(ws, s + 1, n) <= 0
    BY <1>5, <2>5
  <2>7. Depth(ws, s, n) = Depth(ws, s + 1, n) + 1
    BY <1>1, <2>1, <2>2, <2>5, DepthSteps
  <2> QED
    BY <2>3, <2>6, <2>7
<1>8. u \in {0} \cup StillOpen(ws)
  BY <1>6
<1>9. \A k \in {0} \cup StillOpen(ws) : k <= u
  BY <1>4, <1>7
<1>10. {0} \cup StillOpen(ws) \subseteq Int
  BY <1>7
<1>11. Max({0} \cup StillOpen(ws)) = u
  BY <1>8, <1>9, <1>10, MaxIs
<1>12. u \in {0} \cup (StillOpen(ws) \cap Unmet(ws))
  BY <1>3, <1>6
<1>13. \A k \in StillOpen(ws) \cup Unmet(ws) : k \in 1 .. n /\ k <= u
  <2>1. \A k \in Unmet(ws) : k \in 1 .. n
    BY <1>1 DEF Unmet
  <2> QED
    BY <1>3, <1>7, <2>1
<1> QED
  BY <1>4, <1>11, <1>12, <1>13 DEF u, n

\* A prefix has the depths of the text.
LEMMA PrefixDepth ==
    ASSUME NEW ws \in Seq(STRING), NEW i \in 1 .. Len(ws), NEW a \in 1 .. i + 1, NEW b \in 0 .. i
    PROVE  Depth(SubSeq(ws, 1, i), a, b) = Depth(ws, a, b)
<1>1. \A k \in a .. b : SubSeq(ws, 1, i)[k] = ws[k]
  BY LenProperties
<1>2. \A marks : {k \in a .. b : SubSeq(ws, 1, i)[k] \in marks} = {k \in a .. b : ws[k] \in marks}
  BY <1>1
<1> QED
  BY <1>2 DEF Depth, Count

\* A comma is one of the call around the end exactly when the text up to it is in that call.
LEMMA SameCommas ==
    ASSUME NEW ws \in Seq(STRING), NEW c \in Nat, c \in StillOpen(ws), c = Max({0} \cup StillOpen(ws)),
           NEW i \in Nat, i \in c + 1 .. Len(ws), ws[i] = Comma
    PROVE  Max(StillOpen(SubSeq(ws, 1, i))) = c <=> Depth(ws, i, Len(ws)) = 0
<1> DEFINE n == Len(ws)
           w == SubSeq(ws, 1, i)
<1>1. n \in Nat /\ DOMAIN ws = 1 .. n
  BY LenProperties
<1> HIDE DEF n
<1>2. c \in 1 .. n /\ c \in Int /\ i \in 1 .. n /\ i \in Int /\ c < i
  BY <1>1, StillOpenByDepth DEF n, StillOpen
<1>3. w \in Seq(STRING) /\ Len(w) = i /\ DOMAIN w = 1 .. i
  BY <1>1, <1>2 DEF n
<1> HIDE DEF w
<1>4. \A k \in 1 .. i : w[k] = ws[k]
  BY <1>1, <1>2 DEF n, w
<1>5. \A a \in 1 .. i + 1, b \in 0 .. i : Depth(w, a, b) = Depth(ws, a, b)
  BY <1>1, <1>2, PrefixDepth DEF n, w
<1>6. c = Max({0} \cup Unmet(ws)) /\ c \in Unmet(ws) /\ \A k \in Unmet(ws) : k <= c
  <2> DEFINE m == Max({0} \cup Unmet(ws))
  <2>1. /\ Max({0} \cup StillOpen(ws)) = m /\ m \in {0} \cup (StillOpen(ws) \cap Unmet(ws))
        /\ \A k \in StillOpen(ws) \cup Unmet(ws) : k <= m
    BY SameCall
  <2> HIDE DEF m
  <2>2. c = m
    BY <2>1
  <2>3. c \in Unmet(ws)
    BY <1>2, <2>1, <2>2
  <2>4. \A k \in Unmet(ws) : k <= c
    BY <2>1, <2>2
  <2> QED
    BY <2>2, <2>3, <2>4 DEF m
<1>7. Depth(ws, c + 1, n) = 0
  BY <1>6 DEF Unmet, n
<1>8. Depth(ws, i, n) = Depth(ws, i + 1, n) /\ Depth(ws, i + 1, n) \in Int
  <2>1. ws[i] # "(" /\ ws[i] # ")" /\ i <= n
    BY <1>1, <1>2, MarksDiffer
  <2>2. Depth(ws, i + 1, n) \in Int
    BY <1>1, <1>2, DepthSplits
  <2> QED
    BY <1>1, <1>2, <2>1, <2>2, DepthSteps
<1>9. \A k \in 1 .. i : /\ Depth(ws, k + 1, n) = Depth(ws, k + 1, i) + Depth(ws, i + 1, n)
                        /\ Depth(ws, k + 1, i) \in Int
  BY <1>1, <1>2, DepthSplits
\* c is still open in the prefix.
<1>10. c \in StillOpen(w)
  <2>1. ws[c] = "(" /\ \A j \in c + 1 .. n : Depth(ws, c + 1, j) >= 0
    BY <1>2, StillOpenByDepth DEF n
  <2>2. \A j \in c + 1 .. i : j \in c + 1 .. n /\ j \in 0 .. i /\ c + 1 \in 1 .. i + 1
    BY <1>1, <1>2
  <2>3. w[c] = "(" /\ c \in 1 .. i
    BY <1>2, <1>4, <2>1
  <2>4. ASSUME NEW j \in c + 1 .. i PROVE Depth(w, c + 1, j) >= 0
    <3>1. j \in 0 .. i /\ c + 1 \in 1 .. i + 1 /\ j \in c + 1 .. n
      BY <2>2, <2>4
    <3>2. Depth(w, c + 1, j) = Depth(ws, c + 1, j)
      BY <1>5, <3>1
    <3> QED
      BY <2>1, <3>1, <3>2
  <2> QED
    BY <1>2, <1>3, <2>3, <2>4, StillOpenByDepth
<1>11. Max(StillOpen(w)) = Max({0} \cup Unmet(w))
  <2> DEFINE m == Max({0} \cup Unmet(w))
  <2>1. m \in {0} \cup StillOpen(w) /\ \A k \in StillOpen(w) : k \in 1 .. i /\ k <= m
    BY <1>3, SameCall
  <2> HIDE DEF m
  <2>2. m # 0
    BY <1>2, <1>10, <2>1
  <2>3. m \in StillOpen(w)
    BY <2>1, <2>2
  <2>5. StillOpen(w) \subseteq Int
    <3>1. \A k \in StillOpen(w) : k \in 1 .. i
      BY <2>1
    <3>2. 1 .. i \subseteq Int
      BY <1>2
    <3> QED
      BY <3>1, <3>2
  <2>4. Max(StillOpen(w)) = m
    BY <2>1, <2>3, <2>5, MaxIs
  <2> QED
    BY <2>4 DEF m
<1>12. ASSUME Depth(ws, i, n) = 0 PROVE Max({0} \cup Unmet(w)) = c
  <2>1. \A k \in 1 .. i : Depth(w, k + 1, i) = Depth(ws, k + 1, n)
    <3>1. \A k \in 1 .. i : k + 1 \in 1 .. i + 1 /\ i \in 0 .. i
      BY <1>2
    <3> QED
      BY <3>1, <1>5, <1>8, <1>9, <1>12
  <2>2. c \in Unmet(w)
    BY <1>2, <1>3, <1>4, <1>6, <2>1, <1>7 DEF Unmet
  <2>3. ASSUME NEW k \in Unmet(w) PROVE k \in Int /\ k <= c
    <3>1. k \in 1 .. i /\ w[k] = "(" /\ Depth(w, k + 1, i) = 0
      BY <1>3, <2>3 DEF Unmet
    <3>2. k \in 1 .. n /\ ws[k] = "(" /\ Depth(ws, k + 1, n) = 0
      BY <1>1, <1>2, <1>4, <2>1, <3>1
    <3>3. k \in Unmet(ws)
      BY <1>1, <3>2 DEF Unmet, n
    <3>4. k <= c
      BY <3>3, <1>6
    <3> QED
      BY <3>1, <3>4
  <2>4. c \in {0} \cup Unmet(w)
    BY <2>2
  <2>5. \A k \in {0} \cup Unmet(w) : k \in Int /\ k <= c
    <3>1. \A k \in Unmet(w) : k \in Int /\ k <= c
      BY <2>3
    <3>2. 0 \in Int /\ 0 <= c
      BY <1>2
    <3> QED
      BY <3>1, <3>2
  <2>6. {0} \cup Unmet(w) \subseteq Int
    BY <2>5
  <2> QED
    BY <2>4, <2>5, <2>6, MaxIs
<1>13. ASSUME Max({0} \cup Unmet(w)) = c PROVE Depth(ws, i, n) = 0
  <2>1. c \in Unmet(w)
    <3> DEFINE m == Max({0} \cup Unmet(w))
    <3>1. m \in {0} \cup Unmet(w) /\ m = c
      BY <1>3, <1>13, SameCall
    <3> HIDE DEF m
    <3> QED
      BY <3>1, <1>2
  <2>2. Depth(w, c + 1, i) = 0
    BY <1>3, <2>1 DEF Unmet
  <2>3. Depth(ws, c + 1, i) = 0
    BY <1>2, <1>5, <2>2
  <2>4. c \in 1 .. i
    BY <1>2
  <2> QED
    BY <1>7, <1>8, <1>9, <2>3, <2>4
<1> QED
  BY <1>11, <1>12, <1>13 DEF w, n

(* Lists of arguments. *)

\* What the joining of a list of sequences has come to after each of them.
Joined(f, seqs, n) ==
    /\ f[1] = seqs[1]
    /\ \A i \in 2 .. n : f[i] = f[i - 1] \o seqs[i]

LEMMA JoinedExists ==
    ASSUME NEW W, NEW seqs \in Seq(Seq(W)), NEW n \in 1 .. Len(seqs)
    PROVE  \E f \in [1 .. n -> Seq(W)] : Joined(f, seqs, n)
<1>1. Len(seqs) \in Nat /\ \A i \in 1 .. Len(seqs) : seqs[i] \in Seq(W)
  BY LenProperties, ElementOfSeq
<1> DEFINE P(m) == \E f \in [1 .. m -> Seq(W)] : Joined(f, seqs, m)
           T == {m \in 1 .. Len(seqs) : ~P(m)}
<1>2. SUFFICES T = {}
  OBVIOUS
<1>3. SUFFICES ASSUME T # {} PROVE FALSE
  OBVIOUS
<1>4. T \subseteq Nat
  BY <1>1
<1> DEFINE m == Min(T)
<1>5. m \in T /\ \A k \in T : m <= k
  BY <1>3, <1>4, MinExists
<1> HIDE DEF P, m
<1>6. m \in 1 .. Len(seqs) /\ m \in Int /\ ~P(m)
  BY <1>1, <1>5
<1> USE DEF P
<1>7. CASE m = 1
  <2> DEFINE g == [i \in 1 .. 1 |-> seqs[i]]
  <2>1. 1 \in 1 .. Len(seqs)
    BY <1>6, <1>7
  <2>2. g \in [1 .. 1 -> Seq(W)] /\ g[1] = seqs[1]
    BY <1>1, <2>1
  <2>3. Joined(g, seqs, 1)
    BY <2>2 DEF Joined
  <2>4. P(1)
    BY <2>2, <2>3
  <2> QED
    BY <1>6, <1>7, <2>4
<1>8. CASE m # 1
  <2>1. m - 1 \in 1 .. Len(seqs) /\ ~(m <= m - 1)
    BY <1>1, <1>6, <1>8
  <2>2. P(m - 1)
    BY <1>5, <2>1
  <2>3. PICK f \in [1 .. m - 1 -> Seq(W)] : Joined(f, seqs, m - 1)
    BY <2>2
  <2> DEFINE g == [i \in 1 .. m |-> IF i = m THEN f[m - 1] \o seqs[m] ELSE f[i]]
  <2>4. f[m - 1] \o seqs[m] \in Seq(W)
    <3>1. f[m - 1] \in Seq(W) /\ seqs[m] \in Seq(W)
      BY <1>1, <1>6, <1>8, <2>3
    <3> QED
      BY <3>1, ConcatProperties
  <2>5. \A i \in 1 .. m : i # m => i \in 1 .. m - 1
    BY <1>6
  <2>6. g \in [1 .. m -> Seq(W)]
    BY <2>3, <2>4, <2>5
  <2>7. \A i \in 1 .. m - 1 : g[i] = f[i]
    <3>1. \A i \in 1 .. m - 1 : i \in 1 .. m /\ i # m
      BY <1>6
    <3> QED
      BY <3>1
  <2>8. g[m] = f[m - 1] \o seqs[m] /\ m - 1 \in 1 .. m - 1 /\ 1 \in 1 .. m - 1
    <3>1. m \in 1 .. m /\ m - 1 \in 1 .. m - 1 /\ 1 \in 1 .. m - 1
      BY <1>6, <1>8
    <3> QED
      BY <3>1
  <2> HIDE DEF g
  <2>9. g[1] = seqs[1]
    BY <2>3, <2>7, <2>8 DEF Joined
  <2>10. ASSUME NEW i \in 2 .. m PROVE g[i] = g[i - 1] \o seqs[i]
    <3>1. CASE i = m
      BY <3>1, <2>7, <2>8
    <3>2. CASE i # m
      <4>1. i \in 2 .. m - 1 /\ i \in 1 .. m - 1 /\ i - 1 \in 1 .. m - 1
        BY <1>6, <2>10, <3>2
      <4>2. f[i] = f[i - 1] \o seqs[i]
        BY <2>3, <4>1 DEF Joined
      <4> QED
        BY <2>7, <4>1, <4>2
    <3> QED
      BY <3>1, <3>2
  <2>11. Joined(g, seqs, m)
    BY <2>9, <2>10 DEF Joined
  <2>12. P(m)
    BY <2>6, <2>11
  <2> QED
    BY <1>6, <2>12
<1> QED
  BY <1>7, <1>8

\* FlattenSeq joins them.
LEMMA FlattenJoins ==
    ASSUME NEW W, NEW seqs \in Seq(Seq(W)), Len(seqs) # 0
    PROVE  \E f \in [1 .. Len(seqs) -> Seq(W)] : Joined(f, seqs, Len(seqs)) /\ FlattenSeq(seqs) = f[Len(seqs)]
<1> DEFINE n == Len(seqs)
           D(h) == [i \in 1 .. n |-> IF i = 1 THEN seqs[i] ELSE h[i - 1] \o seqs[i]]
           h == CHOOSE h : h = D(h)
<1>1. n \in Nat /\ n \in 1 .. n
  BY LenProperties
<1>2. PICK g \in [1 .. n -> Seq(W)] : Joined(g, seqs, n)
  BY <1>1, JoinedExists
<1>3. FlattenSeq(seqs) = h[n]
  BY DEF FlattenSeq
<1> HIDE DEF n
<1>4. g = D(g)
  <2>1. \A i \in 1 .. n : g[i] = IF i = 1 THEN seqs[i] ELSE g[i - 1] \o seqs[i]
    <3>1. \A i \in 1 .. n : i # 1 => i \in 2 .. n
      BY <1>1
    <3> QED
      BY <1>2, <3>1 DEF Joined
  <2> QED
    BY <1>2, <2>1
<1>5. h = D(h)
  BY <1>4
<1> HIDE DEF h
<1>6. \A i \in 1 .. n : h[i] = IF i = 1 THEN seqs[i] ELSE h[i - 1] \o seqs[i]
  BY <1>5
<1>7. \A i \in 1 .. n : h[i] = g[i]
  <2> DEFINE T == {i \in 1 .. n : h[i] # g[i]}
  <2>1. SUFFICES ASSUME T # {} PROVE FALSE
    OBVIOUS
  <2>2. T \subseteq Nat
    BY <1>1
  <2> DEFINE m == Min(T)
  <2>3. m \in T /\ \A k \in T : m <= k
    BY <2>1, <2>2, MinExists
  <2> HIDE DEF m
  <2>4. m \in 1 .. n /\ h[m] # g[m]
    BY <2>3
  <2>5. g[m] = IF m = 1 THEN seqs[m] ELSE g[m - 1] \o seqs[m]
    BY <1>4, <2>4
  <2>6. h[m] = IF m = 1 THEN seqs[m] ELSE h[m - 1] \o seqs[m]
    BY <1>6, <2>4
  <2>7. m # 1
    BY <2>4, <2>5, <2>6
  <2>8. m - 1 \in 1 .. n /\ ~(m <= m - 1)
    BY <1>1, <2>4, <2>7
  <2>9. h[m - 1] = g[m - 1]
    BY <2>3, <2>8
  <2> QED
    BY <2>4, <2>5, <2>6, <2>7, <2>9
<1>8. FlattenSeq(seqs) = g[n]
  BY <1>1, <1>3, <1>7
<1> QED
  BY <1>2, <1>8 DEF n

\* What has come first stays in front.
Grows(f, n) == \A k \in 1 .. n : Len(f[k]) <= Len(f[n]) /\ \A i \in 1 .. Len(f[k]) : f[n][i] = f[k][i]

LEMMA JoinedPrefix ==
    ASSUME NEW W, NEW seqs, NEW n \in Nat, n # 0, \A k \in 1 .. n : seqs[k] \in Seq(W),
           NEW f \in [1 .. n -> Seq(W)], Joined(f, seqs, n)
    PROVE  Grows(f, n)
<1> DEFINE P(k) == Len(f[k]) <= Len(f[n]) /\ \A i \in 1 .. Len(f[k]) : f[n][i] = f[k][i]
           T == {k \in 1 .. n : ~P(k)}
<1>1. SUFFICES ASSUME T # {} PROVE FALSE
  BY DEF Grows
<1>2. T \subseteq 0 .. n
  OBVIOUS
<1> DEFINE m == Max(T)
<1>3. m \in T /\ \A k \in T : k <= m
  BY <1>1, <1>2, MaxExists
<1>4. P(n)
  <2>1. n \in 1 .. n /\ f[n] \in Seq(W)
    OBVIOUS
  <2>2. Len(f[n]) \in Nat
    BY <2>1, LenProperties
  <2> QED
    BY <2>2
<1> HIDE DEF P, m
<1>5. m \in 1 .. n /\ ~P(m)
  BY <1>3
<1>6. m # n /\ m + 1 \in 2 .. n /\ m + 1 \in 1 .. n /\ ~(m + 1 <= m)
  BY <1>4, <1>5
<1>7. P(m + 1)
  BY <1>3, <1>6
<1>8. f[m + 1] = f[m] \o seqs[m + 1]
  <2>1. (m + 1) - 1 = m
    BY <1>5
  <2> QED
    BY <1>6, <2>1 DEF Joined
<1>9. f[m] \in Seq(W) /\ seqs[m + 1] \in Seq(W)
  BY <1>5, <1>6
<1>10. /\ Len(f[m + 1]) = Len(f[m]) + Len(seqs[m + 1]) /\ Len(f[m]) \in Nat /\ Len(seqs[m + 1]) \in Nat
       /\ \A i \in 1 .. Len(f[m]) : f[m + 1][i] = f[m][i]
  <2> DEFINE s == f[m]
             t == seqs[m + 1]
  <2>1. Len(s) \in Nat /\ Len(t) \in Nat /\ f[m + 1] = s \o t /\ s \in Seq(W) /\ t \in Seq(W)
    BY <1>8, <1>9, LenProperties
  <2> HIDE DEF s, t
  <2>2. \A i \in 1 .. Len(s) : i \in 1 .. Len(s) + Len(t) /\ i <= Len(s)
    BY <2>1
  <2>3. Len(s \o t) = Len(s) + Len(t) /\ \A i \in 1 .. Len(s) : (s \o t)[i] = s[i]
    BY <2>1, <2>2, ConcatProperties
  <2> QED
    BY <2>1, <2>3 DEF s, t
<1>11. Len(f[n]) \in Nat
  <2>1. n \in 1 .. n
    OBVIOUS
  <2> QED
    BY <2>1, LenProperties
<1>12. /\ Len(f[m + 1]) <= Len(f[n]) /\ \A i \in 1 .. Len(f[m + 1]) : f[n][i] = f[m + 1][i]
  BY <1>7 DEF P
<1>13. Len(f[m]) <= Len(f[m + 1]) /\ \A i \in 1 .. Len(f[m]) : i \in 1 .. Len(f[m + 1])
  <2> DEFINE a == Len(f[m])
             b == Len(seqs[m + 1])
             c == Len(f[m + 1])
  <2>1. a \in Nat /\ b \in Nat /\ c = a + b
    BY <1>10
  <2> HIDE DEF a, b, c
  <2>2. a <= c /\ \A i \in 1 .. a : i \in 1 .. c
    BY <2>1
  <2> QED
    BY <2>2 DEF a, c
<1>14. P(m)
  <2>1. Len(f[m]) <= Len(f[n])
    <3>1. Len(f[m]) \in Nat /\ Len(f[m + 1]) \in Nat
      <4>1. f[m + 1] \in Seq(W)
        BY <1>6
      <4> QED
        BY <4>1, <1>10, LenProperties
    <3> QED
      BY <3>1, <1>11, <1>12, <1>13
  <2>2. \A i \in 1 .. Len(f[m]) : f[n][i] = f[m][i]
    BY <1>10, <1>12, <1>13
  <2> QED
    BY <2>1, <2>2 DEF P
<1> QED
  BY <1>5, <1>14

\* The words of a plain argument: none of them is a comma or a bracket, and there is one.
\* (The provers do not know that a word written in a specification is a STRING.)
Marks == {"(", ")", "[", "]"}
ArgumentWord == STRING \cup ArgModes

LEMMA ArgumentPrinted ==
    ASSUME NEW a \in Argument, ArgumentIsPlain(a)
    PROVE  /\ PrintedArgument(a) \in Seq(ArgumentWord) /\ Len(PrintedArgument(a)) \in Nat \ {0}
           /\ \A i \in 1 .. Len(PrintedArgument(a)) : PrintedArgument(a)[i] # Comma /\ PrintedArgument(a)[i] \notin Marks
<1> DEFINE V == ArgumentWord \ ({Comma} \cup Marks)
           m == IF a.mode = NoWord THEN <<>> ELSE <<a.mode>>
           x == IF a.name = NoWord THEN <<>> ELSE <<a.name>>
<1>1. a.mode \in ArgModes \cup {NoWord} /\ a.name \in STRING /\ a.type \in Seq(STRING)
  BY DEF Argument
<1>2. ArgModes \subseteq V
  <2>1. ArgModes \subseteq ArgumentWord
    BY DEF ArgumentWord
  <2>3. \A v \in ArgModes : v \notin Marks
    BY DEF ArgModes, Marks
  <2>2. Comma \notin ArgModes
    BY Zenon DEF Comma, ArgModes
  <2> QED
    BY <2>1, <2>2, <2>3
<1>3. a.name \in V
  <2>1. a.name \in STRING \ {Comma, "(", ")", "[", "]"}
    BY DEF ArgumentIsPlain
  <2> QED
    BY <2>1 DEF Marks, ArgumentWord
<1>4. m \in Seq(V) /\ x \in Seq(V)
  <2>1. a.mode # NoWord => a.mode \in V
    BY <1>1, <1>2
  <2>2. a.mode # NoWord => <<a.mode>> \in Seq(V)
    BY <2>1
  <2>3. <<a.name>> \in Seq(V) /\ <<>> \in Seq(V)
    BY <1>3
  <2> QED
    BY <2>2, <2>3
<1>5. a.type \in Seq(V)
  <2>1. Len(a.type) \in Nat /\ DOMAIN a.type = 1 .. Len(a.type) /\ a.type \in [1 .. Len(a.type) -> STRING]
    BY <1>1, LenProperties
  <2>2. \A i \in 1 .. Len(a.type) : a.type[i] \in STRING \ {Comma, "(", ")", "[", "]"}
    BY <2>1 DEF ArgumentIsPlain, ToSet
  <2>3. \A i \in 1 .. Len(a.type) : a.type[i] \in V
    BY <2>2 DEF Marks, ArgumentWord
  <2>4. a.type \in [1 .. Len(a.type) -> V]
    BY <2>1, <2>3
  <2> QED
    BY <2>1, <2>4
<1>6. Len(a.type) \in Nat \ {0}
  BY <1>1, EmptySeq DEF ArgumentIsPlain
<1> HIDE DEF V, m, x
<1>7. m \o x \in Seq(V) /\ Len(m \o x) \in Nat
  BY <1>4, ConcatProperties, LenProperties
<1>8. (m \o x) \o a.type \in Seq(V) /\ Len((m \o x) \o a.type) = Len(m \o x) + Len(a.type)
  BY <1>5, <1>7, ConcatProperties
<1>9. PrintedArgument(a) = (m \o x) \o a.type
  BY DEF PrintedArgument, m, x
<1>10. \A i \in 1 .. Len(PrintedArgument(a)) : PrintedArgument(a)[i] \in V
  BY <1>8, <1>9, ElementOfSeq
<1>11. V \subseteq ArgumentWord /\ Comma \notin V /\ \A v \in V : v \notin Marks
  BY DEF V
<1>12. PrintedArgument(a) \in Seq(ArgumentWord)
  BY <1>8, <1>9, <1>11, SeqMonotonic
<1>13. Len(PrintedArgument(a)) \in Nat \ {0}
  <2> DEFINE b == Len(m \o x)
             c == Len(a.type)
  <2>1. b \in Nat /\ c \in Nat \ {0} /\ Len(PrintedArgument(a)) = b + c
    BY <1>6, <1>7, <1>8, <1>9
  <2> HIDE DEF b, c
  <2>2. b + c \in Nat \ {0}
    BY <2>1
  <2> QED
    BY <2>1, <2>2
<1> QED
  BY <1>10, <1>11, <1>12, <1>13

\* What a joined sequence holds, by its two parts.
LEMMA ConcatAt ==
    ASSUME NEW W, NEW p \in Seq(W), NEW q \in Seq(W)
    PROVE  /\ p \o q \in Seq(W) /\ Len(p \o q) = Len(p) + Len(q)
           /\ \A i \in 1 .. Len(p) : (p \o q)[i] = p[i]
           /\ \A i \in 1 .. Len(q) : (p \o q)[Len(p) + i] = q[i]
<1>1. /\ p \o q \in Seq(W) /\ Len(p \o q) = Len(p) + Len(q)
      /\ \A i \in 1 .. Len(p) + Len(q) : (p \o q)[i] = IF i <= Len(p) THEN p[i] ELSE q[i - Len(p)]
  BY ONLY p \in Seq(W), q \in Seq(W), ConcatProperties
<1> DEFINE r == p \o q
           a == Len(p)
           b == Len(q)
<1>7. a \in Nat /\ b \in Nat
  BY LenProperties
<1> HIDE DEF a, b
<1>2. /\ r \in Seq(W) /\ Len(r) = a + b
      /\ \A i \in 1 .. a + b : r[i] = IF i <= a THEN p[i] ELSE q[i - a]
  BY <1>1 DEF a, b
<1> HIDE DEF r
<1>3. \A i \in 1 .. a : i \in 1 .. a + b /\ i <= a
  BY <1>7
<1>4. \A i \in 1 .. b : a + i \in 1 .. a + b /\ ~(a + i <= a) /\ (a + i) - a = i
  BY <1>7
<1>5. \A i \in 1 .. a : r[i] = p[i]
  BY <1>2, <1>3
<1>6. ASSUME NEW i \in 1 .. b PROVE r[a + i] = q[i]
  <2>1. a + i \in 1 .. a + b /\ ~(a + i <= a) /\ (a + i) - a = i
    BY <1>4
  <2>2. r[a + i] = IF a + i <= a THEN p[a + i] ELSE q[(a + i) - a]
    BY <1>2, <2>1
  <2> QED
    BY <2>1, <2>2
<1> QED
  BY <1>2, <1>5, <1>6 DEF r, a, b

LEMMA WithComma ==
    ASSUME NEW W, NEW c \in W, NEW q \in Seq(W), NEW b \in Nat, b = Len(q)
    PROVE  /\ <<c>> \o q \in Seq(W) /\ Len(<<c>> \o q) = 1 + b /\ (<<c>> \o q)[1] = c
           /\ \A i \in 1 .. b : (<<c>> \o q)[1 + i] = q[i]
<1> DEFINE p == <<c>>
<1>1. p \in Seq(W) /\ Len(p) = 1 /\ p[1] = c
  OBVIOUS
<1> HIDE DEF p
<1>2. /\ p \o q \in Seq(W) /\ Len(p \o q) = 1 + b
      /\ \A i \in 1 .. 1 : (p \o q)[i] = p[i]
      /\ \A i \in 1 .. b : (p \o q)[1 + i] = q[i]
  <2>1. /\ p \o q \in Seq(W) /\ Len(p \o q) = Len(p) + Len(q)
        /\ \A i \in 1 .. Len(p) : (p \o q)[i] = p[i]
        /\ \A i \in 1 .. Len(q) : (p \o q)[Len(p) + i] = q[i]
    <3>1. p \in Seq(W)
      BY <1>1
    <3> QED
      BY <3>1, ConcatAt
  <2> QED
    BY <1>1, <2>1
<1>3. (p \o q)[1] = c
  BY <1>1, <1>2
<1> QED
  BY <1>2, <1>3 DEF p

\* A printed list ends its k-th argument before position e[k], where a comma follows it.
PlainArguments(args) == args \in Seq(Argument) /\ \A k \in DOMAIN args : ArgumentIsPlain(args[k])
ListWord == ArgumentWord \cup {Comma}
Laid(e, ws, args) ==
    /\ ws \in Seq(ListWord) /\ e[0] = 0 /\ e[Len(args)] = Len(ws) + 1
    /\ \A k \in 1 .. Len(args) :
          /\ e[k] = e[k - 1] + Len(PrintedArgument(args[k])) + 1
          /\ \A i \in 1 .. Len(PrintedArgument(args[k])) : ws[e[k - 1] + i] = PrintedArgument(args[k])[i]
    /\ \A k \in 1 .. Len(args) - 1 : ws[e[k]] = Comma

LEMMA ListIsLaid ==
    ASSUME NEW args, PlainArguments(args), args # <<>>
    PROVE  \E e \in [0 .. Len(args) -> Nat] : Laid(e, PrintedArguments(args), args)
<1> DEFINE n == Len(args)
           A(k) == PrintedArgument(args[k])
           sep(k) == IF k = 1 THEN <<>> ELSE <<Comma>>
           seqs == [k \in DOMAIN args |-> sep(k) \o A(k)]
           ws == PrintedArguments(args)
<1>1. n \in Nat \ {0} /\ DOMAIN args = 1 .. n /\ args \in Seq(Argument)
  BY EmptySeq, LenProperties DEF PlainArguments
<1> HIDE DEF n
<1>2. \A k \in 1 .. n : args[k] \in Argument /\ ArgumentIsPlain(args[k])
  BY <1>1, ElementOfSeq DEF PlainArguments, n
<1>3. \A k \in 1 .. n : A(k) \in Seq(ArgumentWord) /\ Len(A(k)) \in Nat \ {0}
  BY <1>2, ArgumentPrinted
<1> HIDE DEF A
<1>4. \A k \in 1 .. n : A(k) \in Seq(ListWord) /\ sep(k) \in Seq(ListWord) /\ Len(sep(k)) = IF k = 1 THEN 0 ELSE 1
  <2>1. ASSUME NEW k \in 1 .. n PROVE A(k) \in Seq(ListWord)
    <3>1. ArgumentWord \subseteq ListWord
      BY DEF ListWord
    <3> QED
      BY <1>3, <3>1, SeqMonotonic
  <2>2. Comma \in ListWord
    BY DEF ListWord
  <2> QED
    BY <2>1, <2>2
<1>5. \A k \in 1 .. n : sep(k) \o A(k) \in Seq(ListWord) /\ Len(sep(k) \o A(k)) = Len(sep(k)) + Len(A(k))
  BY <1>4, ConcatProperties
<1>6. seqs \in Seq(Seq(ListWord)) /\ Len(seqs) = n
  <2>1. seqs = [k \in 1 .. n |-> sep(k) \o A(k)]
    BY <1>1
  <2>2. seqs \in [1 .. n -> Seq(ListWord)]
    BY <1>5, <2>1
  <2> QED
    BY <1>1, <2>2
<1>7. ws = FlattenSeq(seqs)
  BY DEF PrintedArguments, A
<1>8. \A k \in 1 .. n : seqs[k] = sep(k) \o A(k)
  BY <1>1
<1> HIDE DEF seqs, ws
<1>9. PICK f \in [1 .. n -> Seq(ListWord)] : Joined(f, seqs, n) /\ ws = f[n]
  BY <1>1, <1>6, <1>7, FlattenJoins
<1> DEFINE L(k) == Len(f[k])
           e == [k \in 0 .. n |-> IF k = 0 THEN 0 ELSE L(k) + 1]
<1>10. \A k \in 1 .. n : f[k] \in Seq(ListWord) /\ L(k) \in Nat
  BY <1>9, LenProperties
<1>11. e \in [0 .. n -> Nat] /\ e[0] = 0 /\ \A k \in 1 .. n : e[k] = L(k) + 1
  <2>1. \A k \in 0 .. n : k # 0 => k \in 1 .. n
    BY <1>1
  <2>2. \A k \in 1 .. n : k # 0 /\ k \in 0 .. n
    BY <1>1
  <2>3. 0 \in 0 .. n
    BY <1>1
  <2> HIDE DEF L
  <2> QED
    BY <1>10, <2>1, <2>2, <2>3
<1> HIDE DEF e, L
<1>12. \A k \in 1 .. n : \A i \in 1 .. L(k) : ws[i] = f[k][i]
  <2>1. n \in Nat /\ n # 0
    BY <1>1
  <2>2. Grows(f, n)
    <3>1. Joined(f, seqs, n) /\ f \in [1 .. n -> Seq(ListWord)]
      BY <1>9
    <3>2. \A k \in 1 .. n : seqs[k] \in Seq(ListWord)
      BY <1>5, <1>8
    <3> QED
      BY ONLY <2>1, <3>1, <3>2, JoinedPrefix
  <2> QED
    BY <2>2, <1>9 DEF L, Grows
<1>13. ASSUME NEW k \in 1 .. n
       PROVE  /\ e[k] = e[k - 1] + Len(A(k)) + 1
              /\ \A i \in 1 .. Len(A(k)) : ws[e[k - 1] + i] = A(k)[i]
              /\ k # 1 => ws[e[k - 1]] = Comma
  <2>1. CASE k = 1
    <3>1. f[1] = <<>> \o A(1) /\ 1 \in 1 .. n
      BY <1>8, <1>9, <2>1, <1>13 DEF Joined
    <3>2. f[1] = A(1)
      BY <1>4, <3>1, ConcatEmptySeq
    <3>3. L(1) = Len(A(1)) /\ k - 1 = 0
      BY <3>2, <2>1 DEF L
    <3>4. \A i \in 1 .. Len(A(1)) : 0 + i = i /\ ws[i] = A(1)[i]
      BY <1>12, <3>1, <3>2, <3>3
    <3>5. Len(A(1)) \in Nat
      BY <1>3, <3>1
    <3> QED
      BY <1>11, <2>1, <3>1, <3>3, <3>4, <3>5
  <2>2. CASE k # 1
    <3> DEFINE p == f[k - 1]
               q == <<Comma>> \o A(k)
    <3>1. k \in 2 .. n /\ k - 1 \in 1 .. n /\ k - 1 # 0
      BY <1>1, <1>13, <2>2
    <3>2. f[k] = p \o q
      BY <1>8, <1>9, <2>2, <3>1, <1>13 DEF Joined
    <3>3. p \in Seq(ListWord) /\ Len(p) = L(k - 1) /\ L(k - 1) \in Nat /\ e[k - 1] = L(k - 1) + 1 /\ e[k] = L(k) + 1
      BY <1>10, <1>11, <1>13, <3>1 DEF L
    <3>4. /\ <<Comma>> \in Seq(ListWord) /\ Len(<<Comma>>) = 1 /\ A(k) \in Seq(ListWord) /\ <<Comma>>[1] = Comma
      BY <1>4 DEF ListWord
    <3>5. /\ q \in Seq(ListWord) /\ Len(q) = 1 + Len(A(k)) /\ q[1] = Comma
          /\ \A i \in 1 .. Len(A(k)) : q[1 + i] = A(k)[i]
      <4> DEFINE s == A(k)
      <4>1. Len(s) \in Nat /\ s \in Seq(ListWord) /\ Comma \in ListWord
        BY <1>3, <1>4 DEF ListWord
      <4> HIDE DEF s
      <4>2. /\ <<Comma>> \o s \in Seq(ListWord) /\ Len(<<Comma>> \o s) = 1 + Len(s) /\ (<<Comma>> \o s)[1] = Comma
            /\ \A i \in 1 .. Len(s) : (<<Comma>> \o s)[1 + i] = s[i]
        BY <4>1, WithComma
      <4> QED
        BY <4>2 DEF s
    <3> HIDE DEF p, q
    <3> DEFINE a == L(k - 1)
               b == Len(A(k))
    <3>6. a \in Nat /\ b \in Nat
      BY <1>3, <3>3
    <3>7. Len(p) = a /\ Len(q) = 1 + b
      BY <3>3, <3>5
    <3>9. \A i \in 1 .. L(k) : ws[i] = f[k][i]
      BY <1>12
    <3> HIDE DEF a, b
    <3>8. /\ Len(p \o q) = a + (1 + b)
          /\ \A i \in 1 .. 1 + b : (p \o q)[a + i] = q[i]
      <4>1. /\ Len(p \o q) = Len(p) + Len(q)
            /\ \A i \in 1 .. Len(q) : (p \o q)[Len(p) + i] = q[i]
        <5>1. p \in Seq(ListWord) /\ q \in Seq(ListWord)
          BY <3>3, <3>5
        <5> QED
          BY <5>1, ConcatAt
      <4> QED
        BY <3>7, <4>1
    <3>10. /\ 1 \in 1 .. 1 + b /\ \A i \in 1 .. 1 + b : a + i \in 1 .. a + (1 + b)
           /\ \A i \in 1 .. b : 1 + i \in 1 .. 1 + b /\ a + (1 + i) = (a + 1) + i
      BY <3>6
    <3>17. L(k) = a + (1 + b)
      BY <3>2, <3>8 DEF L
    <3>18. \A i \in 1 .. 1 + b : ws[a + i] = q[i]
      BY <3>2, <3>8, <3>9, <3>10, <3>17
    <3>11. ws[a + 1] = Comma
      BY <3>5, <3>10, <3>18
    <3>12. \A i \in 1 .. b : ws[(a + 1) + i] = q[1 + i]
      BY <3>10, <3>18
    <3>13. e[k - 1] = a + 1 /\ e[k] = (a + (1 + b)) + 1
      BY <3>3, <3>17 DEF a
    <3>14. e[k] = e[k - 1] + b + 1
      BY <3>6, <3>13
    <3>15. \A i \in 1 .. b : ws[e[k - 1] + i] = A(k)[i]
      BY <3>5, <3>12, <3>13 DEF b
    <3>16. ws[e[k - 1]] = Comma
      BY <3>11, <3>13
    <3> QED
      BY <3>14, <3>15, <3>16 DEF b
  <2> QED
    BY <2>1, <2>2
<1>14. ws \in Seq(ListWord) /\ e[n] = Len(ws) + 1
  <2>1. n \in 1 .. n
    BY <1>1
  <2> QED
    BY <2>1, <1>9, <1>10, <1>11 DEF L
<1>15. \A k \in 1 .. n - 1 : ws[e[k]] = Comma
  <2>1. ASSUME NEW k \in 1 .. n - 1 PROVE ws[e[k]] = Comma
    <3>1. k + 1 \in 1 .. n /\ (k + 1) - 1 = k /\ k + 1 # 1
      BY <1>1, <2>1
    <3>2. ws[e[(k + 1) - 1]] = Comma
      BY <1>13, <3>1
    <3> QED
      BY <3>1, <3>2
  <2> QED
    BY <2>1
<1>16. Laid(e, ws, args)
  BY <1>11, <1>13, <1>14, <1>15 DEF Laid, n, A
<1> QED
  BY <1>11, <1>16 DEF ws, n

\* A list of increasing numbers, as a set: as many as the list is long, and the k-th is the k-th.
Increasing(e, n) == e \in [0 .. n -> Nat] /\ \A k \in 1 .. n : e[k - 1] < e[k]

LEMMA IncreasesFar ==
    ASSUME NEW n \in Nat, NEW e, Increasing(e, n)
    PROVE  \A k \in 0 .. n : \A j \in 0 .. n : j < k => e[j] < e[k]
<1> DEFINE P(k) == \A j \in 0 .. n : j < k => e[j] < e[k]
           T == {k \in 0 .. n : ~P(k)}
<1>1. SUFFICES ASSUME T # {} PROVE FALSE
  OBVIOUS
<1>2. T \subseteq Nat
  OBVIOUS
<1> DEFINE m == Min(T)
<1>3. m \in T /\ \A k \in T : m <= k
  BY <1>1, <1>2, MinExists
<1> HIDE DEF m
<1>4. m \in 0 .. n /\ ~P(m)
  BY <1>3
<1>5. PICK j \in 0 .. n : j < m /\ ~(e[j] < e[m])
  BY <1>4
<1>6. m \in 1 .. n /\ m - 1 \in 0 .. n /\ ~(m <= m - 1)
  BY <1>4, <1>5
<1>7. P(m - 1)
  BY <1>3, <1>6
<1>8. e[m - 1] < e[m] /\ e[m - 1] \in Nat /\ e[m] \in Nat /\ e[j] \in Nat
  BY <1>4, <1>5, <1>6 DEF Increasing
<1>9. CASE j = m - 1
  BY <1>5, <1>8, <1>9
<1>10. CASE j # m - 1
  <2>1. j < m - 1
    BY <1>4, <1>5, <1>10
  <2>2. e[j] < e[m - 1]
    BY <1>5, <1>7, <2>1
  <2> QED
    BY <1>5, <1>8, <2>2
<1> QED
  BY <1>9, <1>10

UpTo(e, m) == {e[k] : k \in 1 .. m}

LEMMA CountIncreasing ==
    ASSUME NEW n \in Nat, NEW e, Increasing(e, n), NEW m \in 0 .. n
    PROVE  IsFiniteSet(UpTo(e, m)) /\ Cardinality(UpTo(e, m)) = m
<1> DEFINE S == {e[k] : k \in 1 .. m}
           g == [k \in 1 .. m |-> e[k]]
<1>1. g \in [1 .. m -> S]
  OBVIOUS
<1>2. ASSUME NEW i \in 1 .. m, NEW j \in 1 .. m, g[i] = g[j] PROVE i = j
  <2>1. i \in 0 .. n /\ j \in 0 .. n /\ e[i] = e[j]
    BY <1>2
  <2>2. e[i] \in Nat
    BY <2>1 DEF Increasing
  <2>3. ~(i < j) /\ ~(j < i)
    BY <2>1, <2>2, IncreasesFar
  <2> QED
    BY <2>1, <2>3
<1>3. \A t \in S : \E k \in 1 .. m : g[k] = t
  OBVIOUS
<1> HIDE DEF S, g
<1>4. g \in Bijection(1 .. m, S)
  <2>1. g \in Injection(1 .. m, S)
    BY <1>1, <1>2 DEF Injection, IsInjective
  <2>2. g \in Surjection(1 .. m, S)
    BY <1>1, <1>3 DEF Surjection
  <2> QED
    BY <2>1, <2>2 DEF Bijection
<1>5. ExistsBijection(1 .. m, S)
  BY <1>4 DEF ExistsBijection
<1>6. IsFiniteSet(1 .. m) /\ Cardinality(1 .. m) = m
  <2>1. 1 \in Int /\ m \in Int /\ m \in Nat
    OBVIOUS
  <2>2. IsFiniteSet(1 .. m) /\ Cardinality(1 .. m) = IF 1 > m THEN 0 ELSE m - 1 + 1
    BY ONLY <2>1, FS_Interval
  <2>3. (IF 1 > m THEN 0 ELSE m - 1 + 1) = m
    BY <2>1
  <2> QED
    BY <2>2, <2>3
<1>7. IsFiniteSet(S) /\ Cardinality(S) = Cardinality(1 .. m)
  BY <1>5, <1>6, FS_Bijection
<1> QED
  BY <1>6, <1>7 DEF S, UpTo

LEMMA NthIncreasing ==
    ASSUME NEW n \in Nat, NEW e, Increasing(e, n), NEW E, E = UpTo(e, n)
    PROVE  Cardinality(E) = n /\ \A k \in 1 .. n : Nth(E, k) = e[k]
<1>1. Cardinality(E) = n
  <2>1. n \in 0 .. n
    OBVIOUS
  <2> QED
    BY <2>1, CountIncreasing
<1>2. ASSUME NEW k \in 1 .. n PROVE Rank(E, e[k]) = k
  <2>1. {h \in E : h <= e[k]} = UpTo(e, k)
    <3>1. ASSUME NEW j \in 1 .. n PROVE e[j] <= e[k] <=> j <= k
      <4>1. j \in 0 .. n /\ k \in 0 .. n /\ j \in Nat /\ k \in Nat
        BY <1>2, <3>1
      <4>2. e[j] \in Nat /\ e[k] \in Nat
        BY <4>1 DEF Increasing
      <4>3. (j < k => e[j] < e[k]) /\ (k < j => e[k] < e[j])
        BY <4>1, IncreasesFar
      <4> QED
        BY <4>1, <4>2, <4>3
    <3>2. \A h \in E : h <= e[k] => h \in UpTo(e, k)
      <4>1. ASSUME NEW h \in E, h <= e[k] PROVE h \in UpTo(e, k)
        <5>1. PICK j \in 1 .. n : h = e[j]
          BY <4>1 DEF UpTo
        <5>2. j \in 1 .. k
          BY <3>1, <4>1, <5>1
        <5> QED
          BY <5>1, <5>2 DEF UpTo
      <4> QED
        BY <4>1
    <3>3. \A j \in 1 .. k : j \in 1 .. n /\ j <= k
      BY <1>2
    <3>4. \A j \in 1 .. k : e[j] \in E /\ e[j] <= e[k]
      BY <3>1, <3>3 DEF UpTo
    <3>5. \A h \in UpTo(e, k) : h \in E /\ h <= e[k]
      BY <3>4 DEF UpTo
    <3> QED
      BY <3>2, <3>5
  <2>2. k \in 0 .. n
    BY <1>2
  <2>3. Cardinality(UpTo(e, k)) = k
    BY <2>2, CountIncreasing
  <2> QED
    BY <2>1, <2>3 DEF Rank
<1>3. ASSUME NEW k \in 1 .. n PROVE Nth(E, k) = e[k]
  <2>1. e[k] \in E /\ Rank(E, e[k]) = k
    BY <1>2, <1>3 DEF UpTo
  <2>2. \A i \in E : Rank(E, i) = k => i = e[k]
    BY <1>2 DEF UpTo
  <2> QED
    BY <2>1, <2>2 DEF Nth
<1> QED
  BY <1>1, <1>3

\* The words of a printed list: no brackets, and commas at the ends of pieces only.
EndsAtCommas(e, n, ws) ==
    /\ Increasing(e, n) /\ e[n] = Len(ws) + 1 /\ Len(ws) \in Nat
    /\ \A i \in 1 .. Len(ws) : ws[i] \notin Marks
    /\ \A i \in 1 .. Len(ws) : ws[i] = Comma => \E k \in 1 .. n - 1 : i = e[k]
    /\ \A k \in 1 .. n - 1 : e[k] \in 1 .. Len(ws) /\ ws[e[k]] = Comma

LEMMA LaidWords ==
    ASSUME NEW args, PlainArguments(args), NEW n \in Nat, n = Len(args), n # 0,
           NEW ws, NEW e \in [0 .. n -> Nat], Laid(e, ws, args)
    PROVE  EndsAtCommas(e, n, ws)
<1> DEFINE A(k) == PrintedArgument(args[k])
<1>1. \A k \in 1 .. n : args[k] \in Argument /\ ArgumentIsPlain(args[k])
  <2>1. DOMAIN args = 1 .. n /\ args \in Seq(Argument)
    BY LenProperties DEF PlainArguments
  <2> QED
    BY <2>1, ElementOfSeq DEF PlainArguments
<1>2. \A k \in 1 .. n : /\ Len(A(k)) \in Nat \ {0}
                        /\ \A i \in 1 .. Len(A(k)) : A(k)[i] # Comma /\ A(k)[i] \notin Marks
  BY <1>1, ArgumentPrinted
<1> HIDE DEF A
<1>3. /\ ws \in Seq(ListWord) /\ e[0] = 0 /\ e[n] = Len(ws) + 1
      /\ \A k \in 1 .. n : /\ e[k] = e[k - 1] + Len(A(k)) + 1
                           /\ \A i \in 1 .. Len(A(k)) : ws[e[k - 1] + i] = A(k)[i]
      /\ \A k \in 1 .. n - 1 : ws[e[k]] = Comma
  BY DEF Laid, A
<1>4. Len(ws) \in Nat
  BY <1>3, LenProperties
<1>5. \A k \in 1 .. n : k - 1 \in 0 .. n /\ k \in 0 .. n /\ e[k - 1] \in Nat /\ e[k] \in Nat
  OBVIOUS
<1>6. Increasing(e, n)
  <2>1. ASSUME NEW k \in 1 .. n PROVE e[k - 1] < e[k]
    <3> DEFINE a == e[k - 1]
               b == Len(A(k))
    <3>1. a \in Nat /\ b \in Nat /\ e[k] = a + b + 1
      BY <1>2, <1>3, <1>5
    <3> HIDE DEF a, b
    <3>2. a < a + b + 1
      BY <3>1
    <3> QED
      BY <3>1, <3>2 DEF a
  <2> QED
    BY <2>1 DEF Increasing
<1>7. \A k \in 1 .. n - 1 : e[k] \in 1 .. Len(ws)
  <2>1. ASSUME NEW k \in 1 .. n - 1 PROVE e[k] \in 1 .. Len(ws)
    <3>1. k \in 0 .. n /\ n \in 0 .. n /\ 0 \in 0 .. n /\ k < n /\ 0 < k
      BY <2>1
    <3>2. e[k] < e[n] /\ e[0] < e[k] /\ e[k] \in Nat
      BY <1>6, <3>1, IncreasesFar
    <3> QED
      BY <1>3, <1>4, <3>2
  <2> QED
    BY <2>1
<1>8. ASSUME NEW i \in 1 .. Len(ws)
      PROVE  ws[i] \notin Marks /\ (ws[i] = Comma => \E k \in 1 .. n - 1 : i = e[k])
  <2> DEFINE T == {k \in 1 .. n : i <= e[k]}
  <2>1. T \subseteq Nat /\ T # {}
    <3>1. n \in 1 .. n /\ i <= e[n]
      BY <1>3, <1>4, <1>8
    <3> QED
      BY <3>1
  <2> DEFINE m == Min(T)
  <2>2. m \in T /\ \A k \in T : m <= k
    BY <2>1, MinExists
  <2> HIDE DEF m
  <2>3. m \in 1 .. n /\ i <= e[m]
    BY <2>2
  <2>4. e[m - 1] < i
    <3>1. CASE m = 1
      BY <1>3, <1>8, <3>1
    <3>2. CASE m # 1
      <4>1. m - 1 \in 1 .. n /\ ~(m <= m - 1)
        BY <2>3, <3>2
      <4>2. ~(i <= e[m - 1])
        BY <2>2, <4>1
      <4> QED
        BY <1>5, <1>8, <2>3, <4>2
    <3> QED
      BY <3>1, <3>2
  <2>5. CASE i = e[m]
    <3>1. m \in 1 .. n - 1
      BY <1>3, <1>4, <1>8, <2>3, <2>5
    <3>2. ws[i] = Comma
      BY <1>3, <2>5, <3>1
    <3>3. Comma \notin Marks
      BY MarksDiffer DEF Marks
    <3> QED
      BY <2>5, <3>1, <3>2, <3>3
  <2>6. CASE i # e[m]
    <3> DEFINE a == e[m - 1]
               b == Len(A(m))
               h == i - a
    <3>1. a \in Nat /\ b \in Nat /\ e[m] = a + b + 1 /\ i \in Nat /\ a < i /\ i < e[m]
      BY <1>2, <1>3, <1>5, <1>8, <2>3, <2>4, <2>6
    <3>2. \A j \in 1 .. b : ws[a + j] = A(m)[j] /\ A(m)[j] # Comma /\ A(m)[j] \notin Marks
      BY <1>2, <1>3, <2>3
    <3> HIDE DEF a, b
    <3>3. h \in 1 .. b /\ a + h = i
      BY <3>1
    <3> QED
      BY <3>2, <3>3
  <2> QED
    BY <2>5, <2>6
<1> QED
  BY <1>3, <1>4, <1>6, <1>7, <1>8 DEF EndsAtCommas

\* The pieces of a printed list are what was printed, whichever brackets count.
LEMMA PiecesOfLaid ==
    ASSUME NEW args, PlainArguments(args), NEW n \in Nat, n = Len(args), n # 0,
           NEW ws, NEW e \in [0 .. n -> Nat], Laid(e, ws, args),
           NEW open, NEW close, open \subseteq Marks, close \subseteq Marks
    PROVE  BetweenCommas(ws, open, close) = [k \in 1 .. n |-> PrintedArgument(args[k])]
<1> DEFINE E == PieceEnds(ws, open, close)
           A(k) == PrintedArgument(args[k])
           start(k) == IF k = 1 THEN 1 ELSE Nth(E, k - 1) + 1
<1>1. /\ Increasing(e, n) /\ e[n] = Len(ws) + 1 /\ Len(ws) \in Nat
      /\ \A i \in 1 .. Len(ws) : ws[i] \notin Marks
      /\ \A i \in 1 .. Len(ws) : ws[i] = Comma => \E k \in 1 .. n - 1 : i = e[k]
      /\ \A k \in 1 .. n - 1 : e[k] \in 1 .. Len(ws) /\ ws[e[k]] = Comma
  <2>1. EndsAtCommas(e, n, ws)
    BY LaidWords
  <2> QED
    BY <2>1 DEF EndsAtCommas
<1>2. \A i \in 1 .. Len(ws) : \A marks \in SUBSET Marks : Count(ws, 1, i, marks) = 0
  <2>1. ASSUME NEW i \in 1 .. Len(ws), NEW marks \in SUBSET Marks PROVE Count(ws, 1, i, marks) = 0
    <3>1. {k \in 1 .. i : ws[k] \in marks} = {}
      <4>1. \A k \in 1 .. i : k \in 1 .. Len(ws)
        BY <1>1, <2>1
      <4> QED
        BY <1>1, <2>1, <4>1
    <3> QED
      BY <3>1, FS_EmptySet DEF Count
  <2> QED
    BY <2>1
<1>3. ws \in Seq(ListWord) /\ DOMAIN ws = 1 .. Len(ws)
  BY LenProperties DEF Laid
<1>4. E = {Len(ws) + 1} \cup {i \in 1 .. Len(ws) : ws[i] = Comma}
  <2>1. open \in SUBSET Marks /\ close \in SUBSET Marks
    OBVIOUS
  <2>2. \A i \in 1 .. Len(ws) : Count(ws, 1, i, open) = Count(ws, 1, i, close)
    BY <1>2, <2>1
  <2> QED
    BY <1>3, <2>2 DEF PieceEnds
<1>5. E = UpTo(e, n)
  <2>1. \A i \in E : i \in UpTo(e, n)
    <3>1. ASSUME NEW i \in E PROVE \E k \in 1 .. n : i = e[k]
      <4>1. CASE i = Len(ws) + 1
        <5>1. n \in 1 .. n
          OBVIOUS
        <5> QED
          BY <1>1, <4>1, <5>1
      <4>2. CASE i \in 1 .. Len(ws) /\ ws[i] = Comma
        <5>1. PICK k \in 1 .. n - 1 : i = e[k]
          BY <1>1, <4>2
        <5>2. k \in 1 .. n
          BY <5>1
        <5> QED
          BY <5>1, <5>2
      <4> QED
        BY <1>4, <3>1, <4>1, <4>2
    <3> QED
      BY <3>1 DEF UpTo
  <2>2. ASSUME NEW k \in 1 .. n PROVE e[k] \in E
    <3>1. CASE k = n
      BY <1>1, <1>4, <3>1
    <3>2. CASE k # n
      <4>1. k \in 1 .. n - 1
        BY <3>2
      <4> QED
        BY <1>1, <1>4, <4>1
    <3> QED
      BY <3>1, <3>2
  <2>3. \A i \in UpTo(e, n) : i \in E
    BY <2>2 DEF UpTo
  <2> HIDE DEF E
  <2> QED
    BY <2>1, <2>3
<1>6. BetweenCommas(ws, open, close) = [k \in 1 .. Cardinality(E) |-> SubSeq(ws, start(k), Nth(E, k) - 1)]
  BY DEF BetweenCommas
<1> HIDE DEF E
<1>7. Cardinality(E) = n /\ \A k \in 1 .. n : Nth(E, k) = e[k]
  BY <1>1, <1>5, NthIncreasing
<1>8. ASSUME NEW k \in 1 .. n PROVE SubSeq(ws, start(k), Nth(E, k) - 1) = A(k)
  <2>1. start(k) = e[k - 1] + 1
    <3>1. CASE k = 1
      BY <3>1 DEF Laid
    <3>2. CASE k # 1
      <4>1. k - 1 \in 1 .. n
        BY <1>8, <3>2
      <4> QED
        BY <1>7, <3>2, <4>1
    <3> QED
      BY <3>1, <3>2
  <2>2. A(k) \in Seq(ArgumentWord) /\ Len(A(k)) \in Nat \ {0}
    <3>1. args[k] \in Argument /\ ArgumentIsPlain(args[k])
      <4>1. DOMAIN args = 1 .. n /\ args \in Seq(Argument)
        BY LenProperties DEF PlainArguments
      <4> QED
        BY <1>8, <4>1, ElementOfSeq DEF PlainArguments
    <3> QED
      BY <3>1, ArgumentPrinted
  <2>3. /\ e[k] = e[k - 1] + Len(A(k)) + 1
        /\ \A i \in 1 .. Len(A(k)) : ws[e[k - 1] + i] = A(k)[i]
    BY <1>8 DEF Laid
  <2> DEFINE a == e[k - 1]
             b == Len(A(k))
             s == SubSeq(ws, a + 1, a + b)
             t == A(k)
  <2>4. a \in Nat /\ b \in Nat \ {0} /\ e[k] = a + b + 1
    <3>1. k - 1 \in 0 .. n
      BY <1>8
    <3> QED
      BY <2>2, <2>3, <3>1
  <2>5. SubSeq(ws, start(k), Nth(E, k) - 1) = s
    <3>1. Nth(E, k) - 1 = a + b
      <4> HIDE DEF a, b
      <4> QED
        BY <1>7, <1>8, <2>4
    <3> QED
      BY <2>1, <3>1
  <2>6. t \in Seq(ArgumentWord) /\ Len(t) = b /\ \A i \in 1 .. b : ws[a + i] = t[i]
    BY <2>2, <2>3
  <2>7. ASSUME NEW i \in a + 1 .. a + b PROVE ws[i] \in ArgumentWord
    <3> HIDE DEF a, b, t
    <3>1. i - a \in 1 .. b /\ a + (i - a) = i
      BY <2>4, <2>7
    <3>2. t[i - a] \in ArgumentWord
      BY <2>6, <3>1, ElementOfSeq
    <3> QED
      BY <2>6, <3>1, <3>2
  <2> HIDE DEF a, b, t
  <2>8. a + 1 \in Int /\ a + b \in Int /\ a + 1 <= a + b /\ (a + b) - (a + 1) + 1 = b
    BY <2>4
  <2>9. /\ s \in Seq(ArgumentWord) /\ Len(s) = (a + b) - (a + 1) + 1
        /\ \A i \in 1 .. (a + b) - (a + 1) + 1 : s[i] = ws[(a + 1) + i - 1]
    BY ONLY <2>7, <2>8, SubSeqProperties
  <2> HIDE DEF s
  <2>10. Len(s) = b /\ \A i \in 1 .. b : s[i] = t[i]
    <3>1. \A i \in 1 .. b : (a + 1) + i - 1 = a + i
      BY <2>4
    <3> QED
      BY <2>6, <2>8, <2>9, <3>1
  <2>11. s = t
    BY <2>6, <2>9, <2>10, SeqEqual
  <2> QED
    BY <2>5, <2>11 DEF t
<1> HIDE DEF start, A
<1>9. [k \in 1 .. n |-> SubSeq(ws, start(k), Nth(E, k) - 1)] = [k \in 1 .. n |-> A(k)]
  BY <1>8
<1> QED
  BY <1>6, <1>7, <1>9 DEF A

\* A function without places is the empty sequence.
LEMMA NoPlaces ==
    ASSUME NEW s, DOMAIN s = {}, s = [k \in DOMAIN s |-> s[k]]
    PROVE  s = <<>>
<1>1. s \in [1 .. 0 -> {}]
  <2>1. 1 .. 0 = {}
    OBVIOUS
  <2> QED
    BY <2>1
<1>2. s \in Seq({}) /\ Len(s) = 0
  BY <1>1
<1> QED
  BY <1>2, EmptySeq

\* The pieces of what is printed are the arguments.
LEMMA PiecesOfPrinted ==
    ASSUME NEW args, PlainArguments(args), args # <<>>,
           NEW open, NEW close, open \subseteq Marks, close \subseteq Marks
    PROVE  BetweenCommas(PrintedArguments(args), open, close) = [k \in 1 .. Len(args) |-> PrintedArgument(args[k])]
<1> DEFINE n == Len(args)
           ws == PrintedArguments(args)
<1>1. n \in Nat /\ n # 0 /\ n = Len(args)
  BY EmptySeq, LenProperties DEF PlainArguments
<1>2. PICK e \in [0 .. n -> Nat] : Laid(e, ws, args)
  BY ListIsLaid
<1> HIDE DEF n, ws
<1>3. BetweenCommas(ws, open, close) = [k \in 1 .. n |-> PrintedArgument(args[k])]
  BY <1>1, <1>2, PiecesOfLaid
<1> QED
  BY <1>3 DEF n, ws

LEMMA NothingPrinted ==
    /\ PrintedArguments(<<>>) = <<>>
    /\ \A open, close : BetweenCommas(<<>>, open, close) = << <<>> >>
<1>1. PrintedArguments(<<>>) = <<>>
  <2> DEFINE s == [k \in DOMAIN <<>> |-> (IF k = 1 THEN <<>> ELSE <<Comma>>) \o PrintedArgument(<<>>[k])]
  <2>1. DOMAIN s = {} /\ s = [k \in DOMAIN s |-> s[k]]
    OBVIOUS
  <2> HIDE DEF s
  <2>2. s = <<>>
    BY <2>1, NoPlaces
  <2>3. FlattenSeq(s) = s
    BY <2>2 DEF FlattenSeq
  <2>4. PrintedArguments(<<>>) = FlattenSeq(s)
    BY DEF PrintedArguments, s
  <2> QED
    BY <2>2, <2>3, <2>4
<1>2. ASSUME NEW open, NEW close PROVE BetweenCommas(<<>>, open, close) = << <<>> >>
  <2> DEFINE E == PieceEnds(<<>>, open, close)
             start(k) == IF k = 1 THEN 1 ELSE Nth(E, k - 1) + 1
             e == [k \in 0 .. 1 |-> k]
  <2>1. E = {1}
    BY DEF PieceEnds
  <2>2. Increasing(e, 1)
    BY DEF Increasing
  <2>3. {1} = UpTo(e, 1)
    BY DEF UpTo
  <2>4. BetweenCommas(<<>>, open, close) = [k \in 1 .. Cardinality(E) |-> SubSeq(<<>>, start(k), Nth(E, k) - 1)]
    BY DEF BetweenCommas
  <2> HIDE DEF E
  <2>5. Cardinality(E) = 1 /\ \A k \in 1 .. 1 : Nth(E, k) = e[k]
    BY <2>1, <2>2, <2>3, NthIncreasing
  <2>6. Cardinality(E) = 1 /\ Nth(E, 1) = 1
    BY <2>5
  <2>7. SubSeq(<<>>, 1, 0) = <<>>
    BY SubSeqEmpty
  <2>8. \A k \in 1 .. 1 : SubSeq(<<>>, start(k), Nth(E, k) - 1) = <<>>
    <3>1. \A k \in 1 .. 1 : k = 1
      OBVIOUS
    <3> QED
      BY <2>6, <2>7, <3>1
  <2> HIDE DEF start
  <2>9. [k \in 1 .. Cardinality(E) |-> SubSeq(<<>>, start(k), Nth(E, k) - 1)] = [k \in 1 .. 1 |-> <<>>]
    BY <2>6, <2>8
  <2>10. [k \in 1 .. 1 |-> <<>>] = << <<>> >>
    <3> DEFINE s == [k \in 1 .. 1 |-> <<>>]
               t == << <<>> >>
    <3>1. s \in Seq({<<>>}) /\ Len(s) = 1 /\ \A i \in 1 .. 1 : s[i] = <<>>
      OBVIOUS
    <3>2. t \in Seq({<<>>}) /\ Len(t) = 1 /\ t[1] = <<>>
      OBVIOUS
    <3> HIDE DEF s, t
    <3>3. Len(s) = Len(t) /\ \A i \in 1 .. Len(s) : s[i] = t[i]
      BY <3>1, <3>2
    <3>4. s = t
      BY <3>1, <3>2, <3>3, SeqEqual
    <3> QED
      BY <3>4 DEF s, t
  <2> QED
    BY <2>4, <2>9, <2>10
<1> QED
  BY <1>1, <1>2

\* What was put in front is taken off.
LEMMA TakenOff ==
    ASSUME NEW W, NEW c \in W, NEW q \in Seq(W)
    PROVE  Head(<<c>> \o q) = c /\ Tail(<<c>> \o q) = q /\ Len(<<c>> \o q) = Len(q) + 1
<1> DEFINE s == <<c>> \o q
           b == Len(q)
<1>1. b \in Nat
  BY LenProperties
<1>2. s \in Seq(W) /\ Len(s) = 1 + b /\ s[1] = c /\ \A i \in 1 .. b : s[1 + i] = q[i]
  <2>1. b = Len(q)
    OBVIOUS
  <2> HIDE DEF b
  <2> QED
    BY <1>1, <2>1, WithComma
<1> HIDE DEF s
<1>3. s # <<>>
  <2>1. Len(s) # 0
    <3> HIDE DEF b
    <3> QED
      BY <1>1, <1>2
  <2> QED
    BY <2>1
<1>4. /\ Tail(s) \in Seq(W) /\ Len(Tail(s)) = Len(s) - 1
      /\ \A i \in 1 .. Len(Tail(s)) : Tail(s)[i] = s[i + 1]
  <2>1. s \in Seq(W)
    BY <1>2
  <2> QED
    BY <1>3, <2>1, HeadTailProperties
<1>5. Head(s) = c
  BY <1>2, <1>3
<1>6. Len(Tail(s)) = b /\ b = Len(q) /\ Len(s) = b + 1
  <2>1. b = Len(q)
    OBVIOUS
  <2> HIDE DEF b
  <2> QED
    BY <1>1, <1>2, <1>4, <2>1
<1> HIDE DEF b
<1>7. \A i \in 1 .. b : Tail(s)[i] = q[i]
  <2>1. \A i \in 1 .. b : i + 1 = 1 + i
    BY <1>1
  <2> QED
    BY <1>2, <1>4, <1>6, <2>1
<1>8. Tail(s) = q
  BY <1>4, <1>6, <1>7, SeqEqual
<1> QED
  BY <1>5, <1>6, <1>8 DEF s

\* What is read of a printed argument is the argument, unless its name is the name of a type.
LEMMA ArgumentIsRead ==
    ASSUME NEW a \in Argument, ArgumentIsPlain(a)
    PROVE  parseOneArgument(PrintedArgument(a)) = a <=> a.name \notin CommonTypes
<1> DEFINE ws == PrintedArgument(a)
           rest == (IF a.name = NoWord THEN <<>> ELSE <<a.name>>) \o a.type
           moded == Len(ws) > 1 /\ ws[1] \in ArgModes
           W == STRING \cup ArgModes
<1>1. /\ a.mode \in ArgModes \cup {NoWord} /\ a.name \in STRING /\ a.type \in Seq(STRING) /\ a.type # <<>>
      /\ a = [mode |-> a.mode, name |-> a.name, type |-> a.type]
      /\ a.name \notin ArgModes /\ (a.name = NoWord => Len(a.type) = 1 \/ a.type[1] \in CommonTypes)
  BY DEF Argument, ArgumentIsPlain
<1>2. Len(a.type) \in Nat \ {0} /\ a.type \in Seq(W)
  <2>1. STRING \subseteq W
    OBVIOUS
  <2> QED
    BY <1>1, <2>1, EmptySeq, SeqMonotonic
<1>3. NoWord \notin CommonTypes /\ NoWord \notin ArgModes /\ \A w \in CommonTypes : w \notin ArgModes
  <2>1. NoWord \notin CommonTypes
    BY Zenon DEF NoWord, CommonTypes
  <2>2. NoWord \notin ArgModes
    BY Zenon DEF NoWord, ArgModes
  <2>3. \A w \in CommonTypes : w \notin ArgModes
    BY DEF CommonTypes, ArgModes
  <2> QED
    BY <2>1, <2>2, <2>3
\* The name and the type.
<1>4. rest \in Seq(W) /\ Len(rest) \in Nat \ {0} /\ (a.name # NoWord => rest[1] = a.name /\ Len(rest) > 1 /\ Head(rest) = a.name /\ Tail(rest) = a.type)
      /\ (a.name = NoWord => rest = a.type)
  <2>1. CASE a.name = NoWord
    <3>1. rest = a.type
      BY <1>2, <2>1, ConcatEmptySeq
    <3> HIDE DEF rest
    <3> QED
      BY <1>2, <2>1, <3>1
  <2>2. CASE a.name # NoWord
    <3> DEFINE c == a.name
               q == a.type
    <3>1. c \in W /\ q \in Seq(W)
      BY <1>1, <1>2
    <3>2. rest = <<c>> \o q
      BY <2>2
    <3> HIDE DEF c, q, rest, W
    <3>3. Head(rest) = c /\ Tail(rest) = q /\ Len(rest) = Len(q) + 1
      BY <3>1, <3>2, TakenOff
    <3>4. rest \in Seq(W) /\ rest[1] = c
      <4>1. Len(q) \in Nat
        BY <1>2 DEF q
      <4> QED
        BY <3>1, <3>2, <4>1, WithComma
    <3>5. Len(rest) \in Nat \ {0} /\ Len(rest) > 1
      BY <1>2, <3>3 DEF q
    <3> QED
      BY <2>2, <3>3, <3>4, <3>5 DEF c, q
  <2> QED
    BY <2>1, <2>2
<1>5. ws = (IF a.mode = NoWord THEN <<>> ELSE <<a.mode>>) \o rest
  <2>1. ws = ((IF a.mode = NoWord THEN <<>> ELSE <<a.mode>>) \o (IF a.name = NoWord THEN <<>> ELSE <<a.name>>)) \o a.type
    BY DEF PrintedArgument
  <2> DEFINE m == IF a.mode = NoWord THEN <<>> ELSE <<a.mode>>
             x == IF a.name = NoWord THEN <<>> ELSE <<a.name>>
  <2>2. m \in Seq(W) /\ x \in Seq(W)
    <3>1. a.mode # NoWord => a.mode \in W
      BY <1>1
    <3>2. a.name \in W
      BY <1>1
    <3> HIDE DEF W
    <3>3. a.mode # NoWord => <<a.mode>> \in Seq(W)
      BY <3>1
    <3>4. <<a.name>> \in Seq(W) /\ <<>> \in Seq(W)
      BY <3>2
    <3> QED
      BY <3>3, <3>4
  <2> HIDE DEF m, x
  <2>3. (m \o x) \o a.type = m \o (x \o a.type)
    <3> DEFINE q == a.type
    <3>1. q \in Seq(W)
      BY <1>2
    <3> HIDE DEF q
    <3>2. (m \o x) \o q = m \o (x \o q)
      BY <2>2, <3>1, ConcatAssociative
    <3> QED
      BY <3>2 DEF q
  <2> QED
    BY <2>1, <2>3 DEF m, x
<1> HIDE DEF rest, W
<1>6. splitNameAndType(rest) = [name |-> IF a.name \in CommonTypes THEN NoWord ELSE a.name,
                               type |-> IF a.name \in CommonTypes THEN rest ELSE a.type]
  <2>1. CASE a.name = NoWord
    <3>1. Len(rest) <= 1 \/ rest[1] \in CommonTypes
      <4>1. rest = a.type
        BY <1>4, <2>1
      <4>2. Len(rest) = 1 \/ rest[1] \in CommonTypes
        BY <1>1, <2>1, <4>1
      <4>3. Len(rest) = 1 => Len(rest) <= 1
        OBVIOUS
      <4> HIDE DEF rest
      <4> QED
        BY <4>2, <4>3, Zenon
    <3>2. splitNameAndType(rest) = [name |-> NoWord, type |-> rest]
      BY <3>1 DEF splitNameAndType
    <3> QED
      BY <1>3, <1>4, <2>1, <3>2
  <2>2. CASE a.name # NoWord
    <3>1. Len(rest) \in Nat /\ Len(rest) > 1 /\ rest[1] = a.name
      BY <1>4, <2>2
    <3>2. ~(Len(rest) <= 1)
      BY <3>1
    <3> QED
      BY <1>4, <2>2, <3>1, <3>2 DEF splitNameAndType
  <2> QED
    BY <2>1, <2>2
\* The mode.
<1>7. moded <=> a.mode # NoWord
  <2>1. CASE a.mode = NoWord
    <3>1. ws = rest
      BY <1>4, <1>5, <2>1, ConcatEmptySeq
    <3>2. CASE a.name = NoWord
      <4>1. Len(ws) = 1 \/ ws[1] \in CommonTypes
        BY <1>1, <1>4, <3>1, <3>2
      <4>2. Len(ws) = 1 => ~(Len(ws) > 1)
        OBVIOUS
      <4> HIDE DEF ws
      <4>3. ws[1] \in CommonTypes => ws[1] \notin ArgModes
        BY <1>3
      <4> QED
        BY <2>1, <4>1, <4>2, <4>3
    <3>3. CASE a.name # NoWord
      <4> HIDE DEF ws
      <4> QED
        BY <1>1, <1>4, <2>1, <3>1, <3>3
    <3> QED
      BY <3>2, <3>3
  <2>2. CASE a.mode # NoWord
    <3> DEFINE c == a.mode
    <3>1. c \in W /\ ws = <<c>> \o rest /\ c \in ArgModes
      BY <1>1, <1>5, <2>2 DEF W
    <3> HIDE DEF c, ws
    <3>2. Len(ws) = Len(rest) + 1
      BY <1>4, <3>1, TakenOff
    <3>3. ws[1] = c
      <4>1. Len(rest) \in Nat /\ rest \in Seq(W)
        BY <1>4
      <4> QED
        BY <3>1, <4>1, WithComma
    <3>4. Len(ws) > 1
      BY <1>4, <3>2
    <3> QED
      BY <2>2, <3>1, <3>3, <3>4
  <2> QED
    BY <2>1, <2>2
<1>8. (IF moded THEN Tail(ws) ELSE ws) = rest
  <2>1. CASE a.mode = NoWord
    <3>1. ws = rest
      BY <1>4, <1>5, <2>1, ConcatEmptySeq
    <3> HIDE DEF ws, moded
    <3> QED
      BY <1>7, <2>1, <3>1
  <2>2. CASE a.mode # NoWord
    <3> DEFINE c == a.mode
    <3>1. c \in W /\ ws = <<c>> \o rest
      BY <1>1, <1>5, <2>2 DEF W
    <3> HIDE DEF c, ws
    <3>2. Tail(ws) = rest
      BY <1>4, <3>1, TakenOff
    <3> HIDE DEF moded
    <3> QED
      BY <1>7, <2>2, <3>2
  <2> QED
    BY <2>1, <2>2
<1>9. (IF moded THEN ws[1] ELSE NoWord) = a.mode
  <2>1. CASE a.mode # NoWord
    <3> DEFINE c == a.mode
    <3>1. c \in W /\ ws = <<c>> \o rest
      BY <1>1, <1>5, <2>1 DEF W
    <3> HIDE DEF c, ws
    <3>3. ws[1] = c
      <4>1. Len(rest) \in Nat /\ rest \in Seq(W)
        BY <1>4
      <4> QED
        BY <3>1, <4>1, WithComma
    <3> HIDE DEF moded
    <3> QED
      BY <1>7, <2>1, <3>3 DEF c
  <2> HIDE DEF moded, ws
  <2> QED
    BY <1>7, <2>1
<1>10. parseOneArgument(ws) =
         [mode |-> IF moded THEN ws[1] ELSE NoWord,
          name |-> splitNameAndType(IF moded THEN Tail(ws) ELSE ws).name,
          type |-> splitNameAndType(IF moded THEN Tail(ws) ELSE ws).type]
  BY DEF parseOneArgument
<1> HIDE DEF ws, moded
<1>11. parseOneArgument(ws) =
         [mode |-> a.mode, name |-> IF a.name \in CommonTypes THEN NoWord ELSE a.name,
          type |-> IF a.name \in CommonTypes THEN rest ELSE a.type]
  <2> DEFINE r == splitNameAndType(rest)
             M == IF moded THEN ws[1] ELSE NoWord
             P == IF moded THEN Tail(ws) ELSE ws
  <2>1. parseOneArgument(ws) = [mode |-> M, name |-> splitNameAndType(P).name, type |-> splitNameAndType(P).type]
    BY <1>10
  <2>2. P = rest /\ M = a.mode
    BY <1>8, <1>9
  <2> HIDE DEF P, M
  <2>3. parseOneArgument(ws) = [mode |-> a.mode, name |-> r.name, type |-> r.type]
    BY <2>1, <2>2
  <2>4. /\ r.name = (IF a.name \in CommonTypes THEN NoWord ELSE a.name)
        /\ r.type = (IF a.name \in CommonTypes THEN rest ELSE a.type)
    BY <1>6
  <2> HIDE DEF r
  <2> QED
    BY <2>3, <2>4
<1>12. CASE a.name \notin CommonTypes
  BY <1>1, <1>11, <1>12 DEF ws
<1>13. CASE a.name \in CommonTypes
  <2>1. parseOneArgument(ws).name = NoWord /\ a.name # NoWord
    BY <1>3, <1>11, <1>13
  <2> QED
    BY <1>13, <2>1 DEF ws
<1> QED
  BY <1>12, <1>13

\* The functions of the database, as the assumptions have them.
LEMMA DeclaredIsPlain ==
    ASSUME NEW f \in Database.functions
    PROVE  /\ PlainArguments(f.declared) /\ f.declared \in Seq(Argument)
           /\ TokenType(f.name) \in {"identifier", "keyword"} /\ f.name \notin NonFunctionKeywords
<1>1. Database.functions \subseteq [name : STRING, kind : {"function", "procedure"}, declared : Seq(Argument)]
  BY DatabaseAssumption DEF SchemaInfo
<1>2. f.declared \in Seq(Argument)
  BY <1>1
<1>3. \A k \in DOMAIN f.declared : ArgumentIsPlain(f.declared[k])
  BY FunctionsAssumption
<1> QED
  BY <1>2, <1>3, FunctionsAssumption DEF PlainArguments

\* The pieces of a printed list, and that the last one is not empty.
LEMMA PrintedPieces ==
    ASSUME NEW args, PlainArguments(args), args # <<>>,
           NEW pieces, pieces = [k \in 1 .. Len(args) |-> PrintedArgument(args[k])]
    PROVE  /\ Len(args) \in Nat \ {0} /\ DOMAIN args = 1 .. Len(args)
           /\ DOMAIN pieces = 1 .. Len(args) /\ Len(pieces) = Len(args)
           /\ \A k \in 1 .. Len(args) : /\ args[k] \in Argument /\ ArgumentIsPlain(args[k])
                                        /\ pieces[k] = PrintedArgument(args[k]) /\ pieces[k] # <<>>
<1> DEFINE n == Len(args)
<1>1. n \in Nat \ {0} /\ DOMAIN args = 1 .. n
  BY EmptySeq, LenProperties DEF PlainArguments
<1>2. \A k \in 1 .. n : args[k] \in Argument /\ ArgumentIsPlain(args[k])
  BY <1>1, ElementOfSeq DEF PlainArguments
<1> HIDE DEF n
<1>3. \A k \in 1 .. n : PrintedArgument(args[k]) # <<>>
  BY <1>2, ArgumentPrinted
<1>4. pieces = [k \in 1 .. n |-> PrintedArgument(args[k])]
  BY DEF n
<1>5. \A k \in 1 .. n : pieces[k] = PrintedArgument(args[k])
  BY <1>4
<1>6. pieces \in [1 .. n -> {PrintedArgument(args[k]) : k \in 1 .. n}]
  BY <1>4
<1>7. Len(pieces) = n /\ DOMAIN pieces = 1 .. n
  BY <1>1, <1>6
<1> QED
  BY <1>1, <1>2, <1>3, <1>5, <1>7 DEF n

LEMMA AllAreRead == ArgumentsAreRead
<1> SUFFICES ASSUME NEW f \in Database.functions
             PROVE  LET got == parseFunctionArguments(PrintedArguments(f.declared))
                    IN  /\ Len(got) = Len(f.declared)
                        /\ \A k \in DOMAIN got : got[k] = f.declared[k] <=> f.declared[k].name \notin CommonTypes
  BY DEF ArgumentsAreRead
<1> DEFINE args == f.declared
           ws == PrintedArguments(args)
           got == parseFunctionArguments(ws)
           pieces == BetweenCommas(ws, {"(", "["}, {")", "]"})
<1>1. PlainArguments(args)
  BY DeclaredIsPlain
<1>2. splitArguments(ws) = IF Last(pieces) = <<>> THEN Front(pieces) ELSE pieces
  BY DEF splitArguments
<1>3. got = [k \in DOMAIN splitArguments(ws) |-> parseOneArgument(splitArguments(ws)[k])]
  BY DEF parseFunctionArguments
<1>4. {"(", "["} \subseteq Marks /\ {")", "]"} \subseteq Marks
  BY DEF Marks
<1> HIDE DEF args
<1>5. CASE args = <<>>
  <2>1. pieces = << <<>> >>
    BY <1>5, NothingPrinted
  <2>2. Last(pieces) = <<>>
    BY <2>1 DEF Last
  <2>3. Front(pieces) = <<>>
    <3>2. Len(pieces) = 1
      BY <2>1
    <3>3. 1 - 1 = 0
      OBVIOUS
    <3> HIDE DEF pieces
    <3>1. Front(pieces) = SubSeq(pieces, 1, 0)
      BY <3>2, <3>3 DEF Front
    <3> HIDE DEF pieces
    <3> QED
      BY <3>1, SubSeqEmpty
  <2> HIDE DEF pieces, ws
  <2>4. splitArguments(ws) = <<>>
    BY <1>2, <2>2, <2>3
  <2> HIDE DEF got
  <2>5. DOMAIN got = {} /\ got = [k \in DOMAIN got |-> got[k]]
    BY <1>3, <2>4
  <2>6. got = <<>>
    BY <2>5, NoPlaces
  <2> QED
    BY <1>5, <2>6 DEF got, ws, args
<1>6. CASE args # <<>>
  <2> DEFINE n == Len(args)
  <2>1. pieces = [k \in 1 .. n |-> PrintedArgument(args[k])]
    BY <1>1, <1>4, <1>6, PiecesOfPrinted
  <2> HIDE DEF pieces, ws
  <2>2. /\ n \in Nat \ {0} /\ DOMAIN pieces = 1 .. n /\ Len(pieces) = n
        /\ \A k \in 1 .. n : /\ args[k] \in Argument /\ ArgumentIsPlain(args[k])
                             /\ pieces[k] = PrintedArgument(args[k]) /\ pieces[k] # <<>>
    BY <1>1, <1>6, <2>1, PrintedPieces
  <2> HIDE DEF n
  <2>3. splitArguments(ws) = pieces
    <3>1. n \in 1 .. n
      BY <2>2
    <3>2. Last(pieces) # <<>>
      BY <2>2, <3>1 DEF Last
    <3> QED
      BY <1>2, <3>2
  <2> HIDE DEF got
  <2>4. got = [k \in 1 .. n |-> parseOneArgument(pieces[k])]
    BY <1>3, <2>2, <2>3
  <2>5. Len(got) = n /\ DOMAIN got = 1 .. n
    <3>1. got \in [1 .. n -> {parseOneArgument(pieces[k]) : k \in 1 .. n}]
      BY <2>4
    <3> QED
      BY <2>2, <3>1
  <2>6. ASSUME NEW k \in 1 .. n PROVE got[k] = args[k] <=> args[k].name \notin CommonTypes
    <3>1. got[k] = parseOneArgument(PrintedArgument(args[k]))
      BY <2>2, <2>4
    <3>2. parseOneArgument(PrintedArgument(args[k])) = args[k] <=> args[k].name \notin CommonTypes
      BY <2>2, ArgumentIsRead
    <3> QED
      BY <3>1, <3>2
  <2> QED
    BY <2>5, <2>6 DEF got, ws, args, n
<1> QED
  BY <1>5, <1>6

\* What the signature help is told: one entry for each function.
LEMMA SignaturesCover ==
    /\ DOMAIN Signatures \subseteq Nat
    /\ \A k \in DOMAIN Signatures : \E f \in Database.functions :
          Signatures[k].name = f.name /\ Signatures[k].arguments = PrintedArguments(f.declared)
    /\ \A f \in Database.functions : \E k \in DOMAIN Signatures : Signatures[k].name = f.name
<1> DEFINE rec(f) == [name |-> f.name, arguments |-> PrintedArguments(f.declared)]
           F == Database.functions
           S == {rec(f) : f \in F}
           g == [f \in F |-> rec(f)]
<1>1. IsFiniteSet(F)
  BY DatabaseAssumption
<1>2. g \in Surjection(F, S)
  BY DEF Surjection
<1>3. Signatures = SetToSeq(S)
  BY DEF Signatures
<1>4. \A t \in S : \E f \in F : t = rec(f) /\ t.name = f.name /\ t.arguments = PrintedArguments(f.declared)
  OBVIOUS
<1>5. \A f \in F : rec(f) \in S /\ rec(f).name = f.name
  OBVIOUS
<1> HIDE DEF F, S, g, rec
<1>6. IsFiniteSet(S)
  BY <1>1, <1>2, FS_Surjection
<1> DEFINE n == Cardinality(S)
<1>7. n \in Nat /\ ExistsBijection(1 .. n, S)
  BY <1>6, FS_CardinalityType
<1>8. PICK b \in [1 .. n -> S] : IsInjective(b)
  <2>1. PICK b : b \in Bijection(1 .. n, S)
    BY <1>7 DEF ExistsBijection
  <2>2. b \in Injection(1 .. n, S)
    BY <2>1 DEF Bijection
  <2> QED
    BY <2>2 DEF Injection
<1> DEFINE s == Signatures
<1>9. s \in [1 .. n -> S] /\ IsInjective(s)
  <2>1. s = CHOOSE f \in [1 .. n -> S] : IsInjective(f)
    BY <1>3 DEF SetToSeq
  <2> HIDE DEF s
  <2> QED
    BY <1>8, <2>1
<1> HIDE DEF s
<1>10. s \in Surjection(1 .. n, S)
  <2>1. s \in Injection(1 .. n, S)
    BY <1>9 DEF Injection
  <2>2. Cardinality(1 .. n) = n
    BY <1>7, FS_Interval
  <2>3. Cardinality(1 .. n) = Cardinality(S)
    BY <2>2 DEF n
  <2> QED
    BY <1>6, <2>1, <2>3, FS_Injection
<1>11. \A t \in S : \E k \in 1 .. n : s[k] = t
  BY <1>10 DEF Surjection
<1>12. DOMAIN s = 1 .. n /\ \A k \in 1 .. n : s[k] \in S
  BY <1>9
<1>13. DOMAIN s \subseteq Nat
  BY <1>7, <1>12
<1>14. \A k \in DOMAIN s : \E f \in F : s[k].name = f.name /\ s[k].arguments = PrintedArguments(f.declared)
  BY <1>4, <1>12
<1>15. \A f \in F : \E k \in DOMAIN s : s[k].name = f.name
  BY <1>5, <1>11, <1>12
<1> QED
  BY <1>13, <1>14, <1>15 DEF s, F

\* All pieces are kept when none of them is empty.
LEMMA AllAreKept ==
    ASSUME NEW n \in Nat, NEW pieces, DOMAIN pieces = 1 .. n, pieces = [k \in 1 .. n |-> pieces[k]],
           \A k \in 1 .. n : pieces[k] # <<>>
    PROVE  Keep(pieces, {k \in DOMAIN pieces : pieces[k] # <<>>}) = pieces
<1> DEFINE e == [k \in 0 .. n |-> k]
<1>1. {k \in DOMAIN pieces : pieces[k] # <<>>} = 1 .. n
  OBVIOUS
<1>2. Increasing(e, n)
  BY DEF Increasing
<1>3. \A k \in 1 .. n : e[k] = k
  OBVIOUS
<1> HIDE DEF e
<1>4. 1 .. n = UpTo(e, n)
  <2>1. UpTo(e, n) = {e[k] : k \in 1 .. n}
    BY DEF UpTo
  <2> QED
    BY <1>3, <2>1
<1>5. Cardinality(1 .. n) = n /\ \A k \in 1 .. n : Nth(1 .. n, k) = e[k]
  BY <1>2, <1>4, NthIncreasing
<1>6. Keep(pieces, 1 .. n) = [k \in 1 .. n |-> pieces[Nth(1 .. n, k)]]
  BY <1>5 DEF Keep
<1>7. \A k \in 1 .. n : pieces[Nth(1 .. n, k)] = pieces[k]
  BY <1>3, <1>5
<1>8. Keep(pieces, 1 .. n) = [k \in 1 .. n |-> pieces[k]]
  BY <1>6, <1>7
<1> QED
  BY <1>1, <1>8

LEMMA SignatureIsRead ==
    ASSUME NEW args, PlainArguments(args), args # <<>>
    PROVE  /\ parseSignatureArgs(PrintedArguments(args)) = [k \in DOMAIN args |-> PrintedArgument(args[k])]
           /\ PrintedArguments(args) # <<>>
<1> DEFINE n == Len(args)
           ws == PrintedArguments(args)
           pieces == BetweenCommas(ws, {"("}, {")"})
<1>1. pieces = [k \in 1 .. n |-> PrintedArgument(args[k])]
  <2>1. {"("} \subseteq Marks /\ {")"} \subseteq Marks
    BY DEF Marks
  <2> QED
    BY <2>1, PiecesOfPrinted
<1> HIDE DEF pieces
<1>2. /\ n \in Nat \ {0} /\ DOMAIN args = 1 .. n /\ DOMAIN pieces = 1 .. n
      /\ \A k \in 1 .. n : pieces[k] = PrintedArgument(args[k]) /\ pieces[k] # <<>>
  BY <1>1, PrintedPieces
<1>3. parseSignatureArgs(ws) = Keep(pieces, {k \in DOMAIN pieces : pieces[k] # <<>>})
  BY DEF parseSignatureArgs, pieces
<1> HIDE DEF n, ws
<1>4. pieces = [k \in 1 .. n |-> pieces[k]]
  BY <1>1, <1>2
<1>5. Keep(pieces, {k \in DOMAIN pieces : pieces[k] # <<>>}) = pieces
  BY <1>2, <1>4, AllAreKept
<1>6. parseSignatureArgs(ws) = [k \in DOMAIN args |-> PrintedArgument(args[k])]
  BY <1>1, <1>2, <1>3, <1>5
<1>7. ws # <<>>
  <2>1. SUFFICES ASSUME ws = <<>> PROVE FALSE
    OBVIOUS
  <2>2. pieces = << <<>> >>
    BY <2>1, NothingPrinted DEF pieces
  <2>3. 1 \in DOMAIN pieces /\ pieces[1] = <<>>
    BY <2>2
  <2> QED
    BY <1>2, <2>3
<1> QED
  BY <1>6, <1>7 DEF ws

\* The search goes back to the parentheses that nothing meets.
LEMMA UnmetIsCounted ==
    ASSUME NEW ws \in Seq(STRING)
    PROVE  {i \in DOMAIN ws : ws[i] = "(" /\ Count(ws, i + 1, Len(ws), {"("}) = Count(ws, i + 1, Len(ws), {")"})} = Unmet(ws)
<1> DEFINE n == Len(ws)
<1>1. n \in Nat /\ DOMAIN ws = 1 .. n
  BY LenProperties
<1>2. \A i \in DOMAIN ws : Count(ws, i + 1, n, {"("}) = Count(ws, i + 1, n, {")"}) <=> Depth(ws, i + 1, n) = 0
  <2>1. ASSUME NEW i \in DOMAIN ws
        PROVE  Count(ws, i + 1, n, {"("}) = Count(ws, i + 1, n, {")"}) <=> Depth(ws, i + 1, n) = 0
    <3>1. i + 1 \in Int /\ n \in Int
      BY <1>1, <2>1
    <3>2. Count(ws, i + 1, n, {"("}) \in Nat /\ Count(ws, i + 1, n, {")"}) \in Nat
      BY <3>1, CountIsNat
    <3> QED
      BY <3>2 DEF Depth
  <2> QED
    BY <2>1
<1> QED
  BY <1>2 DEF Unmet

\* The word before the parenthesis is read as the name of the call.
LEMMA CallIsFound ==
    ASSUME NEW ws \in Seq(STRING), NEW c \in Nat, c = Max({0} \cup StillOpen(ws)), c > 1
    PROVE  /\ c \in 2 .. Len(ws) /\ c \in StillOpen(ws)
           /\ getFunctionContext(ws) =
                IF \/ \E i \in c .. Len(ws) : ws[i] = Semicolon
                   \/ TokenType(ws[c - 1]) \notin {"identifier", "keyword"} \/ ws[c - 1] \in NonFunctionKeywords
                THEN NoCall ELSE [name |-> ws[c - 1], at |-> c, argIndex |-> ArgIndex(ws, c)]
<1> DEFINE n == Len(ws)
           open == Max({0} \cup {i \in DOMAIN ws : ws[i] = "(" /\ Count(ws, i + 1, n, {"("}) = Count(ws, i + 1, n, {")"})})
<1>1. n \in Nat /\ DOMAIN ws = 1 .. n
  BY LenProperties
<1>2. open = Max({0} \cup Unmet(ws))
  BY UnmetIsCounted
<1>3. open = c /\ c \in 0 .. n /\ c \in StillOpen(ws)
  <2>1. open = c
    BY <1>2, SameCall
  <2>2. c \in {0} \cup (StillOpen(ws) \cap Unmet(ws)) /\ c \in 0 .. Len(ws)
    BY SameCall
  <2>3. c # 0
    OBVIOUS
  <2> QED
    BY <2>1, <2>2, <2>3
<1>4. Count(ws, c, n, {Semicolon}) > 0 <=> \E i \in c .. n : ws[i] = Semicolon
  <2> DEFINE S == {k \in c .. n : ws[k] \in {Semicolon}}
  <2>1. c \in Int /\ n \in Int
    BY <1>1
  <2>2. Count(ws, c, n, {Semicolon}) \in Nat
    BY <2>1, CountIsNat
  <2>6. IsFiniteSet(S)
    <3>1. S \in SUBSET (c .. n) /\ IsFiniteSet(c .. n)
      BY <2>1, FS_Interval
    <3> HIDE DEF S
    <3> QED
      BY <3>1, FS_Subset
  <2>3. Count(ws, c, n, {Semicolon}) = Cardinality(S)
    BY DEF Count
  <2>4. Cardinality(S) = 0 <=> S = {}
    BY <2>6, FS_EmptySet
  <2>5. S = {} <=> ~\E i \in c .. n : ws[i] = Semicolon
    OBVIOUS
  <2>7. Count(ws, c, n, {Semicolon}) > 0 <=> ~(Count(ws, c, n, {Semicolon}) = 0)
    BY <2>2
  <2> HIDE DEF S
  <2> QED
    BY <2>3, <2>4, <2>5, <2>7, Zenon
<1>5. getFunctionContext(ws) =
        IF \/ open <= 1 \/ Count(ws, open, n, {Semicolon}) > 0
           \/ TokenType(ws[open - 1]) \notin {"identifier", "keyword"} \/ ws[open - 1] \in NonFunctionKeywords
        THEN NoCall ELSE [name |-> ws[open - 1], at |-> open, argIndex |-> ArgIndex(ws, open)]
  BY DEF getFunctionContext
<1> HIDE DEF open, n
<1>6. ~(c <= 1) /\ c \in 2 .. n
  BY <1>1, <1>3
<1>7. getFunctionContext(ws) =
        IF \/ \E i \in c .. n : ws[i] = Semicolon
           \/ TokenType(ws[c - 1]) \notin {"identifier", "keyword"} \/ ws[c - 1] \in NonFunctionKeywords
        THEN NoCall ELSE [name |-> ws[c - 1], at |-> c, argIndex |-> ArgIndex(ws, c)]
  BY <1>3, <1>4, <1>5, <1>6
<1> QED
  BY <1>3, <1>6, <1>7 DEF n

\* Without an open parenthesis behind a word there is no call.
LEMMA NoCallIsFound ==
    ASSUME NEW ws \in Seq(STRING), NEW c \in Nat, c = Max({0} \cup StillOpen(ws)), c <= 1
    PROVE  getFunctionContext(ws) = NoCall
<1> DEFINE n == Len(ws)
           open == Max({0} \cup {i \in DOMAIN ws : ws[i] = "(" /\ Count(ws, i + 1, n, {"("}) = Count(ws, i + 1, n, {")"})})
<1>1. n \in Nat /\ DOMAIN ws = 1 .. n
  BY LenProperties
<1>2. open = Max({0} \cup Unmet(ws))
  BY UnmetIsCounted
<1>3. open <= 1
  BY <1>2, SameCall
<1> HIDE DEF open, n
<1>4. open <= 1 => getFunctionContext(ws) = NoCall
  BY DEF getFunctionContext, open, n
<1> QED
  BY <1>3, <1>4

\* The commas that the search counts are those of the call.
LEMMA CommasAgree ==
    ASSUME NEW ws \in Seq(STRING), NEW c \in Nat, c \in StillOpen(ws), c = Max({0} \cup StillOpen(ws))
    PROVE  ArgIndex(ws, c)
             = Cardinality({i \in c + 1 .. Len(ws) : ws[i] = Comma /\ Max(StillOpen(SubSeq(ws, 1, i))) = c})
<1> DEFINE n == Len(ws)
           closed(i) == Count(ws, i, n, {"("}) = Count(ws, i, n, {")"})
<1>1. n \in Nat
  BY LenProperties
<1>2. ASSUME NEW i \in c + 1 .. n, ws[i] = Comma
      PROVE  closed(i) <=> Max(StillOpen(SubSeq(ws, 1, i))) = c
  <2>1. i \in Nat /\ i \in Int /\ n \in Int
    BY <1>1, <1>2
  <2>2. Count(ws, i, n, {"("}) \in Nat /\ Count(ws, i, n, {")"}) \in Nat
    BY <2>1, CountIsNat
  <2>3. closed(i) <=> Depth(ws, i, n) = 0
    BY <2>2 DEF Depth
  <2>4. Max(StillOpen(SubSeq(ws, 1, i))) = c <=> Depth(ws, i, n) = 0
    BY <1>2, <2>1, SameCommas
  <2> QED
    BY <2>3, <2>4
<1>3. ArgIndex(ws, c) = Cardinality({i \in c + 1 .. n : ws[i] = Comma /\ closed(i)})
  BY DEF ArgIndex
<1> HIDE DEF closed
<1>4. {i \in c + 1 .. n : ws[i] = Comma /\ closed(i)}
        = {i \in c + 1 .. n : ws[i] = Comma /\ Max(StillOpen(SubSeq(ws, 1, i))) = c}
  BY <1>2
<1> QED
  BY <1>3, <1>4

\* The tooltip shows the arguments of the function that the cursor is in a call of.
LEMMA TooltipFits ==
    ASSUME place.text \in Seq(STRING), place.at \in 0 .. Len(place.text)
    PROVE  SignatureFits
<1> DEFINE ws == SubSeq(place.text, 1, place.at)
           c == Max({0} \cup StillOpen(ws))
           called == {f \in Database.functions : /\ c > 1 /\ ws[c - 1] = f.name
                                                 /\ \A i \in c .. Len(ws) : ws[i] # Semicolon}
           passed == {i \in c + 1 .. Len(ws) : ws[i] = Comma /\ Max(StillOpen(SubSeq(ws, 1, i))) = c}
           Expected(f) == IF f.declared = <<>> THEN <<>>
                          ELSE <<[args |-> [k \in DOMAIN f.declared |-> PrintedArgument(f.declared[k])],
                                  active |-> Cardinality(passed) + 1]>>
           ctx == getFunctionContext(ws)
           s == Signatures
           named == {k \in DOMAIN s : s[k].name = ctx.name}
           first == s[Min(named)]
<1>1. ws \in Seq(STRING)
  <2>1. Len(place.text) \in Nat /\ place.at \in Int /\ 1 \in Int
    BY LenProperties
  <2>2. \A i \in 1 .. place.at : place.text[i] \in STRING
    BY <2>1, ElementOfSeq
  <2> QED
    BY ONLY <2>1, <2>2, SubSeqProperties
<1>2. SignatureFits = IF called = {} THEN SignatureHelp = <<>> ELSE \E f \in called : SignatureHelp = Expected(f)
  BY DEF SignatureFits
<1>3. SignatureHelp = IF ctx = NoCall \/ named = {} \/ (named # {} /\ first.arguments = <<>>) THEN <<>>
                      ELSE <<[args |-> parseSignatureArgs(first.arguments), active |-> ctx.argIndex + 1]>>
  BY DEF SignatureHelp, Tooltip
<1>4. /\ DOMAIN s \subseteq Nat
      /\ \A k \in DOMAIN s : \E f \in Database.functions :
            s[k].name = f.name /\ s[k].arguments = PrintedArguments(f.declared)
      /\ \A f \in Database.functions : \E k \in DOMAIN s : s[k].name = f.name
  BY SignaturesCover
<1> HIDE DEF s, ws
<1>5. c \in Nat
  <2>1. c \in 0 .. Len(ws)
    BY <1>1, SameCall
  <2> QED
    BY <2>1
\* What is found when there is a call of a known function, and only then.
<1> DEFINE Semi == \E i \in c .. Len(ws) : ws[i] = Semicolon
<1>6. c <= 1 => ctx = NoCall
  <2> DEFINE d == c
  <2>1. d = Max({0} \cup StillOpen(ws)) /\ d \in Nat
    BY <1>5
  <2> HIDE DEF d
  <2>2. d <= 1 => ctx = NoCall
    BY <1>1, <2>1, NoCallIsFound
  <2> QED
    BY <2>2 DEF d
<1>7. c > 1 => /\ c \in StillOpen(ws)
               /\ ctx = IF \/ Semi \/ TokenType(ws[c - 1]) \notin {"identifier", "keyword"}
                           \/ ws[c - 1] \in NonFunctionKeywords
                        THEN NoCall ELSE [name |-> ws[c - 1], at |-> c, argIndex |-> ArgIndex(ws, c)]
  <2> DEFINE d == c
  <2>1. d = Max({0} \cup StillOpen(ws)) /\ d \in Nat
    BY <1>5
  <2> HIDE DEF d
  <2>2. d > 1 => /\ d \in StillOpen(ws)
                 /\ getFunctionContext(ws) =
                      IF \/ \E i \in d .. Len(ws) : ws[i] = Semicolon
                         \/ TokenType(ws[d - 1]) \notin {"identifier", "keyword"} \/ ws[d - 1] \in NonFunctionKeywords
                      THEN NoCall ELSE [name |-> ws[d - 1], at |-> d, argIndex |-> ArgIndex(ws, d)]
    BY <1>1, <2>1, CallIsFound
  <2> QED
    BY <2>2 DEF d
<1>8. c > 1 => ArgIndex(ws, c) = Cardinality(passed)
  <2>1. ASSUME c > 1 PROVE ArgIndex(ws, c) = Cardinality(passed)
    <3> DEFINE d == c
    <3>1. d = Max({0} \cup StillOpen(ws)) /\ d \in Nat /\ d \in StillOpen(ws)
      BY <1>5, <1>7, <2>1
    <3> HIDE DEF d
    <3>2. ArgIndex(ws, d)
            = Cardinality({i \in d + 1 .. Len(ws) : ws[i] = Comma /\ Max(StillOpen(SubSeq(ws, 1, i))) = d})
      BY <1>1, <3>1, CommasAgree
    <3> QED
      BY <3>2 DEF d
  <2> QED
    BY <2>1
<1>9. ~(c > 1) => c <= 1
  <2> HIDE DEF c
  <2> QED
    BY <1>5
<1>10. \A f \in called : /\ f \in Database.functions /\ c > 1 /\ ws[c - 1] = f.name /\ ~Semi
                         /\ PlainArguments(f.declared)
                         /\ TokenType(f.name) \in {"identifier", "keyword"} /\ f.name \notin NonFunctionKeywords
  <2>1. \A f \in called : f \in Database.functions /\ c > 1 /\ ws[c - 1] = f.name /\ ~Semi
    OBVIOUS
  <2> HIDE DEF called
  <2> QED
    BY <2>1, DeclaredIsPlain
<1>11. \A f \in Database.functions : c > 1 /\ ws[c - 1] = f.name /\ ~Semi => f \in called
  OBVIOUS
<1>12. \A k \in named : k \in DOMAIN s /\ s[k].name = ctx.name
  OBVIOUS
<1>13. \A k \in DOMAIN s : s[k].name = ctx.name => k \in named
  OBVIOUS
<1>14. named # {} => Min(named) \in named
  <2>1. named \subseteq Nat
    BY <1>4, <1>12
  <2> HIDE DEF named
  <2> QED
    BY <2>1, MinExists
<1>18. NoCall.at = 0
  BY DEF NoCall
<1> HIDE DEF c, called, named, Semi, ctx, passed
<1>15. CASE called = {}
  <2>1. SUFFICES ASSUME ctx # NoCall, named # {} PROVE FALSE
    BY <1>2, <1>3, <1>15
  <2>2. c > 1
    BY <1>6, <1>9, <2>1
  <2>3. ~Semi /\ ctx.name = ws[c - 1]
    BY <1>7, <2>1, <2>2
  <2>4. PICK k \in DOMAIN s : s[k].name = ctx.name
    BY <1>12, <2>1
  <2>5. PICK f \in Database.functions : s[k].name = f.name
    BY <1>4
  <2> QED
    BY <1>11, <1>15, <2>2, <2>3, <2>4, <2>5
<1>16. CASE called # {}
  <2>1. PICK f0 \in called : TRUE
    BY <1>16
  <2>2. c > 1 /\ ~Semi /\ ctx = [name |-> ws[c - 1], at |-> c, argIndex |-> ArgIndex(ws, c)]
    BY <1>7, <1>10, <2>1
  <2>3. ctx.name = ws[c - 1] /\ ctx.argIndex = Cardinality(passed) /\ ctx # NoCall
    <3>1. ctx.at = c /\ ctx.name = ws[c - 1] /\ ctx.argIndex = ArgIndex(ws, c)
      BY <2>2
    <3>2. c # 0
      BY <2>2, <1>5
    <3> QED
      BY <1>8, <1>18, <2>2, <3>1, <3>2
  <2>4. named # {}
    BY <1>4, <1>10, <1>13, <2>1, <2>3
  <2>5. PICK f \in Database.functions : first.name = f.name /\ first.arguments = PrintedArguments(f.declared)
    BY <1>4, <1>12, <1>14, <2>4
  <2>6. f \in called
    BY <1>11, <1>12, <1>14, <2>2, <2>3, <2>4, <2>5
  <2>7. PlainArguments(f.declared)
    BY <1>10, <2>6
  <2>8. SignatureHelp = Expected(f)
    <3>1. CASE f.declared = <<>>
      <4>1. first.arguments = <<>>
        BY <2>5, <3>1, NothingPrinted
      <4> HIDE DEF first
      <4> QED
        BY <1>3, <2>4, <3>1, <4>1
    <3>2. CASE f.declared # <<>>
      <4>1. /\ parseSignatureArgs(PrintedArguments(f.declared)) = [k \in DOMAIN f.declared |-> PrintedArgument(f.declared[k])]
            /\ PrintedArguments(f.declared) # <<>>
        BY <2>7, <3>2, SignatureIsRead
      <4> HIDE DEF first
      <4>2. SignatureHelp = <<[args |-> parseSignatureArgs(first.arguments), active |-> ctx.argIndex + 1]>>
        BY <1>3, <2>3, <2>4, <2>5, <4>1
      <4> QED
        BY <2>3, <2>5, <3>2, <4>1, <4>2
    <3> QED
      BY <3>1, <3>2
  <2> HIDE DEF Expected
  <2> QED
    BY <1>2, <1>16, <2>6, <2>8
<1> QED
  BY <1>15, <1>16

(* The section of a place. *)

LEMMA OnlyIn ==
    ASSUME NEW S, NEW T, S # {}, S \subseteq T
    PROVE  Only(S) \in T
BY DEF Only

Sections == SQLSection \cup {"NONE"}

LEMMA ClauseSections ==
    ASSUME NEW k PROVE SectionOfClause(k) \in SQLSection
<1>1. CASE k \in DOMAIN ClauseSection
  <2>1. ClauseSection[k] \in SQLSection
    BY <1>1 DEF ClauseSection, SQLSection
  <2> QED
    BY <2>1 DEF SectionOfClause, SQLSection
<1>2. CASE k \notin DOMAIN ClauseSection
  BY <1>2 DEF SectionOfClause, SQLSection
<1> QED
  BY <1>1, <1>2

LEMMA CursorSections ==
    ASSUME NEW p PROVE ClauseAtCursor(p) \in Sections
<1> DEFINE ts == p.text
           ClauseFrom(starts, origin) ==
             LET End(a) == Min({Len(ts)} \cup {s - 1 : s \in {t \in starts : t > a}})
                 here   == {a \in starts : Covers(p, a, End(a)) /\ ts[a] # "DELETE"}
                 stmt   == IF Covers(p, origin, Len(ts)) THEN ts[origin] ELSE ts[1]
             IN  IF here # {} THEN SectionOfClause(ts[Max(here)])
                 ELSE IF stmt \in {"INSERT", "UPDATE", "DELETE", "CALL"} THEN SectionOfClause(stmt)
                 ELSE "UNKNOWN"
           S == {ClauseFrom(starts, Origin(ts)) : starts \in {Boundaries(ts)}}
<1>1. "UNKNOWN" \in SQLSection
  BY DEF SQLSection
<1>2. \A starts, origin : ClauseFrom(starts, origin) \in SQLSection
  BY <1>1, ClauseSections
<1>3. ClauseAtCursor(p) = IF Tokenize(ts) = <<>> \/ ~Covers(p, 1, Len(ts)) THEN "NONE" ELSE Only(S)
  BY DEF ClauseAtCursor
<1> HIDE DEF ClauseFrom
<1>4. S # {} /\ S \subseteq SQLSection
  BY <1>2
<1> HIDE DEF S
<1>5. Only(S) \in SQLSection
  BY <1>4, OnlyIn
<1> QED
  BY <1>3, <1>5 DEF Sections

LEMMA TypeOfStatement ==
    ASSUME NEW p PROVE StatementType(p) \in StatementTypes
BY DEF StatementType, StatementTypes

LEMMA CreateTableSections ==
    ASSUME NEW ts PROVE CreateTableSection(ts) \in SQLSection
BY DEF CreateTableSection, SQLSection

LEMMA CommaSections ==
    ASSUME NEW ts, NEW clause \in Sections PROVE SectionAfterComma(ts, clause) \in SQLSection
<1>1. clause # "NONE" => clause \in SQLSection
  BY DEF Sections
<1>2. {"SELECT_COLUMNS", "FROM_TABLE", "ORDER_BY", "GROUP_BY", "WHERE_CONDITION", "UPDATE_SET"} \subseteq SQLSection
  BY DEF SQLSection
<1> QED
  BY <1>1, <1>2 DEF SectionAfterComma

LEMMA ExpressionSections ==
    ASSUME NEW k PROVE SectionOfExpression(k) \in SQLSection
BY DEF SectionOfExpression, SQLSection

LEMMA ContextSections ==
    ASSUME NEW clause \in Sections, NEW k, NEW afterComma \in BOOLEAN, NEW ts, NEW partial
    PROVE  SectionFromContext(clause, k, afterComma, ts, partial) \in SQLSection
<1>1. clause # "NONE" => clause \in SQLSection
  BY DEF Sections
<1>2. {"JOIN_TABLE", "ORDER_BY", "GROUP_BY", "IS_NOT_INCOMPLETE", "JOIN_CONDITION", "CREATE_OBJECT", "FROM_TABLE",
       "DELETE_TABLE", "STATEMENT_START", "UNKNOWN"} \subseteq SQLSection
  BY DEF SQLSection
<1>3. \A kw \in DOMAIN SectionOfKeyword : SectionOfKeyword[kw] \in SQLSection
  BY DEF SectionOfKeyword, SQLSection
<1>4. \A kw \in DOMAIN TableSection : TableSection[kw] \in SQLSection
  BY DEF TableSection, SQLSection
<1>5. SectionAfterComma(ts, clause) \in SQLSection
  BY CommaSections
<1> QED
  BY <1>1, <1>2, <1>3, <1>4, <1>5, CreateTableSections, ExpressionSections DEF SectionFromContext

(* What is known of a place. *)

IsPlace(p) == p.text \in Seq(STRING) /\ p.at \in 0 .. Len(p.text)
MaybeWord == STRING \cup {NoWord}

\* A part of a text is a text.
LEMMA PartOfText ==
    ASSUME NEW s \in Seq(STRING), NEW i \in Nat, NEW j \in Nat, 1 <= i, j <= Len(s)
    PROVE  SubSeq(s, i, j) \in Seq(STRING) /\ Len(SubSeq(s, i, j)) = IF i <= j THEN j - i + 1 ELSE 0
<1>1. Len(s) \in Nat
  BY LenProperties
<1>2. \A k \in i .. j : k \in 1 .. Len(s)
  BY <1>1
<1>3. \A k \in i .. j : s[k] \in STRING
  BY <1>2, ElementOfSeq
<1>4. i \in Int /\ j \in Int
  OBVIOUS
<1> QED
  BY ONLY <1>3, <1>4, SubSeqProperties

LEMMA TokenIsThere ==
    ASSUME NEW p, IsPlace(p)
    PROVE  /\ CursorToken(p) \in 0 .. Len(p.text)
           /\ Tokenize(p.text) # <<>> => Tokenize(p.text) = p.text /\ CursorToken(p) > 0
<1> DEFINE n == Len(p.text)
           a == p.at
<1>1. n \in Nat /\ a \in 0 .. n
  BY LenProperties DEF IsPlace
<1>2. Tokenize(p.text) = <<>> \/ Tokenize(p.text) = p.text
  BY DEF Tokenize
<1>3. CASE Tokenize(p.text) = <<>>
  <2>1. CursorToken(p) = 0
    BY <1>3 DEF CursorToken
  <2> HIDE DEF n
  <2>2. 0 \in 0 .. n
    BY <1>1
  <2> QED
    BY <1>3, <2>1, <2>2 DEF n
<1>4. CASE Tokenize(p.text) # <<>>
  <2>1. CursorToken(p) = IF TouchesNext(p) THEN a + 1 ELSE IF a = 0 THEN 1 ELSE a
    BY <1>4 DEF CursorToken
  <2>2. TouchesNext(p) => a < n
    BY DEF TouchesNext
  <2>3. n # 0
    <3>1. p.text # <<>>
      BY <1>2, <1>4
    <3> QED
      BY <3>1, EmptySeq DEF IsPlace
  <2> HIDE DEF n, a
  <2>4. CursorToken(p) \in 1 .. n
    BY <1>1, <2>1, <2>2, <2>3
  <2>5. CursorToken(p) \in 0 .. n /\ CursorToken(p) > 0
    BY <1>1, <2>4
  <2> QED
    BY <1>2, <1>4, <2>5 DEF n
<1> QED
  BY <1>3, <1>4

LEMMA TokensAreText ==
    ASSUME NEW p, IsPlace(p)
    PROVE  TokensUpToCursor(p) \in Seq(STRING) /\ PartialToken(p) \in MaybeWord
<1> DEFINE c == CursorToken(p)
           n == Len(p.text)
<1>1. c \in 0 .. n /\ n \in Nat /\ (Tokenize(p.text) # <<>> => Tokenize(p.text) = p.text)
  BY TokenIsThere, LenProperties DEF IsPlace
<1> HIDE DEF c, n
<1>2. TokensUpToCursor(p) \in Seq(STRING)
  <2>1. CASE Tokenize(p.text) = <<>>
    <3>1. c = 0
      BY <2>1 DEF CursorToken, c
    <3>2. TokensUpToCursor(p) = SubSeq(<<>>, 1, 0)
      BY <2>1, <3>1 DEF TokensUpToCursor, c
    <3>3. SubSeq(<<>>, 1, 0) = <<>>
      BY SubSeqEmpty
    <3> QED
      BY <3>2, <3>3
  <2>2. CASE Tokenize(p.text) # <<>>
    <3>1. TokensUpToCursor(p) = SubSeq(p.text, 1, c)
      BY <1>1, <2>2 DEF TokensUpToCursor, c
    <3>2. c \in Nat /\ c <= Len(p.text) /\ 1 \in Nat /\ 1 <= 1
      BY <1>1 DEF n
    <3>3. SubSeq(p.text, 1, c) \in Seq(STRING)
      BY ONLY <3>2, IsPlace(p), PartOfText DEF IsPlace
    <3> QED
      BY <3>1, <3>3
  <2> QED
    BY <2>1, <2>2
<1>3. PartialToken(p) \in MaybeWord
  <2>1. DOMAIN p.text = 1 .. n
    BY LenProperties DEF IsPlace, n
  <2>2. \A i \in DOMAIN p.text : p.text[i] \in STRING
    BY <2>1, ElementOfSeq DEF IsPlace, n
  <2> QED
    BY <2>2 DEF PartialToken, IsIdentifier, MaybeWord
<1> QED
  BY <1>2, <1>3

LEMMA StatementIsPlace ==
    ASSUME NEW p, IsPlace(p)
    PROVE  IsPlace(ExtractCurrentStatement(p))
<1> DEFINE n == Len(p.text)
           a == p.at
           semis == {i \in DOMAIN Tokenize(p.text) : p.text[i] = Semicolon}
           A == {0} \cup {i \in semis : i <= a}
           B == {n} \cup {i \in semis : i > a}
           first == Max(A)
           last == Min(B)
<1>1. n \in Nat /\ a \in 0 .. n /\ DOMAIN p.text = 1 .. n
  BY LenProperties DEF IsPlace
<1>2. semis \subseteq 1 .. n
  <2>1. Tokenize(p.text) = <<>> \/ Tokenize(p.text) = p.text
    BY DEF Tokenize
  <2>2. DOMAIN <<>> = {}
    OBVIOUS
  <2>3. DOMAIN Tokenize(p.text) \subseteq 1 .. n
    BY <1>1, <2>1, <2>2
  <2> QED
    BY <2>3
<1>3. ExtractCurrentStatement(p) = Place(SubSeq(p.text, first + 1, last), a - first, p.gap)
  BY DEF ExtractCurrentStatement
<1> HIDE DEF semis, n, a
<1>4. first \in 0 .. a
  <2>2. \A i \in semis : i <= a => i \in 0 .. a
    BY <1>1, <1>2
  <2>3. 0 \in 0 .. a /\ a \in Nat
    BY <1>1
  <2>1. A \subseteq 0 .. a /\ A # {} /\ a \in Nat
    BY <2>2, <2>3
  <2> HIDE DEF A
  <2> QED
    BY <2>1, MaxExists
<1>5. last \in a .. n
  <2>2. ASSUME NEW i \in semis, i > a PROVE i \in a .. n
    <3>1. i \in 1 .. n
      BY <1>2
    <3>2. i \in Int /\ i <= n /\ a <= i
      BY <1>1, <2>2, <3>1
    <3> QED
      BY <1>1, <3>2
  <2>3. n \in a .. n
    BY <1>1
  <2>4. B # {} /\ \A i \in B : i \in a .. n
    BY <2>2, <2>3
  <2>5. a .. n \subseteq Nat
    BY <1>1
  <2> HIDE DEF B
  <2>1. B \subseteq Nat /\ B # {} /\ \A i \in B : i \in a .. n
    BY <2>4, <2>5
  <2> HIDE DEF B
  <2> QED
    BY <2>1, MinExists
<1> HIDE DEF first, last
<1>6. first + 1 \in Nat /\ last \in Nat /\ 1 <= first + 1 /\ last <= n /\ a - first \in Nat
  BY <1>1, <1>4, <1>5
<1> DEFINE s == SubSeq(p.text, first + 1, last)
<1>7. s \in Seq(STRING) /\ Len(s) = IF first + 1 <= last THEN last - (first + 1) + 1 ELSE 0
  <2>1. last <= Len(p.text)
    BY <1>6 DEF n
  <2>2. p.text \in Seq(STRING)
    BY DEF IsPlace
  <2> QED
    BY ONLY <1>6, <2>1, <2>2, PartOfText
<1>8. a - first \in 0 .. Len(s)
  <2> HIDE DEF s
  <2> QED
    BY <1>1, <1>4, <1>5, <1>7
<1> QED
  BY <1>3, <1>7, <1>8 DEF Place, IsPlace

LEMMA ContextIsTyped ==
    ASSUME NEW section \in SQLSection, NEW type \in StatementTypes, NEW partial \in MaybeWord
    PROVE  Context(section, type, partial) \in CursorContext
BY DEF Context, CursorContext, MaybeWord

LEMMA TypingContext ==
    ASSUME NEW p, IsPlace(p), NEW ts \in Seq(STRING), Len(ts) > 1
    PROVE  TypingKeywordContext(p, ts) \in CursorContext
<1> DEFINE before == Front(ts)
           expr == IsValue(Last(before)) /\ HasComparisonBeforeLast(before)
           ident == ~expr /\ TokenType(Last(before)) = "identifier"
           S == {SectionFromContext(clause, LastKeyword(before), FALSE, before, NoWord) : clause \in {ClauseAtCursor(p)}}
           section == Only(S)
           ctx == Context(section, StatementType(p), Last(ts))
<1>1. section \in SQLSection
  <2>1. \A clause \in {ClauseAtCursor(p)} : SectionFromContext(clause, LastKeyword(before), FALSE, before, NoWord) \in SQLSection
    <3>1. ClauseAtCursor(p) \in Sections /\ FALSE \in BOOLEAN
      BY CursorSections
    <3> QED
      BY <3>1, ContextSections
  <2>2. S # {} /\ S \subseteq SQLSection
    BY <2>1
  <2> HIDE DEF S
  <2> QED
    BY <2>2, OnlyIn
<1>2. Last(ts) \in MaybeWord
  <2>1. Len(ts) \in 1 .. Len(ts)
    BY LenProperties
  <2> QED
    BY <2>1, ElementOfSeq DEF Last, MaybeWord
<1>3. TypingKeywordContext(p, ts) = [ctx EXCEPT !.afterExpr = expr, !.afterIdent = ident]
  BY DEF TypingKeywordContext
<1>4. expr \in BOOLEAN /\ ident \in BOOLEAN
  OBVIOUS
<1> HIDE DEF section, expr, ident
<1>5. ctx \in CursorContext
  BY <1>1, <1>2, TypeOfStatement, ContextIsTyped
<1> HIDE DEF ctx
<1> QED
  BY <1>3, <1>4, <1>5 DEF CursorContext

LEMMA DoneContext ==
    ASSUME NEW p, IsPlace(p), NEW ts \in Seq(STRING), Len(ts) > 0, NEW partial \in MaybeWord
    PROVE  CompletedContext(p, ts, partial) \in CursorContext
<1> DEFINE done  == IF partial # NoWord /\ Len(ts) >= 2 THEN Front(ts) ELSE ts
           value == IF partial # NoWord THEN IsValue(Last(done)) ELSE IsValue(Last(ts))
           expr  == value /\ HasComparisonBeforeLast(done)
           last  == Last(ts)
           S == {SectionFromContext(clause, LastKeyword(ts), last = Comma, ts, partial) : clause \in {ClauseAtCursor(p)}}
           section == Only(S)
           ident == value /\ ~expr /\ TokenType(Last(done)) = "identifier"
           op == IF AtEndOfWord(p) /\ last \in {"<", ">", "!"} THEN last ELSE NoWord
           not == (last = "NOT")
           modifier == (last \in Modifiers)
           ctx == Context(section, StatementType(p), partial)
<1>1. section \in SQLSection
  <2> DEFINE c == (last = Comma)
  <2>0. c \in BOOLEAN
    OBVIOUS
  <2> HIDE DEF c
  <2>1. \A clause \in {ClauseAtCursor(p)} : SectionFromContext(clause, LastKeyword(ts), c, ts, partial) \in SQLSection
    <3>1. ClauseAtCursor(p) \in Sections
      BY CursorSections
    <3> QED
      BY <2>0, <3>1, ContextSections
  <2>2. S # {} /\ S \subseteq SQLSection
    BY <2>1 DEF c
  <2> HIDE DEF S
  <2> QED
    BY <2>2, OnlyIn
<1>2. last \in STRING
  <2>1. Len(ts) \in 1 .. Len(ts)
    BY LenProperties
  <2> QED
    BY <2>1, ElementOfSeq DEF Last
<1>3. CompletedContext(p, ts, partial) =
        [ctx EXCEPT !.afterExpr = expr, !.afterIdent = ident, !.typingOp = op, !.afterNot = not, !.afterModifier = modifier]
  BY DEF CompletedContext
<1>4. expr \in BOOLEAN /\ ident \in BOOLEAN /\ not \in BOOLEAN /\ modifier \in BOOLEAN
  OBVIOUS
<1> HIDE DEF section, expr, ident, not, modifier, last
<1>6. op \in MaybeWord
  BY <1>2 DEF MaybeWord
<1> HIDE DEF op
<1>5. ctx \in CursorContext
  BY <1>1, TypeOfStatement, ContextIsTyped
<1> HIDE DEF ctx
<1> QED
  BY <1>3, <1>4, <1>5, <1>6 DEF CursorContext, MaybeWord

LEMMA DetectedContext ==
    ASSUME NEW p, IsPlace(p)
    PROVE  DetectSection(p) \in CursorContext
<1> DEFINE Detect(ts, partial) ==
            LET n == Len(ts)
                typingKeyword == n > 0 /\ AtEndOfWord(p) /\ ts[n] \in Keywords
            IN  CASE IsInsideStringOrComment(p) -> Context("UNKNOWN", "UNKNOWN", NoWord)
                  [] n = 0 \/ (n = 1 /\ TokenType(ts[1]) = "identifier") -> Context("STATEMENT_START", "UNKNOWN", partial)
                  [] n = 1 /\ typingKeyword /\ ts[1] \in StatementPrefixes -> Context("STATEMENT_START", "UNKNOWN", ts[1])
                  [] ~typingKeyword /\ partial = NoWord /\ ~HasWordBreak(p) /\ ts[n] \notin {".", "("} ->
                        Context("UNKNOWN", "UNKNOWN", NoWord)
                  [] typingKeyword /\ n > 1 -> TypingKeywordContext(p, ts)
                  [] n > 1 /\ ts[n] = "." /\ TokenType(ts[n - 1]) = "identifier" ->
                        [Context(ClauseAtCursor(p), StatementType(p), NoWord)
                            EXCEPT !.section = IF @ = "NONE" THEN "UNKNOWN" ELSE @, !.prefix = ts[n - 1]]
                  [] StatementType(p) = "INSERT" /\ IsAfterInsertColumns(ts) ->
                        Context("INSERT_VALUES", "INSERT", partial)
                  [] OTHER -> CompletedContext(p, ts, partial)
           S == {Detect(ts, partial) : ts \in {TokensUpToCursor(p)}, partial \in {PartialToken(p)}}
<1>1. ASSUME NEW ts \in Seq(STRING), NEW partial \in MaybeWord
      PROVE  Detect(ts, partial) \in CursorContext
  <2> DEFINE n == Len(ts)
  <2>1. n \in Nat
    BY LenProperties
  <2>2. {"UNKNOWN", "STATEMENT_START", "INSERT_VALUES"} \subseteq SQLSection /\ {"UNKNOWN", "INSERT"} \subseteq StatementTypes
    BY DEF SQLSection, StatementTypes
  <2>3. NoWord \in MaybeWord
    BY DEF MaybeWord
  <2>4. \A i \in 1 .. n : ts[i] \in STRING /\ ts[i] \in MaybeWord
    BY ElementOfSeq DEF MaybeWord
  <2>5. Context("UNKNOWN", "UNKNOWN", NoWord) \in CursorContext
    BY <2>2, <2>3, ContextIsTyped
  <2>6. Context("STATEMENT_START", "UNKNOWN", partial) \in CursorContext
    BY <2>2, ContextIsTyped
  <2>7. n = 1 => Context("STATEMENT_START", "UNKNOWN", ts[1]) \in CursorContext
    <3>1. n = 1 => ts[1] \in MaybeWord
      BY <2>4
    <3> QED
      BY <2>2, <3>1, ContextIsTyped
  <2>8. n > 1 => TypingKeywordContext(p, ts) \in CursorContext
    BY TypingContext
  <2>9. n > 1 => [Context(ClauseAtCursor(p), StatementType(p), NoWord)
                    EXCEPT !.section = IF @ = "NONE" THEN "UNKNOWN" ELSE @, !.prefix = ts[n - 1]] \in CursorContext
    <3>1. SUFFICES ASSUME n > 1
                   PROVE  [Context(ClauseAtCursor(p), StatementType(p), NoWord)
                    EXCEPT !.section = IF @ = "NONE" THEN "UNKNOWN" ELSE @, !.prefix = ts[n - 1]] \in CursorContext
      OBVIOUS
    <3> DEFINE w == ts[n - 1]
               c == ClauseAtCursor(p)
               y == StatementType(p)
    <3>2. w \in STRING
      <4>1. n - 1 \in 1 .. n
        BY <2>1, <3>1
      <4> QED
        BY <2>4, <4>1
    <3>3. c \in Sections /\ y \in StatementTypes
      BY CursorSections, TypeOfStatement
    <3> HIDE DEF w, c, y
    <3> DEFINE r == Context(c, y, NoWord)
               d == IF r.section = "NONE" THEN "UNKNOWN" ELSE r.section
    <3>4. r.section = c
      BY DEF Context
    <3>5. d \in SQLSection
      BY <2>2, <3>3, <3>4 DEF Sections
    <3> HIDE DEF d
    <3>6. r \in [section : Sections, type : StatementTypes, partial : MaybeWord, prefix : MaybeWord, afterIdent : BOOLEAN,
                afterExpr : BOOLEAN, typingOp : MaybeWord, afterNot : BOOLEAN, afterModifier : BOOLEAN]
      BY <2>3, <3>3 DEF Context
    <3> HIDE DEF r
    <3>7. [r EXCEPT !.section = d, !.prefix = w] \in CursorContext
      BY <3>2, <3>5, <3>6 DEF CursorContext, MaybeWord
    <3> QED
      BY <3>7 DEF w, c, y, d, r
  <2>10. Context("INSERT_VALUES", "INSERT", partial) \in CursorContext
    BY <2>2, ContextIsTyped
  <2>11. n > 0 => CompletedContext(p, ts, partial) \in CursorContext
    BY DoneContext
  <2>12. n = 0 \/ n > 0
    BY <2>1
  <2> QED
    BY <2>5, <2>6, <2>7, <2>8, <2>9, <2>10, <2>11, <2>12
<1>2. DetectSection(p) = Only(S)
  BY DEF DetectSection
<1> HIDE DEF Detect
<1>3. TokensUpToCursor(p) \in Seq(STRING) /\ PartialToken(p) \in MaybeWord
  BY TokensAreText
<1>4. S # {} /\ S \subseteq CursorContext
  BY <1>1, <1>3
<1> HIDE DEF S
<1> QED
  BY <1>2, <1>4, OnlyIn

(* The inductive invariant of the completion. *)

PlaceType == [text : Seq(STRING), at : Nat, gap : {"none", "space", "before"}, partial : BOOLEAN]
RequestType == [stage : Stages, explicit : BOOLEAN, ctx : CursorContext]
PopupType == [answered : BOOLEAN, explicit : BOOLEAN, known : SUBSET Tables]

\* The place is one in the statement: so many words of it are typed, and perhaps part of the next.
PlaceOK(p) ==
    /\ p \in PlaceType /\ p.at <= Len(p.text)
    /\ IF p.partial THEN p.at \in 1 .. Len(goal) ELSE p.at <= Len(goal)
CInv ==
    /\ goal \in Statements /\ whole \in BOOLEAN
    /\ PlaceOK(place)
    /\ loaded \subseteq Tables /\ fetching \subseteq Tables \ loaded
    /\ request = Idle \/ request \in RequestType
    /\ popup \in PopupType /\ popup.known \subseteq loaded
    /\ popup.answered => request = Idle

LEMMA IdleIsNoStage ==
    /\ Idle.stage \notin Stages /\ "first" \in Stages /\ "waitFirst" \in Stages /\ "waitOthers" \in Stages
    /\ \A r \in RequestType : r # Idle
<1>1. Idle.stage \notin Stages /\ "first" \in Stages /\ "waitFirst" \in Stages /\ "waitOthers" \in Stages
  BY DEF Idle, Stages
<1>2. \A r \in RequestType : r.stage \in Stages
  BY DEF RequestType
<1> QED
  BY <1>1, <1>2

\* The statement that is typed.
LEMMA GoalIsText ==
    ASSUME CInv
    PROVE  /\ goal \in Seq(STRING) /\ Len(goal) \in Nat
           /\ \A n \in 0 .. Len(goal) : /\ Rest(n) \in Seq(STRING)
                                        /\ SubSeq(goal, 1, n) \in Seq(STRING) /\ Len(SubSeq(goal, 1, n)) = n
<1>1. goal \in Seq(STRING) /\ Len(goal) \in Nat
  BY StatementsAssumption, LenProperties DEF CInv
<1>2. ASSUME NEW n \in 0 .. Len(goal)
      PROVE  /\ Rest(n) \in Seq(STRING)
             /\ SubSeq(goal, 1, n) \in Seq(STRING) /\ Len(SubSeq(goal, 1, n)) = n
  <2> DEFINE m == Len(goal)
  <2>1. n \in Nat /\ n <= m /\ m \in Nat /\ n + 1 \in Nat /\ 1 <= n + 1 /\ m <= m /\ 1 \in Nat /\ 1 <= 1
    BY <1>1, <1>2
  <2>2. SubSeq(goal, 1, n) \in Seq(STRING) /\ Len(SubSeq(goal, 1, n)) = IF 1 <= n THEN n - 1 + 1 ELSE 0
    BY ONLY <1>1, <2>1, PartOfText
  <2>3. SubSeq(goal, n + 1, m) \in Seq(STRING)
    BY ONLY <1>1, <2>1, PartOfText
  <2>4. <<>> \in Seq(STRING)
    OBVIOUS
  <2>5. Rest(n) \in Seq(STRING)
    BY <2>3, <2>4 DEF Rest
  <2>6. (IF 1 <= n THEN n - 1 + 1 ELSE 0) = n
    BY <2>1
  <2> QED
    BY <2>2, <2>5, <2>6
<1> QED
  BY <1>1, <1>2

LEMMA InText ==
    ASSUME NEW before \in Seq(STRING), NEW after \in Seq(STRING), NEW gap \in {"none", "space", "before"},
           NEW partial \in BOOLEAN
    PROVE  /\ PlaceIn(before, after, gap, partial) \in PlaceType
           /\ PlaceIn(before, after, gap, partial).at = Len(before)
           /\ PlaceIn(before, after, gap, partial).at <= Len(PlaceIn(before, after, gap, partial).text)
           /\ PlaceIn(before, after, gap, partial).partial = partial
<1> DEFINE t == before \o after
           b == Len(before)
           p == PlaceIn(before, after, gap, partial)
<1>1. t \in Seq(STRING) /\ Len(t) = b + Len(after) /\ b \in Nat /\ Len(after) \in Nat
  BY ConcatAt, LenProperties
<1>2. p = [text |-> t, at |-> b, gap |-> gap, partial |-> partial]
  BY DEF PlaceIn
<1> HIDE DEF t, b, p
<1>3. b <= Len(t)
  BY <1>1
<1>4. p \in PlaceType
  BY <1>1, <1>2 DEF PlaceType
<1> QED
  BY <1>2, <1>3, <1>4 DEF p, b

LEMMA WordIsPlace ==
    ASSUME CInv, NEW n \in 0 .. Len(goal), NEW gap \in {"none", "space", "before"}
    PROVE  PlaceOK(AtWord(n, gap))
<1>1. /\ Rest(n) \in Seq(STRING) /\ SubSeq(goal, 1, n) \in Seq(STRING) /\ Len(SubSeq(goal, 1, n)) = n
  BY GoalIsText
<1> DEFINE s == SubSeq(goal, 1, n)
           r == Rest(n)
           p == PlaceIn(s, r, gap, FALSE)
<1>2. s \in Seq(STRING) /\ r \in Seq(STRING) /\ Len(s) = n /\ FALSE \in BOOLEAN
  BY <1>1
<1>3. AtWord(n, gap) = p
  BY DEF AtWord
<1> HIDE DEF s, r
<1>4. p \in PlaceType /\ p.at = Len(s) /\ p.at <= Len(p.text) /\ p.partial = FALSE
  BY <1>2, InText
<1> HIDE DEF p
<1>5. Len(goal) \in Nat
  BY GoalIsText
<1>6. p.at = n /\ n <= Len(goal)
  BY <1>2, <1>4, <1>5
<1> QED
  BY <1>3, <1>4, <1>6 DEF PlaceOK

LEMMA PartialIsPlace ==
    ASSUME CInv, NEW n \in Nat, n < Len(goal), goal[n + 1] \in DOMAIN Partials
    PROVE  PlaceOK(AtPartial(n))
<1>0. Len(goal) \in Nat
  BY GoalIsText
<1>1. n \in 0 .. Len(goal) /\ n + 1 \in 0 .. Len(goal)
  BY <1>0
<1> DEFINE b == SubSeq(goal, 1, n)
           w == Partials[goal[n + 1]]
           s == Append(b, w)
           r == Rest(n + 1)
           p == PlaceIn(s, r, "none", TRUE)
<1>2. r \in Seq(STRING) /\ b \in Seq(STRING) /\ Len(b) = n
  BY <1>1, GoalIsText
<1>3. w \in STRING
  BY PartialsAssumption
<1>4. AtPartial(n) = p
  BY DEF AtPartial
<1> HIDE DEF b, w
<1>5. s \in Seq(STRING) /\ Len(s) = Len(b) + 1
  BY <1>2, <1>3, AppendProperties
<1> HIDE DEF r, s
<1>6. p \in PlaceType /\ p.at = Len(s) /\ p.at <= Len(p.text) /\ p.partial = TRUE
  <2>1. TRUE \in BOOLEAN /\ "none" \in {"none", "space", "before"}
    OBVIOUS
  <2> QED
    BY <1>2, <1>5, <2>1, InText
<1> HIDE DEF p
<1>7. p.at = n + 1
  BY <1>2, <1>5, <1>6
<1>8. p.at \in 1 .. Len(goal)
  BY <1>0, <1>7
<1> QED
  BY <1>4, <1>6, <1>8 DEF PlaceOK

\* What the source finds at a place.
LEMMA LookIsTyped ==
    ASSUME NEW p, IsPlace(p), NEW known
    PROVE  Look(p, known).context \in CursorContext
<1> DEFINE q == ExtractCurrentStatement(p)
           Suggest(r, db, ctx, scope) ==
             LET Ranked(cx, sc) ==
                   LET all == IF IsInsideStringOrComment(r) THEN {} ELSE GenerateCandidates(cx, sc, db)
                       matching == {c \in all : cx.partial = NoWord \/ MatchType(c.value, cx.partial) # "none"}
                       Score(c) == MatchTier(MatchType(c.value, cx.partial)) + ContextScore(c, cx, db)
                   IN  Deduplicate({[candidate |-> c, score |-> Score(c)] : c \in matching})
             IN  Ranked(ctx, scope)
           FoundIn(r, db) == {[context |-> ctx, suggestions |-> Suggest(r, db, ctx, scope)] :
                              ctx \in {DetectSection(r)}, scope \in {AnalyzeScope(r.text, db)}}
           S == {Autocomplete(r, db) : r \in {q}, db \in {BuildSchema(known)}}
<1>1. DetectSection(q) \in CursorContext
  BY StatementIsPlace, DetectedContext
<1>2. \A db : Autocomplete(q, db) = Only(FoundIn(q, db))
  BY DEF Autocomplete
<1> HIDE DEF Suggest, q
<1>3. ASSUME NEW db PROVE Autocomplete(q, db).context \in CursorContext
  <2> DEFINE F == FoundIn(q, db)
             c == DetectSection(q)
             sc == AnalyzeScope(q.text, db)
             E(ctx, scope) == [context |-> ctx, suggestions |-> Suggest(q, db, ctx, scope)]
  <2>4. F = {E(ctx, scope) : ctx \in {c}, scope \in {sc}}
    OBVIOUS
  <2>5. \A ctx, scope : E(ctx, scope).context = ctx
    OBVIOUS
  <2> HIDE DEF F, c, sc, E
  <2>6. F # {} /\ \A x \in F : x.context = c
    BY <2>4, <2>5
  <2>1. F # {} /\ \A x \in F : x.context = DetectSection(q)
    BY <2>6 DEF c
  <2> HIDE DEF F
  <2>2. Only(F) \in F
    BY <2>1 DEF Only
  <2>3. Only(F).context = DetectSection(q)
    BY <2>1, <2>2
  <2> QED
    BY <1>1, <1>2, <2>3 DEF F
<1>4. Look(p, known) = Only(S)
  BY DEF Look, q
<1>5. S # {} /\ \A x \in S : x.context \in CursorContext
  BY <1>3
<1> HIDE DEF S
<1>6. Only(S) \in S
  BY <1>5 DEF Only
<1> QED
  BY <1>4, <1>5, <1>6

LEMMA AtTheStart == Init => CInv
<1> SUFFICES ASSUME Init PROVE CInv
  OBVIOUS
<1> USE DEF Init
<1>1. goal \in Seq(STRING) /\ Len(goal) \in Nat
  BY StatementsAssumption, LenProperties
<1> DEFINE s == SubSeq(goal, 1, 0)
           r == Rest(0)
           A(gap) == PlaceIn(s, r, gap, FALSE)
<1>2. s = <<>>
  BY SubSeqEmpty
<1>3. r \in Seq(STRING)
  <2>1. 0 + 1 \in Nat /\ 1 <= 0 + 1 /\ Len(goal) <= Len(goal)
    BY <1>1
  <2>2. SubSeq(goal, 0 + 1, Len(goal)) \in Seq(STRING)
    BY ONLY <1>1, <2>1, PartOfText
  <2>3. <<>> \in Seq(STRING)
    OBVIOUS
  <2> QED
    BY <2>2, <2>3 DEF Rest
<1>4. s \in Seq(STRING) /\ Len(s) = 0
  BY <1>2
<1>5. \E gap \in {"none", "space", "before"} : place = A(gap)
  BY DEF AtWord
<1> HIDE DEF s, r
<1>6. place \in PlaceType /\ place.at = 0 /\ place.at <= Len(place.text) /\ place.partial = FALSE
  <2>1. PICK gap \in {"none", "space", "before"} : place = A(gap)
    BY <1>5
  <2>2. FALSE \in BOOLEAN
    OBVIOUS
  <2>3. A(gap) \in PlaceType /\ A(gap).at = Len(s) /\ A(gap).at <= Len(A(gap).text) /\ A(gap).partial = FALSE
    BY <1>3, <1>4, <2>2, InText
  <2> QED
    BY <1>4, <2>1, <2>3
<1>7. PlaceOK(place)
  BY <1>1, <1>6 DEF PlaceOK
<1>8. popup \in PopupType /\ popup.known \subseteq loaded /\ ~popup.answered
  BY DEF NoList, PopupType
<1> QED
  BY <1>7, <1>8 DEF CInv

\* A place of the statement is a place.
LEMMA PlaceIsPlace ==
    ASSUME NEW p, PlaceOK(p) PROVE IsPlace(p)
<1>1. p.text \in Seq(STRING) /\ p.at \in Nat /\ p.at <= Len(p.text) /\ Len(p.text) \in Nat
  BY LenProperties DEF PlaceOK, PlaceType
<1>2. p.at \in 0 .. Len(p.text)
  BY <1>1
<1> QED
  BY <1>1, <1>2 DEF IsPlace

\* The words that are typed.
LEMMA TypedInGoal ==
    ASSUME CInv
    PROVE  /\ Len(goal) \in Nat /\ TypedWords \in 0 .. Len(goal)
           /\ place.partial => TypedWords + 1 \in 0 .. Len(goal)
           /\ PlaceOK(place) /\ place.partial \in BOOLEAN
<1>1. PlaceOK(place) /\ Len(goal) \in Nat /\ place.at \in Nat /\ place.partial \in BOOLEAN
  BY GoalIsText DEF CInv, PlaceOK, PlaceType
<1>2. CASE place.partial
  <2>1. TypedWords = place.at - 1 /\ place.at \in 1 .. Len(goal)
    BY <1>1, <1>2 DEF TypedWords, PlaceOK
  <2> HIDE DEF TypedWords
  <2>2. TypedWords \in 0 .. Len(goal) /\ TypedWords + 1 \in 0 .. Len(goal)
    BY <1>1, <2>1
  <2> QED
    BY <1>1, <2>2
<1>3. CASE ~place.partial
  <2>1. TypedWords = place.at /\ place.at <= Len(goal)
    BY <1>1, <1>3 DEF TypedWords, PlaceOK
  <2>2. TypedWords \in 0 .. Len(goal)
    BY <1>1, <2>1
  <2> QED
    BY <1>1, <1>3, <2>2
<1> QED
  BY <1>2, <1>3

\* What the source begins with at a place.
LEMMA ConsultIsTyped ==
    ASSUME NEW explicit \in BOOLEAN, NEW known, PlaceOK(place)', Consult(explicit, known)
    PROVE  request' \in RequestType
<1>1. IsPlace(place')
  <2>1. place' \in PlaceType /\ place'.at <= Len(place'.text)
    BY DEF PlaceOK
  <2>2. place'.text \in Seq(STRING) /\ place'.at \in Nat
    BY <2>1 DEF PlaceType
  <2>3. Len(place'.text) \in Nat
    BY <2>2, LenProperties
  <2> QED
    BY <2>1, <2>2, <2>3 DEF IsPlace
<1>2. Look(place', known).context \in CursorContext
  BY <1>1, LookIsTyped
<1>3. request' = [stage |-> "first", explicit |-> explicit, ctx |-> Look(place', known).context]
  BY DEF Consult
<1>4. "first" \in Stages
  BY DEF Stages
<1> QED
  BY <1>2, <1>3, <1>4 DEF RequestType

\* The next place, with the list closed.
LEMMA Elsewhere ==
    ASSUME CInv, PlaceOK(place'), goal' = goal, whole' = whole, loaded' = loaded, fetching' = fetching,
           popup' = NoList, request' = Idle \/ request' \in RequestType
    PROVE  CInv'
<1>1. PlaceOK(place)'
  BY DEF PlaceOK
<1>2. (popup \in PopupType /\ popup.known \subseteq loaded /\ ~popup.answered)'
  BY DEF NoList, PopupType
<1>3. (request = Idle \/ request \in RequestType)'
  BY DEF Idle, RequestType
<1>4. (goal \in Statements /\ whole \in BOOLEAN /\ loaded \subseteq Tables /\ fetching \subseteq Tables \ loaded)'
  BY DEF CInv, Tables
<1> QED
  BY <1>1, <1>2, <1>3, <1>4 DEF CInv

\* A key in the editor.
LEMMA KeyKeeps ==
    ASSUME CInv, NEW p, PlaceOK(p), NEW anew \in BOOLEAN, MoveTo(p, anew)
    PROVE  CInv'
<1>1. /\ place' = p /\ popup' = NoList /\ (anew => Consult(FALSE, loaded)) /\ (~anew => request' = Idle)
      /\ goal' = goal /\ whole' = whole /\ loaded' = loaded /\ fetching' = fetching
  BY DEF MoveTo
<1>2. PlaceOK(place)'
  BY <1>1 DEF PlaceOK
<1>3. request' = Idle \/ request' \in RequestType
  <2>1. ASSUME anew PROVE request' \in RequestType
    <3>1. FALSE \in BOOLEAN /\ Consult(FALSE, loaded)
      BY <1>1, <2>1
    <3> QED
      BY <1>2, <3>1, ConsultIsTyped
  <2> QED
    BY <1>1, <2>1
<1>4. PlaceOK(place')
  BY <1>1
<1> QED
  BY <1>1, <1>3, <1>4, Elsewhere

LEMMA StartKeeps ==
    ASSUME CInv, StartCompletion PROVE CInv'
<1>1. /\ place' = place /\ popup' = NoList /\ Consult(TRUE, loaded)
      /\ goal' = goal /\ whole' = whole /\ loaded' = loaded /\ fetching' = fetching
  BY DEF StartCompletion
<1>2. PlaceOK(place) /\ PlaceOK(place')
  BY <1>1 DEF CInv
<1>3. PlaceOK(place)'
  BY <1>1, <1>2 DEF PlaceOK
<1>4. request' \in RequestType
  <2>1. TRUE \in BOOLEAN
    OBVIOUS
  <2> QED
    BY <1>1, <1>3, <2>1, ConsultIsTyped
<1> QED
  BY <1>1, <1>2, <1>4, Elsewhere

\* A pick goes on with the statement.
LEMMA AcceptKeeps ==
    ASSUME CInv, NEW c, Accept(c) PROVE CInv'
<1> DEFINE n == TypedWords + Len(c.value)
           dot == c.suffix = "."
           spaced == c.suffix = Space
           gap == IF spaced THEN "space" ELSE "none"
           next == IF dot THEN AtWord(n + 1, "none") ELSE AtWord(n, gap)
<1>1. /\ GoesOn(c) /\ (dot => NoSpace(n) /\ goal[n + 1] = ".")
      /\ place' = next /\ popup' = NoList
      /\ (IF dot \/ c.value \in RetriggerKeywords THEN Consult(TRUE, loaded) ELSE request' = Idle)
      /\ goal' = goal /\ whole' = whole /\ loaded' = loaded /\ fetching' = fetching
  BY DEF Accept
<1>2. Len(goal) \in Nat /\ TypedWords \in 0 .. Len(goal) /\ goal \in Seq(STRING)
  BY TypedInGoal, GoalIsText
<1> DEFINE w == TypedWords
           m == Len(goal)
           rest == Remaining
<1>3. rest \in Seq(STRING) /\ Len(rest) = m - w
  <2>1. w + 1 \in Nat /\ m \in Nat /\ 1 <= w + 1 /\ m <= Len(goal)
    BY <1>2
  <2>2. rest = SubSeq(goal, w + 1, m)
    BY DEF Remaining
  <2> HIDE DEF rest, w
  <2>3. SubSeq(goal, w + 1, m) \in Seq(STRING) /\ Len(SubSeq(goal, w + 1, m)) = IF w + 1 <= m THEN m - (w + 1) + 1 ELSE 0
    BY ONLY <1>2, <2>1, PartOfText
  <2>4. (IF w + 1 <= m THEN m - (w + 1) + 1 ELSE 0) = m - w
    <3> HIDE DEF m
    <3> QED
      BY <1>2, <2>1 DEF w, m
  <2> QED
    BY <2>2, <2>3, <2>4
<1> HIDE DEF rest
<1>4. PICK k \in 0 .. Len(rest) : c.value = SubSeq(rest, 1, k)
  BY <1>1 DEF GoesOn, Prefixes, rest
<1> DEFINE len == Len(c.value)
<1>5. len = k /\ k \in 0 .. m - w
  <2>1. Len(rest) \in Nat
    BY <1>3, LenProperties
  <2>2. k \in Nat /\ k <= Len(rest) /\ 1 \in Nat /\ 1 <= 1
    BY <2>1
  <2>3. Len(SubSeq(rest, 1, k)) = IF 1 <= k THEN k - 1 + 1 ELSE 0
    BY ONLY <1>3, <2>2, PartOfText
  <2>4. (IF 1 <= k THEN k - 1 + 1 ELSE 0) = k
    BY <2>2
  <2> QED
    BY <1>3, <1>4, <2>3, <2>4
<1> HIDE DEF len
<1>6. n = w + len
  BY DEF len
<1> HIDE DEF n, w, m
<1>7. n \in 0 .. Len(goal)
  BY <1>2, <1>5, <1>6 DEF w, m
<1>8. dot => n + 1 \in 0 .. Len(goal)
  <2>1. dot => n < Len(goal)
    <3>1. NoSpace(n) => n \in 1 .. Len(goal) - 1
      BY DEF NoSpace, Adjacent
    <3>2. n \in 1 .. Len(goal) - 1 => n < Len(goal)
      BY <1>2
    <3> QED
      BY <1>1, <3>1, <3>2
  <2>2. n < Len(goal) => n + 1 \in 0 .. Len(goal)
    BY <1>2, <1>7
  <2> QED
    BY <2>1, <2>2
<1>9. gap \in {"none", "space", "before"} /\ "none" \in {"none", "space", "before"}
  OBVIOUS
<1> HIDE DEF dot, gap
<1>10. PlaceOK(next)
  <2>1. dot => PlaceOK(AtWord(n + 1, "none"))
    BY <1>8, <1>9, WordIsPlace
  <2>2. PlaceOK(AtWord(n, gap))
    BY <1>7, <1>9, WordIsPlace
  <2> QED
    BY <2>1, <2>2
<1> HIDE DEF next
<1>11. PlaceOK(place') /\ PlaceOK(place)'
  <2>1. PlaceOK(place')
    BY <1>1, <1>10
  <2> QED
    BY <1>1, <2>1 DEF PlaceOK
<1>12. request' = Idle \/ request' \in RequestType
  <2>1. TRUE \in BOOLEAN
    OBVIOUS
  <2> QED
    BY <1>1, <1>11, <2>1, ConsultIsTyped
<1> QED
  BY <1>1, <1>11, <1>12, Elsewhere

\* What is waited for are tables.
LEMMA WantedAreTables ==
    ASSUME NEW ctx
    PROVE  FirstWanted(ctx) \subseteq Tables /\ AlsoWanted(ctx) \subseteq Tables
<1>1. \A k \in DOMAIN Database.tables : Database.tables[k] \in Tables
  BY DEF Tables, ToSet
<1> DEFINE name  == ResolveTableAlias(ExtractCurrentStatement(place).text, ctx.prefix)
           named == {k \in DOMAIN Database.tables : Database.tables[k].name = name}
           A == {Database.tables[k] : k \in {j \in named : \A h \in named : j <= h}}
           B == {t \in Tables : <<t.schema, t.name>> = Database.selected}
<1>2. A \subseteq Tables /\ B \subseteq Tables /\ {} \subseteq Tables
  BY <1>1
<1>3. FirstWanted(ctx) = CASE ctx.prefix # NoWord -> A [] ctx.section \in ColumnFetchSections -> B [] OTHER -> {}
  BY DEF FirstWanted
<1> HIDE DEF A, B
<1>4. FirstWanted(ctx) \subseteq Tables
  BY <1>2, <1>3
<1> QED
  BY <1>4 DEF AlsoWanted

\* A fetch.
LEMMA FetchKeeps ==
    ASSUME CInv, NEW wanted, wanted \subseteq Tables, NEW stage \in Stages, request.stage \in Stages,
           fetching' = fetching \cup (wanted \ loaded), request' = [request EXCEPT !.stage = stage],
           UNCHANGED <<goal, whole, place, loaded, popup>>
    PROVE  CInv'
<1>1. request \in RequestType
  BY IdleIsNoStage DEF CInv
<1>2. request' \in RequestType
  BY <1>1 DEF RequestType
<1>3. (request = Idle \/ request \in RequestType)'
  BY <1>2 DEF RequestType
<1>4. ~popup.answered
  BY <1>1, IdleIsNoStage DEF CInv
<1>5. PlaceOK(place)'
  BY DEF CInv, PlaceOK
<1>6. (loaded \subseteq Tables /\ fetching \subseteq Tables \ loaded)'
  BY DEF CInv, Tables
<1>7. (popup \in PopupType /\ popup.known \subseteq loaded /\ ~popup.answered)'
  BY <1>4 DEF CInv, PopupType, Tables
<1> QED
  BY <1>3, <1>5, <1>6, <1>7 DEF CInv

LEMMA ArriveKeeps ==
    ASSUME CInv, NEW t \in fetching, Arrive(t) PROVE CInv'
<1>1. /\ fetching' = fetching \ {t} /\ (loaded' = loaded \cup {t} \/ loaded' = loaded)
      /\ goal' = goal /\ whole' = whole /\ place' = place /\ request' = request /\ popup' = popup
  BY DEF Arrive
<1>2. (loaded \subseteq Tables /\ fetching \subseteq Tables \ loaded)'
  BY <1>1 DEF CInv, Tables
<1>3. PlaceOK(place)'
  BY <1>1 DEF CInv, PlaceOK
<1>4. (popup \in PopupType /\ popup.known \subseteq loaded)'
  BY <1>1 DEF CInv, PopupType, Tables
<1>5. (request = Idle \/ request \in RequestType)'
  BY <1>1 DEF CInv, RequestType, Idle
<1>6. (popup.answered => request = Idle)'
  BY <1>1 DEF CInv, Idle
<1>7. (goal \in Statements /\ whole \in BOOLEAN)'
  BY <1>1 DEF CInv
<1> QED
  BY <1>2, <1>3, <1>4, <1>5, <1>6, <1>7 DEF CInv

\* The answer.
LEMMA ShowKeeps ==
    ASSUME CInv, request.stage = "waitOthers", Show PROVE CInv'
<1>1. request \in RequestType
  BY IdleIsNoStage DEF CInv
<1>2. /\ popup' = [answered |-> TRUE, explicit |-> request.explicit, known |-> loaded] /\ request' = Idle
      /\ goal' = goal /\ whole' = whole /\ place' = place /\ loaded' = loaded /\ fetching' = fetching
  BY DEF Show
<1>3. (popup \in PopupType /\ popup.known \subseteq loaded)'
  BY <1>1, <1>2 DEF CInv, RequestType, PopupType, Tables
<1>4. PlaceOK(place)'
  BY <1>2 DEF CInv, PlaceOK
<1>5. (loaded \subseteq Tables /\ fetching \subseteq Tables \ loaded)'
  BY <1>2 DEF CInv, Tables
<1>6. (request = Idle)'
  BY <1>2 DEF Idle
<1>7. (goal \in Statements /\ whole \in BOOLEAN)'
  BY <1>2 DEF CInv
<1> QED
  BY <1>3, <1>4, <1>5, <1>6, <1>7 DEF CInv

LEMMA CompletionStep == CInv /\ [Next]_vars => CInv'
<1> SUFFICES ASSUME CInv, [Next]_vars PROVE CInv'
  OBVIOUS
<1>1. CASE TypeWord
  <2>1. TypedWords + 1 \in 0 .. Len(goal) /\ MoveTo(AtWord(TypedWords + 1, "none"), ~whole)
    <3>1. TypedWords < Len(goal) /\ MoveTo(AtWord(TypedWords + 1, "none"), ~whole)
      BY <1>1 DEF TypeWord
    <3>2. TypedWords + 1 \in 0 .. Len(goal)
      <4> HIDE DEF TypedWords
      <4> QED
        BY <3>1, TypedInGoal
    <3> QED
      BY <3>1, <3>2
  <2>2. PlaceOK(AtWord(TypedWords + 1, "none")) /\ (~whole) \in BOOLEAN
    BY <2>1, WordIsPlace
  <2> QED
    BY <2>1, <2>2, KeyKeeps
<1>2. CASE TypePartial
  <2>1. /\ ~place.partial /\ TypedWords < Len(goal) /\ goal[TypedWords + 1] \in DOMAIN Partials
        /\ MoveTo(AtPartial(TypedWords), TRUE)
    BY <1>2 DEF TypePartial
  <2>2. TypedWords \in Nat
    BY TypedInGoal
  <2>3. PlaceOK(AtPartial(TypedWords)) /\ TRUE \in BOOLEAN
    BY <2>1, <2>2, PartialIsPlace
  <2> QED
    BY <2>1, <2>3, KeyKeeps
<1>3. CASE TypeSpace
  <2>1. MoveTo(AtWord(TypedWords, "space"), TRUE)
    BY <1>3 DEF TypeSpace
  <2>2. PlaceOK(AtWord(TypedWords, "space")) /\ TRUE \in BOOLEAN
    BY TypedInGoal, WordIsPlace
  <2> QED
    BY <2>1, <2>2, KeyKeeps
<1>4. CASE MoveBeforeNext
  <2>1. MoveTo(AtWord(TypedWords, "before"), FALSE)
    BY <1>4 DEF MoveBeforeNext
  <2>2. PlaceOK(AtWord(TypedWords, "before")) /\ FALSE \in BOOLEAN
    BY TypedInGoal, WordIsPlace
  <2> QED
    BY <2>1, <2>2, KeyKeeps
<1>5. CASE StartCompletion
  BY <1>5, StartKeeps
<1>6. CASE FetchFirst
  <2>1. /\ request.stage = "first" /\ request' = [request EXCEPT !.stage = "waitFirst"]
        /\ fetching' = fetching \cup (FirstWanted(request.ctx) \ loaded) /\ UNCHANGED <<goal, whole, place, loaded, popup>>
    BY <1>6 DEF FetchFirst
  <2> QED
    BY <2>1, IdleIsNoStage, WantedAreTables, FetchKeeps
<1>7. CASE FetchOthers
  <2>1. /\ request.stage = "waitFirst" /\ request' = [request EXCEPT !.stage = "waitOthers"]
        /\ fetching' = fetching \cup (AlsoWanted(request.ctx) \ loaded) /\ UNCHANGED <<goal, whole, place, loaded, popup>>
    BY <1>7 DEF FetchOthers
  <2> QED
    BY <2>1, IdleIsNoStage, WantedAreTables, FetchKeeps
<1>8. CASE AllThere
  BY <1>8, ShowKeeps DEF AllThere
<1>9. CASE SecondIsOver
  BY <1>9, ShowKeeps DEF SecondIsOver
<1>10. CASE \E t \in fetching : Arrive(t)
  BY <1>10, ArriveKeeps
<1>11. CASE \E s \in Offered : Accept(s.candidate)
  BY <1>11, AcceptKeeps
<1>12. CASE UNCHANGED vars
  <2>1. /\ goal' = goal /\ whole' = whole /\ place' = place /\ loaded' = loaded /\ fetching' = fetching
        /\ request' = request /\ popup' = popup
    BY <1>12 DEF vars
  <2>2. PlaceOK(place)'
    BY <2>1 DEF CInv, PlaceOK
  <2>3. (request = Idle \/ request \in RequestType)' /\ (popup.answered => request = Idle)'
    BY <2>1 DEF CInv, RequestType, Idle
  <2>4. (popup \in PopupType /\ popup.known \subseteq loaded)'
    BY <2>1 DEF CInv, PopupType, Tables
  <2>5. (goal \in Statements /\ whole \in BOOLEAN /\ loaded \subseteq Tables /\ fetching \subseteq Tables \ loaded)'
    BY <2>1 DEF CInv, Tables
  <2> QED
    BY <2>2, <2>3, <2>4, <2>5 DEF CInv
<1> QED
  BY <1>1, <1>2, <1>3, <1>4, <1>5, <1>6, <1>7, <1>8, <1>9, <1>10, <1>11, <1>12 DEF Next

\* What the invariant says of a state: its types, the tooltip and the lists of arguments.
LEMMA CInvIsEnough == CInv => CompletionInv
<1> SUFFICES ASSUME CInv PROVE CompletionInv
  OBVIOUS
<1>1. IsPlace(place) /\ place.gap \in {"none", "space", "before"}
  BY PlaceIsPlace DEF CInv, PlaceOK, PlaceType
<1>2. CompletionTypeOK
  <2>1. place.at \in 0 .. Len(place.text)
    BY <1>1 DEF IsPlace
  <2>2. request = Idle \/ (request.stage \in Stages /\ request.ctx \in CursorContext)
    BY DEF CInv, RequestType
  <2> QED
    BY <1>1, <2>1, <2>2 DEF CInv, CompletionTypeOK
<1>3. SignatureFits
  BY <1>1, TooltipFits DEF IsPlace
<1> QED
  BY <1>2, <1>3, AllAreRead DEF CompletionInv

\* While a statement is typed, whatever arrives and whatever is picked, the place is one in the
\* statement and the request and the list are in step; the tooltip shows the arguments of the
\* function whose call the cursor is in and marks the one it is in; and what the schema tab reads
\* of a list of arguments is what was declared.
THEOREM CompletionIsSound == Spec => []CompletionInv
<1>1. Init => CInv
  BY AtTheStart
<1>2. CInv /\ [Next]_vars => CInv'
  BY CompletionStep
<1>3. CInv => CompletionInv
  BY CInvIsEnough
<1> QED
  BY <1>1, <1>2, <1>3, PTL DEF Spec

================================================================================
