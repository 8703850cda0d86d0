------------------------------- MODULE SqlFormat -------------------------------
(*****************************************************************************)
(* The formatter: src/lib/sql/format.ts prints the client's tree, and the    *)
(* text goes back to the editor, where PostgreSQL will read it.              *)
(*                                                                           *)
(* An expression is printed as tokens: an operator, or a term that brackets  *)
(* or keywords delimit.  What is inside a delimited term is read where it is *)
(* printed, so a term token carries the tree PostgreSQL makes of it.  Broken *)
(* is a text that does not parse.                                            *)
(*****************************************************************************)
EXTENDS SqlTree

Broken == Leaf("broken")

\* The element of a set that has one.  Only({f(v) : v \in {e}}) computes e once.
Only(S) == CHOOSE x \in S : TRUE

RECURSIVE Occurs(_, _)
Occurs(names, t) == t.n \in names \/ \E i \in DOMAIN t.a : Occurs(names, t.a[i])

Op(o) == [op |-> o, e |-> Absent]
Term(t) == [op |-> "", e |-> t]

--------------------------------------------------------------------------------
(* How PostgreSQL reads the tokens of an expression: precedence climbing with   *)
(* the precedences of its grammar.                                             *)

Levels == << {"OR"}, {"AND"}, {"NOT"}, {"ISNULL", "ISNOTNULL"}, {"=", "EQANY", "EQALL"},
             {"LIKE", "IN", "BETWEEN"}, {"~~*"}, {"+", "-"}, {"*"}, {"::"} >>
Precedence(o) == CHOOSE p \in DOMAIN Levels : o \in Levels[p]
NotLevel == Precedence("NOT")

Postfix == {"ISNULL", "ISNOTNULL", "::", "EQANY", "EQALL"}
NonAssociative == {Precedence("="), Precedence("LIKE")}

\* A AND B AND C is one node: the grammar flattens on the left.
Combine(o, l, r) ==
    IF o \in {"AND", "OR"} /\ l.n = o THEN N(o, Append(l.a, r), {}) ELSE N(o, <<l, r>>, {})

\* The postfix operator o with its term t, applied to l.
ApplyPostfix(o, t, l) ==
    CASE o = "ISNULL" -> N("ISNULL", <<l>>, {})
      [] o = "ISNOTNULL" -> N("ISNULL", <<l>>, {"negated"})
      [] o = "::" -> N("CAST", <<l>>, t.m)
      [] o = "EQANY" -> N("ANY", <<l, t>>, {})
      [] OTHER -> N("ALL", <<l, t>>, {})

\* [e, rest]: the longest expression at the head of ts whose operators bind at least as
\* tightly as min, and what follows it.  Climb continues after its left operand l.
RECURSIVE Climb(_, _, _, _), ReadFrom(_, _)
Climb(l, ts, min, last) ==
    IF ts = <<>> \/ Head(ts).op = "" \/ Head(ts).op = "NOT" THEN [e |-> l, rest |-> ts]
    ELSE LET o == Head(ts).op
             p == Precedence(o)
         IN  IF p < min THEN [e |-> l, rest |-> ts]
             ELSE IF p \in NonAssociative /\ p = last THEN [e |-> Broken, rest |-> <<>>]
             ELSE IF o \in Postfix
             THEN Climb(ApplyPostfix(o, Head(ts).e, l), Tail(ts), min, 0)
             ELSE LET r == ReadFrom(Tail(ts), p + 1)
                  IN  Climb(Combine(o, l, r.e), r.rest, min, p)

ReadFrom(ts, min) ==
    IF ts = <<>> THEN [e |-> Broken, rest |-> <<>>]
    ELSE IF Head(ts).op = "" THEN Climb(Head(ts).e, Tail(ts), min, 0)
    ELSE IF Head(ts).op = "NOT"
    THEN LET r == ReadFrom(Tail(ts), NotLevel)
         IN  Climb(N("NOT", <<r.e>>, {}), r.rest, min, 0)
    ELSE [e |-> Broken, rest |-> <<>>]

ReadExpr(tokens) ==
    Only({IF r.rest # <<>> \/ Occurs({"broken"}, r.e) THEN Broken ELSE r.e :
            r \in {ReadFrom(ts, 0) : ts \in {tokens}}})

\* Expressions between commas; an empty list is allowed where the grammar allows it.
ReadList(printed, mayBeEmpty) ==
    Only({IF Len(lists) = 1 /\ lists[1] = <<>> /\ mayBeEmpty THEN <<>>
          ELSE [i \in DOMAIN lists |-> ReadExpr(lists[i])] : lists \in {printed}})

--------------------------------------------------------------------------------
(* Printing of expressions. *)

RECURSIVE FormatExpr(_), FormatSelect(_), FormatFrom(_), FormatGroupByItem(_)

FormatExprs(es) == [i \in DOMAIN es |-> FormatExpr(es[i])]

\* The name without quotes: read back, it is another name if it needed them.
FormatColumnRef(e) == <<Term(N("column", <<>>, e.m \ {"quoted"}))>>
\* What is printed for an undefined value is a column of that name.
FormatLiteral(e) == <<Term(IF "undefined" \in e.m THEN Leaf("column") ELSE e)>>

\* The default frame is left out; what has no end is printed without BETWEEN.
IsDefaultWindowFrame(m) ==
    "RANGE" \in m /\ "START_UNBOUNDED_PRECEDING" \in m /\ m \cap ToSet(FrameEnds) = {}

FrameMarks(m) == m \cap DOMAIN PgBit
FormatWindowFrame(m) ==
    IF FrameMarks(m) = {} \/ IsDefaultWindowFrame(m) THEN {}
    ELSE FrameMarks(m) \cup {x \in {"BETWEEN"} : m \cap ToSet(FrameEnds) # {}}

\* What PostgreSQL makes of a printed frame.
ReadWindowFrame(m) ==
    IF m = {} THEN {"RANGE", "START_UNBOUNDED_PRECEDING", "END_CURRENT_ROW"}
    ELSE IF "BETWEEN" \in m THEN m ELSE m \cup {"END_CURRENT_ROW"}

\* A window that has a name and nothing of its own is a reference; any other drops the name.
FormatWindowDef(w) ==
    LET plain == w.m \cap {"partition", "order"}
        frame == FormatWindowFrame(w.m)
    IN  N("window", <<>>,
          IF "named" \in w.m /\ plain = {} /\ frame = {}
          THEN {"named"} \cup ReadWindowFrame({})
          ELSE plain \cup ReadWindowFrame(frame))

FormatFuncCall(e) ==
    LET over == "over" \in e.m
        args == IF over THEN Front(e.a) ELSE e.a
        read == ReadList(FormatExprs(args), TRUE)
    IN  <<Term(N("func", read \o (IF over THEN <<FormatWindowDef(Last(e.a))>> ELSE <<>>), e.m))>>

\* No parentheses, whatever the operands are.
FormatBinaryOp(e) == FormatExpr(e.a[1]) \o <<Op(e.n)>> \o FormatExpr(e.a[2])
FormatUnaryOp(e) == <<Op("NOT")>> \o FormatExpr(e.a[1])

FormatSubLink(e) ==
    Only({CASE e.n = "ANY" -> FormatExpr(e.a[1]) \o <<[op |-> "EQANY", e |-> query]>>
            [] e.n = "ALL" -> FormatExpr(e.a[1]) \o <<[op |-> "EQALL", e |-> query]>>
            [] OTHER -> <<Term(N(e.n, <<query>>, {}))>> : query \in {FormatSelect(Last(e.a))}})

\* INTERVAL goes in front, which the grammar allows before a string only.
FormatTypeCast(e) ==
    LET arg == FormatExpr(e.a[1])
    IN  IF "interval" \notin e.m THEN arg \o <<[op |-> "::", e |-> N("type", <<>>, e.m)]>>
        ELSE IF e.a[1].n = "const" /\ "string" \in e.a[1].m
        THEN <<Term(N("CAST", <<arg[1].e>>, e.m))>> ELSE <<Term(Broken)>>

\* Mutant: IS NOT NULL loses its NOT.
FormatNullTest_Positive(e) == FormatExpr(e.a[1]) \o <<Op("ISNULL")>>

FormatNullTest(e) ==
    FormatExpr(e.a[1]) \o <<Op(IF "negated" \in e.m THEN "ISNOTNULL" ELSE "ISNULL")>>

FormatArrayExpr(e) == <<Term(N("array", ReadList(FormatExprs(e.a), TRUE), {}))>>
FormatCoalesce(e) == <<Term(N("coalesce", ReadList(FormatExprs(e.a), FALSE), {}))>>
FormatParamRef(e) == <<Term(e)>>

\* One column in parentheses is that column.
FormatRowExpr(e) ==
    LET read == ReadList(FormatExprs(e.a), FALSE)
    IN  <<Term(IF Len(read) = 1 THEN read[1] ELSE N("row", read, {}))>>

FormatCase(e) ==
    <<Term(N("case", [i \in DOMAIN e.a |-> IF e.a[i] = Absent THEN Absent
                                           ELSE ReadExpr(FormatExpr(e.a[i]))], {}))>>

\* The unknown expression is the empty text.
FormatExpr(e) ==
    CASE e.n = "column" -> FormatColumnRef(e)
      [] e.n = "const" -> FormatLiteral(e)
      [] e.n = "func" -> FormatFuncCall(e)
      [] e.n = "NOT" -> FormatUnaryOp(e)
      [] e.n \in {"EXISTS", "ANY", "ALL", "SCALAR"} -> FormatSubLink(e)
      [] e.n = "case" -> FormatCase(e)
      [] e.n = "CAST" -> FormatTypeCast(e)
      [] e.n = "ISNULL" -> FormatNullTest(e)
      [] e.n = "array" -> FormatArrayExpr(e)
      [] e.n = "coalesce" -> FormatCoalesce(e)
      [] e.n = "param" -> FormatParamRef(e)
      [] e.n = "row" -> FormatRowExpr(e)
      [] e.n = "unknown" -> <<>>
      [] OTHER -> FormatBinaryOp(e)

\* Inside GROUPING SETS a plain item gets parentheses, which change nothing.
FormatGroupByItem(e) ==
    IF e.n \in {"ROLLUP", "CUBE", "SETS", "EMPTY"}
    THEN N(e.n, [i \in DOMAIN e.a |-> FormatGroupByItem(e.a[i])], {})
    ELSE ReadExpr(FormatExpr(e))

--------------------------------------------------------------------------------
(* FROM, as PostgreSQL reads it. *)

FormatTableRef(t) == N("table", <<>>, t.m \ {"quoted"})
FormatSubqueryRef(f) == N("subquery", <<FormatSelect(f.a[1])>>, f.m)

\* Mutant: the right side is printed first.
FormatJoin_RightFirst(f) ==
    IF f.n = "cross" THEN N("list", <<FormatFrom(f.a[2]), FormatFrom(f.a[1])>>, {})
    ELSE N("join", <<FormatFrom(f.a[2]), FormatFrom(f.a[1])>>, f.m)

\* A join needs ON or USING; there is no CROSS JOIN or NATURAL among the types.
FormatJoin(f) ==
    Only({IF f.n = "cross"
          THEN N("list", (IF l.n = "list" THEN l.a ELSE <<l>>) \o <<FormatFrom(f.a[2])>>, {})
          ELSE IF f.m \cap {"on", "using"} = {} THEN Broken
          ELSE N("join", <<l, FormatFrom(f.a[2])>>, IF "on" \in f.m THEN f.m \ {"using"} ELSE f.m) :
            l \in {FormatFrom(f.a[1])}})

FormatFrom(f) ==
    CASE f = Absent -> Absent
      [] f.n = "table" -> FormatTableRef(f)
      [] f.n = "subquery" -> FormatSubqueryRef(f)
      [] f.n = "noname" -> Broken
      [] OTHER -> FormatJoin(f)

--------------------------------------------------------------------------------
(* SELECT: the clauses in the order they are printed, and the order the grammar *)
(* wants them in.                                                               *)

SelectPrinted == <<"with", "distinctOn", "distinct", "columns", "from", "where", "group", "having",
                   "window", "orderBy", "limit", "offset", "locking">>
SelectGrammar == <<"with", "distinctOn", "distinct", "columns", "from", "where", "group", "having",
                   "window", "orderBy", "limit", "offset", "locking">>

Position(x, seq) == CHOOSE i \in DOMAIN seq : seq[i] = x
InOrder(present, printed, grammar) ==
    \A x, y \in present : Position(x, printed) < Position(y, printed)
                            => Position(x, grammar) <= Position(y, grammar)

ReadWhere(w) == IF w = Absent THEN Absent ELSE ReadExpr(FormatExpr(w))

\* The clauses of a plain SELECT; DISTINCT ON hides DISTINCT, as every query with ON has both.
SelectClauses(q) ==
    (q.m \cap ToSet(SelectPrinted))
        \cup {x \in {"from"} : q.a[1] # Absent} \cup {x \in {"where"} : q.a[2] # Absent}
        \cup {x \in {"group"} : q.a[3] # Absent}

ReadPlainSelect(q) ==
    Only({IF ~InOrder(SelectClauses(q), SelectPrinted, SelectGrammar) \/ Occurs({"broken"}, t)
          THEN Broken ELSE t :
            t \in {N("select", <<FormatFrom(q.a[1]), ReadWhere(q.a[2]),
                                IF q.a[3] = Absent THEN Absent ELSE FormatGroupByItem(q.a[3])>>, q.m)}})

\* Sides and operators one after another, without parentheses.
RECURSIVE SetOpTokens(_)
SetOpTokens(q) ==
    IF q.n \notin SetOps THEN <<Term(ReadPlainSelect(q))>>
    ELSE SetOpTokens(q.a[1]) \o <<[op |-> q.n, e |-> N(q.n, <<>>, q.m)]>> \o SetOpTokens(q.a[2])

\* How PostgreSQL reads them: INTERSECT first, then from the left.  A clause that may follow
\* a set operation belongs to the whole of it, at the end, and is an error before an operator;
\* WITH belongs to the whole at the beginning, and is an error elsewhere.
TailClauses == SortFields \cup LockingFields \cup {"limit", "offset"}

RECURSIVE ReadSetOps(_)
ReadSetOps(ts) ==
    IF Len(ts) = 1 THEN ts[1].e
    ELSE LET loose == {i \in DOMAIN ts : ts[i].op \in {"UNION", "EXCEPT"}}
             cut   == IF loose # {} THEN Max(loose) ELSE Max({i \in DOMAIN ts : ts[i].op # ""})
         IN  N(ts[cut].op, <<ReadSetOps(SubSeq(ts, 1, cut - 1)), ReadSetOps(SubSeq(ts, cut + 1, Len(ts)))>>,
               ts[cut].e.m)

ReadQuery(ts) ==
    IF Len(ts) = 1 THEN ts[1].e
    ELSE LET own(i) == ts[i].e.m
             terms  == {i \in DOMAIN ts : ts[i].op = ""}
             whole  == (own(1) \cap WithFields) \cup (own(Len(ts)) \cap TailClauses)
             bare   == [i \in DOMAIN ts |->
                          IF ts[i].op # "" THEN ts[i]
                          ELSE [ts[i] EXCEPT !.e.m = @ \ (WithFields \cup TailClauses)]]
             tree   == ReadSetOps(bare)
         IN  IF \/ \E i \in terms : ts[i].e = Broken
                \/ \E i \in terms \ {1} : own(i) \cap WithFields # {}
                \/ \E i \in terms \ {Len(ts)} : own(i) \cap TailClauses # {}
             THEN Broken
             ELSE [tree EXCEPT !.m = @ \cup whole]

FormatSelect(q) == Only({ReadQuery(ts) : ts \in {SetOpTokens(q)}})

--------------------------------------------------------------------------------
(* Statements that change rows, as PostgreSQL reads them.                      *)

\* The target of an INSERT takes its alias with AS only, and the statement needs a source.
FormatInsert(s) ==
    IF s.m \cap {"alias", "emptyValue"} # {} \/ (s.a[1] = Absent /\ "values" \notin s.m) THEN Broken
    ELSE N("insert", <<IF s.a[1] = Absent THEN Absent ELSE FormatSelect(s.a[1]), Absent>>, s.m)

FormatUpdate(s) ==
    IF "emptyValue" \in s.m THEN Broken
    ELSE N("update", <<FormatFrom(s.a[1]), ReadWhere(s.a[2])>>, s.m)

FormatDelete(s) == N("delete", <<FormatFrom(s.a[1]), ReadWhere(s.a[2])>>, s.m)

--------------------------------------------------------------------------------
(* Definitions. *)

\* NOT NULL, DEFAULT, PRIMARY KEY and UNIQUE; CHECK and REFERENCES of a column are not printed.
FormatColumnDef(c) == N("columnDef", <<>>, c.m \ {"check", "references"})

\* CHECK (...) is no condition, and FOREIGN KEY (...) lacks its REFERENCES.
FormatTableConstraint(c) == IF c.n \in {"CHECK", "FOREIGN"} THEN Broken ELSE c

FormatCreateTable(s) ==
    N("createTable", [i \in DOMAIN s.a |-> IF s.a[i].n = "columnDef" THEN FormatColumnDef(s.a[i])
                                           ELSE FormatTableConstraint(s.a[i])], s.m)

FormatAlterTableCmd(c) ==
    CASE c.n = "addColumn" -> [c EXCEPT !.a[1] = FormatColumnDef(@)]
      [] c.n = "addConstraint" -> [c EXCEPT !.a[1] = FormatTableConstraint(@)]
      [] OTHER -> c

\* Each command on a line of its own, with no comma between two of them.
FormatAlterTable(s) ==
    IF Len(s.a) # 1 THEN Broken ELSE N("alterTable", <<FormatAlterTableCmd(s.a[1])>>, s.m)

\* The delimiter is one that the body does not contain; the line breaks next to it become
\* part of the body, each time.
FormatCreateFunction(s) ==
    IF "body" \in s.m THEN N("createFunction", Append(s.a, Leaf("blank")), s.m) ELSE s

FormatStatement(s) ==
    CASE s.n \in SetOps \cup {"select"} -> FormatSelect(s)
      [] s.n = "insert" -> FormatInsert(s)
      [] s.n = "update" -> FormatUpdate(s)
      [] s.n = "delete" -> FormatDelete(s)
      [] s.n = "createTable" -> FormatCreateTable(s)
      [] s.n = "alterTable" -> FormatAlterTable(s)
      [] s.n = "createFunction" -> FormatCreateFunction(s)
      [] OTHER -> s

--------------------------------------------------------------------------------
(* formatSql on a text of one statement: what PostgreSQL reads afterwards.  The  *)
(* text stays as it was when the transformers or the printers throw: on a field  *)
(* of undefined, or on the operand a unary minus does not have.                  *)

RECURSIVE PrinterThrows(_)
PrinterThrows(t) ==
    \/ t = Throws
    \/ t.n \in {"-", "+", "="} /\ t.a[1] = Absent
    \/ \E i \in DOMAIN t.a : PrinterThrows(t.a[i])

FormatSql(s) ==
    IF s = Broken THEN s
    ELSE Only({ IF PrinterThrows(ir) THEN s
                ELSE Only({IF Occurs({"broken"}, text) THEN Broken ELSE text : text \in {FormatStatement(ir)}}) :
                ir \in {TransformStatement(s)} })

\* One line: every run of white space becomes a space, also inside a string or around
\* a function's body, and a line comment takes the rest of the statement with it.
RECURSIVE Collapse(_)
Collapse(t) ==
    LET kept == SelectSeq([i \in DOMAIN t.a |-> IF i > 1 /\ t.a[i].n = "blank" THEN Absent ELSE t.a[i]],
                          LAMBDA c : t.n # "createFunction" \/ c # Absent)
    IN  N(t.n, [i \in DOMAIN kept |-> Collapse(kept[i])], t.m \ {"spaced"})

FormatSqlOneLine(s) == IF "lineComment" \in s.m THEN Leaf("truncated") ELSE Collapse(s)
================================================================================
