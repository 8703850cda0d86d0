-------------------------------- MODULE SqlTree --------------------------------
(*****************************************************************************)
(* From PostgreSQL's parse tree to the client's own tree: the transformers   *)
(* of src/lib/sql/core.ts.                                                   *)
(*                                                                           *)
(* A tree is a node [n, a, m]: its name, its children, and its marks, the    *)
(* clauses and options that are present.  The name of a raw node says which  *)
(* construct PostgreSQL read; what a transformer does not carry over is a    *)
(* mark or a child that its result lacks.  Names of columns and tables and   *)
(* values of literals are left out, except where a conversion spoils them.   *)
(*****************************************************************************)
EXTENDS Naturals, FiniteSets, Sequences, SequencesExt

N(n, a, m) == [n |-> n, a |-> a, m |-> m]
Leaf(n) == N(n, <<>>, {})

Absent == Leaf("absent")     \* a null field
Unknown == Leaf("unknown")   \* { kind: 'unknown' }
Throws == Leaf("throws")     \* the transformer reads a field of undefined

--------------------------------------------------------------------------------
(* Leaves.  "deep" is a column written schema.table.column, of which the first *)
(* two parts are taken; "quoted" is a name that needs its quotes; "big" is a   *)
(* number beyond a double, "scaled" one with trailing zeros (1.50), "zero" the *)
(* integer 0, "bits" a bit string, which no branch knows.                      *)

TransformColumnRef(e) == N("column", <<>>, e.m \ {"deep"})

\* A number goes through a double.  PostgreSQL's tree leaves out the value of an integer
\* that is 0, so the literal's value is undefined.
TransformConst(e) ==
    IF "bits" \in e.m THEN N("const", <<>>, {"null"})
    ELSE IF "zero" \in e.m THEN N("const", <<>>, {"undefined"})
    ELSE N("const", <<>>, e.m \ {"big", "scaled"})

\* The same of a constant in a clause that is only a mark: LIMIT 0, VALUES (0), DEFAULT 0.
TransformConstOfClause(m) == {x \in {"undefined"} : m \cap {"zero", "undefined"} # {}}

--------------------------------------------------------------------------------
(* Window frames.  PostgreSQL packs a frame into one integer; PgBit gives its  *)
(* bits, CodeBit the bits the transformer tests for.                           *)

PgBit == [ RANGE |-> 2, ROWS |-> 4, GROUPS |-> 8, BETWEEN |-> 16,
           START_UNBOUNDED_PRECEDING |-> 32, END_UNBOUNDED_PRECEDING |-> 64,
           END_UNBOUNDED_FOLLOWING |-> 256, START_CURRENT_ROW |-> 512,
           END_CURRENT_ROW |-> 1024, START_OFFSET_PRECEDING |-> 2048,
           END_OFFSET_PRECEDING |-> 4096, START_OFFSET_FOLLOWING |-> 8192,
           END_OFFSET_FOLLOWING |-> 16384 ]

CodeBit == [PgBit EXCEPT !.START_OFFSET_FOLLOWING = 4096, !.END_OFFSET_PRECEDING = 8192]

FrameTypes  == <<"ROWS", "RANGE", "GROUPS">>
FrameStarts == <<"START_UNBOUNDED_PRECEDING", "START_CURRENT_ROW",
                 "START_OFFSET_PRECEDING", "START_OFFSET_FOLLOWING">>
FrameEnds   == <<"END_UNBOUNDED_FOLLOWING", "END_CURRENT_ROW", "END_OFFSET_PRECEDING",
                 "END_OFFSET_FOLLOWING", "END_UNBOUNDED_PRECEDING">>

\* The first of names whose bit is set, as a set of at most one name.
FirstSet(names, bits) ==
    LET hit == {i \in DOMAIN names : CodeBit[names[i]] \in bits}
    IN  {names[i] : i \in {j \in hit : \A k \in hit : j <= k}}

TransformWindowFrame(m) ==
    LET bits  == {PgBit[x] : x \in m \cap DOMAIN PgBit}
        type  == FirstSet(FrameTypes, bits)
        start == FirstSet(FrameStarts, bits)
        end   == IF CodeBit.BETWEEN \in bits THEN FirstSet(FrameEnds, bits) ELSE {}
    IN  IF type = {} \/ start = {} THEN {} ELSE type \cup start \cup end

\* "refname" is the window a definition starts from: OVER (w ORDER BY x).
TransformWindow(w) ==
    N("window", <<>>, (w.m \cap {"named", "partition", "order"}) \cup TransformWindowFrame(w.m))

--------------------------------------------------------------------------------
(* Expressions. *)

RECURSIVE TransformExpr(_), TransformSelect(_), TransformFromItem(_), TransformGroupByItem(_)

TransformExprs(es) == [i \in DOMAIN es |-> TransformExpr(es[i])]

\* The kind names IN, LIKE and BETWEEN, negated or not; for every other kind the
\* operator's own name is taken, which is "=" for IS DISTINCT FROM, NULLIF and = ANY (array).
\* A missing left operand (unary minus) stays null.
TransformAExpr(e) ==
    LET op == IF e.n \in {"DISTINCT", "NULLIF", "OPANY"} THEN "=" ELSE e.n
        Operand(x) == IF x = Absent THEN Absent ELSE TransformExpr(x)
    IN  N(op, <<Operand(e.a[1]), Operand(e.a[2])>>, {})

\* NOT has one argument; AND and OR become nested pairs, from the left.
TransformBoolExpr(e) ==
    IF e.n = "NOT" THEN N("NOT", <<TransformExpr(e.a[1])>>, {})
    ELSE LET args == TransformExprs(e.a)
         IN  FoldLeft(LAMBDA l, r : N(e.n, <<l, r>>, {}), Head(args), Tail(args))

\* Kept: DISTINCT, *, FILTER and the window.  ORDER BY inside the call, WITHIN GROUP and
\* VARIADIC have no field.  With mark "over" the last child is the window.
TransformFuncCall(e) ==
    LET over == "over" \in e.m
        args == IF over THEN Front(e.a) ELSE e.a
    IN  N("func", TransformExprs(args) \o (IF over THEN <<TransformWindow(Last(e.a))>> ELSE <<>>),
          e.m \cap {"distinct", "star", "filter", "over"})

\* The operator of a quantified comparison has no field, and a kind without an entry
\* (ARRAY(SELECT ...)) falls back to a scalar subquery.
TransformSubLink(e) ==
    LET kind == IF e.n \in {"EXISTS", "ANY", "ALL"} THEN e.n ELSE "SCALAR"
    IN  N(kind, IF Len(e.a) = 2 THEN <<TransformExpr(e.a[1]), TransformSelect(e.a[2])>>
                                ELSE <<TransformSelect(e.a[1])>>, {})

\* Only the last part of the type's name: no modifiers, no array bounds, no schema.
TransformTypeCast(e) ==
    N("CAST", <<TransformExpr(e.a[1])>>, e.m \ {"typmod", "arrayType", "userType"})

TransformNullTest(e) == N("ISNULL", <<TransformExpr(e.a[1])>>, e.m)
TransformArrayExpr(e) == N("array", TransformExprs(e.a), {})
TransformCoalesce(e) == N("coalesce", TransformExprs(e.a), {})
TransformRowExpr(e) == N("row", TransformExprs(e.a), {})
TransformParamRef(e) == N("param", <<>>, {})

\* Children: the operand (or Absent), then WHEN and THEN in turn, then ELSE (or Absent).
TransformCase(e) ==
    N("case", [i \in DOMAIN e.a |-> IF e.a[i] = Absent THEN Absent ELSE TransformExpr(e.a[i])], {})

\* What has no branch is unknown: a list, DEFAULT, GREATEST, IS TRUE, COLLATE, ...
TransformExpr(e) ==
    CASE e.n = "column" -> TransformColumnRef(e)
      [] e.n = "const" -> TransformConst(e)
      [] e.n \in {"=", "+", "-", "*", "~~*", "LIKE", "IN", "BETWEEN", "DISTINCT", "NULLIF", "OPANY"}
            -> TransformAExpr(e)
      [] e.n \in {"AND", "OR", "NOT"} -> TransformBoolExpr(e)
      [] e.n = "func" -> TransformFuncCall(e)
      [] e.n \in {"EXISTS", "ANY", "ALL", "SCALAR", "ARRAYSUB"} -> TransformSubLink(e)
      [] e.n = "CAST" -> TransformTypeCast(e)
      [] e.n = "ISNULL" -> TransformNullTest(e)
      [] e.n = "array" -> TransformArrayExpr(e)
      [] e.n = "coalesce" -> TransformCoalesce(e)
      [] e.n = "case" -> TransformCase(e)
      [] e.n = "param" -> TransformParamRef(e)
      [] e.n = "row" -> TransformRowExpr(e)
      [] OTHER -> Unknown

TransformGroupByItem(e) ==
    IF e.n \in {"ROLLUP", "CUBE", "SETS", "EMPTY"}
    THEN N(e.n, [i \in DOMAIN e.a |-> TransformGroupByItem(e.a[i])], {})
    ELSE TransformExpr(e)

--------------------------------------------------------------------------------
(* FROM.  A table's marks: schema, alias, quoted; "only" (no inheritance) and  *)
(* "colaliases" have no field, and a sampled table reads its alias from a      *)
(* place PostgreSQL does not put it.                                           *)

TransformFromItem(f) ==
    CASE f.n = "table" /\ "sample" \in f.m ->
            N("table", <<>>, f.m \ {"alias", "only", "colaliases"})
      [] f.n = "table" -> N("table", <<>>, f.m \ {"only", "colaliases"})
      [] f.n = "subquery" -> N("subquery", <<TransformSelect(f.a[1])>>, f.m \cap {"lateral", "alias"})
      [] f.n = "join" -> N("join", <<TransformFromItem(f.a[1]), TransformFromItem(f.a[2])>>,
                           f.m \cap {"left", "right", "full", "on", "using"})
      [] OTHER -> Leaf("noname")        \* a function in FROM, XMLTABLE, JSON_TABLE

\* A comma list (node "list") becomes cross joins from the left.
TransformFromClause(f) ==
    IF f = Absent THEN Absent
    ELSE IF f.n # "list" THEN TransformFromItem(f)
    ELSE LET items == [i \in DOMAIN f.a |-> TransformFromItem(f.a[i])]
         IN  FoldLeft(LAMBDA l, r : N("cross", <<l, r>>, {}), Head(items), Tail(items))

--------------------------------------------------------------------------------
(* SELECT.  Children: FROM, WHERE, GROUP BY (each or Absent). *)

SetOps == {"UNION", "EXCEPT", "INTERSECT"}

\* Names, queries and RECURSIVE: no column list, no MATERIALIZED; a query that is not a
\* SELECT has no SelectStmt to read.
WithFields == {"with", "recursive"}
SortFields == {"orderBy", "desc", "nulls"}
LockingFields == {"locking", "share", "ofTables", "nowait", "skipLocked"}

SelectFields ==
    {"distinct", "distinctOn", "columns", "having", "window", "limit", "offset"}
        \cup WithFields \cup SortFields \cup LockingFields

TransformWhere(w) == IF w = Absent THEN Absent ELSE TransformExpr(w)
TransformGroup(g) == IF g = Absent THEN Absent ELSE TransformGroupByItem(g)

\* A set operation keeps its operator, ALL and its two sides, and nothing else.
TransformSelect(q) ==
    IF "dataModifying" \in q.m /\ q.n \notin SetOps THEN Throws
    ELSE IF q.n \in SetOps
    THEN N(q.n, <<TransformSelect(q.a[1]), TransformSelect(q.a[2])>>, q.m \cap {"all"})
    ELSE N("select", <<TransformFromClause(q.a[1]), TransformWhere(q.a[2]), TransformGroup(q.a[3])>>,
           (q.m \cap SelectFields) \cup TransformConstOfClause(q.m))

--------------------------------------------------------------------------------
(* Statements that change rows.  Children: the source (SELECT, FROM or USING) and WHERE. *)

InsertFields == {"alias", "columns", "values", "returning"}
OnConflictFields == {"onConflict", "target", "doUpdate", "doUpdateWhere"}
UpdateFields == {"alias", "returning"}
DeleteFields == {"alias", "returning"}

\* The target of ON CONFLICT is a list of column names: a constraint's name and the
\* predicate of a partial index have no field.
TransformOnConflict(m) == m \cap OnConflictFields

\* DEFAULT as a value, and SET (a, b) = (...), are values the transformer does not know.
EmptyValues(m) == {x \in {"emptyValue"} : m \cap {"defaultValue", "multiAssign"} # {}}

TransformInsert(s) ==
    N("insert", <<IF s.a[1] = Absent THEN Absent ELSE TransformSelect(s.a[1]), Absent>>,
      (s.m \cap InsertFields) \cup TransformOnConflict(s.m) \cup EmptyValues(s.m)
        \cup TransformConstOfClause(s.m))

TransformUpdate(s) ==
    N("update", <<TransformFromClause(s.a[1]), TransformWhere(s.a[2])>>,
      (s.m \cap UpdateFields) \cup EmptyValues(s.m) \cup TransformConstOfClause(s.m))

TransformDelete(s) ==
    N("delete", <<TransformFromClause(s.a[1]), TransformWhere(s.a[2])>>, s.m \cap DeleteFields)

--------------------------------------------------------------------------------
(* Definitions of tables.  Children of a CREATE TABLE: its columns and         *)
(* constraints; of an ALTER TABLE: its commands.                               *)

ColumnDefFields ==
    {"typmod", "arrayType", "notNull", "default", "primaryKey", "unique", "check", "references"}

TransformColumnDef(c) ==
    N("columnDef", <<>>, (c.m \cap ColumnDefFields) \cup TransformConstOfClause(c.m))

\* The columns are read from "keys", which a foreign key does not fill; an EXCLUDE
\* constraint is none of the four.
TransformTableConstraint(c) ==
    IF c.n \in {"PRIMARY", "UNIQUE", "CHECK", "FOREIGN"}
    THEN N(c.n, <<>>, c.m \cap {"named"}) ELSE Absent

TransformCreateTable(s) ==
    LET columns == SelectSeq(s.a, LAMBDA e : e.n = "columnDef")
        others  == SelectSeq(s.a, LAMBDA e : TransformTableConstraint(e) # Absent)
    IN  N("createTable", [i \in DOMAIN columns |-> TransformColumnDef(columns[i])]
                           \o [i \in DOMAIN others |-> TransformTableConstraint(others[i])],
          s.m \cap {"ifNotExists"})

\* A type of an altered column has modifiers but no array bounds and no USING.
AlterFields == [ addColumn |-> {}, dropColumn |-> {"ifExists"}, alterType |-> {"typmod"},
                 setNotNull |-> {}, dropNotNull |-> {}, setDefault |-> {}, dropDefault |-> {},
                 addConstraint |-> {}, dropConstraint |-> {"ifExists"} ]

TransformAlterCmd(c) ==
    IF c.n \notin DOMAIN AlterFields THEN Absent
    ELSE LET inner == CASE c.n = "addColumn" -> <<TransformColumnDef(c.a[1])>>
                        [] c.n = "addConstraint" -> <<TransformTableConstraint(c.a[1])>>
                        [] OTHER -> <<>>
         IN  IF inner = <<Absent>> THEN Absent ELSE N(c.n, inner, c.m \cap AlterFields[c.n])

\* Every ALTER of a relation is this node, whatever the object ("onIndex", "onView", ...).
TransformAlterTable(s) ==
    LET all == [i \in DOMAIN s.a |-> TransformAlterCmd(s.a[i])]
    IN  N("alterTable", SelectSeq(all, LAMBDA c : c # Absent), {})

--------------------------------------------------------------------------------
(* Functions. *)

FunctionOptions == {"language", "volatility", "strict", "security", "leakproof", "cost", "rows", "parallel"}
FunctionFields == {"replace", "procedure", "parameters", "modes", "literalDefault",
                   "returns", "setof", "returnsTable", "body", "linkSymbol"} \cup FunctionOptions

\* A default is kept when it is a literal; the text of 0 is "undefined", a column's name.
ExtractExprSource(m) ==
    (m \cap {"literalDefault"}) \cup {x \in {"nonLiteralDefault"} : "zeroDefault" \in m}

\* "body" is a body of one text, "linkSymbol" an object file and a symbol.  The children
\* are the lines of white space around the text, which are part of the body.
TransformCreateFunction(s) ==
    N("createFunction", s.a, (s.m \cap FunctionFields) \cup ExtractExprSource(s.m))

--------------------------------------------------------------------------------
(* Statements that carry their own text besides what is read out of them. *)

SourceNodes == {"drop", "createView", "createTableAs", "createIndex", "truncate", "other"}

TransformStatement(s) ==
    CASE s.n \in SetOps \cup {"select"} -> TransformSelect(s)
      [] s.n = "insert" -> TransformInsert(s)
      [] s.n = "update" -> TransformUpdate(s)
      [] s.n = "delete" -> TransformDelete(s)
      [] s.n = "createTable" -> TransformCreateTable(s)
      [] s.n = "alterTable" -> TransformAlterTable(s)
      [] s.n = "createFunction" -> TransformCreateFunction(s)
      [] OTHER -> s                                 \* { kind, source, ... }
================================================================================
