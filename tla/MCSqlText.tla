------------------------------- MODULE MCSqlText -------------------------------
(* The statements for TLC: each construct of the formatter once or twice, every *)
(* pair of nested operators, every pair of clauses, three-sided set operations. *)
EXTENDS SqlText

Col == Leaf("column")
One == Leaf("const")
Text == N("const", <<>>, {"string"})

Select(from, where, group, m) == N("select", <<from, where, group>>, m \cup {"columns"})
Table == Leaf("table")
Query == Select(Table, Absent, Absent, {})
Where(e) == Select(Table, e, Absent, {})

DefaultFrame == {"RANGE", "START_UNBOUNDED_PRECEDING", "END_CURRENT_ROW"}
Frame(t, s, e) == {"BETWEEN", t, s, e}
Frames ==
    {DefaultFrame, {"ROWS", "START_OFFSET_PRECEDING", "END_CURRENT_ROW"}}
        \cup {Frame(t, s, e) : t \in {"ROWS", "RANGE"}, s \in ToSet(FrameStarts),
                               e \in ToSet(FrameEnds) \ {"END_UNBOUNDED_PRECEDING"}}
Windows ==
    {N("window", <<>>, m \cup f) : m \in SUBSET {"partition", "order"}, f \in Frames}
        \cup {N("window", <<>>, m \cup DefaultFrame) : m \in {{"named"}, {"refname", "order"}, {"exclude", "order"}}}

Calls ==
    {N("func", a, m) : a \in {<<>>, <<Col>>, <<Col, One>>, <<Leaf("other")>>},
                       m \in {{}, {"distinct"}, {"filter"}, {"argOrder"}, {"variadic"}}}
        \cup {N("func", <<Col, w>>, {"over"}) : w \in Windows}

SubLinks ==
    {N(n, <<Query>>, {}) : n \in {"EXISTS", "SCALAR", "ARRAYSUB"}}
        \cup {N(n, <<Col, Query>>, {}) : n \in {"ANY", "ALL"}}

Binary == {"OR", "AND", "=", "LIKE", "IN", "BETWEEN", "DISTINCT", "NULLIF", "OPANY", "~~*", "+", "-", "*"}
Casts == {{}, {"interval"}, {"typmod"}, {"arrayType"}}

\* Every operator on operands of which one may be e.
Over(e) ==
    {N(o, <<e, One>>, {}) : o \in Binary} \cup {N(o, <<One, e>>, {}) : o \in Binary}
        \cup {N("NOT", <<e>>, {}), N("-", <<Absent, e>>, {}), N("ANY", <<e, Query>>, {})}
        \cup {N("ISNULL", <<e>>, m) : m \in {{}, {"negated"}}}
        \cup {N("CAST", <<e>>, m) : m \in Casts}

Terms ==
    {Col, N("column", <<>>, {"quoted"}), N("column", <<>>, {"deep"}), One, Text,
     N("const", <<>>, {"spaced", "string"}), N("const", <<>>, {"bits"}),
     N("const", <<>>, {"big"}), N("const", <<>>, {"scaled"}), N("const", <<>>, {"zero"}),
     Leaf("param"), Leaf("other"), N("array", <<Col, One>>, {}), N("coalesce", <<Col, One>>, {}),
     N("row", <<Col, One>>, {}), N("row", <<Col>>, {}),
     N("case", <<Absent, Col, One, Absent>>, {}), N("case", <<Col, One, One, Leaf("other")>>, {})}
        \cup Calls \cup SubLinks

\* A AND B under AND on the left is one node in PostgreSQL's tree.
Flat(e) == e.n \in {"AND", "OR"} => e.a[1].n # e.n
Shallow == UNION {Over(e) : e \in {Col, Text}}
Expressions ==
    Terms \cup {N(o, <<Col, One, Col>>, {}) : o \in {"AND", "OR"}}
          \cup {e \in UNION {Over(s) : s \in Shallow \cup {Leaf("other"), N("row", <<Col, One>>, {})}} : Flat(e)}

Froms ==
    LET tables == {N("table", <<>>, m) : m \in {{}, {"alias"}, {"schema"}, {"quoted"}, {"only"},
                                               {"sample"}, {"sample", "alias"}, {"alias", "colaliases"}}}
        subs   == {N("subquery", <<Query>>, m) : m \in {{"alias"}, {"alias", "lateral"}}}
        Join(l, r) == {N("join", <<l, r>>, m) : m \in {{}, {"natural"}, {"on"}, {"using"}, {"left", "on"}}}
        joins  == Join(Table, Table)
    IN  {Absent, Leaf("rangeFunction")} \cup tables \cup subs \cup joins
          \cup UNION {Join(j, Table) \cup Join(Table, j) : j \in joins}
          \cup {N("list", <<Table, x>>, {}) : x \in joins}

Groups == {Col, Leaf("EMPTY"), N("ROLLUP", <<Col, Col>>, {}), N("SETS", <<Col, N("CUBE", <<Col>>, {}), Leaf("EMPTY")>>, {})}

ClauseMarks == SelectFields \cup {"materialized", "valuesList", "groupDistinct", "into", "withTies", "lineComment", "zero"}
Clauses == {Select(Table, Absent, Absent, {x, y}) : x \in ClauseMarks, y \in ClauseMarks}

Sides == {Query, Select(Table, Absent, Absent, {"orderBy", "limit"}), Select(Table, Absent, Absent, {"with"}),
          Select(Table, Absent, Absent, {"with", "orderBy"})}
SetOf(l, r) == {N(o, <<l, r>>, m) : o \in SetOps, m \in {{}, {"all"}, {"orderBy"}, {"with"}}}
Unions == UNION {SetOf(l, r) : l \in Sides, r \in Sides}
Unions3 == LET inner == UNION {SetOf(Query, Query)}
           IN  UNION {SetOf(l, Query) \cup SetOf(Query, l) : l \in inner}

Marked(n, a, marks) == {N(n, a, {x, y}) : x \in marks, y \in marks}
Changes ==
    Marked("insert", <<Absent, Absent>>, InsertFields \cup OnConflictFields
             \cup {"defaultValue", "overriding", "with", "byConstraint", "partialIndex", "lineComment", "zero"})
      \cup Marked("insert", <<Query, Absent>>, (InsertFields \cup OnConflictFields) \ {"values"})
      \cup {N(n, <<f, w>>, m) : n \in {"update", "delete"}, f \in {Absent, Table}, w \in {Absent, Col},
                                m \in {{}, {"alias"}, {"returning"}, {"with"}, {"multiAssign"}, {"lineComment"}, {"zero"}}}

ColumnDefs == Marked("columnDef", <<>>, ColumnDefFields \cup {"zero"})
Constraints == {N(n, <<>>, m) : n \in {"PRIMARY", "UNIQUE", "CHECK", "FOREIGN", "EXCLUDE", "like"}, m \in {{}, {"named"}}}
Commands ==
    {N(n, <<>>, m) : n \in {"dropColumn", "dropConstraint"}, m \in {{}, {"ifExists"}}}
      \cup {Leaf(n) : n \in {"alterType", "setNotNull", "dropNotNull", "setDefault", "dropDefault", "validate"}}
      \cup {N("alterType", <<>>, {"typmod"})}
      \cup {N("addColumn", <<c>>, {}) : c \in ColumnDefs} \cup {N("addConstraint", <<c>>, {}) : c \in Constraints}
Definitions ==
    {N("createTable", <<c>>, m) : c \in ColumnDefs, m \in {{}, {"ifNotExists"}, {"temporary"}}}
      \cup {N("createTable", <<Leaf("columnDef"), c>>, {}) : c \in Constraints}
      \cup {N("alterTable", <<c>>, {}) : c \in Commands}
      \cup {N("alterTable", <<c, Leaf("setNotNull")>>, {}) : c \in Commands}
      \cup {s \in Marked("createFunction", <<>>, FunctionFields \cup {"nonLiteralDefault", "zeroDefault",
                                                                    "setOption", "spaced"}) :
             {"body", "linkSymbol"} \notin SUBSET s.m}

MCStatements ==
    {Where(e) : e \in Expressions} \cup {Select(f, Absent, Absent, {}) : f \in Froms}
      \cup {Select(Table, Absent, g, {}) : g \in Groups}
      \cup Clauses \cup Unions \cup Unions3 \cup Changes \cup Definitions
      \cup {N(n, <<>>, m) : n \in SourceNodes, m \in {{}, {"lineComment"}, {"spaced"}}}
================================================================================
