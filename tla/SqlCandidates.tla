----------------------------- MODULE SqlCandidates -----------------------------
(*****************************************************************************)
(* What the completion offers at a place: scope-analyzer.ts, candidate-       *)
(* generator.ts, ranker.ts and pipeline.ts of src/lib/sql/autocomplete.       *)
(*                                                                           *)
(* A schema is what the client knows of the database: the default schema, the *)
(* tables with their loaded columns, the functions and the selected table.    *)
(* Names that differ only in case are one name here.  The lists of keywords   *)
(* are cut to the ones that tell the contexts apart.                          *)
(*****************************************************************************)
EXTENDS SqlTokens, SqlArguments

CONSTANTS
    PgTables,        \* libpg_query: the tables of each text it accepts as a whole
    SystemFunctions, \* the built-in functions and the first server version with each
    Similar          \* Similar[kind]: the pairs of a word being typed and a value it matches so

ASSUME SimilarAssumption == Similar \in [{"prefix", "contains", "fuzzy"} -> SUBSET (STRING \X Seq(STRING))]

--------------------------------------------------------------------------------
(* Scope: the tables the statement names. *)

TableRef(schema, name, alias) == [schema |-> schema, name |-> name, alias |-> alias]
KeyOf(ref) == IF ref.alias # NoWord THEN ref.alias ELSE ref.name

\* extractAlias: the name after the table at word i, with or without AS, or none.
AliasAfter(ts, i) ==
    IF i + 1 <= Len(ts) /\ ts[i + 1] = "AS" THEN (IF IsIdentifier(ts, i + 2) THEN ts[i + 2] ELSE NoWord)
    ELSE IF IsIdentifier(ts, i + 1) THEN ts[i + 1] ELSE NoWord

IsQualified(ts, i) == i + 2 <= Len(ts) /\ ts[i + 1] = "." /\ IsIdentifier(ts, i + 2)

\* Only FROM, JOIN and UPDATE look at the schema before a name.
RefAt(ts, i) ==
    IF ts[i - 1] \in {"FROM", "JOIN", "UPDATE"} /\ IsQualified(ts, i)
    THEN TableRef(ts[i], ts[i + 2], AliasAfter(ts, i + 2))
    ELSE TableRef(NoWord, ts[i], AliasAfter(ts, i))

IsInFromClause(ts, i) ==
    LastAtDepth(SubSeq(ts, 1, i - 1), {"FROM", "WHERE", "GROUP", "HAVING", "ORDER", "LIMIT", "SELECT"}) = "FROM"

NamesATable(ts, i) ==
    /\ i > 1 /\ IsIdentifier(ts, i)
    /\ \/ ts[i - 1] \in {"FROM", "JOIN", "UPDATE", "INTO"}
       \/ ts[i - 1] = Comma /\ IsInFromClause(ts, i - 1)

TablesFromTokens(ts) ==
    LET at == SetToSortSeq({i \in DOMAIN ts : NamesATable(ts, i)}, <)
    IN  [k \in DOMAIN at |-> RefAt(ts, at[k])]

FirstFrom(ts, i, ws) == Min({Len(ts) + 1} \cup {j \in i .. Len(ts) : ts[j] \in ws})

\* The word after the parenthesis that closes the one at word i.
AfterParentheses(ts, i) ==
    IF i > Len(ts) \/ ts[i] # "(" THEN i
    ELSE 1 + Min({Len(ts)} \cup {j \in i .. Len(ts) : AtTop(SubSeq(ts, i, j), j - i + 1)})

\* CTEsFrom(ts)[i] are the ones named from word i on.
CTEsFrom(ts) ==
    LET from[i \in 1 .. Len(ts) + 1] ==
            LET list == i + 1 <= Len(ts) /\ ts[i + 1] = "("
                as   == FirstFrom(ts, IF list THEN FirstFrom(ts, i + 1, {")"}) + 1 ELSE i + 1, {"AS"})
                next == AfterParentheses(ts, as + 1)
                cols == IF list THEN SelectSeq(SubSeq(ts, i + 2, FirstFrom(ts, i + 1, {")"}) - 1),
                                               LAMBDA w : TokenType(w) = "identifier")
                        ELSE <<>>
            IN  IF i > Len(ts) THEN <<>>
                ELSE IF ~IsIdentifier(ts, i) THEN from[i + 1]
                ELSE <<[name |-> ts[i], columns |-> cols]>>
                       \o (IF next <= Len(ts) /\ ts[next] = Comma THEN from[next + 1] ELSE <<>>)
    IN  from

CTEs(ts) == IF ts # <<>> /\ ts[1] = "WITH" THEN CTEsFrom(ts)[2] ELSE <<>>

\* mergePgQueryResults: tables only the parser sees.
MergeParsed(refs, parsed) ==
    FoldLeft(LAMBDA acc, r : IF \E k \in DOMAIN acc : acc[k].name = r.name /\ acc[k].alias = r.alias
                             THEN acc ELSE Append(acc, r),
             refs, parsed)

\* findTableInSchema: the first table of the name, the default schema's before the others.
FindTable(schema, name, db) ==
    LET named   == SelectSeq(db.tables, LAMBDA t : t.name = name /\ schema \in {NoWord, t.schema})
        default == SelectSeq(named, LAMBDA t : t.schema = db.default)
    IN  IF schema = NoWord /\ default # <<>> THEN <<Head(default)>>
        ELSE IF named # <<>> THEN <<Head(named)>> ELSE <<>>

Labelled(ref, names) == [k \in DOMAIN names |-> [name |-> names[k], table |-> KeyOf(ref)]]

\* The columns of one table reference: the schema's, and the ones a CTE of that name lists.
SchemaColumns(ref, db) ==
    LET t == FindTable(ref.schema, ref.name, db) IN IF t = <<>> THEN <<>> ELSE Labelled(ref, t[1].columns)
ListedColumns(ref, ctes) ==
    LET c == SelectSeq(ctes, LAMBDA e : e.name = ref.name) IN IF c = <<>> THEN <<>> ELSE Labelled(ref, c[1].columns)

AnalyzeScope(text, db) ==
    LET ts   == Tokenize(text)
        ctes == CTEs(ts)
        refs == TablesFromTokens(ts) \o [k \in DOMAIN ctes |-> TableRef(NoWord, ctes[k].name, NoWord)]
    IN  [ctes |-> ctes, refs |-> IF text \in DOMAIN PgTables THEN MergeParsed(refs, PgTables[text]) ELSE refs]

AvailableColumns(scope, db) ==
    FlattenSeq([k \in DOMAIN scope.refs |->
        SchemaColumns(scope.refs[k], db) \o ListedColumns(scope.refs[k], scope.ctes)])

\* resolvedColumns: the last reference under a key that resolves decides.  <<>> when none does.
ResolvedColumns(key, scope, db) ==
    LET known == {k \in DOMAIN scope.refs :
                    /\ KeyOf(scope.refs[k]) = key
                    /\ \/ FindTable(scope.refs[k].schema, scope.refs[k].name, db) # <<>>
                       \/ ListedColumns(scope.refs[k], scope.ctes) # <<>>}
        ref    == scope.refs[Max(known)]
        listed == ListedColumns(ref, scope.ctes)
    IN  IF known = {} THEN <<>> ELSE IF listed # <<>> THEN <<listed>> ELSE <<SchemaColumns(ref, db)>>

\* Mutant: every column in scope is the table's.
ColumnsForTable_All(key, scope, db) == AvailableColumns(scope, db)

\* getColumnsForTable
ColumnsForTable(key, scope, db) ==
    LET aliased == SelectSeq(scope.refs, LAMBDA r : r.alias = key)
        byAlias == IF aliased = <<>> THEN <<>> ELSE ResolvedColumns(aliased[1].name, scope, db)
    IN  Only({IF found = <<>> THEN <<>> ELSE found[1] : found \in {ResolvedColumns(key, scope, db) \o byAlias}})

--------------------------------------------------------------------------------
(* Candidates. *)

CandidateType ==
    {"column", "table", "view", "keyword", "function", "procedure", "alias", "cte", "schema", "operator"}

RankedSuggestion ==
    [candidate : [type : CandidateType, value : Seq(STRING), table : STRING, suffix : {"", Space, ".", "("},
                  source : {"schema", "context", "keyword", "function", "system"}],
     score : Nat]

SchemaTable == [schema : STRING, name : STRING, type : {"table", "view"}, columns : Seq(STRING)]
SchemaInfo ==
    [default : STRING, selected : {<<>>} \cup (STRING \X STRING), tables : Seq(SchemaTable),
     functions : SUBSET [name : STRING, kind : {"function", "procedure"}, declared : Seq(Argument)]]

TableQualifierSections ==
    {"SELECT_COLUMNS", "WHERE_CONDITION", "JOIN_CONDITION", "HAVING", "GROUP_BY", "ORDER_BY"}

\* getInsertText: what follows the inserted value.
InsertSuffix(type, value, section) ==
    CASE type = "function" \/ value \in {<<"ROLLUP">>, <<"CAST">>} -> "("
      [] type = "keyword" -> IF value \in {<<"END">>, <<"TRUE">>, <<"NULL">>} \/ section = "CREATE_TABLE_COLUMN_TYPE"
                             THEN "" ELSE Space
      [] type = "operator" -> Space
      [] type \in {"table", "view", "cte"} /\ section \in TableQualifierSections -> "."
      [] OTHER -> ""

Candidate(type, value, source, table, section) ==
    [type |-> type, value |-> value, source |-> source, table |-> table,
     suffix |-> InsertSuffix(type, value, section)]

Words(values) == {Candidate("keyword", v, "keyword", NoWord, NoWord) : v \in values}
Single(ws) == Words({<<w>> : w \in ws})
OperatorWords(ops) == {Candidate("operator", <<o>>, "keyword", NoWord, NoWord) : o \in ops}

ColumnCandidates(cols, source) ==
    {Candidate("column", <<cols[k].name>>, source, cols[k].table, NoWord) : k \in DOMAIN cols}
ScopeColumns(scope, db) == ColumnCandidates(AvailableColumns(scope, db), "context")

SelectedTableColumns(db) ==
    UNION {ColumnCandidates(Labelled(TableRef(NoWord, t.name, NoWord), t.columns), "schema") :
             t \in {u \in ToSet(db.tables) : <<u.schema, u.name>> = db.selected}}

DisplayName(t, db) == IF t.schema = db.default THEN <<t.name>> ELSE <<t.schema, ".", t.name>>
TableCandidates(scope, db, section) ==
    {Candidate("cte", <<c.name>>, "context", NoWord, section) : c \in ToSet(scope.ctes)}
      \cup {Candidate(t.type, DisplayName(t, db), "schema", NoWord, section) : t \in ToSet(db.tables)}

\* buildSchema leaves the version out: the oldest supported one counts.
FunctionCandidates(db) ==
    {Candidate("function", <<f.name>>, "schema", NoWord, NoWord) : f \in {g \in db.functions : g.kind = "function"}}
      \cup {Candidate("function", <<f>>, "system", NoWord, NoWord) : f \in {g \in DOMAIN SystemFunctions : SystemFunctions[g] <= 14}}
ProcedureCandidates(db) ==
    {Candidate("procedure", <<f.name>>, "schema", NoWord, NoWord) : f \in {g \in db.functions : g.kind = "procedure"}}

Joins == {<<"JOIN">>, <<"LEFT", "JOIN">>, <<"CROSS", "JOIN">>}
GroupBy == <<"GROUP", "BY">>
OrderBy == <<"ORDER", "BY">>
LimitWords == {<<"LIMIT">>, <<"OFFSET">>}
SetOperations == {<<"UNION">>}
OrderByModifiers == {<<"ASC">>, <<"DESC">>, <<"NULLS", "FIRST">>, <<"NULLS", "LAST">>}
IsOperators == {<<"IS", "NULL">>, <<"IS", "NOT", "NULL">>}
ExpressionOperators == {<<"IN">>, <<"NOT", "IN">>, <<"EXISTS">>, <<"BETWEEN">>, <<"LIKE">>} \cup IsOperators
ExpressionWords ==
    ExpressionOperators \cup {<<"CASE">>, <<"WHEN">>, <<"THEN">>, <<"ELSE">>, <<"END">>, <<"CAST">>,
                             <<"TRUE">>, <<"NULL">>, <<"AND">>, <<"OR">>, <<"NOT">>}
StatementWords ==
    {<<"SELECT">>, <<"INSERT", "INTO">>, <<"UPDATE">>, <<"DELETE", "FROM">>, <<"WITH">>, <<"CALL">>, <<"CREATE">>}

AfterFromTable == {<<"WHERE">>, <<"ON">>, GroupBy, <<"HAVING">>, OrderBy} \cup Joins \cup LimitWords \cup SetOperations
AfterSelectColumn == {<<"FROM">>, <<"WHERE">>, GroupBy, <<"HAVING">>, OrderBy} \cup LimitWords \cup SetOperations
AfterCondition == {OrderBy, GroupBy, <<"HAVING">>} \cup LimitWords \cup SetOperations
AfterOrderBy == {<<"FOR", "UPDATE">>} \cup LimitWords
AfterGroupBy == {<<"HAVING">>, OrderBy} \cup LimitWords

\* generateExpressionCandidates
ExpressionCandidates(ctx, scope, db) ==
    LET returning == IF ctx.type \in {"UPDATE", "DELETE"} THEN {<<"RETURNING">>} ELSE {}
    IN  CASE ctx.typingOp # NoWord ->
               OperatorWords(CASE ctx.typingOp = "<" -> {"<=", "<>", "<"}
                               [] ctx.typingOp = ">" -> {">=", ">"}
                               [] OTHER -> {"!="})
          [] ctx.afterExpr -> Words({<<"AND">>, <<"OR">>} \cup AfterCondition \cup returning)
          [] ctx.afterIdent -> OperatorWords(Operators \ {"!", "+", "*"})
                                 \cup Words(ExpressionWords \cup AfterCondition \cup returning)
          [] OTHER -> ScopeColumns(scope, db) \cup FunctionCandidates(db) \cup Words(ExpressionWords)
                        \cup TableCandidates(scope, db, ctx.section)

\* The sections that offer fixed words wherever the cursor is in them.
FixedWords(section) ==
    CASE section \in {"ORDER_BY_INCOMPLETE", "GROUP_BY_INCOMPLETE"} -> {<<"BY">>}
      [] section = "IS_INCOMPLETE" -> {<<"NULL">>, <<"NOT", "NULL">>, <<"TRUE">>, <<"NOT", "TRUE">>}
      [] section = "IS_NOT_INCOMPLETE" -> {<<"NULL">>, <<"TRUE">>}
      [] section = "NULLS_INCOMPLETE" -> {<<"FIRST">>, <<"LAST">>}
      [] section = "INSERT_VALUES" -> {<<"VALUES">>, <<"SELECT">>}
      [] OTHER -> {}

NotFollowWords == {<<"IN">>, <<"LIKE">>, <<"BETWEEN">>, <<"EXISTS">>, <<"NULL">>}

\* The sections of statements that change rows.
ChangeSections == {"INSERT_TABLE", "DELETE_TABLE", "UPDATE_TABLE", "UPDATE_SET", "RETURNING"}
ChangeCandidates(ctx, scope, db) ==
    LET s    == ctx.section
        done == ctx.afterIdent \/ ctx.afterExpr
        columnsAndFunctions == ScopeColumns(scope, db) \cup FunctionCandidates(db)
    IN  CASE s = "DELETE_TABLE" /\ done -> Single({"USING", "WHERE", "RETURNING"})
          [] s = "UPDATE_TABLE" /\ done -> Single({"SET"})
          [] s = "UPDATE_SET" -> IF done THEN Single({"WHERE", "FROM", "RETURNING"}) ELSE columnsAndFunctions
          [] s = "RETURNING" -> columnsAndFunctions \cup TableCandidates(scope, db, NoWord)
          [] OTHER -> TableCandidates(scope, db, NoWord)

\* The sections of CREATE.
CreateWords ==
    [ CREATE_OBJECT |-> {<<"TABLE">>, <<"TEMP", "TABLE">>, <<"TABLE", "IF", "NOT", "EXISTS">>, <<"INDEX">>},
      CREATE_TABLE_COLUMNS |-> {<<"CONSTRAINT">>, <<"PRIMARY", "KEY">>, <<"UNIQUE">>, <<"CHECK">>, <<"LIKE">>},
      CREATE_TABLE_COLUMN_CONSTRAINT |->
        {<<"NOT", "NULL">>, <<"NULL">>, <<"DEFAULT">>, <<"PRIMARY", "KEY">>, <<"UNIQUE">>, <<"REFERENCES">>,
         <<"CHECK">>, <<"CONSTRAINT">>},
      CREATE_TABLE_OPTIONS |-> {<<"INHERITS">>, <<"PARTITION", "BY">>, <<"USING">>, <<"WITH">>, <<"TABLESPACE">>} ]

\* A section that is none of these gets a name or a number, or no word in it is complete.
SectionCandidates(ctx, scope, db) ==
    LET s    == ctx.section
        done == ctx.afterIdent \/ ctx.afterExpr
        columnsAndFunctions == ScopeColumns(scope, db) \cup FunctionCandidates(db)
    IN  CASE s = "STATEMENT_START" -> Words(StatementWords)
          [] s = "SELECT_COLUMNS" ->
                IF ctx.afterIdent THEN Words(AfterSelectColumn)
                ELSE columnsAndFunctions \cup SelectedTableColumns(db)
                       \cup Single({"DISTINCT", "ALL", "AS", "CASE", "WHEN", "THEN", "ELSE", "END", "CAST",
                                   "NULL", "TRUE", "AND", "OR", "NOT"})
                       \cup Words(AfterSelectColumn) \cup TableCandidates(scope, db, s)
          [] s = "FROM_TABLE" -> TableCandidates(scope, db, NoWord) \cup Words(AfterFromTable)
          [] s = "JOIN_TABLE" -> TableCandidates(scope, db, NoWord)
          [] s \in ChangeSections -> ChangeCandidates(ctx, scope, db)
          [] s = "CALL_PROCEDURE" -> ProcedureCandidates(db)
          [] s \in {"WHERE_CONDITION", "JOIN_CONDITION", "HAVING"} -> ExpressionCandidates(ctx, scope, db)
          [] s = "GROUP_BY" -> IF done THEN Words(AfterGroupBy \cup SetOperations)
                               ELSE columnsAndFunctions \cup Words({<<"ROLLUP">>} \cup AfterGroupBy)
          [] s = "ORDER_BY" -> CASE ctx.afterModifier -> Words({<<"NULLS", "FIRST">>, <<"NULLS", "LAST">>} \cup AfterOrderBy \cup SetOperations)
                                 [] done -> Words(OrderByModifiers \cup AfterOrderBy \cup SetOperations)
                                 [] OTHER -> columnsAndFunctions \cup Words(OrderByModifiers \cup AfterOrderBy)
          [] s = "CREATE_TABLE_COLUMN_TYPE" -> {Candidate("keyword", <<d>>, "keyword", NoWord, s) : d \in DataTypes}
          [] s \in DOMAIN CreateWords -> Words(CreateWords[s])
          [] OTHER -> {}

ColumnsNamed(names, source) == {Candidate("column", <<n>>, source, NoWord, NoWord) : n \in names}

GenerateCandidates(ctx, scope, db) ==
    CASE ctx.prefix # NoWord ->
            Only({IF cols # <<>> THEN ColumnsNamed({c.name : c \in ToSet(cols)}, "context")
                  ELSE UNION {ColumnsNamed(ToSet(t.columns), "schema") : t \in ToSet(FindTable(NoWord, ctx.prefix, db))} :
                    cols \in {ColumnsForTable(ctx.prefix, scope, db)}})
      [] FixedWords(ctx.section) # {} -> Words(FixedWords(ctx.section))
      [] ctx.afterNot -> Words(NotFollowWords)
      [] OTHER -> SectionCandidates(ctx, scope, db)

--------------------------------------------------------------------------------
(* Ranking. *)

\* computeMatchType: by words here, and by letters through Similar.
MatchType(value, partial) ==
    CASE partial = NoWord -> "none"
      [] value = <<partial>> -> "exact"
      [] value[1] = partial \/ <<partial, value>> \in Similar["prefix"] -> "prefix"
      [] partial \in ToSet(value) \/ <<partial, value>> \in Similar["contains"] -> "contains"
      [] <<partial, value>> \in Similar["fuzzy"] -> "fuzzy"
      [] OTHER -> "none"

MatchTier(kind) ==
    CASE kind = "exact" -> 40000 [] kind = "prefix" -> 30000 [] kind = "contains" -> 20000
      [] kind = "fuzzy" -> 10000 [] OTHER -> 0

TypeBonus(type) ==
    CASE type = "column" -> 450 [] type = "cte" -> 400 [] type = "table" -> 350 [] type = "view" -> 300
      [] type = "function" -> 250 [] type = "keyword" -> 200 [] type = "operator" -> 50 [] OTHER -> 0
SourceBonus(source) ==
    CASE source = "context" -> 100 [] source = "schema" -> 80 [] source = "system" -> 60 [] OTHER -> 20
CommonFunctionBoost(c) == IF c.source = "system" /\ c.value = <<"count">> THEN 200 ELSE 0

ConditionSections == {"WHERE_CONDITION", "JOIN_CONDITION", "HAVING"}
TableSections == {"FROM_TABLE", "JOIN_TABLE", "INSERT_TABLE", "UPDATE_TABLE", "DELETE_TABLE"}
ClauseTransitions ==
    {<<"FROM">>, <<"WHERE">>, GroupBy, <<"HAVING">>, OrderBy, <<"FOR", "UPDATE">>} \cup LimitWords \cup SetOperations
Connectors == {<<"AND">>, <<"OR">>}

\* CONTEXT_BOOSTED_KEYWORDS
IsBoosted(value, section) ==
    \/ section = "ORDER_BY" /\ value \in OrderByModifiers \cup {<<"LIMIT">>}
    \/ section = "GROUP_BY" /\ value \in {<<"ROLLUP">>, <<"HAVING">>}
    \/ section = "SELECT_COLUMNS" /\ value \in {<<"DISTINCT">>, <<"ALL">>, <<"AS">>, <<"CASE">>}
    \/ section = "WHERE_CONDITION" /\ value = <<"NOT">>
\* A clause that ends what is being typed: likely after a name, unlikely before one.
TransitionBonus(value, ctx) ==
    LET s == ctx.section
    IN  CASE ctx.afterIdent /\ s = "SELECT_COLUMNS" /\ value = <<"FROM">> -> 400
          [] ctx.afterIdent /\ s = "SELECT_COLUMNS" /\ value = <<"WHERE">> -> 350
          [] ctx.afterIdent /\ s = "FROM_TABLE" /\ value = <<"WHERE">> -> 400
          [] ctx.afterIdent /\ s = "FROM_TABLE" /\ value \in {OrderBy, GroupBy} -> 350
          [] ctx.afterIdent -> 300
          [] s = "ORDER_BY" -> IF value \in LimitWords THEN 150 ELSE 30
          [] s = "GROUP_BY" -> 30
          [] OTHER -> 50

KeywordBonus(value, ctx) ==
    LET inCondition == ctx.section \in ConditionSections
    IN  CASE inCondition /\ ctx.afterExpr ->
                IF value \in Connectors THEN 500 ELSE IF value \in ClauseTransitions THEN 400 ELSE 100
          [] inCondition /\ value \in ExpressionOperators -> IF ctx.afterIdent THEN 450 ELSE 400
          [] inCondition /\ value \in Connectors -> IF ctx.afterIdent THEN 350 ELSE 300
          [] inCondition /\ value \in ClauseTransitions -> IF ctx.afterIdent THEN 250 ELSE 100
          [] IsBoosted(value, ctx.section) -> 200
          [] value \in ClauseTransitions -> TransitionBonus(value, ctx)
          [] OTHER -> 80

StatementPriority(value) ==
    CASE value = <<"SELECT">> -> 100 [] value = <<"WITH">> -> 90 [] value = <<"UPDATE">> -> 70
      [] value = <<"CREATE">> -> 50 [] value = <<"TABLE">> -> 100 [] value = <<"TEMP", "TABLE">> -> 90
      [] value = <<"INDEX">> -> 80 [] Len(value) = 4 -> 95 [] OTHER -> 0

\* Columns and tables rank below the keywords once a name is complete.
SectionBonus(c, ctx) ==
    LET s == ctx.section
        bonus == CASE c.type = "column" /\ s \in ConditionSections \cup {"SELECT_COLUMNS", "GROUP_BY", "ORDER_BY", "UPDATE_SET"} -> 300
                   [] c.type = "function" /\ s \in {"SELECT_COLUMNS", "HAVING"} -> 250
                   [] c.type = "function" /\ s \in {"WHERE_CONDITION", "JOIN_CONDITION"} -> 200
                   [] c.type = "function" /\ s \in {"GROUP_BY", "ORDER_BY"} -> 150
                   [] c.type \in {"table", "view"} /\ s \in TableSections -> 300
                   [] c.type = "cte" /\ s \in TableSections -> 350
                   [] OTHER -> 0
    IN  CASE s \in {"STATEMENT_START", "CREATE_OBJECT"} -> IF c.type = "keyword" THEN 300 + StatementPriority(c.value) ELSE 0
          [] c.type = "operator" /\ ctx.afterIdent /\ s \in ConditionSections -> 600
          [] c.type = "keyword" -> KeywordBonus(c.value, ctx)
          [] OTHER -> IF ctx.afterIdent /\ c.type \in {"column", "table", "view", "cte"} /\ bonus > 100 THEN 100 ELSE bonus

ContextScore(c, ctx, db) ==
    TypeBonus(c.type) + SourceBonus(c.source) + CommonFunctionBoost(c) + SectionBonus(c, ctx)
      + (IF c.type = "column" /\ db.selected # <<>> /\ c.table = db.selected[2] THEN 200 ELSE 0)
      + (IF c.type \in {"table", "view"} /\ Len(c.value) = 1 THEN 100 ELSE 0)

\* A value is kept once, with its best score.
Deduplicate(ranked) ==
    LET Best(same) == CHOOSE r \in same : \A q \in same : r.score >= q.score
        Of(all)    == {Best({q \in all : q.candidate.value = v}) : v \in {r.candidate.value : r \in all}}
    IN  Only({Of(all) : all \in {ranked}})

\* runAutocompletePipeline
Autocomplete(p, db) ==
    LET Ranked(ctx, scope) ==
            LET all == IF IsInsideStringOrComment(p) THEN {} ELSE GenerateCandidates(ctx, scope, db)
                matching == {c \in all : ctx.partial = NoWord \/ MatchType(c.value, ctx.partial) # "none"}
                Score(c) == MatchTier(MatchType(c.value, ctx.partial)) + ContextScore(c, ctx, db)
            IN  Deduplicate({[candidate |-> c, score |-> Score(c)] : c \in matching})
    IN  Only({[context |-> ctx, suggestions |-> Ranked(ctx, scope)] :
                ctx \in {DetectSection(p)}, scope \in {AnalyzeScope(p.text, db)}})
================================================================================
