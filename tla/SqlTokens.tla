------------------------------- MODULE SqlTokens -------------------------------
(*****************************************************************************)
(* What the completion of the SQL editor makes of a text: tokenizer.ts,      *)
(* parser.ts and section-detector.ts of src/lib/sql/autocomplete.            *)
(*                                                                           *)
(* A text is a sequence of words.  One space stands between two words, except *)
(* around the dot of a name.  A place is a text with a cursor in it: at words before it,  *)
(* and gap says how: "none" at the end of the word before, "space" with white *)
(* space on both sides, "before" with white space before it and the next word *)
(* after it, "in" inside the word before.                                     *)
(*****************************************************************************)
EXTENDS Naturals, Sequences, FiniteSets, SequencesExt

\* The element of a set that has one.  Only({f(v) : v \in {e}}) computes e once.
Only(S) == CHOOSE x \in S : TRUE

--------------------------------------------------------------------------------
(* Words. *)

NoWord == "(none)"       \* what the code says null for
Comma == ","
Semicolon == ";"
Space == " "

JoinKeywords == {"JOIN", "INNER", "LEFT", "RIGHT", "FULL", "CROSS", "NATURAL"}
Modifiers == {"ASC", "DESC", "FIRST", "LAST"}

ClauseKeywords ==
    {"SELECT", "INSERT", "UPDATE", "DELETE", "CREATE", "FROM", "WHERE", "SET", "INTO", "VALUES",
     "RETURNING", "ON", "USING", "AND", "OR", "NOT", "GROUP", "ORDER", "BY", "HAVING", "LIMIT",
     "OFFSET", "UNION", "ALL", "DISTINCT", "WITH", "AS", "RECURSIVE", "CASE", "WHEN", "THEN", "ELSE",
     "END", "CALL", "IS", "IN", "BETWEEN", "LIKE", "NULLS", "FOR", "TABLE", "PARTITION", "OVER",
     "TEMP", "IF", "PRIMARY", "KEY", "UNIQUE", "CHECK", "REFERENCES", "DEFAULT", "CONSTRAINT", "NULL",
     "INHERITS", "TABLESPACE"} \cup JoinKeywords \cup Modifiers

DataTypes == {"INTEGER", "TEXT"}
Keywords == ClauseKeywords \cup DataTypes \cup {"EXISTS", "TRUE", "CONFLICT", "DO", "NOTHING"}

Operators == {"=", "<", ">", "!", "<=", ">=", "<>", "+", "*"}
Literals == {"1", "'s'"}
Comments == {"-- c"}
Punctuation == {"(", ")", Comma, ".", Semicolon}
OpenQuote == "'..."                 \* a quote that is never closed

TokenType(w) ==
    CASE w \in Comments -> "comment"
      [] w \in Literals -> "literal"
      [] w \in Operators -> "operator"
      [] w \in Keywords -> "keyword"
      [] w \in Punctuation -> "punctuation"
      [] OTHER -> "identifier"

IsIdentifier(text, i) == i \in DOMAIN text /\ TokenType(text[i]) = "identifier"
IsValue(w) == TokenType(w) \in {"identifier", "literal"}

\* The scanner gives up on a text with an open quote.
Tokenize(text) == IF \E i \in DOMAIN text : text[i] = OpenQuote THEN <<>> ELSE text

--------------------------------------------------------------------------------
(* The cursor. *)

Place(text, at, gap) == [text |-> text, at |-> at, gap |-> gap]
Adjacent(text, i) ==
    i \in 1 .. Len(text) - 1 /\ (text[i + 1] = "." \/ (text[i] = "." /\ TokenType(text[i + 1]) = "identifier"))

\* The cursor touches the beginning of the word after it: that word is the token at the cursor.
TouchesNext(p) == p.at < Len(p.text) /\ (p.gap = "before" \/ (p.gap = "none" /\ Adjacent(p.text, p.at)))
AtEndOfWord(p) == p.at > 0 /\ p.gap = "none" /\ ~TouchesNext(p)
HasWordBreak(p) == p.at > 0 /\ p.gap = "space"

\* findCursorPosition: in leading white space the first token counts.
CursorToken(p) ==
    IF Tokenize(p.text) = <<>> THEN 0
    ELSE IF TouchesNext(p) THEN p.at + 1
    ELSE IF p.at = 0 THEN 1 ELSE p.at

TokensUpToCursor(p) == SubSeq(Tokenize(p.text), 1, CursorToken(p))

\* The identifier that is being typed, or none.
PartialToken(p) ==
    IF /\ CursorToken(p) > 0 /\ ~TouchesNext(p) /\ ~HasWordBreak(p)
       /\ IsIdentifier(p.text, CursorToken(p))
    THEN p.text[CursorToken(p)] ELSE NoWord

IsInsideStringOrComment(p) ==
    LET c == CursorToken(p)
    IN  IF c = 0 THEN \E i \in 1 .. p.at : p.text[i] = OpenQuote
        ELSE \/ TokenType(p.text[c]) \in {"literal", "comment"} /\ (TouchesNext(p) \/ p.gap = "in")
             \/ TokenType(p.text[c]) = "comment" /\ ~HasWordBreak(p)

\* extractCurrentStatement: the words between the semicolons around the cursor, the one after
\* it included.  Without tokens it is everything.
ExtractCurrentStatement(p) ==
    LET semis == {i \in DOMAIN Tokenize(p.text) : p.text[i] = Semicolon}
        first == Max({0} \cup {i \in semis : i <= p.at})
        last  == Min({Len(p.text)} \cup {i \in semis : i > p.at})
    IN  Place(SubSeq(p.text, first + 1, last), p.at - first, p.gap)

--------------------------------------------------------------------------------
(* Parentheses, forwards from the beginning and backwards from the end of the   *)
(* words ts.                                                                    *)

Opened(ts) == Len(SelectSeq(ts, LAMBDA w : w = "("))
Closed(ts) == Len(SelectSeq(ts, LAMBDA w : w = ")"))
AtTop(ts, i) == Opened(SubSeq(ts, 1, i)) = Closed(SubSeq(ts, 1, i))
AtTopBackwards(ts, i) == Opened(SubSeq(ts, i, Len(ts))) = Closed(SubSeq(ts, i, Len(ts)))

\* The last of the keywords ks at the depth of the end of ts, or none.
LastAtDepth(ts, ks) ==
    LET hits == {i \in DOMAIN ts : ts[i] \in ks /\ AtTopBackwards(ts, i)}
    IN  IF hits = {} THEN NoWord ELSE ts[Max(hits)]

--------------------------------------------------------------------------------
(* Clauses. *)

ClauseStarts ==
    [ SELECT |-> {"SELECT", "FROM", "WHERE", "GROUP", "HAVING", "ORDER", "LIMIT", "OFFSET", "FOR"},
      INSERT |-> {"INSERT", "VALUES", "SELECT", "RETURNING", "ON"},
      UPDATE |-> {"UPDATE", "SET", "FROM", "WHERE", "RETURNING"},
      DELETE |-> {"DELETE", "FROM", "USING", "WHERE", "RETURNING"} ]

\* The section that a clause of each name stands for; any other clause is unknown.
ClauseSection ==
    [ SELECT |-> "SELECT_COLUMNS", FROM |-> "FROM_TABLE", WHERE |-> "WHERE_CONDITION",
      GROUP |-> "GROUP_BY", HAVING |-> "HAVING", ORDER |-> "ORDER_BY", LIMIT |-> "LIMIT",
      OFFSET |-> "OFFSET", INSERT |-> "INSERT_TABLE", UPDATE |-> "UPDATE_TABLE", SET |-> "UPDATE_SET",
      DELETE |-> "DELETE_TABLE", CALL |-> "CALL_PROCEDURE" ]
SectionOfClause(k) ==
    CASE k = "WITH" -> "WITH_CTE_NAME"
      [] k \in DOMAIN ClauseSection -> ClauseSection[k]
      [] OTHER -> "UNKNOWN"

\* Where the main query of WITH begins, or 0.
MainQuery(ts) ==
    LET hits == {i \in 2 .. Len(ts) : ts[i] \in DOMAIN ClauseStarts /\ AtTop(ts, i)}
    IN  IF hits = {} THEN 0 ELSE Min(hits)

\* A word from which parenthesis depth counts: the main query is parsed on its own.
Origin(ts) == IF ts[1] = "WITH" /\ MainQuery(ts) > 0 THEN MainQuery(ts) ELSE 1

\* The words at which the clauses of the statement begin.
Boundaries(ts) ==
    LET o == Origin(ts)
        main == SubSeq(ts, o, Len(ts))
    IN  {1 : i \in {j \in {o} : j > 1}}
          \cup (IF main[1] \notin DOMAIN ClauseStarts THEN {}
                ELSE {(o - 1) + i : i \in {j \in DOMAIN main : main[j] \in ClauseStarts[main[1]] /\ AtTop(main, j)}})

\* The cursor is between the beginning of word a and the end of word b.
Covers(p, a, b) ==
    LET c == CursorToken(p)
    IN  a <= c /\ c <= b /\ (p.gap = "space" => p.at > 0 /\ c < b)

\* findClauseAtPosition, then detectSectionFromClause: "NONE" when no node holds the cursor.
\* Between two clauses it is the statement; DELETE and CALL have no clause of their own.
ClauseAtCursor(p) ==
    LET ts == p.text
        ClauseFrom(starts, origin) ==
            LET End(a) == Min({Len(ts)} \cup {s - 1 : s \in {t \in starts : t > a}})
                here   == {a \in starts : Covers(p, a, End(a)) /\ ts[a] # "DELETE"}
                stmt   == IF Covers(p, origin, Len(ts)) THEN ts[origin] ELSE ts[1]
            IN  IF here # {} THEN SectionOfClause(ts[Max(here)])
                ELSE IF stmt \in {"INSERT", "UPDATE", "DELETE", "CALL"} THEN SectionOfClause(stmt)
                ELSE "UNKNOWN"
    IN  IF Tokenize(ts) = <<>> \/ ~Covers(p, 1, Len(ts)) THEN "NONE"
        ELSE Only({ClauseFrom(starts, Origin(ts)) : starts \in {Boundaries(ts)}})

StatementType(p) ==
    LET ts == Tokenize(p.text)
    IN  IF ts # <<>> /\ ts[1] \in {"SELECT", "INSERT", "UPDATE", "DELETE", "WITH", "CALL"} THEN ts[1] ELSE "UNKNOWN"

--------------------------------------------------------------------------------
(* Sections: what the words ts before the cursor ask for. *)

\* The positions of the last clause keyword, and of the last keyword before position k; or 0.
LastKeyword(ts) == Max({0} \cup {i \in DOMAIN ts : ts[i] \in ClauseKeywords})

\* Mutant: the keyword itself counts as the one before it.
KeywordBefore_Itself(ts, k) ==
    LET i == Max({0} \cup {j \in 1 .. k : ts[j] \in Keywords}) IN IF i = 0 THEN NoWord ELSE ts[i]

KeywordBefore(ts, k) ==
    LET i == Max({0} \cup {j \in 1 .. k - 1 : ts[j] \in Keywords}) IN IF i = 0 THEN NoWord ELSE ts[i]

IsInJoinContext(ts) == LastAtDepth(ts, JoinKeywords \cup {"FROM", "WHERE", "SELECT"}) \in JoinKeywords
IsInDeleteContext(ts) == LastAtDepth(ts, DOMAIN ClauseStarts) = "DELETE"

\* INSERT INTO t (a, b), and perhaps one more word.
IsAfterInsertColumns(ts) ==
    \E n \in {Len(ts), Len(ts) - 1} :
        /\ n > 0 /\ ts[n] = ")"
        /\ \A m \in n + 1 .. Len(ts) : ts[m] # ")"
        /\ LastAtDepth(SubSeq(ts, 1, n), {"VALUES", "INTO"}) = "INTO"

\* CREATE TABLE name ( column type constraint, ...
CreateTableAt(ts) ==
    {i \in DOMAIN ts : ts[i] = "CREATE" /\ \E j \in i + 1 .. Len(ts) :
        ts[j] = "TABLE" /\ \A k \in i + 1 .. j - 1 : ts[k] \in {"TEMP", "IF", "NOT", "EXISTS"}}

Constraints == {"NOT", "NULL", "DEFAULT", "PRIMARY", "KEY", "UNIQUE", "REFERENCES", "CHECK", "CONSTRAINT"}

LastColumnElement(words) ==
    LET Read(s, w) ==
            IF s.depth < 0 THEN s
            ELSE IF w = "(" THEN [s EXCEPT !.depth = @ + 1]
            ELSE IF w = ")" /\ s.depth = 0 THEN [s EXCEPT !.depth = 0 - 1]
            ELSE LET d == IF w = ")" THEN s.depth - 1 ELSE s.depth
                     named == TokenType(w) = "identifier"
                 IN  IF d > 0 THEN [s EXCEPT !.depth = d]
                     ELSE [depth |-> d, last |->
                            CASE w = Comma -> "comma"
                              [] named /\ s.last \in {"comma", "none"} -> "name"
                              [] w \in DataTypes \/ (named /\ s.last = "name") -> "type"
                              [] w \in Constraints /\ s.last = "type" -> "constraint"
                              [] OTHER -> s.last]
    IN  FoldLeft(Read, [depth |-> 0, last |-> "none"], words).last

CreateTableSection(ts) ==
    LET start == Max(CreateTableAt(ts))
        names == {i \in start .. Len(ts) : TokenType(ts[i]) = "identifier"}
        lists == {i \in DOMAIN ts : ts[i] = "(" /\ names # {} /\ i > Min(names)}
    IN  IF lists = {} THEN "CREATE_TABLE_NAME"
        ELSE IF Opened(ts) <= Closed(ts) THEN "CREATE_TABLE_OPTIONS"
        ELSE CASE LastColumnElement(SubSeq(ts, Min(lists) + 1, Len(ts))) \in {"none", "comma"} -> "CREATE_TABLE_COLUMNS"
               [] LastColumnElement(SubSeq(ts, Min(lists) + 1, Len(ts))) = "name" -> "CREATE_TABLE_COLUMN_TYPE"
               [] OTHER -> "CREATE_TABLE_COLUMN_CONSTRAINT"

\* After a comma: the clause is the one of the last keyword that tells, at this depth.
SectionAfterComma(ts, clause) ==
    LET hits == {i \in DOMAIN ts : /\ AtTopBackwards(ts, i)
                                   /\ \/ ts[i] \in {"SELECT", "FROM", "WHERE", "AND", "OR", "SET"}
                                      \/ ts[i] = "BY" /\ KeywordBefore(ts, i) \in {"ORDER", "GROUP"}}
        k == IF hits = {} THEN NoWord ELSE ts[Max(hits)]
    IN  CASE k = "SELECT" -> "SELECT_COLUMNS"
          [] k = "FROM" -> "FROM_TABLE"
          [] k = "BY" -> IF KeywordBefore(ts, Max(hits)) = "ORDER" THEN "ORDER_BY" ELSE "GROUP_BY"
          [] k \in {"WHERE", "AND", "OR"} -> "WHERE_CONDITION"
          [] k = "SET" -> "UPDATE_SET"
          [] OTHER -> IF clause = "NONE" THEN "SELECT_COLUMNS" ELSE clause

\* The keywords that decide alone.
SectionOfKeyword ==
    [ ORDER |-> "ORDER_BY_INCOMPLETE", GROUP |-> "GROUP_BY_INCOMPLETE", IS |-> "IS_INCOMPLETE",
      NULLS |-> "NULLS_INCOMPLETE", CALL |-> "CALL_PROCEDURE", RETURNING |-> "RETURNING",
      CREATE |-> "CREATE_OBJECT" ]

SectionOfExpression(k) ==
    CASE k = "SELECT" -> "SELECT_COLUMNS"
      [] k = "HAVING" -> "HAVING"
      [] k = "SET" -> "UPDATE_SET"
      [] OTHER -> "WHERE_CONDITION"
ExpressionKeywords ==
    {"SELECT", "WHERE", "HAVING", "SET", "AND", "OR", "NOT", "ON", "WHEN", "THEN", "ELSE", "CASE"}

TableSection == [ INTO |-> "INSERT_TABLE", UPDATE |-> "UPDATE_TABLE", TABLE |-> "FROM_TABLE" ]

\* determineSectionFromContext: ts decides, without the word being typed where a table is created.
SectionFromContext(clause, k, afterComma, ts, partial) ==
    LET kw  == IF k = 0 THEN NoWord ELSE ts[k]
        tsC == IF partial # NoWord THEN Front(ts) ELSE ts
    IN  CASE kw \in JoinKeywords -> "JOIN_TABLE"
          [] kw = "BY" /\ KeywordBefore(ts, k) = "ORDER" -> "ORDER_BY"
          [] kw = "BY" /\ KeywordBefore(ts, k) = "GROUP" -> "GROUP_BY"
          [] kw \in DOMAIN SectionOfKeyword -> SectionOfKeyword[kw]
          [] kw = "NOT" /\ KeywordBefore(ts, k) = "IS" -> "IS_NOT_INCOMPLETE"
          [] kw \in Modifiers -> "ORDER_BY"
          [] kw = "ON" /\ IsInJoinContext(ts) -> "JOIN_CONDITION"
          [] kw = "TEMP" /\ \E i \in DOMAIN ts : ts[i] = "CREATE" -> "CREATE_OBJECT"
          [] CreateTableAt(tsC) # {} -> CreateTableSection(tsC)
          [] kw \in {"USING", "FROM"} /\ IsInDeleteContext(ts) -> IF kw = "USING" THEN "FROM_TABLE" ELSE "DELETE_TABLE"
          [] kw = "FROM" -> "FROM_TABLE"
          [] kw \in DOMAIN TableSection -> TableSection[kw]
          [] kw \in ExpressionKeywords -> SectionOfExpression(kw)
          [] afterComma -> SectionAfterComma(ts, clause)
          [] clause # "NONE" -> clause
          [] OTHER -> IF k = 0 THEN "STATEMENT_START" ELSE "UNKNOWN"

\* "col = 1": a comparison right before the last word.
HasComparisonBeforeLast(ts) ==
    Len(ts) >= 3 /\ ts[Len(ts) - 1] \in Operators \cup {"LIKE", "IN", "BETWEEN"}

SQLSection ==
    {"WITH_CTE_NAME", "WITH_CTE_COLUMNS", "SELECT_COLUMNS", "SELECT_COLUMN_ALIAS", "FROM_TABLE", "FROM_TABLE_ALIAS",
     "JOIN_TABLE", "JOIN_CONDITION", "WHERE_CONDITION", "GROUP_BY", "GROUP_BY_INCOMPLETE", "HAVING", "ORDER_BY",
     "ORDER_BY_INCOMPLETE", "IS_INCOMPLETE", "IS_NOT_INCOMPLETE", "NULLS_INCOMPLETE", "LIMIT", "OFFSET",
     "INSERT_TABLE", "INSERT_COLUMNS", "INSERT_VALUES", "UPDATE_TABLE", "UPDATE_SET", "DELETE_TABLE", "RETURNING",
     "CALL_PROCEDURE", "CREATE_OBJECT", "CREATE_TABLE_NAME", "CREATE_TABLE_COLUMNS", "CREATE_TABLE_COLUMN_TYPE",
     "CREATE_TABLE_COLUMN_CONSTRAINT", "CREATE_TABLE_OPTIONS", "STATEMENT_START", "UNKNOWN"}

StatementTypes == {"SELECT", "INSERT", "UPDATE", "DELETE", "WITH", "CALL", "CREATE", "UNKNOWN"}

\* What is known of the place; NoWord stands for null.  The nesting and the syntax node are not used.
CursorContext ==
    [section : SQLSection, type : StatementTypes, partial : STRING \cup {NoWord}, prefix : STRING \cup {NoWord},
     afterIdent : BOOLEAN, afterExpr : BOOLEAN, typingOp : STRING \cup {NoWord}, afterNot : BOOLEAN, afterModifier : BOOLEAN]

Context(section, type, partial) ==
    [section |-> section, type |-> type, partial |-> partial, prefix |-> NoWord, afterIdent |-> FALSE,
     afterExpr |-> FALSE, typingOp |-> NoWord, afterNot |-> FALSE, afterModifier |-> FALSE]

StatementKeywords ==
    {<<"SELECT">>, <<"INSERT", "INTO">>, <<"UPDATE">>, <<"DELETE", "FROM">>, <<"WITH">>, <<"CALL">>, <<"CREATE">>}
StatementPrefixes == {k[1] : k \in StatementKeywords} \cup {"IN"}

\* Typing a keyword that may be the beginning of something else: the words before it decide.
TypingKeywordContext(p, ts) ==
    LET before == Front(ts)
        expr   == IsValue(Last(before)) /\ HasComparisonBeforeLast(before)
        section == Only({SectionFromContext(clause, LastKeyword(before), FALSE, before, NoWord) :
                            clause \in {ClauseAtCursor(p)}})
    IN  [Context(section, StatementType(p), Last(ts))
            EXCEPT !.afterExpr = expr,
                   !.afterIdent = ~expr /\ TokenType(Last(before)) = "identifier"]

\* A word is complete: a space follows it, or the next word is being typed.
CompletedContext(p, ts, partial) ==
    LET done  == IF partial # NoWord /\ Len(ts) >= 2 THEN Front(ts) ELSE ts
        value == IF partial # NoWord THEN IsValue(Last(done)) ELSE IsValue(Last(ts))
        expr  == value /\ HasComparisonBeforeLast(done)
        last  == Last(ts)
        section == Only({SectionFromContext(clause, LastKeyword(ts), last = Comma, ts, partial) :
                            clause \in {ClauseAtCursor(p)}})
    IN  [Context(section, StatementType(p), partial)
            EXCEPT !.afterExpr = expr,
                   !.afterIdent = value /\ ~expr /\ TokenType(Last(done)) = "identifier",
                   !.typingOp = IF AtEndOfWord(p) /\ last \in {"<", ">", "!"} THEN last ELSE NoWord,
                   !.afterNot = (last = "NOT"),
                   !.afterModifier = (last \in Modifiers)]

DetectSection(p) ==
    LET Detect(ts, partial) ==
            LET n == Len(ts)
                typingKeyword == n > 0 /\ AtEndOfWord(p) /\ ts[n] \in Keywords
            IN  CASE IsInsideStringOrComment(p) -> Context("UNKNOWN", "UNKNOWN", NoWord)
                  [] n = 0 \/ (n = 1 /\ TokenType(ts[1]) = "identifier") -> Context("STATEMENT_START", "UNKNOWN", partial)
                  [] n = 1 /\ typingKeyword /\ ts[1] \in StatementPrefixes -> Context("STATEMENT_START", "UNKNOWN", ts[1])
                  [] ~typingKeyword /\ partial = NoWord /\ ~HasWordBreak(p) /\ ts[n] \notin {".", "("} ->
                        Context("UNKNOWN", "UNKNOWN", NoWord)
                  [] typingKeyword /\ n > 1 -> TypingKeywordContext(p, ts)
                  [] n > 1 /\ ts[n] = "." /\ TokenType(ts[n - 1]) = "identifier" ->
                        [Context(ClauseAtCursor(p), StatementType(p), NoWord)
                            EXCEPT !.section = IF @ = "NONE" THEN "UNKNOWN" ELSE @, !.prefix = ts[n - 1]]
                  [] StatementType(p) = "INSERT" /\ IsAfterInsertColumns(ts) ->
                        Context("INSERT_VALUES", "INSERT", partial)
                  [] OTHER -> CompletedContext(p, ts, partial)
    IN  Only({Detect(ts, partial) : ts \in {TokensUpToCursor(p)}, partial \in {PartialToken(p)}})
================================================================================
