------------------------------- MODULE Completion -------------------------------
(*****************************************************************************)
(* The completion of the SQL editor at work: pg-autocomplete.ts.              *)
(*                                                                           *)
(* A user types a statement word by word, or goes through a finished one.     *)
(* Each change asks the completion source, which looks at the place, fetches  *)
(* the columns it wants, and looks again.  CodeMirror asks anew when the text *)
(* changes, and drops the answer to what it asked before.  Inside a call, a   *)
(* tooltip shows the arguments of the function.                               *)
(*****************************************************************************)
EXTENDS SqlCandidates

CONSTANTS
    Statements,     \* the statements that are typed
    Partials,       \* Partials[w]: an unfinished spelling of w, where there is one
    Database        \* what the client knows of the database, and every table's columns

ASSUME StatementsAssumption == Statements \subseteq Seq(STRING)
ASSUME PartialsAssumption == \A w \in DOMAIN Partials : Partials[w] \in STRING
ASSUME DatabaseAssumption == Database \in SchemaInfo /\ IsFiniteSet(Database.functions)

\* A name that is a keyword stands in quotes, in a text and in a list of arguments, and PostgreSQL
\* prints types there without their modifiers.  The modes are read as such, and a type of several
\* words without a name before it is one that the parser looks for.
ArgumentIsPlain(a) ==
    /\ a.type # <<>> /\ a.name \notin ArgModes
    /\ {a.name} \cup ToSet(a.type) \subseteq STRING \ {Comma, "(", ")", "[", "]"}
    /\ a.name = NoWord => Len(a.type) = 1 \/ a.type[1] \in CommonTypes
ASSUME FunctionsAssumption ==
    \A f \in Database.functions :
        /\ TokenType(f.name) \in {"identifier", "keyword"} /\ f.name \notin NonFunctionKeywords
        /\ \A k \in DOMAIN f.declared : ArgumentIsPlain(f.declared[k])

VARIABLES
    goal,       \* the statement being typed
    whole,      \* it is there already, and the cursor goes through it
    place,      \* the text with the cursor in it
    loaded,     \* the tables whose columns the schema store holds
    fetching,   \* the tables whose columns are on their way
    request,    \* the call of the completion source that is under way
    popup       \* whether the source has answered, and the columns its answer was made from

vars == <<goal, whole, place, loaded, fetching, request, popup>>

Tables == ToSet(Database.tables)
NoList == [answered |-> FALSE, explicit |-> FALSE, known |-> {}]
Idle == [stage |-> "idle"]

\* buildSchema
BuildSchema(known) ==
    [Database EXCEPT !.tables =
        [k \in DOMAIN @ |-> IF @[k] \in known THEN @[k] ELSE [@[k] EXCEPT !.columns = <<>>]]]
Look(p, known) ==
    Only({Autocomplete(q, db) : q \in {ExtractCurrentStatement(p)}, db \in {BuildSchema(known)}})

--------------------------------------------------------------------------------
(* The text. *)

NoSpace(n) == n > 0 /\ Adjacent(goal, n)

\* The words typed in full.
TypedWords == IF place.partial THEN place.at - 1 ELSE place.at

PlaceIn(before, after, gap, partial) ==
    [text |-> before \o after, at |-> Len(before), gap |-> gap, partial |-> partial]
Rest(n) == IF whole THEN SubSeq(goal, n + 1, Len(goal)) ELSE <<>>
AtWord(n, gap) == PlaceIn(SubSeq(goal, 1, n), Rest(n), gap, FALSE)
AtPartial(n) == PlaceIn(Append(SubSeq(goal, 1, n), Partials[goal[n + 1]]), Rest(n + 1), "none", TRUE)

--------------------------------------------------------------------------------
(* What the source fetches. *)

\* extractAliasMap reads the text with two patterns: "x AS y", and "FROM x y" unless a word
\* that goes on with the clause follows.
AliasBlockers == {"ON", "WHERE", "LEFT", "RIGHT", "INNER", "FULL", "CROSS", "JOIN", "AS", Comma, "("}
IsWord(ts, i) == i \in DOMAIN ts /\ TokenType(ts[i]) \in {"identifier", "keyword"}
AliasAt(ts, i) ==      \* the word i stands for, if it is an alias
    LET first == IF i > 3 /\ ts[i - 2] = "." THEN i - 3 ELSE i - 1
    IN  CASE i > 2 /\ ts[i - 1] = "AS" /\ IsWord(ts, i - 2) -> ts[i - 2]
          [] /\ first > 1 /\ ts[first - 1] \in {"FROM", "JOIN"}
             /\ IsIdentifier(ts, first) /\ IsIdentifier(ts, i - 1) /\ IsIdentifier(ts, i)
             /\ ~(i < Len(ts) /\ ts[i + 1] \in AliasBlockers) -> ts[i - 1]
          [] OTHER -> NoWord
ResolveTableAlias(ts, alias) ==
    LET hits == {i \in DOMAIN ts : ts[i] = alias /\ AliasAt(ts, i) # NoWord}
    IN  IF hits = {} THEN alias ELSE AliasAt(ts, Max(hits))

ColumnFetchSections ==
    {"SELECT_COLUMNS", "WHERE_CONDITION", "JOIN_CONDITION", "GROUP_BY", "ORDER_BY", "HAVING", "UPDATE_SET"}

\* The table that is waited for without a limit: the one before the dot, whatever its schema,
\* or the selected one.
FirstWanted(ctx) ==
    LET name  == ResolveTableAlias(ExtractCurrentStatement(place).text, ctx.prefix)
        named == {k \in DOMAIN Database.tables : Database.tables[k].name = name}
    IN  CASE ctx.prefix # NoWord -> {Database.tables[k] : k \in {j \in named : \A h \in named : j <= h}}
          [] ctx.section \in ColumnFetchSections -> {t \in Tables : <<t.schema, t.name>> = Database.selected}
          [] OTHER -> {}
\* The tables that are waited for for a second.
AlsoWanted(ctx) == IF ctx.prefix = NoWord /\ ctx.section \in ColumnFetchSections THEN Tables ELSE {}

--------------------------------------------------------------------------------
(* The completion source. *)

\* What the list shows.  It is matched with everything before the cursor that hangs together by
\* dots, unless a dot is the last thing typed.
DottedWord ==
    LET first == Min({i \in 1 .. place.at : \A j \in i + 1 .. place.at : "." \in {place.text[j - 1], place.text[j]}})
    IN  IF place.at = 0 \/ place.gap # "none" THEN <<>> ELSE SubSeq(place.text, first, place.at)
FitsDottedWord(value) ==
    \/ Len(DottedWord) <= 1 \/ Last(DottedWord) = "."
    \/ /\ Len(value) = Len(DottedWord) /\ Front(value) = Front(DottedWord)
       /\ MatchType(<<Last(value)>>, Last(DottedWord)) \in {"exact", "prefix"}
Listed ==
    LET Silent(ctx) == ctx.section = "STATEMENT_START" /\ ctx.partial = NoWord /\ ~popup.explicit
    IN  IF ~popup.answered THEN {}
        ELSE Only({IF Silent(found.context) THEN {} ELSE found.suggestions : found \in {Look(place, popup.known)}})
Offered == {s \in Listed : FitsDottedWord(s.candidate.value)}

\* signatureHelpTooltip: made anew with every change of the text or the cursor.
Signatures ==
    SetToSeq({[name |-> f.name, arguments |-> PrintedArguments(f.declared)] : f \in Database.functions})
SignatureHelp == Tooltip(SubSeq(place.text, 1, place.at), Signatures)

Init ==
    /\ goal \in Statements /\ whole \in BOOLEAN
    /\ place = IF whole THEN AtWord(0, "before") ELSE AtWord(0, "none")
    /\ loaded = {} /\ fetching = {} /\ request = Idle /\ popup = NoList

\* The source begins: it looks at the place and asks for the first columns it wants.
Consult(explicit, known) ==
    request' = [stage |-> "first", explicit |-> explicit, ctx |-> Look(place', known).context]

\* A key in the editor; typing asks the source.
MoveTo(p, asks) ==
    /\ place' = p /\ p # place
    /\ popup' = NoList
    /\ IF asks THEN Consult(FALSE, loaded) ELSE request' = Idle
    /\ UNCHANGED <<goal, whole, loaded, fetching>>

TypeWord == TypedWords < Len(goal) /\ MoveTo(AtWord(TypedWords + 1, "none"), ~whole)
TypePartial ==
    /\ ~place.partial /\ TypedWords < Len(goal) /\ goal[TypedWords + 1] \in DOMAIN Partials
    /\ place.gap = "space" \/ NoSpace(TypedWords) \/ TypedWords = 0
    /\ MoveTo(AtPartial(TypedWords), TRUE)
TypeSpace == ~place.partial /\ TypedWords > 0 /\ ~NoSpace(TypedWords) /\ MoveTo(AtWord(TypedWords, "space"), TRUE)
MoveBeforeNext == whole /\ TypedWords < Len(goal) /\ ~NoSpace(TypedWords) /\ MoveTo(AtWord(TypedWords, "before"), FALSE)

\* Ctrl+Space
StartCompletion ==
    /\ request = Idle /\ Offered = {}
    /\ UNCHANGED place /\ Consult(TRUE, loaded) /\ popup' = NoList
    /\ UNCHANGED <<goal, whole, loaded, fetching>>

\* The first table is there, or nobody waits for it: the others are asked for.
FetchFirst ==
    /\ request.stage = "first"
    /\ fetching' = fetching \cup (FirstWanted(request.ctx) \ loaded)
    /\ request' = [request EXCEPT !.stage = "waitFirst"]
    /\ UNCHANGED <<goal, whole, place, loaded, popup>>

FetchOthers ==
    /\ request.stage = "waitFirst" /\ FirstWanted(request.ctx) \cap fetching = {}
    /\ fetching' = fetching \cup (AlsoWanted(request.ctx) \ loaded)
    /\ request' = [request EXCEPT !.stage = "waitOthers"]
    /\ UNCHANGED <<goal, whole, place, loaded, popup>>

\* ensureColumns: an answer fills the store, an error is ignored.
Arrive(t) ==
    /\ t \in fetching /\ fetching' = fetching \ {t}
    /\ \E got \in {{t}, {}} : loaded' = loaded \cup got
    /\ UNCHANGED <<goal, whole, place, request, popup>>

\* The answer, when all is there or the second is over, is made from what is loaded by then.
Show ==
    /\ popup' = [answered |-> TRUE, explicit |-> request.explicit, known |-> loaded]
    /\ request' = Idle
    /\ UNCHANGED <<goal, whole, place, loaded, fetching>>
AllThere == request.stage = "waitOthers" /\ AlsoWanted(request.ctx) \cap fetching = {} /\ Show
SecondIsOver == request.stage = "waitOthers" /\ AlsoWanted(request.ctx) \cap fetching # {} /\ Show

\* The user picks what goes on with the statement; some picks ask again.
Remaining == SubSeq(goal, TypedWords + 1, Len(goal))
GoesOn(c) == c.value \in Prefixes(Remaining)
RetriggerKeywords ==
    {<<"SELECT">>, <<"INSERT", "INTO">>, <<"UPDATE">>, <<"DELETE", "FROM">>, <<"CALL">>, <<"CREATE">>, <<"FROM">>,
     <<"WHERE">>, <<"AND">>, <<"OR">>, <<"ON">>, <<"SET">>, OrderBy, GroupBy, <<"HAVING">>, <<"RETURNING">>,
     <<"USING">>, <<"ASC">>, <<"DESC">>, <<"WHEN">>, <<"THEN">>, <<"ELSE">>} \cup Joins

Accept(c) ==
    LET n    == TypedWords + Len(c.value)
        dot  == c.suffix = "."
        next == IF dot THEN AtWord(n + 1, "none") ELSE AtWord(n, IF c.suffix = Space THEN "space" ELSE "none")
    IN  /\ GoesOn(c) /\ c.type # "function" /\ (dot => NoSpace(n) /\ goal[n + 1] = ".") /\ (c.suffix = Space => ~NoSpace(n))
        /\ ~whole \/ place.partial
        /\ place' = next /\ popup' = NoList
        /\ IF dot \/ c.value \in RetriggerKeywords THEN Consult(TRUE, loaded) ELSE request' = Idle
        /\ UNCHANGED <<goal, whole, loaded, fetching>>

Next ==
    \/ TypeWord \/ TypePartial \/ TypeSpace \/ MoveBeforeNext \/ StartCompletion
    \/ FetchFirst \/ FetchOthers \/ AllThere \/ SecondIsOver
    \/ \E t \in fetching : Arrive(t)
    \/ \E s \in Offered : Accept(s.candidate)

\* The server answers, and timers go off.
Spec ==
    /\ Init /\ [][Next]_vars
    /\ WF_vars(FetchFirst) /\ WF_vars(FetchOthers) /\ WF_vars(AllThere \/ SecondIsOver)
    /\ \A t \in Tables : WF_vars(Arrive(t))

--------------------------------------------------------------------------------
(* What the completion promises. *)

Stages == {"first", "waitFirst", "waitOthers"}

\* Types.  A popup belongs to a source that has answered, and nothing is on its way that is there.
CompletionTypeOK ==
    /\ goal \in Statements /\ whole \in BOOLEAN
    /\ place.at \in 0 .. Len(place.text) /\ place.gap \in {"none", "space", "before"}
    /\ loaded \subseteq Tables /\ fetching \subseteq Tables \ loaded
    /\ request = Idle \/ (request.stage \in Stages /\ request.ctx \in CursorContext)
    /\ popup.known \subseteq loaded /\ (popup.answered => request = Idle)

\* The meaning of the names in a text, by SQL's rule: where a table follows FROM, JOIN or UPDATE,
\* it goes by the name behind it, if there is one, and by its own otherwise.
Declared(text) == {i \in DOMAIN text : i > 1 /\ IsIdentifier(text, i) /\ text[i - 1] \in {"FROM", "JOIN", "UPDATE"}}
GoesBy(text, i) ==
    LET k == IF i < Len(text) /\ text[i + 1] = "AS" THEN i + 2 ELSE i + 1
    IN  IF IsIdentifier(text, k) THEN text[k] ELSE text[i]
TablesUsed(text) == {t \in Tables : \E i \in Declared(text) : t.name = text[i]}
Meant(text, key) == {t \in Tables : \E i \in Declared(text) : t.name = text[i] /\ GoesBy(text, i) = key}

\* The next word is one that the editor can know: a keyword, a table, or a column of a table that
\* the text has named before (the selected one if it names none) and whose columns were there.
Offerable(w) ==
    \/ TokenType(w) = "keyword"
    \/ \E t \in Tables : t.name = w
    \/ \E t \in popup.known : w \in ToSet(t.columns) /\
          IF TablesUsed(place.text) = {} THEN <<t.schema, t.name>> = Database.selected ELSE t \in TablesUsed(place.text)

\* What follows a joined table or an alias behind AS is not offered at all, and neither is AS.
IsPlain == \A i \in 1 .. Len(place.text) : place.text[i] \notin {"AS", "JOIN"}

\* The second word of a keyword that is offered as one.
InsideKeyword ==
    TypedWords > 0 /\ \E k \in {<<"DELETE", "FROM">>, <<"INSERT", "INTO">>} : k = SubSeq(goal, TypedWords, TypedWords + 1)

\* Whoever types a statement and waits for the list finds in it what comes next, also when the word
\* has been begun: the clause detection, the scope, the candidates, the matching and the columns
\* that were fetched all have to agree on the place.
NextIsOffered ==
    (/\ popup.answered /\ ~whole /\ TypedWords < Len(goal) /\ ~InsideKeyword
     /\ place.gap = "space" \/ place.partial \/ TypedWords = 0
     /\ TypedWords > 0 \/ place.partial
     /\ IsPlain /\ goal[TypedWords + 1] # "AS"
     /\ Offerable(goal[TypedWords + 1]))
    => \E s \in Offered : GoesOn(s.candidate)

\* Behind "x." the list holds the columns of the table that x stands for, and no other table's:
\* extractAliasMap, which decides what to fetch, and the scope analysis, which decides what to
\* show, read the alias in two ways.
DotShowsItsTable ==
    LET x     == place.text[place.at - 1]
        meant == Meant(place.text, x)
    IN  (popup.answered /\ place.at > 1 /\ place.text[place.at] = "." /\ place.gap = "none")
        => \A s \in Offered : \E t \in meant : s.candidate.value[1] \in ToSet(t.columns)

\* The parentheses before the cursor that are still open: from each on, no more were closed than
\* were opened.
StillOpen(before) ==
    {i \in DOMAIN before : before[i] = "(" /\
        \A j \in i + 1 .. Len(before) : Count(before, i + 1, j, {")"}) <= Count(before, i + 1, j, {"("})}

\* In the arguments of a known function that declares some, and nowhere else, the tooltip lists them
\* and marks the argument that the cursor is in: two readings of a list of arguments and a search
\* that goes back from the cursor have to agree.
SignatureFits ==
    LET before == SubSeq(place.text, 1, place.at)
        call   == Max({0} \cup StillOpen(before))
        called == {f \in Database.functions : /\ call > 1 /\ before[call - 1] = f.name
                                              /\ \A i \in call .. Len(before) : before[i] # Semicolon}
        passed == {i \in call + 1 .. Len(before) : before[i] = Comma /\ Max(StillOpen(SubSeq(before, 1, i))) = call}
    IN  IF called = {} THEN SignatureHelp = <<>>
        ELSE \E f \in called : SignatureHelp =
                IF f.declared = <<>> THEN <<>>
                ELSE <<[args |-> [k \in DOMAIN f.declared |-> PrintedArgument(f.declared[k])],
                        active |-> Cardinality(passed) + 1]>>

\* What the schema tab shows of a function's arguments is what was declared, unless a name is the
\* name of a type: that one is lost.
ArgumentsAreRead ==
    \A f \in Database.functions :
        LET got == parseFunctionArguments(PrintedArguments(f.declared))
        IN  /\ Len(got) = Len(f.declared)
            /\ \A k \in DOMAIN got : got[k] = f.declared[k] <=> f.declared[k].name \notin CommonTypes

\* The invariant: types, and what is shown of a call and of a function.
CompletionInv == CompletionTypeOK /\ SignatureFits /\ ArgumentsAreRead

\* Behind the dot of a name that the text has declared by then, an answer with the columns loaded
\* is not empty.
DotIsAnswered ==
    LET meant == Meant(place.text, place.text[place.at - 1])
    IN  (/\ popup.answered /\ ~whole /\ place.at > 1 /\ place.text[place.at] = "." /\ place.gap = "none"
         /\ meant # {} /\ meant \subseteq popup.known)
        => Offered # {}

\* A list holds ranked suggestions, and behind a dot the columns that belong there.
ListInv == Listed \subseteq RankedSuggestion /\ DotShowsItsTable /\ DotIsAnswered

================================================================================
