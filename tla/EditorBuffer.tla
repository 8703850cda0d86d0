------------------------------ MODULE EditorBuffer ------------------------------
(*****************************************************************************)
(* The text of the SQL editor between keystrokes, parses and answers:         *)
(* QueryEditor.tsx (the CodeMirror view of the active tab), the handlers of   *)
(* EditorArea.tsx that read it and write it, and editor.ts, which cuts a text *)
(* into statements.                                                           *)
(*                                                                           *)
(* A text is a sequence of tokens, each one character wide here: a statement  *)
(* is a Head ("D", or "U", which holds a character of two bytes) followed by  *)
(* conditions "W"; ";" separates statements.  A head alone acts on every row. *)
(* "R" is the head of a statement that the AI provider wrote, "P" its prose     *)
(* and "fence" what it puts around code.                                       *)
(*****************************************************************************)
EXTENDS Integers, FiniteSets, Sequences, Subsequences

CONSTANTS
    Tabs,       \* the open query tabs
    Schemas,    \* the schemas that can be selected
    Texts,      \* what the tabs may hold at first
    Typed,      \* the tokens the user types
    MaxLen,     \* bound on the length of a text
    MaxEdits,   \* bound on the user's edits, tab and schema changes
    MaxAsks     \* bound on the requests for a format, a rewrite or a fix

ASSUME BufferAssumption ==
    /\ MaxLen \in Nat /\ MaxEdits \in Nat /\ MaxAsks \in Nat
    /\ Texts \subseteq Seq({"D", "U", "W", ";"}) /\ Typed \subseteq {"D", "U", "W", ";"}

VARIABLES
    content,    \* content[t]: the text of tab t in the tabs' state
    active,     \* the tab whose view is mounted
    doc,        \* the document of the mounted view
    head,       \* the position of the cursor, 0 .. Len(doc)
    anchor,     \* the other end of the selection
    ranges,     \* rangesRef: the statements the last parse found
    current,    \* currentStatementRef, which is also what is highlighted
    timer,      \* TRUE: a parse is due in 150 ms
    parses,     \* the parses under way, oldest first
    parser,     \* the module that parses: "loading", "ready", or "failed" for good
    rendered,   \* the value of the last render
    effectDue,  \* TRUE: the effect of that render has not run
    schema,     \* the schema selected, whose search path the status bar shows
    bound,      \* what the handlers given to the view at its mount closed over
    linted,     \* the text whose errors are marked in the view
    rewriting,  \* isRewriting
    asks,       \* the requests for a format, a rewrite or a fix under way
    sent,       \* the run that the last step started, or NoRun
    edits, asked

view == <<doc, head, anchor, ranges, current, timer, parses, rendered, effectDue, bound, linted>>
counters == <<edits, asked>>
bufferVars == <<content, active, view, parser, schema, rewriting, asks, sent, counters>>

--------------------------------------------------------------------------------
(* Statements of a text. *)

Heads == {"D", "U", "R"}
Token == Heads \cup {"W", ";", "P"}
None == [from |-> 0, to |-> 0, none |-> TRUE]
Span(from, to) == [from |-> from, to |-> to, none |-> FALSE]

Minimum(S) == CHOOSE x \in S : \A y \in S : x <= y
Maximum(S) == CHOOSE x \in S : \A y \in S : y <= x

\* Where statements begin: PostgreSQL accepts a text whose statements are heads followed by
\* conditions.
Starts(text) == {i \in DOMAIN text : text[i] \in Heads}
Parses(text) ==
    /\ \A i \in Starts(text) : i = 1 \/ text[i - 1] = ";"
    /\ \A i \in DOMAIN text : text[i] = "W" => i > 1 /\ text[i - 1] # ";"
    /\ \A i \in DOMAIN text : text[i] # "P"

\* The parser counts bytes.
Bytes(text) == Len(text) + Cardinality({i \in DOMAIN text : text[i] = "U"})
Location(text, i) == Bytes(SubSeq(text, 1, i - 1))

\* What the statement that begins at i ends before.
Following(text, i) == {j \in Starts(text) : j > i}

\* Mutant: the end is one character too far.
GetStatementBoundaries_OneOff(text) ==
    [i \in Starts(text) |->
        Span(Location(text, i),
             IF Following(text, i) = {} THEN Len(text)
             ELSE Location(text, Minimum(Following(text, i))) + 1)]

\* A statement extends to where the next one begins; locations in bytes are used as
\* positions in characters.  The list of the statements is kept by where they begin.
GetStatementBoundaries(text) ==
    [i \in Starts(text) |->
        Span(Location(text, i),
             IF Following(text, i) = {} THEN Len(text)
             ELSE Location(text, Minimum(Following(text, i))))]

\* What a parse of a text yields with the module in state p.
GetEditorInfo(text, p) == IF p = "ready" /\ Parses(text) THEN GetStatementBoundaries(text) ELSE <<>>

\* The first range around the cursor: at the seam of two statements, the earlier one.
FindStatementAt(rs, pos) ==
    LET around == {k \in DOMAIN rs : rs[k].from <= pos /\ pos <= rs[k].to}
    IN  IF around = {} THEN None ELSE rs[Minimum(around)]

Least(a, b) == IF a < b THEN a ELSE b
Most(a, b) == IF a < b THEN b ELSE a

SliceDoc(text, r) == SubSeq(text, r.from + 1, Least(r.to, Len(text)))

\* The statements of a text that is run, by where they begin, or the text itself when it does not parse.
SplitStatements(text, p) ==
    LET rs == GetEditorInfo(text, p)
    IN  IF DOMAIN rs = {} THEN <<text>>
        ELSE [k \in {j \in DOMAIN rs : SliceDoc(text, rs[j]) # <<>>} |-> SliceDoc(text, rs[k])]

--------------------------------------------------------------------------------
(* The view. *)

Selection == Span(Least(head, anchor), Most(head, anchor))
Selected == SliceDoc(doc, Selection)

\* Mutant: the cached statement is not asked for.
GetSqlToExecute_Whole == IF Selected # <<>> THEN Selected ELSE doc

\* The selection, or else the statement cached for the cursor, or else everything.
GetSqlToExecute ==
    IF Selected # <<>> THEN Selected
    ELSE IF ~current.none THEN SliceDoc(doc, current)
    ELSE doc

\* A view for tab t: its document is the tab's text, which is parsed at once; the keymap and
\* the linter keep the handlers of this render.
Mount(t) ==
    /\ active' = t
    /\ doc' = content[t]
    /\ head' = 0 /\ anchor' = 0
    /\ ranges' = <<>>
    /\ current' = None
    /\ timer' = FALSE
    /\ parses' = <<[text |-> content[t], mount |-> TRUE]>>
    /\ rendered' = content[t]
    /\ effectDue' = FALSE
    /\ bound' = [schema |-> schema, rewriting |-> rewriting]
    /\ linted' = <<>>

\* Mutant: the tab does not hear of the change.
DocChanged_Unsaved(text) == doc' = text /\ timer' = TRUE /\ UNCHANGED content

\* The listener after a change of the document: the tab's text follows, and a parse is due
\* 150 ms from now.
DocChanged(text) ==
    /\ doc' = text
    /\ content' = [content EXCEPT ![active] = text]
    /\ timer' = TRUE

\* Mutant: the statement of the old position stays.
SelectionSet_NoLookup(h, a) == head' = h /\ anchor' = a /\ UNCHANGED current

\* The listener after a change of the selection: the statement is looked up in the ranges of
\* the last parse.
SelectionSet(h, a) ==
    /\ head' = h /\ anchor' = a
    /\ current' = FindStatementAt(ranges, h)

NoRun == [statements |-> <<>>, path |-> ""]

BufferInit ==
    /\ content \in [Tabs -> Texts]
    /\ active \in Tabs
    /\ schema \in Schemas
    /\ doc = content[active] /\ head = 0 /\ anchor = 0
    /\ ranges = <<>> /\ current = None /\ timer = FALSE
    /\ parses = <<[text |-> content[active], mount |-> TRUE]>> /\ parser = "loading"
    /\ rendered = content[active] /\ effectDue = FALSE
    /\ bound = [schema |-> schema, rewriting |-> FALSE]
    /\ linted = <<>>
    /\ rewriting = FALSE /\ asks = {}
    /\ sent = NoRun
    /\ edits = 0 /\ asked = 0

CountEdit == edits < MaxEdits /\ edits' = edits + 1

\* Text with the characters of r replaced by insert.
Spliced(text, r, insert) ==
    SubSeq(text, 1, r.from) \o insert \o SubSeq(text, r.to + 1, Len(text))

\* Typing replaces the selection and sets the cursor behind what was typed.
InsertAtCursor(insert) ==
    /\ CountEdit
    /\ Len(doc) + Len(insert) <= MaxLen
    /\ DocChanged(Spliced(doc, Selection, insert))
    /\ SelectionSet(Selection.from + Len(insert), Selection.from + Len(insert))
    /\ UNCHANGED <<active, ranges, parses, rendered, effectDue, bound, linted, parser, schema, rewriting, asks, asked>>
    /\ sent' = NoRun

DeleteBackward ==
    /\ CountEdit
    /\ head = anchor /\ head > 0
    /\ DocChanged(Spliced(doc, Span(head - 1, head), <<>>))
    /\ SelectionSet(head - 1, head - 1)
    /\ UNCHANGED <<active, ranges, parses, rendered, effectDue, bound, linted, parser, schema, rewriting, asks, asked>>
    /\ sent' = NoRun

MoveCursor(h, a) ==
    /\ CountEdit
    /\ <<h, a>> # <<head, anchor>>
    /\ SelectionSet(h, a)
    /\ UNCHANGED <<content, active, doc, ranges, timer, parses, rendered, effectDue, bound, linted, parser, schema,
                   rewriting, asks, asked>>
    /\ sent' = NoRun

--------------------------------------------------------------------------------
(* Parsing. *)

\* After 150 ms without a change the text is taken and parsed.
ParseTimer ==
    /\ timer
    /\ timer' = FALSE
    /\ parses' = Append(parses, [text |-> doc, mount |-> FALSE])
    /\ UNCHANGED <<content, active, doc, head, anchor, ranges, current, rendered, effectDue, bound, linted,
                   parser, schema, rewriting, asks, counters>>
    /\ sent' = NoRun

\* A blank text needs no module: its parse ends at once, ahead of those that wait for it.
Ends(i) == i \in 1..Len(parses) /\ IF parser = "loading" THEN parses[i].text = <<>> ELSE i = 1

\* A parse ends.  A result for another text is dropped, unless it is the one of the mount.
ParseDone(i) ==
    /\ Ends(i)
    /\ LET p == parses[i]
           rs == GetEditorInfo(p.text, parser)
       IN  IF p.mount \/ p.text = doc
           THEN ranges' = rs /\ current' = FindStatementAt(rs, head)
           ELSE UNCHANGED <<ranges, current>>
    /\ parses' = [j \in 1 .. Len(parses) - 1 |-> parses[IF j < i THEN j ELSE j + 1]]
    /\ UNCHANGED <<content, active, doc, head, anchor, timer, rendered, effectDue, bound, linted, parser, schema,
                   rewriting, asks, counters>>
    /\ sent' = NoRun

\* The module is loaded once for the page; a failure is never tried again.
LoadModule ==
    /\ parser = "loading"
    /\ parser' \in {"ready", "failed"}
    /\ UNCHANGED <<content, active, view, schema, rewriting, asks, counters>>
    /\ sent' = NoRun

--------------------------------------------------------------------------------
(* Marking errors: pg-lint.ts. *)

\* The linter cuts the text at its semicolons, whether or not it parses.
LintStatements(text) ==
    LET ends == {i \in DOMAIN text : text[i] = ";"} \cup {Len(text)}
    IN  {Span(Maximum({0} \cup {i \in ends : i < e}), e) : e \in ends}

\* Where it may mark a piece: at the word of the error, or at a keyword the piece ends with.
MarkedPositions(piece) == piece.from .. piece.to

\* A mark in every piece that does not parse by itself.
Diagnostics(text) ==
    UNION {MarkedPositions(piece) : piece \in {p \in LintStatements(text) : ~Parses(SliceDoc(text, p))}}

\* The marks of an older text stay until 400 ms after the last change, and as long as there is
\* no module; a blank text has none.
Lint ==
    /\ linted # doc
    /\ doc = <<>> \/ parser = "ready"
    /\ linted' = doc
    /\ UNCHANGED <<content, active, doc, head, anchor, ranges, current, timer, parses, rendered,
                   effectDue, bound, parser, schema, rewriting, asks, counters>>
    /\ sent' = NoRun

--------------------------------------------------------------------------------
(* The text travels to the tabs' state and back: React renders the view with it, *)
(* and an effect after the render writes a value that differs into the document. *)

Render ==
    /\ rendered # content[active]
    /\ rendered' = content[active]
    /\ effectDue' = TRUE
    /\ UNCHANGED <<content, active, doc, head, anchor, ranges, current, timer, parses, bound, linted, parser, schema,
                   rewriting, asks, counters>>
    /\ sent' = NoRun

\* Mutant: the effect runs after every render, also after its own.
ValueEffect_Again ==
    /\ effectDue
    /\ IF doc = rendered THEN UNCHANGED <<doc, content, timer, head, anchor>>
       ELSE /\ DocChanged(rendered)
            /\ head' = (IF head = 0 THEN 0 ELSE Len(rendered)) /\ anchor' = head'
    /\ UNCHANGED <<active, ranges, current, parses, rendered, effectDue, bound, linted, parser, schema, rewriting, asks, counters>>
    /\ sent' = NoRun

\* The replacement of everything maps the cursor to its end or its beginning.
ValueEffect ==
    /\ effectDue
    /\ effectDue' = FALSE
    /\ IF doc = rendered THEN UNCHANGED <<doc, content, timer, head, anchor>>
       ELSE /\ DocChanged(rendered)
            /\ head' = (IF head = 0 THEN 0 ELSE Len(rendered)) /\ anchor' = head'
    /\ UNCHANGED <<active, ranges, current, parses, rendered, bound, linted, parser, schema, rewriting, asks, counters>>
    /\ sent' = NoRun

SelectTab(t) ==
    /\ CountEdit
    /\ t # active
    /\ Mount(t)
    /\ UNCHANGED <<content, parser, schema, rewriting, asks, asked>>
    /\ sent' = NoRun

SelectSchema(s) ==
    /\ CountEdit
    /\ s # schema
    /\ schema' = s
    /\ UNCHANGED <<content, active, view, parser, rewriting, asks, asked>>
    /\ sent' = NoRun

--------------------------------------------------------------------------------
(* Running. *)

\* Settled: nothing that could still change what the cursor's statement is.
Settled == ~timer /\ parses = <<>> /\ ~effectDue /\ rendered = content[active]

\* What becomes of the module before it is used.
Loaded == IF parser = "loading" THEN {"ready", "failed"} ELSE {parser}

\* The text is taken at once and split when the module is there.
Execute(path) ==
    /\ doc # <<>>
    /\ \E p \in Loaded : sent' = [statements |-> SplitStatements(GetSqlToExecute, p), path |-> path]
    /\ UNCHANGED <<content, active, view, parser, schema, rewriting, asks, counters>>

\* Mod-Enter calls the handler of the mount, the button the one of the last render.
RunKey == Execute(bound.schema)
RunButton == Execute(schema)

--------------------------------------------------------------------------------
(* Requests whose answer replaces a part of the document. *)

Ask(kind, r, sql) ==
    /\ asked < MaxAsks /\ asked' = asked + 1
    /\ sql # <<>>
    /\ asks' = asks \cup {[kind |-> kind, id |-> asked, range |-> r, sql |-> sql,
                           doc |-> doc, quiet |-> ~timer /\ parses = <<>> /\ head = anchor]}

\* Format takes the selection or everything.
HandleFormat ==
    /\ LET r == IF head = anchor THEN Span(0, Len(doc)) ELSE Selection
       IN  Ask("format", r, SliceDoc(doc, r))
    /\ UNCHANGED <<content, active, view, parser, schema, rewriting, edits>>
    /\ sent' = NoRun

GetActiveStatementRange(text, pos) == FindStatementAt(GetEditorInfo(text, parser), pos)

\* Rewrite takes the range of the statement from a parse of its own, and the text from the cache.
HandleRewrite ==
    LET r == GetActiveStatementRange(doc, head)
    IN  /\ ~rewriting /\ parser # "loading"
        /\ ~r.none
        /\ Ask("rewrite", r, GetSqlToExecute)
        /\ rewriting' = TRUE
        /\ UNCHANGED <<content, active, view, parser, schema, edits>>
        /\ sent' = NoRun

\* Pressed while the module loads, it waits with the text and the cursor of then ...
RewriteWaits ==
    /\ ~rewriting /\ parser = "loading"
    /\ Ask("seek", Span(head, head), doc)
    /\ UNCHANGED <<content, active, view, parser, schema, rewriting, edits>>
    /\ sent' = NoRun

\* ... and goes on with the range of then and the cached text of now.
RewriteGoesOn(k) ==
    LET r == GetActiveStatementRange(k.sql, k.range.from)
    IN  /\ k.kind = "seek" /\ parser # "loading"
        /\ IF r.none \/ GetSqlToExecute = <<>>
           THEN asks' = asks \ {k} /\ UNCHANGED rewriting
           ELSE /\ asks' = (asks \ {k}) \cup
                           {[kind |-> "rewrite", id |-> k.id, range |-> r, sql |-> GetSqlToExecute,
                             doc |-> doc, quiet |-> FALSE]}
                /\ rewriting' = TRUE
        /\ UNCHANGED <<content, active, view, parser, schema, counters>>
        /\ sent' = NoRun

\* Fix is an action of the mark at position pos of the text that was linted.  Its handler is the
\* one of the mount, so whether a rewrite is under way is what it was then.
HandleFix(pos) ==
    LET rs == GetEditorInfo(doc, parser)
        r  == FindStatementAt(rs, pos)
    IN  /\ pos \in Diagnostics(linted)
        /\ ~bound.rewriting
        /\ Ask("fix", IF r.none THEN Span(0, Len(doc)) ELSE r, IF r.none THEN doc ELSE SliceDoc(doc, r))
        /\ rewriting' = TRUE
        /\ UNCHANGED <<content, active, view, parser, schema, edits>>
        /\ sent' = NoRun

\* Every statement is printed with one semicolon behind it, whatever there was; a text that
\* does not parse, also for want of the module, is left alone.
FormatSql(text) ==
    LET t == Append(text, ";")
    IN  IF parser = "ready" /\ Parses(text)
        THEN Keep(t, {i \in DOMAIN t : t[i] # ";" \/ (i > 1 /\ t[i - 1] # ";")})
        ELSE text

\* What the provider may write, the empty text standing for an error.
Written == {<<"R">>, <<"fence", "R", "fence">>, <<"P">>, <<>>}

CleanSQLResponse(text) == Keep(text, {i \in DOMAIN text : text[i] # "fence"})

\* The handlers of ai-service.ts: the provider's answer, cleaned.
RewriteSQL == {CleanSQLResponse(text) : text \in Written}
FixSQL == {CleanSQLResponse(text) : text \in Written}

Replies(k) ==
    CASE k.kind = "seek" -> {} [] k.kind = "format" -> {k.sql} [] k.kind = "rewrite" -> RewriteSQL [] k.kind = "fix" -> FixSQL

\* The cursor behind, inside or before a replaced range.
MapPosition(pos, r, insert) ==
    IF pos >= r.to /\ pos > r.from THEN (pos - (r.to - r.from)) + Len(insert)
    ELSE IF pos > r.from THEN r.from + Len(insert) ELSE pos

\* The answer, formatted, goes to the view that is mounted now, at the positions of then;
\* positions behind its end throw.  Formatting waits for the module.
Answer(k, reply) ==
    /\ reply \in Replies(k) \ {<<>>} /\ parser # "loading"
    /\ asks' = asks \ {k}
    /\ rewriting' = (rewriting /\ k.kind = "format")
    /\ IF k.range.to > Len(doc)
       THEN UNCHANGED <<doc, content, timer, head, anchor>>
       ELSE LET text == FormatSql(reply)
            IN  /\ DocChanged(Spliced(doc, k.range, text))
                /\ head' = MapPosition(head, k.range, text)
                /\ anchor' = MapPosition(anchor, k.range, text)
    /\ UNCHANGED <<active, ranges, current, parses, rendered, effectDue, bound, linted, parser, schema, counters>>
    /\ sent' = NoRun

\* The provider or the network fails, or no provider is configured.
AnswerFails(k) ==
    /\ <<>> \in Replies(k)
    /\ asks' = asks \ {k}
    /\ rewriting' = FALSE
    /\ UNCHANGED <<content, active, view, parser, schema, counters>>
    /\ sent' = NoRun

--------------------------------------------------------------------------------
\* What happens by itself.
Background ==
    \/ ParseTimer \/ LoadModule \/ Lint \/ Render \/ ValueEffect
    \/ \E i \in 1..Len(parses) : ParseDone(i)

BufferNext ==
    \/ \E tok \in Typed : InsertAtCursor(<<tok>>)
    \/ DeleteBackward
    \/ \E h \in 0 .. Len(doc) : MoveCursor(h, h) \/ MoveCursor(h, anchor)
    \/ Background
    \/ \E t \in Tabs : SelectTab(t)
    \/ \E s \in Schemas : SelectSchema(s)
    \/ RunKey \/ RunButton
    \/ HandleFormat \/ HandleRewrite \/ RewriteWaits \/ (\E k \in asks : RewriteGoesOn(k))
    \/ \E pos \in Diagnostics(linted) : HandleFix(pos)
    \/ \E k \in asks : AnswerFails(k) \/ \E reply \in {<<"R">>, <<"P">>, k.sql} : Answer(k, reply)

\* Timers fire, parses end, React renders and runs its effects, in whatever order; users and
\* providers owe nothing.
BufferSpec == BufferInit /\ [][BufferNext]_bufferVars
FairBufferSpec == BufferSpec /\ WF_bufferVars(Background)

--------------------------------------------------------------------------------
(* Properties. *)

BufferTypeOK ==
    /\ content \in [Tabs -> Seq(Token)]
    /\ active \in Tabs /\ schema \in Schemas
    /\ head \in 0 .. Len(doc) /\ anchor \in 0 .. Len(doc)
    /\ parser \in {"loading", "ready", "failed"}
    /\ timer \in BOOLEAN /\ effectDue \in BOOLEAN /\ rewriting \in BOOLEAN

\* When no parse is due or under way, the cached ranges are those of the document and the
\* cached statement is the one around the cursor: no interleaving of edits, parses, the
\* loading of the module, the unchecked parse of the mount, answers and renders leaves the
\* cache stale for good.  A blank document is the exception, with nothing in it to run: its
\* parse overtakes that of the mount, whose ranges then stay until the next edit.
QuietCacheIsCurrent ==
    (~timer /\ parses = <<>> /\ doc # <<>>) =>
        /\ parser # "loading"
        /\ ranges = GetEditorInfo(doc, parser)
        /\ current = FindStatementAt(ranges, head)

\* The invariant: types, and the cached statement.
BufferInv == BufferTypeOK /\ QuietCacheIsCurrent

\* A run from a settled editor with its module, without a selection, in a text of one byte per
\* character that parses, sends one whole statement of the text, the one at the cursor: never a statement
\* without its condition, never two.  Only where no statement is around the cursor does it
\* send them all.
SettledRunIsExact ==
    [][Settled /\ parser = "ready" /\ head = anchor /\ Parses(doc) /\ Bytes(doc) = Len(doc) /\ (RunKey \/ RunButton)
          => LET rs == GetEditorInfo(doc, parser)
             IN  IF FindStatementAt(rs, head).none
                 THEN sent'.statements = SplitStatements(doc, parser)
                 ELSE \E k \in DOMAIN rs : /\ rs[k].from <= head /\ head <= rs[k].to
                                           /\ sent'.statements = <<SplitStatements(doc, parser)[k]>>]_bufferVars

\* The editor and the tab never drift apart: the document is the tab's text.
DocIsSaved == doc = content[active]

\* An answer to a request made from a quiet editor without a selection, that finds the
\* document as it was, replaces exactly the text that was sent: the range of a rewrite comes
\* from a parse of its own and the text from the cache, and the two agree.
UndisturbedAnswerFits ==
    \A k \in asks : k.quiet /\ k.doc = doc => SliceDoc(doc, k.range) = k.sql

\* Once the user stops, the editor settles: the last text is parsed, saved and rendered, and,
\* unless the module could not be loaded, linted.
EditorSettles == <>[](Settled /\ doc = rendered /\ (parser = "ready" => doc = linted))

================================================================================
