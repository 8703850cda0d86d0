------------------------------ MODULE SqlArguments ------------------------------
(*****************************************************************************)
(* The arguments of functions: lib/sql/parse-function-args.ts, which reads    *)
(* the list the server sends of a function's arguments, and                   *)
(* pg-signature-help.ts, which shows that list while a call is typed and      *)
(* marks the argument that the cursor is in.                                  *)
(*                                                                           *)
(* A list is a text of words, like the text of the editor, and [] belongs to  *)
(* its word.  The server sends it as pg_get_function_identity_arguments       *)
(* prints it: without defaults.                                               *)
(*****************************************************************************)
EXTENDS SqlTokens, Subsequences

Count(ws, i, j, marks) == Cardinality({k \in i .. j : ws[k] \in marks})

--------------------------------------------------------------------------------
(* parse-function-args.ts *)

ArgModes == {"IN", "OUT", "INOUT", "VARIADIC"}

\* The names of types that are looked for, or as many as tell the cases apart.
CommonTypes == {"integer", "text", "date", "timestamp", "character", "double"}

\* A function's argument; name is NoWord when it has none.
Argument == [mode : ArgModes \cup {NoWord}, name : STRING, type : Seq(STRING)]

\* The pieces between the commas that stand outside of brackets: each goes up to a comma or to
\* the end of the list.
PieceEnds(ws, open, close) ==
    {Len(ws) + 1} \cup {i \in DOMAIN ws : ws[i] = Comma /\ Count(ws, 1, i, open) = Count(ws, 1, i, close)}
BetweenCommas(ws, open, close) ==
    LET ends == PieceEnds(ws, open, close)
        start(k) == IF k = 1 THEN 1 ELSE Nth(ends, k - 1) + 1
    IN  [k \in 1 .. Cardinality(ends) |-> SubSeq(ws, start(k), Nth(ends, k) - 1)]

\* An empty last piece is none.
splitArguments(ws) ==
    LET pieces == BetweenCommas(ws, {"(", "["}, {")", "]"})
    IN  IF Last(pieces) = <<>> THEN Front(pieces) ELSE pieces

\* A single word is a type, and so is a list that begins with the name of one.
splitNameAndType(ws) ==
    IF Len(ws) <= 1 \/ ws[1] \in CommonTypes THEN [name |-> NoWord, type |-> ws]
    ELSE [name |-> Head(ws), type |-> Tail(ws)]

parseOneArgument(ws) ==
    LET moded == Len(ws) > 1 /\ ws[1] \in ArgModes
        parts == splitNameAndType(IF moded THEN Tail(ws) ELSE ws)
    IN  [mode |-> IF moded THEN ws[1] ELSE NoWord, name |-> parts.name, type |-> parts.type]

parseFunctionArguments(ws) ==
    LET pieces == splitArguments(ws) IN [k \in DOMAIN pieces |-> parseOneArgument(pieces[k])]

\* How PostgreSQL prints a list of arguments.
PrintedArgument(a) ==
    (IF a.mode = NoWord THEN <<>> ELSE <<a.mode>>) \o (IF a.name = NoWord THEN <<>> ELSE <<a.name>>) \o a.type
PrintedArguments(args) ==
    FlattenSeq([k \in DOMAIN args |-> (IF k = 1 THEN <<>> ELSE <<Comma>>) \o PrintedArgument(args[k])])

--------------------------------------------------------------------------------
(* pg-signature-help.ts *)

NonFunctionKeywords == {"IF", "IN", "CASE", "WHEN", "THEN", "ELSE", "END", "AND", "OR", "NOT"}
NoCall == [name |-> NoWord, at |-> 0, argIndex |-> 0]

\* Mutant: the commas of an inner call count too.
ArgIndex_AnyDepth(before, open) == Cardinality({i \in open + 1 .. Len(before) : before[i] = Comma})

\* Going back from the cursor, which commas are met outside of parentheses.
ArgIndex(before, open) ==
    LET closed(i) == Count(before, i, Len(before), {"("}) = Count(before, i, Len(before), {")"})
    IN  Cardinality({i \in open + 1 .. Len(before) : before[i] = Comma /\ closed(i)})

\* The call around the cursor: going back, the first parenthesis that nothing closes, if no
\* semicolon comes first, and the word before it.
getFunctionContext(before) ==
    LET n      == Len(before)
        unmet(i) == Count(before, i + 1, n, {"("}) = Count(before, i + 1, n, {")"})
        open   == Max({0} \cup {i \in DOMAIN before : before[i] = "(" /\ unmet(i)})
    IN  IF \/ open <= 1 \/ Count(before, open, n, {Semicolon}) > 0
           \/ TokenType(before[open - 1]) \notin {"identifier", "keyword"}
           \/ before[open - 1] \in NonFunctionKeywords
        THEN NoCall
        ELSE [name |-> before[open - 1], at |-> open, argIndex |-> ArgIndex(before, open)]

\* parseSignatureArgs: brackets are not looked at, and empty pieces are left out.
parseSignatureArgs(ws) ==
    LET pieces == BetweenCommas(ws, {"("}, {")"})
    IN  Keep(pieces, {k \in DOMAIN pieces : pieces[k] # <<>>})

\* The tooltip: the arguments that are listed and the one that is marked, by the first function
\* of the name.  <<>> when nothing is shown.
Tooltip(before, signatures) ==
    LET ctx   == getFunctionContext(before)
        named == {k \in DOMAIN signatures : signatures[k].name = ctx.name}
        first == signatures[Min(named)]
    IN  IF ctx = NoCall \/ named = {} \/ (named # {} /\ first.arguments = <<>>) THEN <<>>
        ELSE <<[args |-> parseSignatureArgs(first.arguments), active |-> ctx.argIndex + 1]>>
================================================================================
