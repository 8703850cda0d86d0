-------------------------------- MODULE SqlText --------------------------------
(*****************************************************************************)
(* A statement in the editor under Format and Format as one line (handleFormat *)
(* of EditorArea.tsx).  text is the tree PostgreSQL makes of the editor's     *)
(* text, original the tree of what the user typed.                            *)
(*****************************************************************************)
EXTENDS SqlFormat

CONSTANTS Statements,   \* the trees of the statements a user may have typed
          MaxBlankLines \* bound: the lines Format has put around the body of a function

VARIABLES original, text

textVars == <<original, text>>

TextInit ==
    /\ original \in Statements
    /\ text = original

Format ==
    /\ text.n = "createFunction" => Len(text.a) < MaxBlankLines
    /\ text' = FormatSql(text)
    /\ UNCHANGED original

FormatOneLine ==
    /\ text' = FormatSqlOneLine(text)
    /\ UNCHANGED original

TextNext == Format \/ FormatOneLine

TextSpec == TextInit /\ [][TextNext]_textVars

--------------------------------------------------------------------------------
(* What the formatter keeps.  A statement is plain when every node is of a kind *)
(* that is printed in full, carries no mark that is lost on the way, and needs  *)
(* no parentheses.                                                              *)

LostNodes == {"DISTINCT", "NULLIF", "OPANY", "LIKE", "IN", "BETWEEN", "ARRAYSUB", "other", "rangeFunction"}

LostMarks == {"deep", "quoted", "big", "bits", "scaled", "zero", "spaced", "argOrder", "withinGroup", "variadic",
              "refname", "exclude", "END_OFFSET_PRECEDING", "START_OFFSET_FOLLOWING",
              "typmod", "arrayType", "userType", "only", "colaliases", "sample", "natural",
              "materialized", "cteColumns", "dataModifying", "valuesList", "groupDistinct",
              "into", "withTies", "defaultValue", "multiAssign", "overriding", "byConstraint",
              "partialIndex", "check", "references", "temporary", "inherits", "partition",
              "lineComment", "nonLiteralDefault", "zeroDefault", "setOption", "body"}

RECURSIVE Subtrees(_)
Subtrees(t) == {t} \cup UNION {Subtrees(t.a[i]) : i \in DOMAIN t.a}

IsOperator(t) == t.n \in UNION ToSet(Levels) \cup {"ANY", "ALL"}
LevelOf(t) == IF t.n \in {"ANY", "ALL"} THEN Precedence("=")
              ELSE IF t.n = "CAST" THEN Precedence("::") ELSE Precedence(t.n)

\* Operands bind tighter than the operator, or as tightly on the side it groups to.
NeedsNoParentheses(t) ==
    (IsOperator(t) \/ t.n = "CAST") =>
        \A i \in DOMAIN t.a :
            (IsOperator(t.a[i]) \/ t.a[i].n = "CAST") =>
                \/ LevelOf(t.a[i]) > LevelOf(t)
                \/ /\ i = 1 /\ LevelOf(t.a[i]) = LevelOf(t)
                   /\ LevelOf(t) \notin NonAssociative
                   /\ t.n \notin {"AND", "OR"}

\* The sides of a set operation, likewise, and nothing that would belong to the whole.
SetOpLevel(t) == IF t.n = "INTERSECT" THEN 2 ELSE IF t.n \in SetOps THEN 1 ELSE 3
SidesNeedNoParentheses(t) ==
    t.n \in SetOps =>
        /\ t.m \subseteq {"all"}
        /\ \A i \in {1, 2} : t.a[i].m \cap (WithFields \cup TailClauses) = {}
        /\ SetOpLevel(t.a[1]) >= SetOpLevel(t) /\ SetOpLevel(t.a[2]) > SetOpLevel(t)

\* The alias of an INSERT is printed without AS, a cast to interval as a literal; a join
\* has a condition; WITH belongs to SELECT only; an ALTER TABLE has one command.
PrintedInFull(t) ==
    /\ t.n = "insert" => "alias" \notin t.m /\ (t.a[1] # Absent \/ "values" \in t.m)
    /\ t.n = "CAST" /\ "interval" \in t.m => t.a[1].n = "const" /\ "string" \in t.a[1].m
    /\ t.n = "join" => t.m \cap {"on", "using"} # {}
    /\ t.n = "row" => Len(t.a) > 1
    /\ t.n \in {"insert", "update", "delete"} => t.m \cap WithFields = {}
    /\ t.n \in {"CHECK", "FOREIGN", "EXCLUDE", "like"} => FALSE
    /\ t.n = "alterTable" => Len(t.a) = 1
    /\ t.n = "alterTable" => t.m = {} /\ \A i \in DOMAIN t.a : t.a[i].n \in DOMAIN AlterFields

Plain(s) ==
    \A t \in Subtrees(s) :
        /\ t.n \notin LostNodes
        /\ t.m \cap LostMarks = {}
        /\ NeedsNoParentheses(t)
        /\ SidesNeedNoParentheses(t)
        /\ PrintedInFull(t)

--------------------------------------------------------------------------------
(* Properties. *)

\* Formatting is safe for a plain statement: printed without any parentheses and with every
\* clause in its place, in any mixture of both formats, it is read back as the statement
\* that was typed (format.ts prints a tree from which the parentheses are gone).  A number
\* that a double spells otherwise, and a zero, are not plain.
PlainIsKept == Plain(original) => text = original

\* Formatting settles: what Format makes of a text is left as it is by the next Format,
\* whatever the first one lost, but for one more blank line around the body of a function,
\* which each Format adds.  The exceptions are what the first Format turns into something
\* that the second drops: a clause of an inner side of a set operation, handed over to the
\* whole, and the default 0 of a parameter, which becomes the name of a column.
HandedOver(t) == t.n \in SetOps /\ t.m \cap (WithFields \cup TailClauses) # {}
LosesDefault(t) == t.n = "createFunction" /\ "nonLiteralDefault" \in t.m
WithOneMoreBlank(t) ==
    IF t.n = "createFunction" /\ "body" \in t.m THEN [t EXCEPT !.a = Append(@, Leaf("blank"))] ELSE t
FormatSettles ==
    \A once \in {FormatSql(text)} :
        (\A t \in Subtrees(once) : ~HandedOver(t) /\ ~LosesDefault(t))
            => FormatSql(once) = WithOneMoreBlank(once)

================================================================================
