----------------------------- MODULE ResultsGrid -----------------------------
(***************************************************************************)
(* Editing rows in the grid of query results: the handlers of              *)
(* src/components/sql-editor/QueryResults.tsx, the gates of                *)
(* RowDetailPanel.tsx, and the SQL that src/lib/staged-changes.ts writes   *)
(* for what is staged, over the tabs of EditorTabs.                        *)
(*                                                                         *)
(* Every query here reads one table with a key column k and a column v     *)
(* (JSON, with a default). Staging needs write permission: the user has it.*)
(* Sorting, filtering, paging and the selection are views of the grid: a   *)
(* handler is given any rows the user may have selected. QueryResults       *)
(* is mounted once for all query tabs of the editor (no key), so its state  *)
(* survives a change of editor tab as far as its effects let it.           *)
(***************************************************************************)
EXTENDS EditorTabs

CONSTANTS
    HasPrimaryKey, \* whether k is the table's primary key
    Keys, Values,
    Null,
    Undefined,     \* a field of a new row left to its DEFAULT
    DefaultValue,  \* what the database puts there
    NoRow, Failed,
    Tables,        \* bound: the contents a query may find the table to have
    NewRows,       \* bound: what a user types into the fields of a new row
    Edits,         \* bound: what a user types over a field of a row
    JsonValues,    \* bound: what a user types over a JSON value
    MaxRows,       \* bound: rows in the grid
    MaxStaged,     \* bound: rows staged at a time, over all results
    MaxConverted   \* bound: results at a time where a new row was saved as an edit

\* A field without a value is Null, and so is an empty one.
Row == [k : Keys \cup {Null}, v : Values \cup {Null, Undefined}]

ASSUME ResultsGridAssumption ==
    /\ HasPrimaryKey \in BOOLEAN
    /\ NoRow \notin Row /\ Failed \notin Seq(Row) /\ Undefined \notin Keys \cup Values \cup {Null}
    /\ \A edit \in Edits : edit.column \in {"k", "v"}
    /\ DefaultValue \in Values /\ NewRows \subseteq Row /\ JsonValues \subseteq Values
    /\ \A table \in Tables :
         /\ table \in Seq([k : Keys, v : Values \cup {Null}])
         /\ HasPrimaryKey => \A i, j \in 1..Len(table) : table[i].k = table[j].k => i = j
    /\ MaxRows \in Nat /\ MaxStaged \in Nat /\ MaxConverted \in Nat

VARIABLES
    fetched,     \* result -> the rows its query read
    displayRows, \* displayRowsMap: result -> its rows in the grid, <<>> when it has no entry
    mounted,     \* the keys of displayRowsMap
    panel,       \* the detail panel
    preview,     \* previewModalOpen: the staged changes are under review
    jsonModal,   \* the POSITION of the row whose JSON value is open in its own modal, 0 for none
    converted    \* history: results where a staged new row was saved as an edit

gridVars == <<fetched, displayRows, mounted, panel, preview, jsonModal, converted>>

allVars == <<tabVars, gridVars>>

Columns == {"k", "v"}

PrimaryKey == IF HasPrimaryKey THEN {"k"} ELSE {}

DisplayRow == [data : Row, status : {"normal", "staged-delete", "staged-update", "staged-insert"},
               originalData : Row \cup {NoRow}]

\* selectedRow, drawerOpen, isEditingRow and pendingNewRow. The panel holds a row OBJECT: "row"
\* while that object is in the grid, "hidden" if the drawer is closed too, "gone" once a handler
\* replaced or removed it, "new" for the pending row, "none" without a selected row.
Panel == [on : {"none", "new", "gone", "row", "hidden"}, at : Nat, editing : BOOLEAN, pending : BOOLEAN]

ClosedPanel == [on |-> "none", at |-> 0, editing |-> FALSE, pending |-> FALSE]

isStaged(row) == row.status # "normal"

StagedIn(rows) == {i \in 1..Len(rows) : isStaged(rows[i])}

StagedAs(rows, status) == {i \in 1..Len(rows) : rows[i].status = status}

Fresh(rows) ==
    [i \in 1..Len(rows) |-> [data |-> rows[i], status |-> "normal", originalData |-> NoRow]]

GridInit ==
    /\ TabsInit
    /\ fetched = [r \in Results |-> <<>>]
    /\ displayRows = [r \in Results |-> <<>>]
    /\ mounted = {}
    /\ panel = ClosedPanel
    /\ preview = FALSE
    /\ jsonModal = 0
    /\ converted = {}

-----------------------------------------------------------------------------
(* What the handlers make of the rows in the grid *)

Stage(rows, i, data, status, original) ==
    [rows EXCEPT ![i] = [data |-> data, status |-> status, originalData |-> original]]

Delete(rows, selected) ==
    [i \in 1..Len(rows) |-> IF i \in selected /\ rows[i].status = "normal"
                            THEN [rows[i] EXCEPT !.status = "staged-delete"] ELSE rows[i]]

\* The first row of the two an edit of an edited row could restore.
Original(row) == IF row.originalData # NoRow THEN row.originalData ELSE row.data

\* handleDiscardSelection: the new rows are filtered out, and the SHIFTED positions of the
\* others are looked up in the selection.
Discard(rows, selected) ==
    LET rest == Drop(rows, selected \cap StagedAs(rows, "staged-insert"))
    IN  [j \in 1..Len(rest) |->
            IF j \notin selected THEN rest[j]
            ELSE IF rest[j].status = "staged-delete" THEN [rest[j] EXCEPT !.status = "normal"]
            ELSE IF rest[j].status = "staged-update"
                 THEN [data |-> rest[j].originalData, status |-> "normal", originalData |-> NoRow]
            ELSE rest[j]]

\* handleDiscardAll
DiscardAll(rows) ==
    LET rest == Drop(rows, StagedAs(rows, "staged-insert"))
    IN  [j \in 1..Len(rest) |->
            IF isStaged(rest[j])
            THEN [data |-> IF rest[j].status = "staged-update" THEN rest[j].originalData
                           ELSE rest[j].data,
                  status |-> "normal", originalData |-> NoRow]
            ELSE rest[j]]

-----------------------------------------------------------------------------
(* The SQL of what is staged, and the database that runs it *)

Staged(rows, status) == Keep(rows, StagedAs(rows, status))

\* The columns of an edited row the UPDATE is given to set: a key keeps its old value.
changedColumns(row) == {c \in Columns \ PrimaryKey : row.data[c] # row.originalData[c]}

generateDeleteSQL(rows) ==
    LET deletes == Staged(rows, "staged-delete")
    IN  [i \in 1..Len(deletes) |->
            [op |-> "delete", where |-> Restrict(deletes[i].data, PrimaryKey), set |-> <<>>]]

\* Without a primary key the WHERE of every row uses the columns the FIRST row changed, and
\* the original row it takes their values from holds the primary key alone: IS NULL.
generateUpdateSQL(rows) ==
    LET updates == Staged(rows, "staged-update")
        whereColumns == IF PrimaryKey # {} THEN PrimaryKey ELSE changedColumns(updates[1])
        effective == Keep(updates, {i \in 1..Len(updates) : changedColumns(updates[i]) # {}})
    IN  [i \in 1..Len(effective) |->
            [op |-> "update",
             where |-> [c \in whereColumns |->
                            IF c \in PrimaryKey THEN effective[i].originalData[c] ELSE Null],
             set |-> Restrict(effective[i].data, changedColumns(effective[i]))]]

generateInsertSQL(rows) ==
    LET inserts == Staged(rows, "staged-insert")
    IN  [i \in 1..Len(inserts) |->
            [op |-> "insert", where |-> <<>>,
             set |-> Restrict(inserts[i].data, {c \in Columns : inserts[i].data[c] # Undefined})]]

\* BUG: new rows are written before the old ones are deleted.
stagedSQL_InsertsFirst(rows) ==
    generateInsertSQL(rows) \o generateDeleteSQL(rows) \o generateUpdateSQL(rows)

\* stagedChanges, joined into one text.
stagedSQL(rows) == generateDeleteSQL(rows) \o generateUpdateSQL(rows) \o generateInsertSQL(rows)

Matches(row, where) == \A c \in DOMAIN where : row[c] = where[c]

\* PostgreSQL runs one statement. A WHERE without a condition does not parse.
Exec(rows, stmt) ==
    IF rows = Failed \/ (stmt.op # "insert" /\ DOMAIN stmt.where = {}) THEN Failed
    ELSE CASE stmt.op = "delete" ->
                Drop(rows, {i \in 1..Len(rows) : Matches(rows[i], stmt.where)})
           [] stmt.op = "update" ->
                [i \in 1..Len(rows) |->
                    IF Matches(rows[i], stmt.where)
                    THEN [k |-> IF "k" \in DOMAIN stmt.set THEN stmt.set["k"] ELSE rows[i].k,
                          v |-> IF "v" \in DOMAIN stmt.set THEN stmt.set["v"] ELSE rows[i].v]
                    ELSE rows[i]]
           [] stmt.op = "insert" ->
                IF HasPrimaryKey /\ \E i \in 1..Len(rows) : rows[i].k = stmt.set["k"] THEN Failed
                ELSE Append(rows, [k |-> stmt.set["k"],
                                   v |-> IF "v" \in DOMAIN stmt.set THEN stmt.set["v"]
                                         ELSE DefaultValue])

\* One request, one transaction: all of it or nothing.
Apply(rows, stmts) ==
    LET after[n \in 0..Len(stmts)] == IF n = 0 THEN rows ELSE Exec(after[n - 1], stmts[n])
    IN  after[Len(stmts)]

-----------------------------------------------------------------------------
(* The effects that follow a change of the tabs *)

\* BUG: every entry but that of the result on screen is swept.
Swept_OthersOfTheTab == mounted \cap {shown'}

\* The sweep of displayRowsMap keeps the results of the editor tab on screen, and only them.
Swept == IF activeTab' \in QueryTabs THEN mounted \cap Range(resultTabs'[activeTab']) ELSE {}

\* The result on screen gets its rows when it has no entry, other entries are swept, and
\* the panel closes when another result is on screen, and the review when nothing is staged.
Effects ==
    LET fill == IF shown' = Absent THEN {} ELSE {shown'} \ Swept
    IN  /\ mounted' = Swept \cup fill
        /\ displayRows' = [r \in Results |-> IF r \in fill THEN Fresh(fetched'[r])
                                             ELSE IF r \in Swept THEN displayRows[r] ELSE <<>>]
        /\ panel' = IF shown' = shown THEN panel ELSE ClosedPanel
        /\ preview' = (preview /\ shown' # Absent /\ StagedIn(displayRows'[shown']) # {})
        /\ converted' = converted \cap Swept

InUse == UNION {Range(resultTabs[t]) : t \in QueryTabs}

NoModal == ~preview /\ jsonModal = 0

\* A tab is opened, chosen or closed; a modal covers all that, but the page can be loaded
\* again at any time. A request that is out goes on without its tab.
MoveBetweenTabs ==
    /\ (NoModal /\ (Selecting \/ Closing)) \/ Reload
    /\ fetched' = [r \in Results |-> IF \E t \in QueryTabs : r \in Range(resultTabs'[t])
                                     THEN fetched[r] ELSE <<>>]
    /\ jsonModal' = 0
    /\ Effects

\* Bound: a query starts only while an id is left for its result.
IdLeft == Results \ InUse # {}

StartQuery ==
    /\ activeTab \in QueryTabs /\ IdLeft
    /\ setTabExecuting(activeTab)
    /\ UNCHANGED gridVars

\* The results a run may end with: as many as ids are left, also none.
Answers == UNION {[1..n -> Results \ InUse] : n \in 0..Cardinality(Results)}

\* What each statement finds is what the database makes of the table meanwhile: any of
\* Tables. The effects that follow another result on screen leave the JSON modal open.
FinishQuery(t, rs, contents) ==
    /\ \A i, j \in 1..Len(rs) : rs[i] = rs[j] => i = j
    /\ setTabResults(t, rs)
    /\ fetched' = [r \in Results |-> IF r \in Range(rs) THEN contents[r] ELSE fetched[r]]
    /\ Effects
    /\ UNCHANGED jsonModal

-----------------------------------------------------------------------------
(* The detail panel *)

Rows == displayRows[shown]

OnScreen == shown # Absent

\* BUG: the panel remembers a position, not the row.
Follow_ByPosition(replaced, removed) == panel

\* The panel once the rows in `replaced` are new objects and those in `removed` are gone.
Follow(replaced, removed) ==
    IF panel.on \notin {"row", "hidden"} THEN panel
    ELSE IF panel.at \in replaced \cup removed THEN [panel EXCEPT !.on = "gone", !.at = 0]
    ELSE [panel EXCEPT !.at = @ - Cardinality({i \in removed : i < panel.at})]

StagedElsewhere == UNION {{r} \X StagedIn(displayRows[r]) : r \in mounted \ {shown}}

SetRows(rows) ==
    /\ Len(rows) <= MaxRows
    /\ Cardinality(StagedIn(rows)) + Cardinality(StagedElsewhere) <= MaxStaged
    /\ displayRows' = [displayRows EXCEPT ![shown] = rows]
    /\ UNCHANGED <<tabVars, fetched, mounted, preview>>

\* A click on row i. Edit mode ends when another row was selected before, unless a new row
\* is pending.
Clicked(i) ==
    [panel EXCEPT !.on = "row", !.at = i,
                  !.editing = @ /\ (panel.on \in {"none", "new"} \/ panel.pending
                                    \/ (panel.on = "row" /\ panel.at = i))]

ClickRow(i) ==
    /\ OnScreen /\ i \in 1..Len(Rows)
    /\ panel' = Clicked(i)
    /\ UNCHANGED <<tabVars, fetched, displayRows, mounted, preview, jsonModal, converted>>

\* The buttons of the drawn panel of a row in the grid.
Buttons ==
    IF panel.on # "row" \/ panel.pending THEN {}
    ELSE IF panel.editing THEN {"cancel", "save"}
    ELSE {"previous", "next", "close"} \cup (IF isStaged(Rows[panel.at]) THEN {"discard"} ELSE {"edit", "delete"})

\* What a field takes: NULL where the column is nullable, in a new row DEFAULT where it has one,
\* and any text else; an empty key is Null.
FieldValues(column, isNewRow) ==
    IF column = "k" THEN Keys \cup {Null}
    ELSE Values \cup {Null} \cup (IF isNewRow THEN {Undefined} ELSE {})

\* A new row needs its key.
missingRequiredPK(data) == \E c \in PrimaryKey : data[c] = Null

\* When Save is enabled.
hasChanges(data, row, isNewRow) == IF isNewRow THEN ~missingRequiredPK(data) ELSE data # row

\* A double click, or the pencil of the panel: both leave a staged row alone.
EditRow(i) ==
    /\ OnScreen /\ i \in 1..Len(Rows) /\ ~isStaged(Rows[i])
    /\ panel' = [Clicked(i) EXCEPT !.editing = TRUE]
    /\ UNCHANGED <<tabVars, fetched, displayRows, mounted, preview, jsonModal, converted>>

\* A click with Ctrl on the row in the panel: the panel closes, isEditingRow stays.
CtrlClickRow ==
    /\ OnScreen /\ panel.on \in {"row", "hidden"}
    /\ panel' = [panel EXCEPT !.on = "none", !.at = 0]
    /\ UNCHANGED <<tabVars, fetched, displayRows, mounted, preview, jsonModal, converted>>

\* The close button, or Escape: the row stays the selected one.
ClosePanel ==
    /\ OnScreen /\ "close" \in Buttons
    /\ panel' = [panel EXCEPT !.on = "hidden"]
    /\ UNCHANGED <<tabVars, fetched, displayRows, mounted, preview, jsonModal, converted>>

\* Arrow keys, j and k, and the buttons: the neighbour on screen, which sorting and filtering
\* make any other row. An open drawer stays open, a closed one closed.
NavigateRow(i) ==
    /\ OnScreen /\ panel.on \in {"row", "hidden"} /\ ~panel.editing
    /\ i \in 1..Len(Rows) \ {panel.at}
    /\ panel' = [Clicked(i) EXCEPT !.on = panel.on]
    /\ UNCHANGED <<tabVars, fetched, displayRows, mounted, preview, jsonModal, converted>>

\* Without a selected row the keys select the one under the pointer.
selectRowByCanonicalIndex(i) ==
    /\ OnScreen /\ panel.on = "none" /\ ~panel.editing /\ i \in 1..Len(Rows)
    /\ panel' = [panel EXCEPT !.on = "hidden", !.at = i]
    /\ UNCHANGED <<tabVars, fetched, displayRows, mounted, preview, jsonModal, converted>>

\* Pinned rows, and unpinned ones, are new objects. Of the rows pinned together only the one
\* in the panel matters.
PinRow(i) ==
    /\ OnScreen /\ i \in 1..Len(Rows)
    /\ panel' = Follow({i}, {})
    /\ UNCHANGED <<tabVars, fetched, displayRows, mounted, preview, jsonModal, converted>>

\* Cancel of the panel, or Escape. The panel of a row that is gone is not drawn, unless a new
\* row is pending.
CancelEdit ==
    /\ OnScreen /\ panel.editing
    /\ panel.on \in {"new", "row"} \/ (panel.on = "gone" /\ panel.pending)
    /\ panel' = IF panel.pending THEN ClosedPanel ELSE [panel EXCEPT !.editing = FALSE]
    /\ UNCHANGED <<tabVars, fetched, displayRows, mounted, preview, jsonModal, converted>>

\* handleAddRow, handleDuplicateSelection: they differ in what the fields start with.
NewRow ==
    /\ OnScreen
    /\ panel' = [on |-> "new", at |-> 0, editing |-> TRUE, pending |-> TRUE]
    /\ UNCHANGED <<tabVars, fetched, displayRows, mounted, preview, jsonModal, converted>>

\* BUG: a new row comes first, not last.
SaveNewRow_OnTop(data) ==
    /\ OnScreen /\ panel.on # "none" /\ panel.pending
    /\ \A c \in Columns : data[c] \in FieldValues(c, TRUE)
    /\ hasChanges(data, NoRow, TRUE)
    /\ SetRows(<<[data |-> data, status |-> "staged-insert", originalData |-> NoRow]>> \o Rows)
    /\ panel' = ClosedPanel
    /\ UNCHANGED <<jsonModal, converted>>

\* handleSaveEdit of a pending row.
SaveNewRow(data) ==
    /\ OnScreen /\ panel.on # "none" /\ panel.pending
    /\ \A c \in Columns : data[c] \in FieldValues(c, TRUE)
    /\ hasChanges(data, NoRow, TRUE)
    /\ SetRows(Append(Rows, [data |-> data, status |-> "staged-insert", originalData |-> NoRow]))
    /\ panel' = ClosedPanel
    /\ UNCHANGED <<jsonModal, converted>>

\* handleSaveEdit of a row in the grid: whatever its status, it becomes an edited row.
SaveEdit(edit) ==
    /\ OnScreen /\ "save" \in Buttons /\ edit.value \in FieldValues(edit.column, FALSE)
    /\ LET data == [Rows[panel.at].data EXCEPT ![edit.column] = edit.value]
       IN  /\ hasChanges(data, Rows[panel.at].data, FALSE)
           /\ SetRows(Stage(Rows, panel.at, data, "staged-update", Original(Rows[panel.at])))
    /\ panel' = [Follow({panel.at}, {}) EXCEPT !.editing = FALSE]
    /\ converted' = IF Rows[panel.at].status = "staged-insert" THEN converted \cup {shown}
                    ELSE converted
    /\ Cardinality(converted') <= MaxConverted
    /\ UNCHANGED jsonModal

\* handleExpandJson: any row that shows a JSON value. The modal keeps the row's position.
OpenJson(i) ==
    /\ OnScreen /\ i \in 1..Len(Rows) /\ Rows[i].data.v \notin {Null, Undefined}
    /\ jsonModal' = i
    /\ UNCHANGED <<tabVars, fetched, displayRows, mounted, panel, preview, converted>>

\* BUG: an edit of an edited row takes the first edit for the original.
SaveJson_Rebases(value) ==
    /\ OnScreen /\ jsonModal # 0
    /\ IF panel.pending \/ jsonModal > Len(Rows)
       THEN UNCHANGED <<tabVars, fetched, displayRows, mounted, panel, preview>>
       ELSE /\ LET row == Rows[jsonModal]
                  data == [row.data EXCEPT !.v = value]
              IN  SetRows(IF row.status = "staged-insert"
                          THEN [Rows EXCEPT ![jsonModal].data = data]
                          ELSE Stage(Rows, jsonModal, data, "staged-update", row.data))
            /\ panel' = Follow({jsonModal}, {})
    /\ jsonModal' = 0
    /\ UNCHANGED converted

\* handleSaveJsonModal: the row at that position of the result on screen NOW, if it has one;
\* with a row pending the value goes into the fields of that row. Then the modal closes.
SaveJson(value) ==
    /\ OnScreen /\ jsonModal # 0
    /\ IF panel.pending \/ jsonModal > Len(Rows)
       THEN UNCHANGED <<tabVars, fetched, displayRows, mounted, panel, preview>>
       ELSE /\ LET row == Rows[jsonModal]
                  data == [row.data EXCEPT !.v = value]
              IN  SetRows(IF row.status = "staged-insert"
                          THEN [Rows EXCEPT ![jsonModal].data = data]
                          ELSE Stage(Rows, jsonModal, data, "staged-update", Original(row)))
            /\ panel' = Follow({jsonModal}, {})
    /\ jsonModal' = 0
    /\ UNCHANGED converted

CloseJson ==
    /\ jsonModal # 0
    /\ jsonModal' = 0
    /\ UNCHANGED <<tabVars, fetched, displayRows, mounted, panel, preview, converted>>

-----------------------------------------------------------------------------
(* Deleting and discarding *)

\* The Delete key on the selected rows, and the button of the menu and of the panel. Rows
\* that are staged already are left as they are.
DeleteSelection(selected) ==
    /\ OnScreen /\ selected \subseteq 1..Len(Rows) /\ \E i \in selected : ~isStaged(Rows[i])
    /\ SetRows(Delete(Rows, selected))
    /\ panel' = Follow({i \in selected : ~isStaged(Rows[i])}, {})
    /\ UNCHANGED <<jsonModal, converted>>

\* The menu offers it on a staged row.
DiscardSelection(selected) ==
    /\ OnScreen /\ selected \subseteq 1..Len(Rows) /\ \E i \in selected : isStaged(Rows[i])
    /\ SetRows(Discard(Rows, selected))
    /\ LET removed == selected \cap StagedAs(Rows, "staged-insert")
       IN  panel' = Follow((selected \cap StagedIn(Rows)) \ removed, removed)
    /\ UNCHANGED <<jsonModal, converted>>

\* onDiscardStaged of the panel. It leaves an originalData behind that is the row's data, as
\* good as none.
DiscardShownRow ==
    /\ OnScreen /\ "discard" \in Buttons
    /\ LET i == panel.at
       IN  IF Rows[i].status = "staged-insert"
           THEN /\ SetRows(Drop(Rows, {i}))
                /\ panel' = [panel EXCEPT !.on = "none", !.at = 0]
           ELSE /\ SetRows(Stage(Rows, i, IF Rows[i].status = "staged-update"
                                          THEN Rows[i].originalData ELSE Rows[i].data,
                                 "normal", NoRow))
                /\ panel' = Follow({i}, {})
    /\ UNCHANGED <<jsonModal, converted>>

\* handleDiscardAll
DiscardEverything ==
    /\ OnScreen /\ StagedIn(Rows) # {}
    /\ SetRows(DiscardAll(Rows))
    /\ LET removed == StagedAs(Rows, "staged-insert")
       IN  panel' = Follow(StagedIn(Rows) \ removed, removed)
    /\ UNCHANGED <<jsonModal, converted>>

-----------------------------------------------------------------------------
(* Executing *)

\* The modal shows stagedSQL(Rows), formatted and kept up to date; it covers the editor.
OpenPreview ==
    /\ OnScreen /\ ~preview /\ StagedIn(Rows) # {}
    /\ preview' = TRUE
    /\ UNCHANGED <<tabVars, fetched, displayRows, mounted, panel, jsonModal, converted>>

ClosePreview ==
    /\ preview
    /\ preview' = FALSE
    /\ UNCHANGED <<tabVars, fetched, displayRows, mounted, panel, jsonModal, converted>>

\* handleExecuteAll sends stagedSQL(Rows) as it is by then; when it was applied the query runs again in the
\* same tab, and what was staged stays staged. Nothing of the grid waits for the answer, so
\* request and answer are one step; a batch that fails leaves everything as it is.
ExecuteAll ==
    /\ preview /\ IdLeft /\ stagedSQL(Rows) # <<>>
    /\ setTabExecuting(activeTab)
    /\ preview' = FALSE
    /\ UNCHANGED <<fetched, displayRows, mounted, panel, jsonModal, converted>>

Panelling ==
    \/ \E i \in 1..MaxRows : ClickRow(i) \/ EditRow(i) \/ PinRow(i) \/ OpenJson(i)
    \/ CtrlClickRow \/ ClosePanel \/ CancelEdit \/ NewRow
    \/ \E data \in NewRows : SaveNewRow(data)
    \/ \E edit \in Edits : SaveEdit(edit)

Staging ==
    \/ OnScreen /\ \E selected \in SUBSET (1..Len(Rows)) : DiscardSelection(selected)
    \/ DiscardShownRow \/ DiscardEverything

\* The listeners of the shortcuts and of the Delete key are the window's and the document's:
\* a modal does not hold them off.
Keyboard ==
    \/ \E i \in 1..MaxRows :
          NavigateRow(i) \/ selectRowByCanonicalIndex(i) \/ (~panel.editing /\ PinRow(i))
    \/ OnScreen /\ \E selected \in SUBSET (1..Len(Rows)) : DeleteSelection(selected)

\* StagedChangesModal.
Reviewing == (jsonModal = 0 /\ OpenPreview) \/ ClosePreview \/ ExecuteAll

\* JsonExpandModal.
Expanding == CloseJson \/ \E value \in JsonValues : SaveJson(value)

\* The answer of a query comes also while a modal is open.
Querying ==
    \/ MoveBetweenTabs \/ (NoModal /\ StartQuery)
    \/ \E t \in QueryTabs, rs \in Answers :
          \E contents \in [Range(rs) -> Tables] : FinishQuery(t, rs, contents)

GridNext == Querying \/ Keyboard \/ Reviewing \/ Expanding \/ (NoModal /\ (Panelling \/ Staging))

GridSpec == GridInit /\ [][GridNext]_allVars

-----------------------------------------------------------------------------
(* What editing promises *)

GridTypeOK ==
    /\ TabsTypeOK
    /\ displayRows \in [Results -> Seq(DisplayRow)]
    /\ fetched \in [Results -> Seq([k : Keys, v : Values \cup {Null}])]
    /\ mounted \subseteq InUse /\ (OnScreen => shown \in mounted)
    /\ panel \in Panel /\ (panel.on \in {"row", "hidden"} => panel.at \in 1..Len(Rows))
    /\ panel.on = "hidden" => ~panel.editing /\ ~panel.pending
    /\ preview => OnScreen /\ StagedIn(Rows) # {} /\ jsonModal = 0
    /\ jsonModal \in Nat /\ (jsonModal # 0 => OnScreen)
    /\ \A r \in mounted : \A i \in 1..Len(displayRows[r]) :
         displayRows[r][i].status = "staged-update" => displayRows[r][i].originalData # NoRow

\* The result on screen has staged rows, none of them a new row that was saved as an edit.
EditedAsMeant == OnScreen /\ shown \notin converted /\ StagedIn(Rows) # {}

\* However rows were edited, deleted, added and edited again, discarding everything brings
\* back the rows the query read (QueryResults.tsx handleDiscardAll). The one exception:
\* a staged new row that was saved as an edit.
DiscardRestores ==
    EditedAsMeant =>
        LET rest == DiscardAll(Rows)
        IN  [i \in 1..Len(rest) |-> rest[i].data] = fetched[shown]

\* The keys of edited rows were left alone, and no two rows are to have one key.
KeysAreKept(rows) ==
    /\ \A i \in 1..Len(rows) :
          rows[i].status = "staged-update" => rows[i].data.k = rows[i].originalData.k
    /\ \A i, j \in 1..Len(rows) :
          /\ rows[i].status # "staged-delete" /\ rows[j].status # "staged-delete"
          /\ rows[i].data.k = rows[j].data.k
          => i = j

\* What the grid shows as the outcome: deleted rows struck out, the others as they stand.
Outcome(rows) ==
    LET kept == Drop(rows, StagedAs(rows, "staged-delete"))
    IN  [i \in 1..Len(kept) |->
            [k |-> kept[i].data.k,
             v |-> IF kept[i].data.v = Undefined THEN DefaultValue ELSE kept[i].data.v]]

\* The generated statements, run against the rows the query read, leave exactly what the
\* grid shows: nothing is lost, nothing else is touched, and their order does not matter to
\* the user (a key freed by a delete may be given to a new row).
SQLWritesTheGrid ==
    EditedAsMeant /\ KeysAreKept(Rows) => Apply(fetched[shown], stagedSQL(Rows)) = Outcome(Rows)

\* The invariant: types, and tabs whose lookups by id are unambiguous.
GridInv == GridTypeOK /\ TabsAreWellFormed

Face(row) == <<row.data, row.status>>

\* Discarding a selection restores its rows and no others: the positions the filter shifted
\* still name the rows the user selected (QueryResults.tsx handleDiscardSelection).
DiscardHitsItsSelection ==
    EditedAsMeant =>
        \A selected \in SUBSET (1..Len(Rows)) :
            LET rest == Discard(Rows, selected)
                restored(i) == <<Original(Rows[i]), "normal">>
            IN  [i \in 1..Len(rest) |-> Face(rest[i])]
                  = Drop([i \in 1..Len(Rows) |-> IF i \in selected THEN restored(i)
                                                 ELSE Face(Rows[i])],
                         selected \cap StagedAs(Rows, "staged-insert"))

\* Staged changes of a result are lost only by a handler of the grid while the result is on
\* screen, by closing the result's tab, or by leaving it for another editor tab (the sweep
\* takes the results of another tab for closed): a sibling in the same editor tab keeps its
\* own through every query and every change of the result on screen. And while changes are
\* under review no handler and no answer takes any of them back or adds an edit or a new row:
\* only the Delete key adds to them (useRowSelection.ts), and an answer that brings another
\* result to the screen ends the review.
StagedChangesStay ==
    [][/\ \A r \in mounted :
            \/ displayRows'[r] = displayRows[r]
            \/ activeTab' # activeTab
            \/ r = shown /\ UNCHANGED tabVars
            \/ StagedIn(displayRows[r]) = {}
            \/ \A t \in QueryTabs : r \notin Range(resultTabs'[t])
       /\ preview /\ preview' =>
            /\ generateUpdateSQL(Rows') = generateUpdateSQL(Rows)
            /\ generateInsertSQL(Rows') = generateInsertSQL(Rows)
            /\ Range(generateDeleteSQL(Rows)) \subseteq Range(generateDeleteSQL(Rows'))]_allVars
=============================================================================
