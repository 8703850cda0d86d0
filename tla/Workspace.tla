----------------------------- MODULE Workspace ------------------------------
(***************************************************************************)
(* What the editor page shows and knows of the database: the URL and its   *)
(* defaults (src/hooks/useEditorNavigation.ts), the answers kept by        *)
(* React Query (src/hooks/useQuery.ts), the schema store that completion   *)
(* reads (src/lib/schema-store.ts, filled by src/hooks/useSchemaStoreSync) *)
(* and the handlers of server/services/query-service.ts that list a        *)
(* database's objects.                                                     *)
(*                                                                         *)
(* One step is one commit of React with all of its effects (Render), one   *)
(* answer, or one gesture of the user. The rows of an answer are           *)
(* abstracted to their origin, the database they were read from: what a    *)
(* database holds does not change here. React Query is external; a query's *)
(* data stays cached (no garbage collection), no data is ever fresh.       *)
(***************************************************************************)
EXTENDS Naturals, Sequences, Functions

CONSTANTS
    Connections,  \* sequence: the connections, in the order of the list
    Databases,    \* the databases a URL may name
    Default,      \* the empty string: the connection's configured database
    Public,       \* the schema named public
    Holds,        \* external: [conn, db] -> sequence of [name, objects], by name, where
                  \* objects is a sequence of [type, name]; only the databases that the
                  \* connection lets a request select are in its domain
    Links,        \* bound: the URLs a user opens by hand, or by back and forward
    MaxMoves,     \* bound: gestures of the user
    None

Scope == [conn : Range(Connections), db : Databases]

TableTypes == {"table", "view"}
TableLike == TableTypes \cup {"materialized_view"}

SchemaNames == {s.name : s \in UNION {Range(Holds[x]) : x \in DOMAIN Holds}}
Objects == UNION {Range(s.objects) : s \in UNION {Range(Holds[x]) : x \in DOMAIN Holds}}

ObjectNames == {o.name : o \in Objects}

URL(conn, db, schema, object) == [conn |-> conn, db |-> db, schema |-> schema, object |-> object]

ASSUME WorkspaceAssumption ==
    /\ 1 \in DOMAIN Connections /\ DOMAIN Holds \subseteq Scope
    /\ \A x \in DOMAIN Holds : /\ Holds[x] \in Seq(Range(Holds[x]))
                               /\ \A s \in Range(Holds[x]) : s.objects \in Seq(Range(s.objects))
    /\ \A u \in Links : u = URL(u.conn, u.db, u.schema, u.object) /\ u.db \in Databases
    /\ Default \in Databases /\ MaxMoves \in Nat
    /\ \A o \in Objects : o.type \in TableLike \cup {"function", "procedure"}

VARIABLES
    url,      \* the search parameters of the page
    view,     \* what the last commit rendered
    due,      \* a commit is due
    seen,     \* prevConnectionIdRef and prevDatabaseRef
    cached,   \* the keys React Query has data for
    fetching, \* the keys it has a request out for
    store,    \* schemaStore
    asked,    \* requests of ensureColumns that are out
    moves     \* gestures and failures so far

navVars == <<url, view, due, seen>>
vars == <<navVars, cached, fetching, store, asked, moves>>

-----------------------------------------------------------------------------
(* The server: what a database lists. A request for a database that the    *)
(* connection does not let it select fails.                                *)

\* The rows of a schema; a schema that is not there has none.
Contents(scope, s) ==
    LET found == {x \in Range(Holds[scope]) : x.name = s}
    IN IF found = {} THEN <<>> ELSE (CHOOSE x \in found : TRUE).objects

GetSchemas == [scope \in DOMAIN Holds |-> [i \in DOMAIN Holds[scope] |-> Holds[scope][i].name]]

\* information_schema.tables: no materialized view.
GetTables == [scope \in DOMAIN Holds |-> [s \in SchemaNames |->
    {o \in Range(Contents(scope, s)) : o.type \in TableTypes}]]

\* The first of the list: tables come before views.
FirstTable == [scope \in DOMAIN Holds |-> [s \in SchemaNames |->
    LET contents == Contents(scope, s)
        OfType(t) == {i \in DOMAIN contents : contents[i].type = t}
        first == IF OfType("table") # {} THEN OfType("table") ELSE OfType("view")
    IN contents[CHOOSE i \in first : \A j \in first : i <= j]]]

\* What the other lists of the sidebar hold.
GetMaterializedViews == [scope \in DOMAIN Holds |-> [s \in SchemaNames |->
    {o \in Range(Contents(scope, s)) : o.type = "materialized_view"}]]
GetFunctions == [scope \in DOMAIN Holds |-> [s \in SchemaNames |->
    {o \in Range(Contents(scope, s)) : o.type = "function"}]]
GetProcedures == [scope \in DOMAIN Holds |-> [s \in SchemaNames |->
    {o \in Range(Contents(scope, s)) : o.type = "procedure"}]]

-----------------------------------------------------------------------------
(* The keys of React Query. Procedures and materialized views are asked    *)
(* for exactly as functions are.                                           *)

SchemasKey(scope) == [kind |-> "schemas", scope |-> scope, schema |-> None, table |-> None]
TablesKey(scope, s) == [kind |-> "tables", scope |-> scope, schema |-> s, table |-> None]
FunctionsKey(scope, s) == [kind |-> "functions", scope |-> scope, schema |-> s, table |-> None]
ColumnsKey(scope, s, t) == [kind |-> "columns", scope |-> scope, schema |-> s, table |-> t]

Keys == [kind : {"schemas", "tables", "functions", "columns"}, scope : Scope,
         schema : SchemaNames \cup {None}, table : ObjectNames \cup {None}]

ScopeOf(v) == [conn |-> v.conn, db |-> v.db]

\* The keys that the mounted components observe: the page and the sidebar, and the panel
\* beside the editor, which is open and shows the columns of the selected table.
Observed(v) ==
    {SchemasKey(ScopeOf(v))}
    \cup {k \in {TablesKey(ScopeOf(v), v.schema), FunctionsKey(ScopeOf(v), v.schema)} : v.schema # None}
    \cup {ColumnsKey(ScopeOf(v), v.schema, o.name) : o \in {v.object} \cap [type : TableLike, name : ObjectNames]}

-----------------------------------------------------------------------------
(* schemaStore *)

EmptyStore == [conn |-> None, db |-> None, selectedSchema |-> None, selectedTable |-> None,
               schemas |-> {}, lists |-> {}, columns |-> {}]

SetConnection(st, scope) ==
    IF st.conn = scope.conn /\ st.db = scope.db THEN st
    ELSE [EmptyStore EXCEPT !.conn = scope.conn, !.db = scope.db]

\* lists and columns hold, for each schema and table, where their rows were read.
Replace(entries, new) ==
    new \cup {x \in entries :
                  \A e \in new : <<x.kind, x.schema, x.table>> # <<e.kind, e.schema, e.table>>}

SetColumns(st, keys) == [st EXCEPT !.columns = Replace(@, keys)]

\* Mutant. The subscription does not look at the database of a key.
Received_AnyDatabase(st, v, keys) ==
    LET read == {k \in keys : v.schemas # None /\ k.scope.conn = v.conn}
        rows == {k \in read : k.kind \in {"tables", "functions"}}
    IN SetColumns([st EXCEPT !.schemas = @ \cup {k.schema : k \in rows}, !.lists = Replace(@, rows)],
                  {k \in read : k.kind = "columns"})

\* The subscription of useSchemaStoreSync, made by the commit that rendered v: what it
\* does with queries that have been updated and have data.
Received(st, v, keys) ==
    LET read == {k \in keys : v.schemas # None /\ k.scope = ScopeOf(v)}
        rows == {k \in read : k.kind \in {"tables", "functions"}}
    IN SetColumns([st EXCEPT !.schemas = @ \cup {k.schema : k \in rows}, !.lists = Replace(@, rows)],
                  {k \in read : k.kind = "columns"})

-----------------------------------------------------------------------------
(* useEditorNavigation: what the page shows for a URL and for what React   *)
(* Query has.                                                              *)

Known(c) == c \in Range(Connections)

\* AppLayout: a connection that is not in the list falls back to the first.
SelectedConnection(u) == IF Known(u.conn) THEN u.conn ELSE Connections[1]

\* Mutant. The schema of the URL is taken on trust.
EffectiveSchema_Trusted(u, schemas) ==
    IF u.schema # None THEN u.schema
    ELSE IF schemas = <<>> THEN None
    ELSE IF Public \in Range(schemas) THEN Public
    ELSE schemas[1]

EffectiveSchema(u, schemas) ==
    IF u.schema \in Range(schemas) THEN u.schema
    ELSE IF schemas = <<>> THEN None
    ELSE IF Public \in Range(schemas) THEN Public
    ELSE schemas[1]

\* Mutant. Functions are looked for in the list of tables.
EffectiveObject_InTables(u, scope, schema, tables) ==
    IF schema = None THEN None
    ELSE IF u.object # None /\ \E t \in tables : t.name = u.object.name THEN u.object
    ELSE IF tables # {} THEN FirstTable[scope][schema]
    ELSE None

\* Functions are trusted; a table or view must be in the list, by name; otherwise the
\* first table, or the first view.
EffectiveObject(u, scope, schema, tables) ==
    LET trusted == u.object.type \in {"function", "procedure"} IN
    IF schema = None THEN None
    ELSE IF u.object # None /\ (trusted \/ \E t \in tables : t.name = u.object.name) THEN u.object
    ELSE IF tables # {} THEN FirstTable[scope][schema]
    ELSE None

\* What a commit renders.
Rendered(u) ==
    LET scope == [conn |-> SelectedConnection(u), db |-> u.db]
        schemas == IF SchemasKey(scope) \in cached THEN GetSchemas[scope] ELSE None
        schema == EffectiveSchema(u, IF schemas = None THEN <<>> ELSE schemas)
        tables == IF schema # None /\ TablesKey(scope, schema) \in cached
                  THEN GetTables[scope][schema] ELSE {}
    IN [conn |-> scope.conn, db |-> scope.db, schemas |-> schemas, schema |-> schema,
        object |-> EffectiveObject(u, scope, schema, tables)]

\* The requests that a commit sends: for the keys its components begin to observe.
Requested(v) == Observed(v) \ Observed(view)

\* isSchemasLoading and isTablesLoading, for what this commit shows.
Loading(v, key) == key \notin cached /\ key \in fetching \cup Requested(v)

\* The effect that writes the URL, and then the one of AppLayout that replaces a
\* connection that does not exist; w is the URL with which the commit was rendered.
ConnectionChanged(v) == seen.conn # None /\ seen.conn # v.conn
DatabaseChanged(v) == seen.db # None /\ seen.db # v.db

NeedsSchema(v, w) == v.schema # None /\ v.schema # w.schema
\* Mutant. The object is written whether or not the URL has it already.
NeedsObject_Always(v, w) ==
    v.object # None /\ ~Loading(v, TablesKey(ScopeOf(v), v.schema))

NeedsObject(v, w) ==
    v.object # None /\ v.object # w.object /\ ~Loading(v, TablesKey(ScopeOf(v), v.schema))

\* Whether an effect navigates at all: a navigation to the same URL renders again too.
Navigates(v, w) ==
    \/ ~Known(w.conn)
    \/ /\ ~Loading(v, SchemasKey(ScopeOf(v)))
       /\ ConnectionChanged(v) \/ DatabaseChanged(v) \/ NeedsSchema(v, w) \/ NeedsObject(v, w)

WrittenURL(v, w) ==
    LET cleared == URL(IF w.conn = None THEN v.conn ELSE w.conn,
                       IF ConnectionChanged(v) THEN Default ELSE v.db, None, None)
        defaults == [w EXCEPT !.schema = IF NeedsSchema(v, w) THEN v.schema ELSE @,
                              !.object = IF NeedsObject(v, w) THEN v.object ELSE @]
    IN IF ~Known(w.conn) THEN URL(Connections[1], Default, None, None)
       ELSE IF ConnectionChanged(v) \/ DatabaseChanged(v) THEN cleared
       ELSE defaults

\* The effects on the store, in order: useSchemaStoreSync's, then the one of
\* SQLEditorLayout, then the refetch that the page's own observer of the tables begins,
\* which reports the rows it already has.
SyncedStore(v) ==
    LET tables == TablesKey(ScopeOf(v), v.schema)
        fresh == v.schemas # None /\ <<ScopeOf(v), v.schemas>> # <<ScopeOf(view), view.schemas>>
    IN [SetConnection(store, ScopeOf(v)) EXCEPT
          !.selectedSchema = IF v.schema \notin {None, view.schema} THEN v.schema ELSE @,
          !.schemas = IF fresh THEN @ \cup Range(v.schemas) ELSE @,
          !.selectedTable =
             IF v.object = None \/ <<v.schema, v.object>> = <<view.schema, view.object>> THEN @
             ELSE IF v.object.type \in TableLike THEN [schema |-> v.schema, name |-> v.object.name]
             ELSE None,
          !.lists = Replace(@, {tables} \cap Requested(v) \cap cached)]

\* The requests a commit sends. The prefetchQuery calls of useSchemaStoreSync name no
\* function to fetch with: React Query sends nothing for a key that nothing observes.
Render == \E v \in {Rendered(url)} :
    /\ due
    /\ view' = v
    /\ store' = SyncedStore(v)
    /\ fetching' = fetching \cup Requested(v)
    /\ url' = IF Navigates(v, url) THEN WrittenURL(v, url) ELSE url
    /\ due' = Navigates(v, url)
    /\ seen' = IF Loading(v, SchemasKey(ScopeOf(v))) THEN seen ELSE ScopeOf(v)
    /\ UNCHANGED <<cached, asked, moves>>

\* A request is answered; the page renders again if it observes the key. The subscription
\* is the one that the last commit made.
Answered(key) ==
    /\ key \in fetching
    /\ key.scope \in DOMAIN Holds
    /\ cached' = cached \cup {key}
    /\ store' = Received(store, view, {key})
    /\ fetching' = fetching \ {key}
    /\ due' = (due \/ key \in Observed(view))
    /\ UNCHANGED <<url, view, seen, asked, moves>>

\* Both attempts at a request fail; what is cached stays. The server refuses a database
\* that the connection may not select.
Failed(key) ==
    /\ key \in fetching
    /\ IF key.scope \in DOMAIN Holds THEN moves < MaxMoves /\ moves' = moves + 1
       ELSE UNCHANGED moves
    /\ fetching' = fetching \ {key}
    /\ due' = (due \/ key \in Observed(view))
    /\ UNCHANGED <<url, view, seen, cached, store, asked>>

-----------------------------------------------------------------------------
(* Completion asks for the columns of a table that the store lists, of the *)
(* connection, without naming the database.                                *)

AskColumns(l, t) ==
    LET key == ColumnsKey([conn |-> store.conn, db |-> Default], l.schema, t.name) IN
    /\ l.kind = "tables"
    /\ ~\E c \in store.columns : c.schema = l.schema /\ c.table = t.name
    /\ key \notin asked
    /\ moves < MaxMoves /\ moves' = moves + 1
    /\ asked' = asked \cup {key}
    /\ UNCHANGED <<navVars, cached, fetching, store>>

ColumnsArrive(key) ==
    /\ key \in asked
    /\ asked' = asked \ {key}
    /\ store' = SetColumns(store, {key})
    /\ UNCHANGED <<navVars, cached, fetching, moves>>

ColumnsFail(key) ==
    /\ key \in asked
    /\ asked' = asked \ {key}
    /\ UNCHANGED <<navVars, cached, fetching, store, moves>>

-----------------------------------------------------------------------------
(* The user.                                                               *)

GoTo(u) ==
    /\ moves < MaxMoves /\ moves' = moves + 1
    /\ url' = u /\ due' = TRUE
    /\ UNCHANGED <<view, seen, cached, fetching, store, asked>>

SwitchConnection(c) ==
    /\ view.conn \notin {c, None}
    /\ GoTo(URL(c, Default, None, None))

\* DatabaseSwitcher lists the databases that the connection lets it select.
SwitchDatabase(d) ==
    /\ d # view.db /\ [conn |-> view.conn, db |-> d] \in DOMAIN Holds
    /\ GoTo([url EXCEPT !.db = d, !.schema = None, !.object = None])

SelectSchema(s) ==
    /\ view.schemas # None /\ s \in Range(view.schemas)
    /\ GoTo([url EXCEPT !.schema = s, !.object = None])

\* The objects of the sidebar; materialized views have a list of their own.
InSidebar ==
    IF view.schema = None THEN {}
    ELSE {o \in GetTables[ScopeOf(view)][view.schema] :
              TablesKey(ScopeOf(view), view.schema) \in cached}
         \cup {o \in GetFunctions[ScopeOf(view)][view.schema]
                       \cup GetProcedures[ScopeOf(view)][view.schema]
                       \cup GetMaterializedViews[ScopeOf(view)][view.schema] :
              FunctionsKey(ScopeOf(view), view.schema) \in cached}

SelectObject(o) == GoTo([url EXCEPT !.object = o])

\* Back, forward, a link or a URL typed by hand.
OpenLink(u) == u # url /\ GoTo(u)

\* ObjectSidebar's refresh button, disabled while a refetch runs: the observed queries of
\* the connection ask again, and report the rows they have as they start.
Refresh ==
    LET again == Observed(view) IN
    /\ view.conn # None /\ ~\E k \in again : k \in cached \cap fetching
    /\ moves < MaxMoves /\ moves' = moves + 1
    /\ fetching' = fetching \cup again
    /\ store' = Received(store, view, again \cap cached)
    /\ due' = TRUE
    /\ UNCHANGED <<url, view, seen, cached, asked>>

-----------------------------------------------------------------------------
Init ==
    /\ url \in Links
    /\ view = [conn |-> None, db |-> None, schemas |-> None, schema |-> None, object |-> None]
    /\ due = TRUE
    /\ seen = [conn |-> None, db |-> None]
    /\ cached = {} /\ fetching = {} /\ asked = {}
    /\ store = EmptyStore
    /\ moves = 0

Next ==
    \/ Render
    \/ \E key \in fetching : Answered(key) \/ Failed(key)
    \/ \E l \in store.lists : \E t \in GetTables[l.scope][l.schema] : AskColumns(l, t)
    \/ \E key \in asked : ColumnsArrive(key) \/ ColumnsFail(key)
    \/ \E c \in Range(Connections) : SwitchConnection(c)
    \/ \E d \in Databases : SwitchDatabase(d)
    \/ \E s \in SchemaNames : SelectSchema(s)
    \/ \E o \in InSidebar : SelectObject(o)
    \/ \E u \in Links : OpenLink(u)
    \/ Refresh

Spec == Init /\ [][Next]_vars

\* React commits what is due, and a request is answered or fails.
FairSpec ==
    /\ Spec
    /\ WF_vars(Render)
    /\ WF_fetching(\E key \in fetching : Answered(key) \/ Failed(key))
-----------------------------------------------------------------------------
(* Properties. *)

StoreScope == [conn |-> store.conn, db |-> store.db]

WorkspaceTypeOK ==
    /\ url.db \in Databases
    /\ due \in BOOLEAN /\ moves \in 0..MaxMoves
    /\ cached \subseteq Keys /\ fetching \subseteq Keys
    /\ \A k \in asked \cup store.columns : k.kind = "columns" /\ k.scope \in Scope
    /\ store.lists \subseteq Keys /\ store.schemas \subseteq SchemaNames

\* The tables and functions of the store were read from the database the store is scoped
\* to, whatever answers were still out when the user changed it; so are the columns, except
\* for those that completion asked for itself.
StoreIsOfItsScope ==
    /\ \A l \in store.lists : l.scope = StoreScope
    /\ \A c \in store.columns : c.scope = StoreScope \/ c.scope.db = Default

\* The invariant: types, and the scope of the store.
WorkspaceInv == WorkspaceTypeOK /\ StoreIsOfItsScope

\* The schema and the table that completion takes for granted exist in that database: they
\* come from a URL, which may still name those of the database before.
SelectionExists ==
    StoreScope \in DOMAIN Holds =>
        /\ store.selectedSchema \in Range(GetSchemas[StoreScope]) \cup {None}
        /\ store.selectedTable # None =>
               \E o \in Range(Contents(StoreScope, store.selectedTable.schema)) :
                   o.name = store.selectedTable.name /\ o.type \in TableLike

\* No default replaces a table, view, function or procedure that the URL names and that
\* exists in the schema shown, unless the page has just changed connection or database.
ExistingObjectStays ==
    [][LET shown == ScopeOf(view') IN
       (/\ url.object # None /\ Known(url.conn) /\ moves' = moves
        /\ seen.conn \in {None, shown.conn} /\ seen.db \in {None, shown.db}
        /\ view'.schema # None
        /\ url.object \in Range(Contents(shown, view'.schema))
        /\ url.object.type # "materialized_view")
       => url'.object = url.object]_vars

\* In the end the URL, the page and the store name the same database, schema and object:
\* writing defaults into the URL and clearing it on a change never chase each other.
Agrees ==
    /\ ~due
    /\ ScopeOf(view) = StoreScope /\ url.db = view.db /\ url.conn = view.conn
    /\ view.schema # None => url.schema = view.schema
    /\ view.object # None => url.object = view.object

NavigationSettles == <>[]Agrees

=============================================================================
