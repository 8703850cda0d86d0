--------------------------- MODULE WorkspaceProofs ---------------------------
(***************************************************************************)
(* What completion knows is of the database the page shows, whatever       *)
(* answers were out when the user changed it.  The argument: the store is  *)
(* scoped by the commit that made the subscription, and the subscription   *)
(* takes only what was read from that scope. What is shown, and so selected,  *)
(* was found in a list of that scope; the defaults spare what a list holds.  *)
(***************************************************************************)
EXTENDS Workspace, SequenceTheorems, WellFoundedInduction, TLAPS

URLShape == url = URL(url.conn, url.db, url.schema, url.object)

StoreShape(st) ==
    st = [conn |-> st.conn, db |-> st.db, selectedSchema |-> st.selectedSchema,
          selectedTable |-> st.selectedTable, schemas |-> st.schemas, lists |-> st.lists,
          columns |-> st.columns]

\* A commit, v, of a connection and a database there are, and of a schema that was listed.
Legal(v) == ScopeOf(v) \in Scope /\ v.schema \in SchemaNames \cup {None}

\* The lists asked for and answered are of a schema.
OfASchema(keys) == \A k \in keys : k.kind \in {"tables", "functions"} => k.schema \in SchemaNames

\* A store whose content is of its scope, except for what completion asked for itself.
Scoped(st) ==
    /\ StoreShape(st)
    /\ st.schemas \subseteq SchemaNames /\ st.lists \subseteq Keys
    /\ \A l \in st.lists : l.scope = ScopeOf(st)
    /\ \A c \in st.columns : /\ c.kind = "columns" /\ c.scope \in Scope
                             /\ c.scope = ScopeOf(st) \/ c.scope.db = Default

\* The inductive invariant: the store is of the scope of the last commit.
WInv ==
    /\ URLShape /\ url.db \in Databases
    /\ due \in BOOLEAN /\ moves \in 0..MaxMoves
    /\ cached \subseteq Keys /\ fetching \subseteq Keys /\ OfASchema(cached \cup fetching)
    /\ \A k \in cached : k.scope \in DOMAIN Holds
    /\ view.conn = None \/ Legal(view)
    /\ Scoped(store) /\ ScopeOf(store) = ScopeOf(view)
    /\ \A k \in asked : k.kind = "columns" /\ k.scope \in Scope /\ k.scope.db = Default

\* The invariant that the run checks follows.
LEMMA Implied == WInv => WorkspaceInv
BY DEF WInv, WorkspaceInv, WorkspaceTypeOK, StoreIsOfItsScope, Scoped, StoreScope, ScopeOf

-----------------------------------------------------------------------------
(* What a commit renders.                                                  *)

\* The schema shown is one of those listed.
LEMMA EffectiveSchemaListed ==
    ASSUME NEW u, NEW schemas \in Seq(SchemaNames)
    PROVE  EffectiveSchema(u, schemas) \in SchemaNames \cup {None}
<1>1. Range(schemas) \subseteq SchemaNames
  BY DEF Range
<1>2. schemas # <<>> => schemas[1] \in SchemaNames
  <2>1. schemas # <<>> => Len(schemas) \in Nat /\ Len(schemas) # 0 /\ DOMAIN schemas = 1..Len(schemas)
    BY EmptySeq, LenProperties
  <2> QED BY <2>1
<1> QED BY <1>1, <1>2 DEF EffectiveSchema

\* What the server lists of a database are names of schemas.
LEMMA SchemasTyped ==
    ASSUME WorkspaceAssumption, NEW scope \in DOMAIN Holds
    PROVE  GetSchemas[scope] \in Seq(SchemaNames)
<1>1. Holds[scope] \in Seq(Range(Holds[scope]))
  BY DEF WorkspaceAssumption
<1>2. GetSchemas[scope] = [i \in DOMAIN Holds[scope] |-> Holds[scope][i].name]
  BY DEF GetSchemas
<1>3. \A i \in DOMAIN Holds[scope] : Holds[scope][i].name \in SchemaNames
  BY DEF SchemaNames, Range
<1>4. DOMAIN Holds[scope] = 1..Len(Holds[scope]) /\ Len(Holds[scope]) \in Nat
  BY <1>1, LenProperties
<1> QED BY <1>2, <1>3, <1>4

\* A commit shows a connection of the list, the database of the URL and a listed schema.
LEMMA RenderedLegal ==
    ASSUME WorkspaceAssumption, WInv
    PROVE  /\ Legal(Rendered(url)) /\ Rendered(url).db = url.db
           /\ Rendered(url).schemas # None => Range(Rendered(url).schemas) \subseteq SchemaNames
<1> DEFINE scope == [conn |-> SelectedConnection(url), db |-> url.db]
           schemas == IF SchemasKey(scope) \in cached THEN GetSchemas[scope] ELSE None
           known == IF schemas = None THEN <<>> ELSE schemas
           v == Rendered(url)
<1>1. SelectedConnection(url) \in Range(Connections)
  BY DEF SelectedConnection, Known, Range, WorkspaceAssumption
<1>2. /\ v.conn = SelectedConnection(url) /\ v.db = url.db /\ v.schemas = schemas
      /\ v.schema = EffectiveSchema(url, known)
  BY DEF Rendered
<1>3. scope \in Scope /\ ScopeOf(v) = scope
  BY <1>1, <1>2 DEF Scope, ScopeOf, WInv
<1>4. schemas # None => schemas \in Seq(SchemaNames)
  <2>1. ASSUME SchemasKey(scope) \in cached PROVE scope \in DOMAIN Holds
    BY <2>1 DEF SchemasKey, WInv
  <2> QED BY <2>1, SchemasTyped
<1>5. known \in Seq(SchemaNames)
  BY <1>4
<1>6. v.schema \in SchemaNames \cup {None}
  BY <1>2, <1>5, EffectiveSchemaListed
<1>7. v.schemas # None => Range(v.schemas) \subseteq SchemaNames
  BY <1>2, <1>4 DEF Range
<1> QED BY <1>2, <1>3, <1>6, <1>7 DEF Legal

\* The keys that a commit observes are of its scope.
LEMMA ObservedTyped ==
    ASSUME NEW v, Legal(v)
    PROVE  /\ Observed(v) \subseteq Keys /\ OfASchema(Observed(v))
           /\ \A k \in Observed(v) : k.scope = ScopeOf(v)
<1>1. ScopeOf(v) \in Scope
  BY DEF Legal
<1>2. SchemasKey(ScopeOf(v)) \in Keys
  BY <1>1 DEF SchemasKey, Keys
<1>3. ASSUME v.schema # None
      PROVE  /\ v.schema \in SchemaNames
             /\ TablesKey(ScopeOf(v), v.schema) \in Keys /\ FunctionsKey(ScopeOf(v), v.schema) \in Keys
  BY <1>1, <1>3 DEF Legal, TablesKey, FunctionsKey, Keys
<1>4. ASSUME NEW n \in ObjectNames
      PROVE  ColumnsKey(ScopeOf(v), v.schema, n) \in Keys
  BY <1>1 DEF Legal, ColumnsKey, Keys
<1>5. Observed(v) \subseteq Keys
  BY <1>2, <1>3, <1>4 DEF Observed
<1>6. OfASchema(Observed(v))
  BY <1>3 DEF Observed, OfASchema, SchemasKey, TablesKey, FunctionsKey, ColumnsKey
<1>7. \A k \in Observed(v) : k.scope = ScopeOf(v)
  BY DEF Observed, SchemasKey, TablesKey, FunctionsKey, ColumnsKey
<1> QED BY <1>5, <1>6, <1>7

\* What the effects write into the URL.
LEMMA WrittenTyped ==
    ASSUME WorkspaceAssumption, WInv, NEW v, v.db = url.db
    PROVE  \E c, s, o : \E d \in Databases : WrittenURL(v, url) = URL(c, d, s, o)
<1>1. url = URL(url.conn, url.db, url.schema, url.object) /\ url.db \in Databases /\ Default \in Databases
  BY DEF WInv, URLShape, WorkspaceAssumption
<1>2. CASE ~Known(url.conn)
  BY <1>1, <1>2 DEF WrittenURL
<1>3. CASE Known(url.conn) /\ (ConnectionChanged(v) \/ DatabaseChanged(v))
  BY <1>1, <1>3 DEF WrittenURL
<1>4. CASE Known(url.conn) /\ ~(ConnectionChanged(v) \/ DatabaseChanged(v))
  <2> DEFINE s == IF NeedsSchema(v, url) THEN v.schema ELSE url.schema
             o == IF NeedsObject(v, url) THEN v.object ELSE url.object
  <2>1. WrittenURL(v, url) = [url EXCEPT !.schema = s, !.object = o]
    BY <1>4 DEF WrittenURL
  <2> HIDE DEF s, o
  <2>2. WrittenURL(v, url) = URL(url.conn, url.db, s, o)
    BY <1>1, <2>1 DEF URL
  <2> QED BY <1>1, <2>2
<1> QED BY <1>2, <1>3, <1>4

-----------------------------------------------------------------------------
(* What the store takes.                                                   *)

\* Replacing entries adds nothing but the new ones.
LEMMA Replaced ==
    ASSUME NEW entries, NEW new
    PROVE  Replace(entries, new) \subseteq entries \cup new
BY DEF Replace

\* The subscription takes what was read from the scope of its commit.
LEMMA ReceivedScoped ==
    ASSUME NEW st, Scoped(st), NEW v, ScopeOf(v) = ScopeOf(st),
           NEW keys, keys \subseteq Keys, OfASchema(keys)
    PROVE  Scoped(Received(st, v, keys)) /\ ScopeOf(Received(st, v, keys)) = ScopeOf(st)
<1> DEFINE read == {k \in keys : v.schemas # None /\ k.scope = ScopeOf(v)}
           rows == {k \in read : k.kind \in {"tables", "functions"}}
           new == {k \in read : k.kind = "columns"}
           r == Received(st, v, keys)
<1>1. r = [conn |-> st.conn, db |-> st.db, selectedSchema |-> st.selectedSchema,
           selectedTable |-> st.selectedTable, schemas |-> st.schemas \cup {k.schema : k \in rows},
           lists |-> Replace(st.lists, rows), columns |-> Replace(st.columns, new)]
  <2> DEFINE schemas == st.schemas \cup {k.schema : k \in rows}
             lists == Replace(st.lists, rows)
             columns == Replace(st.columns, new)
  <2>1. r = [[st EXCEPT !.schemas = schemas, !.lists = lists] EXCEPT !.columns = Replace(@, new)]
    BY DEF Received, SetColumns
  <2>2. StoreShape(st)
    BY DEF Scoped
  <2> HIDE DEF schemas, lists, rows, new, r
  <2>3. r = [conn |-> st.conn, db |-> st.db, selectedSchema |-> st.selectedSchema,
             selectedTable |-> st.selectedTable, schemas |-> schemas, lists |-> lists, columns |-> columns]
    BY <2>1, <2>2 DEF StoreShape
  <2> QED BY <2>3 DEF schemas, lists
<1>2. /\ StoreShape(r) /\ ScopeOf(r) = ScopeOf(st)
      /\ r.schemas = st.schemas \cup {k.schema : k \in rows}
      /\ r.lists \subseteq st.lists \cup rows /\ r.columns \subseteq st.columns \cup new
  BY <1>1, Replaced DEF StoreShape, ScopeOf
<1>3. r.schemas \subseteq SchemaNames
  BY <1>2 DEF OfASchema, Scoped
<1>4. rows \subseteq Keys /\ \A k \in rows : k.scope = ScopeOf(st)
  OBVIOUS
<1>5. \A k \in new : k.kind = "columns" /\ k.scope \in Scope /\ k.scope = ScopeOf(st)
  BY DEF Keys
<1>6. r.lists \subseteq Keys /\ \A l \in r.lists : l.scope = ScopeOf(r)
  BY <1>2, <1>4 DEF Scoped
<1>7. \A c \in r.columns : /\ c.kind = "columns" /\ c.scope \in Scope
                           /\ c.scope = ScopeOf(r) \/ c.scope.db = Default
  BY <1>2, <1>5 DEF Scoped
<1> QED BY <1>2, <1>3, <1>6, <1>7 DEF Scoped

\* A commit scopes the store to what it shows.
LEMMA SyncedScoped ==
    ASSUME WorkspaceAssumption, WInv, NEW v, Legal(v),
           v.schemas # None => Range(v.schemas) \subseteq SchemaNames
    PROVE  Scoped(SyncedStore(v)) /\ ScopeOf(SyncedStore(v)) = ScopeOf(v)
<1> DEFINE tables == TablesKey(ScopeOf(v), v.schema)
           new == {tables} \cap Requested(v) \cap cached
           base == SetConnection(store, ScopeOf(v))
           r == SyncedStore(v)
<1>1. Scoped(base) /\ ScopeOf(base) = ScopeOf(v)
  <2>1. CASE store.conn = ScopeOf(v).conn /\ store.db = ScopeOf(v).db
    BY <2>1 DEF SetConnection, WInv, ScopeOf
  <2>2. CASE ~(store.conn = ScopeOf(v).conn /\ store.db = ScopeOf(v).db)
    <3>1. base = [EmptyStore EXCEPT !.conn = ScopeOf(v).conn, !.db = ScopeOf(v).db]
      BY <2>2 DEF SetConnection
    <3>2. base = [conn |-> v.conn, db |-> v.db, selectedSchema |-> None, selectedTable |-> None,
                  schemas |-> {}, lists |-> {}, columns |-> {}]
      BY <3>1 DEF EmptyStore, ScopeOf
    <3> QED BY <3>2 DEF Scoped, StoreShape, ScopeOf
  <2> QED BY <2>1, <2>2
<1>2. StoreShape(base)
  BY <1>1 DEF Scoped
<1> HIDE DEF base
<1>3. /\ StoreShape(r) /\ r.conn = base.conn /\ r.db = base.db
      /\ r.lists = Replace(base.lists, new) /\ r.columns = base.columns
      /\ r.schemas \subseteq base.schemas \cup SchemaNames
  <2> DEFINE fresh == v.schemas # None /\ <<ScopeOf(v), v.schemas>> # <<ScopeOf(view), view.schemas>>
             chosen == IF v.schema \notin {None, view.schema} THEN v.schema ELSE base.selectedSchema
             schemas == IF fresh THEN base.schemas \cup Range(v.schemas) ELSE base.schemas
             selected ==
               IF v.object = None \/ <<v.schema, v.object>> = <<view.schema, view.object>>
                 THEN base.selectedTable
               ELSE IF v.object.type \in TableLike THEN [schema |-> v.schema, name |-> v.object.name]
               ELSE None
             lists == Replace(base.lists, new)
  <2>1. r = [base EXCEPT !.selectedSchema = chosen, !.schemas = schemas, !.selectedTable = selected,
                         !.lists = lists]
    BY DEF SyncedStore, base
  <2>2. schemas \subseteq base.schemas \cup SchemaNames
    OBVIOUS
  <2> HIDE DEF chosen, schemas, selected, lists
  <2>3. r = [conn |-> base.conn, db |-> base.db, selectedSchema |-> chosen, selectedTable |-> selected,
             schemas |-> schemas, lists |-> lists, columns |-> base.columns]
    BY <1>2, <2>1 DEF StoreShape
  <2> QED BY <2>2, <2>3 DEF StoreShape, lists
<1>4. new \subseteq Keys /\ \A k \in new : k.scope = ScopeOf(v)
  BY ObservedTyped DEF Requested
<1>5. ScopeOf(r) = ScopeOf(v)
  BY <1>1, <1>3 DEF ScopeOf
<1>6. r.lists \subseteq Keys /\ \A l \in r.lists : l.scope = ScopeOf(r)
  BY <1>1, <1>3, <1>4, <1>5, Replaced DEF Scoped
<1>7. \A c \in r.columns : /\ c.kind = "columns" /\ c.scope \in Scope
                           /\ c.scope = ScopeOf(r) \/ c.scope.db = Default
  BY <1>1, <1>3, <1>5 DEF Scoped
<1>8. r.schemas \subseteq SchemaNames
  BY <1>1, <1>3 DEF Scoped
<1> QED BY <1>3, <1>5, <1>6, <1>7, <1>8 DEF Scoped

-----------------------------------------------------------------------------
(* The steps.                                                              *)

\* A commit: the store follows it.
LEMMA RenderKeeps ==
    ASSUME WorkspaceAssumption, WInv, Render
    PROVE  WInv'
<1> DEFINE v == Rendered(url)
<1>1. /\ view' = v /\ store' = SyncedStore(v) /\ fetching' = fetching \cup Requested(v)
      /\ url' = (IF Navigates(v, url) THEN WrittenURL(v, url) ELSE url)
      /\ due' = Navigates(v, url) /\ UNCHANGED <<cached, asked, moves>>
  BY DEF Render
<1>2. /\ Legal(v) /\ v.db = url.db
      /\ v.schemas # None => Range(v.schemas) \subseteq SchemaNames
  BY RenderedLegal
<1> HIDE DEF v
<1>3. URLShape' /\ url'.db \in Databases
  <2>1. CASE Navigates(v, url)
    <3>1. PICK c, s, o : \E d \in Databases : url' = URL(c, d, s, o)
      BY <1>1, <1>2, <2>1, WrittenTyped
    <3> QED BY <3>1 DEF URLShape, URL
  <2> QED BY <1>1, <2>1 DEF WInv, URLShape
<1>4. due' \in BOOLEAN /\ moves' \in 0..MaxMoves
  BY <1>1 DEF Navigates, WInv
<1>5. Requested(v) \subseteq Keys /\ OfASchema(Requested(v))
  BY <1>2, ObservedTyped DEF Requested, OfASchema
<1>6. /\ cached' \subseteq Keys /\ fetching' \subseteq Keys /\ OfASchema(cached' \cup fetching')
      /\ \A k \in cached' : k.scope \in DOMAIN Holds
  BY <1>1, <1>5 DEF WInv, OfASchema
<1>7. Legal(view')
  BY <1>1, <1>2
<1>8. Scoped(store') /\ ScopeOf(store') = ScopeOf(view')
  BY <1>1, <1>2, SyncedScoped
<1>9. \A k \in asked' : k.kind = "columns" /\ k.scope \in Scope /\ k.scope.db = Default
  BY <1>1 DEF WInv
<1> QED BY <1>3, <1>4, <1>6, <1>7, <1>8, <1>9 DEF WInv, Legal, ScopeOf, Scoped, StoreShape, OfASchema


\* An answer: the subscription takes it if it is of the scope of the last commit.
LEMMA AnsweredKeeps ==
    ASSUME WInv, NEW key \in fetching, Answered(key)
    PROVE  WInv'
<1>1. /\ cached' = cached \cup {key} /\ fetching' = fetching \ {key}
      /\ store' = Received(store, view, {key}) /\ due' = (due \/ key \in Observed(view))
      /\ key.scope \in DOMAIN Holds /\ UNCHANGED <<url, view, seen, asked, moves>>
  BY DEF Answered
<1>2. key \in Keys /\ OfASchema({key}) /\ Scoped(store) /\ ScopeOf(view) = ScopeOf(store)
  BY DEF WInv, OfASchema
<1>3. Scoped(store') /\ ScopeOf(store') = ScopeOf(view')
  BY <1>1, <1>2, ReceivedScoped
<1>4. /\ cached' \subseteq Keys /\ fetching' \subseteq Keys /\ OfASchema(cached' \cup fetching')
      /\ \A k \in cached' : k.scope \in DOMAIN Holds
  BY <1>1 DEF WInv, OfASchema
<1>5. due' \in BOOLEAN
  BY <1>1 DEF WInv
<1> QED BY <1>1, <1>3, <1>4, <1>5 DEF WInv, URLShape, Legal, ScopeOf

\* A request that fails leaves what is cached and stored.
LEMMA FailedKeeps ==
    ASSUME WorkspaceAssumption, WInv, NEW key \in fetching, Failed(key)
    PROVE  WInv'
<1>1. /\ fetching' = fetching \ {key} /\ due' = (due \/ key \in Observed(view))
      /\ UNCHANGED <<url, view, seen, cached, store, asked>>
  BY DEF Failed
<1>2. moves' \in 0..MaxMoves
  BY DEF Failed, WInv, WorkspaceAssumption
<1> QED BY <1>1, <1>2 DEF WInv, URLShape, OfASchema, Legal, ScopeOf, Scoped, StoreShape

\* Refresh: the rows the observed queries have are reported again.
LEMMA RefreshKeeps ==
    ASSUME WorkspaceAssumption, WInv, Refresh
    PROVE  WInv'
<1> DEFINE again == Observed(view)
<1>1. /\ view.conn # None /\ moves' \in 0..MaxMoves /\ fetching' = fetching \cup again
      /\ store' = Received(store, view, again \cap cached) /\ due' = TRUE
      /\ UNCHANGED <<url, view, seen, cached, asked>>
  BY DEF Refresh, WInv, WorkspaceAssumption
<1>2. again \subseteq Keys /\ OfASchema(again)
  BY <1>1, ObservedTyped DEF WInv
<1> HIDE DEF again
<1>3. Scoped(store') /\ ScopeOf(store') = ScopeOf(view')
  <2>1. again \cap cached \subseteq Keys /\ OfASchema(again \cap cached)
    BY <1>2 DEF OfASchema
  <2>2. Scoped(store) /\ ScopeOf(view) = ScopeOf(store)
    BY DEF WInv
  <2> QED BY <1>1, <2>1, <2>2, ReceivedScoped
<1>4. fetching' \subseteq Keys /\ OfASchema(cached' \cup fetching')
  BY <1>1, <1>2 DEF WInv, OfASchema
<1> QED BY <1>1, <1>3, <1>4 DEF WInv, URLShape, Legal, ScopeOf

\* A step that counts a move stays within the bound.
LEMMA MovesCounted ==
    ASSUME WorkspaceAssumption, WInv, moves < MaxMoves, moves' = moves + 1
    PROVE  moves' \in 0..MaxMoves
BY DEF WorkspaceAssumption, WInv

\* Completion asks for columns of the configured database.
LEMMA AskKeeps ==
    ASSUME WorkspaceAssumption, WInv, NEW l \in store.lists, NEW t, AskColumns(l, t)
    PROVE  WInv'
<1> DEFINE key == ColumnsKey([conn |-> store.conn, db |-> Default], l.schema, t.name)
<1>1. /\ asked' = asked \cup {key} /\ moves < MaxMoves /\ moves' = moves + 1
      /\ UNCHANGED <<url, view, due, seen, cached, fetching, store>>
  BY DEF AskColumns, navVars
<1>2. moves' \in 0..MaxMoves
  BY <1>1, MovesCounted
<1>3. l \in Keys /\ l.scope = ScopeOf(store)
  BY DEF WInv, Scoped
<1>4. [conn |-> store.conn, db |-> Default] \in Scope
  <2>1. [conn |-> store.conn, db |-> store.db] \in Scope
    BY <1>3 DEF ScopeOf, Keys
  <2> QED BY <2>1 DEF Scope, WorkspaceAssumption
<1>5. key.kind = "columns" /\ key.scope \in Scope /\ key.scope.db = Default
  BY <1>4 DEF ColumnsKey
<1> HIDE DEF key
<1> QED BY <1>1, <1>2, <1>5 DEF WInv, URLShape, Legal, ScopeOf, Scoped, StoreShape

\* The columns it asked for are stored when they come, whatever the store's scope is then.
LEMMA ArriveKeeps ==
    ASSUME WInv, NEW key \in asked, ColumnsArrive(key)
    PROVE  WInv'
<1> DEFINE columns == Replace(store.columns, {key})
<1>1. /\ asked' = asked \ {key} /\ store' = [store EXCEPT !.columns = columns]
      /\ UNCHANGED <<url, view, due, seen, cached, fetching, moves>>
  BY DEF ColumnsArrive, SetColumns, navVars
<1>2. columns \subseteq store.columns \cup {key}
  BY Replaced
<1>3. \A c \in columns : /\ c.kind = "columns" /\ c.scope \in Scope
                         /\ c.scope = ScopeOf(store) \/ c.scope.db = Default
  BY <1>2 DEF WInv, Scoped
<1>4. StoreShape(store)
  BY DEF WInv, Scoped
<1> HIDE DEF columns
<1>5. store' = [conn |-> store.conn, db |-> store.db, selectedSchema |-> store.selectedSchema,
                selectedTable |-> store.selectedTable, schemas |-> store.schemas,
                lists |-> store.lists, columns |-> columns]
  BY <1>1, <1>4 DEF StoreShape
<1>6. Scoped(store') /\ ScopeOf(store') = ScopeOf(store)
  BY <1>3, <1>5 DEF Scoped, StoreShape, ScopeOf, WInv
<1> QED BY <1>1, <1>6 DEF WInv, URLShape, Legal, ScopeOf

\* Nor does a failed request of completion change the store.
LEMMA ColumnsFailKeeps ==
    ASSUME WInv, NEW key \in asked, ColumnsFail(key)
    PROVE  WInv'
BY DEF ColumnsFail, navVars, WInv, URLShape, Legal, ScopeOf, Scoped, StoreShape

\* The user goes to another URL: nothing of the store changes until the next commit.
LEMMA GoToKeeps ==
    ASSUME WorkspaceAssumption, WInv, NEW u, GoTo(u),
           u = URL(u.conn, u.db, u.schema, u.object), u.db \in Databases
    PROVE  WInv'
<1>1. url' = u /\ due' = TRUE /\ moves' \in 0..MaxMoves
      /\ UNCHANGED <<view, seen, cached, fetching, store, asked>>
  BY DEF GoTo, WInv, WorkspaceAssumption
<1>2. URLShape' /\ url'.db \in Databases
  BY <1>1 DEF URLShape
<1> QED BY <1>1, <1>2 DEF WInv, Legal, ScopeOf, Scoped, StoreShape

\* Whatever the user opens or selects.
LEMMA MovesKeep ==
    ASSUME WorkspaceAssumption, WInv,
           \/ \E c \in Range(Connections) : SwitchConnection(c)
           \/ \E d \in Databases : SwitchDatabase(d)
           \/ \E s \in SchemaNames : SelectSchema(s)
           \/ \E o \in InSidebar : SelectObject(o)
           \/ \E u \in Links : OpenLink(u)
    PROVE  WInv'
<1>1. url = URL(url.conn, url.db, url.schema, url.object) /\ url.db \in Databases
  BY DEF WInv, URLShape
<1>2. ASSUME NEW c, NEW d \in Databases, NEW s, NEW o, GoTo(URL(c, d, s, o))
      PROVE  WInv'
  <2>1. URL(c, d, s, o).db = d
        /\ URL(c, d, s, o) = URL(URL(c, d, s, o).conn, URL(c, d, s, o).db, URL(c, d, s, o).schema,
                                 URL(c, d, s, o).object)
    BY DEF URL
  <2> QED BY <1>2, <2>1, GoToKeeps
<1>3. ASSUME NEW c, SwitchConnection(c) PROVE WInv'
  BY <1>2, <1>3 DEF SwitchConnection, WorkspaceAssumption
<1>4. ASSUME NEW d \in Databases, SwitchDatabase(d) PROVE WInv'
  <2>1. PICK w : GoTo(w) /\ w = [url EXCEPT !.db = d, !.schema = None, !.object = None]
    BY <1>4 DEF SwitchDatabase
  <2>2. w = URL(url.conn, d, None, None)
    BY <1>1, <2>1 DEF URL
  <2> QED BY <1>1, <1>2, <2>1, <2>2
<1>5. ASSUME NEW s, SelectSchema(s) PROVE WInv'
  <2>1. PICK w : GoTo(w) /\ w = [url EXCEPT !.schema = s, !.object = None]
    BY <1>5 DEF SelectSchema
  <2>2. w = URL(url.conn, url.db, s, None)
    BY <1>1, <2>1 DEF URL
  <2> QED BY <1>1, <1>2, <2>1, <2>2
<1>6. ASSUME NEW o, SelectObject(o) PROVE WInv'
  <2>1. PICK w : GoTo(w) /\ w = [url EXCEPT !.object = o]
    BY <1>6 DEF SelectObject
  <2>2. w = URL(url.conn, url.db, url.schema, o)
    BY <1>1, <2>1 DEF URL
  <2> QED BY <1>1, <1>2, <2>1, <2>2
<1>7. ASSUME NEW u \in Links, OpenLink(u) PROVE WInv'
  BY <1>7, GoToKeeps DEF OpenLink, WorkspaceAssumption
<1> QED BY <1>3, <1>4, <1>5, <1>6, <1>7

-----------------------------------------------------------------------------
(* What the defaults choose exists.                                        *)

\* A set of numbers that is not empty has a least one.
LEMMA Least ==
    ASSUME NEW T, T \subseteq Nat, T # {}
    PROVE  \E x \in T : \A y \in T : x <= y
<1>1. PICK x \in T : \A y \in T : ~(<<y, x>> \in OpToRel(<, Nat))
  BY NatLessThanWellFounded, WFMin
<1>2. \A y \in T : y < x => <<y, x>> \in OpToRel(<, Nat)
  BY DEF OpToRel
<1>3. \A y \in T : ~(y < x)
  BY <1>1, <1>2
<1> QED BY <1>3

\* The rows of a schema are a sequence of the database's objects.
LEMMA ContentsTyped ==
    ASSUME WorkspaceAssumption, NEW scope \in DOMAIN Holds, NEW s
    PROVE  /\ Range(Contents(scope, s)) \subseteq Objects
           /\ DOMAIN Contents(scope, s) \subseteq Nat
<1> DEFINE found == {x \in Range(Holds[scope]) : x.name = s}
<1>1. CASE found = {}
  <2>1. Contents(scope, s) = <<>>
    BY <1>1 DEF Contents
  <2>2. DOMAIN Contents(scope, s) = {}
    BY <2>1
  <2> QED BY <2>2 DEF Range
<1>2. CASE found # {}
  <2>1. PICK x \in Range(Holds[scope]) : Contents(scope, s) = x.objects
    BY <1>2 DEF Contents
  <2>2. Range(x.objects) \subseteq Objects
    <3>1. Range(Holds[scope]) \subseteq UNION {Range(Holds[y]) : y \in DOMAIN Holds}
      OBVIOUS
    <3> QED BY <3>1 DEF Objects
  <2>3. x.objects \in Seq(Range(x.objects))
    BY DEF WorkspaceAssumption
  <2>4. DOMAIN x.objects \subseteq Nat
    BY <2>3, LenProperties
  <2> QED BY <2>1, <2>2, <2>4
<1> QED BY <1>1, <1>2

\* A schema that lists tables or views has a first one, and it is one of them.
LEMMA FirstTableIsListed ==
    ASSUME WorkspaceAssumption, NEW scope \in DOMAIN Holds, NEW s \in SchemaNames,
           GetTables[scope][s] # {}
    PROVE  /\ FirstTable[scope][s] \in Range(Contents(scope, s))
           /\ FirstTable[scope][s].type \in TableTypes
<1> DEFINE contents == Contents(scope, s)
           OfType(t) == {i \in DOMAIN contents : contents[i].type = t}
           first == IF OfType("table") # {} THEN OfType("table") ELSE OfType("view")
           least == CHOOSE i \in first : \A j \in first : i <= j
<1>1. FirstTable[scope][s] = contents[least]
  BY DEF FirstTable
<1>2. PICK o \in Range(contents) : o.type \in TableTypes
  BY DEF GetTables
<1>3. PICK i \in DOMAIN contents : contents[i] = o
  BY DEF Range
<1>4. i \in OfType("table") \/ i \in OfType("view")
  BY <1>2, <1>3 DEF TableTypes
<1>5. first # {} /\ first \subseteq DOMAIN contents /\ first \subseteq Nat
  BY <1>4, ContentsTyped
<1>6. \A j \in first : contents[j].type \in TableTypes
  BY DEF TableTypes
<1> HIDE DEF contents, first
<1>7. least \in first
  BY <1>5, Least
<1> HIDE DEF least
<1>8. contents[least] \in Range(contents)
  BY <1>5, <1>7 DEF Range
<1> QED BY <1>1, <1>6, <1>7, <1>8 DEF contents

\* A name, in a schema, of a table, a view or a materialized view of the database.
Exists(scope, schema, name) ==
    \E o \in Range(Contents(scope, schema)) : o.name = name /\ o.type \in TableLike

\* What the store takes for selected exists in the database it is scoped to.
Selected(st) ==
    ScopeOf(st) \in DOMAIN Holds =>
        /\ st.selectedSchema \in Range(GetSchemas[ScopeOf(st)]) \cup {None}
        /\ st.selectedTable # None =>
               Exists(ScopeOf(st), st.selectedTable.schema, st.selectedTable.name)

\* The schema a commit shows is one that the server listed for its scope, and what it shows
\* as a table is in that schema.
LEMMA RenderedExists ==
    ASSUME WorkspaceAssumption, WInv, NEW v, v = Rendered(url), v.schema # None
    PROVE  /\ ScopeOf(v) \in DOMAIN Holds /\ v.schema \in Range(GetSchemas[ScopeOf(v)])
           /\ v.object # None /\ v.object.type \in TableLike
                 => Exists(ScopeOf(v), v.schema, v.object.name)
<1> DEFINE scope == [conn |-> SelectedConnection(url), db |-> url.db]
           schemas == IF SchemasKey(scope) \in cached THEN GetSchemas[scope] ELSE None
           known == IF schemas = None THEN <<>> ELSE schemas
           tables == IF v.schema # None /\ TablesKey(scope, v.schema) \in cached
                     THEN GetTables[scope][v.schema] ELSE {}
<1>1. /\ ScopeOf(v) = scope /\ v.schema = EffectiveSchema(url, known)
      /\ v.object = EffectiveObject(url, scope, v.schema, tables)
  BY DEF Rendered, ScopeOf
<1>2. known # <<>>
  <2>1. Range(<<>>) = {}
    BY DEF Range
  <2> QED BY <1>1, <2>1 DEF EffectiveSchema
<1>3. scope \in DOMAIN Holds /\ known = GetSchemas[scope]
  <2>1. SchemasKey(scope) \in cached /\ known = GetSchemas[scope]
    BY <1>2
  <2> QED BY <2>1 DEF SchemasKey, WInv
<1>4. known \in Seq(SchemaNames)
  BY <1>3, SchemasTyped
<1>5. v.schema \in Range(known) /\ v.schema \in SchemaNames
  <2>1. known[1] \in Range(known)
    <3>1. Len(known) \in Nat /\ Len(known) # 0 /\ DOMAIN known = 1..Len(known)
      BY <1>2, <1>4, EmptySeq, LenProperties
    <3> QED BY <3>1 DEF Range
  <2>2. v.schema \in Range(known)
    BY <1>1, <1>2, <2>1 DEF EffectiveSchema
  <2>3. Range(known) \subseteq SchemaNames
    BY <1>4 DEF Range
  <2> QED BY <2>2, <2>3
<1>6. ASSUME v.object # None, v.object.type \in TableLike
      PROVE  Exists(scope, v.schema, v.object.name)
  <2>1. v.object.type \notin {"function", "procedure"}
    BY <1>6 DEF TableLike, TableTypes
  <2>2. \/ \E t \in tables : t.name = v.object.name
        \/ tables # {} /\ v.object = FirstTable[scope][v.schema]
    BY <1>1, <1>6, <2>1 DEF EffectiveObject
  <2>3. tables # {} => tables = GetTables[scope][v.schema]
    OBVIOUS
  <2>4. GetTables[scope][v.schema] = {o \in Range(Contents(scope, v.schema)) : o.type \in TableTypes}
    BY <1>3, <1>5 DEF GetTables
  <2> HIDE DEF tables
  <2>5. CASE \E t \in tables : t.name = v.object.name
    BY <2>3, <2>4, <2>5 DEF Exists, TableLike
  <2>6. CASE tables # {} /\ v.object = FirstTable[scope][v.schema]
    BY <1>3, <1>5, <2>3, <2>6, FirstTableIsListed DEF Exists, TableLike
  <2> QED BY <2>2, <2>5, <2>6
<1> QED BY <1>1, <1>3, <1>5, <1>6

\* A commit leaves a selection that exists, or none where the scope is new.
LEMMA SyncedSelected ==
    ASSUME WorkspaceAssumption, WInv, Selected(store), NEW v, v = Rendered(url)
    PROVE  Selected(SyncedStore(v))
<1> DEFINE base == SetConnection(store, ScopeOf(v))
           r == SyncedStore(v)
<1>1. /\ Selected(base) /\ StoreShape(base) /\ ScopeOf(base) = ScopeOf(v)
  <2>1. CASE store.conn = ScopeOf(v).conn /\ store.db = ScopeOf(v).db
    BY <2>1 DEF SetConnection, WInv, ScopeOf, Scoped
  <2>2. CASE ~(store.conn = ScopeOf(v).conn /\ store.db = ScopeOf(v).db)
    <3>1. base = [EmptyStore EXCEPT !.conn = ScopeOf(v).conn, !.db = ScopeOf(v).db]
      BY <2>2 DEF SetConnection
    <3>2. base = [conn |-> v.conn, db |-> v.db, selectedSchema |-> None, selectedTable |-> None,
                  schemas |-> {}, lists |-> {}, columns |-> {}]
      BY <3>1 DEF EmptyStore, ScopeOf
    <3> QED BY <3>2 DEF Selected, StoreShape, ScopeOf
  <2> QED BY <2>1, <2>2
<1> DEFINE chosen == IF v.schema \notin {None, view.schema} THEN v.schema ELSE base.selectedSchema
           selected ==
             IF v.object = None \/ <<v.schema, v.object>> = <<view.schema, view.object>>
               THEN base.selectedTable
             ELSE IF v.object.type \in TableLike THEN [schema |-> v.schema, name |-> v.object.name]
             ELSE None
<1>2. /\ ScopeOf(r) = ScopeOf(v) /\ r.selectedSchema = chosen /\ r.selectedTable = selected
  <2> DEFINE fresh == v.schemas # None /\ <<ScopeOf(v), v.schemas>> # <<ScopeOf(view), view.schemas>>
             schemas == IF fresh THEN base.schemas \cup Range(v.schemas) ELSE base.schemas
             lists == Replace(base.lists, {TablesKey(ScopeOf(v), v.schema)} \cap Requested(v) \cap cached)
  <2>1. r = [base EXCEPT !.selectedSchema = chosen, !.schemas = schemas, !.selectedTable = selected,
                         !.lists = lists]
    BY DEF SyncedStore
  <2> HIDE DEF chosen, schemas, selected, lists, base, r
  <2>2. r = [conn |-> base.conn, db |-> base.db, selectedSchema |-> chosen, selectedTable |-> selected,
             schemas |-> schemas, lists |-> lists, columns |-> base.columns]
    BY <1>1, <2>1 DEF StoreShape
  <2> QED BY <1>1, <2>2 DEF ScopeOf
<1> HIDE DEF base, r
<1>3. v.object # None => v.schema # None
  <2>1. PICK scope, tables : v.object = EffectiveObject(url, scope, v.schema, tables)
    BY DEF Rendered
  <2> QED BY <2>1 DEF EffectiveObject
<1> SUFFICES ASSUME ScopeOf(v) \in DOMAIN Holds
             PROVE  /\ chosen \in Range(GetSchemas[ScopeOf(v)]) \cup {None}
                    /\ selected # None => Exists(ScopeOf(v), selected.schema, selected.name)
  BY <1>2 DEF Selected, r
<1>4. chosen \in Range(GetSchemas[ScopeOf(v)]) \cup {None}
  BY <1>1, RenderedExists DEF Selected
<1>5. ASSUME selected # None PROVE Exists(ScopeOf(v), selected.schema, selected.name)
  <2>1. CASE v.object = None \/ <<v.schema, v.object>> = <<view.schema, view.object>>
    <3>1. selected = base.selectedTable
      BY <2>1
    <3> HIDE DEF selected
    <3> QED BY <1>1, <1>5, <3>1 DEF Selected
  <2>2. CASE ~(v.object = None \/ <<v.schema, v.object>> = <<view.schema, view.object>>)
    <3>1. v.object.type \in TableLike /\ selected = [schema |-> v.schema, name |-> v.object.name]
      BY <1>5, <2>2
    <3>2. Exists(ScopeOf(v), v.schema, v.object.name)
      BY <1>3, <2>2, <3>1, RenderedExists
    <3> QED BY <3>1, <3>2
  <2> QED BY <2>1, <2>2
<1> QED BY <1>4, <1>5

\* An answer does not change what is selected.
LEMMA ReceivedSelected ==
    ASSUME NEW st, StoreShape(st), Selected(st), NEW v, NEW keys
    PROVE  Selected(Received(st, v, keys))
<1> DEFINE read == {k \in keys : v.schemas # None /\ k.scope = ScopeOf(v)}
           rows == {k \in read : k.kind \in {"tables", "functions"}}
           schemas == st.schemas \cup {k.schema : k \in rows}
           lists == Replace(st.lists, rows)
           columns == Replace(st.columns, {k \in read : k.kind = "columns"})
           r == Received(st, v, keys)
<1>1. r = [[st EXCEPT !.schemas = schemas, !.lists = lists] EXCEPT !.columns = columns]
  BY DEF Received, SetColumns
<1> HIDE DEF schemas, lists, columns, r
<1>2. r = [conn |-> st.conn, db |-> st.db, selectedSchema |-> st.selectedSchema,
           selectedTable |-> st.selectedTable, schemas |-> schemas, lists |-> lists, columns |-> columns]
  BY <1>1 DEF StoreShape
<1>3. ScopeOf(r) = ScopeOf(st) /\ r.selectedSchema = st.selectedSchema /\ r.selectedTable = st.selectedTable
  BY <1>2 DEF ScopeOf
<1> QED BY <1>3 DEF Selected, r

\* Every step keeps the selection in the database.
LEMMA SelectedKept ==
    ASSUME WorkspaceAssumption, WInv, Selected(store), [Next]_vars
    PROVE  Selected(store)'
<1>1. CASE store' = store
  BY <1>1 DEF Selected, ScopeOf, Exists
<1>2. CASE Render
  <2>1. store' = SyncedStore(Rendered(url))
    BY <1>2 DEF Render
  <2>2. Selected(SyncedStore(Rendered(url)))
    BY SyncedSelected
  <2> QED BY <2>1, <2>2 DEF Selected, ScopeOf, Exists
<1>3. ASSUME NEW keys, store' = Received(store, view, keys)
      PROVE  Selected(store)'
  <2>1. Selected(Received(store, view, keys))
    BY ReceivedSelected DEF WInv, Scoped
  <2> QED BY <1>3, <2>1 DEF Selected, ScopeOf, Exists
<1>4. ASSUME NEW key, ColumnsArrive(key)
      PROVE  Selected(store)'
  <2>1. store' = [store EXCEPT !.columns = Replace(@, {key})]
    BY <1>4 DEF ColumnsArrive, SetColumns
  <2>2. /\ store'.conn = store.conn /\ store'.db = store.db
        /\ store'.selectedSchema = store.selectedSchema /\ store'.selectedTable = store.selectedTable
    <3>1. StoreShape(store)
      BY DEF WInv, Scoped
    <3> QED BY <2>1, <3>1 DEF StoreShape
  <2> QED BY <2>2 DEF Selected, ScopeOf, Exists
<1> DEFINE Stays == store' = store
<1>5. \/ Stays \/ Render \/ \E keys : store' = Received(store, view, keys)
      \/ \E key : ColumnsArrive(key)
  <2>1. CASE UNCHANGED vars
    BY <2>1 DEF vars
  <2>2. CASE \E key \in fetching : Answered(key) \/ Failed(key)
    BY <2>2 DEF Answered, Failed
  <2>3. CASE \E l \in store.lists : \E t \in GetTables[l.scope][l.schema] : AskColumns(l, t)
    BY <2>3 DEF AskColumns
  <2>4. CASE \E key \in asked : ColumnsArrive(key) \/ ColumnsFail(key)
    BY <2>4 DEF ColumnsFail
  <2>5. CASE \/ \E c \in Range(Connections) : SwitchConnection(c)
             \/ \E d \in Databases : SwitchDatabase(d)
             \/ \E s \in SchemaNames : SelectSchema(s)
             \/ \E o \in InSidebar : SelectObject(o)
             \/ \E u \in Links : OpenLink(u)
    BY <2>5 DEF SwitchConnection, SwitchDatabase, SelectSchema, SelectObject, OpenLink, GoTo
  <2>6. CASE Refresh
    BY <2>6 DEF Refresh
  <2> QED BY <2>1, <2>2, <2>3, <2>4, <2>5, <2>6 DEF Next
<1> QED BY <1>1, <1>2, <1>3, <1>4, <1>5

-----------------------------------------------------------------------------
(* What the defaults may overwrite.                                        *)

\* A commit that shows the schema of an object the URL names either shows that object or
\* is still waiting for the list it would be in.
LEMMA ShownOrAwaited ==
    ASSUME WorkspaceAssumption, WInv, NEW v, v = Rendered(url), v.schema # None,
           url.object # None, url.object \in Range(Contents(ScopeOf(v), v.schema)),
           url.object.type # "materialized_view"
    PROVE  v.object \in {None, url.object}
<1> DEFINE scope == [conn |-> SelectedConnection(url), db |-> url.db]
           tables == IF v.schema # None /\ TablesKey(scope, v.schema) \in cached
                     THEN GetTables[scope][v.schema] ELSE {}
<1>1. ScopeOf(v) = scope /\ v.object = EffectiveObject(url, scope, v.schema, tables)
  BY DEF Rendered, ScopeOf
<1>2. scope \in DOMAIN Holds /\ v.schema \in SchemaNames
  <2>1. scope \in DOMAIN Holds /\ v.schema \in Range(GetSchemas[scope])
    BY <1>1, RenderedExists
  <2>2. Range(GetSchemas[scope]) \subseteq SchemaNames
    <3> HIDE DEF scope
    <3>1. GetSchemas[scope] \in Seq(SchemaNames)
      BY <2>1, SchemasTyped
    <3> QED BY <3>1 DEF Range
  <2> QED BY <2>1, <2>2
<1>3. url.object.type \in TableTypes \cup {"function", "procedure"}
  <2>1. url.object \in Objects
    BY <1>1, <1>2, ContentsTyped
  <2> QED BY <2>1 DEF WorkspaceAssumption, TableLike
<1>4. CASE url.object.type \in {"function", "procedure"}
  BY <1>1, <1>4 DEF EffectiveObject
<1>5. CASE url.object.type \in TableTypes
  <2>1. CASE TablesKey(scope, v.schema) \in cached
    <3>1. tables = {o \in Range(Contents(scope, v.schema)) : o.type \in TableTypes}
      BY <1>2, <2>1 DEF GetTables
    <3>2. url.object \in tables
      BY <1>1, <1>5, <3>1
    <3> HIDE DEF tables
    <3> QED BY <1>1, <3>2 DEF EffectiveObject
  <2>2. CASE TablesKey(scope, v.schema) \notin cached
    <3>1. tables = {}
      BY <2>2
    <3> HIDE DEF tables
    <3> QED BY <1>1, <3>1 DEF EffectiveObject
  <2> QED BY <2>1, <2>2
<1> QED BY <1>3, <1>4, <1>5

\* The object of the URL after the effects of a commit that shows it, or shows none.
LEMMA WrittenKeepsTheObject ==
    ASSUME WInv, NEW v, v.object \in {None, url.object}, Known(url.conn),
           ~ConnectionChanged(v), ~DatabaseChanged(v)
    PROVE  WrittenURL(v, url).object = url.object
<1> DEFINE s == IF NeedsSchema(v, url) THEN v.schema ELSE url.schema
<1>1. ~NeedsObject(v, url)
  BY DEF NeedsObject
<1>2. url = URL(url.conn, url.db, url.schema, url.object)
  BY DEF WInv, URLShape
<1>3. WrittenURL(v, url) = [url EXCEPT !.schema = s, !.object = url.object]
  BY <1>1 DEF WrittenURL
<1> HIDE DEF s
<1>4. WrittenURL(v, url) = URL(url.conn, url.db, s, url.object)
  BY <1>2, <1>3 DEF URL
<1> QED BY <1>4 DEF URL

\* A step that is not a gesture and writes the URL is a commit.
LEMMA OnlyCommitsWrite ==
    ASSUME WorkspaceAssumption, WInv, [Next]_vars, moves' = moves
    PROVE  Render \/ url' = url
<1>1. ASSUME NEW u, GoTo(u) PROVE FALSE
  <2>1. moves \in Nat /\ moves' = moves + 1
    BY <1>1 DEF GoTo, WInv, WorkspaceAssumption
  <2> QED BY <2>1
<1>2. CASE UNCHANGED vars
  BY <1>2 DEF vars, navVars
<1>3. CASE \E key \in fetching : Answered(key) \/ Failed(key)
  BY <1>3 DEF Answered, Failed
<1>4. CASE \E l \in store.lists : \E t \in GetTables[l.scope][l.schema] : AskColumns(l, t)
  BY <1>4 DEF AskColumns, navVars
<1>5. CASE \E key \in asked : ColumnsArrive(key) \/ ColumnsFail(key)
  BY <1>5 DEF ColumnsArrive, ColumnsFail, navVars
<1>6. CASE \/ \E c \in Range(Connections) : SwitchConnection(c)
           \/ \E d \in Databases : SwitchDatabase(d)
           \/ \E s \in SchemaNames : SelectSchema(s)
           \/ \E o \in InSidebar : SelectObject(o)
           \/ \E u \in Links : OpenLink(u)
  BY <1>1, <1>6 DEF SwitchConnection, SwitchDatabase, SelectSchema, SelectObject, OpenLink
<1>7. CASE Refresh
  BY <1>7 DEF Refresh
<1> QED BY <1>2, <1>3, <1>4, <1>5, <1>6, <1>7 DEF Next

-----------------------------------------------------------------------------
\* The invariant holds in every reachable state.
LEMMA Reachable == Spec => [](WInv /\ Selected(store))
<1>1. Init => WInv /\ Selected(store)
  <2> SUFFICES ASSUME Init PROVE WInv /\ Selected(store)
    OBVIOUS
  <2>1. URLShape /\ url.db \in Databases
    BY WorkspaceAssumption DEF Init, WorkspaceAssumption, URLShape
  <2>2. Scoped(store) /\ ScopeOf(store) = ScopeOf(view) /\ Selected(store)
    BY DEF Init, EmptyStore, Scoped, StoreShape, ScopeOf, Selected
  <2> QED BY <2>1, <2>2, WorkspaceAssumption DEF Init, WInv, WorkspaceAssumption, OfASchema
<1>2. WInv /\ Selected(store) /\ [Next]_vars => (WInv /\ Selected(store))'
  <2> SUFFICES ASSUME WInv, Selected(store), [Next]_vars PROVE WInv' /\ Selected(store)'
    OBVIOUS
  <2>1. CASE UNCHANGED vars
    BY <2>1 DEF vars, navVars, WInv, URLShape, OfASchema, Legal, ScopeOf, Scoped, StoreShape,
       Selected, Exists
  <2>2. CASE Next
    <3>1. WInv'
      BY <2>2, WorkspaceAssumption, RenderKeeps, AnsweredKeeps, FailedKeeps, AskKeeps, ArriveKeeps,
         ColumnsFailKeeps, MovesKeep, RefreshKeeps DEF Next
    <3> QED BY <3>1, WorkspaceAssumption, SelectedKept
  <2> QED BY <2>1, <2>2
<1> QED BY <1>1, <1>2, PTL DEF Spec

\* In every reachable state, whatever the connections, databases and links: what the schema
\* store lists was read from the connection and database it is scoped to, and so were its
\* columns, except for those that completion asked for without naming the database.
THEOREM StoreKeepsItsScope == Spec => []WorkspaceInv
BY Reachable, Implied, PTL

\* In every reachable state the schema and the table that completion takes for selected
\* exist in the database the store is scoped to: useEditorNavigation checks what the URL
\* names against what was listed, and a new scope starts with nothing selected.
THEOREM SelectionAlwaysExists == Spec => []SelectionExists
<1>1. Selected(store) => SelectionExists
  BY DEF Selected, SelectionExists, StoreScope, ScopeOf, Exists
<1> QED BY <1>1, Reachable, PTL

\* No step but a gesture replaces an object that the URL names and that exists in the schema
\* shown, unless the page has just changed connection or database: the defaults are written
\* only over an object that a list, once there, does not hold.
THEOREM DefaultsSpareWhatExists == Spec => ExistingObjectStays
<1> DEFINE Stays ==
      LET shown == ScopeOf(view') IN
        (/\ url.object # None /\ Known(url.conn) /\ moves' = moves
         /\ seen.conn \in {None, shown.conn} /\ seen.db \in {None, shown.db}
         /\ view'.schema # None
         /\ url.object \in Range(Contents(shown, view'.schema))
         /\ url.object.type # "materialized_view")
        => url'.object = url.object
<1>1. WInv /\ [Next]_vars => Stays
  <2> SUFFICES ASSUME WInv, [Next]_vars, url.object # None, Known(url.conn), moves' = moves,
                      seen.conn \in {None, view'.conn}, seen.db \in {None, view'.db},
                      view'.schema # None, url.object.type # "materialized_view",
                      url.object \in Range(Contents(ScopeOf(view'), view'.schema))
               PROVE  url'.object = url.object
    BY DEF ScopeOf
  <2>1. CASE url' = url
    BY <2>1
  <2>2. CASE Render
    <3>1. PICK v : /\ v = Rendered(url) /\ view' = v
                   /\ url' = (IF Navigates(v, url) THEN WrittenURL(v, url) ELSE url)
      BY <2>2 DEF Render
    <3>2. v.object \in {None, url.object}
      BY <3>1, WorkspaceAssumption, ShownOrAwaited
    <3>3. ~ConnectionChanged(v) /\ ~DatabaseChanged(v)
      BY <3>1 DEF ConnectionChanged, DatabaseChanged
    <3> QED BY <3>1, <3>2, <3>3, WrittenKeepsTheObject
  <2> QED BY <2>1, <2>2, WorkspaceAssumption, OnlyCommitsWrite
<1>2. WInv /\ [Next]_vars => [Stays]_vars
  BY <1>1
<1> QED BY <1>2, Reachable, PTL DEF Spec, ExistingObjectStays

=============================================================================
