-------------------------- MODULE ConnectionRuntime --------------------------
(***************************************************************************)
(* What the server remembers about each connection between requests: the   *)
(* PostgreSQL version found by the last successful test                    *)
(* (server/lib/connection-cache.ts) and the schema contexts built for the  *)
(* AI assistant (server/lib/schema-cache.ts), against edits of the         *)
(* connection made while a test or a build is waiting for the database     *)
(* (server/services/connection-service.ts, ai-service.ts).                 *)
(*                                                                         *)
(* The settings of a connection are abstracted to a generation, which      *)
(* every create, update and delete advances: two things read from one      *)
(* connection agree when they were read under the same generation. A       *)
(* context is abstracted to the connection, generation, database and       *)
(* schemas it was read from.                                               *)
(***************************************************************************)
EXTENDS Naturals, FiniteSets

CONSTANTS
    Connections,    \* ids of store-backed connections
    Databases,      \* the databases a connection's server offers
    Schemas,        \* schema names; a request for {} asks for every schema
    Jobs,           \* testConnection and AI requests
    MaxGeneration,  \* bound: edits of one connection
    None

ASSUME ConnectionRuntimeAssumption ==
    /\ MaxGeneration \in Nat
    /\ None \notin Nat \cup Connections \cup Databases

VARIABLES
    exists,          \* connection -> whether it is configured
    generation,      \* connection -> how often it was edited
    connectionCache, \* connection -> the cached version, or None
    schemaCache,     \* cache key -> the cached context, or None
    job              \* the requests under way

vars == <<exists, generation, connectionCache, schemaCache, job>>

Generations == 0..MaxGeneration

\* `late` is history: written for settings that were no longer current.
Version == [gen : Generations, late : BOOLEAN]

Context == [conn : Connections, gen : Generations, db : Databases, schemas : SUBSET Schemas,
            late : BOOLEAN, expired : BOOLEAN]

\* The order and repetitions of the requested schemas do not count.
cacheKey(c, d, s) == <<c, d, s>>

Keys == Connections \X Databases \X SUBSET Schemas

JobRecord == [phase : {"idle", "testing", "building", "done"}, conn : Connections \cup {None},
              gen : Generations, db : Databases \cup {None}, schemas : SUBSET Schemas,
              answer : Context \cup {None}]

TypeOK ==
    /\ exists \in [Connections -> BOOLEAN]
    /\ generation \in [Connections -> Generations]
    /\ connectionCache \in [Connections -> Version \cup {None}]
    /\ schemaCache \in [Keys -> Context \cup {None}]
    /\ job \in [Jobs -> JobRecord]

\* After testAllConnections: an eager connection has its version, a lazy one has not.
Init ==
    /\ exists \in [Connections -> BOOLEAN]
    /\ generation = [c \in Connections |-> 0]
    /\ \E eager \in SUBSET {c \in Connections : exists[c]} :
          connectionCache = [c \in Connections |->
                                IF c \in eager THEN [gen |-> 0, late |-> FALSE] ELSE None]
    /\ schemaCache = [k \in Keys |-> None]
    /\ job = [j \in Jobs |-> [phase |-> "idle", conn |-> None, gen |-> 0, db |-> None,
                              schemas |-> {}, answer |-> None]]

-----------------------------------------------------------------------------
(* testConnection *)

\* A request reads the settings of its connection and goes to phase.
Begin(j, phase, c, d, s, answer) ==
    /\ job[j].phase = "idle"
    /\ exists[c]
    /\ job' = [job EXCEPT ![j] = [phase |-> phase, conn |-> c, gen |-> generation[c], db |-> d,
                                 schemas |-> s, answer |-> answer]]

\* The settings are read, then the database is asked.
TestConnection(j, c) ==
    /\ Begin(j, "testing", c, None, {}, None)
    /\ UNCHANGED <<exists, generation, connectionCache, schemaCache>>

\* testAndCacheConnection stores what it found under the id, whatever happened to it.
TestSucceeds(j) ==
    /\ job[j].phase = "testing"
    /\ connectionCache' = [connectionCache EXCEPT ![job[j].conn] =
                             [gen |-> job[j].gen, late |-> job[j].gen # generation[job[j].conn]]]
    /\ job' = [job EXCEPT ![j].phase = "done"]
    /\ UNCHANGED <<exists, generation, schemaCache>>

\* A failed test leaves the version of an earlier one in place.
TestFails(j) ==
    /\ job[j].phase = "testing"
    /\ job' = [job EXCEPT ![j].phase = "done"]
    /\ UNCHANGED <<exists, generation, connectionCache, schemaCache>>

-----------------------------------------------------------------------------
(* Schema contexts *)

Usable(k) == schemaCache[k] # None /\ ~ schemaCache[k].expired

StartBuild(j, c, d, s) ==
    /\ connectionCache[c] # None  \* getConnectionInfo throws otherwise
    /\ Begin(j, "building", c, d, s, None)
    /\ UNCHANGED <<exists, generation, connectionCache, schemaCache>>

\* getOrRefreshSchema finds a context that has not expired...
ServeCached(j, c, d, s) ==
    /\ Usable(cacheKey(c, d, s))
    /\ Begin(j, "done", c, d, s, schemaCache[cacheKey(c, d, s)])
    /\ UNCHANGED <<exists, generation, connectionCache, schemaCache>>

\* ... or builds one from the settings it has just read.
MissCached(j, c, d, s) == ~ Usable(cacheKey(c, d, s)) /\ StartBuild(j, c, d, s)

\* The refreshSchemaCache RPC builds without looking.
ForceRefresh(j, c, d, s) == StartBuild(j, c, d, s)

\* buildSchemaContext is done: the context is filed under the database it was read from.
BuildSucceeds(j) ==
    /\ job[j].phase = "building"
    /\ LET context == [conn |-> job[j].conn, gen |-> job[j].gen, db |-> job[j].db,
                       schemas |-> job[j].schemas, expired |-> FALSE,
                       late |-> job[j].gen # generation[job[j].conn]]
       IN  /\ schemaCache' = [schemaCache EXCEPT
                                 ![cacheKey(job[j].conn, job[j].db, job[j].schemas)] = context]
           /\ job' = [job EXCEPT ![j] = [phase |-> "done", conn |-> @.conn, gen |-> @.gen,
                                        db |-> @.db, schemas |-> @.schemas, answer |-> context]]
    /\ UNCHANGED <<exists, generation, connectionCache>>

BuildFails(j) ==
    /\ job[j].phase = "building"
    /\ job' = [job EXCEPT ![j].phase = "done"]
    /\ UNCHANGED <<exists, generation, connectionCache, schemaCache>>

\* SCHEMA_CACHE_TTL_MS passes; the entry stays in the map and is no longer returned.
Expire(k) ==
    /\ Usable(k)
    /\ schemaCache' = [schemaCache EXCEPT ![k].expired = TRUE]
    /\ UNCHANGED <<exists, generation, connectionCache, job>>

-----------------------------------------------------------------------------
(* Edits *)

clearConnectionCache(c) == connectionCache' = [connectionCache EXCEPT ![c] = None]

\* Every database and every scope of the connection.
clearSchemaCache(c) ==
    schemaCache' = [k \in Keys |-> IF k[1] = c THEN None ELSE schemaCache[k]]

Edit(c) ==
    /\ generation[c] < MaxGeneration
    /\ generation' = [generation EXCEPT ![c] = @ + 1]
    /\ UNCHANGED job

\* A new id needs no clearing, or so createConnection assumes.
CreateConnection(c) ==
    /\ ~ exists[c]
    /\ Edit(c)
    /\ exists' = [exists EXCEPT ![c] = TRUE]
    /\ UNCHANGED <<connectionCache, schemaCache>>

\* BUG: the version is kept over an edit.
UpdateConnection_KeepsVersion(c) ==
    /\ exists[c]
    /\ Edit(c)
    /\ clearSchemaCache(c)
    /\ UNCHANGED <<exists, connectionCache>>

UpdateConnection(c) ==
    /\ exists[c]
    /\ Edit(c)
    /\ clearConnectionCache(c)
    /\ clearSchemaCache(c)
    /\ UNCHANGED exists

\* BUG: an id that is gone is not cleared, though it can be created again.
DeleteConnection_KeepsCaches(c) ==
    /\ exists[c]
    /\ Edit(c)
    /\ exists' = [exists EXCEPT ![c] = FALSE]
    /\ UNCHANGED <<connectionCache, schemaCache>>

DeleteConnection(c) ==
    /\ exists[c]
    /\ Edit(c)
    /\ exists' = [exists EXCEPT ![c] = FALSE]
    /\ clearConnectionCache(c)
    /\ clearSchemaCache(c)

-----------------------------------------------------------------------------

JobStep(j) ==
    \/ \E c \in Connections :
          \/ TestConnection(j, c)
          \/ \E d \in Databases, s \in SUBSET Schemas :
                ServeCached(j, c, d, s) \/ MissCached(j, c, d, s) \/ ForceRefresh(j, c, d, s)
    \/ TestSucceeds(j)
    \/ TestFails(j)
    \/ BuildSucceeds(j)
    \/ BuildFails(j)

EditStep(c) == CreateConnection(c) \/ UpdateConnection(c) \/ DeleteConnection(c)

Next ==
    \/ \E j \in Jobs : JobStep(j)
    \/ \E k \in Keys : Expire(k)
    \/ \E c \in Connections : EditStep(c)

Spec == Init /\ [][Next]_vars

-----------------------------------------------------------------------------
(* Properties *)

\* The only way to a stale cache entry is a request that straddles an edit: whatever was
\* cached before an edit is dropped by it, under every database and scope, and a deleted
\* id leaves nothing to its successor (clearConnectionCache and clearSchemaCache in
\* updateConnection and deleteConnection; createConnection clears nothing).
StaleOnlyIfLate ==
    /\ \A c \in Connections : connectionCache[c] # None =>
          connectionCache[c].gen = generation[c] \/ connectionCache[c].late
    /\ \A k \in Keys : schemaCache[k] # None =>
          schemaCache[k].gen = generation[k[1]] \/ schemaCache[k].late

\* The assistant is never told about another connection, database or set of schemas than
\* the one it is asked about, wherever the context comes from (cacheKey and its comment).
AnswersFitTheirRequests ==
    \A j \in Jobs : job[j].answer # None =>
        /\ job[j].answer.conn = job[j].conn
        /\ job[j].answer.db = job[j].db
        /\ job[j].answer.schemas = job[j].schemas

\* A request that was not overtaken by an edit while it ran is answered from the settings
\* it saw when it started, unless an earlier straggler had filed a stale context.
AnswersAreCurrent ==
    \A j \in Jobs : job[j].answer # None =>
        job[j].answer.gen = job[j].gen \/ job[j].answer.late

\* A cached context is filed under what it describes.
FiledCorrectly ==
    \A k \in Keys : schemaCache[k] # None =>
        /\ schemaCache[k].conn = k[1]
        /\ schemaCache[k].db = k[2]
        /\ schemaCache[k].schemas = k[3]

JobsTyped == \A j \in Jobs :
    /\ job[j].phase \in {"testing", "building"} => job[j].conn \in Connections
    /\ job[j].phase = "building" => job[j].db \in Databases

\* A request under way read its settings at or before the present ones, and if they still
\* are the present ones the connection was not deleted.
JobsReadThePast == \A j \in Jobs : job[j].phase \in {"testing", "building"} =>
    /\ job[j].gen <= generation[job[j].conn]
    /\ job[j].gen = generation[job[j].conn] => exists[job[j].conn]

\* Under an id that is not configured only a straggler's entry is cached, so
\* createConnection need not clear it to keep StaleOnlyIfLate.
GoneIsLate ==
    /\ \A c \in Connections :
          connectionCache[c] # None => exists[c] \/ connectionCache[c].late
    /\ \A k \in Keys : schemaCache[k] # None => exists[k[1]] \/ schemaCache[k].late

\* The inductive invariant.
RuntimeInv ==
    /\ TypeOK
    /\ JobsTyped
    /\ JobsReadThePast
    /\ FiledCorrectly
    /\ GoneIsLate
    /\ StaleOnlyIfLate
    /\ AnswersFitTheirRequests
    /\ AnswersAreCurrent
=============================================================================
