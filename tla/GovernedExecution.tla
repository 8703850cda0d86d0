-------------------------- MODULE GovernedExecution --------------------------
(***************************************************************************)
(* Every statement that reaches a database on somebody's behalf: those a   *)
(* user sends through the web application (query-service.ts executeSQL)    *)
(* and those an agent sends through the tools of the MCP server            *)
(* (server/mcp.ts), under the policy of AccessControl; and the requests of *)
(* the web application that look at a database or at the server without    *)
(* sending a statement of the user's.                                      *)
(*                                                                         *)
(* Both parse the SQL first, which is awaited: connections may be edited   *)
(* meanwhile. The web looks the connection up after the parse, the MCP     *)
(* server before it.                                                       *)
(***************************************************************************)
EXTENDS AccessControl

CONSTANTS
    Calls,        \* requests of one life of the server
    Texts,        \* parsed texts: sequences of statements
    Malformed,    \* a text that does not parse
    functionPermissions \* the permission of each built-in function

\* The kinds of statement whose function calls are collected, one more for each answer of
\* getRequiredPermission, and SHOW, which is read like SELECT but cannot be explained.
Kinds == {"select", "insert", "update", "delete", "show", "explain", "call", "create_table", "create_role"}

\* The clauses of each kind that are searched for function calls.
SearchedClauses ==
    [ select |-> {"columns", "where", "having", "groupBy", "orderBy", "limit", "offset"},
      insert |-> {"values", "returning"},
      update |-> {"assignments", "where", "returning"},
      delete |-> {"where", "returning"} ]
Clauses == UNION {SearchedClauses[kind] : kind \in DOMAIN SearchedClauses} \cup {"from"}

\* A statement: its kind, and where it calls which functions.
Statement == [kind : Kinds, calls : SUBSET [clause : Clauses, inSubquery : BOOLEAN, name : STRING]]

\* The permission each execution tool stands for.
toolPermission == [explain_query |-> "explain", query |-> "read",
                   write_data |-> "write", run_ddl |-> "ddl"]

\* Requests of the web application: of a table, of a routine, of the sessions of a database.
\* They run queries of their own on the catalogue, and any permission will do.
TableReads == {"getTableInfo", "getIndexes"}
ConstraintReads == {"getConstraints"}
TableRuleReads == {"getTriggers", "getPolicies", "getGrants"}
RoutineReads == {"getFunctionInfo"}
DependencyReads == {"getFunctionDependencies"}
SessionReads == {"getActiveSessions"}
CatalogueReads == TableReads \cup ConstraintReads \cup TableRuleReads \cup RoutineReads
                      \cup DependencyReads \cup SessionReads

\* These take the admin permission. Whose session was terminated gets an error for answer.
AdminRequests == {"terminateSession", "getAuditLogEntries"}

WebRequests == CatalogueReads \cup AdminRequests

ASSUME GovernedExecutionAssumption ==
    /\ None \notin DOMAIN toolPermission \cup WebRequests \cup {"toml", "store"}
    /\ Texts \subseteq Seq(Statement)
    /\ \A name \in DOMAIN functionPermissions : functionPermissions[name] \in Permissions
    /\ Malformed \notin Texts /\ None \notin Texts \cup {Malformed}

VARIABLES
    call,     \* the requests under way and answered
    audit     \* the sql.execute events of auditEvents

vars == <<policy, call, audit>>

-----------------------------------------------------------------------------
(* sql-permissions.ts *)

getRequiredPermission(kind) ==
    CASE kind \in {"select", "show"} -> "read"
      [] kind = "explain"            -> "explain"
      [] kind = "call"               -> "execute"
      [] kind \in {"insert", "update", "delete"} -> "write"
      [] kind = "create_table"       -> "ddl"
      [] kind = "create_role"        -> "admin"

primaryPermissions(text) == {getRequiredPermission(text[i].kind) : i \in DOMAIN text}

\* The functions that the expressions of a clause call, at any depth but in a subquery.
extractFunctionNames(calls) == {c.name : c \in {d \in calls : ~d.inSubquery}}

extractFunctionsFromStatement(stmt) ==
    IF stmt.kind \notin DOMAIN SearchedClauses THEN {}
    ELSE extractFunctionNames({c \in stmt.calls : c.clause \in SearchedClauses[stmt.kind]})

\* A function that is not built in asks for no more than reading does.
getFunctionPermission(name) ==
    IF name \in DOMAIN functionPermissions THEN functionPermissions[name] ELSE "read"

\* The permission of every statement and of the functions they call.
detectRequiredPermissions(text) ==
    IF text = <<>> THEN {"read"}
    ELSE primaryPermissions(text)
           \cup {getFunctionPermission(f) : f \in UNION {extractFunctionsFromStatement(text[i]) : i \in DOMAIN text}}

-----------------------------------------------------------------------------
(* mcp.ts: the tools and whom they are advertised to *)

BrowseTools == {"list_objects", "describe_table"}

Tools == DOMAIN toolPermission \cup BrowseTools

\* What the agent may do on each connection it can touch.
agentAccess(a) == {getAgentPermissions(a, c.id) : c \in getConnections} \ {{}}

visibleTools(a) ==
    {t \in Tools : IF t \in BrowseTools THEN agentAccess(a) # {}
                   ELSE toolPermission[t] \in UNION agentAccess(a)}

auditActor(a) == IF a.onBehalfOf = None THEN a.id ELSE a.onBehalfOf

-----------------------------------------------------------------------------
(* Requests *)

Phases == {"idle", "analysing", "running", "answered", "refused"}

CallRecord == [phase : Phases, via : {"web", "mcp"}, user : Users \cup {None},
               agent : Agent \cup {None}, tool : Tools \cup WebRequests \cup {None}, conn : Ids \cup {None},
               text : Texts \cup {Malformed, None}, analyze : BOOLEAN,
               have : SUBSET Permissions, source : {"toml", "store", None},
               target : Definitions \cup {None}]

Idle == [phase |-> "idle", via |-> "web", user |-> None, agent |-> None, tool |-> None,
         conn |-> None, text |-> None, analyze |-> FALSE, have |-> {}, source |-> None,
         target |-> None]

Init == PolicyInit /\ call = [i \in Calls |-> Idle] /\ audit = {}

\* The body of executeSQL up to the parse.
SubmitSQL(i, u, id, text) ==
    /\ MayRequest(u)
    /\ call' = [call EXCEPT ![i] =
          [phase |-> "analysing", via |-> "web", user |-> u, agent |-> None, tool |-> None,
           conn |-> id, text |-> text, analyze |-> FALSE, have |-> {}, source |-> None,
           target |-> None]]
    /\ UNCHANGED <<policy, audit>>

\* requireAnyPermission, or requirePermission, and getConnectionDetails.
RequestWeb(i, u, id, request) ==
    /\ MayRequest(u)
    /\ IF request \in AdminRequests THEN "admin" \in getUserPermissions(u, id)
       ELSE getUserPermissions(u, id) # {}
    /\ IsKnown(id)
    /\ call' = [call EXCEPT ![i] =
          [phase |-> "running", via |-> "web", user |-> u, agent |-> None, tool |-> request,
           conn |-> id, text |-> None, analyze |-> FALSE, have |-> {}, source |-> Source(id),
           target |-> getConnectionById(id)]]
    /\ UNCHANGED <<policy, audit>>

\* BUG: an unknown connection is left to fail when the client is opened.
SQLPasses_Unresolved(c) ==
    /\ c.text # Malformed
    /\ detectRequiredPermissions(c.text) \subseteq getUserPermissions(c.user, c.conn)

\* requirePermissions, then getConnectionDetails.
SQLPasses(c) ==
    /\ c.text # Malformed
    /\ detectRequiredPermissions(c.text) \subseteq getUserPermissions(c.user, c.conn)
    /\ IsKnown(c.conn)

RunSQL(i) ==
    LET c == call[i]
    IN /\ c.phase = "analysing" /\ c.via = "web" /\ SQLPasses(c)
       /\ call' = [call EXCEPT ![i] =
             [phase |-> "running", via |-> "web", user |-> c.user, agent |-> None, tool |-> None,
              conn |-> c.conn, text |-> c.text, analyze |-> FALSE, have |-> {},
              source |-> Source(c.conn), target |-> getConnectionById(c.conn)]]
       /\ UNCHANGED <<policy, audit>>

RefuseSQL(i) ==
    /\ call[i].phase = "analysing" /\ call[i].via = "web" /\ ~SQLPasses(call[i])
    /\ call' = [call EXCEPT ![i].phase = "refused"]
    /\ UNCHANGED <<policy, audit>>

\* dispatchTool: any tool may be named, advertised or not. The agent's
\* permissions and the connection's settings are read here, before the parse.
CallTool(i, token, tool, id, text, analyze) ==
    /\ tool \in DOMAIN toolPermission /\ (analyze => tool = "explain_query")
    /\ \E a \in config.agents :
          /\ a.token = token
          /\ toolPermission[tool] \in getAgentPermissions(a, id)
          /\ IsKnown(id)
          /\ call' = [call EXCEPT ![i] =
                [phase |-> "analysing", via |-> "mcp", user |-> None, agent |-> a, tool |-> tool,
                 conn |-> id, text |-> text, analyze |-> analyze,
                 have |-> getAgentPermissions(a, id), source |-> Source(id),
                 target |-> getConnectionById(id)]]
    /\ UNCHANGED <<policy, audit>>

\* list_objects and describe_table read the catalog: any permission will do.
BrowseCatalog(i, token, tool, id) ==
    /\ tool \in BrowseTools
    /\ \E a \in config.agents :
          /\ a.token = token
          /\ getAgentPermissions(a, id) # {}
          /\ IsKnown(id)
          /\ call' = [call EXCEPT ![i] =
                [phase |-> "running", via |-> "mcp", user |-> None, agent |-> a, tool |-> tool,
                 conn |-> id, text |-> None, analyze |-> FALSE,
                 have |-> getAgentPermissions(a, id), source |-> Source(id),
                 target |-> getConnectionById(id)]]
    /\ UNCHANGED <<policy, audit>>

\* execute: every statement must be of the tool's own class, and the agent must
\* have whatever else they need.
ExecutePasses(c) ==
    /\ c.text # <<>>
    /\ primaryPermissions(c.text) = {toolPermission[c.tool]}
    /\ detectRequiredPermissions(c.text) \subseteq c.have

\* explainQuery: one SELECT; ANALYZE runs it, so it takes what running it takes.
ExplainPasses(c) ==
    /\ Len(c.text) = 1 /\ c.text[1].kind = "select"
    /\ c.analyze => detectRequiredPermissions(c.text) \subseteq c.have

ToolPasses(c) ==
    /\ c.text # Malformed
    /\ IF c.tool = "explain_query" THEN ExplainPasses(c) ELSE ExecutePasses(c)

RunTool(i) ==
    /\ call[i].phase = "analysing" /\ call[i].via = "mcp" /\ ToolPasses(call[i])
    /\ call' = [call EXCEPT ![i].phase = "running"]
    /\ UNCHANGED <<policy, audit>>

RefuseTool(i) ==
    /\ call[i].phase = "analysing" /\ call[i].via = "mcp" /\ ~ToolPasses(call[i])
    /\ call' = [call EXCEPT ![i].phase = "refused"]
    /\ UNCHANGED <<policy, audit>>

\* What running the call exercises; an EXPLAIN that is not analysed only plans.
Exercised(c) ==
    IF c.text = None THEN IF c.tool \in AdminRequests THEN {"admin"} ELSE {}
    ELSE IF c.tool = "explain_query"
    THEN {"explain"} \cup (IF c.analyze THEN detectRequiredPermissions(c.text) ELSE {})
    ELSE detectRequiredPermissions(c.text)

\* The call is history: the log has the text, not what it exercised.
SqlExecute(i, ok) ==
    LET c == call[i]
    IN [call |-> i, success |-> ok, connection |-> c.conn,
        actor |-> IF c.via = "web" THEN c.user ELSE auditActor(c.agent),
        source |-> c.via, agent |-> IF c.via = "web" THEN None ELSE c.agent.id,
        exercised |-> Exercised(c)]

\* BUG: a statement that failed leaves no trace.
Answer_SuccessesOnly(i, ok) ==
    /\ call[i].phase = "running"
    /\ call' = [call EXCEPT ![i].phase = "answered"]
    /\ audit' = IF call[i].text = None \/ ~ok THEN audit ELSE audit \cup {SqlExecute(i, ok)}
    /\ UNCHANGED policy

\* The database answers or fails: runAndAudit, and the two ends of executeSQL.
\* Browsing is not audited.
Answer(i, ok) ==
    /\ call[i].phase = "running"
    /\ call' = [call EXCEPT ![i].phase = "answered"]
    /\ audit' = IF call[i].text = None THEN audit ELSE audit \cup {SqlExecute(i, ok)}
    /\ UNCHANGED policy

-----------------------------------------------------------------------------

Edit == (EditConnections \/ EditProviders) /\ UNCHANGED <<call, audit>>

\* The audit log is in memory.
Restart == LoadConfig /\ call' = [i \in Calls |-> Idle] /\ audit' = {}

\* A request comes in.
Begin(i) ==
    \/ \E u \in Users, id \in Ids, text \in Texts \cup {Malformed} : SubmitSQL(i, u, id, text)
    \/ \E u \in Users, id \in Ids, request \in WebRequests : RequestWeb(i, u, id, request)
    \/ \E token \in Tokens, tool \in Tools, id \in Ids :
          \/ \E text \in Texts \cup {Malformed}, analyze \in BOOLEAN :
                CallTool(i, token, tool, id, text, analyze)
          \/ BrowseCatalog(i, token, tool, id)

CallStep(i) ==
    \/ call[i].phase = "idle" /\ Begin(i)
    \/ RunSQL(i) \/ RefuseSQL(i) \/ RunTool(i) \/ RefuseTool(i)
    \/ \E ok \in BOOLEAN : Answer(i, ok)

Next == Edit \/ Restart \/ \E i \in Calls : CallStep(i)

Spec == Init /\ [][Next]_vars

-----------------------------------------------------------------------------
(* Properties *)

\* The state is well formed; a call that runs has somewhere to run.
TypeOK ==
    /\ config \in Configs
    /\ stored \in Stores
    /\ providers \in ProviderStores
    /\ \A id \in DOMAIN providers : validateProviderInput(providers[id])
    /\ change \in {None} \cup ConfigChangeEvent
    /\ call \in [Calls -> CallRecord]
    /\ \A i \in Calls : call[i].phase \in {"running", "answered"} => call[i].target \in Definitions

\* What a request may rely on once it was let in. With TypeOK this is inductive.
CallAuthorised(c) ==
    c.phase \in {"analysing", "running", "answered"} =>
        /\ c.conn \in Ids
        /\ c.phase = "analysing" => c.text # None
        /\ c.via = "web" => /\ c.user \in Users /\ c.tool \in WebRequests \cup {None}
                            /\ c.text = None => getUserPermissions(c.user, c.conn) # {}
        /\ c.via = "mcp" => /\ c.agent \in config.agents
                            /\ c.have = getAgentPermissions(c.agent, c.conn)
                            /\ c.have # {}
                            /\ c.target \in Definitions
                            /\ c.text # None => /\ c.tool \in DOMAIN toolPermission
                                                /\ toolPermission[c.tool] \in c.have
        /\ c.source = "store" => c.conn \notin DOMAIN config.connections
        /\ c.phase \in {"running", "answered"} =>
              Exercised(c) \subseteq IF c.via = "web" THEN getUserPermissions(c.user, c.conn)
                                     ELSE c.have

GovernedInv == TypeOK /\ \A i \in Calls : CallAuthorised(call[i])

Live == {i \in Calls : call[i].phase \in {"running", "answered"}}

\* Whoever the audit log names as the author of a statement could have run that
\* statement himself: an agent that acts for a user never does, in his name,
\* what the rules refuse him.
PeopleAnswerForTheirOwn ==
    \A e \in audit : e.actor \in Users
                        => e.exercised \subseteq getUserPermissions(e.actor, e.connection)

\* Where rules apply, an agent of its own does only what rules that name it give:
\* no rule for everybody, for a user or for a group reaches it.
AgentsAreNamed ==
    RulesApply =>
        \A i \in Live : call[i].via = "mcp" /\ call[i].agent.onBehalfOf = None =>
            \A p \in Exercised(call[i]) :
                \E r \in config.iam :
                    /\ r.connection \in {call[i].conn, Wildcard}
                    /\ p \in r.permissions
                    /\ \E m \in r.members : m.kind = "agent" /\ m.id = call[i].agent.id

\* Rules and caps written for a connection of the file never govern a stored one,
\* whatever ids come and go between restarts: a stored connection is reached by
\* rules for every connection alone, be it only to look at its catalogue, and by no
\* agent capped to some connections.
StoreNeedsAWildcard ==
    \A i \in Live : call[i].source = "store" =>
        /\ call[i].via = "mcp" => call[i].agent.connections = None
        /\ RulesApply => \A p \in Exercised(call[i]) :
                            \E r \in config.iam : r.connection = Wildcard /\ p \in r.permissions
        /\ RulesApply /\ call[i].text = None => \E r \in config.iam : r.connection = Wildcard

\* No tool accepts a call it was not advertised for.
AcceptedToolsAreAdvertised ==
    [][\A i \in Calls : call[i].phase = "idle" /\ call'[i].phase # "idle" /\ call'[i].via = "mcp"
          => call'[i].tool \in visibleTools(call'[i].agent)]_vars

\* The states: calls are authorised, by rules that name the agent, on a stored connection by
\* those for every connection; the lists of connections agree, and so do those of AI
\* providers, none of which lacks an address it needs.
GovernedStates ==
    GovernedInv /\ ViewsAgree /\ AgentsAreNamed /\ StoreNeedsAWildcard /\ ProvidersAreReachable

\* The steps: no change of the store touches a shadowed row or goes unaccounted for, and no
\* call is accepted for a tool that was not advertised.
GovernedSteps == ShadowedRowsAreKept /\ ChangesAreAccountedFor /\ AcceptedToolsAreAdvertised

\* Every statement that was run is in the audit log once it is answered, under
\* the actor and the agent that sent it; what was refused is not.
AnsweredIsAudited ==
    \A i \in Calls :
        LET entries == {e \in audit : e.call = i}
        IN IF call[i].phase = "answered" /\ call[i].text # None
           THEN \E ok \in BOOLEAN : entries = {SqlExecute(i, ok)}
           ELSE entries = {}
=============================================================================
