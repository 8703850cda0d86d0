----------------------- MODULE GovernedExecutionProofs -----------------------
(***************************************************************************)
(* Proofs about GovernedExecution, for every set of files an operator may  *)
(* start the server with, all users, agents, connections and requests.     *)
(*                                                                         *)
(* The lemmas of the first part are about the policy alone: what a         *)
(* delegate, an agent of its own, and a connection the file does not       *)
(* define can be granted. GovernedInv carries them to the moment a         *)
(* statement runs: what was checked before the parse still holds after it, *)
(* because the configuration of a process never changes.                   *)
(***************************************************************************)
EXTENDS GovernedExecution, TLAPS

-----------------------------------------------------------------------------
(* The policy *)

\* A delegate has nothing its user has not.
LEMMA DelegateWithinUser ==
    ASSUME NEW a, NEW id, a.onBehalfOf # None
    PROVE  getAgentPermissions(a, id) \subseteq getUserPermissions(a.onBehalfOf, id)
  BY DEF getAgentPermissions

\* An agent of its own has what rules that name it give.
LEMMA SoloByName ==
    ASSUME NEW a, NEW id, a.onBehalfOf = None, RulesApply, NEW p \in getAgentPermissions(a, id)
    PROVE  \E r \in config.iam : /\ r.connection \in {id, Wildcard}
                                 /\ p \in r.permissions
                                 /\ \E m \in r.members : m.kind = "agent" /\ m.id = a.id
<1>1. GrantedBy(id, AgentMembers(a), p)
  BY DEF getAgentPermissions, resolvePermissions
<1>2. PICK r \in config.iam : /\ r.connection \in {Wildcard, id}
                              /\ r.members \cap AgentMembers(a) # {}
                              /\ p \in r.permissions
  BY <1>1 DEF GrantedBy
<1>3. [kind |-> "agent", id |-> a.id] \in r.members
  BY <1>2 DEF AgentMembers
<1> QED
  BY <1>2, <1>3

\* No rule names a connection that the file does not define.
LEMMA UndefinedByWildcard ==
    ASSUME config \in Configs, NEW id, id \notin DOMAIN config.connections, RulesApply,
           NEW members, NEW p \in resolvePermissions(id, members)
    PROVE  \E r \in config.iam : r.connection = Wildcard /\ p \in r.permissions
<1>1. PICK r \in config.iam : r.connection \in {Wildcard, id} /\ p \in r.permissions
  BY DEF resolvePermissions, GrantedBy
<1>2. r.connection \in {Wildcard} \cup DOMAIN config.connections
  BY DEF Configs, Accepted, RuleAccepted
<1> QED
  BY <1>1, <1>2

\* Nor does a cap.
LEMMA CappedToTheFile ==
    ASSUME config \in Configs, NEW a \in config.agents, NEW id,
           id \notin DOMAIN config.connections, getAgentPermissions(a, id) # {}
    PROVE  a.connections = None
<1>1. a.connections # None => a.onBehalfOf # None /\ a.connections \subseteq DOMAIN config.connections
  BY DEF Configs, Accepted, AgentsAccepted, AgentAccepted
<1> QED
  BY <1>1 DEF getAgentPermissions

\* On a connection of the store, an agent has its permissions from a rule for the wildcard.
LEMMA AgentByWildcard ==
    ASSUME config \in Configs, NEW a, NEW id, id \notin DOMAIN config.connections, RulesApply,
           NEW p \in getAgentPermissions(a, id)
    PROVE  \E r \in config.iam : r.connection = Wildcard /\ p \in r.permissions
<1>1. CASE a.onBehalfOf = None
  <2>1. p \in resolvePermissions(id, AgentMembers(a))
    BY <1>1 DEF getAgentPermissions
  <2> QED
    BY <2>1, UndefinedByWildcard
<1>2. CASE a.onBehalfOf # None
  <2>1. p \in resolvePermissions(id, UserMembers(a.onBehalfOf))
    BY <1>2, DelegateWithinUser DEF getUserPermissions
  <2> QED
    BY <2>1, UndefinedByWildcard
<1> QED
  BY <1>1, <1>2

\* The agents of a configuration are agents.
LEMMA AgentsTyped ==
    ASSUME config \in Configs
    PROVE  config.agents \subseteq Agent
  BY AccessControlAssumption DEF Configs, Config

\* A lookup of a connection that is known finds a definition.
LEMMA LookupTyped ==
    ASSUME config \in Configs, stored \in Stores, NEW id, IsKnown(id)
    PROVE  getConnectionById(id) \in Definitions
<1>1. config.connections \in UNION {[C -> Definitions] : C \in SUBSET Ids}
  BY AccessControlAssumption DEF Configs, Config
<1>2. PICK C \in SUBSET Ids : config.connections \in [C -> Definitions]
  BY <1>1
<1>3. PICK S \in SUBSET Ids : stored \in [S -> Definitions]
  BY DEF Stores
<1> QED
  BY <1>2, <1>3 DEF getConnectionById, IsKnown

-----------------------------------------------------------------------------
(* The inductive invariant *)

\* The invariant at the start.
LEMMA InitGoverned == Init => GovernedInv
<1> SUFFICES ASSUME Init PROVE GovernedInv
  OBVIOUS
<1>1. stored \in Stores
  <2>1. stored \in [{} -> Definitions]
    BY DEF Init, PolicyInit
  <2> QED
    BY <2>1 DEF Stores
<1>2. Idle \in CallRecord
  BY DEF Idle, CallRecord, Phases
<1>3. providers \in ProviderStores /\ DOMAIN providers = {}
  <2>1. providers \in [{} -> Provider]
    BY DEF Init, PolicyInit
  <2> QED
    BY <2>1 DEF ProviderStores
<1>4. TypeOK
  BY <1>1, <1>2, <1>3 DEF Init, PolicyInit, TypeOK, Idle
<1> QED
  BY <1>4 DEF Init, GovernedInv, CallAuthorised, Idle

\* What a request may rely on depends on the file alone.
LEMMA SameAuthority ==
    ASSUME UNCHANGED config, NEW c
    PROVE  CallAuthorised(c)' <=> CallAuthorised(c)
  BY DEF CallAuthorised, getAgentPermissions, getUserPermissions, resolvePermissions,
     RulesApply, isAuthEnabled, GrantedBy, UserMembers, AgentMembers

\* An edit of the stored rows touches neither the file nor a request.
LEMMA ConnectionEditTyped ==
    ASSUME TypeOK, EditConnections
    PROVE  /\ stored' \in Stores /\ change' \in ConfigChangeEvent
           /\ UNCHANGED <<config, providers>>
<1>1. PICK u \in Users, id \in Ids :
         \/ \E def \in Definitions : CreateConnection(u, id, def) \/ UpdateConnection(u, id, def)
         \/ DeleteConnection(u, id)
  BY DEF EditConnections
<1>2. PICK S \in SUBSET Ids : stored \in [S -> Definitions]
  BY DEF TypeOK, Stores
<1>3. stored' \in Stores
  <2>1. ASSUME NEW def \in Definitions, stored' = With(id, def) PROVE stored' \in Stores
    <3>1. stored' \in [S \cup {id} -> Definitions]
      BY <1>2, <2>1 DEF With
    <3> QED
      BY <3>1 DEF Stores
  <2>2. ASSUME stored' = [x \in DOMAIN stored \ {id} |-> stored[x]] PROVE stored' \in Stores
    <3>1. stored' \in [S \ {id} -> Definitions]
      BY <1>2, <2>2
    <3> QED
      BY <3>1 DEF Stores
  <2> QED
    BY <1>1, <2>1, <2>2 DEF CreateConnection, UpdateConnection, DeleteConnection
<1>4. change' \in ConfigChangeEvent
  BY <1>1 DEF CreateConnection, UpdateConnection, DeleteConnection, auditConfigChange, ConfigChangeEvent
<1>5. UNCHANGED <<config, providers>>
  BY <1>1 DEF CreateConnection, UpdateConnection, DeleteConnection
<1> QED
  BY <1>3, <1>4, <1>5

\* A row of a provider is what a form that was accepted held, but for the key.
LEMMA ProviderEditTyped ==
    ASSUME TypeOK, EditProviders
    PROVE  /\ providers' \in ProviderStores
           /\ \A id \in DOMAIN providers' : validateProviderInput(providers'[id])
           /\ change' \in ConfigChangeEvent
           /\ UNCHANGED <<config, stored>>
<1>1. PICK u \in Users, id \in ProviderIds :
         \/ \E p \in ProviderForms :
               createAIProvider(u, id, p) \/ \E keep \in BOOLEAN : updateAIProvider(u, id, p, keep)
         \/ deleteAIProvider(u, id)
  BY DEF EditProviders
<1>2. PICK P \in SUBSET ProviderIds : providers \in [P -> Provider]
  BY DEF TypeOK, ProviderStores
<1>3. ASSUME NEW p \in Provider, validateProviderInput(p), providers' = WithProvider(id, p)
      PROVE  /\ providers' \in ProviderStores
             /\ \A x \in DOMAIN providers' : validateProviderInput(providers'[x])
  <2>1. providers' \in [P \cup {id} -> Provider]
    BY <1>2, <1>3 DEF WithProvider
  <2>2. providers' \in ProviderStores
    BY <2>1 DEF ProviderStores
  <2>3. \A x \in DOMAIN providers' : providers'[x] = p \/ (x \in DOMAIN providers /\ providers'[x] = providers[x])
    BY <1>2, <1>3 DEF WithProvider
  <2> QED
    BY <1>3, <2>2, <2>3 DEF TypeOK
<1>4. ASSUME providers' = [x \in DOMAIN providers \ {id} |-> providers[x]]
      PROVE  /\ providers' \in ProviderStores
             /\ \A x \in DOMAIN providers' : validateProviderInput(providers'[x])
  <2>1. providers' \in [P \ {id} -> Provider]
    BY <1>2, <1>4
  <2>2. providers' \in ProviderStores
    BY <2>1 DEF ProviderStores
  <2> QED
    BY <1>4, <2>2 DEF TypeOK
<1>5. CASE \E p \in ProviderForms : createAIProvider(u, id, p)
  <2>1. PICK p \in ProviderForms : createAIProvider(u, id, p)
    BY <1>5
  <2> QED
    BY <2>1, <1>3, AccessControlAssumption DEF createAIProvider, auditConfigChange, ConfigChangeEvent
<1>6. CASE \E p \in ProviderForms, keep \in BOOLEAN : updateAIProvider(u, id, p, keep)
  <2>1. PICK p \in ProviderForms, keep \in BOOLEAN : updateAIProvider(u, id, p, keep)
    BY <1>6
  <2> DEFINE q == [p EXCEPT !.api_key = IF keep THEN providers[id].api_key ELSE @]
  <2>2. p \in Provider /\ id \in P /\ providers[id] \in Provider
    BY <1>2, <2>1, AccessControlAssumption DEF updateAIProvider, requireStoredProvider
  <2>3. q \in Provider /\ q.vendor = p.vendor /\ q.base_url = p.base_url
    BY <2>2 DEF Provider
  <2>4. validateProviderInput(q) /\ providers' = WithProvider(id, q)
    BY <2>1, <2>3 DEF updateAIProvider, validateProviderInput
  <2> HIDE DEF q
  <2> QED
    BY <2>1, <2>3, <2>4, <1>3 DEF updateAIProvider, auditConfigChange, ConfigChangeEvent
<1>7. CASE deleteAIProvider(u, id)
  BY <1>7, <1>4 DEF deleteAIProvider, auditConfigChange, ConfigChangeEvent
<1> QED
  BY <1>1, <1>5, <1>6, <1>7

\* An edit of a connection or a provider leaves the calls that are under way.
LEMMA EditGoverned ==
    ASSUME GovernedInv, Edit
    PROVE  GovernedInv'
<1>1. TypeOK /\ UNCHANGED <<call, audit>> /\ (EditConnections \/ EditProviders)
  BY DEF Edit, GovernedInv
<1>2. /\ stored' \in Stores /\ providers' \in ProviderStores /\ change' \in ConfigChangeEvent
      /\ \A id \in DOMAIN providers' : validateProviderInput(providers'[id])
      /\ UNCHANGED config
  <2>1. CASE EditConnections
    BY <1>1, <2>1, ConnectionEditTyped DEF TypeOK
  <2>2. CASE EditProviders
    BY <1>1, <2>2, ProviderEditTyped DEF TypeOK
  <2> QED
    BY <1>1, <2>1, <2>2
<1>3. TypeOK'
  BY <1>1, <1>2 DEF TypeOK, validateProviderInput
<1>4. ASSUME NEW i \in Calls PROVE CallAuthorised(call[i])'
  BY <1>1, <1>2, SameAuthority DEF GovernedInv
<1> QED
  BY <1>3, <1>4 DEF GovernedInv

\* A restart ends every call and reads the configuration again.
LEMMA RestartGoverned ==
    ASSUME GovernedInv, Restart
    PROVE  GovernedInv'
<1>1. Idle \in CallRecord
  BY DEF Idle, CallRecord, Phases
<1>2. TypeOK'
  BY <1>1 DEF GovernedInv, TypeOK, Restart, LoadConfig, Idle, validateProviderInput
<1> QED
  BY <1>2 DEF GovernedInv, Restart, CallAuthorised, Idle

\* A step of one request keeps the invariant if that request ends well.
LEMMA OneCall ==
    ASSUME GovernedInv, UNCHANGED policy, NEW i \in Calls, NEW c \in CallRecord,
           call' = [call EXCEPT ![i] = c],
           c.phase \in {"running", "answered"} => c.target \in Definitions,
           CallAuthorised(c)
    PROVE  GovernedInv'
<1>1. call' \in [Calls -> CallRecord]
  BY DEF GovernedInv, TypeOK
<1>2. \A j \in Calls : call'[j] = IF j = i THEN c ELSE call[j]
  BY DEF GovernedInv, TypeOK
<1>3. TypeOK'
  BY <1>1, <1>2 DEF GovernedInv, TypeOK, policy, validateProviderInput
<1>4. ASSUME NEW j \in Calls PROVE CallAuthorised(call[j])'
  BY <1>2, SameAuthority DEF GovernedInv, policy
<1> QED
  BY <1>3, <1>4 DEF GovernedInv

\* A query of the web client comes in, and is to be analysed.
LEMMA SubmitGoverned ==
    ASSUME GovernedInv, NEW i \in Calls, NEW u \in Users, NEW id \in Ids,
           NEW text \in Texts \cup {Malformed}, SubmitSQL(i, u, id, text)
    PROVE  GovernedInv'
<1> DEFINE c == [phase |-> "analysing", via |-> "web", user |-> u, agent |-> None, tool |-> None,
                 conn |-> id, text |-> text, analyze |-> FALSE, have |-> {}, source |-> None,
                 target |-> None]
<1>1. c \in CallRecord
  BY DEF CallRecord, Phases
<1>2. CallAuthorised(c)
  BY GovernedExecutionAssumption DEF CallAuthorised
<1>3. call' = [call EXCEPT ![i] = c] /\ UNCHANGED policy /\ c.phase = "analysing"
  BY DEF SubmitSQL
<1> HIDE DEF c
<1> QED
  BY <1>1, <1>2, <1>3, OneCall

\* Another request of the web client comes in, and runs if it is permitted.
LEMMA RequestWebGoverned ==
    ASSUME GovernedInv, NEW i \in Calls, NEW u \in Users, NEW id \in Ids,
           NEW request \in WebRequests, RequestWeb(i, u, id, request)
    PROVE  GovernedInv'
<1> DEFINE c == [phase |-> "running", via |-> "web", user |-> u, agent |-> None, tool |-> request,
                 conn |-> id, text |-> None, analyze |-> FALSE, have |-> {}, source |-> Source(id),
                 target |-> getConnectionById(id)]
<1>1. c.target \in Definitions
  BY LookupTyped DEF RequestWeb, GovernedInv, TypeOK
<1>2. Source(id) \in {"toml", "store"} /\ (Source(id) = "store" => id \notin DOMAIN config.connections)
  BY DEF Source
<1>3. c \in CallRecord
  BY <1>1, <1>2 DEF CallRecord, Phases
<1>4. Exercised(c) \subseteq getUserPermissions(u, id) /\ getUserPermissions(u, id) # {}
  <2>1. Exercised(c) = IF request \in AdminRequests THEN {"admin"} ELSE {}
    BY DEF Exercised
  <2> QED
    BY <2>1 DEF RequestWeb
<1>5. CallAuthorised(c)
  BY <1>2, <1>4 DEF CallAuthorised
<1>6. call' = [call EXCEPT ![i] = c] /\ UNCHANGED policy
  BY DEF RequestWeb
<1> HIDE DEF c
<1> QED
  BY <1>1, <1>3, <1>5, <1>6, OneCall

\* A query of the web client that was analysed runs, if it is permitted.
LEMMA RunSQLGoverned ==
    ASSUME GovernedInv, NEW i \in Calls, RunSQL(i)
    PROVE  GovernedInv'
<1> DEFINE old == call[i]
           c == [phase |-> "running", via |-> "web", user |-> old.user, agent |-> None, tool |-> None,
                 conn |-> old.conn, text |-> old.text, analyze |-> FALSE, have |-> {},
                 source |-> Source(old.conn), target |-> getConnectionById(old.conn)]
<1>1. old \in CallRecord /\ CallAuthorised(old) /\ old.phase = "analysing" /\ old.via = "web"
  BY DEF GovernedInv, TypeOK, RunSQL
<1>2. /\ call' = [call EXCEPT ![i] = c] /\ UNCHANGED policy
      /\ SQLPasses(old)
  BY DEF RunSQL
<1>3. old.conn \in Ids /\ old.user \in Users
  BY <1>1 DEF CallAuthorised
<1>4. c.target \in Definitions
  BY <1>2, LookupTyped DEF SQLPasses, GovernedInv, TypeOK
<1>5. c.source \in {"toml", "store"} /\ (c.source = "store" => c.conn \notin DOMAIN config.connections)
  BY DEF Source
<1>6. c \in CallRecord
  BY <1>1, <1>3, <1>4, <1>5 DEF CallRecord, Phases
<1>7. Exercised(c) \subseteq getUserPermissions(c.user, c.conn)
  <2>1. detectRequiredPermissions(c.text) \subseteq getUserPermissions(c.user, c.conn)
    BY <1>2 DEF SQLPasses
  <2>2. c.tool # "explain_query" /\ c.tool \notin AdminRequests
    BY GovernedExecutionAssumption DEF toolPermission, WebRequests
  <2> QED
    BY <2>1, <2>2 DEF Exercised
<1>8. CallAuthorised(c)
  <2>1. c.text = None => getUserPermissions(c.user, c.conn) # {}
    BY <1>1 DEF CallAuthorised
  <2> QED
    BY <1>3, <1>5, <1>7, <2>1 DEF CallAuthorised
<1> HIDE DEF c
<1> QED
  BY <1>2, <1>4, <1>6, <1>8, OneCall

\* A tool call that gets as far as phase holds what the agent may do there.
LEMMA ToolCallGoverned ==
    ASSUME GovernedInv, UNCHANGED policy, NEW i \in Calls, NEW a \in config.agents,
           NEW tool \in Tools, NEW id \in Ids, NEW text \in Texts \cup {Malformed, None},
           NEW analyze \in BOOLEAN, NEW phase \in {"analysing", "running"},
           getAgentPermissions(a, id) # {}, IsKnown(id),
           text = None => phase = "running",
           text # None => /\ phase = "analysing" /\ tool \in DOMAIN toolPermission
                          /\ toolPermission[tool] \in getAgentPermissions(a, id),
           call' = [call EXCEPT ![i] =
                [phase |-> phase, via |-> "mcp", user |-> None, agent |-> a, tool |-> tool,
                 conn |-> id, text |-> text, analyze |-> analyze,
                 have |-> getAgentPermissions(a, id), source |-> Source(id),
                 target |-> getConnectionById(id)]]
    PROVE  GovernedInv'
<1> DEFINE c == [phase |-> phase, via |-> "mcp", user |-> None, agent |-> a, tool |-> tool,
                 conn |-> id, text |-> text, analyze |-> analyze,
                 have |-> getAgentPermissions(a, id), source |-> Source(id),
                 target |-> getConnectionById(id)]
<1>1. c.target \in Definitions
  BY LookupTyped DEF GovernedInv, TypeOK
<1>2. a \in Agent
  BY AgentsTyped DEF GovernedInv, TypeOK
<1>3. getAgentPermissions(a, id) \subseteq Permissions
  BY DEF getAgentPermissions, getUserPermissions, resolvePermissions
<1>4. Source(id) \in {"toml", "store"} /\ (Source(id) = "store" => id \notin DOMAIN config.connections)
  BY DEF Source
<1>5. c \in CallRecord
  BY <1>1, <1>2, <1>3, <1>4 DEF CallRecord, Phases
<1>6. c.phase \in {"running", "answered"} => Exercised(c) \subseteq c.have
  BY DEF Exercised, Tools, BrowseTools, toolPermission, AdminRequests
<1>7. CallAuthorised(c)
  BY <1>1, <1>4, <1>6 DEF CallAuthorised
<1>8. call' = [call EXCEPT ![i] = c]
  OBVIOUS
<1> HIDE DEF c
<1> QED
  BY <1>1, <1>5, <1>7, <1>8, OneCall

\* A call of a tool that takes SQL comes in.
LEMMA CallToolGoverned ==
    ASSUME GovernedInv, NEW i \in Calls, NEW token \in Tokens, NEW tool \in Tools, NEW id \in Ids,
           NEW text \in Texts \cup {Malformed}, NEW analyze \in BOOLEAN,
           CallTool(i, token, tool, id, text, analyze)
    PROVE  GovernedInv'
<1>1. PICK a \in config.agents :
         /\ toolPermission[tool] \in getAgentPermissions(a, id)
         /\ IsKnown(id)
         /\ call' = [call EXCEPT ![i] =
               [phase |-> "analysing", via |-> "mcp", user |-> None, agent |-> a, tool |-> tool,
                conn |-> id, text |-> text, analyze |-> analyze,
                have |-> getAgentPermissions(a, id), source |-> Source(id),
                target |-> getConnectionById(id)]]
  BY DEF CallTool
<1>2. tool \in DOMAIN toolPermission /\ UNCHANGED policy /\ getAgentPermissions(a, id) # {}
  BY <1>1 DEF CallTool
<1>3. text # None
  BY GovernedExecutionAssumption
<1> QED
  BY <1>1, <1>2, <1>3, ToolCallGoverned

\* A call of a tool that browses the catalogue comes in.
LEMMA BrowseGoverned ==
    ASSUME GovernedInv, NEW i \in Calls, NEW token \in Tokens, NEW tool \in Tools, NEW id \in Ids,
           BrowseCatalog(i, token, tool, id)
    PROVE  GovernedInv'
  BY ToolCallGoverned DEF BrowseCatalog, policy

\* A request that moves on to phase is otherwise as it was.
LEMMA PhaseOnly ==
    ASSUME GovernedInv, UNCHANGED policy, NEW i \in Calls, NEW phase \in Phases,
           call' = [call EXCEPT ![i].phase = phase],
           phase \in {"running", "answered"} =>
              /\ call[i].phase \in {"analysing", "running"}
              /\ call[i].target \in Definitions
              /\ Exercised(call[i]) \subseteq IF call[i].via = "web"
                                             THEN getUserPermissions(call[i].user, call[i].conn)
                                             ELSE call[i].have,
           phase # "analysing"
    PROVE  GovernedInv'
<1> DEFINE old == call[i]
           c == [old EXCEPT !.phase = phase]
<1>1. old \in CallRecord /\ CallAuthorised(old)
  BY DEF GovernedInv, TypeOK
<1>2. call' = [call EXCEPT ![i] = c]
  OBVIOUS
<1>3. c \in CallRecord
  BY <1>1 DEF CallRecord
<1>4. /\ c.phase = phase /\ c.via = old.via /\ c.user = old.user /\ c.agent = old.agent
      /\ c.tool = old.tool /\ c.conn = old.conn /\ c.text = old.text /\ c.analyze = old.analyze
      /\ c.have = old.have /\ c.source = old.source /\ c.target = old.target
  BY <1>1 DEF CallRecord
<1>5. Exercised(c) = Exercised(old)
  BY <1>4 DEF Exercised
<1> HIDE DEF c
<1>6. CallAuthorised(c)
  BY <1>1, <1>4, <1>5 DEF CallAuthorised, Phases
<1> QED
  BY <1>2, <1>3, <1>4, <1>6, OneCall

\* What a tool call is checked for after the parse covers what it exercises.
LEMMA RunToolGoverned ==
    ASSUME GovernedInv, NEW i \in Calls, RunTool(i)
    PROVE  GovernedInv'
<1> DEFINE c == call[i]
<1>1. /\ c \in CallRecord /\ CallAuthorised(c)
      /\ c.phase = "analysing" /\ c.via = "mcp" /\ ToolPasses(c)
  BY DEF GovernedInv, TypeOK, RunTool
<1>2. c.target \in Definitions /\ (c.text # None => toolPermission[c.tool] \in c.have)
  BY <1>1 DEF CallAuthorised
<1>3. Exercised(c) \subseteq c.have
  <2>1. CASE c.text # None /\ c.tool = "explain_query"
    <3>1. "explain" \in c.have
      BY <1>2, <2>1 DEF toolPermission
    <3> QED
      BY <1>1, <2>1, <3>1 DEF Exercised, ToolPasses, ExplainPasses
  <2>2. CASE c.text # None /\ c.tool # "explain_query"
    BY <1>1, <2>2 DEF Exercised, ToolPasses, ExecutePasses
  <2>3. c.text # None
    BY <1>1 DEF CallAuthorised
  <2> QED
    BY <2>1, <2>2, <2>3
<1>4. call' = [call EXCEPT ![i].phase = "running"] /\ UNCHANGED policy
  BY DEF RunTool
<1> QED
  BY <1>1, <1>2, <1>3, <1>4, PhaseOnly DEF Phases

\* A call is refused; it changes nothing else.
LEMMA RefusalGoverned ==
    ASSUME GovernedInv, NEW i \in Calls, RefuseSQL(i) \/ RefuseTool(i)
    PROVE  GovernedInv'
<1>1. call' = [call EXCEPT ![i].phase = "refused"] /\ UNCHANGED policy
  BY DEF RefuseSQL, RefuseTool
<1> QED
  BY <1>1, PhaseOnly DEF Phases

\* The database answers a call that was running.
LEMMA AnswerGoverned ==
    ASSUME GovernedInv, NEW i \in Calls, NEW ok \in BOOLEAN, Answer(i, ok)
    PROVE  GovernedInv'
<1>1. /\ call' = [call EXCEPT ![i].phase = "answered"] /\ UNCHANGED policy
      /\ call[i].phase = "running"
  BY DEF Answer
<1>2. CallAuthorised(call[i]) /\ call[i].target \in Definitions
  BY <1>1 DEF GovernedInv, TypeOK
<1> QED
  BY <1>1, <1>2, PhaseOnly DEF Phases, CallAuthorised

\* Every step keeps the invariant.
LEMMA StepGoverned == GovernedInv /\ [Next]_vars => GovernedInv'
<1> SUFFICES ASSUME GovernedInv, [Next]_vars PROVE GovernedInv'
  OBVIOUS
<1>1. CASE Edit
  BY <1>1, EditGoverned
<1>2. CASE Restart
  BY <1>2, RestartGoverned
<1>3. ASSUME NEW i \in Calls, CallStep(i) PROVE GovernedInv'
  BY <1>3, SubmitGoverned, RequestWebGoverned, RunSQLGoverned, CallToolGoverned, BrowseGoverned, RunToolGoverned,
     RefusalGoverned, AnswerGoverned DEF CallStep, Begin
<1>4. CASE UNCHANGED vars
  <2>1. TypeOK'
    BY <1>4 DEF GovernedInv, TypeOK, vars, policy, validateProviderInput
  <2> QED
    BY <1>4, <2>1, SameAuthority DEF GovernedInv, vars, policy
<1> QED
  BY <1>1, <1>2, <1>3, <1>4 DEF Next

\* The state stays well formed, and every request that was let in keeps the
\* permissions it was let in with.
THEOREM Governed == Spec => []GovernedInv
  BY InitGoverned, StepGoverned, PTL DEF Spec

-----------------------------------------------------------------------------
(* What follows from the invariant *)

\* What the invariant says of a call that is under way.
LEMMA LiveCall ==
    ASSUME GovernedInv, NEW i \in Live
    PROVE  /\ call[i] \in CallRecord
           /\ CallAuthorised(call[i])
           /\ call[i].phase \in {"analysing", "running", "answered"}
  BY DEF GovernedInv, TypeOK, Live

\* What an agent of its own exercises, a rule names the agent for.
LEMMA NamedFromInv == GovernedInv => AgentsAreNamed
<1> SUFFICES ASSUME GovernedInv, RulesApply, NEW i \in Live, call[i].via = "mcp",
                    call[i].agent.onBehalfOf = None, NEW p \in Exercised(call[i])
             PROVE  \E r \in config.iam :
                       /\ r.connection \in {call[i].conn, Wildcard}
                       /\ p \in r.permissions
                       /\ \E m \in r.members : m.kind = "agent" /\ m.id = call[i].agent.id
  BY DEF AgentsAreNamed
<1>1. p \in getAgentPermissions(call[i].agent, call[i].conn)
  BY LiveCall DEF CallAuthorised, Live
<1> QED
  BY <1>1, SoloByName

\* What is exercised on a connection of the store, a rule for the wildcard grants.
LEMMA WildcardFromInv == GovernedInv => StoreNeedsAWildcard
<1> SUFFICES ASSUME GovernedInv, NEW i \in Live, call[i].source = "store"
             PROVE  /\ call[i].via = "mcp" => call[i].agent.connections = None
                    /\ RulesApply => \A p \in Exercised(call[i]) :
                                        \E r \in config.iam : r.connection = Wildcard /\ p \in r.permissions
                    /\ RulesApply /\ call[i].text = None => \E r \in config.iam : r.connection = Wildcard
  BY DEF StoreNeedsAWildcard
<1>1. CallAuthorised(call[i]) /\ config \in Configs /\ call[i].phase \in {"running", "answered"}
  BY LiveCall DEF GovernedInv, TypeOK, Live
<1>2. call[i].conn \notin DOMAIN config.connections
  BY <1>1 DEF CallAuthorised
<1>3. ASSUME call[i].via = "mcp" PROVE call[i].agent.connections = None
  BY <1>1, <1>2, <1>3, CappedToTheFile DEF CallAuthorised
<1>4. ASSUME RulesApply,
             NEW p \in IF call[i].via = "web" THEN getUserPermissions(call[i].user, call[i].conn)
                        ELSE call[i].have
      PROVE  \E r \in config.iam : r.connection = Wildcard /\ p \in r.permissions
  <2>1. CASE call[i].via = "web"
    <3>1. p \in resolvePermissions(call[i].conn, UserMembers(call[i].user))
      BY <1>1, <2>1, <1>4 DEF CallAuthorised, getUserPermissions
    <3> QED
      BY <1>1, <1>2, <1>4, <3>1, UndefinedByWildcard
  <2>2. CASE call[i].via # "web"
    <3>1. call[i].via = "mcp"
      BY <2>2, LiveCall DEF CallRecord
    <3>2. p \in getAgentPermissions(call[i].agent, call[i].conn)
      BY <1>1, <2>2, <3>1, <1>4 DEF CallAuthorised
    <3> QED
      BY <1>1, <1>2, <1>4, <3>2, AgentByWildcard
  <2> QED
    BY <2>1, <2>2
<1>5. Exercised(call[i]) \subseteq IF call[i].via = "web" THEN getUserPermissions(call[i].user, call[i].conn)
                                   ELSE call[i].have
  BY <1>1 DEF CallAuthorised
<1>6. ASSUME RulesApply, call[i].text = None
      PROVE  \E r \in config.iam : r.connection = Wildcard
  <2>1. (IF call[i].via = "web" THEN getUserPermissions(call[i].user, call[i].conn) ELSE call[i].have) # {}
    BY <1>1, <1>6, LiveCall DEF CallAuthorised, CallRecord
  <2> QED
    BY <2>1, <1>4, <1>6
<1> QED
  BY <1>3, <1>4, <1>5, <1>6

\* An agent of its own does only what rules that name it give.
THEOREM NamedAgents == Spec => []AgentsAreNamed
  BY Governed, NamedFromInv, PTL

\* A stored connection is reached by rules for every connection alone.
THEOREM StoredByWildcard == Spec => []StoreNeedsAWildcard
  BY Governed, WildcardFromInv, PTL

\* The list of connections has one entry for each id that a lookup finds.
LEMMA OneEntryPerId ==
    ASSUME NEW id
    PROVE  \A x : (\E d \in getConnections : d.id = id /\ x = d.def)
                     <=> IsKnown(id) /\ x = getConnectionById(id)
<1>1. CASE id \in DOMAIN config.connections
  <2>1. [id |-> id, def |-> config.connections[id]] \in getConnections
    BY <1>1 DEF getConnections
  <2>2. \A d \in getConnections : d.id = id => d.def = config.connections[id]
    BY <1>1 DEF getConnections
  <2> QED
    BY <1>1, <2>1, <2>2 DEF IsKnown, getConnectionById
<1>2. CASE id \in DOMAIN stored \ DOMAIN config.connections
  <2>1. [id |-> id, def |-> stored[id]] \in getConnections
    BY <1>2 DEF getConnections
  <2>2. \A d \in getConnections : d.id = id => d.def = stored[id]
    BY <1>2 DEF getConnections
  <2> QED
    BY <1>2, <2>1, <2>2 DEF IsKnown, getConnectionById
<1>3. CASE ~IsKnown(id)
  BY <1>3 DEF getConnections, IsKnown
<1> QED
  BY <1>1, <1>2, <1>3 DEF IsKnown

\* The merged list, the lookup by id and what a user is shown agree.
THEOREM OneView == Spec => []ViewsAgree
<1>1. GovernedInv => ViewsAgree
  <2> SUFFICES ASSUME GovernedInv PROVE ViewsAgree
    OBVIOUS
  <2>1. ASSUME NEW id, IsKnown(id) PROVE getConnectionById(id) # None
    BY <2>1, LookupTyped, AccessControlAssumption DEF GovernedInv, TypeOK
  <2>2. ASSUME NEW id, ~IsKnown(id) PROVE getConnectionById(id) = None
    BY <2>2 DEF getConnectionById, IsKnown
  <2>3. ASSUME NEW id \in Ids
        PROVE  {c.def : c \in {d \in getConnections : d.id = id}} = {getConnectionById(id)} \ {None}
    <3>1. ASSUME NEW x PROVE x \in {c.def : c \in {d \in getConnections : d.id = id}}
                               <=> IsKnown(id) /\ x = getConnectionById(id)
      <4>1. x \in {c.def : c \in {d \in getConnections : d.id = id}}
               <=> \E d \in getConnections : d.id = id /\ x = d.def
        OBVIOUS
      <4> QED
        BY <4>1, OneEntryPerId
    <3> QED
      BY <2>1, <2>2, <3>1
  <2>4. DOMAIN config.connections \subseteq Ids /\ DOMAIN stored \subseteq Ids
    <3>1. config.connections \in UNION {[C -> Definitions] : C \in SUBSET Ids}
      BY AccessControlAssumption DEF GovernedInv, TypeOK, Configs, Config
    <3>2. stored \in UNION {[S -> Definitions] : S \in SUBSET Ids}
      BY DEF GovernedInv, TypeOK, Stores
    <3> QED
      BY <3>1, <3>2
  <2>5. ASSUME NEW u \in Users
        PROVE  getAccessibleConnectionIds(u) = {id \in Ids : IsKnown(id) /\ getUserPermissions(u, id) # {}}
    <3>1. ~isAuthEnabled => \A id : getUserPermissions(u, id) # {}
      BY DEF getUserPermissions, resolvePermissions, RulesApply, Permissions
    <3>2. ASSUME NEW id
          PROVE  id \in getAccessibleConnectionIds(u)
                    <=> IsKnown(id) /\ (isAuthEnabled => getUserPermissions(u, id) # {})
      <4>1. id \in getAccessibleConnectionIds(u)
               <=> \E d \in getConnections : /\ d.id = id
                                             /\ isAuthEnabled => getUserPermissions(u, d.id) # {}
        BY DEF getAccessibleConnectionIds
      <4> QED
        BY <4>1, OneEntryPerId
    <3> QED
      BY <2>4, <3>1, <3>2 DEF IsKnown
  <2> QED
    BY <2>3, <2>5 DEF ViewsAgree
<1> QED
  BY <1>1, Governed, PTL

-----------------------------------------------------------------------------
(* The audit log *)

\* The event an answer appends names the person whose call it was.
LEMMA AnswerBlamesFairly ==
    ASSUME GovernedInv, PeopleAnswerForTheirOwn, NEW i \in Calls, NEW ok \in BOOLEAN, Answer(i, ok)
    PROVE  PeopleAnswerForTheirOwn'
<1> DEFINE e == SqlExecute(i, ok)
<1>1. /\ audit' \subseteq audit \cup {e}
      /\ UNCHANGED policy
  BY DEF Answer
<1>2. /\ call[i] \in CallRecord /\ CallAuthorised(call[i]) /\ call[i].phase = "running"
      /\ config \in Configs
  BY DEF GovernedInv, TypeOK, Answer
<1>3. e.actor \in Users => e.exercised \subseteq getUserPermissions(e.actor, e.connection)
  <2>1. CASE call[i].via = "web"
    BY <1>2, <2>1 DEF SqlExecute, CallAuthorised
  <2>2. CASE call[i].via = "mcp"
    <3>1. call[i].agent \in Agent
      BY <1>2, <2>2, AgentsTyped DEF CallAuthorised
    <3>2. e.actor \in Users => call[i].agent.onBehalfOf # None /\ e.actor = call[i].agent.onBehalfOf
      BY <2>2, <3>1, AccessControlAssumption DEF SqlExecute, auditActor, Agent
    <3>3. e.exercised \subseteq getAgentPermissions(call[i].agent, call[i].conn)
      BY <1>2, <2>2 DEF SqlExecute, CallAuthorised
    <3> QED
      BY <2>2, <3>2, <3>3, DelegateWithinUser DEF SqlExecute
  <2> QED
    BY <1>2, <2>1, <2>2 DEF CallRecord
<1> HIDE DEF e
<1>4. \A f \in audit' : f.actor \in Users => f.exercised \subseteq getUserPermissions(f.actor, f.connection)
  BY <1>1, <1>3 DEF PeopleAnswerForTheirOwn
<1> QED
  BY <1>1, <1>4 DEF PeopleAnswerForTheirOwn, policy, getUserPermissions, resolvePermissions,
     RulesApply, isAuthEnabled, GrantedBy, UserMembers

\* Whoever the log names as the author of a statement could have run it himself.
THEOREM FairBlame == Spec => []PeopleAnswerForTheirOwn
<1>1. Init => PeopleAnswerForTheirOwn
  BY DEF Init, PeopleAnswerForTheirOwn
<1>2. GovernedInv /\ PeopleAnswerForTheirOwn /\ [Next]_vars => PeopleAnswerForTheirOwn'
  <2> SUFFICES ASSUME GovernedInv, PeopleAnswerForTheirOwn, [Next]_vars
               PROVE  PeopleAnswerForTheirOwn'
    OBVIOUS
  <2>1. ASSUME UNCHANGED <<config, audit>> PROVE PeopleAnswerForTheirOwn'
    BY <2>1 DEF PeopleAnswerForTheirOwn, getUserPermissions, resolvePermissions,
       RulesApply, isAuthEnabled, GrantedBy, UserMembers
  <2>2. CASE Edit
    BY <2>1, <2>2, ConnectionEditTyped, ProviderEditTyped DEF Edit, GovernedInv
  <2>3. CASE Restart
    BY <2>3 DEF Restart, PeopleAnswerForTheirOwn
  <2>4. ASSUME NEW i \in Calls, CallStep(i) PROVE PeopleAnswerForTheirOwn'
    <3>1. CASE \E ok \in BOOLEAN : Answer(i, ok)
      BY <3>1, AnswerBlamesFairly
    <3>2. CASE ~\E ok \in BOOLEAN : Answer(i, ok)
      BY <2>1, <2>4, <3>2 DEF CallStep, Begin, SubmitSQL, RequestWeb, RunSQL, RefuseSQL, CallTool, BrowseCatalog,
         RunTool, RefuseTool, policy
    <3> QED
      BY <3>1, <3>2
  <2>5. CASE UNCHANGED vars
    BY <2>1, <2>5 DEF vars, policy
  <2> QED
    BY <2>2, <2>3, <2>4, <2>5 DEF Next
<1> QED
  BY <1>1, <1>2, Governed, PTL DEF Spec

\* What the log has of one call, which is c.
Recorded(j, c, log) ==
    LET entries == {e \in log : e.call = j}
        Entry(ok) == [call |-> j, success |-> ok, connection |-> c.conn,
                      actor |-> IF c.via = "web" THEN c.user ELSE auditActor(c.agent),
                      source |-> c.via, agent |-> IF c.via = "web" THEN None ELSE c.agent.id,
                      exercised |-> Exercised(c)]
    IN IF c.phase = "answered" /\ c.text # None THEN \E ok \in BOOLEAN : entries = {Entry(ok)}
       ELSE entries = {}

\* The property, a call at a time.
LEMMA RecordedEach == AnsweredIsAudited <=> \A j \in Calls : Recorded(j, call[j], audit)
  BY DEF AnsweredIsAudited, Recorded, SqlExecute

\* A step of call i concerns no other call's entries.
LEMMA OtherCalls ==
    ASSUME AnsweredIsAudited, GovernedInv, NEW i \in Calls, NEW c, call' = [call EXCEPT ![i] = c],
           \A e \in audit' \ audit : e.call = i, audit \subseteq audit', Recorded(i, c, audit')
    PROVE  AnsweredIsAudited'
<1>1. \A j \in Calls : Recorded(j, call[j], audit)
  BY RecordedEach
<1>2. call'[i] = c /\ \A j \in Calls \ {i} : call'[j] = call[j]
  BY DEF GovernedInv, TypeOK
<1>3. ASSUME NEW j \in Calls PROVE Recorded(j, call'[j], audit')
  <2>1. CASE j = i
    BY <1>2, <2>1
  <2>2. CASE j # i
    <3>1. {e \in audit' : e.call = j} = {e \in audit : e.call = j}
      BY <2>2
    <3> QED
      BY <1>1, <1>2, <2>2, <3>1 DEF Recorded
  <2> QED
    BY <2>1, <2>2
<1>4. (\A j \in Calls : Recorded(j, call[j], audit))' => AnsweredIsAudited'
  BY DEF AnsweredIsAudited, Recorded, SqlExecute
<1> QED
  BY <1>3, <1>4

\* The answer writes the one entry.
LEMMA AnswerIsRecorded ==
    ASSUME AnsweredIsAudited, GovernedInv, NEW i \in Calls, NEW ok \in BOOLEAN, Answer(i, ok)
    PROVE  AnsweredIsAudited'
<1> DEFINE old == call[i]
           c == [old EXCEPT !.phase = "answered"]
           entry == SqlExecute(i, ok)
<1>1. /\ old \in CallRecord /\ old.phase = "running" /\ call' = [call EXCEPT ![i] = c]
      /\ audit' = IF old.text = None THEN audit ELSE audit \cup {entry}
  BY DEF Answer, GovernedInv, TypeOK
<1>2. {e \in audit : e.call = i} = {}
  BY <1>1, RecordedEach DEF Recorded
<1>3. /\ c.phase = "answered" /\ c.via = old.via /\ c.user = old.user /\ c.agent = old.agent
      /\ c.tool = old.tool /\ c.conn = old.conn /\ c.text = old.text /\ c.analyze = old.analyze
  BY <1>1 DEF CallRecord
<1>4. Exercised(c) = Exercised(old)
  BY <1>3 DEF Exercised
<1>5. entry.call = i
  BY DEF SqlExecute
<1>6. Recorded(i, c, audit')
  <2>1. CASE old.text = None
    BY <1>1, <1>2, <1>3, <2>1 DEF Recorded
  <2>2. CASE old.text # None
    <3>1. {e \in audit' : e.call = i} = {entry}
      BY <1>1, <1>2, <1>5, <2>2
    <3>2. entry = [call |-> i, success |-> ok, connection |-> c.conn,
                   actor |-> IF c.via = "web" THEN c.user ELSE auditActor(c.agent),
                   source |-> c.via, agent |-> IF c.via = "web" THEN None ELSE c.agent.id,
                   exercised |-> Exercised(c)]
      BY <1>3, <1>4 DEF SqlExecute
    <3> HIDE DEF c, entry
    <3> QED
      BY <1>3, <2>2, <3>1, <3>2 DEF Recorded
  <2> QED
    BY <2>1, <2>2
<1> HIDE DEF c, entry
<1>7. audit \subseteq audit' /\ \A e \in audit' \ audit : e.call = i
  BY <1>1, <1>5
<1> QED
  BY <1>1, <1>6, <1>7, OtherCalls

\* The other steps of a call neither answer it nor write to the log.
LEMMA OthersAreNotRecorded ==
    ASSUME AnsweredIsAudited, GovernedInv, NEW i \in Calls, CallStep(i), ~\E ok \in BOOLEAN : Answer(i, ok)
    PROVE  AnsweredIsAudited'
<1>1. call[i] \in CallRecord
  BY DEF GovernedInv, TypeOK
<1>2. /\ audit' = audit /\ call[i].phase \in {"idle", "analysing"}
      /\ \E c : call' = [call EXCEPT ![i] = c] /\ c.phase # "answered"
  <2>1. CASE call[i].phase = "idle" /\ Begin(i)
    BY <2>1 DEF Begin, SubmitSQL, RequestWeb, CallTool, BrowseCatalog
  <2>2. CASE RunSQL(i)
    <3> DEFINE c == [phase |-> "running", via |-> "web", user |-> call[i].user, agent |-> None,
                     tool |-> None, conn |-> call[i].conn, text |-> call[i].text, analyze |-> FALSE,
                     have |-> {}, source |-> Source(call[i].conn),
                     target |-> getConnectionById(call[i].conn)]
    <3>1. call' = [call EXCEPT ![i] = c] /\ c.phase = "running"
      BY <2>2 DEF RunSQL
    <3> HIDE DEF c
    <3> QED
      BY <2>2, <3>1 DEF RunSQL
  <2>3. ASSUME NEW phase \in {"running", "refused"}, call[i].phase = "analysing", audit' = audit,
               call' = [call EXCEPT ![i].phase = phase]
        PROVE  /\ audit' = audit /\ call[i].phase \in {"idle", "analysing"}
               /\ \E c : call' = [call EXCEPT ![i] = c] /\ c.phase # "answered"
    <3> DEFINE c == [call[i] EXCEPT !.phase = phase]
    <3>1. call' = [call EXCEPT ![i] = c] /\ c.phase = phase
      BY <1>1, <2>3 DEF CallRecord
    <3> QED
      BY <2>3, <3>1
  <2>4. CASE RefuseSQL(i) \/ RunTool(i) \/ RefuseTool(i)
    BY <2>3, <2>4 DEF RefuseSQL, RunTool, RefuseTool
  <2> QED
    BY <2>1, <2>2, <2>4 DEF CallStep
<1>3. PICK c : call' = [call EXCEPT ![i] = c] /\ c.phase # "answered"
  BY <1>2
<1>4. {e \in audit : e.call = i} = {}
  BY <1>2, RecordedEach DEF Recorded
<1>5. Recorded(i, c, audit')
  BY <1>2, <1>3, <1>4 DEF Recorded
<1> QED
  BY <1>2, <1>3, <1>5, OtherCalls

\* Whatever is refused, browsed, restarted or edited meanwhile, a statement that was answered
\* has exactly one entry, under who sent it, and nothing else has any.
THEOREM EveryAnswerIsAudited == Spec => []AnsweredIsAudited
<1>1. Init => AnsweredIsAudited
  BY DEF Init, AnsweredIsAudited, Idle
<1>2. GovernedInv /\ AnsweredIsAudited /\ [Next]_vars => AnsweredIsAudited'
  <2> SUFFICES ASSUME GovernedInv, AnsweredIsAudited, [Next]_vars
               PROVE  AnsweredIsAudited'
    OBVIOUS
  <2>1. CASE UNCHANGED <<call, audit>>
    BY <2>1 DEF AnsweredIsAudited, SqlExecute
  <2>2. CASE Restart
    BY <2>2 DEF Restart, AnsweredIsAudited, Idle
  <2>3. ASSUME NEW i \in Calls, CallStep(i) PROVE AnsweredIsAudited'
    BY <2>3, AnswerIsRecorded, OthersAreNotRecorded
  <2> QED
    BY <2>1, <2>2, <2>3 DEF Next, Edit, vars
<1> QED
  BY <1>1, <1>2, Governed, PTL DEF Spec

-----------------------------------------------------------------------------
(* Edits of the stored connections *)

\* Only an edit touches them.
LEMMA OnlyEdits == [Next]_vars => Edit \/ UNCHANGED <<stored, providers>>
  BY DEF Next, Restart, LoadConfig, CallStep, Begin, SubmitSQL, RequestWeb, RunSQL, RefuseSQL, CallTool,
     BrowseCatalog, RunTool, RefuseTool, Answer, vars, policy

\* Each edit touches one table.
LEMMA OneTable ==
    ASSUME Edit
    PROVE  \/ EditConnections /\ UNCHANGED providers
           \/ EditProviders /\ UNCHANGED stored
  BY DEF Edit, EditConnections, CreateConnection, UpdateConnection, DeleteConnection,
     EditProviders, createAIProvider, updateAIProvider, deleteAIProvider

\* A row the file shadows keeps its settings.
THEOREM ShadowedRows == Spec => ShadowedRowsAreKept
<1> DEFINE A == /\ \A id \in DOMAIN stored \cap DOMAIN config.connections :
                      id \in DOMAIN stored' /\ stored'[id] = stored[id]
                /\ \A id \in DOMAIN providers \cap DOMAIN config.ai :
                      id \in DOMAIN providers' /\ providers'[id] = providers[id]
<1>1. [Next]_vars => [A]_policy
  <2>1. EditConnections => \A id \in DOMAIN stored \cap DOMAIN config.connections :
                              id \in DOMAIN stored' /\ stored'[id] = stored[id]
    BY DEF EditConnections, CreateConnection, UpdateConnection, DeleteConnection, With,
       requireStoreBacked, IsKnown, Source
  <2>2. EditProviders => \A id \in DOMAIN providers \cap DOMAIN config.ai :
                            id \in DOMAIN providers' /\ providers'[id] = providers[id]
    BY DEF EditProviders, createAIProvider, updateAIProvider, deleteAIProvider, WithProvider,
       requireStoredProvider, IsProvider
  <2>3. Edit => A
    BY <2>1, <2>2, OneTable
  <2>4. UNCHANGED <<stored, providers>> => A
    OBVIOUS
  <2> QED
    BY <2>3, <2>4, OnlyEdits
<1> QED
  BY <1>1, PTL DEF Spec, ShadowedRowsAreKept

\* The event of an edit of the connections says what was added or removed.
LEMMA ConnectionEditExplained ==
    ASSUME EditConnections
    PROVE  Explains(change', "connection", DOMAIN stored, DOMAIN stored')
<1> SUFFICES ASSUME NEW u \in Users, NEW id \in Ids,
                    \/ \E def \in Definitions : CreateConnection(u, id, def)
                    \/ \E def \in Definitions : UpdateConnection(u, id, def)
                    \/ DeleteConnection(u, id)
             PROVE  Explains(change', "connection", DOMAIN stored, DOMAIN stored')
  BY DEF EditConnections
<1>1. isAuthEnabled => isOwner(u)
  BY DEF CreateConnection, UpdateConnection, DeleteConnection, requireInstanceAdmin
<1>2. change' \in ConfigChangeEvent /\ change'.actor = u
  BY DEF CreateConnection, UpdateConnection, DeleteConnection, auditConfigChange, ConfigChangeEvent
<1>3. change' # None
  BY <1>2, AccessControlAssumption
<1>4. CASE \E def \in Definitions : CreateConnection(u, id, def)
  BY <1>1, <1>3, <1>4 DEF Explains, CreateConnection, With, auditConfigChange, IsKnown
<1>5. CASE \E def \in Definitions : UpdateConnection(u, id, def)
  BY <1>1, <1>3, <1>5 DEF Explains, UpdateConnection, With, auditConfigChange, requireStoreBacked,
     IsKnown, Source
<1>6. CASE DeleteConnection(u, id)
  BY <1>1, <1>3, <1>6 DEF Explains, DeleteConnection, auditConfigChange, requireStoreBacked, IsKnown, Source
<1> QED
  BY <1>4, <1>5, <1>6

\* The event of an edit of the providers says what was added or removed.
LEMMA ProviderEditExplained ==
    ASSUME EditProviders
    PROVE  Explains(change', "ai_provider", DOMAIN providers, DOMAIN providers')
<1> SUFFICES ASSUME NEW u \in Users, NEW id \in ProviderIds,
                    \/ \E p \in ProviderForms : createAIProvider(u, id, p)
                    \/ \E p \in ProviderForms, keep \in BOOLEAN : updateAIProvider(u, id, p, keep)
                    \/ deleteAIProvider(u, id)
             PROVE  Explains(change', "ai_provider", DOMAIN providers, DOMAIN providers')
  BY DEF EditProviders
<1>1. isAuthEnabled => isOwner(u)
  BY DEF createAIProvider, updateAIProvider, deleteAIProvider, requireInstanceAdmin
<1>2. change' \in ConfigChangeEvent /\ change'.actor = u
  <2>1. PICK action \in {"create", "update", "delete"} :
               change' = [actor |-> u, table |-> "ai_provider", change |-> action, object_id |-> id]
    BY DEF createAIProvider, updateAIProvider, deleteAIProvider, auditConfigChange
  <2> QED
    BY <2>1 DEF ConfigChangeEvent
<1>3. change' # None
  BY <1>2, AccessControlAssumption
<1>4. CASE \E p \in ProviderForms : createAIProvider(u, id, p)
  BY <1>1, <1>3, <1>4 DEF Explains, createAIProvider, WithProvider, auditConfigChange, IsProvider
<1>5. CASE \E p \in ProviderForms, keep \in BOOLEAN : updateAIProvider(u, id, p, keep)
  BY <1>1, <1>3, <1>5 DEF Explains, updateAIProvider, WithProvider, auditConfigChange, requireStoredProvider
<1>6. CASE deleteAIProvider(u, id)
  BY <1>1, <1>3, <1>6 DEF Explains, deleteAIProvider, auditConfigChange, requireStoredProvider
<1> QED
  BY <1>4, <1>5, <1>6

\* The audit log accounts for every change of the stored connections and providers.
THEOREM Accounted == Spec => ChangesAreAccountedFor
<1> DEFINE A == /\ stored' # stored => Explains(change', "connection", DOMAIN stored, DOMAIN stored')
                /\ providers' # providers =>
                      Explains(change', "ai_provider", DOMAIN providers, DOMAIN providers')
<1>1. [Next]_vars => A
  BY OnlyEdits, OneTable, ConnectionEditExplained, ProviderEditExplained
<1>2. [Next]_vars => [A]_policy
  BY <1>1
<1> QED
  BY <1>2, PTL DEF Spec, ChangesAreAccountedFor

-----------------------------------------------------------------------------
(* The tools an agent is shown *)

\* A tool that may be called on some connection is in the list of tools.
LEMMA AdvertisedWhereAllowed ==
    ASSUME NEW a, NEW id, IsKnown(id), NEW tool \in Tools,
           IF tool \in BrowseTools THEN getAgentPermissions(a, id) # {}
           ELSE toolPermission[tool] \in getAgentPermissions(a, id)
    PROVE  tool \in visibleTools(a)
<1>1. PICK d \in getConnections : d.id = id
  BY OneEntryPerId
<1>2. getAgentPermissions(a, id) \in {getAgentPermissions(a, c.id) : c \in getConnections}
  BY <1>1
<1>3. getAgentPermissions(a, id) \in agentAccess(a)
  BY <1>2 DEF agentAccess
<1> QED
  BY <1>3 DEF visibleTools

\* No tool accepts a call it was not advertised for.
THEOREM Advertised == Spec => AcceptedToolsAreAdvertised
<1> DEFINE A == \A i \in Calls : call[i].phase = "idle" /\ call'[i].phase # "idle" /\ call'[i].via = "mcp"
                   => call'[i].tool \in visibleTools(call'[i].agent)
<1>1. ASSUME GovernedInv, [Next]_vars PROVE A
  <2>1. CASE Edit \/ UNCHANGED vars
    BY <2>1 DEF Edit, vars
  <2>2. CASE Restart
    BY <2>2 DEF Restart, Idle
  <2>3. ASSUME NEW i \in Calls, CallStep(i) PROVE A
    <3>1. call \in [Calls -> CallRecord]
      BY <1>1 DEF GovernedInv, TypeOK
    <3>2. ASSUME NEW tool \in Tools, NEW token \in Tokens, NEW id \in Ids,
                 NEW text \in Texts \cup {Malformed}, NEW analyze \in BOOLEAN,
                 CallTool(i, token, tool, id, text, analyze)
          PROVE  A
      <4>1. PICK a \in config.agents :
               /\ toolPermission[tool] \in getAgentPermissions(a, id) /\ IsKnown(id)
               /\ call' = [call EXCEPT ![i] =
                     [phase |-> "analysing", via |-> "mcp", user |-> None, agent |-> a, tool |-> tool,
                      conn |-> id, text |-> text, analyze |-> analyze,
                      have |-> getAgentPermissions(a, id), source |-> Source(id),
                      target |-> getConnectionById(id)]]
        BY <3>2 DEF CallTool
      <4>2. tool \notin BrowseTools
        BY <3>2 DEF CallTool, BrowseTools, toolPermission
      <4>3. tool \in visibleTools(a)
        BY <4>1, <4>2, AdvertisedWhereAllowed
      <4>4. call'[i].tool = tool /\ call'[i].agent = a /\ \A j \in Calls \ {i} : call'[j] = call[j]
        BY <3>1, <4>1
      <4> QED
        BY <4>3, <4>4
    <3>3. ASSUME NEW tool \in Tools, NEW token \in Tokens, NEW id \in Ids,
                 BrowseCatalog(i, token, tool, id)
          PROVE  A
      <4>1. PICK a \in config.agents :
               /\ getAgentPermissions(a, id) # {} /\ IsKnown(id)
               /\ call' = [call EXCEPT ![i] =
                     [phase |-> "running", via |-> "mcp", user |-> None, agent |-> a, tool |-> tool,
                      conn |-> id, text |-> None, analyze |-> FALSE,
                      have |-> getAgentPermissions(a, id), source |-> Source(id),
                      target |-> getConnectionById(id)]]
        BY <3>3 DEF BrowseCatalog
      <4>2. tool \in visibleTools(a)
        BY <3>3, <4>1, AdvertisedWhereAllowed DEF BrowseCatalog
      <4>3. call'[i].tool = tool /\ call'[i].agent = a /\ \A j \in Calls \ {i} : call'[j] = call[j]
        BY <3>1, <4>1
      <4> QED
        BY <4>2, <4>3
    <3>4. ASSUME NEW u \in Users, NEW id \in Ids, NEW text \in Texts \cup {Malformed},
                 SubmitSQL(i, u, id, text)
          PROVE  A
      <4>1. call'[i].via = "web" /\ \A j \in Calls \ {i} : call'[j] = call[j]
        BY <3>1, <3>4 DEF SubmitSQL
      <4> QED
        BY <4>1
    <3>7. ASSUME NEW u \in Users, NEW id \in Ids, NEW request \in WebRequests,
                 RequestWeb(i, u, id, request)
          PROVE  A
      <4>1. call'[i].via = "web" /\ \A j \in Calls \ {i} : call'[j] = call[j]
        BY <3>1, <3>7 DEF RequestWeb
      <4> QED
        BY <4>1
    <3>5. CASE call[i].phase # "idle" /\ \A j \in Calls \ {i} : call'[j] = call[j]
      BY <3>5
    <3>6. RunSQL(i) \/ RefuseSQL(i) \/ RunTool(i) \/ RefuseTool(i) \/ (\E ok \in BOOLEAN : Answer(i, ok))
             => call[i].phase # "idle" /\ \A j \in Calls \ {i} : call'[j] = call[j]
      BY <3>1 DEF RunSQL, RefuseSQL, RunTool, RefuseTool, Answer
    <3> QED
      BY <2>3, <3>2, <3>3, <3>4, <3>5, <3>6, <3>7 DEF CallStep, Begin
  <2> QED
    BY <1>1, <2>1, <2>2, <2>3 DEF Next
<1>2. GovernedInv /\ [Next]_vars => [A]_vars
  BY <1>1
<1> QED
  BY <1>2, Governed, PTL DEF Spec, AcceptedToolsAreAdvertised

-----------------------------------------------------------------------------
(* AI providers                                                            *)

\* The list and the lookup agree on providers, and none lacks an address it needs.
THEOREM ReachableProviders == Spec => []ProvidersAreReachable
<1>1. GovernedInv => ProvidersAreReachable
  <2> SUFFICES ASSUME GovernedInv PROVE ProvidersAreReachable
    OBVIOUS
  <2>1. /\ \A id \in DOMAIN config.ai : config.ai[id] \in Provider /\ ProviderAccepted(config.ai[id])
        /\ \A id \in DOMAIN providers : providers[id] \in Provider /\ validateProviderInput(providers[id])
    <3>1. config \in Configs /\ config.ai \in UNION {[P -> Provider] : P \in SUBSET ProviderIds}
      BY AccessControlAssumption DEF GovernedInv, TypeOK, Configs, Config
    <3>2. providers \in UNION {[P -> Provider] : P \in SUBSET ProviderIds}
      BY DEF GovernedInv, TypeOK, ProviderStores
    <3> QED
      BY <3>1, <3>2 DEF GovernedInv, TypeOK, Configs, Accepted, AIAccepted
  <2>2. ASSUME NEW q \in Provider, ProviderAccepted(q) \/ validateProviderInput(q),
               q.vendor = "openai-compatible"
        PROVE  q.base_url \in Endpoints
    BY <2>2 DEF Provider, Address, ProviderAccepted, validateProviderInput
  <2>3. ASSUME NEW id \in DOMAIN config.ai
        PROVE  LET q == providerOfFile(config.ai[id])
               IN q.vendor = "openai-compatible" => q.base_url \in Endpoints
    BY <2>1, <2>2 DEF providerOfFile, Provider
  <2>4. \A p \in getAIProviders : /\ p.def.vendor = "openai-compatible" => p.def.base_url \in Endpoints
                                  /\ p.def = getAIProviderById(p.id)
    <3> SUFFICES ASSUME NEW p \in getAIProviders
                 PROVE  /\ p.def.vendor = "openai-compatible" => p.def.base_url \in Endpoints
                        /\ p.def = getAIProviderById(p.id)
      OBVIOUS
    <3>1. CASE \E id \in DOMAIN config.ai : p = [id |-> id, def |-> providerOfFile(config.ai[id])]
      BY <3>1, <2>3 DEF getAIProviderById
    <3>2. CASE \E id \in DOMAIN providers \ DOMAIN config.ai : p = [id |-> id, def |-> providers[id]]
      BY <3>2, <2>1, <2>2 DEF getAIProviderById
    <3> QED
      BY <3>1, <3>2 DEF getAIProviders
  <2>5. ASSUME NEW id \in ProviderIds, IsProvider(id) PROVE \E p \in getAIProviders : p.id = id
    <3>1. CASE id \in DOMAIN config.ai
      <4>1. [id |-> id, def |-> providerOfFile(config.ai[id])] \in getAIProviders
        BY <3>1 DEF getAIProviders
      <4> QED
        BY <4>1
    <3>2. CASE id \in DOMAIN providers \ DOMAIN config.ai
      <4>1. [id |-> id, def |-> providers[id]] \in getAIProviders
        BY <3>2 DEF getAIProviders
      <4> QED
        BY <4>1
    <3> QED
      BY <2>5, <3>1, <3>2 DEF IsProvider
  <2> QED
    BY <2>4, <2>5 DEF ProvidersAreReachable
<1> QED
  BY <1>1, Governed, PTL

-----------------------------------------------------------------------------
(* Together.                                                               *)

\* What governs a call holds in every state, whatever the rules, users and agents are.
THEOREM StatesAreGoverned == Spec => []GovernedStates
  BY Governed, NamedAgents, StoredByWildcard, OneView, ReachableProviders, PTL DEF GovernedStates

\* No step of the store or of a call breaks the rules.
THEOREM StepsAreGoverned == Spec => GovernedSteps
  BY ShadowedRows, Accounted, Advertised DEF GovernedSteps
=============================================================================
