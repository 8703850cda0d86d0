---------------------------- MODULE AccessControl ----------------------------
(***************************************************************************)
(* Who may do what: the configuration pgconsole.toml is accepted with      *)
(* (server/lib/config.ts), the grants [[iam]] rules give users and agents  *)
(* (server/lib/iam.ts), the connections and AI providers the file and the  *)
(* UI's store define together, and the edits of the stored ones            *)
(* (server/services/connection-service.ts and ai-service.ts).              *)
(*                                                                         *)
(* The configuration is read once, at start; only a restart brings another *)
(* one, while the stored rows survive it. So the file may gain an          *)
(* id the store already uses, or lose one the store then takes over. The   *)
(* settings of a connection are abstracted to a definition.                *)
(***************************************************************************)
EXTENDS Integers, Sequences, FiniteSets

CONSTANTS
    Users,        \* e-mail addresses, the guest included
    Guest,        \* the user of a server without authentication
    Groups,       \* ids of [[groups]]
    AgentIds,     \* ids of [[agents]]
    Tokens,       \* bearer tokens
    Ids,          \* connection ids, in the file or in the store
    Definitions,  \* what a connection's settings may be
    Labels,       \* ids of [[labels]]
    ProviderIds,  \* ids of AI providers, in the file or in the store
    ProviderForms,\* what the form for a provider may be sent with
    Endpoints,    \* addresses that requests can be sent to: http and https URLs
    Invalid,      \* an address, or a member of a group, of the wrong form
    ConfigSpace,  \* the files an operator may start the server with
    None,
    Wildcard           \* the "*" of a rule's connection and members

Permissions == {"read", "write", "ddl", "admin", "explain", "execute", "export"}

Member == [kind : {"user", "group", "agent", "any"},
           id : Users \cup Groups \cup AgentIds \cup {Wildcard}]

Rule == [connection : Ids \cup {Wildcard}, permissions : SUBSET Permissions, members : SUBSET Member]

Agent == [id : AgentIds, token : Tokens, onBehalfOf : Users \cup {None},
          permissions : {None} \cup SUBSET Permissions, connections : {None} \cup SUBSET Ids]

Address == Endpoints \cup {None, Invalid}

Vendor == {"openai", "anthropic", "google", "openai-compatible", "ollama-cloud"}

\* An AI provider: whether it has a key, and where it is.
Provider == [vendor : Vendor, api_key : BOOLEAN, base_url : Address]

OAuthProvider == [type : {"google", "keycloak", "okta"}, issuer_url : BOOLEAN]

\* [general] and [branding].
General == [external_url : Address, banner_link : Address, logo : Address, retention_days : Int \cup {None}]

\* A parsed file: users in order, those marked owner, the tables by id, and the labels that
\* its connections bear.
Config == [auth : BOOLEAN, oauth : SUBSET OAuthProvider, users : Seq(Users), owners : SUBSET Users,
           general : General, labels : SUBSET Labels, labelled : SUBSET Labels,
           groups : UNION {[G -> SUBSET (Users \cup {Invalid})] : G \in SUBSET Groups},
           connections : UNION {[C -> Definitions] : C \in SUBSET Ids},
           ai : UNION {[P -> Provider] : P \in SUBSET ProviderIds},
           agents : SUBSET Agent, iam : SUBSET Rule]

\* A config.change event of the audit log: "connection.create" is table and change.
ConfigChangeEvent == [actor : Users, table : {"connection", "ai_provider"},
                      change : {"create", "update", "delete"}, object_id : Ids \cup ProviderIds]

ASSUME AccessControlAssumption ==
    /\ ConfigSpace \subseteq Config
    /\ Guest \in Users
    /\ None \notin Users \cup Definitions \cup ConfigChangeEvent
    /\ Users \cap AgentIds = {}     \* an audited "agent:<id>" is nobody's address
    /\ ProviderForms \subseteq Provider
    /\ {None, Invalid} \cap Endpoints = {} /\ Invalid \notin Users
    /\ Wildcard \notin Users \cup Groups \cup AgentIds \cup Ids

VARIABLES
    config,   \* loadedConfig
    stored,   \* rows of the connections table: id -> definition
    providers,\* rows of the ai_providers table: id -> provider
    change    \* the newest config.change event of auditEvents, or None

policy == <<config, stored, providers, change>>

-----------------------------------------------------------------------------
(* config.ts: which files the server starts with *)

Listed(c) == {c.users[i] : i \in DOMAIN c.users}

\* An address that is given must be one.
GeneralAccepted(c) ==
    /\ Invalid \notin {c.general.external_url, c.general.banner_link, c.general.logo}
    /\ c.general.retention_days # None => c.general.retention_days > 0

LabelsAccepted(c) == c.labelled \subseteq c.labels

\* The members of a group are bare e-mail addresses, without the prefix that rules use.
GroupsAccepted(c) == \A g \in DOMAIN c.groups : c.groups[g] \subseteq Users

\* Caps only narrow a delegate, and name connections of the file.
AgentAccepted(c, a) ==
    /\ a.onBehalfOf # None => a.onBehalfOf \in Listed(c)
    /\ a.permissions # None => a.onBehalfOf # None /\ a.permissions # {}
    /\ a.connections # None => a.onBehalfOf # None /\ a.connections \subseteq DOMAIN c.connections

RuleAccepted(c, r) ==
    /\ r.connection \in {Wildcard} \cup DOMAIN c.connections
    /\ r.permissions # {} /\ r.members # {}
    /\ \A m \in r.members :
          /\ m.kind = "group" => m.id \in DOMAIN c.groups
          /\ m.kind = "agent" => m.id \in {a.id : a \in c.agents}

UsersAccepted(c) ==
    /\ \A i, j \in DOMAIN c.users : c.users[i] = c.users[j] => i = j
    /\ c.owners \subseteq Listed(c)

\* Signing in elsewhere needs an address to come back to.
AuthAccepted(c) ==
    c.auth => /\ c.users # <<>>
              /\ c.oauth # {} => c.general.external_url # None
              /\ \A p \in c.oauth : p.type \in {"keycloak", "okta"} => p.issuer_url

\* Only a local runtime may do without a key; it is the one that must say where it is.
ProviderAccepted(p) ==
    /\ p.vendor # "openai-compatible" => p.api_key
    /\ p.vendor = "openai-compatible" => p.base_url # None
    /\ p.vendor \in {"openai-compatible", "ollama-cloud"} => p.base_url # Invalid

AIAccepted(c) == \A id \in DOMAIN c.ai : ProviderAccepted(c.ai[id])

AgentsAccepted(c) ==
    /\ \A a, b \in c.agents : a.id = b.id \/ a.token = b.token => a = b
    /\ \A a \in c.agents : AgentAccepted(c, a)

Accepted(c) ==
    /\ GeneralAccepted(c) /\ LabelsAccepted(c) /\ GroupsAccepted(c) /\ UsersAccepted(c)
    /\ AuthAccepted(c) /\ AIAccepted(c) /\ AgentsAccepted(c)
    /\ \A r \in c.iam : RuleAccepted(c, r)

Configs == {c \in ConfigSpace : Accepted(c)}

isAuthEnabled == config.auth

\* Without an explicit owner the first user is one.
isOwner(u) ==
    \/ u \in config.owners
    \/ config.owners = {} /\ config.users # <<>> /\ u = config.users[1]

\* Nobody else authenticates: with authentication off, every request is the guest's.
MayRequest(u) == isAuthEnabled \/ u = Guest

requireInstanceAdmin(u) == isAuthEnabled => isOwner(u)

-----------------------------------------------------------------------------
(* The file's connections and the store's, merged *)

Source(id) == IF id \in DOMAIN config.connections THEN "toml" ELSE "store"

IsKnown(id) == id \in DOMAIN config.connections \cup DOMAIN stored

\* The file's entry wins; None when neither has one.
getConnectionById(id) ==
    IF id \in DOMAIN config.connections THEN config.connections[id]
    ELSE IF id \in DOMAIN stored THEN stored[id] ELSE None

getConnections ==
    {[id |-> id, def |-> config.connections[id]] : id \in DOMAIN config.connections}
        \cup {[id |-> id, def |-> stored[id]] : id \in DOMAIN stored \ DOMAIN config.connections}

\* The same for AI providers. Of the file's, only those that are reached by address keep it.
providerOfFile(p) ==
    [p EXCEPT !.base_url = IF p.vendor \in {"openai-compatible", "ollama-cloud"} THEN @ ELSE None]

getAIProviderById(id) ==
    IF id \in DOMAIN config.ai THEN providerOfFile(config.ai[id])
    ELSE IF id \in DOMAIN providers THEN providers[id] ELSE None

getAIProviders ==
    {[id |-> id, def |-> providerOfFile(config.ai[id])] : id \in DOMAIN config.ai}
        \cup {[id |-> id, def |-> providers[id]] : id \in DOMAIN providers \ DOMAIN config.ai}

-----------------------------------------------------------------------------
(* iam.ts: what the rules grant *)

UserMembers(u) ==
    {[kind |-> "any", id |-> Wildcard], [kind |-> "user", id |-> u]}
        \cup {[kind |-> "group", id |-> g] : g \in {h \in DOMAIN config.groups : u \in config.groups[h]}}

AgentMembers(a) == {[kind |-> "agent", id |-> a.id]}

\* The rules are in force once authentication is on and there is a rule.
RulesApply == isAuthEnabled /\ config.iam # {}

\* Some rule for this connection gives p to one of these members.
GrantedBy(id, members, p) ==
    \E r \in config.iam : /\ r.connection \in {Wildcard, id}
                          /\ r.members \cap members # {}
                          /\ p \in r.permissions

resolvePermissions(id, members) ==
    {p \in Permissions : RulesApply => GrantedBy(id, members, p)}

getUserPermissions(u, id) == resolvePermissions(id, UserMembers(u))

\* BUG: the cap replaces the user's grant instead of narrowing it.
getAgentPermissions_CapGrants(a, id) ==
    IF a.onBehalfOf = None THEN resolvePermissions(id, AgentMembers(a))
    ELSE IF a.connections # None /\ id \notin a.connections THEN {}
    ELSE IF a.permissions # None THEN a.permissions ELSE getUserPermissions(a.onBehalfOf, id)

\* A delegate has its user's grant, narrowed by its caps; any other agent only
\* what rules that name it give.
getAgentPermissions(a, id) ==
    IF a.onBehalfOf = None THEN resolvePermissions(id, AgentMembers(a))
    ELSE IF a.connections # None /\ id \notin a.connections THEN {}
    ELSE {p \in getUserPermissions(a.onBehalfOf, id) : a.permissions # None => p \in a.permissions}

\* What listConnections shows a user.
getAccessibleConnectionIds(u) ==
    {c.id : c \in {d \in getConnections : isAuthEnabled => getUserPermissions(u, d.id) # {}}}

-----------------------------------------------------------------------------
(* connection-service.ts: edits of the stored connections *)

auditConfigChange(u, table, what, id) ==
    change' = [actor |-> u, table |-> table, change |-> what, object_id |-> id]

With(id, def) == [x \in DOMAIN stored \cup {id} |-> IF x = id THEN def ELSE stored[x]]

\* What the file defines can only be changed there.
requireStoreBacked(id) == IsKnown(id) /\ Source(id) = "store"

CreateConnection(u, id, def) ==
    /\ MayRequest(u) /\ requireInstanceAdmin(u)
    /\ ~IsKnown(id)
    /\ stored' = With(id, def)
    /\ auditConfigChange(u, "connection", "create", id)
    /\ UNCHANGED <<config, providers>>

\* BUG: the check of the owner is left to the UI, which hides the button.
UpdateConnection_Anyone(u, id, def) ==
    /\ MayRequest(u)
    /\ requireStoreBacked(id)
    /\ stored' = With(id, def)
    /\ auditConfigChange(u, "connection", "update", id)
    /\ UNCHANGED <<config, providers>>

UpdateConnection(u, id, def) ==
    /\ MayRequest(u) /\ requireInstanceAdmin(u)
    /\ requireStoreBacked(id)
    /\ stored' = With(id, def)
    /\ auditConfigChange(u, "connection", "update", id)
    /\ UNCHANGED <<config, providers>>

DeleteConnection(u, id) ==
    /\ MayRequest(u) /\ requireInstanceAdmin(u)
    /\ requireStoreBacked(id)
    /\ stored' = [x \in DOMAIN stored \ {id} |-> stored[x]]
    /\ auditConfigChange(u, "connection", "delete", id)
    /\ UNCHANGED <<config, providers>>

-----------------------------------------------------------------------------
(* ai-service.ts: edits of the stored AI providers *)

\* What the form must hold; a missing key is kept, or left out.
validateProviderInput(p) ==
    /\ p.base_url # Invalid
    /\ p.vendor = "openai-compatible" => p.base_url # None

WithProvider(id, p) == [x \in DOMAIN providers \cup {id} |-> IF x = id THEN p ELSE providers[x]]

IsProvider(id) == id \in DOMAIN config.ai \cup DOMAIN providers

\* requireStoreBacked of ai-service.ts.
requireStoredProvider(id) == id \in DOMAIN providers \ DOMAIN config.ai

createAIProvider(u, id, p) ==
    /\ MayRequest(u) /\ requireInstanceAdmin(u)
    /\ validateProviderInput(p) /\ ~IsProvider(id)
    /\ providers' = WithProvider(id, p)
    /\ auditConfigChange(u, "ai_provider", "create", id)
    /\ UNCHANGED <<config, stored>>

\* The form may leave the key as it is.
updateAIProvider(u, id, p, keep) ==
    /\ MayRequest(u) /\ requireInstanceAdmin(u)
    /\ validateProviderInput(p) /\ requireStoredProvider(id)
    /\ providers' = WithProvider(id, [p EXCEPT !.api_key = IF keep THEN providers[id].api_key ELSE @])
    /\ auditConfigChange(u, "ai_provider", "update", id)
    /\ UNCHANGED <<config, stored>>

deleteAIProvider(u, id) ==
    /\ MayRequest(u) /\ requireInstanceAdmin(u)
    /\ requireStoredProvider(id)
    /\ providers' = [x \in DOMAIN providers \ {id} |-> providers[x]]
    /\ auditConfigChange(u, "ai_provider", "delete", id)
    /\ UNCHANGED <<config, stored>>

\* A new process reads the file, which may have been edited; the store is on disk.
LoadConfig ==
    /\ config' \in Configs
    /\ change' = None
    /\ UNCHANGED <<stored, providers>>

PolicyInit ==
    /\ config \in Configs
    /\ stored = [id \in {} |-> None]
    /\ providers = [id \in {} |-> None]
    /\ change = None

EditConnections ==
    \E u \in Users, id \in Ids :
        \/ \E def \in Definitions : CreateConnection(u, id, def) \/ UpdateConnection(u, id, def)
        \/ DeleteConnection(u, id)

EditProviders ==
    \E u \in Users, id \in ProviderIds :
        \/ \E p \in ProviderForms :
              createAIProvider(u, id, p) \/ \E keep \in BOOLEAN : updateAIProvider(u, id, p, keep)
        \/ deleteAIProvider(u, id)

-----------------------------------------------------------------------------
(* Properties of the policy *)

Stores == UNION {[C -> Definitions] : C \in SUBSET Ids}
ProviderStores == UNION {[P -> Provider] : P \in SUBSET ProviderIds}

\* The three ways to ask about connections agree: the merged list has one entry
\* per id, the one a lookup by id finds, and a user is shown exactly the
\* connections on which requireAnyPermission would let him act.
ViewsAgree ==
    /\ \A id \in Ids : {c.def : c \in {d \in getConnections : d.id = id}}
                          = {getConnectionById(id)} \ {None}
    /\ \A u \in Users : getAccessibleConnectionIds(u)
                          = {id \in Ids : IsKnown(id) /\ getUserPermissions(u, id) # {}}

\* The file and the form are validated apart from each other, and by different rules; still,
\* no provider that is on offer needs an address that it does not have, and the merged list
\* and a lookup by id agree.
ProvidersAreReachable ==
    /\ \A p \in getAIProviders : /\ p.def.vendor = "openai-compatible" => p.def.base_url \in Endpoints
                                /\ p.def = getAIProviderById(p.id)
    /\ \A id \in ProviderIds : IsProvider(id) => \E p \in getAIProviders : p.id = id

\* A row that the file came to shadow keeps its settings until the file gives
\* the id back: no edit through the UI reaches it, and a create never replaces a
\* row that is there.
ShadowedRowsAreKept ==
    [][/\ \A id \in DOMAIN stored \cap DOMAIN config.connections :
             id \in DOMAIN stored' /\ stored'[id] = stored[id]
       /\ \A id \in DOMAIN providers \cap DOMAIN config.ai :
             id \in DOMAIN providers' /\ providers'[id] = providers[id]]_policy

\* event says which row of the table came, stayed or went, and whom to ask.
Explains(event, table, before, after) ==
    /\ event # None /\ event.table = table
    /\ isAuthEnabled => isOwner(event.actor)
    /\ event.object_id \in after <=> event.change # "delete"
    /\ event.object_id \in before <=> event.change # "create"
    /\ before \ {event.object_id} = after \ {event.object_id}

\* No change of the stored connections and providers goes unrecorded: the log
\* says which one, whether it came, stayed or went, and whom to ask; with
\* authentication on, that is an owner.
ChangesAreAccountedFor ==
    [][/\ stored' # stored => Explains(change', "connection", DOMAIN stored, DOMAIN stored')
       /\ providers' # providers =>
             Explains(change', "ai_provider", DOMAIN providers, DOMAIN providers')]_policy
=============================================================================
