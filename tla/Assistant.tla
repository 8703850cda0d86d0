----------------------------- MODULE Assistant ------------------------------
(***************************************************************************)
(* The AI chat beside the editor: src/components/sql-editor/Chat.tsx, the  *)
(* handlers of server/services/ai-service.ts it calls, and the sessions of *)
(* server/ai/vendors.ts.                                                   *)
(*                                                                         *)
(* The server keeps nothing: a conversation travels in its session id, and *)
(* the schema of the database is put into it by the first message only.    *)
(* What a session tells the model is abstracted to the context it was      *)
(* begun in. A language model, external, answers anything or fails.        *)
(***************************************************************************)
EXTENDS Naturals

CONSTANTS
    Places,         \* the (connection, database) pairs a user can look at
    Schemas,        \* the schemas of each
    Providers,
    TomlProviders,  \* those that pgconsole.toml defines
    Oversized,      \* the places whose schema may be too large for a session id
    MaxSends,       \* bound: messages the user sends
    MaxChanges,     \* bound: everything else the user or an administrator does
    None

Modes == {"current", "all", "custom"}
MaxAutoRetries == 2

ASSUME AssistantAssumption ==
    /\ TomlProviders \subseteq Providers /\ Oversized \subseteq Places
    /\ MaxSends \in Nat /\ MaxChanges \in Nat

VARIABLES
    place, schema,  \* what the editor shows
    list,           \* schemasData, the list of schemas of the place: "asked", "known" or "failed"
    open,           \* the right panel shows the chat
    providers,      \* the server's AI providers
    chat,           \* the state of the Chat component; while it is not shown, the state it
                    \* will begin with
    prompt,         \* initialPrompt: "Explain with AI" has been asked for and not answered
    calls,          \* the requests whose answers the chat still waits for
    stray,          \* history: an answer of another context has come since the last clear
    sends, changes

world == <<place, schema, list, open, providers>>
vars == <<world, chat, prompt, calls, stray, sends, changes>>

\* What a message tells the server, and what the conversation is cleared for.
ContextOf(p, c) == [place |-> p, provider |-> c.provider, mode |-> c.mode, custom |-> c.custom]

Context == ContextOf(place, chat)

\* schemasToSend; the list is empty until it is known.
SchemasToSend(c, s, known) ==
    CASE c.mode = "current" -> {s}
      [] c.mode = "custom" -> c.custom
      [] OTHER -> IF known THEN Schemas ELSE {}

Contexts == [place : Places, provider : Providers \cup {None}, mode : Modes, custom : SUBSET Schemas]
Sessions == [context : Contexts, schemas : SUBSET Schemas]

Requests == [by : {"send", "prompt"}, talk : {"generate", "explain"}, attempt : 0..MaxAutoRetries,
             context : Contexts, schemas : SUBSET Schemas, session : Sessions \cup {None}]

\* The state of the component; messages holds the places that the messages shown are about.
Chats == [provider : Providers \cup {None}, mode : Modes, custom : SUBSET Schemas,
          session : Sessions \cup {None}, messages : SUBSET Places,
          talk : {"generate", "explain"}, loading : BOOLEAN]

FreshChat(provider, mode, custom) ==
    [provider |-> provider, mode |-> mode, custom |-> custom, session |-> None, messages |-> {},
     talk |-> "generate", loading |-> FALSE]

-----------------------------------------------------------------------------
(* The effects of Chat.                                                    *)

\* Mutant. A change of database is not among the dependencies.
Cleared_SameDatabase(c, p) ==
    IF [ContextOf(p, c) EXCEPT !.place = place] = Context THEN c
    ELSE [c EXCEPT !.session = None, !.messages = {}, !.talk = "generate"]

\* The conversation is cleared when its context changes; c is the chat after the change.
Cleared(c, p) ==
    IF ContextOf(p, c) = Context THEN c
    ELSE [c EXCEPT !.session = None, !.messages = {}, !.talk = "generate"]

\* Mutant. The effect asks only when there is no request of its own to cancel.
Explain_AsksOnce(c, p, s, known, asked) ==
    LET begins == asked /\ c.provider # None /\ \A x \in calls : x.by # "prompt"
        request == [by |-> "prompt", talk |-> "explain", attempt |-> 0, context |-> ContextOf(p, c),
                    schemas |-> SchemasToSend(c, s, known), session |-> None]
    IN /\ chat' = IF begins THEN [c EXCEPT !.session = None, !.messages = {p}, !.talk = "explain",
                                          !.loading = TRUE]
                  ELSE c
       /\ calls' = {x \in calls : x.by # "prompt"} \cup (IF begins THEN {request} ELSE {})
       /\ stray' = (stray /\ ~begins /\ ContextOf(p, c) = Context)

\* "Explain with AI": the effect cancels the request it sent when it last ran, and begins a
\* conversation with a request of its own.
Explain(c, p, s, known, asked) ==
    LET begins == asked /\ c.provider # None
        request == [by |-> "prompt", talk |-> "explain", attempt |-> 0, context |-> ContextOf(p, c),
                    schemas |-> SchemasToSend(c, s, known), session |-> None]
    IN /\ chat' = IF begins THEN [c EXCEPT !.session = None, !.messages = {p}, !.talk = "explain",
                                          !.loading = TRUE]
                  ELSE c
       /\ calls' = {x \in calls : x.by # "prompt"} \cup (IF begins THEN {request} ELSE {})
       /\ stray' = (stray /\ ~begins /\ ContextOf(p, c) = Context)

\* The props of the chat that is shown, or its settings, become p, s, l and c.
Changed(c, p, s, l) ==
    /\ place' = p /\ schema' = s /\ list' = l
    /\ Explain(Cleared(c, p), p, s, l = "known", prompt)
    /\ UNCHANGED <<open, providers, prompt, sends>>

-----------------------------------------------------------------------------
(* The server. Without a session the schema is fetched, from the cache of  *)
(* ConnectionRuntime or the database, and begins the history; with one the *)
(* history is all the model is told.                                       *)

History(x) ==
    IF x.session = None THEN [context |-> x.context, schemas |-> x.schemas] ELSE x.session

\* encodeHistory: the session of the reply; none when it does not fit.
Encoded(x) ==
    {History(x)} \cup (IF History(x).context.place \in Oversized THEN {None} ELSE {})

\* response.sessionId || the session the chat has
Kept(session, old) == IF session = None THEN old ELSE session

Answerable(x) == x.context.provider \in providers

-----------------------------------------------------------------------------
(* The answers. A request of handleSend is never cancelled: its answer is  *)
(* shown in whatever conversation there is by then.                        *)

Shown(x, session) ==
    [chat EXCEPT !.messages = @ \cup {x.context.place}, !.session = Kept(session, @)]

\* The conversation the request was part of is not of the context in use.
Foreign(x) == x.context # Context \/ (x.session # None /\ x.session.context # Context)

Applied(x, next) ==
    /\ calls' = (calls \ {x}) \cup next
    /\ stray' = (stray \/ Foreign(x))
    /\ UNCHANGED <<world, sends, changes>>

\* The reply of a message is final: an explanation, SQL that parses or that has been tried
\* often enough, no SQL, or an error in the reply, which brings no session.
Answer(x) ==
    /\ x \in calls /\ x.by = "send" /\ Answerable(x)
    /\ \E session \in Encoded(x) \cup {None} :
           chat' = [Shown(x, session) EXCEPT !.loading = FALSE]
    /\ Applied(x, {}) /\ UNCHANGED prompt

\* SQL that does not parse is sent back to be corrected, in the session it came with.
Retry(x) ==
    /\ x \in calls /\ x.by = "send" /\ x.talk = "generate" /\ x.attempt < MaxAutoRetries
    /\ Answerable(x)
    /\ \E session \in Encoded(x) :
          /\ chat' = Shown(x, session)
          /\ Applied(x, {[x EXCEPT !.attempt = @ + 1, !.session = Kept(session, @)]})
    /\ UNCHANGED prompt

\* The call throws: the provider is gone, or the server cannot be reached.
Throw(x) ==
    /\ x \in calls /\ x.by = "send"
    /\ chat' = [chat EXCEPT !.messages = @ \cup {x.context.place}, !.session = None, !.loading = FALSE]
    /\ Applied(x, {}) /\ UNCHANGED prompt

\* The answer, or the failure, of the request of "Explain with AI". While the list of
\* schemas is not known every render makes a new empty one, so that the effect runs again
\* and cancels the request before its answer comes: see ExplainAgain.
ExplainAnswered(x) ==
    /\ x \in calls /\ x.by = "prompt" /\ list = "known"
    /\ \E session \in {None} \cup (IF Answerable(x) THEN Encoded(x) ELSE {}) :
           chat' = [Shown(x, session) EXCEPT !.loading = FALSE]
    /\ prompt' = FALSE
    /\ Applied(x, {})

-----------------------------------------------------------------------------
(* The user and the administrators.                                        *)

\* Mutant. The request is not made (an await that never comes back).
Send_Lost ==
    /\ open /\ sends < MaxSends /\ sends' = sends + 1
    /\ ~chat.loading /\ chat.provider # None
    /\ chat' = [chat EXCEPT !.messages = @ \cup {place}, !.loading = TRUE]
    /\ UNCHANGED <<world, prompt, calls, stray, changes>>

\* handleSend
Send ==
    /\ open /\ sends < MaxSends /\ sends' = sends + 1
    /\ ~chat.loading /\ chat.provider # None
    /\ chat' = [chat EXCEPT !.messages = @ \cup {place}, !.loading = TRUE]
    /\ calls' = calls \cup {[by |-> "send", talk |-> chat.talk, attempt |-> 0, context |-> Context,
                             schemas |-> SchemasToSend(chat, schema, list = "known"),
                             session |-> chat.session]}
    /\ UNCHANGED <<world, prompt, stray, changes>>

\* handleClearConversation
Clear ==
    /\ chat.messages # {}
    /\ chat' = [chat EXCEPT !.session = None, !.messages = {}, !.talk = "generate"]
    /\ stray' = FALSE
    /\ UNCHANGED <<world, prompt, calls, sends, changes>>

Change == changes < MaxChanges /\ changes' = changes + 1

\* The list is fetched when the chat is mounted, unless it is known or on its way.
FetchedOnMount(l) == IF l = "failed" THEN "asked" ELSE l

\* The right panel shows the chat: its effects run for the first time.
Mounts(asked) ==
    /\ open' = TRUE /\ list' = FetchedOnMount(list)
    /\ Explain(chat, place, schema, list = "known", asked)
    /\ UNCHANGED <<place, schema, providers, sends>>

\* "Explain with AI" in the editor: the panel opens if need be, and the chat's effect runs.
AskToExplain ==
    /\ Change /\ prompt' = TRUE
    /\ IF open THEN Explain(chat, place, schema, list = "known", TRUE) /\ UNCHANGED <<world, sends>>
               ELSE Mounts(TRUE)

\* The panel is opened, or its tab "Chat" is.
OpenPanel == Change /\ ~open /\ Mounts(prompt) /\ UNCHANGED prompt

\* The panel is closed, or shows the other tab: what the chat had is gone, and so are the
\* answers it waited for. Its settings are stored; the prompt waits in the layout.
ClosePanel ==
    /\ Change /\ open /\ open' = FALSE
    /\ chat' = FreshChat(chat.provider, chat.mode, chat.custom) /\ calls' = {} /\ stray' = FALSE
    /\ UNCHANGED <<place, schema, list, providers, prompt, sends>>

\* A render with the list unknown gives the effect a new empty list, so that it begins
\* again, which is a render.
ExplainAgain ==
    /\ open /\ prompt /\ list # "known" /\ chat.provider # None
    /\ Explain(chat, place, schema, FALSE, TRUE)
    /\ UNCHANGED <<world, prompt, sends, changes>>

\* Another connection or database; its schemas may be cached. A chat that is not shown will
\* begin with what was stored for the connection.
SwitchPlace(p) ==
    /\ Change /\ p # place
    /\ \E s \in Schemas, l \in {"asked", "known"} :
          \/ open /\ Changed(chat, p, s, l)
          \/ /\ ~open /\ place' = p /\ schema' = s /\ list' = l
             /\ \E q \in Providers \cup {None}, mode \in Modes, custom \in SUBSET Schemas :
                    chat' = FreshChat(q, mode, custom)
             /\ UNCHANGED <<open, providers, prompt, calls, stray, sends>>

SelectSchema(s) ==
    /\ Change /\ s # schema
    /\ \/ open /\ Changed(chat, place, s, list)
       \/ /\ ~open /\ schema' = s
          /\ UNCHANGED <<place, list, open, providers, chat, prompt, calls, stray, sends>>

\* The settings of a chat that is shown.
Set(c) == open /\ c # chat /\ Changed(c, place, schema, list)

ChooseProvider(p) == Change /\ p \in providers /\ Set([chat EXCEPT !.provider = p])

SetMode(mode) == Change /\ Set([chat EXCEPT !.mode = mode])

\* A checkbox of the custom selection, one for each schema of the list.
ToggleSchema(s) ==
    /\ Change /\ list = "known" /\ chat.mode = "custom"
    /\ Set([chat EXCEPT !.custom = IF s \in @ THEN @ \ {s} ELSE @ \cup {s}])

\* createAIProvider, deleteAIProvider: only those of the store, never those of the file.
CreateAIProvider(p) ==
    /\ Change /\ p \notin providers
    /\ providers' = providers \cup {p}
    /\ UNCHANGED <<place, schema, list, open, chat, prompt, calls, stray, sends>>

DeleteAIProvider(p) ==
    /\ Change /\ p \in providers \ TomlProviders
    /\ providers' = providers \ {p}
    /\ UNCHANGED <<place, schema, list, open, chat, prompt, calls, stray, sends>>

\* The first provider is chosen when none is; the list of providers may never arrive.
AutoSelect ==
    /\ chat.provider = None
    /\ \E p \in providers : Set([chat EXCEPT !.provider = p])
    /\ UNCHANGED changes

\* The query for the list of schemas succeeds, or fails for good after its retry; the effects
\* of a chat that is shown see the new list.
SchemasListed ==
    /\ list = "asked"
    /\ \/ open /\ Changed(chat, place, schema, "known")
       \/ /\ ~open /\ list' = "known"
          /\ UNCHANGED <<place, schema, open, providers, chat, prompt, calls, stray, sends>>
    /\ UNCHANGED changes

SchemasFail ==
    /\ list = "asked" /\ list' = "failed"
    /\ UNCHANGED <<place, schema, open, providers, chat, prompt, calls, stray, sends, changes>>

-----------------------------------------------------------------------------
Init ==
    /\ place \in Places /\ schema \in Schemas /\ list = "asked" /\ open \in BOOLEAN
    /\ providers = TomlProviders
    /\ chat = FreshChat(None, "current", {})
    /\ prompt = FALSE /\ calls = {} /\ stray = FALSE
    /\ sends = 0 /\ changes = 0

Replies == \E x \in calls : Answer(x) \/ Retry(x) \/ Throw(x) \/ ExplainAnswered(x)

Next ==
    \/ \E x \in calls : Answer(x) \/ Retry(x) \/ Throw(x) \/ ExplainAnswered(x)
    \/ Send \/ Clear \/ AskToExplain \/ OpenPanel \/ ClosePanel
    \/ ExplainAgain \/ AutoSelect \/ SchemasListed \/ SchemasFail
    \/ \E p \in Places : SwitchPlace(p)
    \/ \E s \in Schemas : SelectSchema(s) \/ ToggleSchema(s)
    \/ \E p \in Providers : ChooseProvider(p) \/ CreateAIProvider(p) \/ DeleteAIProvider(p)
    \/ \E mode \in Modes : SetMode(mode)

Spec == Init /\ [][Next]_vars

\* Every request is answered or fails, and so does the query for the list of schemas while
\* the chat is shown. Nothing says that it succeeds, that a provider is found, or that the
\* panel is opened.
FairSpec ==
    /\ Spec
    /\ WF_vars(Replies) /\ WF_vars(open /\ (SchemasListed \/ SchemasFail))

-----------------------------------------------------------------------------
(* Properties. *)

AssistantTypeOK ==
    /\ place \in Places /\ schema \in Schemas /\ providers \subseteq Providers
    /\ list \in {"asked", "known", "failed"} /\ open \in BOOLEAN
    /\ chat \in Chats /\ prompt \in BOOLEAN /\ stray \in BOOLEAN
    /\ calls \subseteq Requests
    /\ \A x, y \in {z \in calls : z.by = "prompt"} : x = y

\* A session, and every message shown, belongs to the database, provider and mode in use,
\* unless an answer asked for before a change came after it.
ConversationFitsItsContext ==
    ~stray =>
        /\ chat.session # None => chat.session.context = Context
        /\ chat.messages \subseteq {place}

\* The invariant: types, and conversations of their context.
AssistantInv == AssistantTypeOK /\ ConversationFitsItsContext

\* "Explain with AI" is answered or fails, however often the user changes what the request
\* depends on, as long as the chat is shown, has a provider, and the query for the list of
\* schemas has not failed.
Attended == open /\ chat.provider # None /\ list # "failed"
PromptIsAnswered == prompt ~> (~prompt \/ ~Attended)

\* The chat stops working: the corrections it asks for on its own come to an end. Only
\* "Explain with AI" without a list of schemas goes on and on.
ChatComesToRest == []<>(~chat.loading \/ (prompt /\ list = "failed"))

=============================================================================
