--------------------------- MODULE AssistantProofs ---------------------------
(***************************************************************************)
(* What a chat shows belongs to the context it is used in.  AssistantInv   *)
(* is inductive as it stands: the history variable stray separates the     *)
(* answers that come after a change of context from all the others.        *)
(***************************************************************************)
EXTENDS Assistant, TLAPS

\* A conversation c that is of the context <<p, c.provider, c.mode>>.
Fits(c, p) ==
    /\ c.session # None => c.session.context = ContextOf(p, c)
    /\ c.messages \subseteq {p}

\* What a request tells about schemas are schemas.
LEMMA SchemasToSendTyped ==
    ASSUME NEW c \in Chats, NEW s \in Schemas, NEW known
    PROVE  SchemasToSend(c, s, known) \in SUBSET Schemas
<1>1. c.custom \in SUBSET Schemas
  BY DEF Chats
<1> QED BY <1>1 DEF SchemasToSend

\* What a message is about is a context.
LEMMA ContextTyped ==
    ASSUME NEW p \in Places, NEW c \in Chats
    PROVE  ContextOf(p, c) \in Contexts
BY DEF ContextOf, Contexts, Chats

\* What the effect of "Explain with AI" leaves behind, whatever asked it to run.
LEMMA ExplainFits ==
    ASSUME AssistantInv, NEW c \in Chats, NEW p \in Places, NEW s \in Schemas, NEW known, NEW asked \in BOOLEAN,
           place' = p, Explain(c, p, s, known, asked),
           ContextOf(p, c) = Context => c.session = chat.session /\ c.messages = chat.messages,
           ContextOf(p, c) # Context => c.session = None /\ c.messages = {}
    PROVE  /\ chat' \in Chats /\ stray' \in BOOLEAN /\ calls' \subseteq Requests
           /\ \A x, y \in {z \in calls' : z.by = "prompt"} : x = y
           /\ ConversationFitsItsContext'
<1> DEFINE begins  == asked /\ c.provider # None
           request == [by |-> "prompt", talk |-> "explain", attempt |-> 0, context |-> ContextOf(p, c),
                       schemas |-> SchemasToSend(c, s, known), session |-> None]
           begun   == [c EXCEPT !.session = None, !.messages = {p}, !.talk = "explain", !.loading = TRUE]
<1>1. /\ chat' = IF begins THEN begun ELSE c
      /\ calls' = {x \in calls : x.by # "prompt"} \cup (IF begins THEN {request} ELSE {})
      /\ stray' = (stray /\ ~begins /\ ContextOf(p, c) = Context)
  BY DEF Explain
<1>2. calls \subseteq Requests /\ chat \in Chats /\ stray \in BOOLEAN
  BY DEF AssistantInv, AssistantTypeOK
<1>3. begun \in Chats
  BY DEF Chats
<1>4. request \in Requests
  BY ContextTyped, SchemasToSendTyped DEF Requests, MaxAutoRetries
<1>5. chat' \in Chats /\ stray' \in BOOLEAN /\ calls' \subseteq Requests
  BY <1>1, <1>2, <1>3, <1>4
<1>6. \A x, y \in {z \in calls' : z.by = "prompt"} : x = y
  BY <1>1
<1>7. ConversationFitsItsContext'
  <2> SUFFICES ASSUME ~stray' PROVE Fits(chat', p)
    BY DEF ConversationFitsItsContext, Fits, Context, ContextOf
  <2>1. CASE begins
    BY <1>1, <2>1 DEF Fits, Chats
  <2>2. CASE ~begins /\ ContextOf(p, c) # Context
    BY <1>1, <2>2 DEF Fits
  <2>3. CASE ~begins /\ ContextOf(p, c) = Context
    <3>1. ~stray /\ chat' = c
      BY <1>1, <1>2, <2>3
    <3>2. p = place
      BY <2>3 DEF Context, ContextOf
    <3> QED BY <2>3, <3>1, <3>2 DEF AssistantInv, ConversationFitsItsContext, Fits
  <2> QED BY <2>1, <2>2, <2>3
<1> QED BY <1>5, <1>6, <1>7

-----------------------------------------------------------------------------
(* The answers.                                                            *)

\* The history a request continues or begins, and the session made of it, are sessions.
LEMMA HistoryTyped ==
    ASSUME NEW x \in Requests
    PROVE  History(x) \in Sessions /\ Encoded(x) \subseteq Sessions \cup {None}
BY DEF History, Encoded, Requests, Sessions

\* The context that the session of an answer is of: that of the request's own session, or of
\* the request.
LEMMA SessionOfTheRequest ==
    ASSUME NEW x \in Requests, NEW c, ~Foreign(x), Context = c,
           NEW session \in Encoded(x) \cup {None}, session # None
    PROVE  session.context = c
BY DEF Foreign, Encoded, History, Requests, Sessions

\* A request whose answer comes leaves the chat of a context if it was of one.
LEMMA ShownFits ==
    ASSUME AssistantInv, NEW x \in calls, NEW session \in Encoded(x) \cup {None}
    PROVE  /\ Shown(x, session) \in Chats
           /\ [Shown(x, session) EXCEPT !.loading = FALSE] \in Chats
           /\ ~stray /\ ~Foreign(x) => /\ Fits(Shown(x, session), place)
                                       /\ Fits([Shown(x, session) EXCEPT !.loading = FALSE], place)
<1>1. x \in Requests /\ chat \in Chats
  BY DEF AssistantInv, AssistantTypeOK
<1>2. session \in Sessions \cup {None} /\ x.context.place \in Places
  BY <1>1, HistoryTyped DEF Requests, Contexts
<1>3. Shown(x, session) \in Chats /\ [Shown(x, session) EXCEPT !.loading = FALSE] \in Chats
  BY <1>1, <1>2 DEF Shown, Kept, Chats
<1>4. ASSUME ~stray, ~Foreign(x)
      PROVE  /\ Fits(Shown(x, session), place)
             /\ Fits([Shown(x, session) EXCEPT !.loading = FALSE], place)
  <2>1. x.context = Context /\ x.context.place = place
    BY <1>4 DEF Foreign, Context, ContextOf
  <2>2. session # None => session.context = Context
    BY <1>1, <1>4, SessionOfTheRequest
  <2>3. Fits(chat, place)
    BY <1>4 DEF AssistantInv, ConversationFitsItsContext, Fits, Context
  <2>4. /\ Shown(x, session).provider = chat.provider /\ Shown(x, session).mode = chat.mode
        /\ Shown(x, session).custom = chat.custom
        /\ Shown(x, session).session = Kept(session, chat.session)
        /\ Shown(x, session).messages = chat.messages \cup {place}
    BY <1>1, <2>1 DEF Shown, Chats
  <2> QED BY <1>3, <2>2, <2>3, <2>4 DEF Fits, Kept, Context, ContextOf, Chats
<1> QED BY <1>3, <1>4

\* What a step needs to establish when the world stays and a chat is shown.
LEMMA KeptFits ==
    ASSUME AssistantInv, UNCHANGED world, chat' \in Chats, prompt' \in BOOLEAN, stray' \in BOOLEAN,
           calls' \subseteq Requests, \A x, y \in {z \in calls' : z.by = "prompt"} : x = y,
           ~stray' => Fits(chat', place)
    PROVE  AssistantInv'
BY DEF AssistantInv, AssistantTypeOK, ConversationFitsItsContext, Fits, Context, ContextOf, world

\* The context in use is one.
LEMMA ContextInUse == AssistantInv => Context \in Contexts
BY ContextTyped DEF AssistantInv, AssistantTypeOK, Context

\* Every kind of answer keeps the invariant; stray is set when the request was of another context.
LEMMA RepliesFit ==
    ASSUME AssistantInv, NEW x \in calls, Answer(x) \/ Retry(x) \/ Throw(x) \/ ExplainAnswered(x)
    PROVE  AssistantInv'
<1> USE DEF Applied
<1>1. /\ calls \subseteq Requests /\ chat \in Chats /\ prompt \in BOOLEAN /\ stray \in BOOLEAN
      /\ \A y, z \in {w \in calls : w.by = "prompt"} : y = z
  BY DEF AssistantInv, AssistantTypeOK
<1>2. Foreign(x) \in BOOLEAN
  BY DEF Foreign
<1>3. CASE Answer(x)
  <2>1. PICK session \in Encoded(x) \cup {None} : chat' = [Shown(x, session) EXCEPT !.loading = FALSE]
    BY <1>3 DEF Answer
  <2> QED BY <1>1, <1>2, <1>3, <2>1, ShownFits, KeptFits DEF Answer
<1>4. CASE Retry(x)
  <2>1. PICK session \in Encoded(x) :
            /\ chat' = Shown(x, session)
            /\ calls' = (calls \ {x}) \cup {[x EXCEPT !.attempt = @ + 1, !.session = Kept(session, @)]}
            /\ stray' = (stray \/ Foreign(x)) /\ UNCHANGED world
    BY <1>4 DEF Retry
  <2>2. x \in Requests /\ x.attempt \in 0..MaxAutoRetries /\ x.attempt < MaxAutoRetries /\ x.by = "send"
    BY <1>1, <1>4 DEF Retry, Requests
  <2>3. Kept(session, x.session) \in Sessions \cup {None}
    BY <2>1, <2>2, HistoryTyped DEF Kept, Requests
  <2>4. x.attempt + 1 \in 0..MaxAutoRetries
    BY <2>2 DEF MaxAutoRetries
  <2> DEFINE again == [x EXCEPT !.attempt = @ + 1, !.session = Kept(session, @)]
  <2>5. again \in Requests /\ again.by = "send"
    BY <2>2, <2>3, <2>4 DEF Requests
  <2>6. calls' \subseteq Requests /\ \A y, z \in {w \in calls' : w.by = "prompt"} : y = z
    BY <1>1, <2>1, <2>5
  <2> QED BY <1>1, <1>2, <1>4, <2>1, <2>6, ShownFits, KeptFits DEF Retry
<1>5. CASE Throw(x)
  <2>1. x.context.place \in Places
    BY <1>1 DEF Requests, Contexts
  <2>2. chat' = [chat EXCEPT !.messages = @ \cup {x.context.place}, !.session = None, !.loading = FALSE]
    BY <1>5 DEF Throw
  <2>3. chat' \in Chats /\ chat'.session = None /\ chat'.messages = chat.messages \cup {x.context.place}
    BY <1>1, <2>1, <2>2 DEF Chats
  <2>4. ~stray' => Fits(chat', place)
    <3> SUFFICES ASSUME ~stray' PROVE chat'.messages \subseteq {place}
      BY <2>3 DEF Fits
    <3>1. ~stray /\ x.context = Context
      BY <1>2, <1>5 DEF Throw, Foreign
    <3>2. x.context.place = place
      BY <3>1 DEF Context, ContextOf
    <3> QED BY <2>3, <3>1, <3>2 DEF AssistantInv, ConversationFitsItsContext
  <2> QED BY <1>1, <1>2, <1>5, <2>3, <2>4, KeptFits DEF Throw
<1>6. CASE ExplainAnswered(x)
  <2>1. PICK session \in Encoded(x) \cup {None} : chat' = [Shown(x, session) EXCEPT !.loading = FALSE]
    BY <1>6 DEF ExplainAnswered
  <2> QED BY <1>1, <1>2, <1>6, <2>1, ShownFits, KeptFits DEF ExplainAnswered
<1> QED BY <1>3, <1>4, <1>5, <1>6

-----------------------------------------------------------------------------
(* The user and the administrators.                                        *)

\* What a change of the props or of the settings leaves: c is the chat with its new settings.
LEMMA ChangedFits ==
    ASSUME AssistantInv, NEW c \in Chats, NEW p \in Places, NEW s \in Schemas,
           NEW l \in {"asked", "known", "failed"},
           c.session = chat.session, c.messages = chat.messages, Changed(c, p, s, l)
    PROVE  AssistantInv'
<1> DEFINE d == Cleared(c, p)
<1>1. /\ d \in Chats /\ d.provider = c.provider /\ d.mode = c.mode /\ d.custom = c.custom
      /\ ContextOf(p, c) = Context => d = c
      /\ ContextOf(p, c) # Context => d.session = None /\ d.messages = {}
  BY DEF Cleared, Chats
<1>2. ContextOf(p, d) = ContextOf(p, c)
  BY <1>1 DEF ContextOf
<1>3. /\ ContextOf(p, d) = Context => d.session = chat.session /\ d.messages = chat.messages
      /\ ContextOf(p, d) # Context => d.session = None /\ d.messages = {}
  BY <1>1, <1>2
<1>4. /\ place' = p /\ schema' = s /\ list' = l /\ prompt' = prompt /\ prompt \in BOOLEAN
      /\ Explain(d, p, s, l = "known", prompt) /\ UNCHANGED <<open, providers>>
  BY DEF Changed, AssistantInv, AssistantTypeOK
<1> HIDE DEF d
<1>5. /\ chat' \in Chats /\ stray' \in BOOLEAN /\ calls' \subseteq Requests
      /\ \A x, y \in {z \in calls' : z.by = "prompt"} : x = y
      /\ ConversationFitsItsContext'
  BY <1>1, <1>3, <1>4, ExplainFits
<1> QED BY <1>4, <1>5 DEF AssistantInv, AssistantTypeOK

\* The same of a setting.
LEMMA SetFits ==
    ASSUME AssistantInv, NEW c \in Chats, c.session = chat.session, c.messages = chat.messages, Set(c)
    PROVE  AssistantInv'
BY ChangedFits DEF Set, AssistantInv, AssistantTypeOK

\* A chat that is not shown begins empty, with any settings.
LEMMA FreshFits ==
    ASSUME NEW q \in Providers \cup {None}, NEW mode \in Modes, NEW custom \in SUBSET Schemas
    PROVE  /\ FreshChat(q, mode, custom) \in Chats
           /\ FreshChat(q, mode, custom).session = None /\ FreshChat(q, mode, custom).messages = {}
BY DEF FreshChat, Chats

\* A change of what the editor shows, or of the settings, clears what is not of the new context.
LEMMA ChangesFit ==
    ASSUME AssistantInv, AssistantAssumption,
           \/ AutoSelect \/ SchemasListed \/ SchemasFail
           \/ \E p \in Places : SwitchPlace(p)
           \/ \E s \in Schemas : SelectSchema(s) \/ ToggleSchema(s)
           \/ \E p \in Providers : ChooseProvider(p)
           \/ \E mode \in Modes : SetMode(mode)
    PROVE  AssistantInv'
<1>1. /\ chat \in Chats /\ place \in Places /\ schema \in Schemas /\ providers \subseteq Providers
      /\ list \in {"asked", "known", "failed"} /\ open \in BOOLEAN
  BY DEF AssistantInv, AssistantTypeOK
<1>2. ASSUME NEW p \in Providers, Set([chat EXCEPT !.provider = p])
      PROVE  AssistantInv'
  <2>1. /\ [chat EXCEPT !.provider = p] \in Chats
        /\ [chat EXCEPT !.provider = p].session = chat.session
        /\ [chat EXCEPT !.provider = p].messages = chat.messages
    BY <1>1 DEF Chats
  <2> QED BY <1>2, <2>1, SetFits
<1>3. CASE AutoSelect
  BY <1>1, <1>2, <1>3 DEF AutoSelect
<1>4. ASSUME SchemasListed \/ SchemasFail PROVE AssistantInv'
  <2>1. CASE SchemasListed /\ open
    BY <1>1, <2>1, ChangedFits DEF SchemasListed
  <2>2. CASE ~(SchemasListed /\ open)
    <3>1. /\ list' \in {"asked", "known", "failed"}
          /\ UNCHANGED <<place, schema, open, providers, chat, prompt, calls, stray>>
      BY <1>1, <1>4, <2>2 DEF SchemasListed, SchemasFail
    <3> QED BY <3>1 DEF AssistantInv, AssistantTypeOK, ConversationFitsItsContext, Context, ContextOf
  <2> QED BY <2>1, <2>2
<1>5. ASSUME NEW p \in Places, SwitchPlace(p) PROVE AssistantInv'
  <2>1. PICK s \in Schemas, l \in {"asked", "known"} :
          \/ open /\ Changed(chat, p, s, l)
          \/ /\ ~open /\ place' = p /\ schema' = s /\ list' = l
             /\ \E q \in Providers \cup {None}, mode \in Modes, custom \in SUBSET Schemas :
                    chat' = FreshChat(q, mode, custom)
             /\ UNCHANGED <<open, providers, prompt, calls, stray, sends>>
    BY <1>5 DEF SwitchPlace
  <2>2. CASE open /\ Changed(chat, p, s, l)
    BY <1>1, <2>2, ChangedFits
  <2>3. CASE ~(open /\ Changed(chat, p, s, l))
    <3>1. chat' \in Chats /\ chat'.session = None /\ chat'.messages = {}
      BY <2>1, <2>3, FreshFits
    <3>2. /\ place' \in Places /\ schema' \in Schemas /\ list' \in {"asked", "known", "failed"}
          /\ UNCHANGED <<open, providers, prompt, calls, stray>>
      BY <2>1, <2>3
    <3> QED BY <3>1, <3>2 DEF AssistantInv, AssistantTypeOK, ConversationFitsItsContext
  <2> QED BY <2>2, <2>3
<1>6. ASSUME NEW s \in Schemas, SelectSchema(s) PROVE AssistantInv'
  <2>1. CASE open /\ Changed(chat, place, s, list)
    BY <1>1, <2>1, ChangedFits
  <2>2. CASE ~(open /\ Changed(chat, place, s, list))
    <3>1. schema' \in Schemas /\ UNCHANGED <<place, list, open, providers, chat, prompt, calls, stray>>
      BY <1>6, <2>2 DEF SelectSchema
    <3> QED BY <3>1 DEF AssistantInv, AssistantTypeOK, ConversationFitsItsContext, Context, ContextOf
  <2> QED BY <2>1, <2>2
<1>7. ASSUME NEW p \in Providers, ChooseProvider(p) PROVE AssistantInv'
  BY <1>2, <1>7 DEF ChooseProvider
<1>8. ASSUME NEW mode \in Modes, SetMode(mode) PROVE AssistantInv'
  <2>1. /\ [chat EXCEPT !.mode = mode] \in Chats
        /\ [chat EXCEPT !.mode = mode].session = chat.session
        /\ [chat EXCEPT !.mode = mode].messages = chat.messages
    BY <1>1 DEF Chats
  <2> QED BY <1>8, <2>1, SetFits DEF SetMode
<1>9. ASSUME NEW s \in Schemas, ToggleSchema(s) PROVE AssistantInv'
  <2> DEFINE c == [chat EXCEPT !.custom = IF s \in @ THEN @ \ {s} ELSE @ \cup {s}]
  <2>1. c \in Chats /\ c.session = chat.session /\ c.messages = chat.messages
    BY <1>1 DEF Chats
  <2>2. Set(c)
    BY <1>9 DEF ToggleSchema
  <2> HIDE DEF c
  <2> QED BY <2>1, <2>2, SetFits
<1> QED BY <1>3, <1>4, <1>5, <1>6, <1>7, <1>8, <1>9

\* A message of the user is about the place in use and continues its conversation.
LEMMA SendFits ==
    ASSUME AssistantInv, Send
    PROVE  AssistantInv'
<1>1. /\ calls \subseteq Requests /\ chat \in Chats /\ prompt \in BOOLEAN /\ stray \in BOOLEAN
      /\ place \in Places /\ schema \in Schemas
      /\ \A y, z \in {w \in calls : w.by = "prompt"} : y = z
  BY DEF AssistantInv, AssistantTypeOK
<1> DEFINE request == [by |-> "send", talk |-> chat.talk, attempt |-> 0, context |-> Context,
                       schemas |-> SchemasToSend(chat, schema, list = "known"), session |-> chat.session]
<1>2. request \in Requests
  BY <1>1, ContextInUse, SchemasToSendTyped DEF Requests, Chats, MaxAutoRetries
<1>3. calls' = calls \cup {request} /\ UNCHANGED <<world, prompt, stray>>
  BY DEF Send
<1>4. /\ chat' \in Chats /\ chat'.session = chat.session /\ chat'.messages = chat.messages \cup {place}
      /\ chat'.provider = chat.provider /\ chat'.mode = chat.mode /\ chat'.custom = chat.custom
  BY <1>1 DEF Send, Chats
<1>5. ~stray' => Fits(chat', place)
  BY <1>3, <1>4 DEF Fits, Context, ContextOf, AssistantInv, ConversationFitsItsContext
<1>6. calls' \subseteq Requests /\ \A y, z \in {w \in calls' : w.by = "prompt"} : y = z
  BY <1>1, <1>2, <1>3
<1> QED BY <1>1, <1>3, <1>4, <1>5, <1>6, KeptFits

\* Clearing, asking to explain, the chat shown again, and the administrators' edits.
LEMMA RestFits ==
    ASSUME AssistantInv, AssistantAssumption,
           \/ Clear \/ AskToExplain \/ OpenPanel \/ ClosePanel \/ ExplainAgain
           \/ \E p \in Providers : CreateAIProvider(p) \/ DeleteAIProvider(p)
    PROVE  AssistantInv'
<1>1. /\ calls \subseteq Requests /\ chat \in Chats /\ prompt \in BOOLEAN /\ stray \in BOOLEAN
      /\ place \in Places /\ schema \in Schemas /\ providers \subseteq Providers
      /\ list \in {"asked", "known", "failed"} /\ open \in BOOLEAN
      /\ \A y, z \in {w \in calls : w.by = "prompt"} : y = z
      /\ ConversationFitsItsContext
  BY DEF AssistantInv, AssistantTypeOK
<1>2. CASE Clear
  <2>1. chat' \in Chats /\ chat'.session = None /\ chat'.messages = {}
    BY <1>1, <1>2 DEF Clear, Chats
  <2> QED BY <1>1, <1>2, <2>1, KeptFits DEF Clear, Fits
<1>3. ASSUME NEW asked \in BOOLEAN, Explain(chat, place, schema, list = "known", asked),
             prompt' \in BOOLEAN, open' \in BOOLEAN, list' \in {"asked", "known", "failed"},
             UNCHANGED <<place, schema, providers>>
      PROVE  AssistantInv'
  <2>1. ContextOf(place, chat) = Context
    BY DEF Context
  <2>2. /\ chat' \in Chats /\ stray' \in BOOLEAN /\ calls' \subseteq Requests
        /\ \A x, y \in {z \in calls' : z.by = "prompt"} : x = y
        /\ ConversationFitsItsContext'
    BY <1>1, <1>3, <2>1, ExplainFits
  <2> QED BY <1>1, <1>3, <2>2 DEF AssistantInv, AssistantTypeOK
<1>4. ASSUME NEW asked \in BOOLEAN, Mounts(asked), prompt' \in BOOLEAN PROVE AssistantInv'
  BY <1>1, <1>3, <1>4 DEF Mounts, FetchedOnMount
<1>5. CASE AskToExplain
  <2>1. CASE open
    BY <1>1, <1>3, <1>5, <2>1 DEF AskToExplain, world
  <2>2. CASE ~open
    BY <1>1, <1>4, <1>5, <2>2 DEF AskToExplain
  <2> QED BY <1>1, <2>1, <2>2
<1>6. CASE OpenPanel
  BY <1>1, <1>4, <1>6 DEF OpenPanel
<1>7. CASE ExplainAgain
  <2>1. /\ Explain(chat, place, schema, list = "known", TRUE) /\ UNCHANGED <<world, prompt>>
    BY <1>7 DEF ExplainAgain
  <2> QED BY <1>1, <1>3, <2>1 DEF world
<1>8. CASE ClosePanel
  <2>1. chat.provider \in Providers \cup {None} /\ chat.mode \in Modes /\ chat.custom \in SUBSET Schemas
    BY <1>1 DEF Chats
  <2>2. chat' \in Chats /\ chat'.session = None /\ chat'.messages = {}
    BY <1>8, <2>1, FreshFits DEF ClosePanel
  <2>3. /\ calls' = {} /\ stray' = FALSE /\ open' = FALSE
        /\ UNCHANGED <<place, schema, list, providers, prompt>>
    BY <1>8 DEF ClosePanel
  <2> QED BY <1>1, <2>2, <2>3 DEF AssistantInv, AssistantTypeOK, ConversationFitsItsContext
<1>9. ASSUME NEW p \in Providers, CreateAIProvider(p) \/ DeleteAIProvider(p) PROVE AssistantInv'
  BY <1>1, <1>9 DEF CreateAIProvider, DeleteAIProvider, AssistantInv, AssistantTypeOK,
                    ConversationFitsItsContext, Context, ContextOf
<1> QED BY <1>2, <1>5, <1>6, <1>7, <1>8, <1>9

-----------------------------------------------------------------------------
\* In every reachable state, whatever the places, schemas and providers: requests, sessions
\* and the chat are well formed, at most one request of "Explain with AI" is under way, and
\* session and messages are of the context in use unless an answer of another one came since.
THEOREM ConversationsFit == Spec => []AssistantInv
<1>1. Init => AssistantInv
  <2> SUFFICES ASSUME Init PROVE AssistantInv
    OBVIOUS
  <2>1. chat \in Chats /\ chat.session = None /\ chat.messages = {}
    BY DEF Init, FreshChat, Chats, Modes
  <2>2. AssistantTypeOK
    BY <2>1, AssistantAssumption DEF Init, AssistantTypeOK
  <2> QED BY <2>1, <2>2 DEF AssistantInv, ConversationFitsItsContext
<1>2. AssistantInv /\ [Next]_vars => AssistantInv'
  <2> SUFFICES ASSUME AssistantInv, [Next]_vars PROVE AssistantInv'
    OBVIOUS
  <2>1. CASE UNCHANGED vars
    BY <2>1 DEF vars, world, AssistantInv, AssistantTypeOK, ConversationFitsItsContext, Context, ContextOf
  <2>2. CASE Next
    BY <2>2, AssistantAssumption, RepliesFit, ChangesFit, SendFits, RestFits DEF Next
  <2> QED BY <2>1, <2>2
<1> QED BY <1>1, <1>2, PTL DEF Spec

=============================================================================
