# pgconsole: models, checks and proofs

pgconsole is a PostgreSQL console: a Node server (Express and Connect RPC, SQLite for what is
configured in the UI, a TOML file for what the operator configures), a React client with a SQL
editor, an MCP endpoint through which AI agents run SQL, and an Electron shell around the same
server. This directory holds TLA+ modules of the parts where order, failure, policy or case
analysis is hard, the TLC configurations that check them, and proofs of what matters most for
every value of the constants. Paths below are relative to `src/`; the client is in `src/src/`
of the repository, here `src/`.

## 1. The system

| Component | State | Operations | Hard behaviour | What makes it correct |
|---|---|---|---|---|
| Credential store: `server/lib/store.ts`, `secrets.ts` | SQLite rows and two meta rows; the key, in memory | boot, set/unlock/lock master password, create/update/delete rows | crash between two writes, failing writes, boots with another environment | no stored secret is sealed under a key nobody can derive; no unverified key is in force; an established key is for good |
| Query execution: `server/services/query-service.ts`, `server/lib/db.ts` | the map of active queries, PostgreSQL sessions, audit log | `executeSQL` (async generator), `cancelQuery` | suspension at every await and yield, ids shared by requests, pids reused | registry and sessions agree, cancels hit their target, every applied statement is audited, everything is cleaned up |
| Run and Cancel: `EditorArea.tsx`, `SQLEditorLayout.tsx` | `isExecuting` per tab; one abort controller, one query id, one `isCancelling` for all tabs | run, cancel, switch tabs, statements run beside `handleExecute` | concurrent runs, early and late cancels, broken streams | the right run is cancelled, spinners are honest and stop |
| Text of the editor: `QueryEditor.tsx`, `EditorArea.tsx`, `pg-lint.ts`, `src/lib/sql/editor.ts` | document, saved value, cached statement, lint marks, requests under way | type, move, run, format, rewrite, fix, change tab | debounced parses, renders that are behind, answers that replace a range of a text that has moved on | what runs is what the user sees selected; nothing typed is lost; it settles |
| Runtime caches: `server/lib/connection-cache.ts`, `schema-cache.ts`, `test-connections.ts` | version per connection; schema context per connection, database, schemas | test, build, serve, refresh, expire; edits of connections | an answer of the old server arrives after an edit | only a request that straddled an edit leaves something stale |
| Access control: `server/lib/iam.ts`, `config.ts`, `sql-permissions.ts`, `server/services/connection-service.ts`, `ai-service.ts` | the loaded file, stored connections and AI providers | load, grant, create/update/delete, restart with another file | ids shared by file and store, shadowed rows, capped agents | all views agree, rules for the file never govern stored connections, edits are accounted for |
| MCP server and the gates of the web's requests: `server/mcp.ts`, `query-service.ts` | requests under way | tools/list, browse, explain, query, write, DDL, catalogue reads, session administration | permissions read before an await and used after it | an agent does nothing its rules refuse; nobody is blamed for what they could not do |
| Editor tabs: `hooks/useEditorTabs.ts` | tabs, active tab, result tabs | open, select, close (four ways), reload, results | lookups by id over all orders of opening and closing | ids are unique, what is active exists |
| Results grid: `QueryResults.tsx`, `RowDetailPanel.tsx`, `StagedChangesModal.tsx`, `src/lib/staged-changes.ts` | rows per result with a staging status, detail panel, review | edit, add, delete, pin, discard (three ways), review, execute, JSON modal, keyboard | long sequences of edits, positions that shift, results that come and go | discarding restores what was read; the SQL does what the grid shows; what is staged stays |
| Formatter: `src/lib/sql/core.ts`, `format.ts` | none | parse, format | parentheses, precedence, clauses a transformer drops | the text printed is the statement read, and formatting again changes nothing |
| Completion: `src/lib/sql/autocomplete/`, `pg-autocomplete.ts`, `pg-signature-help.ts` | columns fetched so far | complete, show a signature | unfinished text; two phases with a fetch between them | what comes next is offered; a dot shows its own table |
| Schema store and navigation: `src/lib/schema-store.ts`, `useSchemaStoreSync.ts`, `useEditorNavigation.ts` | URL, page, query cache, tables and functions for completion | follow links, select, switch connection or database, back, answers | late answers, defaults written into the URL, several effects per commit | the store holds what is of its scope; the URL, page and store come to agree |
| AI chat: `Chat.tsx`, `server/services/ai-service.ts`, `server/ai/vendors.ts` | messages, mode, session id, provider, schemas | ask, explain, correct, clear, change what is looked at | answers after a change, effects cancelled and started again | conversations fit their context; requests are answered; the chat rests |
| Audit log: `server/lib/audit.ts` | events in memory | append, prune, list, export | retention assumes time order | events are modelled where they are written |
| Shell, start and stop: `electron/main.ts`, `server/index.ts` | window, server, lock | boot, quit, signals | quit while starting, `close()` that never settles | what a start does to key and policy is modelled |
| Sign-in, demo database, pages, website | | | | not modelled, reasons in section 6 and `PROJECT.json` |

How they interact: the editor calls `executeSQL` and `cancelQuery` by RPC, the grid calls
`executeSQL` with the statements it generates and asks the editor to run its query again. The
editor asks the parser for statement ranges, completion asks the schema store, and the store is
filled by answers to the page's queries, which follow the URL. The chat and the editor's rewrites
ask the AI service, which reads the schema-context cache. Every RPC and MCP call asks access
control, which reads the file and, through the merge, the store. Editing a connection clears its
caches. Every statement and every edit writes an audit event.

## 2. The modules

```
CredentialVault  <== refines ==  SecretStore         SecretStoreProofs
QueryExec  <-- EXTENDS -- EditorRun                  EditorRunProofs (of both)
ConnectionRuntime                                    ConnectionRuntimeProofs
AccessControl <-- EXTENDS -- GovernedExecution       GovernedExecutionProofs
EditorTabs <-- EXTENDS -- ResultsGrid                ResultsGridProofs (of both)
Workspace                                            WorkspaceProofs
Assistant                                            AssistantProofs
EditorBuffer                                         SqlEditorProofs (of it and Completion)
SqlTokens <-- SqlArguments, SqlCandidates <-- Completion
SqlTree <-- SqlFormat <-- SqlText
Subsequences: used by EditorTabs, EditorBuffer and SqlArguments
MC<module>: the constants and symmetry sets of the runs
```

**SecretStore.** One variable per meta row and per piece of process memory. `Boot` runs
`initSecretsFromEnv`; `SetMasterPassword`, `UnlockStore`, `LockStore` are the functions of
`store.ts`. The server is single-threaded and calls of `node:sqlite` are synchronous, so each is
one step, except that `setMasterPassword` commits twice: `RecordKeyCheck` and
`RecordKeyCheckFails` are the second write, and a crash (`Exit`) may come between. A key is the
pair (password, salt) or an environment key; a sealed secret is the pair (key, secret), readable
only with that key. **CredentialVault** says what the store promises when its environment never
changes: a vault is established once, opens with one secret, and keeps what was put in.

**QueryExec.** `call[c].phase` names the await or yield where a request is suspended; one action
per stretch between two of them, `Catch` and `Finally` included. PostgreSQL is external: a session
owns a pid until `client.end()`, a statement is applied or not, a cancel signal hits whatever
session owns the pid when it lands. `StreamReturned`/`StreamThrown` are the client that goes away.

**EditorRun** puts the client on top: `Execute`, `Split`, `SendStatement`, `Settle`,
`StatementAnswered`, `Finish` are `handleExecute` cut at its awaits; `ClickCancel` is
`handleCancelQuery`. The refs shared by all tabs are variables of their own. `StartSideRun` is
`handleRunSQL` and `handleObjectDoubleClick`, which run a statement without the refs.

**ConnectionRuntime.** The settings of a connection are a generation that each edit advances; a
version or context is the generation (and database, schemas) it was read from. Requests read the
settings, wait, and file what they got.

**AccessControl** is a policy state (file, stored connections, stored AI providers, audit of edits)
with the functions of `iam.ts` and `config.ts` as operators and the RPCs of `connection-service.ts`
and `ai-service.ts` as actions. `Accepted` is the validation of the file: TLC is given files, good
and bad, and the model refuses the bad ones by the code's own conditions. A text is a sequence of
statements, each with the clauses in which it calls functions. **GovernedExecution** adds
the requests: statements from the web and from MCP, with the parse awaited between the gates,
execution and the audit event; the web's catalogue reads and administrative requests; `Restart`.

**EditorTabs** is `useEditorTabs` for one connection. **ResultsGrid** is `QueryResults` over it:
the handlers, the effects that fill and sweep `displayRowsMap`, the detail panel (a row object
that may be in the grid, hidden, gone, or pending), pinned rows, the keyboard, the JSON modal
(`jsonModal`, the position it was opened at), the review of `StagedChangesModal` (`preview`), and
`staged-changes.ts` as operators. The Delete key is listened for on the document, so it stages
deletions under an open review too, and the review executes the SQL of the rows as they are then.
A query may leave any number of results, also none. A statement is a record
(operation, WHERE, SET), and `Apply` is PostgreSQL running a batch in a transaction on a table
with a key column and one other.

**Subsequences** is `Array.prototype.filter` said by positions instead of a predicate: what is kept
of a sequence at a set of positions, in order (`Keep`), and the place a position gets (`Rank`). The
tabs, the rows, the tokens of a text and the pieces of a list of arguments are taken with it,
because the provers cannot look into an operator that takes a predicate.

**EditorBuffer** is the document (`doc`), what React has rendered and saved, the statement range
that a debounced parse cached (`ParseTimer`, `ParseDone`), the text the linter last looked at, and
the requests that read a range, wait, and replace it (`FormatSql`, `RewriteSQL`, `FixSQL`,
`Answer`). Parses wait for the parser's module (`parser`), which loads (`LoadModule`) or fails for
good; the parse of a blank text does not, and may end before the one that the mount began. A text is
a sequence of tokens; one of them holds a character of two bytes, because `GetStatementBoundaries`
(a function from where statements begin to their ranges) mixes the parser's byte offsets with
character indexes. What an AI provider writes may be a statement, a fenced one, prose, or nothing
that parses.

**SqlTree** is the transformers of `core.ts`: from the tree of PostgreSQL's parser (external) to the
client's. Marks on a literal say what a transformer does to it: a number goes through a double
(`scaled`: the scale of 1.50; `big`: digits beyond a double), a zero becomes `undefined`.
**SqlFormat** is `format.ts`: what the formatter prints, as a sequence of tokens, and how
PostgreSQL will read it (`Reads`: precedence climbing, external). **SqlText** is a statement in the
editor under Format and Format as one line; each Format of a function puts another blank line
before its body, and these are counted.

**SqlTokens** is the tokenizer, the recovering parser and the section detector; **SqlCandidates** the
scope, the candidates, the ranking and the pipeline; **SqlArguments** the arguments of functions and
the signature tooltip; **Completion** the completion source at work: it looks, fetches columns,
waits for all of them or for a timeout, and looks again, while the user types on.

**Workspace.** One `Render` is one commit of React with all of its effects, in order: the defaults
written into the URL, the clearing of schema and object on a change of connection or database, the
store's synchronisation. Answers are keyed as React Query keys them, and arrive in any order; an
answer is abstracted to the database it was read from.

**Assistant.** Messages are abstracted to what they are about; the session id is the context a
conversation was begun in. `Send` is `handleSend`, `AskToExplain` and `Explain` the prompt and the
effect that answers it; `Answer`, `Retry`, `Throw`, `ExplainAnswered` are what comes back (`Retry` asks
again about SQL that does not parse). `SwitchPlace`, `SelectSchema`, `ChooseProvider`, `SetMode`,
`ToggleSchema` (the schemas of the custom mode), `CreateAIProvider`, `DeleteAIProvider` change what
the chat looks at. `OpenPanel` and `ClosePanel` mount and unmount it, which starts and aborts its
requests. Its list of schemas is asked for, known, or failed (`list`; `SchemasListed`,
`SchemasFail`); after a failure every render makes a new empty list, and the effect of a prompt runs
again (`ExplainAgain`). `AutoSelect` is the effect that selects a provider.

`PROJECT.json` maps each definition to its lines.

## 3. The runs

| Run | Asks | Bounds |
|---|---|---|
| `secretstore_mixed` | stranded secrets, unverified keys | 2 connections, 1 provider, 2 secrets, passwords, salts, environment keys; boots with none or either key; the second write may fail |
| `queryexec_calls` | registry, cancel, audit, cleanup (liveness), the inductive invariant | 2 requests, 1 query id they may share, 1 cancel, 2 users, 2 pids |
| `editorrun_cancel` | refs and spinners (`EditorInv`), cancel, every spinner stops (liveness) | 1 run of 2 statements, 1 side run, 1 tab, 1 cancel, 1 pid, streams that break |
| `editorrun_cancelledrunstops` | a disagreement, see below | 2 runs of up to 2 statements, 2 tabs, 1 cancel, 2 pids |
| `runtime_safety` | staleness, mix-ups between databases | 2 connections, 2 databases, 1 schema, 3 requests, 2 edits each |
| `governance` | policy, blame, views, audit | 2 users, 3 agents (own, capped permissions, capped connections), 2 ids, a catalogue of files of which some are refused, 1 AI provider id in file and store, 7 texts, 1 request under way |
| `resultsgrid_keyed` | staging, discarding, SQL, tabs | 1 query and 1 schema tab, 2 results, a table of 2 rows, 2 staged changes at a time, up to 4 rows (so two new ones), one of the new rows without its key, one result at a time with a new row that was saved as an edit, one value for the JSON modal |
| `sqltext_format` | the formatter keeps and settles | each construct once or twice, all pairs of nested operators, all pairs of clauses, three-sided set operations, numbers of each kind (zero, trailing zeros, too many digits), function bodies formatted up to 3 times |
| `editorbuffer_cache` | cached ranges, saved text, replaced ranges, lint, settling (liveness) | 2 tabs, one with 1 or 2 statements (1 is few enough for two edits to blank it), the other with 2 and a multi-byte character, 2 schemas, texts up to 4 tokens, 2 edits, 1 request, a module that loads late or fails |
| `completion_typing` | what comes next is offered, a dot shows its table and is answered (`ListInv`), types, the tooltip, argument lists (`CompletionInv`) | 10 statements typed word by word or gone through, 4 unfinished words, 2 tables, 3 routines, columns unknown at first |
| `workspace_scope` | scope of the store, selection, navigation settles (liveness) | 2 connections, one of them with 2 databases, 2 schemas, 6 objects of all kinds but one, 2 links, 2 moves of the user |
| `assistant_chat` | context of conversations, answers, rest (liveness) | 2 places, 2 schemas, 2 providers of which one can be deleted, all 3 modes, one place too large for a session id, 2 messages, 3 changes (of the context, or opening and closing the panel), a list of schemas that arrives or fails |

Why these are enough: the hazards of the query layer need two parties and a third that interferes
(a request and a cancel on its id, a request and two edits); a third request repeats what two do,
because entries and caches are keyed. Staleness needs an edit during a request and one after it.
The grid's hazards pair two staged rows of different kinds, or two new rows of which one is
discarded and the other shifts. A stale range needs one edit between the
parse and its use, and one to make the range another's. Navigation needs a move while the answers
of the one before are out. Formatting decides by the pair of an operator and its operand, so pairs
are all there is, except for set operations, whose three-sided forms are in. Model values of a kind
are symmetric wherever a `SYMMETRY` is declared, and no run with liveness declares one.

In the grid run a key of a staged row is not retyped (the set `Edits` says what is): with a primary
key, `changedColumns` drops such an edit silently, which `KeysAreKept` would exclude anyway. A query
is started only while an id is left for its result (`IdLeft`). The request behind Execute All is
one step with its answer: nothing of the grid depends on what lies between.

The completion modules were compared with the repository's own tests for the section detector (62
cases) and the pipeline (67 cases): the model gives what they expect.

Deadlock checking is off where the system may stop: requests, edits, moves and messages are bounded
and used up. It is on for the store, the grid and the formatter, which can always go on.

### Fairness

- `FairSpec` of QueryExec and `EditorFairSpec`: the steps of a request that has started. Awaited
  promises settle (the database answers or the driver throws; `client.end()` returns), and the
  consumer of the generator pulls or goes away.
- EditorBuffer: one weak fairness on `Background`, the debounce timer, the loading of the module
  (which ends, one way or the other), the parse, the lint, the render and the effect taken
  together. The user's keystrokes and the AI's answers owe nothing.
- Completion: the fetches an answer asks for are sent, each arrives, and the second look follows when
  all are there or the time is up.
- Workspace: React commits what is pending, and requests are answered or fail.
- Assistant: requests are answered or fail, and while the panel is open its query for the schemas
  ends, with a list or without. Nobody promises that the list arrives, that a provider exists or is
  selected, or that a closed panel is opened again; `PromptIsAnswered` and `ChatComesToRest` name
  these cases.

The event loop resumes what settled, so nothing stronger is assumed. Users owe nothing.
`SpinnerStops` and `EveryCallCleansUp` would be false for a database that never answers, as they
are in the code.

## 4. The proofs

TLAPS checks the theorems below for every value of the constants that satisfies the assumption
named in the module (`ConstantsAssumption`, `QueryExecAssumption`, ...: constants are sets that
do not overlap where the code tells their members apart, and bounds are naturals).

| Module | Theorems | Argument |
|---|---|---|
| `SecretStoreProofs` | `TypeCorrect`, `KeySafety`, `KeyInForce`, `KeyForGood`, `StoreImplementsVault` | `StoreInv`: a password's key, in memory or under a blob, is the recorded one, and a recorded one comes from the recorded salt; it is kept until a second write of `setMasterPassword` fails (`writeFailed`). For one fixed environment `e` and writes that succeed, `OneKeyInv(e)` adds that every blob is sealed under the recorded key, and every step is a step or a stutter of CredentialVault |
| `EditorRunProofs`, the server | `ExecConsistent`, then `RegistryIsSound`, `AuditIsFaithful`, `CancelIsAimed`, `LoneIdsAreRegistered` | `ExecInv`: what the phase of a request says of its session, its entry and its event, and what a cancel has read. `LoneInv` adds that a request keeps its id once it has one |
| `EditorRunProofs`, the editor | `ClientConsistent`, `EditorDrivesServer`, `SpinnersAreHonest`, `LoneRunsAreCancelled` | `ClientInv`: refs and tabs name known runs, a run's requests stay within its statements, requests that were not sent are untouched, the controller is that of a run live alone. From it, every step of the editor is a step of QueryExec or leaves it alone, so the server's theorems hold under the editor |
| `ConnectionRuntimeProofs` | `RuntimeConsistent`, `OnlyLateIsStale`, `AnswersFit` | `RuntimeInv`: a request has read settings that were in force at some time, what is cached is as new as the settings unless a request that straddled an edit filed it, and an entry is of what its key says |
| `GovernedExecutionProofs` | `Governed`, then `NamedAgents`, `StoredByWildcard`, `FairBlame`, `EveryAnswerIsAudited`, `OneView`, `ShadowedRows`, `Accounted`, `Advertised`, `ReachableProviders`; `StatesAreGoverned`, `StepsAreGoverned` collect them | `GovernedInv`: the file in force is an accepted one, and a call beyond a gate was authorised under the permissions it has read |
| `WorkspaceProofs` | `StoreKeepsItsScope`, `SelectionAlwaysExists`, `DefaultsSpareWhatExists` | `WInv`: the store's scope is the scope of the last commit, all keys are legal, and completion has asked only for the default database. What is selected exists because every commit ends with its effects, each of which chooses from the list it was given; defaults replace only what is not in that list |
| `ResultsGridProofs` | `TabsStayWellFormed`, `OnlyCloseToRight`, `StagedChangesAreKept`, `DiscardAllRestores`, `DiscardSelectionIsExact`, `SQLIsExact` | `GInv`: tabs and results are unique and the active ones are open, and the rows of every result are grounded: those that were read are in their places, each with what discarding gives back, and new rows are behind them. What is under review only grows, by the Delete key. `KInv` adds that an edited row has a value for its key and that fetched tables have distinct keys. `SQLIsExact` follows the batch: after n statements the table is the image of the rows that are left at that turn, by one lemma for each kind of statement, and the first turn at which it were not would have a turn before it |
| `SqlEditorProofs`, the text | `CacheIsCurrent`, `DocumentIsSaved`, `AnswerFits`, `RunsAreExact` | `BInv`: unless another is due, the last parse under way is of the document, if that is not blank: only the parse of a blank text ends out of turn, so whatever ends before it, that one ends last. Without any under way the module has been loaded or has failed, and the cache is that of the document; a request remembers a range in order and, if made in a quiet editor, the text of that range. `RunsAreExact` adds that a statement cut out of a text that parses begins with its head, holds no other and parses by itself |
| `SqlEditorProofs`, the completion | `CompletionIsSound` | `CInv`: so many words of the statement are typed as the place says, a request under way has a context that the section detector can give, and what a list was made from is loaded. For the tooltip, the search that goes back from the cursor stops at the last parenthesis still open, and from there both count the same commas; for argument lists, the commas that stand outside of brackets are those between the printed arguments, so the pieces are the arguments, and each is read word by word |
| `AssistantProofs` | `ConversationsFit` | `AssistantInv` is inductive as it stands; the history variable `stray` says whether an answer of another context arrived since the last clear |

Each proof has a lemma per action (or per kind of action), and a temporal theorem that combines
initial states, steps and the property by PTL. A strengthening that only a proof needs is defined in
the proof's module, the others beside the properties.

Induction over data is done by taking the least place where a claim fails (`WFMin` on the order of
the naturals), as the library's induction theorems cannot be instantiated here. Assumptions worth
knowing: in `ResultsGridAssumption` the keys of a table are distinct when there is a primary key,
and the markers for "no row" and "undefined" are no values; `SQLIsExact` assumes `HasPrimaryKey`,
since without one it is false (section 5). `RunsAreExact` is, like its property, about texts of one
byte per character.

`CompletionIsSound` is about texts and names made of words: `FunctionsAssumption` says that a
routine's name is one the tokenizer reads as a name, and that its declared arguments are plain
(`ArgumentIsPlain`: no commas or brackets inside a word, which only quoted names and type modifiers
have, and PostgreSQL prints argument types without modifiers; no name that is an argument mode; a
type of several words without a name is one of those the parser looks for). Of quoted names the
claim is false (section 5). `StatementsAssumption`, `PartialsAssumption` and `DatabaseAssumption`
say what kind of thing the constants are.

Only model-checked:

- every liveness property (`ENABLED` and fairness);
- `PlainIsKept` and `FormatSettles`: the transformers, the printer and PostgreSQL's reading
  (`SqlTree`, `SqlFormat`) recurse over trees with `RECURSIVE`, which the SMT backend does not accept,
  and what they say would be an induction over trees;
- `NextIsOffered` and `ListInv`: they are true of the statements the run types and not of every text. The
  code reads aliases in two ways that agree on well-formed beginnings only (section 5 has where
  they part), so a theorem would need the grammar of those statements as its hypothesis.

`StoreImplementsVault` is proved and not run; `CancelledRunStops` is refuted by its run.

## 5. Where code, comments and expectation part

One disagreement is a run: `editorrun_cancelledrunstops` finds a run that goes on with its
statements after Cancel was clicked in its tab, because `abortControllerRef` belongs to whichever
run started last (`EditorArea.tsx:257`); the comment at `EditorArea.tsx:223` says it stops.
`LoneRunIsCancelled` is what does hold.

The rest were met while modelling. The models do what the code does, and the properties are stated
so that they hold; none of these has a run of its own.

- **Store.** Of a store established under an environment key, `hasMasterPassword` says that it has a
  master password (`store.ts:206`) and `unlockStore` that none has been set (`store.ts:228`).
- **Runtime caches.** A test or a build that straddles an edit files the old server's answer after
  the edit cleared it (`connection-cache.ts:71`); it stays until refresh, expiry or the next edit.
- **Grid.** `UPDATE` and `DELETE` without a primary key match every row that looks the same
  (`staged-changes.ts:179`). A preview of rows staged without an effective change runs nothing and
  reports success. `parseInt` in the detail panel accepts `12abc`. Delete and Backspace are listened
  for on the document (`useRowSelection.ts:65`): they stage deletions under an open review, which
  executes them with what it was opened for, and it is live, so it shows them. The JSON modal keeps
  the position it was opened at: if an answer brings another result in between, saving writes into
  that result's row (`QueryResults.tsx:1274`). `createStagedDelete`, `createStagedInsert`,
  `createStagedUpdate` have no caller.
- **Formatter.** Parentheses are lost around some operands of postfix and prefix constructs, so the
  text printed reads as another statement. Numbers go through a double: `1.50` comes back as `1.5`
  (`core.ts:947`, `format.ts:391`). A zero, whose field the parser leaves out, is printed as
  `undefined`, which is read as a column (`core.ts:944`). `PlainIsKept` is stated for the rest
  (`LostMarks`, `LostNodes` and what follows them in `SqlText` name what is excluded). The zero
  default of a parameter is dropped by the second Format. Each Format of a function or procedure
  adds a blank line around its body (`format.ts:883`), so it never settles; `FormatSettles` allows
  it that line and nothing else. As one line, a statement with a `--` comment loses what follows it (`format.ts:60`).
- **Buffer.** The parse of a text that became blank returns at once (`editor.ts:21`) and overtakes
  the mount's, which waits for the module and then leaves ranges of the old text; they stay until
  the next edit, and an empty document runs nothing. `QuietCacheIsCurrent` therefore leaves blank
  documents out. If the module fails to load there are no ranges, and a run sends the whole text.
  `byteToCharOffset` takes a position one too far after a multi-byte character (`pg-lint.ts:7`).
  Prose that an AI provider answers is inserted when it is not a code fence.
- **Completion.** After `u.em`, the beginning of a column behind a qualifier, nothing is offered,
  although `pg-autocomplete.ts:644` matches the part after the dot; `ON` is not offered after
  `JOIN t a`, nor columns inside `INSERT INTO t (`; an alias directly followed by `ON`, `WHERE` or `JOIN`
  is not resolved. An argument of type and name `date date` loses its name, quoted names are split;
  an overloaded function shows its first signature.
- **Navigation.** A materialized view named in a link is replaced by the default object, because
  `getTables` lists none (`useEditorNavigation.ts:91`). Going back across connections loses schema
  and object. Returning to a cached connection leaves `selectedSchema` and `selectedTable` of the
  store null. `setSchemas` only adds. `ensureColumns` (`pg-autocomplete.ts:315`) and
  `handleGenerateSQL` (`SQLEditorLayout.tsx:297`) ask without the selected database.
- **Chat.** When the query for the schemas fails, `availableSchemas` is a new `[]` at every render
  (`Chat.tsx:159`) on which the explain effect depends (`Chat.tsx:278`): it cancels its request and
  asks again, for ever, and the spinner stays. Both liveness properties leave this case out. An
  answer that arrives after the connection, provider or mode changed is shown in the new
  conversation and its session id kept. `selectedSchema` clears the explanation but is missing from
  the dependencies of the clear (`Chat.tsx:192`). Errors come in-band with an empty session id. A
  session too large to encode comes back as `''` (`vendors.ts:139`), and the conversation starts
  again. A deleted provider stays selected.
- **Policy.** The comment at `ai-service.ts:149` says the validation mirrors the TOML one, which
  asks hosted vendors for an `api_key`; `createAIProvider` does not. `sql-permissions.ts:128` says
  subqueries are handled separately; function calls in `FROM` and in subqueries are not collected
  there or elsewhere, and the model collects what the code collects. The audit log is kept by
  connection id, so a connection created again under an id inherits its log.

## 6. Not modelled, and why

- **Audit log store, `auditExport`, system log.** Events are written by the modelled components;
  filtering and formatting them is sequential code. Pruning assumes that events are appended in the
  order of time, which one process's clock gives unless it is set back.
- **Connection groups, labels, settings.** One-row reads and writes with no state beside SQLite.
- **Session lists, catalogue queries.** The text of queries on PostgreSQL's catalogue; who may ask
  is in GovernedExecution, what arrives in Workspace.
- **Shell, start and stop.** Electron's lifecycle (single instance, `will-quit` that quits again,
  a shutdown with a time limit) depends on Electron's own event order, which `src/` does not fix.
  What a start does to keys and policy is modelled (`Boot`, `LoadConfig`, `Restart`).
- **Sign-in and OAuth.** Cookies, hashes, redirects: libraries and identity providers. A signed-in
  user is taken as given.
- **Demo database, pages, website, build.** Process management, rendering and publication.
- **Parsing of TOML and of SQL.** External: the model starts from the parsed file, and from
  PostgreSQL's tree.
- Within modelled components: branding and banner, escaping of literals, selection, sorting,
  filtering and paging of the grid, the risk assessment, plans of `EXPLAIN`, batches wrapped into one
  statement, line breaks and indentation of formatted text, `generate.ts`, the displayed pid.

`PROJECT.json` lists with each component what is left out, and with each hazard without a property
the reason.

## 7. Order of the work

Done, in this order: the store and its refinement; execution, cancel and the editor above it; caches;
policy and the MCP server; grid and tabs; formatter; buffer; completion; navigation with the schema
store; chat. Proofs followed for the store, execution, caches, policy, the editor, navigation, the
chat, the grid and the tabs, the buffer, and completion.

Left, by what it would add: selection, sorting and paging in the grid (positions that carry over
between results, `useRowSelection.ts:13`), the catalogue's refresh after DDL, the audit log's
retention, start and stop of the desktop shell.
