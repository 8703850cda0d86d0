------------------------------ MODULE EditorRun ------------------------------
(***************************************************************************)
(* The SQL editor's Run and Cancel (handleExecute and handleCancelQuery of *)
(* src/components/sql-editor/EditorArea.tsx) over the server of QueryExec, *)
(* with the two callers of SQLEditorLayout.tsx that run a statement in a   *)
(* tab without going through them (handleRunSQL, handleObjectDoubleClick). *)
(*                                                                         *)
(* A run is one invocation of handleExecute: it splits the text of its tab *)
(* into statements and sends them one at a time. The component has ONE     *)
(* abortControllerRef and ONE currentQueryIdRef for all tabs. A query id is *)
(* minted per run, so the run itself stands for it, and for its controller.*)
(*                                                                         *)
(* Run r's i-th request is the call <<r, i>>; side run s makes <<s, 1>>.   *)
(***************************************************************************)
EXTENDS QueryExec

CONSTANTS
    Tabs,          \* the query tabs of the connection
    Runs,          \* invocations of handleExecute
    SideRuns,      \* invocations of handleRunSQL or handleObjectDoubleClick
    MaxStatements, \* bound: statements in one run
    StreamsBreak   \* whether a response stream may break under the client

ASSUME EditorRunAssumption ==
    /\ MaxStatements \in Nat \ {0}
    /\ StreamsBreak \in BOOLEAN
    /\ QueryIds = Runs
    /\ Calls = (Runs \X (1..MaxStatements)) \cup (SideRuns \X {1})
    /\ Runs \cap SideRuns = {}

VARIABLES
    activeTab,       \* the tab on screen
    executing,       \* tab -> its isExecuting
    run,             \* the invocations of handleExecute
    sideRun,         \* the invocations of the two other callers
    abortController, \* abortControllerRef.current
    currentQueryId,  \* currentQueryIdRef.current
    isCancelling,
    asked,           \* history: live runs of the tab where Cancel was clicked
    overlapped       \* history: runs that were live together with another run, or a side run

clientVars == <<activeTab, executing, run, sideRun, abortController, currentQueryId,
                isCancelling, asked, overlapped>>

allVars == <<vars, clientVars>>

\* Where handleExecute is suspended: in the parser, nowhere (about to look at the next
\* statement), or in executeSQL.mutateAsync.
RunRecord == [pc : {"idle", "splitting", "looping", "waiting", "done"}, tab : Tabs \cup {None},
              size : 0..MaxStatements, next : 1..(MaxStatements + 1), aborted : BOOLEAN]

EditorTypeOK ==
    /\ TypeOK
    /\ activeTab \in Tabs
    /\ executing \in [Tabs -> BOOLEAN]
    /\ run \in [Runs -> RunRecord]
    /\ sideRun \in [SideRuns -> [pc : {"idle", "waiting", "done"}, tab : Tabs \cup {None}]]
    /\ abortController \in Runs \cup {None}
    /\ currentQueryId \in Runs \cup {NoQueryId}
    /\ isCancelling \in BOOLEAN
    /\ asked \subseteq Runs /\ overlapped \subseteq Runs

EditorInit ==
    /\ Init
    /\ activeTab \in Tabs
    /\ executing = [t \in Tabs |-> FALSE]
    /\ run = [r \in Runs |-> [pc |-> "idle", tab |-> None, size |-> 0, next |-> 1, aborted |-> FALSE]]
    /\ sideRun = [s \in SideRuns |-> [pc |-> "idle", tab |-> None]]
    /\ abortController = None
    /\ currentQueryId = NoQueryId
    /\ isCancelling = FALSE
    /\ asked = {} /\ overlapped = {}

Live(r) == run[r].pc \in {"splitting", "looping", "waiting"}

LiveRuns == {r \in Runs : Live(r)}

LiveSideRuns == {s \in SideRuns : sideRun[s].pc = "waiting"}

Request(r) == <<r, run[r].next>>

-----------------------------------------------------------------------------
(* handleExecute *)

\* setTabExecuting(tab, value), or the isExecuting option of setTabResults.
SetExecuting(t, value) == executing' = [executing EXCEPT ![t] = value]

\* Run, from the toolbar, the keyboard or the context menu. The last two do not look
\* at the tab's isExecuting, and no caller looks at other tabs.
Execute(r) ==
    /\ run[r].pc = "idle"
    /\ run' = [run EXCEPT ![r].pc = "splitting", ![r].tab = activeTab]
    /\ abortController' = r
    /\ currentQueryId' = r
    /\ SetExecuting(activeTab, TRUE)
    /\ overlapped' = IF LiveRuns \cup LiveSideRuns = {} THEN overlapped
                     ELSE overlapped \cup LiveRuns \cup {r}
    /\ UNCHANGED <<vars, activeTab, sideRun, isCancelling, asked>>

Split(r) ==
    /\ run[r].pc = "splitting"
    /\ \E n \in 1..MaxStatements : run' = [run EXCEPT ![r].pc = "looping", ![r].size = n]
    /\ UNCHANGED <<vars, activeTab, executing, sideRun, abortController, currentQueryId,
                   isCancelling, asked, overlapped>>

\* The next statement goes out, unless the run was aborted, under the id now in the ref.
SendStatement(r) ==
    /\ run[r].pc = "looping"
    /\ ~ run[r].aborted
    /\ run[r].next <= run[r].size
    /\ run' = [run EXCEPT ![r].pc = "waiting"]
    /\ \/ \E u \in Users : StartExecute(Request(r), u, currentQueryId)
       \/ RefuseExecute(Request(r))
    /\ UNCHANGED <<activeTab, executing, sideRun, abortController, currentQueryId,
                   isCancelling, asked, overlapped>>

\* mutateAsync resolves with the last chunk, or rejects; either way the loop goes on.
Settle(r) ==
    /\ run[r].pc = "waiting"
    /\ run' = [run EXCEPT ![r].pc = "looping", ![r].next = @ + 1]
    /\ UNCHANGED <<vars, activeTab, executing, sideRun, abortController, currentQueryId,
                   isCancelling, asked, overlapped>>

\* BUG: a rejected promise is not caught around the statement.
StatementAnswered_NoCatch(r) == Settle(r) /\ call[Request(r)].phase = "done"

StatementAnswered(r) == Settle(r) /\ call[Request(r)].phase \in {"done", "refused"}

\* The connection to the server breaks; the server has yet to find out.
StreamBreaks(r) ==
    /\ StreamsBreak
    /\ Settle(r)
    /\ call[Request(r)].phase \notin {"done", "refused"}

\* BUG: a run that was aborted returns before it reports its results.
Finish_AbortedSpins(r) ==
    /\ \/ run[r].pc = "splitting"
       \/ run[r].pc = "looping" /\ (run[r].aborted \/ run[r].next > run[r].size)
    /\ run' = [run EXCEPT ![r].pc = "done"]
    /\ IF run[r].aborted THEN UNCHANGED executing ELSE SetExecuting(run[r].tab, FALSE)
    /\ abortController' = None
    /\ currentQueryId' = NoQueryId
    /\ isCancelling' = FALSE
    /\ UNCHANGED <<vars, activeTab, sideRun, asked, overlapped>>

\* The statements are over, the run was aborted, or the split failed: the results go to
\* the run's tab and the finally block resets the refs, whoever set them last.
Finish(r) ==
    /\ \/ run[r].pc = "splitting"
       \/ run[r].pc = "looping" /\ (run[r].aborted \/ run[r].next > run[r].size)
    /\ run' = [run EXCEPT ![r].pc = "done"]
    /\ SetExecuting(run[r].tab, FALSE)
    /\ abortController' = None
    /\ currentQueryId' = NoQueryId
    /\ isCancelling' = FALSE
    /\ UNCHANGED <<vars, activeTab, sideRun, asked, overlapped>>

-----------------------------------------------------------------------------
(* handleCancelQuery, and the tabs *)

\* BUG: the backend is asked to cancel, the local controller is not aborted.
ClickCancel_NoAbort(k) ==
    /\ executing[activeTab]
    /\ ~ isCancelling
    /\ isCancelling' = TRUE
    /\ asked' = asked \cup {r \in LiveRuns : run[r].tab = activeTab}
    /\ \/ /\ currentQueryId # NoQueryId
          /\ \E u \in Users : SendCancel(k, u, currentQueryId)
       \/ currentQueryId = NoQueryId /\ UNCHANGED vars
    /\ UNCHANGED <<run, activeTab, executing, sideRun, abortController, currentQueryId, overlapped>>

\* Cancel is offered while the tab on screen executes, and disabled while isCancelling.
ClickCancel(k) ==
    /\ executing[activeTab]
    /\ ~ isCancelling
    /\ isCancelling' = TRUE
    /\ asked' = asked \cup {r \in LiveRuns : run[r].tab = activeTab}
    /\ run' = [r \in Runs |-> IF r = abortController THEN [run[r] EXCEPT !.aborted = TRUE] ELSE run[r]]
    /\ \/ /\ currentQueryId # NoQueryId
          /\ \E u \in Users : SendCancel(k, u, currentQueryId)
       \/ currentQueryId = NoQueryId /\ UNCHANGED vars
    /\ UNCHANGED <<activeTab, executing, sideRun, abortController, currentQueryId, overlapped>>

SelectTab(t) ==
    /\ activeTab' = t
    /\ UNCHANGED <<vars, executing, run, sideRun, abortController, currentQueryId, isCancelling,
                   asked, overlapped>>

\* handleRunSQL in the tab on screen, or handleObjectDoubleClick in the tab it shows:
\* one statement, without a query id and without the refs.
StartSideRun(s, t) ==
    /\ sideRun[s].pc = "idle"
    /\ sideRun' = [sideRun EXCEPT ![s] = [pc |-> "waiting", tab |-> t]]
    /\ activeTab' = t
    /\ SetExecuting(t, TRUE)
    /\ \/ \E u \in Users : StartExecute(<<s, 1>>, u, NoQueryId)
       \/ RefuseExecute(<<s, 1>>)
    /\ overlapped' = overlapped \cup LiveRuns
    /\ UNCHANGED <<run, abortController, currentQueryId, isCancelling, asked>>

FinishSideRun(s) ==
    /\ sideRun[s].pc = "waiting"
    /\ StreamsBreak \/ call[<<s, 1>>].phase \in {"done", "refused"}
    /\ sideRun' = [sideRun EXCEPT ![s].pc = "done"]
    /\ SetExecuting(sideRun[s].tab, FALSE)
    /\ UNCHANGED <<vars, activeTab, run, abortController, currentQueryId, isCancelling, asked,
                   overlapped>>

-----------------------------------------------------------------------------

\* The client has stopped reading this request's stream.
Abandoned(c) ==
    \/ c[1] \in Runs /\ run[c[1]].next > c[2]
    \/ c[1] \in SideRuns /\ sideRun[c[1]].pc = "done"

ServerStep(c) ==
    /\ \/ Progress(c)
       \/ Abandoned(c) /\ (StreamReturned(c) \/ StreamThrown(c))
    /\ UNCHANGED clientVars

RunStep(r) ==
    Split(r) \/ SendStatement(r) \/ StatementAnswered(r) \/ StreamBreaks(r) \/ Finish(r)

EditorNext ==
    \/ \E r \in Runs : Execute(r) \/ RunStep(r)
    \/ \E s \in SideRuns : (\E t \in Tabs : StartSideRun(s, t)) \/ FinishSideRun(s)
    \/ \E t \in Tabs : SelectTab(t)
    \/ \E k \in Cancels : ClickCancel(k) \/ (CancelStep(k) /\ UNCHANGED clientVars)
    \/ \E c \in Calls : ServerStep(c)

EditorSpec == EditorInit /\ [][EditorNext]_allVars

\* Promises settle, and the server is fair as in QueryExec; users owe nothing.
EditorFairSpec ==
    /\ EditorSpec
    /\ \A r \in Runs : WF_allVars(RunStep(r))
    /\ \A s \in SideRuns : WF_allVars(FinishSideRun(s))
    /\ \A c \in Calls : WF_allVars(Progress(c) /\ UNCHANGED clientVars)

-----------------------------------------------------------------------------
(* Properties *)

\* A tab that shows the spinner has something to wait for: one of its runs is live.
SpinnerIsHonest ==
    \A t \in Tabs : executing[t] =>
        \/ \E r \in LiveRuns : run[r].tab = t
        \/ \E s \in SideRuns : sideRun[s].pc = "waiting" /\ sideRun[s].tab = t

\* The invariant: types, and honest spinners.
EditorInv == EditorTypeOK /\ SpinnerIsHonest

\* Every spinner stops, whatever is cancelled, broken or refused on the way.
SpinnerStops == \A t \in Tabs : executing[t] ~> ~ executing[t]

\* Cancel works for a user who never starts a run while another, or a side run, is live: the
\* run of the tab where Cancel was clicked is aborted, and no other run ever is.
LoneRunIsCancelled ==
    \A r \in Runs \ overlapped : Live(r) => (run[r].aborted <=> r \in asked)

\* EditorArea.tsx, handleExecute: "If cancelled, stop processing remaining statements".
CancelledRunStops == \A r \in asked : Live(r) => run[r].aborted
=============================================================================
