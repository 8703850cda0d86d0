----------------------------- MODULE EditorTabs -----------------------------
(***************************************************************************)
(* The tabs of the SQL editor for one connection                           *)
(* (src/components/sql-editor/hooks/useEditorTabs.ts): query tabs, schema  *)
(* tabs, and the result tabs each query tab collects. What the layout alone *)
(* reads (heights, widths, folding, the right panel, titles, the counter   *)
(* behind "SQL n") is left out, and so is the text of a query.             *)
(*                                                                         *)
(* Every change of the tabs is written to localStorage by an effect of the *)
(* same commit, so a reload finds the tabs and the active id as they were; *)
(* result tabs and isExecuting are not written.                            *)
(***************************************************************************)
EXTENDS Integers, Sequences, FiniteSets, Functions, Subsequences

CONSTANTS
    QueryTabs,  \* ids of query tabs, minted by createTab
    SchemaTabs, \* ids of schema tabs: the id spells the object, so one object has one id
    Results,    \* ids of result tabs
    Absent      \* the empty id

ASSUME EditorTabsAssumption ==
    /\ QueryTabs \cap SchemaTabs = {}
    /\ Absent \notin QueryTabs \cup SchemaTabs \cup Results

VARIABLES
    tabs,         \* the open tabs, left to right
    activeTabId,
    resultTabs,   \* query tab -> its result tabs, newest first
    activeResult, \* query tab -> its activeResultTabId
    executing     \* the query tabs whose isExecuting is set

tabVars == <<tabs, activeTabId, resultTabs, activeResult, executing>>

Tab == QueryTabs \cup SchemaTabs

Open == Range(tabs)

\* activeTab: what the screen shows. Absent when the id names no open tab.
activeTab == IF activeTabId \in Open THEN activeTabId ELSE Absent

\* The result tab on screen. A schema tab, or no tab, unmounts the results altogether.
shown == IF activeTab \in QueryTabs THEN activeResult[activeTab] ELSE Absent

TabsTypeOK ==
    /\ tabs \in Seq(Tab)
    /\ activeTabId \in Tab \cup {Absent}
    /\ resultTabs \in [QueryTabs -> Seq(Results)]
    /\ activeResult \in [QueryTabs -> Results \cup {Absent}]
    /\ executing \subseteq QueryTabs

TabsInit ==
    /\ tabs = <<>>
    /\ activeTabId = Absent
    /\ resultTabs = [t \in QueryTabs |-> <<>>]
    /\ activeResult = [t \in QueryTabs |-> Absent]
    /\ executing = {}

-----------------------------------------------------------------------------
(* Opening and selecting *)

\* The state of the tabs in S goes with them.
Forget(S) ==
    /\ resultTabs' = [t \in QueryTabs |-> IF t \in S THEN <<>> ELSE resultTabs[t]]
    /\ activeResult' = [t \in QueryTabs |-> IF t \in S THEN Absent ELSE activeResult[t]]
    /\ executing' = executing \ S

createTab(t) ==
    /\ t \in QueryTabs \ Open
    /\ tabs' = <<t>> \o tabs
    /\ activeTabId' = t
    /\ UNCHANGED <<resultTabs, activeResult, executing>>

createSchemaTab(t) ==
    /\ t \in SchemaTabs
    /\ tabs' = IF t \in Open THEN tabs ELSE <<t>> \o tabs
    /\ activeTabId' = t
    /\ UNCHANGED <<resultTabs, activeResult, executing>>

setActiveTabId(t) ==
    /\ t \in Open
    /\ activeTabId' = t
    /\ UNCHANGED <<tabs, resultTabs, activeResult, executing>>

setActiveResultTab(t, r) ==
    /\ t = activeTab /\ t \in QueryTabs /\ r \in Range(resultTabs[t])
    /\ activeResult' = [activeResult EXCEPT ![t] = r]
    /\ UNCHANGED <<tabs, activeTabId, resultTabs, executing>>

-----------------------------------------------------------------------------
(* Closing *)

Without(id) == Drop(tabs, {i \in 1..Len(tabs) : tabs[i] = id})

\* BUG: the tab on screen is closed and no other takes its place.
closeTab_KeepsActive(id) ==
    /\ id \in Open
    /\ tabs' = Without(id)
    /\ UNCHANGED activeTabId
    /\ Forget({id})

closeTab(id) ==
    /\ id \in Open
    /\ tabs' = Without(id)
    /\ activeTabId' = IF activeTabId # id THEN activeTabId
                      ELSE IF tabs' = <<>> THEN Absent ELSE Head(tabs')
    /\ Forget({id})

\* The menu offers it when there are others.
closeOtherTabs(id) ==
    /\ id \in Open /\ Len(tabs) > 1
    /\ tabs' = <<id>>
    /\ activeTabId' = id
    /\ Forget(Open \ {id})

\* The active id is left as it is, also when its tab is among those closed.
closeTabsToRight(i) ==
    /\ i < Len(tabs)
    /\ tabs' = SubSeq(tabs, 1, i)
    /\ UNCHANGED activeTabId
    /\ Forget(Open \ Range(SubSeq(tabs, 1, i)))

closeAllTabs ==
    /\ tabs # <<>>
    /\ tabs' = <<>>
    /\ activeTabId' = Absent
    /\ Forget(QueryTabs)

\* The page is loaded again: loadFromStorage.
Reload ==
    /\ Forget(QueryTabs)
    /\ UNCHANGED <<tabs, activeTabId>>

-----------------------------------------------------------------------------
(* Results *)

\* setTabExecuting on the tab that starts a run; a tab that runs cannot start another.
setTabExecuting(t) ==
    /\ t \in Open \ executing
    /\ executing' = executing \cup {t}
    /\ UNCHANGED <<tabs, activeTabId, resultTabs, activeResult>>

\* A run of t ends with one result tab per statement that answered, in their order; the first
\* of them comes to the front. A run that was given up before its first answer ends with
\* none. Only a tab that is still open is executing: the results of a run whose tab was
\* closed are dropped.
setTabResults(t, rs) ==
    /\ t \in executing
    /\ resultTabs' = [resultTabs EXCEPT ![t] = rs \o @]
    /\ activeResult' = [activeResult EXCEPT ![t] = IF rs = <<>> THEN @ ELSE Head(rs)]
    /\ executing' = executing \ {t}
    /\ UNCHANGED <<tabs, activeTabId>>

Selecting ==
    \/ \E t \in QueryTabs : createTab(t)
    \/ \E t \in SchemaTabs : createSchemaTab(t)
    \/ \E t \in Tab : setActiveTabId(t)
    \/ \E t \in QueryTabs, r \in Results : setActiveResultTab(t, r)

Closing ==
    \/ \E t \in Tab : closeTab(t)
    \/ \E t \in Tab : closeOtherTabs(t)
    \/ \E i \in 1..Len(tabs) : closeTabsToRight(i)
    \/ closeAllTabs
    \/ Reload

-----------------------------------------------------------------------------
(* What the tabs promise *)

\* An object never has two schema tabs and an id never two tabs; a result tab belongs to
\* one query tab, which is open; and a tab with results shows one of them. The lookups by
\* id (tabs.find, resultTabs.find) rest on it.
TabsAreWellFormed ==
    /\ \A i, j \in 1..Len(tabs) : tabs[i] = tabs[j] => i = j
    /\ \A t \in QueryTabs :
         /\ resultTabs[t] # <<>> => t \in Open /\ activeResult[t] \in Range(resultTabs[t])
         /\ resultTabs[t] = <<>> => activeResult[t] = Absent
         /\ \A i, j \in 1..Len(resultTabs[t]) : resultTabs[t][i] = resultTabs[t][j] => i = j
    /\ \A s, t \in QueryTabs : s # t => Range(resultTabs[s]) \cap Range(resultTabs[t]) = {}

ActiveTabIsOpen == tabs # <<>> => activeTabId \in Open

\* While tabs are open the screen never falls back to "No query tabs open", except that
\* closeTabsToRight may close the tab on screen without choosing another.
OnlyCloseToRightBlanksTheScreen ==
    [][ActiveTabIsOpen /\ ~ActiveTabIsOpen' => \E i \in 1..Len(tabs) : closeTabsToRight(i)]_tabVars
=============================================================================
