------------------------------ MODULE QueryExec ------------------------------
(***************************************************************************)
(* The server side of running and cancelling one SQL request:              *)
(* executeSQL and cancelQuery of server/services/query-service.ts.         *)
(*                                                                         *)
(* executeSQL is an async generator. Between two of its awaits or yields   *)
(* nothing else runs, so each action below is one such stretch, and        *)
(* call[c].phase names the await or yield where request c is suspended:    *)
(*                                                                         *)
(*   dialing    SELECT pg_backend_pid() on a fresh one-connection client   *)
(*   pathing    SET search_path                                            *)
(*   pid        the yield of the pid chunk                                 *)
(*   running    the user's statement                                       *)
(*   describing the column-metadata query, after the statement             *)
(*   result     the yield of the result chunk                              *)
(*   reporting  the yield of the error chunk, inside the catch block       *)
(*   closing    client.end(), inside the finally block                     *)
(*                                                                         *)
(* PostgreSQL is external: a client's session owns one backend pid from    *)
(* connection to client.end(), and a pid may be given out again after it.  *)
(***************************************************************************)
EXTENDS Naturals, Sequences, FiniteSets

CONSTANTS
    Calls,     \* executeSQL requests
    Cancels,   \* cancelQuery requests
    QueryIds,  \* ids the clients attach to their requests
    Users,     \* the authenticated users' emails
    Admins,    \* those with admin on the connection
    Pids,      \* backend pids of the database server
    NoQueryId, \* the empty query_id of a request that cannot be cancelled
    None

\* `by` is history: the request that made the registration.
Registration == [pid : Pids, email : Users, by : Calls]

ASSUME QueryExecAssumption ==
    /\ Admins \subseteq Users
    /\ NoQueryId \notin QueryIds
    /\ None \notin Pids \cup Calls \cup Users \cup QueryIds \cup Registration

VARIABLES
    call,          \* the executeSQL requests, by phase
    activeQueries, \* query id -> the registered pid and email, or None
    session,       \* pid -> the call whose client owns that backend, or None
    applied,       \* the calls whose statement the database has completed
    audits,        \* per call, the success flags of its sql.execute entries
    cancel         \* the cancelQuery requests

vars == <<call, activeQueries, session, applied, audits, cancel>>

Phases == {"idle", "refused", "dialing", "pathing", "pid", "running", "describing",
           "result", "reporting", "closing", "done"}

\* The phases in which the request's own database session is open.
Connected == {"pathing", "pid", "running", "describing", "result", "reporting", "closing"}

\* The phases in which that session executes a query a cancel signal can interrupt.
Interruptible == {"pathing", "running", "describing"}

\* The phases in which the generator is suspended at a yield.
Yielding == {"pid", "result", "reporting"}

CallRecord == [phase : Phases, qid : QueryIds \cup {NoQueryId}, user : Users \cup {None},
               pid : Pids \cup {None}]

CancelRecord == [phase : {"idle", "sent", "connecting", "missed", "denied", "done"},
                 user : Users \cup {None}, qid : QueryIds \cup {NoQueryId},
                 pid : Pids \cup {None}, aim : Calls \cup {None}]

TypeOK ==
    /\ call \in [Calls -> CallRecord]
    /\ activeQueries \in [QueryIds -> Registration \cup {None}]
    /\ session \in [Pids -> Calls \cup {None}]
    /\ applied \subseteq Calls
    /\ audits \in [Calls -> Seq(BOOLEAN)]
    /\ cancel \in [Cancels -> CancelRecord]

Init ==
    /\ call = [c \in Calls |-> [phase |-> "idle", qid |-> NoQueryId, user |-> None, pid |-> None]]
    /\ activeQueries = [q \in QueryIds |-> None]
    /\ session = [p \in Pids |-> None]
    /\ applied = {}
    /\ audits = [c \in Calls |-> <<>>]
    /\ cancel = [k \in Cancels |->
                    [phase |-> "idle", user |-> None, qid |-> NoQueryId, pid |-> None, aim |-> None]]

-----------------------------------------------------------------------------
(* executeSQL *)

Goto(c, phase) == call' = [call EXCEPT ![c].phase = phase]

\* auditSQL.
Audit(c, success) == audits' = [audits EXCEPT ![c] = Append(@, success)]

\* The catch block, up to its yield.
Catch(c) == Goto(c, "reporting") /\ Audit(c, FALSE)

\* BUG: the finally block never removes the registration.
Finally_Keeps(c) ==
    /\ Goto(c, "closing")
    /\ UNCHANGED activeQueries

\* BUG: the finally block clears the whole registry.
Finally_Clears(c) ==
    /\ Goto(c, "closing")
    /\ activeQueries' = [q \in QueryIds |-> None]

\* The finally block, up to its await: the id is deleted whoever registered it.
Finally(c) ==
    /\ Goto(c, "closing")
    /\ activeQueries' = [q \in QueryIds |-> IF q = call[c].qid THEN None ELSE activeQueries[q]]

\* Every check passes and a client is created; it connects at its first query.
StartExecute(c, u, q) ==
    /\ call[c].phase = "idle"
    /\ call' = [call EXCEPT ![c] = [phase |-> "dialing", qid |-> q, user |-> u, pid |-> None]]
    /\ UNCHANGED <<activeQueries, session, applied, audits, cancel>>

\* A parse error, a missing permission or an unknown connection: thrown before the
\* try, so nothing is registered, audited or cleaned up.
RefuseExecute(c) ==
    /\ call[c].phase = "idle"
    /\ Goto(c, "refused")
    /\ UNCHANGED <<activeQueries, session, applied, audits, cancel>>

\* BUG: every request runs on one shared client, so its backend may be in use.
GetPid_Shared(c, p) ==
    /\ call[c].phase = "dialing"
    /\ session' = [session EXCEPT ![p] = c]
    /\ call' = [call EXCEPT ![c] = [phase |-> "pathing", qid |-> @.qid, user |-> @.user, pid |-> p]]
    /\ activeQueries' = [q \in QueryIds |->
                            IF q = call[c].qid
                            THEN [pid |-> p, email |-> call[c].user, by |-> c]
                            ELSE activeQueries[q]]
    /\ UNCHANGED <<applied, audits, cancel>>

\* The first query connects and returns the pid, which is registered under the id,
\* over any earlier registration of that id.
GetPid(c, p) ==
    /\ call[c].phase = "dialing"
    /\ session[p] = None
    /\ session' = [session EXCEPT ![p] = c]
    /\ call' = [call EXCEPT ![c] = [phase |-> "pathing", qid |-> @.qid, user |-> @.user, pid |-> p]]
    /\ activeQueries' = [q \in QueryIds |->
                            IF q = call[c].qid
                            THEN [pid |-> p, email |-> call[c].user, by |-> c]
                            ELSE activeQueries[q]]
    /\ UNCHANGED <<applied, audits, cancel>>

\* No server, a bad password, or a timeout after connect_timeout.
DialFails(c) ==
    /\ call[c].phase = "dialing"
    /\ Catch(c)
    /\ UNCHANGED <<activeQueries, session, applied, cancel>>

\* The search path is set, or none was requested.
SetSearchPath(c) ==
    /\ call[c].phase = "pathing"
    /\ Goto(c, "pid")
    /\ UNCHANGED <<activeQueries, session, applied, audits, cancel>>

\* The database applies the statement. If it returns columns their metadata is
\* queried; otherwise the result is audited and yielded at once.
StatementSucceeds(c) ==
    /\ call[c].phase = "running"
    /\ applied' = applied \cup {c}
    /\ \/ Goto(c, "describing") /\ UNCHANGED audits
       \/ Goto(c, "result") /\ Audit(c, TRUE)
    /\ UNCHANGED <<activeQueries, session, cancel>>

\* BUG: only the branch without columns calls auditSQL.
DescribeColumns_NoAudit(c) ==
    /\ call[c].phase = "describing"
    /\ Goto(c, "result")
    /\ UNCHANGED <<activeQueries, session, applied, audits, cancel>>

DescribeColumns(c) ==
    /\ call[c].phase = "describing"
    /\ Goto(c, "result")
    /\ Audit(c, TRUE)
    /\ UNCHANGED <<activeQueries, session, applied, cancel>>

\* The database rejects the query in progress: SET search_path, the statement (an
\* error in it undoes what it did), or the metadata lookup after it.
QueryFails(c) ==
    /\ call[c].phase \in Interruptible
    /\ Catch(c)
    /\ UNCHANGED <<activeQueries, session, applied, cancel>>

\* The transport takes the chunk and asks for the next one.
Pull(c) ==
    \/ /\ call[c].phase = "pid"
       /\ Goto(c, "running")
       /\ UNCHANGED <<activeQueries, session, applied, audits, cancel>>
    \/ /\ call[c].phase \in {"result", "reporting"}
       /\ Finally(c)
       /\ UNCHANGED <<session, applied, audits, cancel>>

\* The transport gives up on the stream with return(): only the finally block runs.
StreamReturned(c) ==
    /\ call[c].phase \in Yielding
    /\ Finally(c)
    /\ UNCHANGED <<session, applied, audits, cancel>>

\* The transport gives up with throw(), which surfaces at the yield. At the error
\* chunk, which is yielded by the catch block itself, only the finally block is left.
StreamThrown(c) ==
    \/ /\ call[c].phase \in {"pid", "result"}
       /\ Catch(c)
       /\ UNCHANGED <<activeQueries, session, applied, cancel>>
    \/ /\ call[c].phase = "reporting"
       /\ Finally(c)
       /\ UNCHANGED <<session, applied, audits, cancel>>

\* client.end() has closed the session; the backend exits and frees its pid.
ClientEnded(c) ==
    /\ call[c].phase = "closing"
    /\ Goto(c, "done")
    /\ session' = [p \in Pids |-> IF session[p] = c THEN None ELSE session[p]]
    /\ UNCHANGED <<activeQueries, applied, audits, cancel>>

-----------------------------------------------------------------------------
(* cancelQuery *)

\* The request is sent; it reaches the lookup after the user's session is checked.
SendCancel(k, u, q) ==
    /\ cancel[k].phase = "idle"
    /\ cancel' = [cancel EXCEPT ![k] =
                    [phase |-> "sent", user |-> u, qid |-> q, pid |-> None, aim |-> None]]
    /\ UNCHANGED <<call, activeQueries, session, applied, audits>>

\* The answer is "Query not found or already completed".
MissCancel(k) ==
    /\ cancel[k].phase = "sent"
    /\ activeQueries[cancel[k].qid] = None
    /\ cancel' = [cancel EXCEPT ![k].phase = "missed"]
    /\ UNCHANGED <<call, activeQueries, session, applied, audits>>

\* One's own query, or any query for an admin.
MayCancel(u, entry) == entry.email = u \/ u \in Admins

DenyCancel(k) ==
    /\ cancel[k].phase = "sent"
    /\ activeQueries[cancel[k].qid] # None
    /\ ~ MayCancel(cancel[k].user, activeQueries[cancel[k].qid])
    /\ cancel' = [cancel EXCEPT ![k].phase = "denied"]
    /\ UNCHANGED <<call, activeQueries, session, applied, audits>>

\* The entry is found and a second client is opened to send the signal from; only
\* the pid is carried across that await. `aim` is history.
AimCancel(k) ==
    /\ cancel[k].phase = "sent"
    /\ activeQueries[cancel[k].qid] # None
    /\ LET entry == activeQueries[cancel[k].qid] IN
       /\ MayCancel(cancel[k].user, entry)
       /\ cancel' = [cancel EXCEPT ![k] = [phase |-> "connecting", user |-> @.user,
                              qid |-> @.qid, pid |-> entry.pid, aim |-> entry.by]]
    /\ UNCHANGED <<call, activeQueries, session, applied, audits>>

\* pg_cancel_backend(pid) interrupts whatever query that backend is executing now...
CancelLands(k, c) ==
    /\ cancel[k].phase = "connecting"
    /\ session[cancel[k].pid] = c
    /\ call[c].phase \in Interruptible
    /\ Catch(c)
    /\ cancel' = [cancel EXCEPT ![k].phase = "done"]
    /\ UNCHANGED <<activeQueries, session, applied>>

\* ... or does nothing: the backend is idle or gone, its query ends before the signal
\* is seen, or the second client cannot connect. The caller hears of it either way.
CancelMisfires(k) ==
    /\ cancel[k].phase = "connecting"
    /\ cancel' = [cancel EXCEPT ![k].phase = "done"]
    /\ UNCHANGED <<call, activeQueries, session, applied, audits>>

-----------------------------------------------------------------------------

\* The steps of a request once it has started, its consumer reading to the end.
Progress(c) ==
    \/ \E p \in Pids : GetPid(c, p)
    \/ DialFails(c)
    \/ SetSearchPath(c)
    \/ StatementSucceeds(c)
    \/ DescribeColumns(c)
    \/ QueryFails(c)
    \/ Pull(c)
    \/ ClientEnded(c)

CancelStep(k) ==
    \/ MissCancel(k)
    \/ DenyCancel(k)
    \/ AimCancel(k)
    \/ \E c \in Calls : CancelLands(k, c)
    \/ CancelMisfires(k)

Next ==
    \/ \E c \in Calls :
          \/ \E u \in Users, q \in QueryIds \cup {NoQueryId} : StartExecute(c, u, q)
          \/ RefuseExecute(c)
          \/ Progress(c)
          \/ StreamReturned(c)
          \/ StreamThrown(c)
    \/ \E k \in Cancels :
          \/ \E u \in Users, q \in QueryIds : SendCancel(k, u, q)
          \/ CancelStep(k)

Spec == Init /\ [][Next]_vars

\* The event loop resumes every request whose await is over, the database answers
\* every query or fails it (statement_timeout, connect_timeout), the transport drains
\* every stream it does not abandon.
FairSpec == Spec /\ \A c \in Calls : WF_vars(Progress(c))

-----------------------------------------------------------------------------
(* Properties *)

\* What activeQueries says is true: the registered pid is the backend of a request
\* that has not finished, was started by that user and carries that id. Two requests
\* with one id may each delete the other's entry, but no entry outlives its request
\* (activeQueries.set and .delete in executeSQL).
RegistrationSound ==
    \A q \in QueryIds : activeQueries[q] # None =>
        LET entry == activeQueries[q] IN
        /\ session[entry.pid] = entry.by
        /\ call[entry.by].qid = q
        /\ call[entry.by].user = entry.email
        /\ call[entry.by].phase \in Connected \ {"closing"}

\* A request whose id nobody else uses stays cancellable from the moment its backend
\* is known to the moment it is over, whatever other requests do meanwhile.
LoneIdIsRegistered ==
    \A c \in Calls :
        /\ call[c].phase \in Connected \ {"closing"}
        /\ call[c].pid # None
        /\ call[c].qid \in QueryIds
        /\ \A d \in Calls \ {c} : call[d].qid # call[c].qid
        => activeQueries[call[c].qid] # None /\ activeQueries[call[c].qid].by = c

\* A cancel signal never interrupts a bystander while its target is still there: the
\* call it lands on is the one found under the id, unless that one has closed its
\* session, when the pid carried across the await may belong to anybody
\* (cancelQuery's lookup and pg_cancel_backend are two steps).
CancelHitsItsTarget ==
    [][\A k \in Cancels, c \in Calls :
          CancelLands(k, c) => c = cancel[k].aim \/ call[cancel[k].aim].phase = "done"]_vars

\* The audit trail misses no statement the database applied and invents none: when a
\* request is over its applied statement has an entry, and an entry of success is
\* only written for an applied statement (auditSQL in executeSQL).
AuditFaithful ==
    \A c \in Calls :
        /\ c \in applied /\ call[c].phase \in {"closing", "done"} => audits[c] # <<>>
        /\ (\E i \in 1..Len(audits[c]) : audits[c][i]) => c \in applied

\* Every request that got as far as a client is cleaned up: its session is closed and
\* nothing is left registered by it (the finally block of executeSQL).
EveryCallCleansUp ==
    \A c \in Calls :
        call[c].phase = "dialing"
            ~> /\ call[c].phase = "done"
               /\ \A p \in Pids : session[p] # c
               /\ \A q \in QueryIds : activeQueries[q] = None \/ activeQueries[q].by # c

\* A call with an open session owns exactly the backend whose pid it holds.
SessionsAgree ==
    /\ \A c \in Calls : call[c].phase \in Connected /\ call[c].pid # None
                           => session[call[c].pid] = c
    /\ \A p \in Pids : session[p] # None
                           => /\ call[session[p]].pid = p
                              /\ call[session[p]].phase \in Connected

\* A request has a user from its start, and a pid from the opening of its session.
RequestsAgree ==
    \A c \in Calls :
        /\ call[c].phase \notin {"idle", "refused"} => call[c].user \in Users
        /\ call[c].phase \in {"idle", "refused", "dialing"} => call[c].pid = None
        /\ call[c].phase \in Interruptible \cup {"pid", "result"} => call[c].pid # None

\* A cancel is sent for an id, and the pid it carries from the lookup on was its target's,
\* which has it still or has finished.
AimsAgree ==
    \A k \in Cancels :
        /\ cancel[k].phase = "sent" => cancel[k].qid \in QueryIds
        /\ cancel[k].phase = "connecting" =>
              /\ cancel[k].aim \in Calls
              /\ cancel[k].pid \in Pids
              /\ call[cancel[k].aim].pid = cancel[k].pid
              /\ call[cancel[k].aim].phase \in Connected \cup {"done"}

\* Where a request stands in the audit trail, phase by phase.
AuditPoint ==
    \A c \in Calls :
        /\ c \in applied =>
              /\ call[c].phase \in {"describing", "result", "reporting", "closing", "done"}
              /\ call[c].phase # "describing" => audits[c] # <<>>
        /\ call[c].phase = "describing" => c \in applied
        /\ \A i \in 1..Len(audits[c]) : audits[c][i] => c \in applied

\* The inductive invariant: the registry, the sessions, the cancels under way and the
\* audit trail agree with the phases of the requests.
ExecInv ==
    /\ TypeOK
    /\ RequestsAgree
    /\ SessionsAgree
    /\ RegistrationSound
    /\ AimsAgree
    /\ AuditPoint
=============================================================================
