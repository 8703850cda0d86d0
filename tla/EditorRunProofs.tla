--------------------------- MODULE EditorRunProofs ---------------------------
(***************************************************************************)
(* Proofs about QueryExec, for every set of requests, users, ids and pids, *)
(* and about EditorRun, which drives it.                                   *)
(*                                                                         *)
(* The server: ExecInv is inductive.  RegistrationSound alone is not: that *)
(* the registry is right after a session is opened or closed needs to know *)
(* whose session it is (SessionsAgree) and that a pid is only had while it *)
(* is open (RequestsAgree).  CancelHitsItsTarget then follows from         *)
(* AimsAgree, what is known of the pid a cancel carries over its await.    *)
(*                                                                         *)
(* The editor over the server: whatever its runs, tabs and cancels do, the *)
(* server only ever takes steps of QueryExec, so that all that is proved   *)
(* of the server holds under the editor; the spinners are honest; and a    *)
(* run that was never live together with another is cancelled exactly when *)
(* its user asked for it.                                                  *)
(***************************************************************************)
EXTENDS EditorRun, TLAPS

-----------------------------------------------------------------------------
(* The server. *)

\* The initial registry, sessions and audit trail are empty, hence consistent.
LEMMA InitExecInv == Init => ExecInv
<1> SUFFICES ASSUME Init PROVE ExecInv
  OBVIOUS
<1> USE QueryExecAssumption DEF Init
<1>1. TypeOK
  BY DEF TypeOK, CallRecord, CancelRecord, Phases, Registration
<1>2. RequestsAgree /\ SessionsAgree
  BY DEF RequestsAgree, SessionsAgree, Connected, Interruptible
<1>3. RegistrationSound /\ AimsAgree
  BY DEF RegistrationSound, AimsAgree
<1>4. AuditPoint
  BY DEF AuditPoint
<1> QED
  BY <1>1, <1>2, <1>3, <1>4 DEF ExecInv

\* An entry written to the audit trail is its last one.
LEMMA AuditAppends ==
    ASSUME audits \in [Calls -> Seq(BOOLEAN)], NEW c \in Calls, NEW b \in BOOLEAN, Audit(c, b)
    PROVE  /\ audits' \in [Calls -> Seq(BOOLEAN)]
           /\ audits'[c] # <<>>
           /\ \A d \in Calls \ {c} : audits'[d] = audits[d]
           /\ \A i \in 1..Len(audits'[c]) :
                 audits'[c][i] => b \/ (i \in 1..Len(audits[c]) /\ audits[c][i])
<1>1. audits[c] \in Seq(BOOLEAN)
  OBVIOUS
<1>2. audits' = [audits EXCEPT ![c] = Append(audits[c], b)]
  BY DEF Audit
<1>3. audits'[c] = Append(audits[c], b)
  BY <1>2
<1>4. /\ Append(audits[c], b) \in Seq(BOOLEAN)
      /\ Len(Append(audits[c], b)) = Len(audits[c]) + 1
      /\ Len(audits[c]) \in Nat
      /\ \A i \in 1..(Len(audits[c]) + 1) :
            Append(audits[c], b)[i] = IF i = Len(audits[c]) + 1 THEN b ELSE audits[c][i]
  BY <1>1
<1>5. audits'[c] # <<>>
  BY <1>3, <1>4
<1>6. \A i \in 1..Len(audits'[c]) :
         audits'[c][i] => b \/ (i \in 1..Len(audits[c]) /\ audits[c][i])
  <2> TAKE i \in 1..Len(audits'[c])
  <2>1. CASE i = Len(audits[c]) + 1
    BY <2>1, <1>3, <1>4
  <2>2. CASE i # Len(audits[c]) + 1
    BY <2>2, <1>3, <1>4
  <2> QED
    BY <2>1, <2>2
<1> QED
  BY <1>2, <1>3, <1>4, <1>5, <1>6

\* A request that enters its catch block keeps its session and its registration.
LEMMA CatchStep ==
    ASSUME ExecInv, NEW c \in Calls, Catch(c),
           call[c].phase \in {"dialing", "pathing", "pid", "running", "describing", "result"},
           UNCHANGED <<activeQueries, session, applied>>,
           cancel' \in [Cancels -> CancelRecord],
           \A k \in Cancels : cancel'[k].phase \in {"sent", "connecting"} => cancel'[k] = cancel[k]
    PROVE  ExecInv'
<1> USE DEF ExecInv
<1>a. call' = [call EXCEPT ![c].phase = "reporting"] /\ Audit(c, FALSE)
  BY DEF Catch, Goto
<1>b. audits \in [Calls -> Seq(BOOLEAN)]
  BY DEF TypeOK
<1>c. /\ audits' \in [Calls -> Seq(BOOLEAN)]
      /\ audits'[c] # <<>>
      /\ \A d \in Calls \ {c} : audits'[d] = audits[d]
      /\ \A i \in 1..Len(audits'[c]) : audits'[c][i] => i \in 1..Len(audits[c]) /\ audits[c][i]
  <2>1. Audit(c, FALSE)
    BY <1>a
  <2> HIDE DEF ExecInv
  <2> QED
    BY <1>b, <2>1, AuditAppends
<1>1. TypeOK'
  <2>1. call' \in [Calls -> CallRecord]
    BY <1>a DEF TypeOK, CallRecord, Phases
  <2> QED
    BY <2>1, <1>c DEF TypeOK
<1>2. RequestsAgree'
  BY <1>a DEF RequestsAgree, TypeOK, CallRecord, Interruptible
<1>3. SessionsAgree'
  BY <1>a DEF SessionsAgree, RequestsAgree, TypeOK, CallRecord, Connected
<1>4. RegistrationSound'
  BY <1>a DEF RegistrationSound, TypeOK, CallRecord, Registration, Connected
<1>5. AimsAgree'
  BY <1>a DEF AimsAgree, TypeOK, CallRecord, CancelRecord, Connected
<1>6. AuditPoint'
  BY <1>a, <1>c DEF AuditPoint, TypeOK, CallRecord
<1> QED
  BY <1>1, <1>2, <1>3, <1>4, <1>5, <1>6

\* A request that enters its finally block takes its id out of the registry.
LEMMA FinallyStep ==
    ASSUME ExecInv, NEW c \in Calls, Finally(c), call[c].phase \in Yielding,
           UNCHANGED <<session, applied, audits, cancel>>
    PROVE  ExecInv'
<1> USE DEF ExecInv
<1>a. /\ call' = [call EXCEPT ![c].phase = "closing"]
      /\ activeQueries' = [q \in QueryIds |-> IF q = call[c].qid THEN None ELSE activeQueries[q]]
  BY DEF Finally, Goto
<1>1. TypeOK'
  BY <1>a DEF TypeOK, CallRecord, Phases
<1>2. RequestsAgree'
  BY <1>a DEF RequestsAgree, TypeOK, CallRecord, Interruptible, Yielding
<1>3. SessionsAgree'
  BY <1>a DEF SessionsAgree, TypeOK, CallRecord, Connected, Yielding
<1>4. RegistrationSound'
  BY <1>a DEF RegistrationSound, TypeOK, CallRecord, Registration, Connected
<1>5. AimsAgree'
  BY <1>a DEF AimsAgree, TypeOK, CallRecord, CancelRecord, Connected
<1>6. AuditPoint'
  BY <1>a DEF AuditPoint, TypeOK, CallRecord, Yielding
<1> QED
  BY <1>1, <1>2, <1>3, <1>4, <1>5, <1>6
\* A request that starts has no session yet, and nothing is registered for it.
LEMMA StartStep ==
    ASSUME ExecInv, NEW c \in Calls, NEW u \in Users, NEW q \in QueryIds \cup {NoQueryId}, StartExecute(c, u, q)
    PROVE  ExecInv'
<1> USE DEF ExecInv
<1>a. /\ call[c].phase = "idle"
      /\ call' = [call EXCEPT ![c] = [phase |-> "dialing", qid |-> q, user |-> u, pid |-> None]]
  BY DEF StartExecute
<1>b. UNCHANGED <<activeQueries, session, applied, audits, cancel>>
  BY DEF StartExecute
<1>c. call' \in [Calls -> CallRecord]
  BY <1>a DEF TypeOK, CallRecord, Phases
<1>1. TypeOK'
  BY QueryExecAssumption, <1>a, <1>b, <1>c DEF TypeOK, Registration, CallRecord, RequestsAgree
<1>2. RequestsAgree'
  BY QueryExecAssumption, <1>a, <1>b DEF RequestsAgree, TypeOK, CallRecord, Interruptible
<1>3. SessionsAgree'
  BY QueryExecAssumption, <1>a, <1>b DEF SessionsAgree, RequestsAgree, TypeOK, CallRecord, Connected
<1>4. RegistrationSound'
  BY QueryExecAssumption, <1>a, <1>b DEF RegistrationSound, SessionsAgree, TypeOK, CallRecord, Registration, Connected
<1>5. AimsAgree'
  BY QueryExecAssumption, <1>a, <1>b DEF AimsAgree, TypeOK, CallRecord, CancelRecord, Connected
<1>6. AuditPoint'
  BY QueryExecAssumption, <1>a, <1>b DEF AuditPoint, TypeOK, CallRecord
<1> QED
  BY <1>1, <1>2, <1>3, <1>4, <1>5, <1>6

\* A refused request leaves no trace.
LEMMA RefuseStep ==
    ASSUME ExecInv, NEW c \in Calls, RefuseExecute(c)
    PROVE  ExecInv'
<1> USE DEF ExecInv
<1>a. /\ call[c].phase = "idle"
      /\ call' = [call EXCEPT ![c].phase = "refused"]
  BY DEF RefuseExecute, Goto
<1>b. UNCHANGED <<activeQueries, session, applied, audits, cancel>>
  BY DEF RefuseExecute
<1>c. call' \in [Calls -> CallRecord]
  BY <1>a DEF TypeOK, CallRecord, Phases
<1>1. TypeOK'
  BY QueryExecAssumption, <1>a, <1>b, <1>c DEF TypeOK, Registration, CallRecord, RequestsAgree
<1>2. RequestsAgree'
  BY QueryExecAssumption, <1>a, <1>b DEF RequestsAgree, TypeOK, CallRecord, Interruptible
<1>3. SessionsAgree'
  BY QueryExecAssumption, <1>a, <1>b DEF SessionsAgree, RequestsAgree, TypeOK, CallRecord, Connected
<1>4. RegistrationSound'
  BY QueryExecAssumption, <1>a, <1>b DEF RegistrationSound, SessionsAgree, TypeOK, CallRecord, Registration, Connected
<1>5. AimsAgree'
  BY QueryExecAssumption, <1>a, <1>b DEF AimsAgree, TypeOK, CallRecord, CancelRecord, Connected
<1>6. AuditPoint'
  BY QueryExecAssumption, <1>a, <1>b DEF AuditPoint, TypeOK, CallRecord
<1> QED
  BY <1>1, <1>2, <1>3, <1>4, <1>5, <1>6

\* A backend just handed out belongs to nobody else, and replaces any earlier registration.
LEMMA GetPidStep ==
    ASSUME ExecInv, NEW c \in Calls, NEW p \in Pids, GetPid(c, p)
    PROVE  ExecInv'
<1> USE DEF ExecInv
<1>a. /\ call[c].phase = "dialing"
      /\ call' = [call EXCEPT ![c] = [phase |-> "pathing", qid |-> call[c].qid,
                                       user |-> call[c].user, pid |-> p]]
      /\ session[p] = None /\ session' = [session EXCEPT ![p] = c]
      /\ activeQueries' = [q \in QueryIds |->
                              IF q = call[c].qid
                              THEN [pid |-> p, email |-> call[c].user, by |-> c]
                              ELSE activeQueries[q]]
  BY DEF GetPid
<1>b. UNCHANGED <<applied, audits, cancel>>
  BY DEF GetPid
<1>c. call' \in [Calls -> CallRecord]
  BY <1>a DEF TypeOK, CallRecord, Phases
<1>1. TypeOK'
  BY QueryExecAssumption, <1>a, <1>b, <1>c DEF TypeOK, Registration, CallRecord, RequestsAgree
<1>2. RequestsAgree'
  BY QueryExecAssumption, <1>a, <1>b DEF RequestsAgree, TypeOK, CallRecord, Interruptible
<1>3. SessionsAgree'
  BY QueryExecAssumption, <1>a, <1>b DEF SessionsAgree, RequestsAgree, TypeOK, CallRecord, Connected
<1>4. RegistrationSound'
  BY QueryExecAssumption, <1>a, <1>b DEF RegistrationSound, SessionsAgree, TypeOK, CallRecord, Registration, Connected
<1>5. AimsAgree'
  BY QueryExecAssumption, <1>a, <1>b DEF AimsAgree, TypeOK, CallRecord, CancelRecord, Connected
<1>6. AuditPoint'
  BY QueryExecAssumption, <1>a, <1>b DEF AuditPoint, TypeOK, CallRecord
<1> QED
  BY <1>1, <1>2, <1>3, <1>4, <1>5, <1>6

\* The search path changes nothing the invariant speaks of.
LEMMA SetSearchPathStep ==
    ASSUME ExecInv, NEW c \in Calls, SetSearchPath(c)
    PROVE  ExecInv'
<1> USE DEF ExecInv
<1>a. /\ call[c].phase = "pathing"
      /\ call' = [call EXCEPT ![c].phase = "pid"]
  BY DEF SetSearchPath, Goto
<1>b. UNCHANGED <<activeQueries, session, applied, audits, cancel>>
  BY DEF SetSearchPath
<1>c. call' \in [Calls -> CallRecord]
  BY <1>a DEF TypeOK, CallRecord, Phases
<1>1. TypeOK'
  BY QueryExecAssumption, <1>a, <1>b, <1>c DEF TypeOK, Registration, CallRecord, RequestsAgree
<1>2. RequestsAgree'
  BY QueryExecAssumption, <1>a, <1>b DEF RequestsAgree, TypeOK, CallRecord, Interruptible
<1>3. SessionsAgree'
  BY QueryExecAssumption, <1>a, <1>b DEF SessionsAgree, RequestsAgree, TypeOK, CallRecord, Connected
<1>4. RegistrationSound'
  BY QueryExecAssumption, <1>a, <1>b DEF RegistrationSound, SessionsAgree, TypeOK, CallRecord, Registration, Connected
<1>5. AimsAgree'
  BY QueryExecAssumption, <1>a, <1>b DEF AimsAgree, TypeOK, CallRecord, CancelRecord, Connected
<1>6. AuditPoint'
  BY QueryExecAssumption, <1>a, <1>b DEF AuditPoint, TypeOK, CallRecord
<1> QED
  BY <1>1, <1>2, <1>3, <1>4, <1>5, <1>6

\* A session is closed after its registration is gone.
LEMMA ClientEndedStep ==
    ASSUME ExecInv, NEW c \in Calls, ClientEnded(c)
    PROVE  ExecInv'
<1> USE DEF ExecInv
<1>a. /\ call[c].phase = "closing"
      /\ call' = [call EXCEPT ![c].phase = "done"]
      /\ session' = [p \in Pids |-> IF session[p] = c THEN None ELSE session[p]]
  BY DEF ClientEnded, Goto
<1>b. UNCHANGED <<activeQueries, applied, audits, cancel>>
  BY DEF ClientEnded
<1>c. call' \in [Calls -> CallRecord]
  BY <1>a DEF TypeOK, CallRecord, Phases
<1>1. TypeOK'
  BY QueryExecAssumption, <1>a, <1>b, <1>c DEF TypeOK, Registration, CallRecord, RequestsAgree
<1>2. RequestsAgree'
  BY QueryExecAssumption, <1>a, <1>b DEF RequestsAgree, TypeOK, CallRecord, Interruptible
<1>3. SessionsAgree'
  BY QueryExecAssumption, <1>a, <1>b DEF SessionsAgree, RequestsAgree, TypeOK, CallRecord, Connected
<1>4. RegistrationSound'
  BY QueryExecAssumption, <1>a, <1>b DEF RegistrationSound, SessionsAgree, TypeOK, CallRecord, Registration, Connected
<1>5. AimsAgree'
  BY QueryExecAssumption, <1>a, <1>b DEF AimsAgree, TypeOK, CallRecord, CancelRecord, Connected
<1>6. AuditPoint'
  BY QueryExecAssumption, <1>a, <1>b DEF AuditPoint, TypeOK, CallRecord
<1> QED
  BY <1>1, <1>2, <1>3, <1>4, <1>5, <1>6

\* Nor does handing over the pid chunk.
LEMMA PullPidStep ==
    ASSUME ExecInv, NEW c \in Calls, call[c].phase = "pid", Goto(c, "running"),
           UNCHANGED <<activeQueries, session, applied, audits, cancel>>
    PROVE  ExecInv'
<1> USE DEF ExecInv
<1>a. /\ call[c].phase = "pid"
      /\ call' = [call EXCEPT ![c].phase = "running"]
  BY DEF Goto
<1>b. UNCHANGED <<activeQueries, session, applied, audits, cancel>>
  OBVIOUS
<1>c. call' \in [Calls -> CallRecord]
  BY <1>a DEF TypeOK, CallRecord, Phases
<1>1. TypeOK'
  BY QueryExecAssumption, <1>a, <1>b, <1>c DEF TypeOK, Registration, CallRecord, RequestsAgree
<1>2. RequestsAgree'
  BY QueryExecAssumption, <1>a, <1>b DEF RequestsAgree, TypeOK, CallRecord, Interruptible
<1>3. SessionsAgree'
  BY QueryExecAssumption, <1>a, <1>b DEF SessionsAgree, RequestsAgree, TypeOK, CallRecord, Connected
<1>4. RegistrationSound'
  BY QueryExecAssumption, <1>a, <1>b DEF RegistrationSound, SessionsAgree, TypeOK, CallRecord, Registration, Connected
<1>5. AimsAgree'
  BY QueryExecAssumption, <1>a, <1>b DEF AimsAgree, TypeOK, CallRecord, CancelRecord, Connected
<1>6. AuditPoint'
  BY QueryExecAssumption, <1>a, <1>b DEF AuditPoint, TypeOK, CallRecord
<1> QED
  BY <1>1, <1>2, <1>3, <1>4, <1>5, <1>6

\* A statement that returns columns is applied, and not yet audited.
LEMMA AppliedStep ==
    ASSUME ExecInv, NEW c \in Calls, call[c].phase = "running", Goto(c, "describing"),
           applied' = applied \cup {c}, UNCHANGED <<activeQueries, session, audits, cancel>>
    PROVE  ExecInv'
<1> USE DEF ExecInv
<1>a. /\ call[c].phase = "running"
      /\ call' = [call EXCEPT ![c].phase = "describing"]
      /\ applied' = applied \cup {c}
  BY DEF Goto
<1>b. UNCHANGED <<activeQueries, session, audits, cancel>>
  OBVIOUS
<1>c. call' \in [Calls -> CallRecord]
  BY <1>a DEF TypeOK, CallRecord, Phases
<1>1. TypeOK'
  BY QueryExecAssumption, <1>a, <1>b, <1>c DEF TypeOK, Registration, CallRecord, RequestsAgree
<1>2. RequestsAgree'
  BY QueryExecAssumption, <1>a, <1>b DEF RequestsAgree, TypeOK, CallRecord, Interruptible
<1>3. SessionsAgree'
  BY QueryExecAssumption, <1>a, <1>b DEF SessionsAgree, RequestsAgree, TypeOK, CallRecord, Connected
<1>4. RegistrationSound'
  BY QueryExecAssumption, <1>a, <1>b DEF RegistrationSound, SessionsAgree, TypeOK, CallRecord, Registration, Connected
<1>5. AimsAgree'
  BY QueryExecAssumption, <1>a, <1>b DEF AimsAgree, TypeOK, CallRecord, CancelRecord, Connected
<1>6. AuditPoint'
  BY QueryExecAssumption, <1>a, <1>b DEF AuditPoint, TypeOK, CallRecord
<1> QED
  BY <1>1, <1>2, <1>3, <1>4, <1>5, <1>6

\* An applied statement is audited before its result is yielded.
LEMMA AuditedStep ==
    ASSUME ExecInv, NEW c \in Calls, call[c].phase \in {"running", "describing"},
           Goto(c, "result"), Audit(c, TRUE),
           applied' = applied \cup {c}, UNCHANGED <<activeQueries, session, cancel>>
    PROVE  ExecInv'
<1> USE DEF ExecInv
<1>a. /\ call[c].phase \in {"running", "describing"}
      /\ call' = [call EXCEPT ![c].phase = "result"]
      /\ applied' = applied \cup {c}
  BY DEF Goto
<1>b. UNCHANGED <<activeQueries, session, cancel>>
  OBVIOUS
<1>d. /\ audits' \in [Calls -> Seq(BOOLEAN)]
      /\ audits'[c] # <<>>
      /\ \A d \in Calls \ {c} : audits'[d] = audits[d]
  <2>1. audits \in [Calls -> Seq(BOOLEAN)]
    BY DEF TypeOK
  <2> HIDE DEF ExecInv
  <2> QED
    BY <2>1, AuditAppends
<1>c. call' \in [Calls -> CallRecord]
  BY <1>a DEF TypeOK, CallRecord, Phases
<1>1. TypeOK'
  BY QueryExecAssumption, <1>a, <1>b, <1>c, <1>d DEF TypeOK, Registration, CallRecord, RequestsAgree
<1>2. RequestsAgree'
  BY QueryExecAssumption, <1>a, <1>b DEF RequestsAgree, TypeOK, CallRecord, Interruptible
<1>3. SessionsAgree'
  BY QueryExecAssumption, <1>a, <1>b DEF SessionsAgree, RequestsAgree, TypeOK, CallRecord, Connected
<1>4. RegistrationSound'
  BY QueryExecAssumption, <1>a, <1>b DEF RegistrationSound, SessionsAgree, TypeOK, CallRecord, Registration, Connected
<1>5. AimsAgree'
  BY QueryExecAssumption, <1>a, <1>b DEF AimsAgree, TypeOK, CallRecord, CancelRecord, Connected
<1>6. AuditPoint'
  BY QueryExecAssumption, <1>a, <1>b, <1>d DEF AuditPoint, TypeOK, CallRecord
<1> QED
  BY <1>1, <1>2, <1>3, <1>4, <1>5, <1>6

\* A step of cancelQuery that only records how far it got.
LEMMA CancelStepAlone ==
    ASSUME ExecInv, UNCHANGED <<call, activeQueries, session, applied, audits>>,
           cancel' \in [Cancels -> CancelRecord],
           \A k \in Cancels : cancel'[k].phase = "sent" => cancel'[k].qid \in QueryIds,
           \A k \in Cancels : cancel'[k].phase = "connecting" =>
              \/ cancel'[k] = cancel[k]
              \/ \E q \in QueryIds : /\ activeQueries[q] # None
                                    /\ cancel'[k].pid = activeQueries[q].pid
                                    /\ cancel'[k].aim = activeQueries[q].by
    PROVE  ExecInv'
<1> USE DEF ExecInv
<1>1. TypeOK'
  BY DEF TypeOK
<1>2. RequestsAgree' /\ SessionsAgree' /\ RegistrationSound' /\ AuditPoint'
  BY DEF RequestsAgree, SessionsAgree, RegistrationSound, AuditPoint
<1>3. AimsAgree'
  <2> SUFFICES ASSUME NEW k \in Cancels, cancel'[k].phase = "connecting"
               PROVE  /\ cancel'[k].aim \in Calls
                      /\ cancel'[k].pid \in Pids
                      /\ call[cancel'[k].aim].pid = cancel'[k].pid
                      /\ call[cancel'[k].aim].phase \in Connected \cup {"done"}
    BY DEF AimsAgree
  <2>1. CASE cancel'[k] = cancel[k]
    BY <2>1 DEF AimsAgree
  <2>2. CASE cancel'[k] # cancel[k]
    <3>1. PICK q \in QueryIds : /\ activeQueries[q] # None
                               /\ cancel'[k].pid = activeQueries[q].pid
                               /\ cancel'[k].aim = activeQueries[q].by
      BY <2>2
    <3>2. activeQueries[q] \in Registration
      BY <3>1 DEF TypeOK
    <3>3. /\ activeQueries[q].by \in Calls /\ activeQueries[q].pid \in Pids
          /\ session[activeQueries[q].pid] = activeQueries[q].by
          /\ call[activeQueries[q].by].phase \in Connected
      BY <3>1, <3>2 DEF RegistrationSound, Registration
    <3>4. call[activeQueries[q].by].pid = activeQueries[q].pid
      BY <3>3, QueryExecAssumption DEF SessionsAgree
    <3> QED
      BY <3>1, <3>3, <3>4
  <2> QED
    BY <2>1, <2>2
<1> QED
  BY <1>1, <1>2, <1>3

\* The steps of an executeSQL request.
LEMMA CallStep ==
    ASSUME ExecInv, NEW c \in Calls,
           \/ \E u \in Users, q \in QueryIds \cup {NoQueryId} : StartExecute(c, u, q)
           \/ RefuseExecute(c)
           \/ Progress(c)
           \/ StreamReturned(c)
           \/ StreamThrown(c)
    PROVE  ExecInv'
<1>a. UNCHANGED cancel => /\ cancel' \in [Cancels -> CancelRecord]
                          /\ \A k \in Cancels : cancel'[k].phase \in {"sent", "connecting"}
                                                    => cancel'[k] = cancel[k]
  BY DEF ExecInv, TypeOK
<1>1. CASE \E u \in Users, q \in QueryIds \cup {NoQueryId} : StartExecute(c, u, q)
  BY <1>1, StartStep
<1>2. CASE RefuseExecute(c)
  BY <1>2, RefuseStep
<1>3. CASE \E p \in Pids : GetPid(c, p)
  BY <1>3, GetPidStep
<1>4. CASE DialFails(c)
  BY <1>4, <1>a, CatchStep DEF DialFails
<1>5. CASE SetSearchPath(c)
  BY <1>5, SetSearchPathStep
<1>6. CASE StatementSucceeds(c)
  <2>1. CASE Goto(c, "describing") /\ UNCHANGED audits
    BY <1>6, <2>1, AppliedStep DEF StatementSucceeds
  <2>2. CASE Goto(c, "result") /\ Audit(c, TRUE)
    BY <1>6, <2>2, AuditedStep DEF StatementSucceeds
  <2> QED
    BY <1>6, <2>1, <2>2 DEF StatementSucceeds
<1>7. CASE DescribeColumns(c)
  <2>1. applied' = applied \cup {c}
    BY <1>7 DEF DescribeColumns, ExecInv, AuditPoint
  <2> QED
    BY <1>7, <2>1, AuditedStep DEF DescribeColumns
<1>8. CASE QueryFails(c)
  BY <1>8, <1>a, CatchStep DEF QueryFails, Interruptible
<1>9. CASE Pull(c)
  <2>1. CASE call[c].phase = "pid"
    BY <1>9, <2>1, PullPidStep DEF Pull
  <2>2. CASE call[c].phase \in {"result", "reporting"}
    BY <1>9, <2>2, FinallyStep DEF Pull, Yielding
  <2> QED
    BY <1>9, <2>1, <2>2 DEF Pull
<1>10. CASE ClientEnded(c)
  BY <1>10, ClientEndedStep
<1>11. CASE StreamReturned(c)
  BY <1>11, FinallyStep DEF StreamReturned
<1>12. CASE StreamThrown(c)
  <2>1. CASE call[c].phase \in {"pid", "result"}
    BY <1>12, <2>1, <1>a, CatchStep DEF StreamThrown
  <2>2. CASE call[c].phase = "reporting"
    BY <1>12, <2>2, FinallyStep DEF StreamThrown, Yielding
  <2> QED
    BY <1>12, <2>1, <2>2 DEF StreamThrown
<1> QED
  BY <1>1, <1>2, <1>3, <1>4, <1>5, <1>6, <1>7, <1>8, <1>9, <1>10, <1>11, <1>12 DEF Progress

\* The steps of a cancelQuery request.
LEMMA CancellingStep ==
    ASSUME ExecInv, NEW k \in Cancels,
           (\E u \in Users, q \in QueryIds : SendCancel(k, u, q)) \/ CancelStep(k)
    PROVE  ExecInv'
<1>a. cancel \in [Cancels -> CancelRecord]
  BY DEF ExecInv, TypeOK
<1>b. \A l \in Cancels : cancel[l].phase = "sent" => cancel[l].qid \in QueryIds
  BY DEF ExecInv, AimsAgree
<1>1. CASE \E u \in Users, q \in QueryIds : SendCancel(k, u, q)
  <2>1. /\ cancel' \in [Cancels -> CancelRecord]
        /\ \A l \in Cancels : cancel'[l].phase = "sent" => cancel'[l].qid \in QueryIds
        /\ \A l \in Cancels : cancel'[l].phase = "connecting" => cancel'[l] = cancel[l]
    BY <1>1, <1>a, <1>b DEF SendCancel, CancelRecord
  <2> QED
    BY <1>1, <2>1, CancelStepAlone DEF SendCancel
<1>2. CASE MissCancel(k) \/ DenyCancel(k) \/ CancelMisfires(k)
  <2>1. /\ cancel' \in [Cancels -> CancelRecord]
        /\ \A l \in Cancels : cancel'[l].phase = "sent" => cancel'[l].qid \in QueryIds
        /\ \A l \in Cancels : cancel'[l].phase = "connecting" => cancel'[l] = cancel[l]
    BY <1>2, <1>a, <1>b DEF MissCancel, DenyCancel, CancelMisfires, CancelRecord
  <2> QED
    BY <1>2, <2>1, CancelStepAlone DEF MissCancel, DenyCancel, CancelMisfires
<1>3. CASE AimCancel(k)
  <2> DEFINE entry == activeQueries[cancel[k].qid]
  <2>1. /\ cancel[k].phase = "sent" /\ entry # None
        /\ cancel' = [cancel EXCEPT ![k] =
                         [phase |-> "connecting", user |-> cancel[k].user, qid |-> cancel[k].qid,
                          pid |-> entry.pid, aim |-> entry.by]]
    BY <1>3 DEF AimCancel
  <2>2. cancel[k].qid \in QueryIds
    BY <2>1, <1>b
  <2>3. entry \in Registration
    BY <2>1, <2>2 DEF ExecInv, TypeOK
  <2>4. cancel' \in [Cancels -> CancelRecord]
    BY <2>1, <2>2, <2>3, <1>a DEF CancelRecord, Registration
  <2>5. \A l \in Cancels : cancel'[l].phase = "sent" => cancel'[l].qid \in QueryIds
    BY <2>1, <1>a, <1>b
  <2>6. \A l \in Cancels : cancel'[l].phase = "connecting" =>
           \/ cancel'[l] = cancel[l]
           \/ \E q \in QueryIds : /\ activeQueries[q] # None
                                 /\ cancel'[l].pid = activeQueries[q].pid
                                 /\ cancel'[l].aim = activeQueries[q].by
    BY <2>1, <2>2, <1>a
  <2> QED
    BY <1>3, <2>4, <2>5, <2>6, CancelStepAlone DEF AimCancel
<1>4. CASE \E c \in Calls : CancelLands(k, c)
  <2>1. PICK c \in Calls : CancelLands(k, c)
    BY <1>4
  <2>2. /\ cancel' \in [Cancels -> CancelRecord]
        /\ \A l \in Cancels : cancel'[l].phase \in {"sent", "connecting"} => cancel'[l] = cancel[l]
    BY <2>1, <1>a DEF CancelLands, CancelRecord
  <2> QED
    BY <2>1, <2>2, CatchStep DEF CancelLands, Interruptible
<1> QED
  BY <1>1, <1>2, <1>3, <1>4 DEF CancelStep

\* Every step, of a request or of none, keeps the invariant.
LEMMA StepExecInv == ExecInv /\ [Next]_vars => ExecInv'
<1> SUFFICES ASSUME ExecInv, [Next]_vars PROVE ExecInv'
  OBVIOUS
<1>1. CASE Next
  BY <1>1, CallStep, CancellingStep DEF Next
<1>2. CASE UNCHANGED vars
  BY <1>2 DEF vars, ExecInv, TypeOK, RequestsAgree, SessionsAgree, RegistrationSound, AimsAgree,
             AuditPoint
<1> QED
  BY <1>1, <1>2

-----------------------------------------------------------------------------

\* The requests, the registry, the sessions, the cancels and the audit trail agree in
\* every reachable state (executeSQL and cancelQuery of query-service.ts).
THEOREM ExecConsistent == Spec => []ExecInv
<1>1. Init => ExecInv
  BY InitExecInv
<1>2. ExecInv /\ [Next]_vars => ExecInv'
  BY StepExecInv
<1> QED
  BY <1>1, <1>2, PTL DEF Spec

\* activeQueries never names a finished request, a wrong user or a wrong backend,
\* however many requests share an id.
THEOREM RegistryIsSound == Spec => []RegistrationSound
<1>1. ExecInv => RegistrationSound
  BY DEF ExecInv
<1> QED
  BY <1>1, ExecConsistent, PTL

\* No applied statement escapes the audit trail, and none is invented in it.
THEOREM AuditIsFaithful == Spec => []AuditFaithful
<1>1. ExecInv => AuditFaithful
  BY DEF ExecInv, AuditPoint, AuditFaithful
<1> QED
  BY <1>1, ExecConsistent, PTL

\* A cancel signal only ever interrupts its target, or comes after its end.
THEOREM CancelIsAimed == Spec => CancelHitsItsTarget
<1>1. ExecInv => \A k \in Cancels, c \in Calls :
         CancelLands(k, c) => c = cancel[k].aim \/ call[cancel[k].aim].phase = "done"
  <2> SUFFICES ASSUME ExecInv, NEW k \in Cancels, NEW c \in Calls, CancelLands(k, c),
                      call[cancel[k].aim].phase # "done"
               PROVE  c = cancel[k].aim
    OBVIOUS
  <2>1. cancel[k].phase = "connecting" /\ session[cancel[k].pid] = c
    BY DEF CancelLands
  <2>2. /\ cancel[k].aim \in Calls /\ cancel[k].pid \in Pids
        /\ call[cancel[k].aim].pid = cancel[k].pid
        /\ call[cancel[k].aim].phase \in Connected
    BY <2>1 DEF ExecInv, AimsAgree
  <2> QED
    BY <2>1, <2>2, QueryExecAssumption DEF ExecInv, SessionsAgree
<1> QED
  BY <1>1, ExecConsistent, PTL DEF CancelHitsItsTarget

-----------------------------------------------------------------------------
(* A request stays cancellable *)

\* A request that has not started has no id yet; one that has keeps its id for good, so
\* that an id nobody else uses is one that nobody else has used.
LoneInv ==
    /\ \A c \in Calls : call[c].phase \in {"idle", "refused"} => call[c].qid = NoQueryId
    /\ LoneIdIsRegistered

\* A request that only moves on to another phase.
LEMMA LonePhaseStep ==
    ASSUME ExecInv, LoneInv, NEW c \in Calls, NEW phase \in Phases,
           call' = [call EXCEPT ![c].phase = phase],
           phase \in {"idle", "refused"} => call[c].phase = "idle",
           phase \in Connected \ {"closing"} /\ call[c].pid # None => call[c].phase \in Connected \ {"closing"},
           \/ activeQueries' = activeQueries
           \/ /\ phase = "closing"
              /\ activeQueries' = [q \in QueryIds |-> IF q = call[c].qid THEN None ELSE activeQueries[q]]
    PROVE  LoneInv'
<1>1. call \in [Calls -> CallRecord]
  BY DEF ExecInv, TypeOK
<1>2. /\ call'[c].phase = phase
      /\ \A x \in Calls : call'[x].qid = call[x].qid /\ call'[x].pid = call[x].pid
      /\ \A x \in Calls \ {c} : call'[x].phase = call[x].phase
  BY <1>1 DEF CallRecord
<1>3. \A x \in Calls : call'[x].phase \in {"idle", "refused"} => call'[x].qid = NoQueryId
  BY <1>2 DEF LoneInv
<1>4. ASSUME NEW x \in Calls, call'[x].phase \in Connected \ {"closing"}, call'[x].pid # None,
             call'[x].qid \in QueryIds, \A d \in Calls \ {x} : call'[d].qid # call'[x].qid
      PROVE  activeQueries'[call'[x].qid] # None /\ activeQueries'[call'[x].qid].by = x
  <2>1. activeQueries[call[x].qid] # None /\ activeQueries[call[x].qid].by = x
    BY <1>2, <1>4 DEF LoneInv, LoneIdIsRegistered
  <2>2. activeQueries'[call[x].qid] = activeQueries[call[x].qid]
    BY <1>2, <1>4
  <2> QED
    BY <1>2, <2>1, <2>2
<1> QED
  BY <1>3, <1>4 DEF LoneInv, LoneIdIsRegistered

\* A request starts, under an id that makes it, or leaves it, the only one of its id.
LEMMA LoneStartStep ==
    ASSUME ExecInv, LoneInv, NEW c \in Calls, NEW u \in Users, NEW q \in QueryIds \cup {NoQueryId},
           StartExecute(c, u, q)
    PROVE  LoneInv'
<1>1. /\ call \in [Calls -> CallRecord] /\ call[c].qid = NoQueryId /\ NoQueryId \notin QueryIds
  BY QueryExecAssumption DEF ExecInv, TypeOK, LoneInv, StartExecute
<1>2. /\ call'[c].phase = "dialing" /\ call'[c].qid = q /\ activeQueries' = activeQueries
      /\ \A x \in Calls \ {c} : call'[x] = call[x]
  BY <1>1 DEF StartExecute
<1>3. \A x \in Calls : call'[x].phase \in {"idle", "refused"} => call'[x].qid = NoQueryId
  BY <1>2 DEF LoneInv
<1>4. ASSUME NEW x \in Calls, call'[x].phase \in Connected \ {"closing"}, call'[x].pid # None,
             call'[x].qid \in QueryIds, \A d \in Calls \ {x} : call'[d].qid # call'[x].qid
      PROVE  activeQueries'[call'[x].qid] # None /\ activeQueries'[call'[x].qid].by = x
  <2>1. x # c
    BY <1>2, <1>4 DEF Connected
  <2>2. \A d \in Calls \ {x} : call[d].qid # call[x].qid
    BY <1>1, <1>2, <1>4, <2>1
  <2> QED
    BY <1>2, <1>4, <2>1, <2>2 DEF LoneInv, LoneIdIsRegistered
<1> QED
  BY <1>3, <1>4 DEF LoneInv, LoneIdIsRegistered

\* A backend is registered under its request's id, over nobody else's.
LEMMA LoneGetPidStep ==
    ASSUME ExecInv, LoneInv, NEW c \in Calls, NEW p \in Pids, GetPid(c, p)
    PROVE  LoneInv'
<1> DEFINE entry == [pid |-> p, email |-> call[c].user, by |-> c]
<1>1. /\ call \in [Calls -> CallRecord] /\ activeQueries \in [QueryIds -> Registration \cup {None}]
      /\ call[c].user \in Users
  BY DEF ExecInv, TypeOK, RequestsAgree, GetPid
<1>2. /\ call'[c].phase = "pathing" /\ call'[c].qid = call[c].qid
      /\ \A x \in Calls \ {c} : call'[x] = call[x]
      /\ activeQueries' = [q \in QueryIds |-> IF q = call[c].qid THEN entry ELSE activeQueries[q]]
  BY <1>1 DEF GetPid
<1>3. entry # None /\ entry.by = c
  <2>1. entry \in Registration
    BY <1>1 DEF Registration
  <2> QED
    BY <2>1, QueryExecAssumption
<1> HIDE DEF entry
<1>4. \A x \in Calls : call'[x].phase \in {"idle", "refused"} => call'[x].qid = NoQueryId
  BY <1>2 DEF LoneInv
<1>5. ASSUME NEW x \in Calls, call'[x].phase \in Connected \ {"closing"}, call'[x].pid # None,
             call'[x].qid \in QueryIds, \A d \in Calls \ {x} : call'[d].qid # call'[x].qid
      PROVE  activeQueries'[call'[x].qid] # None /\ activeQueries'[call'[x].qid].by = x
  <2>1. CASE x = c
    BY <1>2, <1>3, <1>5, <2>1
  <2>2. CASE x # c
    <3>1. call'[x] = call[x] /\ \A d \in Calls \ {x} : call[d].qid # call[x].qid
      BY <1>2, <1>5, <2>2
    <3>2. activeQueries[call[x].qid] # None /\ activeQueries[call[x].qid].by = x
      BY <1>5, <3>1 DEF LoneInv, LoneIdIsRegistered
    <3> QED
      BY <1>2, <1>5, <2>2, <3>1, <3>2
  <2> QED
    BY <2>1, <2>2
<1> QED
  BY <1>4, <1>5 DEF LoneInv, LoneIdIsRegistered

\* Every step.
LEMMA StepLoneInv == ExecInv /\ LoneInv /\ [Next]_vars => LoneInv'
<1> SUFFICES ASSUME ExecInv, LoneInv, [Next]_vars PROVE LoneInv'
  OBVIOUS
<1>1. CASE UNCHANGED <<call, activeQueries>>
  BY <1>1 DEF LoneInv, LoneIdIsRegistered
<1>2. ASSUME NEW c \in Calls, RefuseExecute(c) PROVE LoneInv'
  BY <1>2, LonePhaseStep DEF RefuseExecute, Goto, Phases, Connected
<1>3. ASSUME NEW c \in Calls, DialFails(c) PROVE LoneInv'
  <2>1. call[c].pid = None
    BY <1>3 DEF ExecInv, RequestsAgree, DialFails
  <2> QED
    BY <1>3, <2>1, LonePhaseStep DEF DialFails, Catch, Goto, Phases
<1>4. ASSUME NEW c \in Calls, Catch(c), call[c].phase \in Connected \ {"closing"}, UNCHANGED activeQueries
      PROVE  LoneInv'
  BY <1>4, LonePhaseStep DEF Catch, Goto, Phases
<1>5. ASSUME NEW c \in Calls, NEW phase \in Phases \ {"idle", "refused"}, Goto(c, phase),
             call[c].phase \in Connected \ {"closing"}, UNCHANGED activeQueries
      PROVE  LoneInv'
  BY <1>5, LonePhaseStep DEF Goto
<1>6. ASSUME NEW c \in Calls, Finally(c) PROVE LoneInv'
  BY <1>6, LonePhaseStep DEF Finally, Goto, Phases
<1>7. ASSUME NEW c \in Calls, ClientEnded(c) PROVE LoneInv'
  BY <1>7, LonePhaseStep DEF ClientEnded, Goto, Phases, Connected
<1>8. ASSUME NEW c \in Calls, SetSearchPath(c) \/ StatementSucceeds(c) \/ DescribeColumns(c) PROVE LoneInv'
  BY <1>5, <1>8 DEF SetSearchPath, StatementSucceeds, DescribeColumns, Phases, Connected
<1>9. ASSUME NEW c \in Calls, QueryFails(c) \/ Pull(c) \/ StreamReturned(c) \/ StreamThrown(c) PROVE LoneInv'
  BY <1>4, <1>5, <1>6, <1>9 DEF QueryFails, Pull, StreamReturned, StreamThrown, Phases, Connected, Interruptible
<1>10. ASSUME NEW c \in Calls, Progress(c) PROVE LoneInv'
  BY <1>3, <1>7, <1>8, <1>9, <1>10, LoneGetPidStep DEF Progress
<1>11. ASSUME NEW k \in Cancels, CancelStep(k) \/ (\E u \in Users, q \in QueryIds : SendCancel(k, u, q))
       PROVE  LoneInv'
  BY <1>1, <1>4, <1>11 DEF CancelStep, SendCancel, MissCancel, DenyCancel, AimCancel, CancelLands,
                           CancelMisfires, Connected, Interruptible
<1> QED
  BY <1>1, <1>2, <1>9, <1>10, <1>11, LoneStartStep DEF Next, vars

\* A request whose id nobody else uses can be cancelled from the moment its backend is known
\* to the moment it is over, whatever the other requests and the cancels do.
THEOREM LoneIdsAreRegistered == Spec => []LoneIdIsRegistered
<1>1. Init => LoneInv
  BY DEF Init, LoneInv, LoneIdIsRegistered, Connected
<1>2. ExecInv /\ LoneInv /\ [Next]_vars => LoneInv'
  BY StepLoneInv
<1>3. LoneInv => LoneIdIsRegistered
  BY DEF LoneInv
<1> QED
  BY <1>1, <1>2, <1>3, ExecConsistent, PTL DEF Spec

-----------------------------------------------------------------------------
(* The editor. *)

\* The client's part of EditorTypeOK.
ClientTypeOK ==
    /\ activeTab \in Tabs
    /\ executing \in [Tabs -> BOOLEAN]
    /\ run \in [Runs -> RunRecord]
    /\ sideRun \in [SideRuns -> [pc : {"idle", "waiting", "done"}, tab : Tabs \cup {None}]]
    /\ abortController \in Runs \cup {None}
    /\ currentQueryId \in Runs \cup {NoQueryId}
    /\ isCancelling \in BOOLEAN
    /\ asked \subseteq Runs /\ overlapped \subseteq Runs

\* A live run knows its tab.
TabsKnown == \A r \in Runs : Live(r) => run[r].tab \in Tabs

\* A run waits for a statement it has.
Within == \A r \in Runs : run[r].pc = "waiting" => run[r].next \in 1..MaxStatements

\* A run that has not begun is neither aborted nor asked about, nor is its controller in use.
Untouched ==
    \A r \in Runs : run[r].pc = "idle" => ~run[r].aborted /\ r \notin asked /\ abortController # r

\* A run that has been alone is alone, holds the controller, and is aborted when asked.
Alone ==
    \A r \in Runs \ overlapped : Live(r) =>
        /\ \A x \in Runs : Live(x) => x = r
        /\ \A s \in SideRuns : sideRun[s].pc # "waiting"
        /\ abortController = r
        /\ run[r].aborted <=> r \in asked

\* The client's inductive invariant.
ClientInv == ClientTypeOK /\ TabsKnown /\ Within /\ Untouched /\ Alone /\ SpinnerIsHonest

\* None stands for no run, and a run's id is not the empty one.
LEMMA Ids ==
    /\ None \notin Runs /\ NoQueryId \notin Runs /\ QueryIds = Runs
    /\ Runs \X (1..MaxStatements) \subseteq Calls /\ SideRuns \X {1} \subseteq Calls
    /\ MaxStatements \in Nat
BY QueryExecAssumption, EditorRunAssumption

\* An editor that was just opened has no run.
LEMMA InitClientInv == EditorInit => ClientInv
<1> SUFFICES ASSUME EditorInit PROVE ClientInv
  OBVIOUS
<1>1. ClientTypeOK
  <2> DEFINE record == [pc |-> "idle", tab |-> None, size |-> 0, next |-> 1, aborted |-> FALSE]
  <2>1. record \in RunRecord
    BY Ids DEF RunRecord
  <2>2. run \in [Runs -> RunRecord]
    BY <2>1 DEF EditorInit
  <2> QED BY <2>2, Ids DEF EditorInit, ClientTypeOK
<1> QED BY <1>1, Ids DEF EditorInit, ClientInv, TabsKnown, Within, Untouched, Alone, SpinnerIsHonest, Live, LiveRuns

-----------------------------------------------------------------------------
(* The client's steps. *)

\* The server's own steps leave the client alone.
LEMMA ClientStutters == ClientInv /\ UNCHANGED clientVars => ClientInv'
BY DEF ClientInv, clientVars, ClientTypeOK, TabsKnown, Within, Untouched, Alone, SpinnerIsHonest, Live, LiveRuns

\* Starting a run: it is alone, or it and all the others have overlapped.
LEMMA ExecuteKeeps ==
    ASSUME ClientInv, NEW r \in Runs, Execute(r)
    PROVE  ClientInv'
<1>1. /\ run[r].pc = "idle" /\ run' = [run EXCEPT ![r].pc = "splitting", ![r].tab = activeTab]
      /\ abortController' = r /\ currentQueryId' = r
      /\ executing' = [executing EXCEPT ![activeTab] = TRUE]
      /\ overlapped' = IF LiveRuns \cup LiveSideRuns = {} THEN overlapped
                       ELSE overlapped \cup LiveRuns \cup {r}
      /\ UNCHANGED <<activeTab, sideRun, isCancelling, asked>>
  BY DEF Execute, SetExecuting
<1>2. ClientTypeOK /\ run[r] \in RunRecord
  BY DEF ClientInv, ClientTypeOK
<1>3. /\ run' \in [Runs -> RunRecord] /\ run'[r].pc = "splitting" /\ run'[r].tab = activeTab
      /\ run'[r].aborted = run[r].aborted
      /\ \A x \in Runs \ {r} : run'[x] = run[x]
  BY <1>1, <1>2 DEF ClientTypeOK, RunRecord
<1>4. ClientTypeOK'
  BY <1>1, <1>2, <1>3 DEF ClientTypeOK, LiveRuns
<1>5. TabsKnown' /\ Within' /\ Untouched' /\ SpinnerIsHonest'
  BY <1>1, <1>2, <1>3 DEF ClientInv, ClientTypeOK, TabsKnown, Within, Untouched, SpinnerIsHonest, Live, LiveRuns
<1>6. Alone'
  <2>1. CASE LiveRuns \cup LiveSideRuns = {}
    BY <1>1, <1>3, <2>1 DEF ClientInv, Alone, Untouched, Live, LiveRuns, LiveSideRuns
  <2>2. CASE LiveRuns \cup LiveSideRuns # {}
    BY <1>1, <1>3, <2>2 DEF Alone, Live, LiveRuns
  <2> QED BY <2>1, <2>2
<1> QED BY <1>4, <1>5, <1>6 DEF ClientInv

\* A step that leaves a live run live, and its tab and abort alone.
LEMMA RunGoesOn ==
    ASSUME ClientInv, NEW r \in Runs, Live(r),
           run' \in [Runs -> RunRecord], \A x \in Runs \ {r} : run'[x] = run[x],
           run'[r].pc \in {"splitting", "looping", "waiting"},
           run'[r].pc = "waiting" => run'[r].next \in 1..MaxStatements,
           run'[r].tab = run[r].tab, run'[r].aborted = run[r].aborted,
           UNCHANGED <<activeTab, executing, sideRun, abortController, currentQueryId,
                       isCancelling, asked, overlapped>>
    PROVE  ClientInv'
<1>1. \A x \in Runs : Live(x)' <=> Live(x)
  BY DEF Live
<1>2. \A x \in Runs : run'[x].tab = run[x].tab /\ run'[x].aborted = run[x].aborted
  OBVIOUS
<1>3. ClientTypeOK'
  BY DEF ClientInv, ClientTypeOK
<1>4. TabsKnown' /\ Within' /\ Untouched' /\ Alone'
  BY <1>1, <1>2 DEF ClientInv, TabsKnown, Within, Untouched, Alone
<1>5. SpinnerIsHonest'
  BY <1>1, <1>2 DEF ClientInv, SpinnerIsHonest, LiveRuns
<1> QED BY <1>3, <1>4, <1>5 DEF ClientInv

\* Splitting the text, sending a statement, and what comes of it.
LEMMA RunStepsKeep ==
    ASSUME ClientInv, NEW r \in Runs,
           Split(r) \/ SendStatement(r) \/ Settle(r)
    PROVE  ClientInv'
<1>1. run[r] \in RunRecord /\ run \in [Runs -> RunRecord] /\ MaxStatements \in Nat
  BY Ids DEF ClientInv, ClientTypeOK
<1>2. CASE Split(r)
  <2>1. PICK n \in 1..MaxStatements : run' = [run EXCEPT ![r].pc = "looping", ![r].size = n]
    BY <1>2 DEF Split
  <2>2. /\ run' \in [Runs -> RunRecord] /\ \A x \in Runs \ {r} : run'[x] = run[x]
        /\ run'[r].pc = "looping" /\ run'[r].tab = run[r].tab /\ run'[r].aborted = run[r].aborted
    <3>1. n \in 0..MaxStatements
      BY <1>1, <2>1
    <3> QED BY <1>1, <2>1, <3>1 DEF RunRecord
  <2> QED BY <1>2, <2>2, RunGoesOn DEF Split, Live
<1>3. CASE SendStatement(r)
  <2>1. run' = [run EXCEPT ![r].pc = "waiting"] /\ run[r].next <= run[r].size
    BY <1>3 DEF SendStatement
  <2>2. /\ run' \in [Runs -> RunRecord] /\ \A x \in Runs \ {r} : run'[x] = run[x]
        /\ run'[r].pc = "waiting" /\ run'[r].tab = run[r].tab /\ run'[r].aborted = run[r].aborted
        /\ run'[r].next = run[r].next
    BY <1>1, <2>1 DEF RunRecord
  <2>3. run[r].next \in 1..MaxStatements
    BY <1>1, <2>1 DEF RunRecord
  <2> QED BY <1>3, <2>2, <2>3, RunGoesOn DEF SendStatement, Live
<1>4. CASE Settle(r)
  <2>1. run' = [run EXCEPT ![r].pc = "looping", ![r].next = @ + 1] /\ run[r].next \in 1..MaxStatements
    BY <1>4 DEF Settle, ClientInv, Within
  <2>2. run[r].next + 1 \in 1..(MaxStatements + 1)
    BY <1>1, <2>1
  <2>3. /\ run' \in [Runs -> RunRecord] /\ \A x \in Runs \ {r} : run'[x] = run[x]
        /\ run'[r].pc = "looping" /\ run'[r].tab = run[r].tab /\ run'[r].aborted = run[r].aborted
    BY <1>1, <2>1, <2>2 DEF RunRecord
  <2> QED BY <1>4, <2>3, RunGoesOn DEF Settle, Live
<1> QED BY <1>2, <1>3, <1>4

\* The end of a run: nothing waits in its tab unless another run does, and a run that has
\* been alone was this one.
LEMMA FinishKeeps ==
    ASSUME ClientInv, NEW r \in Runs, Finish(r)
    PROVE  ClientInv'
<1>1. /\ Live(r) /\ run' = [run EXCEPT ![r].pc = "done"]
      /\ executing' = [executing EXCEPT ![run[r].tab] = FALSE]
      /\ abortController' = None /\ currentQueryId' = NoQueryId /\ isCancelling' = FALSE
      /\ UNCHANGED <<activeTab, sideRun, asked, overlapped>>
  BY DEF Finish, SetExecuting, Live
<1>2. ClientTypeOK /\ run[r].tab \in Tabs
  BY <1>1 DEF ClientInv, TabsKnown
<1>3. /\ run' \in [Runs -> RunRecord] /\ run'[r].pc = "done"
      /\ \A x \in Runs \ {r} : run'[x] = run[x]
  BY <1>1, <1>2 DEF ClientTypeOK, RunRecord
<1>4. ClientTypeOK'
  BY <1>1, <1>2, <1>3 DEF ClientTypeOK
<1>5. TabsKnown' /\ Within' /\ Untouched'
  BY <1>1, <1>3, Ids DEF ClientInv, TabsKnown, Within, Untouched, Live
<1>6. Alone'
  BY <1>1, <1>3 DEF ClientInv, Alone, Live
<1>7. SpinnerIsHonest'
  BY <1>1, <1>2, <1>3 DEF ClientInv, ClientTypeOK, SpinnerIsHonest, Live, LiveRuns
<1> QED BY <1>4, <1>5, <1>6, <1>7 DEF ClientInv

\* Cancel: the spinner on screen is honest, so that the run that has been alone is the one
\* whose tab is shown, and it holds the controller.
LEMMA ClickCancelKeeps ==
    ASSUME ClientInv, NEW k \in Cancels, ClickCancel(k)
    PROVE  ClientInv'
<1>1. /\ executing[activeTab] /\ isCancelling' = TRUE
      /\ asked' = asked \cup {r \in LiveRuns : run[r].tab = activeTab}
      /\ run' = [r \in Runs |-> IF r = abortController THEN [run[r] EXCEPT !.aborted = TRUE] ELSE run[r]]
      /\ UNCHANGED <<activeTab, executing, sideRun, abortController, currentQueryId, overlapped>>
  BY DEF ClickCancel
<1>2. ClientTypeOK /\ activeTab \in Tabs
  BY DEF ClientInv, ClientTypeOK
<1>3. /\ run' \in [Runs -> RunRecord]
      /\ \A r \in Runs : /\ run'[r].pc = run[r].pc /\ run'[r].tab = run[r].tab /\ run'[r].next = run[r].next
                         /\ r = abortController => run'[r].aborted
                         /\ r # abortController => run'[r].aborted = run[r].aborted
  <2>1. run \in [Runs -> RunRecord]
    BY <1>2 DEF ClientTypeOK
  <2>2. ASSUME NEW r \in Runs
        PROVE  /\ run'[r] \in RunRecord
               /\ run'[r].pc = run[r].pc /\ run'[r].tab = run[r].tab /\ run'[r].next = run[r].next
               /\ r = abortController => run'[r].aborted
               /\ r # abortController => run'[r].aborted = run[r].aborted
    <3>1. CASE r = abortController
      <4>1. run'[r] = [run[r] EXCEPT !.aborted = TRUE]
        BY <1>1, <3>1
      <4> QED BY <2>1, <3>1, <4>1 DEF RunRecord
    <3>2. CASE r # abortController
      BY <1>1, <2>1, <3>2
    <3> QED BY <3>1, <3>2
  <2>3. run' = [r \in Runs |-> run'[r]]
    BY <1>1
  <2> QED BY <2>2, <2>3
<1>4. \A r \in Runs : Live(r)' <=> Live(r)
  BY <1>3 DEF Live
<1>5. ClientTypeOK'
  BY <1>1, <1>2, <1>3 DEF ClientTypeOK, LiveRuns
<1>6. TabsKnown' /\ Within'
  BY <1>3, <1>4 DEF ClientInv, TabsKnown, Within
<1>7. Untouched'
  BY <1>1, <1>3 DEF ClientInv, Untouched, LiveRuns, Live
<1>8. Alone'
  <2> SUFFICES ASSUME NEW r \in Runs \ overlapped, Live(r)
               PROVE  /\ \A x \in Runs : Live(x) => x = r
                      /\ \A s \in SideRuns : sideRun[s].pc # "waiting"
                      /\ abortController = r /\ run'[r].aborted /\ r \in asked'
    BY <1>1, <1>4 DEF Alone
  <2>1. /\ \A x \in Runs : Live(x) => x = r
        /\ \A s \in SideRuns : sideRun[s].pc # "waiting"
        /\ abortController = r
    BY DEF ClientInv, Alone
  <2>2. run[r].tab = activeTab
    BY <1>1, <1>2, <2>1 DEF ClientInv, SpinnerIsHonest, LiveRuns
  <2> QED BY <1>1, <1>3, <2>1, <2>2 DEF LiveRuns
<1>9. SpinnerIsHonest'
  BY <1>1, <1>3, <1>4 DEF ClientInv, SpinnerIsHonest, LiveRuns
<1> QED BY <1>5, <1>6, <1>7, <1>8, <1>9 DEF ClientInv

\* Another tab on screen.
LEMMA SelectTabKeeps ==
    ASSUME ClientInv, NEW t \in Tabs, SelectTab(t)
    PROVE  ClientInv'
BY DEF SelectTab, ClientInv, ClientTypeOK, TabsKnown, Within, Untouched, Alone, SpinnerIsHonest, Live, LiveRuns

\* A side run begins: whatever run is live has overlapped with it.
LEMMA StartSideRunKeeps ==
    ASSUME ClientInv, NEW s \in SideRuns, NEW t \in Tabs, StartSideRun(s, t)
    PROVE  ClientInv'
<1>1. /\ sideRun' = [sideRun EXCEPT ![s] = [pc |-> "waiting", tab |-> t]] /\ activeTab' = t
      /\ executing' = [executing EXCEPT ![t] = TRUE] /\ overlapped' = overlapped \cup LiveRuns
      /\ UNCHANGED <<run, abortController, currentQueryId, isCancelling, asked>>
      /\ sideRun[s].pc = "idle"
  BY DEF StartSideRun, SetExecuting
<1>2. ClientTypeOK
  BY DEF ClientInv
<1>3. /\ sideRun' \in [SideRuns -> [pc : {"idle", "waiting", "done"}, tab : Tabs \cup {None}]]
      /\ sideRun'[s].pc = "waiting" /\ sideRun'[s].tab = t
      /\ \A x \in SideRuns \ {s} : sideRun'[x] = sideRun[x]
  BY <1>1, <1>2 DEF ClientTypeOK
<1>4. ClientTypeOK'
  BY <1>1, <1>2, <1>3 DEF ClientTypeOK, LiveRuns
<1>5. TabsKnown' /\ Within' /\ Untouched' /\ Alone'
  BY <1>1 DEF ClientInv, TabsKnown, Within, Untouched, Alone, Live, LiveRuns
<1>6. SpinnerIsHonest'
  <2> SUFFICES ASSUME NEW x \in Tabs, executing'[x]
               PROVE  \/ \E r \in LiveRuns' : run'[r].tab = x
                      \/ \E y \in SideRuns : sideRun'[y].pc = "waiting" /\ sideRun'[y].tab = x
    BY DEF SpinnerIsHonest
  <2>1. CASE x = t
    BY <1>3, <2>1
  <2>2. CASE x # t
    <3>1. executing[x]
      BY <1>1, <1>2, <2>2 DEF ClientTypeOK
    <3> QED BY <1>1, <1>3, <3>1 DEF ClientInv, SpinnerIsHonest, LiveRuns, Live
  <2> QED BY <2>1, <2>2
<1> QED BY <1>4, <1>5, <1>6 DEF ClientInv

\* A side run ends.
LEMMA FinishSideRunKeeps ==
    ASSUME ClientInv, NEW s \in SideRuns, FinishSideRun(s)
    PROVE  ClientInv'
<1>1. /\ sideRun' = [sideRun EXCEPT ![s].pc = "done"]
      /\ executing' = [executing EXCEPT ![sideRun[s].tab] = FALSE]
      /\ UNCHANGED <<activeTab, run, abortController, currentQueryId, isCancelling, asked, overlapped>>
      /\ sideRun[s].pc = "waiting"
  BY DEF FinishSideRun, SetExecuting
<1>2. ClientTypeOK
  BY DEF ClientInv
<1>3. /\ sideRun' \in [SideRuns -> [pc : {"idle", "waiting", "done"}, tab : Tabs \cup {None}]]
      /\ sideRun'[s].pc = "done" /\ \A x \in SideRuns \ {s} : sideRun'[x] = sideRun[x]
  BY <1>1, <1>2 DEF ClientTypeOK
<1>4. ClientTypeOK'
  BY <1>1, <1>2, <1>3 DEF ClientTypeOK
<1>5. TabsKnown' /\ Within' /\ Untouched' /\ Alone'
  BY <1>1, <1>3 DEF ClientInv, TabsKnown, Within, Untouched, Alone, Live
<1>6. SpinnerIsHonest'
  BY <1>1, <1>2, <1>3 DEF ClientInv, ClientTypeOK, SpinnerIsHonest, LiveRuns, Live
<1> QED BY <1>4, <1>5, <1>6 DEF ClientInv

\* Every step of the editor keeps the client's invariant.
LEMMA ClientStep == ClientInv /\ [EditorNext]_allVars => ClientInv'
<1> SUFFICES ASSUME ClientInv, [EditorNext]_allVars PROVE ClientInv'
  OBVIOUS
<1>1. CASE UNCHANGED allVars
  BY <1>1, ClientStutters DEF allVars
<1>2. ASSUME NEW r \in Runs, Execute(r) \/ RunStep(r) PROVE ClientInv'
  BY <1>2, ExecuteKeeps, RunStepsKeep, FinishKeeps DEF RunStep, StatementAnswered, StreamBreaks
<1>3. ASSUME NEW s \in SideRuns, (\E t \in Tabs : StartSideRun(s, t)) \/ FinishSideRun(s) PROVE ClientInv'
  BY <1>3, StartSideRunKeeps, FinishSideRunKeeps
<1>4. ASSUME NEW t \in Tabs, SelectTab(t) PROVE ClientInv'
  BY <1>4, SelectTabKeeps
<1>5. ASSUME NEW k \in Cancels, ClickCancel(k) \/ (CancelStep(k) /\ UNCHANGED clientVars) PROVE ClientInv'
  BY <1>5, ClickCancelKeeps, ClientStutters
<1>6. ASSUME NEW c \in Calls, ServerStep(c) PROVE ClientInv'
  BY <1>6, ClientStutters DEF ServerStep
<1> QED BY <1>1, <1>2, <1>3, <1>4, <1>5, <1>6 DEF EditorNext

-----------------------------------------------------------------------------
(* The server under the editor. *)

\* Every step of the editor is a step of the server or leaves it alone.
LEMMA ServerSteps == ClientInv /\ [EditorNext]_allVars => [Next]_vars
<1> SUFFICES ASSUME ClientInv, [EditorNext]_allVars PROVE [Next]_vars
  OBVIOUS
<1>1. ClientTypeOK
  BY DEF ClientInv
<1>2. currentQueryId \in QueryIds \cup {NoQueryId}
  BY <1>1, Ids DEF ClientTypeOK
<1>3. CASE UNCHANGED allVars
  BY <1>3 DEF allVars
<1>4. ASSUME NEW r \in Runs, Execute(r) \/ RunStep(r) PROVE [Next]_vars
  <2>1. CASE SendStatement(r)
    <3>1. run[r] \in RunRecord /\ run[r].next <= run[r].size
      BY <1>1, <2>1 DEF ClientTypeOK, SendStatement
    <3>2. run[r].next \in 1..MaxStatements
      BY <3>1, Ids DEF RunRecord
    <3>3. Request(r) \in Calls
      BY <3>2, Ids DEF Request
    <3> QED BY <1>2, <2>1, <3>3 DEF SendStatement, Next
  <2>2. CASE ~SendStatement(r)
    BY <1>4, <2>2 DEF Execute, RunStep, Split, StatementAnswered, StreamBreaks, Settle, Finish
  <2> QED BY <2>1, <2>2
<1>5. ASSUME NEW s \in SideRuns, NEW t \in Tabs, StartSideRun(s, t) PROVE [Next]_vars
  <2>1. <<s, 1>> \in Calls
    BY Ids
  <2> QED BY <1>5, <2>1 DEF StartSideRun, Next
<1>6. ASSUME NEW s \in SideRuns, FinishSideRun(s) PROVE [Next]_vars
  BY <1>6 DEF FinishSideRun
<1>7. ASSUME NEW t \in Tabs, SelectTab(t) PROVE [Next]_vars
  BY <1>7 DEF SelectTab
<1>8. ASSUME NEW k \in Cancels, ClickCancel(k) \/ (CancelStep(k) /\ UNCHANGED clientVars) PROVE [Next]_vars
  <2>1. CASE ClickCancel(k)
    <3>1. currentQueryId # NoQueryId => currentQueryId \in QueryIds
      BY <1>2
    <3> QED BY <2>1, <3>1 DEF ClickCancel, Next
  <2>2. CASE CancelStep(k)
    BY <2>2 DEF Next
  <2> QED BY <1>8, <2>1, <2>2
<1>9. ASSUME NEW c \in Calls, ServerStep(c) PROVE [Next]_vars
  BY <1>9 DEF ServerStep, Next
<1> QED BY <1>3, <1>4, <1>5, <1>6, <1>7, <1>8, <1>9 DEF EditorNext

\* In every reachable state of the editor, whatever its tabs, runs, side runs and cancels,
\* the client's invariant holds.
THEOREM ClientConsistent == EditorSpec => []ClientInv
<1>1. EditorInit => ClientInv
  BY InitClientInv
<1>2. ClientInv /\ [EditorNext]_allVars => ClientInv'
  BY ClientStep
<1> QED BY <1>1, <1>2, PTL DEF EditorSpec

\* The editor drives the server as QueryExec says clients do: what is proved of the server
\* for every client (registrations, audit entries, the aim of cancels) holds under it.
THEOREM EditorDrivesServer == EditorSpec => Spec
<1>1. EditorInit => Init
  BY DEF EditorInit
<1>2. ClientInv /\ [EditorNext]_allVars => [Next]_vars
  BY ServerSteps
<1> QED BY <1>1, <1>2, ClientConsistent, PTL DEF EditorSpec, Spec

\* A tab shows its spinner only while a run or a side run of it is live, whatever else is
\* run, cancelled, refused or broken.
THEOREM SpinnersAreHonest == EditorSpec => []EditorInv
<1>1. ClientInv /\ ExecInv => EditorInv
  BY DEF ClientInv, ClientTypeOK, ExecInv, EditorInv, EditorTypeOK
<1> QED BY <1>1, ClientConsistent, EditorDrivesServer, ExecConsistent, PTL

\* A run that was never live together with another, or with a side run, is aborted exactly
\* when Cancel was clicked in its tab.
THEOREM LoneRunsAreCancelled == EditorSpec => []LoneRunIsCancelled
<1>1. ClientInv => LoneRunIsCancelled
  BY DEF ClientInv, Alone, LoneRunIsCancelled
<1> QED BY <1>1, ClientConsistent, PTL

=============================================================================
