----------------------- MODULE ConnectionRuntimeProofs -----------------------
(***************************************************************************)
(* Proofs about ConnectionRuntime, for all connections, databases, schemas *)
(* and requests, and every bound on the number of edits.                   *)
(*                                                                         *)
(* RuntimeInv is inductive. That a cached entry is stale only when it was  *)
(* written late is not, because createConnection clears nothing: it needs  *)
(* GoneIsLate, and that JobsReadThePast. That an answer fits its request   *)
(* needs FiledCorrectly, because a served context is taken on the word of  *)
(* its cache key.                                                          *)
(***************************************************************************)
EXTENDS ConnectionRuntime, TLAPS

\* At the start no request is under way, and what is cached was read eagerly.
LEMMA InitRuntimeInv == Init => RuntimeInv
<1> SUFFICES ASSUME Init PROVE RuntimeInv
  OBVIOUS
<1> USE ConnectionRuntimeAssumption
<1>1. PICK eager \in SUBSET {c \in Connections : exists[c]} :
         connectionCache = [c \in Connections |->
                              IF c \in eager THEN [gen |-> 0, late |-> FALSE] ELSE None]
  BY DEF Init
<1>2. TypeOK
  BY <1>1 DEF Init, TypeOK, Generations, Version, Context, JobRecord, Keys
<1>3. JobsTyped /\ JobsReadThePast /\ AnswersFitTheirRequests /\ AnswersAreCurrent
  BY DEF Init, JobsTyped, JobsReadThePast, AnswersFitTheirRequests, AnswersAreCurrent
<1>4. FiledCorrectly
  BY DEF Init, FiledCorrectly
<1>5. StaleOnlyIfLate /\ GoneIsLate
  BY <1>1 DEF Init, StaleOnlyIfLate, GoneIsLate
<1> QED
  BY <1>2, <1>3, <1>4, <1>5 DEF RuntimeInv

\* A request that starts either has no answer yet or takes a cached one.
LEMMA BeginStep ==
    ASSUME RuntimeInv, UNCHANGED <<exists, generation, connectionCache, schemaCache>>,
           NEW j \in Jobs, NEW c \in Connections, NEW d \in Databases \cup {None},
           NEW s \in SUBSET Schemas, NEW phase \in {"testing", "building", "done"},
           NEW answer \in Context \cup {None}, Begin(j, phase, c, d, s, answer),
           phase = "building" => d \in Databases,
           answer # None => /\ answer.conn = c /\ answer.db = d /\ answer.schemas = s
                            /\ answer.gen = generation[c] \/ answer.late
    PROVE  RuntimeInv'
<1> USE DEF RuntimeInv
<1>a. job' = [job EXCEPT ![j] = [phase |-> phase, conn |-> c, gen |-> generation[c], db |-> d,
                                 schemas |-> s, answer |-> answer]]
  BY DEF Begin
<1>1. TypeOK'
  <2>1. job' \in [Jobs -> JobRecord]
    BY <1>a DEF TypeOK, JobRecord
  <2> QED
    BY <2>1 DEF TypeOK
<1>2. JobsTyped'
  BY <1>a DEF JobsTyped, TypeOK
<1>3. FiledCorrectly' /\ StaleOnlyIfLate' /\ GoneIsLate'
  BY DEF FiledCorrectly, StaleOnlyIfLate, GoneIsLate
<1>4. AnswersFitTheirRequests'
  BY <1>a DEF AnswersFitTheirRequests, TypeOK
<1>5. AnswersAreCurrent'
  BY <1>a DEF AnswersAreCurrent, TypeOK
<1>6. JobsReadThePast'
  <2>1. exists[c] /\ generation[c] \in Generations
    BY DEF Begin, TypeOK
  <2> QED
    BY <1>a, <2>1, ConnectionRuntimeAssumption DEF JobsReadThePast, TypeOK, Generations
<1> QED
  BY <1>1, <1>2, <1>3, <1>4, <1>5, <1>6

\* A test of a connection begins; nothing cached changes.
LEMMA TestConnectionStep ==
    ASSUME RuntimeInv, NEW j \in Jobs, NEW c \in Connections, TestConnection(j, c)
    PROVE  RuntimeInv'
<1>1. Begin(j, "testing", c, None, {}, None)
  BY DEF TestConnection
<1>2. UNCHANGED <<exists, generation, connectionCache, schemaCache>>
  BY DEF TestConnection
<1>3. None \in Databases \cup {None} /\ {} \in SUBSET Schemas /\ None \in Context \cup {None}
  OBVIOUS
<1>4. "testing" \in {"testing", "building", "done"}
  OBVIOUS
<1> QED
  BY <1>1, <1>2, <1>3, <1>4, BeginStep

\* A build of a schema context begins; nothing cached changes.
LEMMA StartBuildStep ==
    ASSUME RuntimeInv, NEW j \in Jobs, NEW c \in Connections, NEW d \in Databases,
           NEW s \in SUBSET Schemas, StartBuild(j, c, d, s)
    PROVE  RuntimeInv'
<1>1. Begin(j, "building", c, d, s, None)
  BY DEF StartBuild
<1>2. UNCHANGED <<exists, generation, connectionCache, schemaCache>>
  BY DEF StartBuild
<1>3. d \in Databases \cup {None} /\ None \in Context \cup {None}
  OBVIOUS
<1>4. "building" \in {"testing", "building", "done"}
  OBVIOUS
<1> QED
  BY <1>1, <1>2, <1>3, <1>4, BeginStep

\* What is served is filed under the key it is found by, so it fits the request, and it is
\* stale only if it was filed late.
LEMMA ServeCachedStep ==
    ASSUME RuntimeInv, NEW j \in Jobs, NEW c \in Connections, NEW d \in Databases,
           NEW s \in SUBSET Schemas, ServeCached(j, c, d, s)
    PROVE  RuntimeInv'
<1> DEFINE k == cacheKey(c, d, s)
           context == schemaCache[k]
<1>1. k \in Keys /\ k[1] = c /\ k[2] = d /\ k[3] = s
  BY DEF cacheKey, Keys
<1>2. context # None /\ Begin(j, "done", c, d, s, context)
  BY DEF ServeCached, Usable
<1>3. UNCHANGED <<exists, generation, connectionCache, schemaCache>>
  BY DEF ServeCached
<1>4. context \in Context \cup {None}
  BY <1>1 DEF RuntimeInv, TypeOK
<1>5. context.conn = c /\ context.db = d /\ context.schemas = s
  BY <1>1, <1>2 DEF RuntimeInv, FiledCorrectly
<1>6. context.gen = generation[c] \/ context.late
  BY <1>1, <1>2 DEF RuntimeInv, StaleOnlyIfLate
<1>7. "done" \in {"testing", "building", "done"} /\ "done" # "building" /\ d \in Databases \cup {None}
  OBVIOUS
<1> HIDE DEF k, context
<1> QED
  BY <1>2, <1>3, <1>4, <1>5, <1>6, <1>7, BeginStep

\* A request that ends without an answer changes nothing but its phase.
LEMMA EndStep ==
    ASSUME RuntimeInv, NEW j \in Jobs, job' = [job EXCEPT ![j].phase = "done"],
           UNCHANGED <<exists, generation, schemaCache>>,
           connectionCache' \in [Connections -> Version \cup {None}],
           \A c \in Connections : connectionCache'[c] # None =>
              /\ connectionCache'[c].gen = generation[c] \/ connectionCache'[c].late
              /\ exists[c] \/ connectionCache'[c].late
    PROVE  RuntimeInv'
<1> USE DEF RuntimeInv
<1>1. TypeOK'
  <2>1. job' \in [Jobs -> JobRecord]
    BY DEF TypeOK, JobRecord
  <2> QED
    BY <2>1 DEF TypeOK
<1>2. JobsTyped' /\ JobsReadThePast'
  BY DEF JobsTyped, JobsReadThePast, TypeOK, JobRecord
<1>3. FiledCorrectly' /\ StaleOnlyIfLate' /\ GoneIsLate'
  BY DEF FiledCorrectly, StaleOnlyIfLate, GoneIsLate
<1>4. AnswersFitTheirRequests' /\ AnswersAreCurrent'
  BY DEF AnswersFitTheirRequests, AnswersAreCurrent, TypeOK, JobRecord
<1> QED
  BY <1>1, <1>2, <1>3, <1>4

\* A test that succeeds caches the version of the generation it began with.
LEMMA TestSucceedsStep ==
    ASSUME RuntimeInv, NEW j \in Jobs, TestSucceeds(j)
    PROVE  RuntimeInv'
<1>1. job[j].conn \in Connections /\ job[j] \in JobRecord
  BY DEF TestSucceeds, RuntimeInv, JobsTyped, TypeOK
<1>2. generation \in [Connections -> Generations] /\ connectionCache \in [Connections -> Version \cup {None}]
  BY DEF RuntimeInv, TypeOK
<1>3. [gen |-> job[j].gen, late |-> job[j].gen # generation[job[j].conn]] \in Version
  BY <1>1 DEF JobRecord, Version
<1>4. connectionCache' = [connectionCache EXCEPT ![job[j].conn] =
                            [gen |-> job[j].gen, late |-> job[j].gen # generation[job[j].conn]]]
  BY DEF TestSucceeds
<1>5. connectionCache' \in [Connections -> Version \cup {None}]
  BY <1>2, <1>3, <1>4
<1>6. \A c \in Connections : connectionCache[c] # None =>
         /\ connectionCache[c].gen = generation[c] \/ connectionCache[c].late
         /\ exists[c] \/ connectionCache[c].late
  BY DEF RuntimeInv, StaleOnlyIfLate, GoneIsLate
<1>0. job[j].gen = generation[job[j].conn] => exists[job[j].conn]
  BY DEF TestSucceeds, RuntimeInv, JobsReadThePast
<1>7. \A c \in Connections : connectionCache'[c] # None =>
         /\ connectionCache'[c].gen = generation[c] \/ connectionCache'[c].late
         /\ exists[c] \/ connectionCache'[c].late
  BY <1>0, <1>1, <1>2, <1>4, <1>6
<1>8. job' = [job EXCEPT ![j].phase = "done"] /\ UNCHANGED <<exists, generation, schemaCache>>
  BY DEF TestSucceeds
<1> QED
  BY <1>5, <1>7, <1>8, EndStep

\* A test or a build that fails leaves the caches as they are.
LEMMA FailsStep ==
    ASSUME RuntimeInv, NEW j \in Jobs, TestFails(j) \/ BuildFails(j)
    PROVE  RuntimeInv'
<1>1. job' = [job EXCEPT ![j].phase = "done"] /\ UNCHANGED <<exists, generation, schemaCache>>
  BY DEF TestFails, BuildFails
<1>2. UNCHANGED connectionCache
  BY DEF TestFails, BuildFails
<1>3. connectionCache' \in [Connections -> Version \cup {None}]
  BY <1>2 DEF RuntimeInv, TypeOK
<1>4. \A c \in Connections : connectionCache'[c] # None =>
         /\ connectionCache'[c].gen = generation[c] \/ connectionCache'[c].late
         /\ exists[c] \/ connectionCache'[c].late
  BY <1>2 DEF RuntimeInv, StaleOnlyIfLate, GoneIsLate
<1> QED
  BY <1>1, <1>3, <1>4, EndStep

\* A build that succeeds caches the context of the generation it began with.
LEMMA BuildSucceedsStep ==
    ASSUME RuntimeInv, NEW j \in Jobs, BuildSucceeds(j)
    PROVE  RuntimeInv'
<1> DEFINE c == job[j].conn
           k == cacheKey(job[j].conn, job[j].db, job[j].schemas)
           context == [conn |-> job[j].conn, gen |-> job[j].gen, db |-> job[j].db,
                       schemas |-> job[j].schemas, expired |-> FALSE,
                       late |-> job[j].gen # generation[job[j].conn]]
           record == [phase |-> "done", conn |-> job[j].conn, gen |-> job[j].gen,
                      db |-> job[j].db, schemas |-> job[j].schemas, answer |-> context]
<1>1. schemaCache' = [schemaCache EXCEPT ![k] = context] /\ job' = [job EXCEPT ![j] = record]
      /\ UNCHANGED <<exists, generation, connectionCache>>
  BY DEF BuildSucceeds, RuntimeInv, TypeOK
<1>2. job[j] \in JobRecord /\ c \in Connections /\ job[j].db \in Databases
  BY DEF BuildSucceeds, RuntimeInv, TypeOK, JobsTyped
<1>3. k \in Keys /\ k[1] = c /\ k[2] = job[j].db /\ k[3] = job[j].schemas
  BY <1>2 DEF cacheKey, Keys, JobRecord
<1>4. context \in Context /\ context.conn = c /\ context.db = job[j].db
      /\ context.schemas = job[j].schemas /\ context.gen = job[j].gen
      /\ (context.gen = generation[c] \/ context.late) /\ (exists[c] \/ context.late)
  <2>1. job[j].gen = generation[job[j].conn] => exists[job[j].conn]
    BY DEF BuildSucceeds, RuntimeInv, JobsReadThePast
  <2> QED
    BY <1>2, <2>1 DEF Context, JobRecord
<1>5. record \in JobRecord /\ record.phase = "done" /\ record.conn = c /\ record.gen = job[j].gen
      /\ record.db = job[j].db /\ record.schemas = job[j].schemas /\ record.answer = context
  BY <1>2, <1>4 DEF JobRecord
<1> HIDE DEF c, k, context, record
<1>6. TypeOK'
  <2>1. schemaCache' \in [Keys -> Context \cup {None}]
    BY <1>1, <1>4 DEF RuntimeInv, TypeOK
  <2>2. job' \in [Jobs -> JobRecord]
    BY <1>1, <1>5 DEF RuntimeInv, TypeOK
  <2> QED
    BY <1>1, <2>1, <2>2 DEF RuntimeInv, TypeOK
<1>7. JobsTyped' /\ JobsReadThePast'
  BY <1>1, <1>5 DEF RuntimeInv, TypeOK, JobsTyped, JobsReadThePast
<1>8. FiledCorrectly'
  BY <1>1, <1>3, <1>4 DEF RuntimeInv, TypeOK, FiledCorrectly
<1>9. StaleOnlyIfLate' /\ GoneIsLate'
  BY <1>1, <1>3, <1>4 DEF RuntimeInv, TypeOK, StaleOnlyIfLate, GoneIsLate
<1>10. AnswersFitTheirRequests'
  BY <1>1, <1>4, <1>5 DEF RuntimeInv, TypeOK, AnswersFitTheirRequests
<1>11. AnswersAreCurrent'
  BY <1>1, <1>4, <1>5 DEF RuntimeInv, TypeOK, AnswersAreCurrent
<1> QED
  BY <1>6, <1>7, <1>8, <1>9, <1>10, <1>11 DEF RuntimeInv

\* A cached context expires in its place.
LEMMA ExpireStep ==
    ASSUME RuntimeInv, NEW k \in Keys, Expire(k)
    PROVE  RuntimeInv'
<1> USE DEF RuntimeInv
<1>1. schemaCache' = [schemaCache EXCEPT ![k].expired = TRUE] /\ schemaCache[k] # None
      /\ UNCHANGED <<exists, generation, connectionCache, job>>
  BY DEF Expire, Usable
<1>2. schemaCache[k] \in Context
  BY <1>1 DEF TypeOK
<1> DEFINE aged == [schemaCache[k] EXCEPT !.expired = TRUE]
<1>3. aged \in Context /\ aged.conn = schemaCache[k].conn /\ aged.db = schemaCache[k].db
      /\ aged.schemas = schemaCache[k].schemas /\ aged.gen = schemaCache[k].gen
      /\ aged.late = schemaCache[k].late
  BY <1>2 DEF Context
<1>4. schemaCache' = [schemaCache EXCEPT ![k] = aged]
  BY <1>1 DEF TypeOK
<1> HIDE DEF aged
<1>5. TypeOK'
  BY <1>1, <1>3, <1>4 DEF TypeOK
<1>6. FiledCorrectly'
  BY <1>1, <1>3, <1>4 DEF TypeOK, FiledCorrectly
<1>7. StaleOnlyIfLate' /\ GoneIsLate'
  BY <1>1, <1>3, <1>4 DEF TypeOK, StaleOnlyIfLate, GoneIsLate
<1>8. JobsTyped' /\ JobsReadThePast' /\ AnswersFitTheirRequests' /\ AnswersAreCurrent'
  BY <1>1 DEF JobsTyped, JobsReadThePast, AnswersFitTheirRequests, AnswersAreCurrent
<1> QED
  BY <1>5, <1>6, <1>7, <1>8

\* An edit leaves every request of the connection with settings of the past.
LEMMA EditJobs ==
    ASSUME RuntimeInv, NEW c \in Connections, Edit(c), NEW e \in BOOLEAN,
           exists' = [exists EXCEPT ![c] = e]
    PROVE  JobsReadThePast'
<1> SUFFICES ASSUME NEW j \in Jobs, job[j].phase \in {"testing", "building"}
             PROVE  /\ job[j].gen <= generation'[job[j].conn]
                    /\ job[j].gen = generation'[job[j].conn] => exists'[job[j].conn]
  BY DEF JobsReadThePast, Edit
<1>1. job[j].conn \in Connections /\ job[j].gen \in Nat /\ generation[job[j].conn] \in Nat
  BY ConnectionRuntimeAssumption DEF RuntimeInv, TypeOK, JobsTyped, JobRecord, Generations
<1>2. /\ job[j].gen <= generation[job[j].conn]
      /\ job[j].gen = generation[job[j].conn] => exists[job[j].conn]
  BY DEF RuntimeInv, JobsReadThePast
<1>3. generation' = [generation EXCEPT ![c] = generation[c] + 1]
      /\ generation \in [Connections -> Generations] /\ exists \in [Connections -> BOOLEAN]
  BY DEF Edit, RuntimeInv, TypeOK
<1>4. CASE job[j].conn = c
  <2>1. generation'[job[j].conn] = generation[job[j].conn] + 1
    BY <1>1, <1>3, <1>4
  <2> QED
    BY <1>1, <1>2, <2>1
<1>5. CASE job[j].conn # c
  <2>1. generation'[job[j].conn] = generation[job[j].conn] /\ exists'[job[j].conn] = exists[job[j].conn]
    BY <1>1, <1>3, <1>5
  <2> QED
    BY <1>2, <2>1
<1> QED
  BY <1>4, <1>5

\* updateConnection and deleteConnection: what they do not clear is of other connections.
LEMMA ClearingEditStep ==
    ASSUME RuntimeInv, NEW c \in Connections, Edit(c),
           clearConnectionCache(c), clearSchemaCache(c), NEW e \in BOOLEAN,
           exists' = [exists EXCEPT ![c] = e]
    PROVE  RuntimeInv'
<1> USE DEF RuntimeInv
<1>1. generation' = [generation EXCEPT ![c] = @ + 1] /\ generation[c] < MaxGeneration /\ UNCHANGED job
  BY DEF Edit
<1>2. generation[c] + 1 \in Generations
  BY <1>1, ConnectionRuntimeAssumption DEF TypeOK, Generations
<1>3. connectionCache' = [connectionCache EXCEPT ![c] = None]
  BY DEF clearConnectionCache
<1>4. schemaCache' = [k \in Keys |-> IF k[1] = c THEN None ELSE schemaCache[k]]
  BY DEF clearSchemaCache
<1>5. TypeOK'
  BY <1>1, <1>2, <1>3, <1>4 DEF TypeOK
<1>6. StaleOnlyIfLate'
  <2>1. \A x \in Connections : connectionCache'[x] # None =>
           connectionCache'[x].gen = generation'[x] \/ connectionCache'[x].late
    BY <1>1, <1>3 DEF TypeOK, StaleOnlyIfLate
  <2>2. \A k \in Keys : schemaCache'[k] # None =>
           schemaCache'[k].gen = generation'[k[1]] \/ schemaCache'[k].late
    <3> SUFFICES ASSUME NEW k \in Keys, schemaCache'[k] # None
                 PROVE  schemaCache'[k].gen = generation'[k[1]] \/ schemaCache'[k].late
      OBVIOUS
    <3>1. k[1] # c /\ schemaCache'[k] = schemaCache[k] /\ k[1] \in Connections
      BY <1>4 DEF Keys
    <3>2. generation'[k[1]] = generation[k[1]]
      BY <1>1, <3>1 DEF TypeOK
    <3> QED
      BY <3>1, <3>2 DEF StaleOnlyIfLate
  <2> QED
    BY <2>1, <2>2 DEF StaleOnlyIfLate
<1>9. GoneIsLate'
  <2>1. \A x \in Connections : connectionCache'[x] # None => exists'[x] \/ connectionCache'[x].late
    BY <1>3 DEF TypeOK, GoneIsLate
  <2>2. ASSUME NEW k \in Keys, schemaCache'[k] # None
        PROVE  exists'[k[1]] \/ schemaCache'[k].late
    <3>1. k[1] # c /\ schemaCache'[k] = schemaCache[k] /\ k[1] \in Connections
      BY <1>4, <2>2 DEF Keys
    <3>2. exists'[k[1]] = exists[k[1]]
      BY <3>1 DEF TypeOK
    <3> QED
      BY <2>2, <3>1, <3>2 DEF GoneIsLate
  <2> QED
    BY <2>1, <2>2 DEF GoneIsLate
<1>10. JobsReadThePast'
  BY <1>1, EditJobs
<1>7. FiledCorrectly'
  BY <1>4 DEF FiledCorrectly
<1>8. JobsTyped' /\ AnswersFitTheirRequests' /\ AnswersAreCurrent'
  BY <1>1 DEF JobsTyped, AnswersFitTheirRequests, AnswersAreCurrent
<1> QED
  BY <1>5, <1>6, <1>7, <1>8, <1>9, <1>10

\* createConnection clears nothing: what a straggler filed under the id is late.
LEMMA CreateStep ==
    ASSUME RuntimeInv, NEW c \in Connections, CreateConnection(c)
    PROVE  RuntimeInv'
<1> USE DEF RuntimeInv
<1>1. Edit(c) /\ exists' = [exists EXCEPT ![c] = TRUE] /\ ~ exists[c]
      /\ UNCHANGED <<connectionCache, schemaCache>>
  BY DEF CreateConnection
<1>2. generation' = [generation EXCEPT ![c] = generation[c] + 1] /\ generation[c] < MaxGeneration
      /\ UNCHANGED job
  BY <1>1 DEF Edit
<1>3. generation[c] + 1 \in Generations
  BY <1>2, ConnectionRuntimeAssumption DEF TypeOK, Generations
<1>4. TypeOK'
  BY <1>1, <1>2, <1>3 DEF TypeOK
<1>5. StaleOnlyIfLate'
  BY <1>1, <1>2 DEF TypeOK, StaleOnlyIfLate, GoneIsLate, Keys
<1>6. GoneIsLate'
  BY <1>1 DEF TypeOK, GoneIsLate, Keys
<1>7. JobsReadThePast'
  BY <1>1, EditJobs
<1>8. FiledCorrectly' /\ JobsTyped' /\ AnswersFitTheirRequests' /\ AnswersAreCurrent'
  BY <1>1, <1>2 DEF FiledCorrectly, JobsTyped, AnswersFitTheirRequests, AnswersAreCurrent
<1> QED
  BY <1>4, <1>5, <1>6, <1>7, <1>8

\* Every step keeps the invariant.
LEMMA StepRuntimeInv == RuntimeInv /\ [Next]_vars => RuntimeInv'
<1> SUFFICES ASSUME RuntimeInv, [Next]_vars PROVE RuntimeInv'
  OBVIOUS
<1>1. ASSUME NEW j \in Jobs, JobStep(j) PROVE RuntimeInv'
  <2>1. ASSUME NEW c \in Connections, TestConnection(j, c) PROVE RuntimeInv'
    BY <2>1, TestConnectionStep
  <2>2. ASSUME NEW c \in Connections, NEW d \in Databases, NEW s \in SUBSET Schemas,
               ServeCached(j, c, d, s) \/ MissCached(j, c, d, s) \/ ForceRefresh(j, c, d, s)
        PROVE  RuntimeInv'
    BY <2>2, ServeCachedStep, StartBuildStep DEF MissCached, ForceRefresh
  <2> QED
    BY <1>1, <2>1, <2>2, TestSucceedsStep, FailsStep, BuildSucceedsStep DEF JobStep
<1>2. ASSUME NEW k \in Keys, Expire(k) PROVE RuntimeInv'
  BY <1>2, ExpireStep
<1>3. ASSUME NEW c \in Connections, EditStep(c) PROVE RuntimeInv'
  <2>1. CASE UpdateConnection(c)
    <3>1. exists' = [exists EXCEPT ![c] = TRUE]
      BY <2>1 DEF UpdateConnection, RuntimeInv, TypeOK
    <3> QED
      BY <2>1, <3>1, ClearingEditStep DEF UpdateConnection
  <2>2. CASE DeleteConnection(c)
    BY <2>2, ClearingEditStep DEF DeleteConnection
  <2> QED
    BY <1>3, <2>1, <2>2, CreateStep DEF EditStep
<1>4. CASE UNCHANGED vars
  BY <1>4 DEF vars, RuntimeInv, TypeOK, JobsTyped, JobsReadThePast, FiledCorrectly, GoneIsLate,
              StaleOnlyIfLate, AnswersFitTheirRequests, AnswersAreCurrent
<1> QED
  BY <1>1, <1>2, <1>3, <1>4 DEF Next

\* The caches and the requests under way stay consistent through every interleaving of
\* tests, builds, expiries and edits.
THEOREM RuntimeConsistent == Spec => []RuntimeInv
  BY InitRuntimeInv, StepRuntimeInv, PTL DEF Spec

\* Only a request that straddled an edit can leave a stale entry in a cache.
THEOREM OnlyLateIsStale == Spec => []StaleOnlyIfLate
<1>1. RuntimeInv => StaleOnlyIfLate
  BY DEF RuntimeInv
<1> QED
  BY <1>1, RuntimeConsistent, PTL

\* The assistant is never given the context of another connection, database or scope.
THEOREM AnswersFit == Spec => []AnswersFitTheirRequests
<1>1. RuntimeInv => AnswersFitTheirRequests
  BY DEF RuntimeInv
<1> QED
  BY <1>1, RuntimeConsistent, PTL
=============================================================================
