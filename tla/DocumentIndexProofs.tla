------------------------- MODULE DocumentIndexProofs -------------------------
(***************************************************************************)
(* DocumentIndex for every number of documents, workers, requests,         *)
(* attempts, deliveries and setbacks.  What is shown is stored, and the    *)
(* attempts of a job are bounded, whatever goes wrong.  The exclusion of   *)
(* the database claim holds as long as no user retries a job and nobody    *)
(* alive is taken for dead; dead workers, stalled messages, lost requests, *)
(* queue outages and cancellations do not disturb it.                      *)
(***************************************************************************)
EXTENDS DocumentIndex, FiniteSetTheorems, TLAPS

-----------------------------------------------------------------------------
(* Types. *)

VersionType == version \in [Versions -> [doc: Documents, status: VersionStatuses, chunks: BOOLEAN]]
JobType == job \in [Versions -> [status: JobStatuses, attempt: Nat, stale: BOOLEAN]]
CurrentType == current \in [Documents -> 0..MaxVersions]
SourceType == source \in SourceStatuses
QueueType == queue \in [Versions -> [1..Deliveries -> Nat]]
WorkerType ==
  /\ worker \in [Workers -> [phase: WorkerPhases, job: 0..MaxVersions, left: 0..Deliveries,
                             flag: BOOLEAN]]
  /\ \A w \in Workers : worker[w].phase # "Idle" => worker[w].job \in Versions
RequestType ==
  /\ request \in [Requests -> [phase: RequestPhases, kind: RequestKinds, job: 0..MaxVersions]]
  /\ \A r \in Requests : request[r].phase # "Idle" => request[r].job \in Versions
RecoveryType ==
  recovery \in [phase: {"Idle", "Stale", "Versions", "Enqueue"}, jobs: SUBSET Versions]
SpentType ==
  spent \in [retries: 0..MaxRetries, cancels: 0..MaxCancels, faults: 0..MaxFaults,
             lapses: 0..MaxLapses]

LEMMA TypeParts ==
  TypeOK <=> /\ VersionType /\ JobType /\ CurrentType /\ SourceType /\ QueueType
             /\ WorkerType /\ RequestType /\ RecoveryType /\ SpentType
BY DEF TypeOK, VersionType, JobType, CurrentType, SourceType, QueueType, WorkerType,
       RequestType, RecoveryType, SpentType

\* The same after a step.
LEMMA TypePartsNext ==
  TypeOK' <=> /\ VersionType' /\ JobType' /\ CurrentType' /\ SourceType' /\ QueueType'
              /\ WorkerType' /\ RequestType' /\ RecoveryType' /\ SpentType'
BY DEF TypeOK, VersionType, JobType, CurrentType, SourceType, QueueType, WorkerType,
       RequestType, RecoveryType, SpentType

LEMMA TypeInit == Init => TypeOK
<1> SUFFICES ASSUME Init PROVE TypeOK
  OBVIOUS
<1>1. VersionType
  BY DEF Init, VersionType, VersionStatuses
<1>2. JobType
  BY DEF Init, JobType, JobStatuses
<1>3. CurrentType /\ SourceType
  BY IndexAssumption DEF Init, CurrentType, SourceType, SourceStatuses
<1>4. QueueType
  BY DEF Init, QueueType
<1>5. WorkerType
  BY IndexAssumption DEF Init, WorkerType, IdleWorker, WorkerPhases
<1>6. RequestType
  BY IndexAssumption DEF Init, RequestType, IdleRequest, RequestPhases, RequestKinds
<1>7. RecoveryType
  BY DEF Init, RecoveryType, IdleRecovery
<1>8. SpentType
  BY IndexAssumption DEF Init, SpentType
<1> QED BY <1>1, <1>2, <1>3, <1>4, <1>5, <1>6, <1>7, <1>8, TypeParts

\* The bounds count within their limits.
LEMMA SpentTypes ==
  ASSUME SpentType, CountRetry \/ CountCancel \/ CountFault \/ CountLapse
  PROVE  SpentType'
<1> USE IndexAssumption DEF SpentType
<1>1. \A n \in Nat : \A i \in 0..n : i < n => i + 1 \in 0..n
  OBVIOUS
<1>2. CASE CountRetry
  BY <1>1, <1>2 DEF CountRetry
<1>3. CASE CountCancel
  BY <1>1, <1>3 DEF CountCancel
<1>4. CASE CountFault
  BY <1>1, <1>4 DEF CountFault
<1>5. CASE CountLapse
  BY <1>1, <1>5 DEF CountLapse
<1> QED BY <1>2, <1>3, <1>4, <1>5

\* What the helpers write is well-typed.
LEMMA JobsTypes ==
  ASSUME JobType, NEW V, NEW s \in JobStatuses
  PROVE  SetJobs(V, s) \in [Versions -> [status: JobStatuses, attempt: Nat, stale: BOOLEAN]]
<1> DEFINE Rows == [status: JobStatuses, attempt: Nat, stale: BOOLEAN]
<1>1. \A v \in Versions : job[v] \in Rows
  BY DEF JobType
<1>2. \A row \in Rows : [row EXCEPT !.status = s, !.stale = FALSE] \in Rows
  OBVIOUS
<1> HIDE DEF Rows
<1>3. SetJobs(V, s) \in [Versions -> Rows]
  BY <1>1, <1>2 DEF SetJobs
<1> QED BY <1>3 DEF Rows

\* A job's heartbeat, written or missed.
LEMMA BeatTypes ==
  ASSUME JobType, NEW v \in Versions, NEW b \in BOOLEAN, job' = [job EXCEPT ![v].stale = b]
  PROVE  JobType'
<1> DEFINE Rows == [status: JobStatuses, attempt: Nat, stale: BOOLEAN]
           row == [job[v] EXCEPT !.stale = b]
<1>1. job \in [Versions -> Rows]
  BY DEF JobType
<1>2. \A old \in Rows : [old EXCEPT !.stale = b] \in Rows
  OBVIOUS
<1>3. job' = [job EXCEPT ![v] = row]
  BY <1>1
<1> HIDE DEF Rows
<1>4. row \in Rows
  BY <1>1, <1>2
<1> HIDE DEF row
<1>5. job' \in [Versions -> Rows]
  BY <1>1, <1>3, <1>4
<1> QED BY <1>5 DEF JobType, Rows

LEMMA VersionsTypes ==
  ASSUME VersionType, NEW V, NEW s \in VersionStatuses
  PROVE  SetVersions(V, s) \in [Versions -> [doc: Documents, status: VersionStatuses,
                                             chunks: BOOLEAN]]
BY DEF VersionType, SetVersions

LEMMA AddedTypes ==
  ASSUME QueueType, NEW v \in Versions, NEW n \in 1..Deliveries
  PROVE  Added(v, n) \in [Versions -> [1..Deliveries -> Nat]]
<1>1. queue[v] \in [1..Deliveries -> Nat]
  BY DEF QueueType
<1>2. queue[v][n] \in Nat
  BY <1>1
<1>3. [queue[v] EXCEPT ![n] = queue[v][n] + 1] \in [1..Deliveries -> Nat]
  BY <1>1, <1>2
<1> QED BY <1>3 DEF QueueType, Added

LEMMA GotoTypes ==
  ASSUME WorkerType, NEW w \in Workers, NEW phase \in WorkerPhases, Goto(w, phase),
         worker[w].phase # "Idle"
  PROVE  WorkerType'
BY DEF WorkerType, Goto

LEMMA FlagTypes ==
  ASSUME WorkerType, NEW w \in Workers, NEW phase \in WorkerPhases, NEW b \in BOOLEAN,
         worker' = [worker EXCEPT ![w].phase = phase, ![w].flag = b], worker[w].phase # "Idle"
  PROVE  WorkerType'
<1> DEFINE States == [phase: WorkerPhases, job: 0..MaxVersions, left: 0..Deliveries, flag: BOOLEAN]
<1>1. worker'[w] = [worker[w] EXCEPT !.phase = phase, !.flag = b]
  BY DEF WorkerType
<1>2. worker'[w] \in States /\ worker'[w].job = worker[w].job
  <2>1. worker[w] \in States
    BY DEF WorkerType
  <2>2. \A s \in States : LET t == [s EXCEPT !.phase = phase, !.flag = b]
                          IN t \in States /\ t.job = s.job
    OBVIOUS
  <2> HIDE DEF States
  <2> QED BY <1>1, <2>1, <2>2
<1>3. \A u \in Workers : u # w => worker'[u] = worker[u]
  BY DEF WorkerType
<1>4. worker' \in [Workers -> States]
  BY <1>2 DEF WorkerType
<1> QED BY <1>2, <1>3, <1>4 DEF WorkerType

LEMMA IdleWorkerTypes ==
  ASSUME WorkerType, NEW w \in Workers, worker' = [worker EXCEPT ![w] = IdleWorker]
  PROVE  WorkerType'
BY IndexAssumption DEF WorkerType, IdleWorker, WorkerPhases

LEMMA RequestDoneTypes ==
  ASSUME RequestType, NEW r \in Requests, RequestDone(r)
  PROVE  RequestType'
BY IndexAssumption DEF RequestType, RequestDone, IdleRequest, RequestPhases, RequestKinds

LEMMA RequestReadTypes ==
  ASSUME RequestType, NEW r \in Requests, NEW phase \in RequestPhases, NEW v \in Versions,
         NEW kind \in RequestKinds,
         request' = [request EXCEPT ![r] = [phase |-> phase, kind |-> kind, job |-> v]]
  PROVE  RequestType'
BY IndexAssumption DEF RequestType, Versions

LEMMA RequestStepTypes ==
  ASSUME TypeOK, NEW r \in Requests, upload(r) \/ RequestStep(r) \/ requestDies(r)
  PROVE  TypeOK'
<1> USE TypeParts, TypePartsNext DEF SourceType, SourceStatuses, CurrentType, QueueType, WorkerType, RecoveryType
<1> DEFINE v == request[r].job
<1>0. request[r].phase # "Idle" => v \in Versions
  BY DEF RequestType
<1>8. Deliveries \in 1..Deliveries
  BY IndexAssumption
<1>1. CASE upload(r)
  <2>1. PICK u \in Versions :
          /\ job' = SetJob(u, "QUEUED") /\ version' = SetVersion(u, "QUEUED")
          /\ request' = [request EXCEPT ![r] = [phase |-> "Enqueue", kind |-> "upload", job |-> u]]
    BY <1>1 DEF upload
  <2>2. JobType' /\ VersionType'
    BY <2>1, JobsTypes, VersionsTypes
       DEF JobType, VersionType, SetJob, SetVersion, JobStatuses, VersionStatuses
  <2>3. RequestType'
    BY <2>1, RequestReadTypes DEF RequestPhases, RequestKinds
  <2> QED BY <1>1, <2>2, <2>3 DEF upload, SpentType
<1>2. CASE retryWrite(r)
  <2>1. JobType'
    BY <1>0, <1>2 DEF retryWrite, JobType, JobStatuses
  <2>2. VersionType'
    BY <1>2, VersionsTypes DEF retryWrite, VersionType, SetVersion, VersionStatuses
  <2>3. RequestType'
    BY <1>2 DEF retryWrite, RequestType, RequestPhases
  <2> QED BY <1>2, <2>1, <2>2, <2>3 DEF retryWrite, SpentType
<1>3. CASE cancelWrite(r)
  <2>1. JobType'
    BY <1>3, JobsTypes DEF cancelWrite, JobType, SetJob, JobStatuses
  <2> QED BY <1>3, <2>1, RequestDoneTypes DEF cancelWrite, SpentType, VersionType
<1>4. CASE enqueueDocumentIndexJob(r)
  <2>1. QueueType'
    BY <1>0, <1>4, <1>8, AddedTypes DEF enqueueDocumentIndexJob
  <2> QED BY <1>4, <2>1, RequestDoneTypes DEF enqueueDocumentIndexJob, rows, SpentType, JobType,
                                              VersionType
<1>5. CASE enqueueFails(r)
  <2>1. JobType'
    BY <1>5, JobsTypes DEF enqueueFails, JobType, SetJob, JobStatuses
  <2>2. VersionType'
    BY <1>5, VersionsTypes DEF enqueueFails, VersionType, SetVersion, VersionStatuses
  <2>3. SpentType'
    BY <1>5, SpentTypes DEF enqueueFails, SpentType
  <2> QED BY <1>5, <2>1, <2>2, <2>3, RequestDoneTypes DEF enqueueFails
<1>6. CASE requestDies(r)
  BY <1>6, SpentTypes, RequestDoneTypes DEF requestDies, rows, JobType, VersionType
<1> QED BY <1>1, <1>2, <1>3, <1>4, <1>5, <1>6 DEF RequestStep

LEMMA WorkerStepTypes ==
  ASSUME TypeOK, NEW w \in Workers, WorkerStep(w)
  PROVE  TypeOK'
<1> USE TypeParts, TypePartsNext DEF SourceType, SourceStatuses, CurrentType, RequestType, RecoveryType, SpentType
<1> DEFINE v == worker[w].job
<1>1. /\ worker[w].phase # "Idle" => v \in Versions
      /\ worker[w].left \in 0..Deliveries
  BY DEF WorkerType
<1>2. /\ SetJob(v, "COMPLETED") \in [Versions -> [status: JobStatuses, attempt: Nat, stale: BOOLEAN]]
      /\ SetJob(v, "CANCELLED") \in [Versions -> [status: JobStatuses, attempt: Nat, stale: BOOLEAN]]
      /\ SetJob(v, "FAILED") \in [Versions -> [status: JobStatuses, attempt: Nat, stale: BOOLEAN]]
      /\ SetJob(v, "DEAD_LETTER") \in [Versions -> [status: JobStatuses, attempt: Nat, stale: BOOLEAN]]
  BY JobsTypes DEF SetJob, JobStatuses
<1>3. \A s \in VersionStatuses :
        SetVersion(v, s) \in [Versions -> [doc: Documents, status: VersionStatuses, chunks: BOOLEAN]]
  BY VersionsTypes DEF SetVersion
<1> HIDE DEF v
<1>4. CASE claim(w)
  <2>1. JobType'
    <3>1. CASE Claimable(v)
      <4>1. job[v].attempt + 1 \in Nat
        BY <1>1, <1>4 DEF claim, JobType
      <4>2. job' = [job EXCEPT ![v] = [status |-> "PROCESSING", attempt |-> job[v].attempt + 1,
                                       stale |-> FALSE]]
        BY <1>1, <1>4, <3>1 DEF claim, nextAttempt, JobType, v
      <4> QED BY <4>1, <4>2 DEF JobType, JobStatuses
    <3>2. CASE ~Claimable(v)
      BY <1>4, <3>2 DEF claim, JobType, v
    <3> QED BY <3>1, <3>2
  <2>2. WorkerType'
    BY <1>4, GotoTypes, IdleWorkerTypes DEF claim, WorkerPhases
  <2> QED BY <1>4, <2>1, <2>2 DEF claim, VersionType, QueueType
<1>5. CASE begin(w)
  <2>1. JobType'
    <3>1. v \in Versions /\ job' = [job EXCEPT ![v].stale = FALSE] /\ JobType
      BY <1>1, <1>5 DEF begin, v
    <3> QED BY <3>1, BeatTypes
  <2>2. VersionType'
    BY <1>3, <1>5 DEF begin, VersionType, VersionStatuses, v
  <2> QED BY <1>5, <2>1, <2>2, GotoTypes DEF begin, QueueType, WorkerPhases
<1>6. CASE checkCancellation(w)
  BY <1>6, GotoTypes DEF checkCancellation, rows, JobType, VersionType, QueueType, WorkerPhases
<1>7. ASSUME NEW next \in {"Wave", "Store"}, embedWave(w, next) PROVE TypeOK'
  <2>1. JobType'
    <3>1. v \in Versions /\ job' = [job EXCEPT ![v].stale = FALSE] /\ JobType
      BY <1>1, <1>7 DEF embedWave, v
    <3> QED BY <3>1, BeatTypes
  <2> QED BY <1>7, <2>1, GotoTypes DEF embedWave, VersionType, QueueType, WorkerPhases
<1>8. CASE store(w)
  <2>1. WorkerType'
    <3>1. PICK b \in BOOLEAN : worker' = [worker EXCEPT ![w].phase = "Commit", ![w].flag = b]
      BY <1>8 DEF store
    <3> QED BY <1>8, <3>1, FlagTypes DEF store, WorkerPhases
  <2> QED BY <1>8, <2>1 DEF store, rows, JobType, VersionType, QueueType
<1>9. CASE commit(w)
  <2>1. JobType'
    BY <1>2, <1>9 DEF commit, JobType, v
  <2>2. VersionType'
    <3> DEFINE row == [version[v] EXCEPT !.status = "INDEXED", !.chunks = TRUE]
    <3>1. v \in Versions /\ VersionType
      BY <1>1, <1>9 DEF commit, v
    <3>2. version' = [version EXCEPT ![v] = row]
      BY <1>9, <3>1 DEF commit, v, VersionType
    <3>3. row \in [doc: Documents, status: VersionStatuses, chunks: BOOLEAN]
      <4> HIDE DEF v
      <4>1. version[v] \in [doc: Documents, status: VersionStatuses, chunks: BOOLEAN]
        BY <3>1 DEF VersionType
      <4> QED BY <4>1 DEF VersionStatuses
    <3> HIDE DEF v, row
    <3> QED BY <3>1, <3>2, <3>3 DEF VersionType
  <2>3. CurrentType'
    <3>1. v \in 0..MaxVersions
      BY <1>1, <1>9, IndexAssumption DEF commit, Versions
    <3>2. current' = [current EXCEPT ![version[v].doc] = v]
      BY <1>9 DEF commit, v
    <3> QED BY <3>1, <3>2
  <2>4. SourceType'
    BY <1>9 DEF commit
  <2> QED BY <1>9, <2>1, <2>2, <2>3, <2>4, IdleWorkerTypes DEF commit, QueueType
<1>10. CASE cancelJob(w)
  <2>1. JobType'
    BY <1>2, <1>10 DEF cancelJob, JobType, v
  <2> QED BY <1>10, <2>1, GotoTypes DEF cancelJob, VersionType, QueueType, WorkerPhases
<1>11. CASE cancelVersion(w)
  <2>1. VersionType'
    BY <1>3, <1>11 DEF cancelVersion, VersionType, VersionStatuses, v
  <2> QED BY <1>11, <2>1, IdleWorkerTypes DEF cancelVersion, JobType, QueueType
<1>12. CASE fail(w)
  <2>1. WorkerType'
    <3>1. PICK b \in BOOLEAN : worker' = [worker EXCEPT ![w].phase = "FailJob", ![w].flag = b]
      <4>1. AttemptsAreUsedUp(worker[w].job) \in BOOLEAN
        BY DEF AttemptsAreUsedUp
      <4> QED BY <1>12, <4>1 DEF fail
    <3> QED BY <1>12, <3>1, FlagTypes DEF fail, IsIndexing, WorkerPhases
  <2> QED BY <1>12, <2>1 DEF fail, rows, JobType, VersionType, QueueType
<1>13. CASE failJob(w)
  <2>1. JobType'
    BY <1>2, <1>13 DEF failJob, JobType, v
  <2> QED BY <1>13, <2>1, GotoTypes DEF failJob, VersionType, QueueType, WorkerPhases
<1>14. CASE failVersion(w)
  <2>1. VersionType'
    BY <1>3, <1>14 DEF failVersion, VersionType, VersionStatuses, v
  <2> QED BY <1>14, <2>1, GotoTypes DEF failVersion, JobType, QueueType, WorkerPhases
<1>15. CASE failSource(w)
  <2>1. QueueType'
    <3>1. worker[w].left > 1 => worker[w].left - 1 \in 1..Deliveries
      <4>1. ASSUME NEW n \in 0..Deliveries, n > 1 PROVE n - 1 \in 1..Deliveries
        BY <4>1, IndexAssumption
      <4>2. worker[w].left \in 0..Deliveries
        BY <1>1
      <4> QED BY <4>1, <4>2
    <3>2. CASE worker[w].left > 1
      BY <1>1, <1>15, <3>1, <3>2, AddedTypes DEF failSource, Redelivered, QueueType, v
    <3>3. CASE ~(worker[w].left > 1)
      BY <1>15, <3>3 DEF failSource, Redelivered, QueueType
    <3> QED BY <3>2, <3>3
  <2> QED BY <1>15, <2>1, IdleWorkerTypes DEF failSource, JobType, VersionType
<1> QED
  BY <1>4, <1>5, <1>6, <1>7, <1>8, <1>9, <1>10, <1>11, <1>12, <1>13, <1>14, <1>15 DEF WorkerStep

LEMMA ReadStepTypes ==
  ASSUME TypeOK, NEW r \in Requests, NEW v \in Versions, retryRead(r, v) \/ cancelRead(r, v)
  PROVE  TypeOK'
<1> USE TypeParts, TypePartsNext
<1>1. CASE retryRead(r, v)
  <2>1. PICK kind \in RequestKinds : CountRetry /\ requestRead(r, v, kind, "RetryWrite")
    BY <1>1 DEF retryRead, RequestKinds
  <2>2. RequestType' /\ SpentType'
    BY <2>1, RequestReadTypes, SpentTypes DEF requestRead, RequestPhases
  <2> QED BY <2>1, <2>2 DEF requestRead, rows, VersionType, JobType, CurrentType, SourceType,
                            QueueType, WorkerType, RecoveryType
<1>2. CASE cancelRead(r, v)
  <2>1. RequestType' /\ SpentType'
    BY <1>2, RequestReadTypes, SpentTypes DEF cancelRead, requestRead, RequestPhases, RequestKinds
  <2> QED BY <1>2, <2>1 DEF cancelRead, requestRead, rows, VersionType, JobType, CurrentType,
                            SourceType, QueueType, WorkerType, RecoveryType
<1> QED BY <1>1, <1>2

LEMMA DeliveryStepTypes ==
  ASSUME TypeOK, NEW w \in Workers,
         \/ heartbeat(w) \/ workerDies(w) \/ workerStalls(w)
         \/ \E v \in Versions : take(w, v)
  PROVE  TypeOK'
<1> USE TypeParts, TypePartsNext
<1>1. /\ worker[w].phase # "Idle" => worker[w].job \in Versions
      /\ worker[w].left > 0 => worker[w].left \in 1..Deliveries
  <2>1. worker[w].left \in 0..Deliveries
    BY DEF WorkerType
  <2> QED BY <2>1, IndexAssumption DEF WorkerType
<1>2. CASE heartbeat(w)
  <2>1. JobType'
    BY <1>1, <1>2 DEF heartbeat, Beats, IsIndexing, JobType
  <2> QED BY <1>2, <2>1 DEF heartbeat, VersionType, CurrentType, SourceType, QueueType, WorkerType,
                            RequestType, RecoveryType, SpentType
<1>3. CASE workerDies(w)
  <2>1. QueueType'
    BY <1>1, <1>3, AddedTypes DEF workerDies, QueueType
  <2> QED BY <1>3, <2>1, IdleWorkerTypes, SpentTypes
             DEF workerDies, rows, VersionType, JobType, CurrentType, SourceType, RequestType,
                 RecoveryType
<1>4. CASE workerStalls(w)
  <2>1. QueueType'
    BY <1>1, <1>4, AddedTypes DEF workerStalls, QueueType
  <2>2. WorkerType'
    <3>1. 0 \in 0..Deliveries
      BY IndexAssumption
    <3> QED BY <1>4, <3>1 DEF workerStalls, WorkerType
  <2> QED BY <1>4, <2>1, <2>2, SpentTypes
             DEF workerStalls, rows, VersionType, JobType, CurrentType, SourceType, RequestType,
                 RecoveryType
<1>5. ASSUME NEW v \in Versions, take(w, v) PROVE TypeOK'
  <2>1. PICK n \in 1..Deliveries :
          /\ queue[v][n] > 0 /\ queue' = [queue EXCEPT ![v][n] = @ - 1]
          /\ worker' = [worker EXCEPT ![w] =
               CASE job[v].status = "COMPLETED" -> IdleWorker
                 [] job[v].status \in {"CANCEL_REQUESTED", "CANCELLED"} ->
                      [IdleWorker EXCEPT !.phase = "CancelJob", !.job = v, !.left = n]
                 [] OTHER -> [IdleWorker EXCEPT !.phase = "Claim", !.job = v, !.left = n]]
    BY <1>5 DEF take
  <2>2. QueueType'
    <3>1. queue[v] \in [1..Deliveries -> Nat]
      BY DEF QueueType
    <3>2. queue[v][n] - 1 \in Nat
      <4>1. queue[v][n] \in Nat
        BY <3>1
      <4> QED BY <2>1, <4>1
    <3>3. [queue[v] EXCEPT ![n] = queue[v][n] - 1] \in [1..Deliveries -> Nat]
      BY <3>1, <3>2
    <3> QED BY <2>1, <3>3 DEF QueueType
  <2>3. v \in 0..MaxVersions /\ n \in 0..Deliveries /\ 0 \in 0..MaxVersions /\ 0 \in 0..Deliveries
    BY IndexAssumption DEF Versions
  <2>4. PICK s \in [phase: {"CancelJob", "Claim"}, job: {v}, left: {n}, flag: {FALSE}]
                     \cup {IdleWorker} : worker' = [worker EXCEPT ![w] = s]
    BY <2>1 DEF IdleWorker
  <2>5. WorkerType'
    <3> DEFINE States == [phase: WorkerPhases, job: 0..MaxVersions, left: 0..Deliveries,
                          flag: BOOLEAN]
    <3>1. s \in States /\ (s.phase # "Idle" => s.job \in Versions)
      <4>1. CASE s = IdleWorker
        BY <2>3, <4>1 DEF IdleWorker, WorkerPhases
      <4>2. CASE s \in [phase: {"CancelJob", "Claim"}, job: {v}, left: {n}, flag: {FALSE}]
        <5> HIDE <2>4
        <5> QED BY <2>3, <4>2 DEF WorkerPhases
      <4> QED BY <2>4, <4>1, <4>2
    <3>2. worker \in [Workers -> States]
      BY DEF WorkerType
    <3> HIDE DEF States
    <3>3. worker' \in [Workers -> States]
      BY <2>4, <3>1, <3>2
    <3>4. \A u \in Workers : worker'[u].phase # "Idle" => worker'[u].job \in Versions
      BY <2>4, <3>1, <3>2 DEF WorkerType
    <3> QED BY <3>3, <3>4 DEF States, WorkerType
  <2> QED BY <1>5, <2>2, <2>5
             DEF take, rows, VersionType, JobType, CurrentType, SourceType, RequestType,
                 RecoveryType, SpentType
<1> QED BY <1>2, <1>3, <1>4, <1>5

LEMMA RecoveryStepTypes ==
  ASSUME TypeOK, RecoveryStep \/ recoveryDies \/ \E v \in Versions : ages(v)
  PROVE  TypeOK'
<1> USE TypeParts, TypePartsNext DEF CurrentType, SourceType, WorkerType, RequestType
<1>1. CASE recoverCancelled
  <2>1. JobType'
    BY <1>1, JobsTypes DEF recoverCancelled, JobType, JobStatuses
  <2> QED BY <1>1, <2>1 DEF recoverCancelled, VersionType, QueueType, RecoveryType, SpentType
<1>2. CASE recoverStale
  <2>1. JobType'
    BY <1>2, JobsTypes DEF recoverStale, JobType, JobStatuses
  <2>2. RecoveryType'
    BY <1>2 DEF recoverStale, RecoveryType, IdleRecovery, StaleIn
  <2> QED BY <1>2, <2>1, <2>2 DEF recoverStale, VersionType, QueueType, SpentType
<1>3. CASE recoverVersions
  <2>1. VersionType'
    BY <1>3, VersionsTypes DEF recoverVersions, VersionType, VersionStatuses
  <2> QED BY <1>3, <2>1 DEF recoverVersions, JobType, QueueType, RecoveryType, SpentType
<1>4. CASE recoverEnqueue
  <2>1. PICK v \in recovery.jobs :
          /\ queue' = IF QueueHasCapacity THEN Added(v, Deliveries) ELSE queue
          /\ recovery' = IF recovery.jobs = {v} THEN IdleRecovery
                         ELSE [recovery EXCEPT !.jobs = @ \ {v}]
    BY <1>4 DEF recoverEnqueue
  <2>2. v \in Versions /\ Deliveries \in 1..Deliveries
    BY IndexAssumption DEF RecoveryType
  <2>3. QueueType'
    BY <2>1, <2>2, AddedTypes DEF QueueType
  <2>4. RecoveryType'
    BY <2>1 DEF RecoveryType, IdleRecovery
  <2> QED BY <1>4, <2>3, <2>4 DEF recoverEnqueue, rows, VersionType, JobType, SpentType
<1>5. CASE recoveryDies
  <2>1. RecoveryType'
    BY <1>5 DEF recoveryDies, RecoveryType, IdleRecovery
  <2> QED BY <1>5, <2>1, SpentTypes DEF recoveryDies, rows, VersionType, JobType, QueueType
<1>6. ASSUME NEW v \in Versions, ages(v) PROVE TypeOK'
  <2>1. JobType'
    <3>1. job' = [job EXCEPT ![v].stale = TRUE] /\ JobType
      BY <1>6 DEF ages
    <3> QED BY <3>1, BeatTypes
  <2>2. SpentType'
    BY <1>6, SpentTypes DEF ages, SpentType
  <2> QED BY <1>6, <2>1, <2>2 DEF ages, VersionType, QueueType, RecoveryType
<1> QED BY <1>1, <1>2, <1>3, <1>4, <1>5, <1>6 DEF RecoveryStep

LEMMA TypeStep == TypeOK /\ [Next]_vars => TypeOK'
<1>1. TypeOK /\ UNCHANGED vars => TypeOK'
  BY DEF vars, TypeOK
<1>2. TypeOK /\ Next => TypeOK'
  BY RequestStepTypes, WorkerStepTypes, ReadStepTypes, DeliveryStepTypes, RecoveryStepTypes DEF Next
<1> QED BY <1>1, <1>2

\* Every row, message and process of the indexing pipeline stays within the statuses and
\* ranges that the schema and the code give it.
THEOREM TypeCorrect == Spec => []TypeOK
<1> QED BY TypeInit, TypeStep, PTL DEF Spec

-----------------------------------------------------------------------------
(* What is shown is stored: only the storing transaction completes a job, *)
(* indexes a version, moves a document to it or makes a source READY.      *)

\* A step that publishes nothing.
PublishesNothing ==
  /\ current' = current
  /\ source' = "READY" => source = "READY"
  /\ \A v \in Versions : /\ version'[v].doc = version[v].doc
                         /\ version'[v].chunks = version[v].chunks
                         /\ version'[v].status = "INDEXED" => version[v].status = "INDEXED"
                         /\ job'[v].status = "COMPLETED" => job[v].status = "COMPLETED"

LEMMA ShownKept ==
  ASSUME TypeOK, WhatIsShownIsStored, PublishesNothing
  PROVE  WhatIsShownIsStored'
<1>1. \A d \in Documents : current[d] # 0 => current[d] \in Versions
  BY IndexAssumption DEF TypeOK, Versions
<1> QED BY <1>1 DEF WhatIsShownIsStored, PublishesNothing

LEMMA SetJobsPublishes ==
  ASSUME TypeOK, NEW V, NEW s, s # "COMPLETED", job' = SetJobs(V, s)
  PROVE  \A v \in Versions : job'[v].status = "COMPLETED" => job[v].status = "COMPLETED"
<1> SUFFICES ASSUME NEW v \in Versions, job'[v].status = "COMPLETED"
             PROVE  job[v].status = "COMPLETED"
  OBVIOUS
<1>1. job'[v] = IF v \in V THEN [job[v] EXCEPT !.status = s, !.stale = FALSE] ELSE job[v]
  BY DEF SetJobs
<1>2. job[v] \in [status: JobStatuses, attempt: Nat, stale: BOOLEAN]
  BY DEF TypeOK
<1> QED BY <1>1, <1>2

LEMMA SetVersionsPublishes ==
  ASSUME TypeOK, NEW V, NEW s, s # "INDEXED", version' = SetVersions(V, s)
  PROVE  \A v \in Versions : /\ version'[v].doc = version[v].doc
                             /\ version'[v].chunks = version[v].chunks
                             /\ version'[v].status = "INDEXED" => version[v].status = "INDEXED"
BY DEF TypeOK, SetVersions

LEMMA ShownStep == TypeOK /\ WhatIsShownIsStored /\ [Next]_vars => WhatIsShownIsStored'
<1> SUFFICES ASSUME TypeOK, WhatIsShownIsStored, [Next]_vars
             PROVE  WhatIsShownIsStored'
  OBVIOUS
<1> USE SetJobsPublishes, SetVersionsPublishes, ShownKept DEF PublishesNothing, SetJob, SetVersion
<1>1. ASSUME NEW r \in Requests, upload(r) PROVE WhatIsShownIsStored'
  <2>1. PICK v \in Versions : job' = SetJob(v, "QUEUED") /\ version' = SetVersion(v, "QUEUED")
    BY <1>1 DEF upload
  <2> QED BY <1>1, <2>1 DEF upload
<1>2. ASSUME NEW r \in Requests, retryWrite(r) PROVE WhatIsShownIsStored'
  <2>1. \A v \in Versions : job'[v].status = "COMPLETED" => job[v].status = "COMPLETED"
    BY <1>2 DEF retryWrite, TypeOK
  <2> QED BY <1>2, <2>1 DEF retryWrite
<1>3. ASSUME NEW r \in Requests, cancelWrite(r) PROVE WhatIsShownIsStored'
  BY <1>3 DEF cancelWrite
<1>4. ASSUME NEW r \in Requests, enqueueFails(r) PROVE WhatIsShownIsStored'
  BY <1>4 DEF enqueueFails
<1>5. ASSUME UNCHANGED rows PROVE WhatIsShownIsStored'
  BY <1>5 DEF rows
<1>6. ASSUME NEW r \in Requests,
             \/ enqueueDocumentIndexJob(r) \/ requestDies(r)
             \/ \E v \in Versions : retryRead(r, v) \/ cancelRead(r, v)
      PROVE  WhatIsShownIsStored'
  BY <1>5, <1>6 DEF enqueueDocumentIndexJob, requestDies, retryRead, cancelRead, requestRead
<1>7. ASSUME NEW w \in Workers,
             \/ checkCancellation(w) \/ store(w) \/ fail(w) \/ workerDies(w) \/ workerStalls(w)
             \/ \E v \in Versions : take(w, v)
      PROVE  WhatIsShownIsStored'
  BY <1>5, <1>7 DEF checkCancellation, store, fail, workerDies, workerStalls, take
<1>8. ASSUME NEW w \in Workers, \/ claim(w) \/ begin(w) \/ heartbeat(w)
                                \/ \E next \in {"Wave", "Store"} : embedWave(w, next)
      PROVE  WhatIsShownIsStored'
  <2>1. \A v \in Versions : job'[v].status = "COMPLETED" => job[v].status = "COMPLETED"
    <3>1. CASE claim(w)
      <4>1. \/ job' = job
            \/ \E row : /\ row.status = "PROCESSING"
                        /\ job' = [job EXCEPT ![worker[w].job] = row]
        BY <3>1 DEF claim
      <4>2. \A v, u \in Versions : \A row :
              job' = [job EXCEPT ![v] = row] => job'[u] = IF u = v THEN row ELSE job[u]
        BY DEF TypeOK
      <4>3. worker[w].job \in Versions
        BY <3>1 DEF claim, TypeOK
      <4> QED BY <4>1, <4>2, <4>3
    <3>2. CASE \E v \in Versions : job' = [job EXCEPT ![v].stale = FALSE]
      BY <3>2 DEF TypeOK
    <3> QED BY <1>8, <3>1, <3>2 DEF TypeOK, begin, heartbeat, Beats, IsIndexing, embedWave
  <2> QED BY <1>8, <2>1 DEF claim, begin, heartbeat, embedWave
<1>9. ASSUME NEW w \in Workers, commit(w) PROVE WhatIsShownIsStored'
  <2> DEFINE v == worker[w].job
             d == version[v].doc
  <2>1. v \in Versions /\ v # 0 /\ d \in Documents
    <3>1. v \in Versions
      BY <1>9 DEF commit, TypeOK
    <3>2. version[v] \in [doc: Documents, status: VersionStatuses, chunks: BOOLEAN]
      <4> HIDE DEF v
      <4> QED BY <3>1 DEF TypeOK
    <3>3. v # 0
      BY <3>1, IndexAssumption DEF Versions
    <3> QED BY <3>1, <3>2, <3>3
  <2>2. /\ version'[v] = [version[v] EXCEPT !.status = "INDEXED", !.chunks = TRUE]
        /\ \A u \in Versions : u # v => version'[u] = version[u] /\ job'[u] = job[u]
    BY <1>9, <2>1 DEF commit, TypeOK, SetJobs
  <2>3. version'[v].chunks /\ version'[v].doc = d
    BY <2>1, <2>2 DEF TypeOK
  <2>4. /\ current'[d] = v
        /\ \A e \in Documents : e # d => current'[e] = current[e]
    BY <1>9, <2>1 DEF commit, TypeOK
  <2>5. \A e \in Documents : current[e] # 0 => current[e] \in Versions
    BY IndexAssumption DEF TypeOK, Versions
  <2> HIDE DEF v, d
  <2>6. \A u \in Versions : (job'[u].status = "COMPLETED" \/ version'[u].status = "INDEXED")
                               => version'[u].chunks
    <3>1. \A u \in Versions : (job[u].status = "COMPLETED" \/ version[u].status = "INDEXED")
                               => version[u].chunks
      BY DEF WhatIsShownIsStored
    <3> SUFFICES ASSUME NEW u \in Versions, job'[u].status = "COMPLETED" \/ version'[u].status = "INDEXED"
                 PROVE  version'[u].chunks
      OBVIOUS
    <3>2. CASE u = v
      BY <2>3, <3>2
    <3>3. CASE u # v
      BY <2>2, <3>1, <3>3
    <3> QED BY <3>2, <3>3
  <2>7. \A e \in Documents : current'[e] # 0 => /\ version'[current'[e]].chunks
                                                /\ version'[current'[e]].doc = e
    <3> SUFFICES ASSUME NEW e \in Documents, current'[e] # 0
                 PROVE  version'[current'[e]].chunks /\ version'[current'[e]].doc = e
      OBVIOUS
    <3>1. CASE e = d
      BY <2>3, <2>4, <3>1
    <3>2. CASE e # d
      <4>1. current'[e] = current[e] /\ current[e] \in Versions
        BY <2>4, <2>5, <3>2
      <4>2. version[current[e]].chunks /\ version[current[e]].doc = e
        BY <4>1 DEF WhatIsShownIsStored
      <4> QED BY <2>2, <2>3, <3>2, <4>1, <4>2
    <3> QED BY <3>1, <3>2
  <2> QED BY <2>1, <2>4, <2>6, <2>7 DEF WhatIsShownIsStored
<1>10. ASSUME NEW w \in Workers,
              cancelJob(w) \/ cancelVersion(w) \/ failJob(w) \/ failVersion(w) \/ failSource(w)
       PROVE  WhatIsShownIsStored'
  BY <1>10 DEF cancelJob, cancelVersion, failJob, failVersion, failSource
<1>11. ASSUME NEW v \in Versions, ages(v) PROVE WhatIsShownIsStored'
  <2>1. \A u \in Versions : job'[u].status = "COMPLETED" => job[u].status = "COMPLETED"
    BY <1>11 DEF ages, TypeOK
  <2> QED BY <1>11, <2>1 DEF ages
<1>12. ASSUME RecoveryStep \/ recoveryDies PROVE WhatIsShownIsStored'
  BY <1>5, <1>12 DEF RecoveryStep, recoverCancelled, recoverStale, recoverVersions, recoverEnqueue,
                     recoveryDies
<1>13. CASE UNCHANGED vars
  BY <1>5, <1>13 DEF vars, rows
<1> QED
  BY <1>1, <1>2, <1>3, <1>4, <1>6, <1>7, <1>8, <1>9, <1>10, <1>11, <1>12, <1>13
     DEF Next, RequestStep, WorkerStep

\* A completed job has its chunks, a document shows a stored version of its own, and a
\* READY source shows something, whatever dies, is delivered twice, retried or cancelled.
THEOREM ShownIsStored == Spec => []WhatIsShownIsStored
<1>1. Init => WhatIsShownIsStored
  <2> SUFFICES ASSUME Init PROVE WhatIsShownIsStored
    OBVIOUS
  <2>1. \A v \in Versions : job[v].status # "COMPLETED" /\ version[v].status # "INDEXED"
    BY DEF Init
  <2> QED BY <2>1 DEF Init, WhatIsShownIsStored
<1> QED BY <1>1, TypeInit, TypeStep, ShownStep, PTL DEF Spec

-----------------------------------------------------------------------------
(* What most steps leave as it is: the rows, who names a job, and who works *)
(* on it.                                                                   *)

\* The job's row is still to be written by the worker that claimed it.
AtWork(w) == IsIndexing(w) \/ worker[w].phase = "FailJob"
Handles(w, v) == worker[w].phase # "Idle" /\ worker[w].job = v
Enqueues(r, v) == request[r].phase = "Enqueue" /\ request[r].job = v

Unnamed(v) ==
  /\ job[v].attempt = 0
  /\ \A n \in 1..Deliveries : queue[v][n] = 0
  /\ \A w \in Workers : ~Handles(w, v)
  /\ v \notin recovery.jobs

\* No job goes back to the queue, is claimed, or grows old.
RowsAreQuiet ==
  \A v \in Versions :
    /\ job'[v].attempt = job[v].attempt
    /\ job'[v].status = "ABSENT" => job[v].status = "ABSENT"
    /\ job'[v].status \in {"QUEUED", "FAILED", "PROCESSING"} => job'[v].status = job[v].status
    /\ job'[v].stale /\ job'[v].status \in {"QUEUED", "PROCESSING"} => job[v].stale

\* No job is named for the first time.
NamesAreQuiet ==
  /\ \A v \in Versions : Unnamed(v) => Unnamed(v)'
  /\ \A r \in Requests : request'[r].phase \in {"RetryWrite", "Enqueue"} => request'[r] = request[r]

\* Nobody starts to work, who fails has looked at the attempts, and who stops leaves the
\* row settled or has died.
WorkIsQuiet ==
  \A w \in Workers :
    LET v == worker[w].job
    IN /\ AtWork(w)' => AtWork(w) /\ worker'[w].job = v
       /\ IsIndexing(w)' => IsIndexing(w)
       /\ worker'[w].phase = "FailJob" /\ ~worker'[w].flag
            => \/ worker[w].phase = "FailJob" /\ ~worker[w].flag
               \/ IsIndexing(w) /\ job[v].attempt < MaxAttempts
       /\ AtWork(w) /\ ~AtWork(w)' => \/ job'[v].status # "PROCESSING"
                                      \/ spent.faults < spent'.faults

LEMMA WorkTypes ==
  ASSUME TypeOK
  PROVE  /\ \A w \in Workers : AtWork(w) => worker[w].job \in Versions /\ Handles(w, worker[w].job)
         /\ \A r \in Requests : request[r].phase # "Idle" => request[r].job \in Versions
         /\ \A v \in Versions : job[v].attempt \in Nat /\ job[v].status \in JobStatuses
         /\ spent.faults \in Nat /\ MaxAttempts \in Nat
<1>1. \A w \in Workers : AtWork(w) => worker[w].job \in Versions /\ Handles(w, worker[w].job)
  BY DEF TypeOK, AtWork, IsIndexing, Handles
<1>2. \A r \in Requests : request[r].phase # "Idle" => request[r].job \in Versions
  BY DEF TypeOK
<1>3. \A v \in Versions : job[v].attempt \in Nat /\ job[v].status \in JobStatuses
  <2>1. \A v \in Versions : job[v] \in [status: JobStatuses, attempt: Nat, stale: BOOLEAN]
    BY DEF TypeOK
  <2> QED BY <2>1
<1>4. spent.faults \in Nat /\ MaxAttempts \in Nat
  BY IndexAssumption DEF TypeOK
<1> QED BY <1>1, <1>2, <1>3, <1>4

LEMMA SetJobsQuiet ==
  ASSUME TypeOK, NEW V, NEW s \in {"CANCEL_REQUESTED", "CANCELLED", "COMPLETED", "DEAD_LETTER"},
         job' = SetJobs(V, s)
  PROVE  RowsAreQuiet
<1> SUFFICES ASSUME NEW v \in Versions
             PROVE  /\ job'[v].attempt = job[v].attempt
                    /\ job'[v].status # job[v].status => job'[v].status = s
                    /\ job'[v].stale /\ job'[v].status # s => job[v].stale
  BY DEF RowsAreQuiet
<1>1. v \in V => job'[v] = [job[v] EXCEPT !.status = s, !.stale = FALSE]
  BY DEF SetJobs
<1>2. v \notin V => job'[v] = job[v]
  BY DEF SetJobs
<1>3. job[v] \in [status: JobStatuses, attempt: Nat, stale: BOOLEAN]
  BY DEF TypeOK
<1> QED BY <1>1, <1>2, <1>3

LEMMA BeatQuiet ==
  ASSUME TypeOK, NEW v \in Versions, job' = [job EXCEPT ![v].stale = FALSE]
  PROVE  RowsAreQuiet
<1>1. /\ job'[v] = [job[v] EXCEPT !.stale = FALSE]
      /\ \A u \in Versions : u # v => job'[u] = job[u]
  BY DEF TypeOK
<1>2. job'[v].status = job[v].status /\ job'[v].attempt = job[v].attempt /\ ~job'[v].stale
  BY <1>1 DEF TypeOK
<1> QED BY <1>1, <1>2 DEF RowsAreQuiet

\* A step of one worker that stays with its job, and at most returns its message.
LEMMA OneWorkerQuiet ==
  ASSUME TypeOK, NEW w \in Workers, worker[w].phase # "Idle",
         \A u \in Workers : u # w => worker'[u] = worker[u],
         worker'[w].phase = "Idle" \/ worker'[w].job = worker[w].job,
         \/ queue' = queue
         \/ \E n \in 1..Deliveries : queue' = Added(worker[w].job, n),
         request' = request, recovery' = recovery, RowsAreQuiet,
         AtWork(w)' => AtWork(w), IsIndexing(w)' => IsIndexing(w),
         worker'[w].phase = "FailJob" /\ ~worker'[w].flag
           => \/ worker[w].phase = "FailJob" /\ ~worker[w].flag
              \/ IsIndexing(w) /\ job[worker[w].job].attempt < MaxAttempts,
         AtWork(w) /\ ~AtWork(w)' => \/ job'[worker[w].job].status # "PROCESSING"
                                     \/ spent.faults < spent'.faults
  PROVE  NamesAreQuiet /\ WorkIsQuiet
<1>1. ASSUME NEW v \in Versions, Unnamed(v) PROVE Unnamed(v)'
  <2>1. worker[w].job # v
    BY <1>1 DEF Unnamed, Handles
  <2>2. queue'[v] = queue[v]
    BY <2>1 DEF Added, TypeOK
  <2>3. \A u \in Workers : ~Handles(u, v)'
    BY <1>1, <2>1 DEF Unnamed, Handles
  <2> QED BY <1>1, <2>2, <2>3 DEF Unnamed, RowsAreQuiet
<1>2. \A u \in Workers : AtWork(u)' /\ u # w => AtWork(u)
  BY DEF AtWork, IsIndexing
<1>3. \A u \in Workers : u # w => (AtWork(u)' <=> AtWork(u)) /\ (IsIndexing(u)' <=> IsIndexing(u))
  BY DEF AtWork, IsIndexing
<1>4. AtWork(w)' => worker'[w].job = worker[w].job
  BY DEF AtWork, IsIndexing
<1>5. WorkIsQuiet
  <2> SUFFICES ASSUME NEW u \in Workers
               PROVE  LET v == worker[u].job
                      IN /\ AtWork(u)' => AtWork(u) /\ worker'[u].job = v
                         /\ IsIndexing(u)' => IsIndexing(u)
                         /\ worker'[u].phase = "FailJob" /\ ~worker'[u].flag
                              => \/ worker[u].phase = "FailJob" /\ ~worker[u].flag
                                 \/ IsIndexing(u) /\ job[v].attempt < MaxAttempts
                         /\ AtWork(u) /\ ~AtWork(u)' => \/ job'[v].status # "PROCESSING"
                                                        \/ spent.faults < spent'.faults
    BY DEF WorkIsQuiet
  <2>1. CASE u = w
    BY <1>4, <2>1
  <2>2. CASE u # w
    BY <1>3, <2>2
  <2> QED BY <2>1, <2>2
<1> QED BY <1>1, <1>5 DEF NamesAreQuiet

\* A step that leaves the workers alone.
LEMMA WorkersStayQuiet ==
  ASSUME worker' = worker
  PROVE  WorkIsQuiet
BY DEF WorkIsQuiet, AtWork, IsIndexing

LEMMA SameRowsQuiet ==
  ASSUME job' = job
  PROVE  RowsAreQuiet
BY DEF RowsAreQuiet

\* The steps of a worker between its claim and the end of its work, the claim and the
\* failure write excepted.
LEMMA QuietWorkerSteps ==
  ASSUME TypeOK, NEW w \in Workers,
         \/ begin(w) \/ checkCancellation(w)
         \/ \E next \in {"Wave", "Store"} : embedWave(w, next)
         \/ store(w) \/ commit(w) \/ cancelJob(w) \/ cancelVersion(w)
         \/ fail(w) \/ failVersion(w) \/ failSource(w)
         \/ heartbeat(w) \/ workerDies(w) \/ workerStalls(w)
  PROVE  RowsAreQuiet /\ NamesAreQuiet /\ WorkIsQuiet
<1> DEFINE v == worker[w].job
<1>1. worker[w].phase # "Idle" => v \in Versions
  BY DEF TypeOK
<1>2. worker[w].left \in Nat /\ (worker[w].left > 0 => worker[w].left \in 1..Deliveries)
      /\ (worker[w].left > 1 => worker[w].left - 1 \in 1..Deliveries)
  <2>1. worker[w].left \in 0..Deliveries
    BY DEF TypeOK
  <2> QED BY <2>1, IndexAssumption
<1>3. ASSUME NEW phase, Goto(w, phase), worker[w].phase # "Idle"
      PROVE  /\ \A u \in Workers : u # w => worker'[u] = worker[u]
             /\ worker'[w].phase = phase /\ worker'[w].job = v /\ worker'[w].flag = worker[w].flag
  BY <1>3 DEF Goto, TypeOK
<1>4. ASSUME worker' = [worker EXCEPT ![w] = IdleWorker]
      PROVE  /\ \A u \in Workers : u # w => worker'[u] = worker[u]
             /\ worker'[w].phase = "Idle"
  BY <1>4 DEF IdleWorker, TypeOK
<1> HIDE DEF v
<1> USE SetJobsQuiet, SameRowsQuiet, BeatQuiet, OneWorkerQuiet DEF AtWork, IsIndexing, v
<1>5. CASE begin(w)
  <2>1. RowsAreQuiet
    BY <1>1, <1>5 DEF begin
  <2> QED BY <1>3, <1>5, <2>1 DEF begin
<1>6. CASE checkCancellation(w)
  <2>1. job[v].status = "CANCEL_REQUESTED" => job'[v].status # "PROCESSING"
    BY <1>6 DEF checkCancellation, rows
  <2> QED BY <1>3, <1>6, <2>1 DEF checkCancellation, rows
<1>7. ASSUME NEW next \in {"Wave", "Store"}, embedWave(w, next)
      PROVE  RowsAreQuiet /\ NamesAreQuiet /\ WorkIsQuiet
  <2>1. RowsAreQuiet
    BY <1>1, <1>7 DEF embedWave
  <2> QED BY <1>3, <1>7, <2>1 DEF embedWave
<1>8. CASE store(w)
  <2>1. /\ \A u \in Workers : u # w => worker'[u] = worker[u]
        /\ worker'[w].phase = "Commit" /\ worker'[w].job = v
    <3>1. PICK b \in BOOLEAN : worker' = [worker EXCEPT ![w].phase = "Commit", ![w].flag = b]
      BY <1>8 DEF store
    <3> QED BY <3>1 DEF TypeOK
  <2> QED BY <1>8, <2>1 DEF store, rows
<1>9. CASE commit(w)
  <2>1. RowsAreQuiet /\ job'[v].status # "PROCESSING"
    <3>1. job' = SetJobs({v}, "COMPLETED")
      BY <1>9 DEF commit, SetJob
    <3>2. job'[v] = [job[v] EXCEPT !.status = "COMPLETED", !.stale = FALSE]
      BY <1>1, <1>9, <3>1 DEF commit, SetJobs
    <3>3. v \in Versions
      BY <1>1, <1>9 DEF commit
    <3>4. job'[v].status = "COMPLETED"
      BY <3>2, <3>3 DEF TypeOK
    <3>5. RowsAreQuiet
      BY <3>1
    <3> QED BY <3>4, <3>5
  <2> QED BY <1>4, <1>9, <2>1 DEF commit
<1>10. CASE cancelJob(w)
  <2>1. RowsAreQuiet
    BY <1>10 DEF cancelJob, SetJob
  <2> QED BY <1>3, <1>10, <2>1 DEF cancelJob
<1>11. CASE cancelVersion(w)
  BY <1>4, <1>11 DEF cancelVersion
<1>12. CASE fail(w)
  <2>1. /\ \A u \in Workers : u # w => worker'[u] = worker[u]
        /\ worker'[w].phase = "FailJob" /\ worker'[w].job = v
        /\ worker'[w].flag = AttemptsAreUsedUp(v)
    <3> DEFINE row == [worker[w] EXCEPT !.phase = "FailJob", !.flag = AttemptsAreUsedUp(v)]
    <3>1. worker' = [worker EXCEPT ![w] = row]
      BY <1>12 DEF fail, TypeOK
    <3>2. row.phase = "FailJob" /\ row.flag = AttemptsAreUsedUp(v) /\ row.job = v
      BY DEF TypeOK
    <3>3. w \in DOMAIN worker /\ \A u \in Workers : u \in DOMAIN worker
      BY DEF TypeOK
    <3> HIDE DEF row
    <3> QED BY <3>1, <3>2, <3>3
  <2>2. ~worker'[w].flag => job[v].attempt < MaxAttempts
    <3>1. ~worker'[w].flag => ~AttemptsAreUsedUp(v)
      BY <2>1
    <3>2. job[v].attempt \in Nat
      BY <1>1, <1>12, WorkTypes DEF fail
    <3> QED BY <3>1, <3>2, WorkTypes DEF AttemptsAreUsedUp
  <2> QED BY <1>12, <2>1, <2>2 DEF fail, rows
<1>13. CASE failVersion(w)
  BY <1>3, <1>13 DEF failVersion
<1>14. CASE failSource(w)
  BY <1>2, <1>4, <1>14 DEF failSource, Redelivered
<1>15. CASE heartbeat(w)
  <2>1. RowsAreQuiet
    BY <1>1, <1>15 DEF heartbeat, Beats
  <2> QED BY <1>15, <2>1 DEF heartbeat, Beats
<1>16. CASE workerDies(w)
  <2>1. spent.faults < spent'.faults
    BY <1>16 DEF workerDies, CountFault, TypeOK
  <2> QED BY <1>2, <1>4, <1>16, <2>1 DEF workerDies, rows
<1>17. CASE workerStalls(w)
  <2>1. /\ \A u \in Workers : u # w => worker'[u] = worker[u]
        /\ worker'[w].phase = worker[w].phase /\ worker'[w].job = v
        /\ worker'[w].flag = worker[w].flag
    BY <1>17 DEF workerStalls, TypeOK
  <2> QED BY <1>2, <1>17, <2>1 DEF workerStalls, rows
<1> QED
  BY <1>5, <1>6, <1>7, <1>8, <1>9, <1>10, <1>11, <1>12, <1>13, <1>14, <1>15, <1>16, <1>17

\* The steps of the web process and of recovery that neither enqueue nor write a job back.
LEMMA QuietOtherSteps ==
  ASSUME TypeOK,
         \/ \E r \in Requests : \/ cancelWrite(r) \/ requestDies(r)
                                \/ \E v \in Versions : cancelRead(r, v)
         \/ recoverCancelled \/ recoverVersions \/ recoverEnqueue \/ recoveryDies
         \/ UNCHANGED vars
  PROVE  RowsAreQuiet /\ NamesAreQuiet /\ WorkIsQuiet
<1> USE SetJobsQuiet, SameRowsQuiet, WorkersStayQuiet
<1>1. ASSUME RowsAreQuiet, worker' = worker, queue' = queue, recovery'.jobs \subseteq recovery.jobs,
             \A r \in Requests : request'[r].phase \in {"RetryWrite", "Enqueue"}
                                   => request'[r] = request[r]
      PROVE  NamesAreQuiet
  BY <1>1 DEF NamesAreQuiet, Unnamed, Handles, RowsAreQuiet
<1>2. ASSUME NEW r \in Requests, cancelWrite(r)
      PROVE  RowsAreQuiet /\ NamesAreQuiet /\ WorkIsQuiet
  <2>1. \A q \in Requests : request'[q].phase \in {"RetryWrite", "Enqueue"}
                              => request'[q] = request[q]
    BY <1>2 DEF cancelWrite, RequestDone, IdleRequest, TypeOK
  <2> QED BY <1>1, <1>2, <2>1 DEF cancelWrite, SetJob
<1>3. ASSUME NEW r \in Requests, requestDies(r)
      PROVE  RowsAreQuiet /\ NamesAreQuiet /\ WorkIsQuiet
  <2>1. \A q \in Requests : request'[q].phase \in {"RetryWrite", "Enqueue"}
                              => request'[q] = request[q]
    BY <1>3 DEF requestDies, RequestDone, IdleRequest, TypeOK
  <2> QED BY <1>1, <1>3, <2>1 DEF requestDies, rows
<1>5. ASSUME NEW r \in Requests, NEW v \in Versions, cancelRead(r, v)
      PROVE  RowsAreQuiet /\ NamesAreQuiet /\ WorkIsQuiet
  <2>1. \A q \in Requests : request'[q].phase \in {"RetryWrite", "Enqueue"}
                              => request'[q] = request[q]
    BY <1>5 DEF cancelRead, requestRead, TypeOK
  <2> QED BY <1>1, <1>5, <2>1 DEF cancelRead, requestRead, rows
<1>6. CASE recoverCancelled
  <2>1. recovery'.jobs = recovery.jobs
    BY <1>6 DEF recoverCancelled, TypeOK
  <2> QED BY <1>1, <1>6, <2>1 DEF recoverCancelled
<1>7. CASE recoverVersions
  <2>1. recovery'.jobs = recovery.jobs
    BY <1>7 DEF recoverVersions, TypeOK
  <2> QED BY <1>1, <1>7, <2>1 DEF recoverVersions
<1>8. CASE recoverEnqueue
  <2>1. PICK v \in recovery.jobs :
          /\ queue' = IF QueueHasCapacity THEN Added(v, Deliveries) ELSE queue
          /\ recovery' = IF recovery.jobs = {v} THEN IdleRecovery
                         ELSE [recovery EXCEPT !.jobs = @ \ {v}]
    BY <1>8 DEF recoverEnqueue
  <2>2. recovery'.jobs \subseteq recovery.jobs
    BY <2>1 DEF IdleRecovery, TypeOK
  <2>3. \A u \in Versions : u # v => queue'[u] = queue[u]
    BY <2>1 DEF Added, TypeOK
  <2>4. NamesAreQuiet
    BY <1>8, <2>1, <2>2, <2>3 DEF recoverEnqueue, rows, NamesAreQuiet, Unnamed, Handles
  <2> QED BY <1>8, <2>4 DEF recoverEnqueue, rows
<1>9. CASE recoveryDies
  <2>1. recovery'.jobs \subseteq recovery.jobs
    BY <1>9 DEF recoveryDies, IdleRecovery, TypeOK
  <2> QED BY <1>1, <1>9, <2>1 DEF recoveryDies, rows
<1>10. CASE UNCHANGED vars
  BY <1>1, <1>10 DEF vars
<1> QED BY <1>2, <1>3, <1>5, <1>6, <1>7, <1>8, <1>9, <1>10

LEMMA TakeQuiet ==
  ASSUME TypeOK, NEW w \in Workers, NEW v \in Versions, take(w, v)
  PROVE  RowsAreQuiet /\ NamesAreQuiet /\ WorkIsQuiet
<1>1. PICK n \in 1..Deliveries :
        /\ worker[w].phase = "Idle" /\ queue[v][n] > 0
        /\ queue' = [queue EXCEPT ![v][n] = @ - 1]
        /\ \E s : worker' = [worker EXCEPT ![w] = s] /\ (s.phase = "Idle" \/ s.job = v)
                  /\ s.phase \in {"Idle", "Claim", "CancelJob"}
  <2>1. PICK n \in 1..Deliveries :
          /\ worker[w].phase = "Idle" /\ queue[v][n] > 0
          /\ queue' = [queue EXCEPT ![v][n] = @ - 1]
          /\ \E s \in {IdleWorker, [IdleWorker EXCEPT !.phase = "CancelJob", !.job = v, !.left = n],
                       [IdleWorker EXCEPT !.phase = "Claim", !.job = v, !.left = n]} :
               worker' = [worker EXCEPT ![w] = s]
    BY DEF take
  <2>2. \A s \in {IdleWorker, [IdleWorker EXCEPT !.phase = "CancelJob", !.job = v, !.left = n],
                  [IdleWorker EXCEPT !.phase = "Claim", !.job = v, !.left = n]} :
          (s.phase = "Idle" \/ s.job = v) /\ s.phase \in {"Idle", "Claim", "CancelJob"}
    <3>1. IdleWorker.phase = "Idle"
      BY DEF IdleWorker
    <3>2. \A phase : /\ [IdleWorker EXCEPT !.phase = phase, !.job = v, !.left = n].phase = phase
                    /\ [IdleWorker EXCEPT !.phase = phase, !.job = v, !.left = n].job = v
      BY DEF IdleWorker
    <3> QED BY <3>1, <3>2
  <2> QED BY <2>1, <2>2
<1>2. /\ \A u \in Workers : u # w => worker'[u] = worker[u]
      /\ worker'[w].phase \in {"Idle", "Claim", "CancelJob"}
      /\ worker'[w].phase = "Idle" \/ worker'[w].job = v
  BY <1>1 DEF TypeOK
<1>3. ~Unnamed(v)
  BY <1>1 DEF Unnamed
<1>4. \A u \in Versions : u # v => queue'[u] = queue[u]
  BY <1>1 DEF TypeOK
<1>5. RowsAreQuiet
  BY SameRowsQuiet DEF take, rows
<1>6. NamesAreQuiet
  BY <1>2, <1>3, <1>4 DEF take, rows, NamesAreQuiet, Unnamed, Handles
<1>7. WorkIsQuiet
  BY <1>1, <1>2 DEF WorkIsQuiet, AtWork, IsIndexing
<1> QED BY <1>5, <1>6, <1>7

\* A claim that finds the row taken.
LEMMA LostClaimQuiet ==
  ASSUME TypeOK, NEW w \in Workers, claim(w), ~Claimable(worker[w].job)
  PROVE  RowsAreQuiet /\ NamesAreQuiet /\ WorkIsQuiet
<1>1. worker' = [worker EXCEPT ![w] = IdleWorker] /\ job' = job /\ worker[w].phase = "Claim"
  BY DEF claim
<1>2. /\ worker'[w].phase = "Idle"
      /\ \A u \in Workers : u # w => worker'[u] = worker[u]
  BY <1>1 DEF IdleWorker, TypeOK
<1>3. RowsAreQuiet
  BY <1>1, SameRowsQuiet
<1>4. request' = request /\ recovery' = recovery /\ queue' = queue
  BY DEF claim
<1> QED BY <1>1, <1>2, <1>3, <1>4, OneWorkerQuiet DEF AtWork, IsIndexing

\* What the bounds count is never uncounted.
LEMMA SpentGrows ==
  ASSUME TypeOK, [Next]_vars
  PROVE  /\ spent.retries <= spent'.retries /\ spent.faults <= spent'.faults
         /\ spent.lapses <= spent'.lapses
<1>1. \/ spent' = spent
      \/ \E n \in {"retries", "cancels", "faults", "lapses"} :
           spent' = [spent EXCEPT ![n] = @ + 1]
  <2> USE DEF CountRetry, CountCancel, CountFault, CountLapse
  <2>1. ASSUME NEW r \in Requests,
               \/ upload(r) \/ RequestStep(r) \/ requestDies(r)
               \/ \E v \in Versions : retryRead(r, v) \/ cancelRead(r, v)
        PROVE  \/ spent' = spent
               \/ \E n \in {"retries", "cancels", "faults", "lapses"} :
                    spent' = [spent EXCEPT ![n] = @ + 1]
    BY <2>1 DEF upload, RequestStep, retryWrite, cancelWrite, enqueueDocumentIndexJob,
                enqueueFails, requestDies, retryRead, cancelRead
  <2>2. ASSUME NEW w \in Workers,
               \/ WorkerStep(w) \/ heartbeat(w) \/ workerDies(w) \/ workerStalls(w)
               \/ \E v \in Versions : take(w, v)
        PROVE  \/ spent' = spent
               \/ \E n \in {"retries", "cancels", "faults", "lapses"} :
                    spent' = [spent EXCEPT ![n] = @ + 1]
    BY <2>2 DEF WorkerStep, claim, begin, checkCancellation, embedWave, store, commit, cancelJob,
                cancelVersion, fail, failJob, failVersion, failSource, heartbeat, workerDies,
                workerStalls, take
  <2>3. ASSUME RecoveryStep \/ recoveryDies \/ \E v \in Versions : ages(v)
        PROVE  \/ spent' = spent
               \/ \E n \in {"retries", "cancels", "faults", "lapses"} :
                    spent' = [spent EXCEPT ![n] = @ + 1]
    BY <2>3 DEF RecoveryStep, recoverCancelled, recoverStale, recoverVersions, recoverEnqueue,
                recoveryDies, ages
  <2> QED BY <2>1, <2>2, <2>3 DEF Next, vars
<1>2. /\ spent \in [retries: 0..MaxRetries, cancels: 0..MaxCancels, faults: 0..MaxFaults,
                    lapses: 0..MaxLapses]
      /\ MaxRetries \in Nat /\ MaxCancels \in Nat /\ MaxFaults \in Nat /\ MaxLapses \in Nat
  BY IndexAssumption DEF TypeOK
<1>3. CASE spent' = spent
  BY <1>2, <1>3
<1>4. ASSUME NEW n \in {"retries", "cancels", "faults", "lapses"},
             spent' = [spent EXCEPT ![n] = @ + 1]
      PROVE  /\ spent.retries <= spent'.retries /\ spent.faults <= spent'.faults
             /\ spent.lapses <= spent'.lapses
  <2>1. CASE n = "retries"
    BY <1>2, <1>4, <2>1
  <2>2. CASE n = "cancels"
    BY <1>2, <1>4, <2>2
  <2>3. CASE n = "faults"
    BY <1>2, <1>4, <2>3
  <2>4. CASE n = "lapses"
    BY <1>2, <1>4, <2>4
  <2> QED BY <1>4, <2>1, <2>2, <2>3, <2>4
<1> QED BY <1>1, <1>3, <1>4

-----------------------------------------------------------------------------
(* Every attempt beyond the maximum is paid for.  A ticket of a job is one *)
(* more claim of its row that may come without anything else going wrong:  *)
(* the row that can be claimed or recovered, a worker that indexes (it may *)
(* fail) or will write FAILED, a retry or an upload that will write the    *)
(* row.  A job starts with one ticket; a claim, a failure and a recovery   *)
(* only exchange tickets; a fault, a lapse or a retry pays for one more.   *)
(* A worker that is indexing when the attempts are used up will write      *)
(* DEAD_LETTER: what counts from then on are the tickets kept without it.  *)

Owed == spent.faults + spent.lapses + spent.retries
Requeues(r, v) == request[r].phase \in {"RetryWrite", "Enqueue"} /\ request[r].job = v

Indexing(v) == {w \in Workers : IsIndexing(w) /\ worker[w].job = v}
Failing(v) == {w \in Workers : /\ worker[w].phase = "FailJob" /\ ~worker[w].flag
                               /\ worker[w].job = v}
Retrying(v) == {r \in Requests : request[r].phase = "RetryWrite" /\ request[r].job = v}

\* The upload that created v has still to enqueue it.
UploadIsOpen(v) == \E r \in Requests : Enqueues(r, v) /\ request[r].kind = "upload"

\* Nobody but its upload has had to do with v: what the upload writes if it cannot
\* enqueue does not open the row once more.
OnlyUploaded(v) ==
  /\ Unnamed(v)
  /\ ~(job[v].stale /\ job[v].status \in {"QUEUED", "PROCESSING"})
  /\ \A r \in Requests : Enqueues(r, v) => request[r].kind = "upload"

RowIsOpen(v) ==
  \/ job[v].status \in {"QUEUED", "FAILED"}
  \/ /\ job[v].status = "PROCESSING"
     /\ job[v].stale \/ \A w \in Workers : AtWork(w) => worker[w].job # v

UploadTicket == <<"upload", 0>>
RowTicket == <<"row", 0>>

Kept(v) ==
  ({"worker"} \X Failing(v)) \cup ({"retry"} \X Retrying(v))
  \cup {t \in {UploadTicket} : UploadIsOpen(v)}
  \cup {t \in {RowTicket} : RowIsOpen(v) /\ (UploadIsOpen(v) => ~OnlyUploaded(v))}
Tickets(v) == Kept(v) \cup ({"worker"} \X Indexing(v))

Accounted(v) ==
  /\ Cardinality(Tickets(v)) <= 1 + Owed
  /\ job[v].attempt >= MaxAttempts
       => job[v].attempt + Cardinality(Kept(v)) <= MaxAttempts + Owed

AbsentIsUnnamed ==
  \A v \in Versions : ~Uploaded(v) =>
    Unnamed(v) /\ \A r \in Requests : ~Requeues(r, v)

UploadsAreDistinct ==
  /\ \A r \in Requests : request[r].phase = "RetryWrite" => request[r].kind # "upload"
  /\ \A v \in Versions : \A q, r \in Requests :
       /\ Enqueues(q, v) /\ request[q].kind = "upload"
       /\ Enqueues(r, v) /\ request[r].kind = "upload"
       => q = r

AttemptsInv ==
  /\ AbsentIsUnnamed
  /\ UploadsAreDistinct
  /\ \A v \in Versions : Accounted(v)

\* Counting: fewer, one more, one for another.
LEMMA FewerCount ==
  ASSUME NEW S, NEW T, IsFiniteSet(S), T \subseteq S
  PROVE  /\ IsFiniteSet(T) /\ Cardinality(T) \in Nat /\ Cardinality(S) \in Nat
         /\ Cardinality(T) <= Cardinality(S)
BY FS_Subset, FS_CardinalityType

LEMMA PaidCount ==
  ASSUME NEW S, NEW T, NEW y, IsFiniteSet(S), T \subseteq S \cup {y}
  PROVE  Cardinality(T) <= Cardinality(S) + 1
<1>1. /\ IsFiniteSet(S \cup {y}) /\ Cardinality(S) \in Nat
      /\ Cardinality(S \cup {y}) = IF y \in S THEN Cardinality(S) ELSE Cardinality(S) + 1
  BY FS_AddElement, FS_CardinalityType
<1>2. Cardinality(T) \in Nat /\ Cardinality(T) <= Cardinality(S \cup {y})
  BY <1>1, FewerCount
<1> QED BY <1>1, <1>2

LEMMA ExchangeCount ==
  ASSUME NEW S, NEW T, NEW x \in S, NEW y, IsFiniteSet(S), T \subseteq (S \ {x}) \cup {y}
  PROVE  Cardinality(T) <= Cardinality(S)
<1>1. /\ IsFiniteSet(S \ {x}) /\ Cardinality(S) \in Nat
      /\ Cardinality(S \ {x}) = Cardinality(S) - 1
  BY FS_RemoveElement, FS_CardinalityType
<1>2. Cardinality(T) <= Cardinality(S \ {x}) + 1
  BY <1>1, PaidCount
<1>3. Cardinality(T) \in Nat
  <2>1. IsFiniteSet((S \ {x}) \cup {y})
    BY <1>1, FS_AddElement
  <2> QED BY <2>1, FewerCount
<1> QED BY <1>1, <1>2, <1>3

LEMMA OneFewerCount ==
  ASSUME NEW S, NEW T, NEW x \in S, IsFiniteSet(S), T \subseteq S \ {x}
  PROVE  Cardinality(T) + 1 <= Cardinality(S)
<1>1. /\ IsFiniteSet(S \ {x}) /\ Cardinality(S) \in Nat
      /\ Cardinality(S \ {x}) = Cardinality(S) - 1
  BY FS_RemoveElement, FS_CardinalityType
<1>2. Cardinality(T) \in Nat /\ Cardinality(T) <= Cardinality(S \ {x})
  BY <1>1, FewerCount
<1> QED BY <1>1, <1>2

\* There are finitely many tickets, now and after a step.
LEMMA TicketsAreFinite ==
  ASSUME NEW v
  PROVE  /\ IsFiniteSet(Tickets(v)) /\ IsFiniteSet(Kept(v))
         /\ IsFiniteSet(Tickets(v)') /\ IsFiniteSet(Kept(v)')
<1> DEFINE All == (({"worker"} \X Workers) \cup ({"retry"} \X Requests))
                  \cup {UploadTicket} \cup {RowTicket}
<1>1. IsFiniteSet({"worker"} \X Workers) /\ IsFiniteSet({"retry"} \X Requests)
  BY IndexAssumption, FS_Product, FS_Singleton
<1>2. IsFiniteSet(({"worker"} \X Workers) \cup ({"retry"} \X Requests))
  BY <1>1, FS_Union
<1>3. IsFiniteSet(All)
  BY <1>2, FS_AddElement
<1>4. /\ Indexing(v) \subseteq Workers /\ Failing(v) \subseteq Workers
      /\ Retrying(v) \subseteq Requests
      /\ Indexing(v)' \subseteq Workers /\ Failing(v)' \subseteq Workers
      /\ Retrying(v)' \subseteq Requests
  BY DEF Indexing, Failing, Retrying
<1>5. Tickets(v) \subseteq All /\ Kept(v) \subseteq All
  BY <1>4 DEF Tickets, Kept
<1>6. Tickets(v)' \subseteq All /\ Kept(v)' \subseteq All
  BY <1>4 DEF Tickets, Kept
<1> QED BY <1>3, <1>5, <1>6, FS_Subset

LEMMA AccountTypes ==
  ASSUME TypeOK
  PROVE  /\ Owed \in Nat /\ MaxAttempts \in Nat \ {0}
         /\ \A v \in Versions : job[v].attempt \in Nat
BY IndexAssumption DEF TypeOK, Owed

LEMMA AccountTypesNext ==
  ASSUME TypeOK'
  PROVE  Owed' \in Nat /\ \A v \in Versions : job'[v].attempt \in Nat
BY IndexAssumption DEF TypeOK, Owed

LEMMA FewerTickets ==
  ASSUME TypeOK, TypeOK', NEW v \in Versions, Accounted(v), Owed <= Owed',
         Tickets(v)' \subseteq Tickets(v),
         job'[v].attempt >= MaxAttempts
           => job'[v].attempt = job[v].attempt /\ Kept(v)' \subseteq Kept(v)
  PROVE  Accounted(v)'
<1>1. /\ Cardinality(Tickets(v)) \in Nat /\ Cardinality(Tickets(v)') \in Nat
      /\ Cardinality(Tickets(v)') <= Cardinality(Tickets(v))
  BY TicketsAreFinite, FewerCount
<1>2. /\ Cardinality(Kept(v)) \in Nat /\ Cardinality(Kept(v)') \in Nat
      /\ Kept(v)' \subseteq Kept(v) => Cardinality(Kept(v)') <= Cardinality(Kept(v))
  BY TicketsAreFinite, FewerCount, FS_CardinalityType
<1> QED BY <1>1, <1>2, AccountTypes, AccountTypesNext DEF Accounted

LEMMA TicketPaid ==
  ASSUME TypeOK, TypeOK', NEW v \in Versions, Accounted(v), Owed < Owed', NEW y,
         Tickets(v)' \subseteq Tickets(v) \cup {y},
         job'[v].attempt >= MaxAttempts
           => job'[v].attempt = job[v].attempt /\ Kept(v)' \subseteq Kept(v) \cup {y}
  PROVE  Accounted(v)'
<1>1. /\ Cardinality(Tickets(v)) \in Nat /\ Cardinality(Tickets(v)') \in Nat
      /\ Cardinality(Tickets(v)') <= Cardinality(Tickets(v)) + 1
  BY TicketsAreFinite, PaidCount, FS_CardinalityType
<1>2. /\ Cardinality(Kept(v)) \in Nat /\ Cardinality(Kept(v)') \in Nat
      /\ Kept(v)' \subseteq Kept(v) \cup {y} => Cardinality(Kept(v)') <= Cardinality(Kept(v)) + 1
  BY TicketsAreFinite, PaidCount, FS_CardinalityType
<1> QED BY <1>1, <1>2, AccountTypes, AccountTypesNext DEF Accounted

LEMMA TicketExchanged ==
  ASSUME TypeOK, TypeOK', NEW v \in Versions, Accounted(v), Owed <= Owed', NEW x \in Kept(v), NEW y,
         Tickets(v)' \subseteq (Tickets(v) \ {x}) \cup {y},
         job'[v].attempt >= MaxAttempts
           => job'[v].attempt = job[v].attempt /\ Kept(v)' \subseteq (Kept(v) \ {x}) \cup {y}
  PROVE  Accounted(v)'
<1>0. x \in Tickets(v)
  BY DEF Tickets
<1>1. /\ Cardinality(Tickets(v)) \in Nat /\ Cardinality(Tickets(v)') \in Nat
      /\ Cardinality(Tickets(v)') <= Cardinality(Tickets(v))
  BY <1>0, TicketsAreFinite, ExchangeCount, FS_CardinalityType
<1>2. /\ Cardinality(Kept(v)) \in Nat /\ Cardinality(Kept(v)') \in Nat
      /\ Kept(v)' \subseteq (Kept(v) \ {x}) \cup {y}
           => Cardinality(Kept(v)') <= Cardinality(Kept(v))
  BY TicketsAreFinite, ExchangeCount, FS_CardinalityType
<1> QED BY <1>1, <1>2, AccountTypes, AccountTypesNext DEF Accounted

\* Quiet steps open no tickets, unless a fault pays for the row they open.
LEMMA QuietIsAccounted ==
  ASSUME TypeOK, TypeOK', RowsAreQuiet, NamesAreQuiet, WorkIsQuiet, NEW v \in Versions,
         Accounted(v), Owed <= Owed',
         \/ Owed < Owed'
         \/ /\ ~(spent.faults < spent'.faults)
            /\ \A r \in Requests : request[r].phase = "Enqueue" => request'[r] = request[r]
  PROVE  Accounted(v)'
<1>1. job'[v].attempt = job[v].attempt
  BY DEF RowsAreQuiet
<1>2. /\ Indexing(v)' \subseteq Indexing(v)
      /\ Failing(v)' \subseteq Failing(v) \cup Indexing(v)
      /\ job'[v].attempt >= MaxAttempts => Failing(v)' \subseteq Failing(v)
  <2>1. \A w \in Workers : AtWork(w)' => worker'[w].job = worker[w].job
    BY DEF WorkIsQuiet
  <2>2. \A w \in Workers : (IsIndexing(w)' => AtWork(w)') /\ (worker'[w].phase = "FailJob" => AtWork(w)')
    BY DEF AtWork
  <2>3. \A w \in Workers : IsIndexing(w)' => IsIndexing(w)
    BY DEF WorkIsQuiet
  <2>4. \A w \in Workers : worker'[w].phase = "FailJob" /\ ~worker'[w].flag
          => \/ worker[w].phase = "FailJob" /\ ~worker[w].flag
             \/ IsIndexing(w) /\ job[worker[w].job].attempt < MaxAttempts
    BY DEF WorkIsQuiet
  <2>5. ~(job[v].attempt < MaxAttempts /\ job[v].attempt >= MaxAttempts)
    BY AccountTypes
  <2>6. Indexing(v)' \subseteq Indexing(v)
    BY <2>1, <2>2, <2>3 DEF Indexing
  <2>7. Failing(v)' \subseteq Failing(v) \cup Indexing(v)
    BY <2>1, <2>2, <2>4 DEF Indexing, Failing
  <2>8. job'[v].attempt >= MaxAttempts => Failing(v)' \subseteq Failing(v)
    BY <1>1, <2>1, <2>2, <2>4, <2>5 DEF Failing
  <2> QED BY <2>6, <2>7, <2>8
<1>3. Retrying(v)' \subseteq Retrying(v) /\ (UploadIsOpen(v)' => UploadIsOpen(v))
  BY DEF NamesAreQuiet, Retrying, UploadIsOpen, Enqueues
<1>4. CASE Owed < Owed'
  <2>1. Tickets(v)' \subseteq Tickets(v) \cup {RowTicket}
    BY <1>2, <1>3 DEF Tickets, Kept
  <2>2. job'[v].attempt >= MaxAttempts => Kept(v)' \subseteq Kept(v) \cup {RowTicket}
    BY <1>2, <1>3 DEF Kept
  <2> QED BY <1>1, <1>4, <2>1, <2>2, TicketPaid
<1>5. CASE /\ ~(spent.faults < spent'.faults)
           /\ \A r \in Requests : request[r].phase = "Enqueue" => request'[r] = request[r]
  <2>1. UploadIsOpen(v)' <=> UploadIsOpen(v)
    BY <1>3, <1>5 DEF UploadIsOpen, Enqueues
  <2>2. OnlyUploaded(v) => OnlyUploaded(v)'
    <3>1. \A r \in Requests : Enqueues(r, v)' => request'[r] = request[r]
      BY DEF NamesAreQuiet, Enqueues
    <3> QED BY <3>1 DEF OnlyUploaded, NamesAreQuiet, RowsAreQuiet, Enqueues
  <2>3. RowIsOpen(v)' => RowIsOpen(v)
    <3>1. job'[v].status \in {"QUEUED", "FAILED"} => RowIsOpen(v)
      BY DEF RowsAreQuiet, RowIsOpen
    <3>2. ASSUME job'[v].status = "PROCESSING", job'[v].stale PROVE RowIsOpen(v)
      BY <3>2 DEF RowsAreQuiet, RowIsOpen
    <3>3. ASSUME job'[v].status = "PROCESSING", \A w \in Workers : AtWork(w)' => worker'[w].job # v
          PROVE  RowIsOpen(v)
      <4>1. job[v].status = "PROCESSING"
        BY <3>3 DEF RowsAreQuiet
      <4>2. \A w \in Workers : AtWork(w) => worker[w].job # v
        BY <1>5, <3>3 DEF WorkIsQuiet
      <4> QED BY <4>1, <4>2 DEF RowIsOpen
    <3> QED BY <3>1, <3>2, <3>3 DEF RowIsOpen
  <2>4. Tickets(v)' \subseteq Tickets(v)
    BY <1>2, <1>3, <2>1, <2>2, <2>3 DEF Tickets, Kept
  <2>5. job'[v].attempt >= MaxAttempts => Kept(v)' \subseteq Kept(v)
    BY <1>2, <1>3, <2>1, <2>2, <2>3 DEF Kept
  <2> QED BY <1>1, <2>4, <2>5, FewerTickets
<1> QED BY <1>4, <1>5

\* A step on another version.
LEMMA UntouchedIsAccounted ==
  ASSUME TypeOK, TypeOK', NEW v \in Versions, Accounted(v), Owed <= Owed', job'[v] = job[v],
         Unnamed(v) => Unnamed(v)',
         \A r \in Requests : request'[r] = request[r] \/ (~Requeues(r, v) /\ ~Requeues(r, v)'),
         \A w \in Workers : worker'[w] = worker[w] \/ (~Handles(w, v) /\ ~Handles(w, v)')
  PROVE  Accounted(v)'
<1>1. Retrying(v)' = Retrying(v)
  BY DEF Retrying, Requeues
<1>2. \A r \in Requests : /\ Enqueues(r, v)' <=> Enqueues(r, v)
                          /\ Enqueues(r, v) => request'[r] = request[r]
  BY DEF Enqueues, Requeues
<1>3. Indexing(v)' = Indexing(v) /\ Failing(v)' = Failing(v)
  BY DEF Indexing, Failing, Handles, IsIndexing
<1>4. UploadIsOpen(v)' <=> UploadIsOpen(v)
  BY <1>2 DEF UploadIsOpen
<1>5. OnlyUploaded(v) => OnlyUploaded(v)'
  BY <1>2 DEF OnlyUploaded
<1>6. RowIsOpen(v)' => RowIsOpen(v)
  <2>1. \A w \in Workers : AtWork(w) /\ worker[w].job = v => AtWork(w)' /\ worker'[w].job = v
    BY DEF AtWork, IsIndexing, Handles
  <2> QED BY <2>1 DEF RowIsOpen
<1>7. Kept(v)' \subseteq Kept(v)
  BY <1>1, <1>3, <1>4, <1>5, <1>6 DEF Kept
<1>8. Tickets(v)' \subseteq Tickets(v)
  BY <1>3, <1>7 DEF Tickets
<1> QED BY <1>7, <1>8, FewerTickets

\* No job is named before its upload, and one upload names it.
LEMMA NamesAreKept ==
  ASSUME AttemptsInv,
         \A v \in Versions : ~Uploaded(v)' => ~Uploaded(v) /\ (Unnamed(v) => Unnamed(v)'),
         \A v \in Versions : \A r \in Requests : Requeues(r, v)' /\ ~Uploaded(v)' => Requeues(r, v),
         \A r \in Requests : request'[r].phase = "RetryWrite" => request'[r].kind # "upload",
         \A v \in Versions : \A r \in Requests :
           Enqueues(r, v)' /\ request'[r].kind = "upload"
             => Enqueues(r, v) /\ request[r].kind = "upload"
  PROVE  AbsentIsUnnamed' /\ UploadsAreDistinct'
<1>1. AbsentIsUnnamed'
  BY DEF AttemptsInv, AbsentIsUnnamed
<1>2. UploadsAreDistinct'
  BY DEF AttemptsInv, UploadsAreDistinct
<1> QED BY <1>1, <1>2

LEMMA QuietIsKept ==
  ASSUME TypeOK, TypeOK', AttemptsInv, RowsAreQuiet, NamesAreQuiet, WorkIsQuiet,
         Owed <= Owed',
         \/ Owed < Owed'
         \/ /\ ~(spent.faults < spent'.faults)
            /\ \A r \in Requests : request[r].phase = "Enqueue" => request'[r] = request[r]
  PROVE  AttemptsInv'
<1>1. \A v \in Versions : ~Uploaded(v)' => ~Uploaded(v) /\ (Unnamed(v) => Unnamed(v)')
  BY DEF Uploaded, RowsAreQuiet, NamesAreQuiet
<1>2. \A r \in Requests : request'[r].phase \in {"RetryWrite", "Enqueue"} => request'[r] = request[r]
  BY DEF NamesAreQuiet
<1>3. \A v \in Versions : \A r \in Requests : Requeues(r, v)' => Requeues(r, v)
  BY <1>2 DEF Requeues
<1>4. \A r \in Requests : request'[r].phase = "RetryWrite" => request'[r].kind # "upload"
  BY <1>2 DEF AttemptsInv, UploadsAreDistinct
<1>5. \A v \in Versions : \A r \in Requests :
        Enqueues(r, v)' /\ request'[r].kind = "upload"
          => Enqueues(r, v) /\ request[r].kind = "upload"
  BY <1>2 DEF Enqueues
<1>6. AbsentIsUnnamed' /\ UploadsAreDistinct'
  BY <1>1, <1>3, <1>4, <1>5, NamesAreKept
<1>7. \A v \in Versions : Accounted(v)'
  BY QuietIsAccounted DEF AttemptsInv
<1> QED BY <1>6, <1>7 DEF AttemptsInv

LEMMA OwedGrows ==
  ASSUME TypeOK, TypeOK', [Next]_vars
  PROVE  Owed <= Owed' /\ (spent.faults < spent'.faults => Owed < Owed')
<1>1. /\ spent.retries \in Nat /\ spent.faults \in Nat /\ spent.lapses \in Nat
      /\ spent'.retries \in Nat /\ spent'.faults \in Nat /\ spent'.lapses \in Nat
  BY IndexAssumption DEF TypeOK
<1> QED BY <1>1, SpentGrows DEF Owed

LEMMA PaidFor ==
  ASSUME TypeOK
  PROVE  (CountRetry => Owed < Owed') /\ (CountFault => Owed < Owed') /\ (CountLapse => Owed < Owed')
<1>1. spent.retries \in Nat /\ spent.faults \in Nat /\ spent.lapses \in Nat
  BY IndexAssumption DEF TypeOK
<1>2. CountRetry => Owed < Owed'
  BY <1>1 DEF CountRetry, Owed, TypeOK
<1>3. CountFault => Owed < Owed'
  BY <1>1 DEF CountFault, Owed, TypeOK
<1>4. CountLapse => Owed < Owed'
  BY <1>1 DEF CountLapse, Owed, TypeOK
<1> QED BY <1>2, <1>3, <1>4

\* A new job has one ticket, which its upload and its row share.
LEMMA UploadIsCounted ==
  ASSUME TypeOK, TypeOK', AttemptsInv, Owed <= Owed', NEW r \in Requests, upload(r)
  PROVE  AttemptsInv'
<1>1. PICK v \in Versions :
        /\ ~Uploaded(v) /\ job' = SetJob(v, "QUEUED")
        /\ request' = [request EXCEPT ![r] = [phase |-> "Enqueue", kind |-> "upload", job |-> v]]
  BY DEF upload
<1>2. job'[v] = [job[v] EXCEPT !.status = "QUEUED", !.stale = FALSE]
      /\ \A u \in Versions : u # v => job'[u] = job[u]
  BY <1>1 DEF SetJob, SetJobs
<1>3. job'[v].status = "QUEUED" /\ ~job'[v].stale /\ job'[v].attempt = job[v].attempt
  BY <1>2 DEF TypeOK
<1>4. /\ request'[r].phase = "Enqueue" /\ request'[r].kind = "upload" /\ request'[r].job = v
      /\ \A q \in Requests : q # r => request'[q] = request[q]
  BY <1>1 DEF TypeOK
<1>5. Unnamed(v) /\ \A q \in Requests : ~Requeues(q, v)
  BY <1>1 DEF AttemptsInv, AbsentIsUnnamed
<1>6. worker' = worker /\ queue' = queue /\ recovery' = recovery /\ request[r].phase = "Idle"
  BY DEF upload
<1>7. \A u \in Versions : Unnamed(u) => Unnamed(u)'
  BY <1>2, <1>3, <1>6 DEF Unnamed, Handles
<1>8. \A q \in Requests : q # r => ~Requeues(q, v)'
  BY <1>4, <1>5 DEF Requeues
<1>9. AbsentIsUnnamed'
  <2>1. \A u \in Versions : ~Uploaded(u)' => u # v /\ ~Uploaded(u)
    BY <1>2, <1>3 DEF Uploaded
  <2>2. \A u \in Versions : \A q \in Requests : u # v /\ Requeues(q, u)' => Requeues(q, u)
    BY <1>4 DEF Requeues
  <2> QED BY <1>7, <2>1, <2>2 DEF AttemptsInv, AbsentIsUnnamed
<1>10. UploadsAreDistinct'
  <2>1. \A q \in Requests : request'[q].phase = "RetryWrite" => request'[q].kind # "upload"
    BY <1>4 DEF AttemptsInv, UploadsAreDistinct
  <2>2. ASSUME NEW u \in Versions, NEW p \in Requests, NEW q \in Requests,
               Enqueues(p, u)', request'[p].kind = "upload",
               Enqueues(q, u)', request'[q].kind = "upload"
        PROVE  p = q
    <3>1. CASE u = v
      BY <1>8, <2>2, <3>1 DEF Enqueues, Requeues
    <3>2. CASE u # v
      BY <1>4, <2>2, <3>2 DEF Enqueues, AttemptsInv, UploadsAreDistinct
    <3> QED BY <3>1, <3>2
  <2> QED BY <2>1, <2>2 DEF UploadsAreDistinct
<1>11. Accounted(v)'
  <2>1. Indexing(v)' = {} /\ Failing(v)' = {}
    BY <1>5, <1>6 DEF Unnamed, Handles, Indexing, Failing, IsIndexing
  <2>2. Retrying(v)' = {}
    BY <1>4, <1>8 DEF Retrying, Requeues
  <2>3. OnlyUploaded(v)'
    <3>1. \A q \in Requests : Enqueues(q, v)' => request'[q].kind = "upload"
      BY <1>4, <1>8 DEF Enqueues, Requeues
    <3> QED BY <1>3, <1>5, <1>7, <3>1 DEF OnlyUploaded
  <2>4. UploadIsOpen(v)'
    BY <1>4 DEF UploadIsOpen, Enqueues
  <2>5. Tickets(v)' \subseteq {UploadTicket}
    BY <2>1, <2>2, <2>3, <2>4 DEF Tickets, Kept
  <2>6. Cardinality(Tickets(v)') <= 1 /\ Cardinality(Tickets(v)') \in Nat
    <3>1. IsFiniteSet({UploadTicket}) /\ Cardinality({UploadTicket}) = 1
      BY FS_Singleton
    <3>2. /\ Cardinality(Tickets(v)') \in Nat
          /\ Cardinality(Tickets(v)') <= Cardinality({UploadTicket})
      BY <2>5, <3>1, FewerCount
    <3> QED BY <3>1, <3>2
  <2>7. job'[v].attempt = 0
    BY <1>3, <1>5 DEF Unnamed
  <2> QED BY <2>6, <2>7, AccountTypes, AccountTypesNext DEF Accounted
<1>12. ASSUME NEW u \in Versions, u # v PROVE Accounted(u)'
  <2>1. \A q \in Requests : request'[q] = request[q] \/ (~Requeues(q, u) /\ ~Requeues(q, u)')
    BY <1>4, <1>6, <1>12 DEF Requeues
  <2> QED BY <1>2, <1>6, <1>7, <1>12, <2>1, UntouchedIsAccounted DEF AttemptsInv
<1> QED BY <1>9, <1>10, <1>11, <1>12 DEF AttemptsInv

\* A retry pays for what it will write when it reads.
LEMMA RetryReadIsCounted ==
  ASSUME TypeOK, TypeOK', AttemptsInv, NEW r \in Requests, NEW v \in Versions, retryRead(r, v)
  PROVE  AttemptsInv'
<1>1. PICK kind \in {"retryIndexJob", "retryDocumentIndex"} :
        /\ Retriable(kind, v) /\ CountRetry
        /\ request[r].phase = "Idle"
        /\ request' = [request EXCEPT ![r] = [phase |-> "RetryWrite", kind |-> kind, job |-> v]]
  BY DEF retryRead, requestRead
<1>2. job' = job /\ worker' = worker /\ queue' = queue /\ recovery' = recovery
  BY DEF retryRead, requestRead, rows
<1>3. /\ request'[r].phase = "RetryWrite" /\ request'[r].kind # "upload" /\ request'[r].job = v
      /\ \A q \in Requests : q # r => request'[q] = request[q]
  BY <1>1 DEF TypeOK
<1>4. Uploaded(v)
  BY <1>1 DEF Retriable, Uploaded
<1>5. \A q \in Requests : \A u \in Versions :
        /\ Enqueues(q, u)' <=> Enqueues(q, u)
        /\ Enqueues(q, u) => request'[q] = request[q]
  BY <1>1, <1>3 DEF Enqueues
<1>6. \A u \in Versions : Unnamed(u)' <=> Unnamed(u)
  BY <1>2 DEF Unnamed, Handles
<1>7. AbsentIsUnnamed' /\ UploadsAreDistinct'
  <2>1. \A u \in Versions : ~Uploaded(u)' => ~Uploaded(u) /\ u # v
    BY <1>2, <1>4 DEF Uploaded
  <2>2. \A u \in Versions : \A q \in Requests : Requeues(q, u)' /\ ~Uploaded(u)' => Requeues(q, u)
    BY <1>3, <2>1 DEF Requeues
  <2>3. \A q \in Requests : request'[q].phase = "RetryWrite" => request'[q].kind # "upload"
    BY <1>3 DEF AttemptsInv, UploadsAreDistinct
  <2> QED BY <1>5, <1>6, <2>1, <2>2, <2>3, NamesAreKept
<1>8. ASSUME NEW u \in Versions PROVE Accounted(u)'
  <2>1. Indexing(u)' = Indexing(u) /\ Failing(u)' = Failing(u)
    BY <1>2 DEF Indexing, Failing, IsIndexing
  <2>2. Retrying(u)' \subseteq Retrying(u) \cup {r}
    BY <1>3 DEF Retrying
  <2>3. UploadIsOpen(u)' <=> UploadIsOpen(u)
    BY <1>5 DEF UploadIsOpen
  <2>4. OnlyUploaded(u)' <=> OnlyUploaded(u)
    BY <1>2, <1>5, <1>6 DEF OnlyUploaded
  <2>5. RowIsOpen(u)' <=> RowIsOpen(u)
    BY <1>2 DEF RowIsOpen, AtWork, IsIndexing
  <2>6. Kept(u)' \subseteq Kept(u) \cup {<<"retry", r>>}
    BY <2>1, <2>2, <2>3, <2>4, <2>5 DEF Kept
  <2>7. Tickets(u)' \subseteq Tickets(u) \cup {<<"retry", r>>}
    BY <2>1, <2>6 DEF Tickets
  <2> QED BY <1>1, <1>2, <2>6, <2>7, PaidFor, TicketPaid DEF AttemptsInv
<1> QED BY <1>7, <1>8 DEF AttemptsInv

\* The retry's ticket becomes the row's, and the attempts begin anew.
LEMMA RetryWriteIsCounted ==
  ASSUME TypeOK, TypeOK', AttemptsInv, Owed <= Owed', NEW r \in Requests, retryWrite(r)
  PROVE  AttemptsInv'
<1> DEFINE fresh == [status |-> "QUEUED", attempt |-> 0, stale |-> FALSE]
<1>1. PICK v \in Versions : v = request[r].job /\ request[r].phase = "RetryWrite"
  BY DEF retryWrite, TypeOK
<1>2. job'[v] = fresh /\ \A u \in Versions : u # v => job'[u] = job[u]
  BY <1>1 DEF retryWrite, TypeOK
<1>3. job'[v].status = "QUEUED" /\ job'[v].attempt = 0 /\ ~job'[v].stale
  BY <1>2
<1>4. /\ request'[r].phase = "Enqueue" /\ request'[r].kind = request[r].kind
      /\ request'[r].job = v
      /\ \A q \in Requests : q # r => request'[q] = request[q]
  BY <1>1 DEF retryWrite, TypeOK
<1>5. worker' = worker /\ queue' = queue /\ recovery' = recovery
  BY DEF retryWrite
<1> HIDE DEF fresh
<1>6. request[r].kind # "upload"
  BY <1>1 DEF AttemptsInv, UploadsAreDistinct
<1>7. Requeues(r, v) /\ Uploaded(v)
  <2>1. Requeues(r, v)
    BY <1>1 DEF Requeues
  <2> QED BY <1>1, <2>1 DEF AttemptsInv, AbsentIsUnnamed
<1>8. \A u \in Versions : u # v /\ Unnamed(u) => Unnamed(u)'
  BY <1>2, <1>5 DEF Unnamed, Handles
<1>9. AbsentIsUnnamed' /\ UploadsAreDistinct'
  <2>1. \A u \in Versions : ~Uploaded(u)' => ~Uploaded(u) /\ u # v
    BY <1>2, <1>3, <1>7 DEF Uploaded
  <2>2. \A u \in Versions : \A q \in Requests : Requeues(q, u)' /\ ~Uploaded(u)' => Requeues(q, u)
    BY <1>4, <2>1 DEF Requeues
  <2>3. \A q \in Requests : request'[q].phase = "RetryWrite" => request'[q].kind # "upload"
    BY <1>4 DEF AttemptsInv, UploadsAreDistinct
  <2>4. \A u \in Versions : \A q \in Requests :
          Enqueues(q, u)' /\ request'[q].kind = "upload"
            => Enqueues(q, u) /\ request[q].kind = "upload"
    BY <1>4, <1>6 DEF Enqueues
  <2> QED BY <1>8, <2>1, <2>2, <2>3, <2>4, NamesAreKept
<1>10. Accounted(v)'
  <2>1. Indexing(v)' = Indexing(v) /\ Failing(v)' = Failing(v)
    BY <1>5 DEF Indexing, Failing, IsIndexing
  <2>2. Retrying(v)' = Retrying(v) \ {r} /\ r \in Retrying(v)
    BY <1>1, <1>4 DEF Retrying
  <2>3. UploadIsOpen(v)' <=> UploadIsOpen(v)
    BY <1>1, <1>4, <1>6 DEF UploadIsOpen, Enqueues
  <2>4. <<"retry", r>> \in Kept(v)
    BY <2>2 DEF Kept
  <2>5. Tickets(v)' \subseteq (Tickets(v) \ {<<"retry", r>>}) \cup {RowTicket}
    BY <2>1, <2>2, <2>3 DEF Tickets, Kept, UploadTicket
  <2>6. ~(job'[v].attempt >= MaxAttempts)
    BY <1>3, AccountTypes
  <2> QED BY <1>1, <2>4, <2>5, <2>6, TicketExchanged DEF AttemptsInv
<1>11. ASSUME NEW u \in Versions, u # v PROVE Accounted(u)'
  <2>1. \A q \in Requests : request'[q] = request[q] \/ (~Requeues(q, u) /\ ~Requeues(q, u)')
    BY <1>1, <1>4, <1>11 DEF Requeues
  <2> QED BY <1>2, <1>5, <1>8, <1>11, <2>1, UntouchedIsAccounted DEF AttemptsInv
<1> QED BY <1>9, <1>10, <1>11 DEF AttemptsInv

\* An upload that enqueues leaves its ticket to the row.
LEMMA EnqueueIsCounted ==
  ASSUME TypeOK, TypeOK', AttemptsInv, Owed <= Owed', NEW r \in Requests,
         enqueueDocumentIndexJob(r)
  PROVE  AttemptsInv'
<1>1. PICK v \in Versions : v = request[r].job /\ request[r].phase = "Enqueue"
  BY DEF enqueueDocumentIndexJob, TypeOK
<1>2. /\ request'[r].phase = "Idle"
      /\ \A q \in Requests : q # r => request'[q] = request[q]
  BY DEF enqueueDocumentIndexJob, RequestDone, IdleRequest, TypeOK
<1>3. job' = job /\ worker' = worker /\ recovery' = recovery
  BY DEF enqueueDocumentIndexJob, rows
<1>4. \A u \in Versions : u # v => queue'[u] = queue[u]
  BY <1>1 DEF enqueueDocumentIndexJob, Added, TypeOK
<1>5. \A u \in Versions : u # v /\ Unnamed(u) => Unnamed(u)'
  BY <1>3, <1>4 DEF Unnamed, Handles
<1>6. Requeues(r, v) /\ Enqueues(r, v) /\ Uploaded(v)
  <2>1. Requeues(r, v) /\ Enqueues(r, v)
    BY <1>1 DEF Requeues, Enqueues
  <2> QED BY <2>1 DEF AttemptsInv, AbsentIsUnnamed
<1>7. AbsentIsUnnamed' /\ UploadsAreDistinct'
  <2>1. \A u \in Versions : ~Uploaded(u)' => ~Uploaded(u) /\ u # v
    BY <1>3, <1>6 DEF Uploaded
  <2>2. \A u \in Versions : \A q \in Requests : Requeues(q, u)' => Requeues(q, u)
    BY <1>2 DEF Requeues
  <2>3. \A q \in Requests : request'[q].phase = "RetryWrite" => request'[q].kind # "upload"
    BY <1>2 DEF AttemptsInv, UploadsAreDistinct
  <2>4. \A u \in Versions : \A q \in Requests :
          Enqueues(q, u)' /\ request'[q].kind = "upload"
            => Enqueues(q, u) /\ request[q].kind = "upload"
    BY <1>2 DEF Enqueues
  <2> QED BY <1>5, <2>1, <2>2, <2>3, <2>4, NamesAreKept
<1>8. Accounted(v)'
  <2>1. Indexing(v)' = Indexing(v) /\ Failing(v)' = Failing(v)
    BY <1>3 DEF Indexing, Failing, IsIndexing
  <2>2. Retrying(v)' \subseteq Retrying(v)
    BY <1>2 DEF Retrying
  <2>3. RowIsOpen(v)' <=> RowIsOpen(v)
    BY <1>3 DEF RowIsOpen, AtWork, IsIndexing
  <2>4. CASE request[r].kind = "upload"
    <3>1. UploadIsOpen(v)
      BY <1>6, <2>4 DEF UploadIsOpen
    <3>2. ~UploadIsOpen(v)'
      BY <1>2, <1>6, <2>4 DEF UploadIsOpen, Enqueues, AttemptsInv, UploadsAreDistinct
    <3>3. UploadTicket \in Kept(v)
      BY <3>1 DEF Kept
    <3>4. Kept(v)' \subseteq (Kept(v) \ {UploadTicket}) \cup {RowTicket}
      BY <2>1, <2>2, <3>2 DEF Kept, UploadTicket
    <3>5. Tickets(v)' \subseteq (Tickets(v) \ {UploadTicket}) \cup {RowTicket}
      BY <2>1, <3>4 DEF Tickets, UploadTicket
    <3> QED BY <1>3, <3>3, <3>4, <3>5, TicketExchanged DEF AttemptsInv
  <2>5. CASE request[r].kind # "upload"
    <3>1. UploadIsOpen(v)' <=> UploadIsOpen(v)
      BY <1>2, <2>5 DEF UploadIsOpen, Enqueues
    <3>2. ~OnlyUploaded(v)
      BY <1>6, <2>5 DEF OnlyUploaded
    <3>3. Kept(v)' \subseteq Kept(v)
      BY <2>1, <2>2, <2>3, <3>1, <3>2 DEF Kept
    <3>4. Tickets(v)' \subseteq Tickets(v)
      BY <2>1, <3>3 DEF Tickets
    <3> QED BY <1>3, <3>3, <3>4, FewerTickets DEF AttemptsInv
  <2> QED BY <2>4, <2>5
<1>9. ASSUME NEW u \in Versions, u # v PROVE Accounted(u)'
  <2>1. \A q \in Requests : request'[q] = request[q] \/ (~Requeues(q, u) /\ ~Requeues(q, u)')
    BY <1>1, <1>2, <1>9 DEF Requeues
  <2> QED BY <1>3, <1>5, <1>9, <2>1, UntouchedIsAccounted DEF AttemptsInv
<1> QED BY <1>7, <1>8, <1>9 DEF AttemptsInv

\* So does an upload that cannot enqueue; a retry that cannot closes the row or leaves it.
LEMMA EnqueueFailsIsCounted ==
  ASSUME TypeOK, TypeOK', AttemptsInv, Owed <= Owed', NEW r \in Requests, enqueueFails(r)
  PROVE  AttemptsInv'
<1>1. PICK v \in Versions : v = request[r].job /\ request[r].phase = "Enqueue"
  BY DEF enqueueFails, TypeOK
<1>2. /\ request'[r].phase = "Idle"
      /\ \A q \in Requests : q # r => request'[q] = request[q]
  BY DEF enqueueFails, RequestDone, IdleRequest, TypeOK
<1>3. queue' = queue /\ worker' = worker /\ recovery' = recovery
  BY DEF enqueueFails
<1>4. \/ job' = SetJobs({v}, "FAILED") /\ request[r].kind = "upload"
      \/ job' = SetJobs({v}, "DEAD_LETTER") /\ request[r].kind # "upload"
      \/ job' = job /\ request[r].kind # "upload"
  BY <1>1 DEF enqueueFails, SetJob
<1>5. /\ job'[v].attempt = job[v].attempt
      /\ \/ job'[v].status = "FAILED" /\ request[r].kind = "upload"
         \/ job'[v].status = "DEAD_LETTER" /\ request[r].kind # "upload"
         \/ job'[v] = job[v] /\ request[r].kind # "upload"
      /\ \A u \in Versions : u # v => job'[u] = job[u]
  <2>1. ASSUME NEW s \in {"FAILED", "DEAD_LETTER"}, job' = SetJobs({v}, s)
        PROVE  /\ job'[v].attempt = job[v].attempt /\ job'[v].status = s
               /\ \A u \in Versions : u # v => job'[u] = job[u]
    <3>1. /\ job'[v] = [job[v] EXCEPT !.status = s, !.stale = FALSE]
          /\ \A u \in Versions : u # v => job'[u] = job[u]
      BY <2>1 DEF SetJobs
    <3> QED BY <3>1 DEF TypeOK
  <2> QED BY <1>4, <2>1
<1>6. \A u \in Versions : u # v /\ Unnamed(u) => Unnamed(u)'
  BY <1>3, <1>5 DEF Unnamed, Handles
<1>7. Requeues(r, v) /\ Enqueues(r, v) /\ Uploaded(v)
  <2>1. Requeues(r, v) /\ Enqueues(r, v)
    BY <1>1 DEF Requeues, Enqueues
  <2> QED BY <2>1 DEF AttemptsInv, AbsentIsUnnamed
<1>8. AbsentIsUnnamed' /\ UploadsAreDistinct'
  <2>1. \A u \in Versions : ~Uploaded(u)' => ~Uploaded(u) /\ u # v
    BY <1>5, <1>7 DEF Uploaded
  <2>2. \A u \in Versions : \A q \in Requests : Requeues(q, u)' => Requeues(q, u)
    BY <1>2 DEF Requeues
  <2>3. \A q \in Requests : request'[q].phase = "RetryWrite" => request'[q].kind # "upload"
    BY <1>2 DEF AttemptsInv, UploadsAreDistinct
  <2>4. \A u \in Versions : \A q \in Requests :
          Enqueues(q, u)' /\ request'[q].kind = "upload"
            => Enqueues(q, u) /\ request[q].kind = "upload"
    BY <1>2 DEF Enqueues
  <2> QED BY <1>6, <2>1, <2>2, <2>3, <2>4, NamesAreKept
<1>9. Accounted(v)'
  <2>1. Indexing(v)' = Indexing(v) /\ Failing(v)' = Failing(v)
    BY <1>3 DEF Indexing, Failing, IsIndexing
  <2>2. Retrying(v)' \subseteq Retrying(v)
    BY <1>2 DEF Retrying
  <2>3. CASE request[r].kind = "upload"
    <3>1. UploadIsOpen(v)
      BY <1>7, <2>3 DEF UploadIsOpen
    <3>2. ~UploadIsOpen(v)'
      BY <1>2, <1>7, <2>3 DEF UploadIsOpen, Enqueues, AttemptsInv, UploadsAreDistinct
    <3>3. UploadTicket \in Kept(v)
      BY <3>1 DEF Kept
    <3>4. Kept(v)' \subseteq (Kept(v) \ {UploadTicket}) \cup {RowTicket}
      BY <2>1, <2>2, <3>2 DEF Kept, UploadTicket
    <3>5. Tickets(v)' \subseteq (Tickets(v) \ {UploadTicket}) \cup {RowTicket}
      BY <2>1, <3>4 DEF Tickets, UploadTicket
    <3> QED BY <1>5, <3>3, <3>4, <3>5, TicketExchanged DEF AttemptsInv
  <2>4. CASE request[r].kind # "upload"
    <3>1. UploadIsOpen(v)' <=> UploadIsOpen(v)
      BY <1>2, <2>4 DEF UploadIsOpen, Enqueues
    <3>2. ~OnlyUploaded(v)
      BY <1>7, <2>4 DEF OnlyUploaded
    <3>3. RowIsOpen(v)' => RowIsOpen(v)
      BY <1>3, <1>5, <2>4 DEF RowIsOpen, AtWork, IsIndexing
    <3>4. Kept(v)' \subseteq Kept(v)
      BY <2>1, <2>2, <3>1, <3>2, <3>3 DEF Kept
    <3>5. Tickets(v)' \subseteq Tickets(v)
      BY <2>1, <3>4 DEF Tickets
    <3> QED BY <1>5, <3>4, <3>5, FewerTickets DEF AttemptsInv
  <2> QED BY <2>3, <2>4
<1>10. ASSUME NEW u \in Versions, u # v PROVE Accounted(u)'
  <2>1. \A q \in Requests : request'[q] = request[q] \/ (~Requeues(q, u) /\ ~Requeues(q, u)')
    BY <1>1, <1>2, <1>10 DEF Requeues
  <2> QED BY <1>3, <1>5, <1>6, <1>10, <2>1, UntouchedIsAccounted DEF AttemptsInv
<1> QED BY <1>8, <1>9, <1>10 DEF AttemptsInv

\* A claim takes the row's ticket.  While attempts are left the worker holds it instead;
\* the claim that uses them up, and every later one, leaves one ticket fewer.
LEMMA ClaimIsCounted ==
  ASSUME TypeOK, TypeOK', AttemptsInv, Owed <= Owed', NEW w \in Workers, claim(w),
         Claimable(worker[w].job)
  PROVE  AttemptsInv'
<1>1. PICK v \in Versions : v = worker[w].job /\ worker[w].phase = "Claim"
  BY DEF claim, TypeOK
<1>2. /\ job' = [job EXCEPT ![v] = [status |-> "PROCESSING", attempt |-> job[v].attempt + 1,
                                    stale |-> FALSE]]
      /\ Goto(w, "Begin")
  BY <1>1 DEF claim, nextAttempt, TypeOK
<1>3. /\ job'[v].status = "PROCESSING" /\ job'[v].attempt = job[v].attempt + 1 /\ ~job'[v].stale
      /\ \A u \in Versions : u # v => job'[u] = job[u]
  BY <1>2 DEF TypeOK
<1>4. /\ worker'[w].phase = "Begin" /\ worker'[w].job = v
      /\ \A u \in Workers : u # w => worker'[u] = worker[u]
  BY <1>1, <1>2 DEF Goto, TypeOK
<1>5. request' = request /\ queue' = queue /\ recovery' = recovery
  BY DEF claim
<1>6. job[v].status \in {"QUEUED", "FAILED"}
  BY <1>1 DEF Claimable
<1>7. Handles(w, v) /\ ~Unnamed(v)
  BY <1>1 DEF Handles, Unnamed
<1>8. \A u \in Versions : Unnamed(u) => u # v /\ Unnamed(u)'
  BY <1>3, <1>4, <1>5, <1>7 DEF Unnamed, Handles
<1>9. AbsentIsUnnamed' /\ UploadsAreDistinct'
  <2>1. \A u \in Versions : ~Uploaded(u)' => ~Uploaded(u)
    BY <1>3 DEF Uploaded
  <2>2. \A u \in Versions : \A q \in Requests : Requeues(q, u)' => Requeues(q, u)
    BY <1>5 DEF Requeues
  <2>3. \A q \in Requests : request'[q].phase = "RetryWrite" => request'[q].kind # "upload"
    BY <1>5 DEF AttemptsInv, UploadsAreDistinct
  <2>4. \A u \in Versions : \A q \in Requests :
          Enqueues(q, u)' /\ request'[q].kind = "upload"
            => Enqueues(q, u) /\ request[q].kind = "upload"
    BY <1>5 DEF Enqueues
  <2> QED BY <1>8, <2>1, <2>2, <2>3, <2>4, NamesAreKept
<1>10. Accounted(v)'
  <2>1. Indexing(v)' = Indexing(v) \cup {w} /\ Failing(v)' = Failing(v) /\ w \notin Failing(v)
    BY <1>1, <1>4 DEF Indexing, Failing, IsIndexing
  <2>2. Retrying(v)' = Retrying(v) /\ (UploadIsOpen(v)' <=> UploadIsOpen(v))
    BY <1>5 DEF Retrying, UploadIsOpen, Enqueues
  <2>3. RowTicket \in Kept(v)
    BY <1>6, <1>7 DEF Kept, RowIsOpen, OnlyUploaded
  <2>4. ~RowIsOpen(v)'
    BY <1>3, <1>4 DEF RowIsOpen, AtWork, IsIndexing
  <2>5. Kept(v)' \subseteq Kept(v) \ {RowTicket}
    BY <2>1, <2>2, <2>4 DEF Kept, RowTicket, UploadTicket
  <2>6. Tickets(v)' \subseteq (Tickets(v) \ {RowTicket}) \cup {<<"worker", w>>}
    BY <2>1, <2>5 DEF Tickets, RowTicket
  <2>7. <<"worker", w>> \in Tickets(v)' /\ Kept(v)' \subseteq Tickets(v)' \ {<<"worker", w>>}
    <3>1. <<"worker", w>> \in Tickets(v)'
      BY <2>1 DEF Tickets
    <3>2. <<"worker", w>> \notin Kept(v)'
      BY <2>1 DEF Kept, RowTicket, UploadTicket
    <3> QED BY <3>1, <3>2 DEF Tickets
  <2>8. /\ Cardinality(Tickets(v)) \in Nat /\ Cardinality(Tickets(v)') \in Nat
        /\ Cardinality(Kept(v)) \in Nat /\ Cardinality(Kept(v)') \in Nat
    BY TicketsAreFinite, FS_CardinalityType
  <2>9. Cardinality(Tickets(v)') <= Cardinality(Tickets(v))
    <3>1. RowTicket \in Tickets(v)
      BY <2>3 DEF Tickets
    <3> QED BY <2>6, <3>1, TicketsAreFinite, ExchangeCount
  <2>10. Cardinality(Kept(v)') + 1 <= Cardinality(Kept(v))
    BY <2>3, <2>5, <2>8, TicketsAreFinite, OneFewerCount
  <2>11. Cardinality(Kept(v)') + 1 <= Cardinality(Tickets(v)')
    BY <2>7, <2>8, TicketsAreFinite, OneFewerCount
  <2>12. Cardinality(Tickets(v)') <= 1 + Owed'
    BY <2>8, <2>9, AccountTypes, AccountTypesNext DEF AttemptsInv, Accounted
  <2>13. ASSUME job'[v].attempt >= MaxAttempts
         PROVE  job'[v].attempt + Cardinality(Kept(v)') <= MaxAttempts + Owed'
    <3>1. CASE job[v].attempt >= MaxAttempts
      <4>1. job[v].attempt + Cardinality(Kept(v)) <= MaxAttempts + Owed
        BY <3>1 DEF AttemptsInv, Accounted
      <4> QED BY <1>3, <2>8, <2>10, <4>1, AccountTypes, AccountTypesNext
    <3>2. CASE ~(job[v].attempt >= MaxAttempts)
      BY <1>3, <2>8, <2>11, <2>12, <2>13, <3>2, AccountTypes, AccountTypesNext
    <3> QED BY <3>1, <3>2
  <2> QED BY <2>12, <2>13 DEF Accounted
<1>11. ASSUME NEW u \in Versions, u # v PROVE Accounted(u)'
  <2>1. \A x \in Workers : worker'[x] = worker[x] \/ (~Handles(x, u) /\ ~Handles(x, u)')
    BY <1>1, <1>4, <1>11 DEF Handles
  <2> QED BY <1>3, <1>5, <1>8, <1>11, <2>1, UntouchedIsAccounted DEF AttemptsInv
<1> QED BY <1>9, <1>10, <1>11 DEF AttemptsInv

\* The failure write turns the worker's ticket into the row's.
LEMMA FailJobIsCounted ==
  ASSUME TypeOK, TypeOK', AttemptsInv, Owed <= Owed', NEW w \in Workers, failJob(w)
  PROVE  AttemptsInv'
<1>1. PICK v \in Versions : v = worker[w].job /\ worker[w].phase = "FailJob"
  BY DEF failJob, TypeOK
<1> DEFINE s == IF worker[w].flag THEN "DEAD_LETTER" ELSE "FAILED"
<1>2. job'[v] = [job[v] EXCEPT !.status = s, !.stale = FALSE]
      /\ \A u \in Versions : u # v => job'[u] = job[u]
  BY <1>1 DEF failJob, SetJob, SetJobs
<1>3. job'[v].status = s /\ job'[v].attempt = job[v].attempt
  BY <1>2 DEF TypeOK
<1>4. /\ worker'[w].phase = "FailVersion" /\ worker'[w].job = v
      /\ \A u \in Workers : u # w => worker'[u] = worker[u]
  BY <1>1 DEF failJob, Goto, TypeOK
<1>5. request' = request /\ queue' = queue /\ recovery' = recovery
  BY DEF failJob
<1>6. s # "ABSENT" /\ (worker[w].flag => s = "DEAD_LETTER")
  OBVIOUS
<1> HIDE DEF s
<1>7. Handles(w, v) /\ ~Unnamed(v)
  BY <1>1 DEF Handles, Unnamed
<1>8. \A u \in Versions : Unnamed(u) => u # v /\ Unnamed(u)'
  BY <1>1, <1>2, <1>4, <1>5, <1>7 DEF Unnamed, Handles
<1>9. AbsentIsUnnamed' /\ UploadsAreDistinct'
  <2>1. \A u \in Versions : ~Uploaded(u)' => ~Uploaded(u)
    BY <1>2, <1>3, <1>6 DEF Uploaded
  <2>2. \A u \in Versions : \A q \in Requests : Requeues(q, u)' => Requeues(q, u)
    BY <1>5 DEF Requeues
  <2>3. \A q \in Requests : request'[q].phase = "RetryWrite" => request'[q].kind # "upload"
    BY <1>5 DEF AttemptsInv, UploadsAreDistinct
  <2>4. \A u \in Versions : \A q \in Requests :
          Enqueues(q, u)' /\ request'[q].kind = "upload"
            => Enqueues(q, u) /\ request[q].kind = "upload"
    BY <1>5 DEF Enqueues
  <2> QED BY <1>8, <2>1, <2>2, <2>3, <2>4, NamesAreKept
<1>10. Accounted(v)'
  <2>1. Indexing(v)' = Indexing(v) /\ Failing(v)' = Failing(v) \ {w}
    BY <1>1, <1>4 DEF Indexing, Failing, IsIndexing
  <2>2. Retrying(v)' = Retrying(v) /\ (UploadIsOpen(v)' <=> UploadIsOpen(v))
    BY <1>5 DEF Retrying, UploadIsOpen, Enqueues
  <2>3. CASE worker[w].flag
    <3>1. ~RowIsOpen(v)'
      BY <1>3, <1>6, <2>3 DEF RowIsOpen
    <3>2. Kept(v)' \subseteq Kept(v)
      BY <2>1, <2>2, <3>1 DEF Kept
    <3>3. Tickets(v)' \subseteq Tickets(v)
      BY <2>1, <3>2 DEF Tickets
    <3> QED BY <1>3, <3>2, <3>3, FewerTickets DEF AttemptsInv
  <2>4. CASE ~worker[w].flag
    <3>1. w \in Failing(v) /\ w \notin Indexing(v)
      BY <1>1, <2>4 DEF Failing, Indexing, IsIndexing
    <3>2. <<"worker", w>> \in Kept(v)
      BY <3>1 DEF Kept
    <3>3. Kept(v)' \subseteq (Kept(v) \ {<<"worker", w>>}) \cup {RowTicket}
      BY <2>1, <2>2 DEF Kept, UploadTicket
    <3>4. Tickets(v)' \subseteq (Tickets(v) \ {<<"worker", w>>}) \cup {RowTicket}
      BY <2>1, <3>1, <3>3 DEF Tickets
    <3> QED BY <1>3, <3>2, <3>3, <3>4, TicketExchanged DEF AttemptsInv
  <2> QED BY <2>3, <2>4
<1>11. ASSUME NEW u \in Versions, u # v PROVE Accounted(u)'
  <2>1. \A x \in Workers : worker'[x] = worker[x] \/ (~Handles(x, u) /\ ~Handles(x, u)')
    BY <1>1, <1>4, <1>11 DEF Handles
  <2> QED BY <1>2, <1>5, <1>8, <1>11, <2>1, UntouchedIsAccounted DEF AttemptsInv
<1> QED BY <1>9, <1>10, <1>11 DEF AttemptsInv

\* An abandoned job that grows old could be claimed or recovered already; of one that is
\* attended to, the lapse pays for the row.
LEMMA AgesIsCounted ==
  ASSUME TypeOK, TypeOK', AttemptsInv, Owed <= Owed', NEW v \in Versions, ages(v)
  PROVE  AttemptsInv'
<1>1. job'[v] = [job[v] EXCEPT !.stale = TRUE]
      /\ \A u \in Versions : u # v => job'[u] = job[u]
  BY DEF ages, TypeOK
<1>2. job'[v].status = job[v].status /\ job'[v].attempt = job[v].attempt
  BY <1>1 DEF TypeOK
<1>3. request' = request /\ recovery' = recovery /\ queue' = queue /\ worker' = worker
  BY DEF ages
<1>4. \A u \in Versions : Unnamed(u) => Unnamed(u)'
  BY <1>1, <1>2, <1>3 DEF Unnamed, Handles
<1>5. AbsentIsUnnamed' /\ UploadsAreDistinct'
  <2>1. \A u \in Versions : ~Uploaded(u)' => ~Uploaded(u)
    BY <1>1, <1>2 DEF Uploaded
  <2>2. \A u \in Versions : \A q \in Requests : Requeues(q, u)' => Requeues(q, u)
    BY <1>3 DEF Requeues
  <2>3. \A q \in Requests : request'[q].phase = "RetryWrite" => request'[q].kind # "upload"
    BY <1>3 DEF AttemptsInv, UploadsAreDistinct
  <2>4. \A u \in Versions : \A q \in Requests :
          Enqueues(q, u)' /\ request'[q].kind = "upload"
            => Enqueues(q, u) /\ request[q].kind = "upload"
    BY <1>3 DEF Enqueues
  <2> QED BY <1>4, <2>1, <2>2, <2>3, <2>4, NamesAreKept
<1>6. Accounted(v)'
  <2>1. Indexing(v)' = Indexing(v) /\ Failing(v)' = Failing(v)
    BY <1>3 DEF Indexing, Failing, IsIndexing
  <2>2. Retrying(v)' = Retrying(v) /\ (UploadIsOpen(v)' <=> UploadIsOpen(v))
    BY <1>3 DEF Retrying, UploadIsOpen, Enqueues
  <2>3. Kept(v)' \subseteq Kept(v) \cup {RowTicket}
    BY <2>1, <2>2 DEF Kept
  <2>4. Tickets(v)' \subseteq Tickets(v) \cup {RowTicket}
    BY <2>1, <2>3 DEF Tickets
  <2>5. CASE CountLapse
    BY <1>2, <2>3, <2>4, <2>5, PaidFor, TicketPaid DEF AttemptsInv
  <2>6. CASE ~Attended(v)
    <3>1. RowIsOpen(v)' => /\ RowIsOpen(v)
                           /\ \A r \in Requests : request[r].job # v
      BY <1>2, <1>3, <2>6 DEF RowIsOpen, Attended, AtWork, IsIndexing
    <3>2. RowIsOpen(v)' => RowIsOpen(v) /\ ~UploadIsOpen(v)
      BY <3>1 DEF UploadIsOpen, Enqueues
    <3>3. Kept(v)' \subseteq Kept(v)
      BY <2>1, <2>2, <3>2 DEF Kept
    <3>4. Tickets(v)' \subseteq Tickets(v)
      BY <2>1, <3>3 DEF Tickets
    <3> QED BY <1>2, <3>3, <3>4, FewerTickets DEF AttemptsInv
  <2> QED BY <2>5, <2>6 DEF ages
<1>7. ASSUME NEW u \in Versions, u # v PROVE Accounted(u)'
  BY <1>1, <1>3, <1>4, <1>7, UntouchedIsAccounted DEF AttemptsInv
<1> QED BY <1>5, <1>6, <1>7 DEF AttemptsInv

\* What recovery puts back had its ticket since it grew old.
LEMMA RecoverIsCounted ==
  ASSUME TypeOK, TypeOK', AttemptsInv, Owed <= Owed', recoverStale
  PROVE  AttemptsInv'
<1>1. PICK found \in SUBSET Versions :
        /\ \A v \in Versions : v \in found
             <=> job[v].stale /\ job[v].status \in {"QUEUED", "PROCESSING"}
        /\ job' = SetJobs(found, "QUEUED")
        /\ recovery'.jobs \subseteq found
  <2> DEFINE found == StaleIn(RecoveredStatuses)
  <2>1. found \subseteq Versions
    BY DEF StaleIn
  <2>2. \A v \in Versions : v \in found
          <=> job[v].stale /\ job[v].status \in {"QUEUED", "PROCESSING"}
    BY DEF StaleIn, RecoveredStatuses
  <2>3. job' = SetJobs(found, "QUEUED") /\ recovery'.jobs \subseteq found
    BY DEF recoverStale, IdleRecovery
  <2> HIDE DEF found
  <2> QED BY <2>1, <2>2, <2>3
<1>2. /\ \A v \in found : job'[v] = [job[v] EXCEPT !.status = "QUEUED", !.stale = FALSE]
      /\ \A v \in Versions : v \notin found => job'[v] = job[v]
  BY <1>1 DEF SetJobs
<1>3. ASSUME NEW v \in found
      PROVE  job'[v].status = "QUEUED" /\ job'[v].attempt = job[v].attempt /\ v \in Versions
  <2>1. job[v] \in [status: JobStatuses, attempt: Nat, stale: BOOLEAN]
    BY DEF TypeOK
  <2>2. job'[v] = [job[v] EXCEPT !.status = "QUEUED", !.stale = FALSE]
    BY <1>2
  <2> QED BY <2>1, <2>2
<1>4. request' = request /\ worker' = worker /\ queue' = queue
  BY DEF recoverStale
<1>5. \A v \in Versions : v \notin found /\ Unnamed(v) => Unnamed(v)'
  BY <1>1, <1>2, <1>4 DEF Unnamed, Handles
<1>6. AbsentIsUnnamed' /\ UploadsAreDistinct'
  <2>1. \A v \in Versions : ~Uploaded(v)' => ~Uploaded(v) /\ v \notin found
    BY <1>2, <1>3 DEF Uploaded
  <2>2. \A v \in Versions : \A q \in Requests : Requeues(q, v)' => Requeues(q, v)
    BY <1>4 DEF Requeues
  <2>3. \A q \in Requests : request'[q].phase = "RetryWrite" => request'[q].kind # "upload"
    BY <1>4 DEF AttemptsInv, UploadsAreDistinct
  <2>4. \A v \in Versions : \A q \in Requests :
          Enqueues(q, v)' /\ request'[q].kind = "upload"
            => Enqueues(q, v) /\ request[q].kind = "upload"
    BY <1>4 DEF Enqueues
  <2> QED BY <1>5, <2>1, <2>2, <2>3, <2>4, NamesAreKept
<1>7. ASSUME NEW v \in Versions, v \in found PROVE Accounted(v)'
  <2>1. Indexing(v)' = Indexing(v) /\ Failing(v)' = Failing(v)
    BY <1>4 DEF Indexing, Failing, IsIndexing
  <2>2. Retrying(v)' = Retrying(v) /\ (UploadIsOpen(v)' <=> UploadIsOpen(v))
    BY <1>4 DEF Retrying, UploadIsOpen, Enqueues
  <2>3. RowIsOpen(v) /\ ~OnlyUploaded(v)
    BY <1>1, <1>7 DEF RowIsOpen, OnlyUploaded
  <2>4. Kept(v)' \subseteq Kept(v)
    BY <2>1, <2>2, <2>3 DEF Kept
  <2>5. Tickets(v)' \subseteq Tickets(v)
    BY <2>1, <2>4 DEF Tickets
  <2> QED BY <1>3, <1>7, <2>4, <2>5, FewerTickets DEF AttemptsInv
<1>8. ASSUME NEW v \in Versions, v \notin found PROVE Accounted(v)'
  BY <1>2, <1>4, <1>5, <1>8, UntouchedIsAccounted DEF AttemptsInv
<1> QED BY <1>6, <1>7, <1>8 DEF AttemptsInv

LEMMA AttemptsInit == Init => AttemptsInv
<1> SUFFICES ASSUME Init PROVE AttemptsInv
  OBVIOUS
<1>1. \A v \in Versions : job[v].status = "ABSENT" /\ job[v].attempt = 0
  BY DEF Init
<1>2. \A w \in Workers : worker[w].phase = "Idle"
  BY DEF Init, IdleWorker
<1>3. \A r \in Requests : request[r].phase = "Idle"
  BY DEF Init, IdleRequest
<1>4. \A v \in Versions : Unnamed(v)
  BY <1>1, <1>2 DEF Init, Unnamed, Handles, IdleRecovery
<1>5. AbsentIsUnnamed /\ UploadsAreDistinct
  BY <1>3, <1>4 DEF AbsentIsUnnamed, UploadsAreDistinct, Requeues, Enqueues
<1>6. ASSUME NEW v \in Versions PROVE Accounted(v)
  <2>1. Indexing(v) = {} /\ Failing(v) = {}
    BY <1>2 DEF Indexing, Failing, IsIndexing
  <2>2. Retrying(v) = {} /\ ~UploadIsOpen(v)
    BY <1>3 DEF Retrying, UploadIsOpen, Enqueues
  <2>3. ~RowIsOpen(v)
    BY <1>1 DEF RowIsOpen
  <2>4. Tickets(v) = {}
    BY <2>1, <2>2, <2>3 DEF Tickets, Kept
  <2>5. Cardinality(Tickets(v)) = 0
    BY <2>4, FS_EmptySet
  <2> QED BY <1>1, <2>5, TypeInit, AccountTypes DEF Accounted
<1> QED BY <1>5, <1>6 DEF AttemptsInv

LEMMA AttemptsStep == TypeOK /\ AttemptsInv /\ [Next]_vars => AttemptsInv'
<1> SUFFICES ASSUME TypeOK, AttemptsInv, [Next]_vars
             PROVE  AttemptsInv'
  OBVIOUS
<1>1. TypeOK' /\ Owed <= Owed' /\ (spent.faults < spent'.faults => Owed < Owed')
  BY TypeStep, OwedGrows
<1>2. ASSUME RowsAreQuiet, NamesAreQuiet, WorkIsQuiet,
             \/ Owed < Owed'
             \/ \A r \in Requests : request[r].phase = "Enqueue" => request'[r] = request[r]
      PROVE  AttemptsInv'
  BY <1>1, <1>2, QuietIsKept
<1>3. ASSUME NEW r \in Requests, upload(r) \/ RequestStep(r) PROVE AttemptsInv'
  <2>1. CASE upload(r)
    BY <1>1, <2>1, UploadIsCounted
  <2>2. CASE retryWrite(r)
    BY <1>1, <2>2, RetryWriteIsCounted
  <2>3. CASE cancelWrite(r)
    <3>1. \A q \in Requests : request[q].phase = "Enqueue" => request'[q] = request[q]
      BY <2>3 DEF cancelWrite, RequestDone, TypeOK
    <3> QED BY <1>2, <2>3, <3>1, QuietOtherSteps
  <2>4. CASE enqueueDocumentIndexJob(r)
    BY <1>1, <2>4, EnqueueIsCounted
  <2>5. CASE enqueueFails(r)
    BY <1>1, <2>5, EnqueueFailsIsCounted
  <2> QED BY <1>3, <2>1, <2>2, <2>3, <2>4, <2>5 DEF RequestStep
<1>4. ASSUME NEW r \in Requests, requestDies(r) PROVE AttemptsInv'
  <2>1. Owed < Owed'
    BY <1>4, PaidFor DEF requestDies
  <2> QED BY <1>2, <1>4, <2>1, QuietOtherSteps
<1>5. ASSUME NEW r \in Requests, NEW v \in Versions, retryRead(r, v) \/ cancelRead(r, v)
      PROVE  AttemptsInv'
  <2>1. CASE retryRead(r, v)
    BY <1>1, <2>1, RetryReadIsCounted
  <2>2. CASE cancelRead(r, v)
    <3>1. \A q \in Requests : request[q].phase = "Enqueue" => request'[q] = request[q]
      BY <2>2 DEF cancelRead, requestRead, TypeOK
    <3> QED BY <1>2, <2>2, <3>1, QuietOtherSteps
  <2> QED BY <1>5, <2>1, <2>2
<1>6. ASSUME NEW w \in Workers,
             \/ WorkerStep(w) \/ heartbeat(w) \/ workerDies(w) \/ workerStalls(w)
             \/ \E v \in Versions : take(w, v)
      PROVE  AttemptsInv'
  <2>1. request' = request
    BY <1>6 DEF WorkerStep, claim, begin, checkCancellation, embedWave, store, commit, cancelJob,
                cancelVersion, fail, failJob, failVersion, failSource, heartbeat, workerDies,
                workerStalls, take
  <2>2. CASE claim(w)
    BY <1>1, <1>2, <2>1, <2>2, ClaimIsCounted, LostClaimQuiet
  <2>3. CASE failJob(w)
    BY <1>1, <2>3, FailJobIsCounted
  <2>4. ASSUME NEW v \in Versions, take(w, v) PROVE AttemptsInv'
    BY <1>2, <2>1, <2>4, TakeQuiet
  <2>5. CASE \/ begin(w) \/ checkCancellation(w)
             \/ \E next \in {"Wave", "Store"} : embedWave(w, next)
             \/ store(w) \/ commit(w) \/ cancelJob(w) \/ cancelVersion(w)
             \/ fail(w) \/ failVersion(w) \/ failSource(w)
             \/ heartbeat(w) \/ workerDies(w) \/ workerStalls(w)
    BY <1>2, <2>1, <2>5, QuietWorkerSteps
  <2> QED BY <1>6, <2>2, <2>3, <2>4, <2>5 DEF WorkerStep
<1>7. ASSUME NEW v \in Versions, ages(v) PROVE AttemptsInv'
  BY <1>1, <1>7, AgesIsCounted
<1>8. CASE recoverStale
  BY <1>1, <1>8, RecoverIsCounted
<1>9. CASE recoverCancelled \/ recoverVersions \/ recoverEnqueue \/ recoveryDies \/ UNCHANGED vars
  <2>1. request' = request
    BY <1>9 DEF recoverCancelled, recoverVersions, recoverEnqueue, recoveryDies, vars
  <2> QED BY <1>2, <1>9, <2>1, QuietOtherSteps
<1> QED BY <1>3, <1>4, <1>5, <1>6, <1>7, <1>8, <1>9 DEF Next, RecoveryStep

\* However many messages name a job and whatever dies, lapses or is retried, every
\* attempt beyond maxAttempts is owed to one of these.
THEOREM AttemptsStayBounded == Spec => []AttemptsAreBounded
<1>1. TypeOK /\ AttemptsInv => AttemptsAreBounded
  <2> SUFFICES ASSUME TypeOK, AttemptsInv, NEW v \in Versions
               PROVE  job[v].attempt <= MaxAttempts + Owed
    <3>1. TypeOK => /\ spent.retries \in Nat /\ spent.faults \in Nat /\ spent.lapses \in Nat
                    /\ MaxAttempts \in Nat
      BY IndexAssumption DEF TypeOK
    <3> QED BY <3>1 DEF AttemptsAreBounded, Owed
  <2>1. Cardinality(Kept(v)) \in Nat
    BY TicketsAreFinite, FS_CardinalityType
  <2>2. CASE job[v].attempt >= MaxAttempts
    <3>1. job[v].attempt + Cardinality(Kept(v)) <= MaxAttempts + Owed
      BY <2>2 DEF AttemptsInv, Accounted
    <3> QED BY <2>1, <3>1, AccountTypes
  <2>3. CASE ~(job[v].attempt >= MaxAttempts)
    BY <2>3, AccountTypes
  <2> QED BY <2>2, <2>3
<1> QED BY <1>1, TypeInit, TypeStep, AttemptsInit, AttemptsStep, PTL DEF Spec

-----------------------------------------------------------------------------
(* While nobody alive is taken for dead and no user retries a job, the     *)
(* claim of the job's row excludes: whoever puts a job back into the queue *)
(* knows that nobody is at work on it.  The upload request that writes     *)
(* FAILED when it cannot enqueue knows it because nothing else names the   *)
(* job yet; recovery because the heartbeat has stopped.                    *)

Steady == spent.lapses = 0 /\ spent.retries = 0

OnlyUploadsEnqueue ==
  \A r \in Requests : /\ request[r].phase # "RetryWrite"
                      /\ request[r].phase = "Enqueue" => request[r].kind = "upload"

EnqueuedIsUnnamed ==
  \A v \in Versions : \A r \in Requests : Enqueues(r, v) =>
    /\ Unnamed(v)
    /\ \A q \in Requests : Enqueues(q, v) => q = r
    /\ ~(job[v].stale /\ job[v].status \in {"QUEUED", "PROCESSING"})

WorkIsClaimed ==
  \A w \in Workers : AtWork(w) =>
    LET v == worker[w].job
    IN /\ job[v].status \notin {"QUEUED", "FAILED"}
       /\ ~(job[v].stale /\ job[v].status = "PROCESSING")
       /\ \A u \in Workers : AtWork(u) /\ worker[u].job = v => u = w

ExclusionInv ==
  /\ OnlyUploadsEnqueue
  /\ EnqueuedIsUnnamed
  /\ WorkIsClaimed

LEMMA ExclusionKept ==
  ASSUME TypeOK, TypeOK', ExclusionInv, RowsAreQuiet, NamesAreQuiet, WorkIsQuiet,
         spent.faults <= spent'.faults
  PROVE  ExclusionInv'
<1>0. spent'.faults \in Nat
  BY IndexAssumption DEF TypeOK
<1>1. OnlyUploadsEnqueue'
  BY DEF ExclusionInv, OnlyUploadsEnqueue, NamesAreQuiet
<1>2. \A v \in Versions : \A r \in Requests : Enqueues(r, v)' => Enqueues(r, v)
  BY DEF NamesAreQuiet, Enqueues
<1>4. EnqueuedIsUnnamed'
  BY <1>2 DEF ExclusionInv, EnqueuedIsUnnamed, RowsAreQuiet, NamesAreQuiet
<1>5. WorkIsClaimed'
  <2> SUFFICES ASSUME NEW w \in Workers, AtWork(w)'
               PROVE  LET v == worker'[w].job
                      IN /\ job'[v].status \notin {"QUEUED", "FAILED"}
                         /\ ~(job'[v].stale /\ job'[v].status = "PROCESSING")
                         /\ \A u \in Workers : AtWork(u)' /\ worker'[u].job = v => u = w
    BY DEF WorkIsClaimed
  <2>1. AtWork(w) /\ worker'[w].job = worker[w].job /\ worker[w].job \in Versions
    BY WorkTypes DEF WorkIsQuiet
  <2>2. \A u \in Workers : AtWork(u)' => AtWork(u) /\ worker'[u].job = worker[u].job
    BY DEF WorkIsQuiet
  <2> QED BY <2>1, <2>2 DEF ExclusionInv, WorkIsClaimed, RowsAreQuiet
<1> QED BY <1>1, <1>4, <1>5 DEF ExclusionInv

(* The steps that create, enqueue, claim, put back and age a job. *)

LEMMA UploadExcludes ==
  ASSUME TypeOK, ExclusionInv, AbsentIsUnnamed, NEW r \in Requests, upload(r)
  PROVE  ExclusionInv'
<1>1. PICK v \in Versions :
        /\ ~Uploaded(v) /\ job' = SetJob(v, "QUEUED")
        /\ request' = [request EXCEPT ![r] = [phase |-> "Enqueue", kind |-> "upload", job |-> v]]
  BY DEF upload
<1>2. job'[v] = [job[v] EXCEPT !.status = "QUEUED", !.stale = FALSE]
      /\ \A u \in Versions : u # v => job'[u] = job[u]
  BY <1>1 DEF SetJob, SetJobs
<1>3. job'[v].status = "QUEUED" /\ ~job'[v].stale /\ job'[v].attempt = job[v].attempt
  BY <1>2 DEF TypeOK
<1>4. /\ request'[r].phase = "Enqueue" /\ request'[r].kind = "upload" /\ request'[r].job = v
      /\ \A q \in Requests : q # r => request'[q] = request[q]
  BY <1>1 DEF TypeOK
<1>5. Unnamed(v) /\ \A q \in Requests : ~Enqueues(q, v)
  BY <1>1 DEF AbsentIsUnnamed, Requeues, Enqueues
<1>6. \A u \in Versions : Unnamed(u) => Unnamed(u)'
  BY <1>2, <1>3 DEF upload, Unnamed, Handles
<1>7. \A q \in Requests : \A u \in Versions :
        Enqueues(q, u)' <=> IF q = r THEN u = v ELSE Enqueues(q, u)
  BY <1>4 DEF Enqueues
<1>8. OnlyUploadsEnqueue'
  BY <1>4 DEF ExclusionInv, OnlyUploadsEnqueue
<1>10. EnqueuedIsUnnamed'
  <2> SUFFICES ASSUME NEW u \in Versions, NEW q \in Requests, Enqueues(q, u)'
               PROVE  /\ Unnamed(u)'
                      /\ \A p \in Requests : Enqueues(p, u)' => p = q
                      /\ ~(job'[u].stale /\ job'[u].status \in {"QUEUED", "PROCESSING"})
    BY DEF EnqueuedIsUnnamed
  <2>1. CASE u = v
    BY <1>3, <1>5, <1>6, <1>7, <2>1
  <2>2. CASE u # v
    BY <1>2, <1>6, <1>7, <2>2 DEF ExclusionInv, EnqueuedIsUnnamed
  <2> QED BY <2>1, <2>2
<1>11. \A w \in Workers : AtWork(w) => worker[w].job \in Versions /\ worker[w].job # v
  BY <1>5, WorkTypes DEF Unnamed
<1>12. \A w \in Workers : AtWork(w)' <=> AtWork(w)
  BY DEF upload, AtWork, IsIndexing
<1>13. worker' = worker /\ spent' = spent
  BY DEF upload
<1>14. WorkIsClaimed'
  BY <1>2, <1>11, <1>12, <1>13 DEF ExclusionInv, WorkIsClaimed
<1> QED BY <1>8, <1>10, <1>14 DEF ExclusionInv

LEMMA EnqueueExcludes ==
  ASSUME TypeOK, ExclusionInv, NEW r \in Requests, enqueueDocumentIndexJob(r)
  PROVE  ExclusionInv'
<1> DEFINE v == request[r].job
<1>1. v \in Versions /\ Enqueues(r, v)
  BY WorkTypes DEF enqueueDocumentIndexJob, Enqueues
<1>2. /\ request'[r].phase = "Idle"
      /\ \A q \in Requests : q # r => request'[q] = request[q]
  BY DEF enqueueDocumentIndexJob, RequestDone, IdleRequest, TypeOK
<1>3. \A u \in Versions : u # v => queue'[u] = queue[u]
  BY DEF enqueueDocumentIndexJob, Added, TypeOK
<1>4. job' = job /\ worker' = worker /\ recovery' = recovery /\ spent' = spent
  BY DEF enqueueDocumentIndexJob, rows
<1> HIDE DEF v
<1>5. \A u \in Versions : u # v /\ Unnamed(u) => Unnamed(u)'
  BY <1>3, <1>4 DEF Unnamed, Handles
<1>6. \A q \in Requests : \A u \in Versions : Enqueues(q, u)' => Enqueues(q, u) /\ u # v
  <2>1. \A q \in Requests : Enqueues(q, v) => q = r
    BY <1>1 DEF ExclusionInv, EnqueuedIsUnnamed
  <2> QED BY <1>2, <2>1 DEF Enqueues
<1>7. OnlyUploadsEnqueue'
  BY <1>2 DEF ExclusionInv, OnlyUploadsEnqueue
<1>9. EnqueuedIsUnnamed'
  BY <1>4, <1>5, <1>6 DEF ExclusionInv, EnqueuedIsUnnamed
<1>10. WorkIsClaimed'
  BY <1>4 DEF ExclusionInv, WorkIsClaimed, AtWork, IsIndexing
<1> QED BY <1>7, <1>9, <1>10 DEF ExclusionInv

\* The upload that cannot enqueue writes FAILED on a job that nothing else names.
LEMMA EnqueueFailsExcludes ==
  ASSUME TypeOK, TypeOK', ExclusionInv, NEW r \in Requests, enqueueFails(r)
  PROVE  ExclusionInv'
<1> DEFINE v == request[r].job
<1>1. v \in Versions /\ Enqueues(r, v) /\ request[r].kind = "upload"
  BY WorkTypes DEF enqueueFails, Enqueues, ExclusionInv, OnlyUploadsEnqueue
<1>2. job' = SetJobs({v}, "FAILED")
  BY <1>1 DEF enqueueFails, SetJob
<1>3. job'[v] = [job[v] EXCEPT !.status = "FAILED", !.stale = FALSE]
      /\ \A u \in Versions : u # v => job'[u] = job[u]
  BY <1>1, <1>2 DEF SetJobs
<1>4. job'[v].status = "FAILED" /\ ~job'[v].stale /\ job'[v].attempt = job[v].attempt
  BY <1>1, <1>3 DEF TypeOK
<1>5. /\ request'[r].phase = "Idle"
      /\ \A q \in Requests : q # r => request'[q] = request[q]
  BY DEF enqueueFails, RequestDone, IdleRequest, TypeOK
<1>6. worker' = worker /\ queue' = queue /\ recovery' = recovery
  BY DEF enqueueFails
<1>7. spent.faults <= spent'.faults /\ spent'.faults \in Nat
  <2>1. spent.faults \in Nat
    BY IndexAssumption DEF TypeOK
  <2>2. spent' = spent \/ spent' = [spent EXCEPT !.faults = spent.faults + 1]
    BY DEF enqueueFails, CountFault
  <2>3. spent \in [retries: 0..MaxRetries, cancels: 0..MaxCancels, faults: 0..MaxFaults,
                   lapses: 0..MaxLapses]
    BY DEF TypeOK
  <2>4. spent'.faults = spent.faults \/ spent'.faults = spent.faults + 1
    BY <2>2, <2>3
  <2> QED BY <2>1, <2>4
<1> HIDE DEF v
<1>8. \A u \in Versions : Unnamed(u) => Unnamed(u)'
  BY <1>1, <1>3, <1>4, <1>6 DEF Unnamed, Handles
<1>9. \A q \in Requests : \A u \in Versions : Enqueues(q, u)' => Enqueues(q, u) /\ u # v
  <2>1. \A q \in Requests : Enqueues(q, v) => q = r
    BY <1>1 DEF ExclusionInv, EnqueuedIsUnnamed
  <2> QED BY <1>5, <2>1 DEF Enqueues
<1>10. OnlyUploadsEnqueue'
  BY <1>5 DEF ExclusionInv, OnlyUploadsEnqueue
<1>12. EnqueuedIsUnnamed'
  BY <1>3, <1>8, <1>9 DEF ExclusionInv, EnqueuedIsUnnamed
<1>13. Unnamed(v)
  BY <1>1 DEF ExclusionInv, EnqueuedIsUnnamed
<1>14. \A w \in Workers : AtWork(w) => worker[w].job \in Versions /\ worker[w].job # v
  BY <1>13, WorkTypes DEF Unnamed
<1>15. \A w \in Workers : AtWork(w)' <=> AtWork(w)
  BY <1>6 DEF AtWork, IsIndexing
<1>16. WorkIsClaimed'
  BY <1>3, <1>6, <1>14, <1>15 DEF ExclusionInv, WorkIsClaimed
<1> QED BY <1>10, <1>12, <1>16 DEF ExclusionInv

LEMMA ClaimExcludes ==
  ASSUME TypeOK, TypeOK', ExclusionInv, NEW w \in Workers, claim(w)
  PROVE  ExclusionInv'
<1> DEFINE v == worker[w].job
<1>1. v \in Versions /\ Handles(w, v) /\ worker[w].phase = "Claim"
  BY DEF claim, Handles, TypeOK
<1>2. /\ request' = request /\ recovery' = recovery /\ queue' = queue /\ spent' = spent
  BY DEF claim
<1>3. CASE ~Claimable(v)
  <2>1. RowsAreQuiet /\ NamesAreQuiet /\ WorkIsQuiet
    BY <1>3, LostClaimQuiet
  <2>2. spent.faults <= spent'.faults
    BY <1>2, WorkTypes
  <2> QED BY <2>1, <2>2, ExclusionKept
<1>4. CASE Claimable(v)
  <2>1. /\ job' = [job EXCEPT ![v] = [status |-> "PROCESSING", attempt |-> job[v].attempt + 1,
                                      stale |-> FALSE]]
        /\ Goto(w, "Begin")
    BY <1>1, <1>4 DEF claim, nextAttempt, TypeOK
  <2>2. /\ job'[v].status = "PROCESSING" /\ job'[v].attempt = job[v].attempt + 1 /\ ~job'[v].stale
        /\ \A u \in Versions : u # v => job'[u] = job[u]
    BY <1>1, <2>1 DEF TypeOK
  <2>3. /\ worker'[w].phase = "Begin" /\ worker'[w].job = v
        /\ \A u \in Workers : u # w => worker'[u] = worker[u]
    BY <2>1 DEF Goto, TypeOK
  <2>4. job[v].status \in {"QUEUED", "FAILED"}
    BY <1>4 DEF Claimable
  <2> HIDE DEF v
  <2>5. ~Unnamed(v)
    BY <1>1 DEF Unnamed
  <2>6. \A u \in Versions : Unnamed(u) => u # v /\ Unnamed(u)'
    BY <1>1, <1>2, <2>2, <2>3, <2>5 DEF Unnamed, Handles
  <2>7. \A q \in Requests : \A u \in Versions : Enqueues(q, u)' <=> Enqueues(q, u)
    BY <1>2 DEF Enqueues
  <2>8. OnlyUploadsEnqueue'
    BY <1>2 DEF ExclusionInv, OnlyUploadsEnqueue
  <2>10. EnqueuedIsUnnamed'
    BY <2>2, <2>6, <2>7 DEF ExclusionInv, EnqueuedIsUnnamed
  <2>11. \A u \in Workers : AtWork(u) => worker[u].job \in Versions /\ worker[u].job # v
    BY <2>4, WorkTypes DEF ExclusionInv, WorkIsClaimed
  <2>12. \A u \in Workers : AtWork(u)' <=> (u = w \/ AtWork(u))
    BY <2>3 DEF AtWork, IsIndexing
  <2>13. ~AtWork(w)
    BY <1>1 DEF AtWork, IsIndexing
  <2>14. WorkIsClaimed'
    <3> SUFFICES ASSUME NEW u \in Workers, AtWork(u)'
                 PROVE  LET k == worker'[u].job
                        IN /\ job'[k].status \notin {"QUEUED", "FAILED"}
                           /\ ~(job'[k].stale /\ job'[k].status = "PROCESSING")
                           /\ \A x \in Workers : AtWork(x)' /\ worker'[x].job = k => x = u
      BY DEF WorkIsClaimed
    <3>1. CASE u = w
      BY <2>2, <2>3, <2>11, <2>12, <3>1
    <3>2. CASE u # w
      BY <2>2, <2>3, <2>11, <2>12, <2>13, <3>2 DEF ExclusionInv, WorkIsClaimed
    <3> QED BY <3>1, <3>2
  <2> QED BY <2>8, <2>10, <2>14 DEF ExclusionInv
<1> QED BY <1>3, <1>4

\* The failure write of the worker that claimed the job: it is the only one at work.
LEMMA FailJobExcludes ==
  ASSUME TypeOK, ExclusionInv, NEW w \in Workers, failJob(w)
  PROVE  ExclusionInv'
<1> DEFINE v == worker[w].job
           s == IF worker[w].flag THEN "DEAD_LETTER" ELSE "FAILED"
<1>1. v \in Versions /\ Handles(w, v) /\ worker[w].phase = "FailJob" /\ AtWork(w)
  BY DEF failJob, Handles, AtWork, TypeOK
<1>2. /\ request' = request /\ recovery' = recovery /\ queue' = queue /\ spent' = spent
  BY DEF failJob
<1>3. job'[v] = [job[v] EXCEPT !.status = s, !.stale = FALSE]
      /\ \A u \in Versions : u # v => job'[u] = job[u]
  BY <1>1 DEF failJob, SetJob, SetJobs
<1>4. job'[v].status = s /\ ~job'[v].stale /\ job'[v].attempt = job[v].attempt
  BY <1>1, <1>3 DEF TypeOK
<1>5. /\ worker'[w].phase = "FailVersion" /\ worker'[w].job = v
      /\ \A u \in Workers : u # w => worker'[u] = worker[u]
  BY DEF failJob, Goto, TypeOK
<1>6. s \in {"DEAD_LETTER", "FAILED"} /\ (s = "FAILED" => ~worker[w].flag)
  OBVIOUS
<1> HIDE DEF v, s
<1>7. \A u \in Versions : Unnamed(u) => u # v /\ Unnamed(u)'
  BY <1>1, <1>2, <1>3, <1>5 DEF Unnamed, Handles
<1>8. \A q \in Requests : \A u \in Versions : Enqueues(q, u)' <=> Enqueues(q, u)
  BY <1>2 DEF Enqueues
<1>9. OnlyUploadsEnqueue'
  BY <1>2 DEF ExclusionInv, OnlyUploadsEnqueue
<1>11. EnqueuedIsUnnamed'
  BY <1>3, <1>7, <1>8 DEF ExclusionInv, EnqueuedIsUnnamed
<1>12. \A u \in Workers : AtWork(u)' <=> (u # w /\ AtWork(u))
  BY <1>5 DEF AtWork, IsIndexing
<1>13. \A u \in Workers : AtWork(u) /\ u # w => worker[u].job \in Versions /\ worker[u].job # v
  BY <1>1, WorkTypes DEF ExclusionInv, WorkIsClaimed, v
<1>14. WorkIsClaimed'
  BY <1>3, <1>5, <1>12, <1>13 DEF ExclusionInv, WorkIsClaimed
<1> QED BY <1>9, <1>11, <1>14 DEF ExclusionInv

\* While nobody lapses, a job grows old only when nobody attends to it.
LEMMA AgesExcludes ==
  ASSUME TypeOK, ExclusionInv, NEW v \in Versions, ages(v), Steady'
  PROVE  ExclusionInv'
<1>1. job'[v] = [job[v] EXCEPT !.stale = TRUE]
      /\ \A u \in Versions : u # v => job'[u] = job[u]
  BY DEF ages, TypeOK
<1>2. job'[v].status = job[v].status /\ job'[v].attempt = job[v].attempt
  BY <1>1 DEF TypeOK
<1>3. ~Attended(v) /\ spent' = spent
  <2>1. ~CountLapse
    <3>1. CountLapse => spent'.lapses = spent.lapses + 1 /\ spent.lapses \in Nat
      BY DEF CountLapse, TypeOK
    <3> QED BY <3>1 DEF Steady
  <2> QED BY <2>1 DEF ages
<1>4. /\ request' = request /\ recovery' = recovery /\ queue' = queue /\ worker' = worker
  BY DEF ages
<1>5. \A u \in Versions : Unnamed(u) => Unnamed(u)'
  BY <1>1, <1>2, <1>4 DEF Unnamed, Handles
<1>6. \A q \in Requests : \A u \in Versions : Enqueues(q, u)' <=> Enqueues(q, u)
  BY <1>4 DEF Enqueues
<1>7. job[v].status # "CANCEL_REQUESTED"
        => /\ \A w \in Workers : worker[w].job # v
           /\ \A r \in Requests : request[r].job # v
  BY <1>3 DEF Attended
<1>8. OnlyUploadsEnqueue'
  BY <1>4 DEF ExclusionInv, OnlyUploadsEnqueue
<1>10. EnqueuedIsUnnamed'
  <2> SUFFICES ASSUME NEW u \in Versions, NEW r \in Requests, Enqueues(r, u)
               PROVE  /\ Unnamed(u)'
                      /\ \A q \in Requests : Enqueues(q, u)' => q = r
                      /\ ~(job'[u].stale /\ job'[u].status \in {"QUEUED", "PROCESSING"})
    BY <1>6 DEF EnqueuedIsUnnamed
  <2>1. /\ Unnamed(u)
        /\ \A q \in Requests : Enqueues(q, u) => q = r
        /\ ~(job[u].stale /\ job[u].status \in {"QUEUED", "PROCESSING"})
    BY DEF ExclusionInv, EnqueuedIsUnnamed
  <2>2. CASE u = v
    <3>1. job[v].status = "CANCEL_REQUESTED"
      BY <1>7, <2>2 DEF Enqueues
    <3> QED BY <1>2, <1>5, <1>6, <2>1, <2>2, <3>1
  <2>3. CASE u # v
    BY <1>1, <1>5, <1>6, <2>1, <2>3
  <2> QED BY <2>2, <2>3
<1>11. \A w \in Workers : AtWork(w)' <=> AtWork(w)
  BY <1>4 DEF AtWork, IsIndexing
<1>12. WorkIsClaimed'
  <2> SUFFICES ASSUME NEW w \in Workers, AtWork(w)
               PROVE  LET u == worker[w].job
                      IN /\ job'[u].status \notin {"QUEUED", "FAILED"}
                         /\ ~(job'[u].stale /\ job'[u].status = "PROCESSING")
                         /\ \A o \in Workers : AtWork(o) /\ worker[o].job = u => o = w
    BY <1>4, <1>11 DEF WorkIsClaimed
  <2>1. /\ job[worker[w].job].status \notin {"QUEUED", "FAILED"}
        /\ ~(job[worker[w].job].stale /\ job[worker[w].job].status = "PROCESSING")
        /\ \A o \in Workers : AtWork(o) /\ worker[o].job = worker[w].job => o = w
    BY DEF ExclusionInv, WorkIsClaimed
  <2>2. worker[w].job \in Versions
    BY WorkTypes
  <2>3. CASE worker[w].job = v
    <3>1. job'[v].status = "CANCEL_REQUESTED"
      BY <1>2, <1>7, <2>3
    <3> QED BY <2>1, <2>3, <3>1
  <2>4. CASE worker[w].job # v
    BY <1>1, <2>1, <2>2, <2>4
  <2> QED BY <2>3, <2>4
<1> QED BY <1>8, <1>10, <1>12 DEF ExclusionInv

\* Recovery puts back jobs whose heartbeat has stopped: nobody is at work on them.
LEMMA RecoverExcludes ==
  ASSUME TypeOK, ExclusionInv, recoverStale
  PROVE  ExclusionInv'
<1> DEFINE found == StaleIn(RecoveredStatuses)
<1>1. \A v \in Versions : v \in found <=> job[v].stale /\ job[v].status \in {"QUEUED", "PROCESSING"}
  BY DEF StaleIn, RecoveredStatuses
<1>2. /\ \A v \in found : job'[v] = [job[v] EXCEPT !.status = "QUEUED", !.stale = FALSE]
      /\ \A v \in Versions : v \notin found => job'[v] = job[v]
      /\ found \subseteq Versions
  BY DEF recoverStale, SetJobs, StaleIn
<1>3. \A v \in found : /\ job'[v].status = "QUEUED" /\ ~job'[v].stale
                       /\ job'[v].attempt = job[v].attempt
  <2> HIDE DEF found
  <2> SUFFICES ASSUME NEW v \in found
               PROVE  /\ job'[v].status = "QUEUED" /\ ~job'[v].stale
                      /\ job'[v].attempt = job[v].attempt
    OBVIOUS
  <2>1. job[v] \in [status: JobStatuses, attempt: Nat, stale: BOOLEAN]
    BY <1>2 DEF TypeOK
  <2>2. job'[v] = [job[v] EXCEPT !.status = "QUEUED", !.stale = FALSE]
    BY <1>2
  <2> QED BY <2>1, <2>2
<1>4. recovery'.jobs \subseteq found
  BY DEF recoverStale, IdleRecovery
<1>5. request' = request /\ worker' = worker /\ queue' = queue /\ spent' = spent
  BY DEF recoverStale
<1> HIDE DEF found
<1>6. \A v \in Versions : Unnamed(v) /\ v \notin found => Unnamed(v)'
  BY <1>2, <1>4, <1>5 DEF Unnamed, Handles
<1>7. \A r \in Requests : \A v \in Versions : Enqueues(r, v)' => Enqueues(r, v) /\ v \notin found
  BY <1>1, <1>5 DEF ExclusionInv, EnqueuedIsUnnamed, Enqueues
<1>8. \A v \in Versions : ~Uploaded(v)' => ~Uploaded(v) /\ v \notin found
  BY <1>2, <1>3 DEF Uploaded
<1>9. \A w \in Workers : (AtWork(w)' <=> AtWork(w)) /\ (worker[w].phase = "FailJob" => AtWork(w))
  BY <1>5 DEF AtWork, IsIndexing
<1>10. \A w \in Workers : AtWork(w) => worker[w].job \in Versions /\ worker[w].job \notin found
  BY <1>1, WorkTypes DEF ExclusionInv, WorkIsClaimed
<1>11. OnlyUploadsEnqueue'
  BY <1>5 DEF ExclusionInv, OnlyUploadsEnqueue
<1>13. EnqueuedIsUnnamed'
  BY <1>2, <1>6, <1>7 DEF ExclusionInv, EnqueuedIsUnnamed
<1>14. WorkIsClaimed'
  BY <1>2, <1>5, <1>9, <1>10 DEF ExclusionInv, WorkIsClaimed
<1> QED BY <1>11, <1>13, <1>14 DEF ExclusionInv

LEMMA ExclusionStep ==
  TypeOK /\ AttemptsInv /\ (Steady => ExclusionInv) /\ [Next]_vars => (Steady => ExclusionInv)'
<1> SUFFICES ASSUME TypeOK, AttemptsInv, Steady => ExclusionInv, [Next]_vars, Steady'
             PROVE  ExclusionInv'
  OBVIOUS
<1>1. ExclusionInv /\ TypeOK' /\ spent.faults <= spent'.faults /\ AbsentIsUnnamed
  <2>1. Steady
    BY SpentGrows DEF Steady, TypeOK
  <2> QED BY <2>1, SpentGrows, TypeStep DEF AttemptsInv
<1>2. ASSUME RowsAreQuiet /\ NamesAreQuiet /\ WorkIsQuiet
      PROVE  ExclusionInv'
  BY <1>1, <1>2, ExclusionKept
<1>3. ASSUME NEW r \in Requests, upload(r) \/ RequestStep(r) PROVE ExclusionInv'
  <2>1. ~retryWrite(r)
    BY <1>1 DEF retryWrite, ExclusionInv, OnlyUploadsEnqueue
  <2>2. CASE cancelWrite(r)
    BY <1>1, <1>2, <2>2, QuietOtherSteps
  <2> QED BY <1>1, <1>3, <2>1, <2>2, UploadExcludes, EnqueueExcludes, EnqueueFailsExcludes
             DEF RequestStep
<1>4. ASSUME NEW w \in Workers,
             \/ WorkerStep(w) \/ heartbeat(w) \/ workerDies(w) \/ workerStalls(w)
             \/ \E v \in Versions : take(w, v)
      PROVE  ExclusionInv'
  <2>1. CASE claim(w)
    BY <1>1, <2>1, ClaimExcludes
  <2>2. CASE failJob(w)
    BY <1>1, <2>2, FailJobExcludes
  <2>3. ASSUME NEW v \in Versions, take(w, v) PROVE ExclusionInv'
    BY <1>1, <1>2, <2>3, TakeQuiet
  <2>4. CASE \/ begin(w) \/ checkCancellation(w)
             \/ \E next \in {"Wave", "Store"} : embedWave(w, next)
             \/ store(w) \/ commit(w) \/ cancelJob(w) \/ cancelVersion(w)
             \/ fail(w) \/ failVersion(w) \/ failSource(w)
             \/ heartbeat(w) \/ workerDies(w) \/ workerStalls(w)
    BY <1>1, <1>2, <2>4, QuietWorkerSteps
  <2> QED BY <1>4, <2>1, <2>2, <2>3, <2>4 DEF WorkerStep
<1>5. ASSUME NEW v \in Versions, ages(v) PROVE ExclusionInv'
  BY <1>1, <1>5, AgesExcludes
<1>6. CASE recoverStale
  BY <1>1, <1>6, RecoverExcludes
<1>7. CASE \/ \E r \in Requests : \/ cancelWrite(r) \/ requestDies(r)
                                  \/ \E v \in Versions : cancelRead(r, v)
           \/ recoverCancelled \/ recoverVersions \/ recoverEnqueue \/ recoveryDies
           \/ UNCHANGED vars
  BY <1>1, <1>2, <1>7, QuietOtherSteps
<1>8. ASSUME NEW r \in Requests, NEW v \in Versions, retryRead(r, v)
      PROVE  ExclusionInv'
  <2>1. CountRetry
    BY <1>8 DEF retryRead
  <2>2. spent.retries \in Nat /\ spent'.retries = spent.retries + 1
    BY <2>1 DEF CountRetry, TypeOK
  <2> QED BY <2>2 DEF Steady
<1> QED BY <1>3, <1>4, <1>5, <1>6, <1>7, <1>8 DEF Next, RecoveryStep

LEMMA ExclusionInit == Init => ExclusionInv
<1> SUFFICES ASSUME Init PROVE ExclusionInv
  OBVIOUS
<1>1. \A v \in Versions : job[v].status = "ABSENT" /\ job[v].attempt = 0 /\ ~job[v].stale
  BY DEF Init
<1>2. \A w \in Workers : worker[w].phase = "Idle"
  BY DEF Init, IdleWorker
<1>3. \A r \in Requests : request[r].phase = "Idle"
  BY DEF Init, IdleRequest
<1>4. \A v \in Versions : Unnamed(v)
  BY <1>1, <1>2 DEF Init, Unnamed, Handles, IdleRecovery
<1> QED BY <1>1, <1>2, <1>3, <1>4
           DEF ExclusionInv, OnlyUploadsEnqueue, EnqueuedIsUnnamed, WorkIsClaimed,
               Enqueues, AtWork, IsIndexing

LEMMA Excludes == Spec => [](TypeOK /\ AttemptsInv /\ (Steady => ExclusionInv))
<1> QED BY TypeInit, TypeStep, AttemptsInit, AttemptsStep, ExclusionInit, ExclusionStep, PTL DEF Spec

\* The claim of the job's row is the only lock and it is enough: however often a job's
\* message is delivered, and whatever dies, no two workers index one version, as long as
\* nobody alive is taken for dead and no user's retry puts a job at work back.
THEOREM ClaimsExclude == Spec => []OneIndexerPerVersion
<1>1. TypeOK /\ AttemptsInv /\ (Steady => ExclusionInv) => OneIndexerPerVersion
  BY DEF Steady, ExclusionInv, WorkIsClaimed, AtWork, OneIndexerPerVersion
<1> QED BY <1>1, Excludes, PTL
=============================================================================
