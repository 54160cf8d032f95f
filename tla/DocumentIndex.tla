----------------------------- MODULE DocumentIndex -----------------------------
(***************************************************************************)
(* Indexing of uploaded documents: the rows that uploads, retries and      *)
(* cancellations write in the web process, the BullMQ messages that name   *)
(* them, the workers that index (packages/knowledge/index-document.ts) and *)
(* the recovery loop (recover-operations.ts).  Every version has one index *)
(* job; both are numbered in order of creation.                            *)
(*                                                                         *)
(* Chunks and embeddings are abstracted to whether a version has them.  A  *)
(* timestamp is abstracted to "older than staleBefore": lastHeartbeatAt of *)
(* a PROCESSING job, updatedAt of the others.  Of BullMQ (external) the    *)
(* model keeps what the code relies on: a message is delivered again after *)
(* an error while it has attempts left, and after its worker died or       *)
(* stalled.                                                                *)
(***************************************************************************)
EXTENDS Naturals, FiniteSetsExt

CONSTANTS Documents,    \* documents of one knowledge source
          Workers,      \* concurrent deliveries, in one worker process or several
          Requests,     \* requests of the web process in flight at once
          MaxAttempts,  \* maxAttempts of an index job
          Deliveries,   \* "attempts" of a queue message
          MaxWaiting,   \* QUEUE_MAX_WAITING_JOBS
          MaxVersions,  \* bound: versions uploaded
          MaxRetries,   \* bound: retries asked for by users
          MaxCancels,   \* bound: cancellations asked for by users
          MaxFaults,    \* bound: dead processes, stalled messages, queue outages
          MaxLapses,    \* bound: stale jobs that somebody alive is at work on
          MaxSetbacks   \* bound: MaxSetbacks[n] retries, cancellations, faults and
                        \* lapses together while n versions are uploaded

ASSUME IndexAssumption ==
  /\ MaxAttempts \in Nat \ {0} /\ Deliveries \in Nat \ {0}
  /\ MaxWaiting \in Nat /\ MaxVersions \in Nat
  /\ MaxRetries \in Nat /\ MaxCancels \in Nat /\ MaxFaults \in Nat /\ MaxLapses \in Nat
  /\ MaxSetbacks \in [1..MaxVersions -> Nat]
  /\ IsFiniteSet(Workers) /\ IsFiniteSet(Requests)

Versions == 1..MaxVersions

VARIABLES
  version,   \* version[v]: the DocumentVersion row and whether it has chunks
  job,       \* job[v]: its DocumentIndexJob row
  current,   \* current[d]: currentVersionId, 0 for null
  source,    \* status of the KnowledgeSource row
  queue,     \* queue[v][n]: waiting messages for job v with n deliveries left
  worker,    \* worker[w]: the delivery it handles, where it stands, and what it decided
  request,   \* request[r]: likewise for the web process
  recovery,  \* the recovery loop
  spent      \* what the bounds count

vars == <<version, job, current, source, queue, worker, request, recovery, spent>>
rows == <<version, job, current, source>>

JobStatuses == {"ABSENT", "QUEUED", "PROCESSING", "CANCEL_REQUESTED", "CANCELLED",
                "COMPLETED", "FAILED", "DEAD_LETTER"}
VersionStatuses == {"ABSENT", "QUEUED", "PROCESSING", "INDEXED", "FAILED", "CANCELLED"}
SourceStatuses == {"DRAFT", "PROCESSING", "READY", "FAILED", "NEEDS_REINDEX"}
WorkerPhases == {"Idle", "Claim", "CancelJob", "CancelVersion", "Begin", "Wave", "Embed",
                 "Store", "Commit", "FailJob", "FailVersion", "FailSource"}
RequestPhases == {"Idle", "RetryWrite", "CancelWrite", "Enqueue"}
RequestKinds == {"upload", "retryIndexJob", "retryDocumentIndex", "cancelIndexJob"}

TypeOK ==
  /\ version \in [Versions -> [doc: Documents, status: VersionStatuses, chunks: BOOLEAN]]
  /\ job \in [Versions -> [status: JobStatuses, attempt: Nat, stale: BOOLEAN]]
  /\ current \in [Documents -> 0..MaxVersions]
  /\ source \in SourceStatuses
  /\ queue \in [Versions -> [1..Deliveries -> Nat]]
  /\ worker \in [Workers -> [phase: WorkerPhases, job: 0..MaxVersions, left: 0..Deliveries,
                             flag: BOOLEAN]]
  /\ \A w \in Workers : worker[w].phase # "Idle" => worker[w].job \in Versions
  /\ request \in [Requests -> [phase: RequestPhases, kind: RequestKinds, job: 0..MaxVersions]]
  /\ \A r \in Requests : request[r].phase # "Idle" => request[r].job \in Versions
  /\ recovery \in [phase: {"Idle", "Stale", "Versions", "Enqueue"}, jobs: SUBSET Versions]
  /\ spent \in [retries: 0..MaxRetries, cancels: 0..MaxCancels, faults: 0..MaxFaults,
                lapses: 0..MaxLapses]

IdleWorker == [phase |-> "Idle", job |-> 0, left |-> 0, flag |-> FALSE]
IdleRequest == [phase |-> "Idle", kind |-> "upload", job |-> 0]
IdleRecovery == [phase |-> "Idle", jobs |-> {}]

Init ==
  /\ version \in [Versions -> [doc: Documents, status: {"ABSENT"}, chunks: {FALSE}]]
  /\ job = [v \in Versions |-> [status |-> "ABSENT", attempt |-> 0, stale |-> FALSE]]
  /\ current = [d \in Documents |-> 0]
  /\ source = "DRAFT"
  /\ queue = [v \in Versions |-> [n \in 1..Deliveries |-> 0]]
  /\ worker = [w \in Workers |-> IdleWorker]
  /\ request = [r \in Requests |-> IdleRequest]
  /\ recovery = IdleRecovery
  /\ spent = [retries |-> 0, cancels |-> 0, faults |-> 0, lapses |-> 0]

-----------------------------------------------------------------------------
Uploaded(v) == job[v].status # "ABSENT"
VersionsOf(d) == {v \in Versions : Uploaded(v) /\ version[v].doc = d}
Newest(v) == \A u \in VersionsOf(version[v].doc) : u <= v

\* The code between the claim and the finally block that stops the heartbeat.
IsIndexing(w) == worker[w].phase \in {"Begin", "Wave", "Embed", "Store", "Commit"}
Beats(w) == IsIndexing(w) \/ worker[w].phase \in {"FailJob", "FailVersion", "FailSource"}

\* The depth that assertQueueCapacity compares: waiting, delayed and active messages.
Depth == MapThenSumSet(LAMBDA vn : queue[vn[1]][vn[2]], Versions \X (1..Deliveries))
         + Cardinality({w \in Workers : worker[w].phase # "Idle"})
QueueHasCapacity == Depth < MaxWaiting
Added(v, n) == [queue EXCEPT ![v][n] = @ + 1]

\* Every write of a job's row renews its updatedAt.
SetJobs(V, s) == [v \in Versions |-> IF v \in V THEN [job[v] EXCEPT !.status = s, !.stale = FALSE]
                                     ELSE job[v]]
SetVersions(V, s) == [v \in Versions |-> IF v \in V THEN [version[v] EXCEPT !.status = s]
                                         ELSE version[v]]
SetJob(v, s) == SetJobs({v}, s)
SetVersion(v, s) == SetVersions({v}, s)
Goto(w, phase) == worker' = [worker EXCEPT ![w].phase = phase]
RequestDone(r) == request' = [request EXCEPT ![r] = IdleRequest]

Setbacks == spent.retries + spent.cancels + spent.faults + spent.lapses
SetbackAllowed == \E n \in Versions : /\ Uploaded(n)
                                      /\ \A v \in Versions : Uploaded(v) => v <= n
                                      /\ Setbacks < MaxSetbacks[n]
CountRetry == /\ spent.retries < MaxRetries /\ SetbackAllowed
              /\ spent' = [spent EXCEPT !.retries = @ + 1]
CountCancel == /\ spent.cancels < MaxCancels /\ SetbackAllowed
               /\ spent' = [spent EXCEPT !.cancels = @ + 1]
CountFault == /\ spent.faults < MaxFaults /\ SetbackAllowed
              /\ spent' = [spent EXCEPT !.faults = @ + 1]
CountLapse == /\ spent.lapses < MaxLapses /\ SetbackAllowed
              /\ spent' = [spent EXCEPT !.lapses = @ + 1]

-----------------------------------------------------------------------------
(* The web process. *)

\* The transaction of uploadKnowledgeDocument; the first version not used yet is it.
upload(r) ==
  /\ request[r].phase = "Idle"
  /\ \E v \in Versions :
       /\ ~Uploaded(v)
       /\ \A u \in Versions : u < v => Uploaded(u)
       /\ Setbacks <= MaxSetbacks[v]
       /\ job' = SetJob(v, "QUEUED")
       /\ version' = SetVersion(v, "QUEUED")
       /\ request' = [request EXCEPT ![r] = [phase |-> "Enqueue", kind |-> "upload", job |-> v]]
  /\ source' = "PROCESSING"
  /\ UNCHANGED <<current, queue, worker, recovery, spent>>

\* retryIndexJob takes jobs that have ended; retryDocumentIndex takes the newest version's
\* job unless it is being processed.
Retriable(kind, v) ==
  \/ /\ kind = "retryIndexJob"
     /\ job[v].status \in {"FAILED", "DEAD_LETTER", "CANCELLED", "COMPLETED"}
  \/ /\ kind = "retryDocumentIndex"
     /\ Newest(v)
     /\ job[v].status \notin {"ABSENT", "PROCESSING", "CANCEL_REQUESTED"}

requestRead(r, v, kind, phase) ==
  /\ request[r].phase = "Idle"
  /\ request' = [request EXCEPT ![r] = [phase |-> phase, kind |-> kind, job |-> v]]
  /\ UNCHANGED <<rows, queue, worker, recovery>>

retryRead(r, v) ==
  \E kind \in {"retryIndexJob", "retryDocumentIndex"} :
    Retriable(kind, v) /\ CountRetry /\ requestRead(r, v, kind, "RetryWrite")

cancelRead(r, v) ==
  /\ job[v].status \in {"QUEUED", "PROCESSING"}
  /\ CountCancel
  /\ requestRead(r, v, "cancelIndexJob", "CancelWrite")

\* Both updates are by id: the status that was read is not checked again.
retryWrite(r) ==
  LET v == request[r].job
  IN /\ request[r].phase = "RetryWrite"
     /\ job' = [job EXCEPT ![v] = [status |-> "QUEUED", attempt |-> 0, stale |-> FALSE]]
     /\ version' = SetVersion(v, "QUEUED")
     /\ source' = IF request[r].kind = "retryIndexJob" THEN "PROCESSING" ELSE source
     /\ request' = [request EXCEPT ![r].phase = "Enqueue"]
     /\ UNCHANGED <<current, queue, worker, recovery, spent>>

cancelWrite(r) ==
  /\ request[r].phase = "CancelWrite"
  /\ job' = SetJob(request[r].job, "CANCEL_REQUESTED")
  /\ RequestDone(r)
  /\ UNCHANGED <<version, current, source, queue, worker, recovery, spent>>

enqueueDocumentIndexJob(r) ==
  /\ request[r].phase = "Enqueue"
  /\ QueueHasCapacity
  /\ queue' = Added(request[r].job, Deliveries)
  /\ RequestDone(r)
  /\ UNCHANGED <<rows, worker, recovery, spent>>

\* Backpressure, or Redis cannot be reached: upload and retryIndexJob write the rows
\* back by id, retryDocumentIndex leaves them QUEUED.
enqueueFails(r) ==
  LET v == request[r].job
      kind == request[r].kind
  IN /\ request[r].phase = "Enqueue"
     /\ \/ ~QueueHasCapacity /\ UNCHANGED spent
        \/ QueueHasCapacity /\ CountFault
     /\ job' = CASE kind = "upload" -> SetJob(v, "FAILED")
                 [] kind = "retryIndexJob" -> SetJob(v, "DEAD_LETTER")
                 [] OTHER -> job
     /\ version' = IF kind = "retryDocumentIndex" THEN version ELSE SetVersion(v, "FAILED")
     /\ source' = IF kind = "retryIndexJob" THEN "NEEDS_REINDEX" ELSE source
     /\ RequestDone(r)
     /\ UNCHANGED <<current, queue, worker, recovery>>

requestDies(r) ==
  /\ request[r].phase # "Idle"
  /\ CountFault
  /\ RequestDone(r)
  /\ UNCHANGED <<rows, queue, worker, recovery>>

-----------------------------------------------------------------------------
(* processDocumentIndexJob. *)

\* A worker takes a message and reads the job's row.
take(w, v) ==
  \E n \in 1..Deliveries :
    /\ worker[w].phase = "Idle"
    /\ queue[v][n] > 0
    /\ queue' = [queue EXCEPT ![v][n] = @ - 1]
    /\ worker' = [worker EXCEPT ![w] =
         CASE job[v].status = "COMPLETED" -> IdleWorker
           [] job[v].status \in {"CANCEL_REQUESTED", "CANCELLED"} ->
                [IdleWorker EXCEPT !.phase = "CancelJob", !.job = v, !.left = n]
           [] OTHER -> [IdleWorker EXCEPT !.phase = "Claim", !.job = v, !.left = n]]
    /\ UNCHANGED <<rows, request, recovery, spent>>

\* Mutant: the claim also takes a job that is being processed.
ClaimableUnfinished(v) == job[v].status \in {"QUEUED", "FAILED", "PROCESSING"}

\* UPDATE ... WHERE status IN ('QUEUED', 'FAILED'): the only lock on a job.
Claimable(v) == job[v].status \in {"QUEUED", "FAILED"}

\* Mutant: attempt counts what is left.
attemptsLeft(n) == n - 1

nextAttempt(n) == n + 1

claim(w) ==
  LET v == worker[w].job
  IN /\ worker[w].phase = "Claim"
     /\ IF Claimable(v)
        THEN /\ job' = [job EXCEPT ![v] = [status |-> "PROCESSING",
                                           attempt |-> nextAttempt(@.attempt),
                                           stale |-> FALSE]]
             /\ Goto(w, "Begin")
        ELSE /\ worker' = [worker EXCEPT ![w] = IdleWorker]
             /\ UNCHANGED job
     /\ UNCHANGED <<version, current, source, queue, request, recovery, spent>>

\* Mutant: the document shows the version as soon as it is being processed.
beginShowingVersion(w) ==
  /\ worker[w].phase = "Begin"
  /\ version' = SetVersion(worker[w].job, "PROCESSING")
  /\ current' = [current EXCEPT ![version[worker[w].job].doc] = worker[w].job]
  /\ Goto(w, "Wave")
  /\ UNCHANGED <<job, source, queue, request, recovery, spent>>

\* The first writes of an attempt; then the file is parsed.
begin(w) ==
  /\ worker[w].phase = "Begin"
  /\ version' = SetVersion(worker[w].job, "PROCESSING")
  /\ job' = [job EXCEPT ![worker[w].job].stale = FALSE]
  /\ Goto(w, "Wave")
  /\ UNCHANGED <<current, source, queue, request, recovery, spent>>

\* Cancellation is looked at once before each wave of batches.
checkCancellation(w) ==
  /\ worker[w].phase = "Wave"
  /\ Goto(w, IF job[worker[w].job].status = "CANCEL_REQUESTED" THEN "CancelJob" ELSE "Embed")
  /\ UNCHANGED <<rows, queue, request, recovery, spent>>

\* The provider answers; progress is written by id, and another wave or the storing follows.
embedWave(w, next) ==
  /\ worker[w].phase = "Embed"
  /\ job' = [job EXCEPT ![worker[w].job].stale = FALSE]
  /\ Goto(w, next)
  /\ UNCHANGED <<version, current, source, queue, request, recovery, spent>>

\* The storing transaction, READ COMMITTED: whether the source becomes READY is decided
\* on what others have committed.  Transactions on one document wait for each other.
store(w) ==
  LET d == version[worker[w].job].doc
  IN /\ worker[w].phase = "Store"
     /\ \A u \in Workers : ~(worker[u].phase = "Commit" /\ version[worker[u].job].doc = d)
     /\ worker' = [worker EXCEPT ![w].phase = "Commit", ![w].flag =
                     \A e \in Documents \ {d} :
                       current[e] # 0 => version[current[e]].status = "INDEXED"]
     /\ UNCHANGED <<rows, queue, request, recovery, spent>>

commit(w) ==
  LET v == worker[w].job
  IN /\ worker[w].phase = "Commit"
     /\ version' = [version EXCEPT ![v].status = "INDEXED", ![v].chunks = TRUE]
     /\ current' = [current EXCEPT ![version[v].doc] = v]
     /\ job' = SetJob(v, "COMPLETED")
     /\ source' = IF worker[w].flag THEN "READY" ELSE source
     /\ worker' = [worker EXCEPT ![w] = IdleWorker]
     /\ UNCHANGED <<queue, request, recovery, spent>>

cancelJob(w) ==
  /\ worker[w].phase = "CancelJob"
  /\ job' = SetJob(worker[w].job, "CANCELLED")
  /\ Goto(w, "CancelVersion")
  /\ UNCHANGED <<version, current, source, queue, request, recovery, spent>>

cancelVersion(w) ==
  /\ worker[w].phase = "CancelVersion"
  /\ version' = SetVersion(worker[w].job, "CANCELLED")
  /\ worker' = [worker EXCEPT ![w] = IdleWorker]
  /\ UNCHANGED <<job, current, source, queue, request, recovery, spent>>

\* Mutant: one attempt too many.
AttemptsAreExceeded(v) == job[v].attempt > MaxAttempts

AttemptsAreUsedUp(v) == job[v].attempt >= MaxAttempts

\* Any step of an attempt may throw; the catch block reads the attempts, writes three
\* rows by id, and the error makes BullMQ deliver the message again.
fail(w) ==
  /\ IsIndexing(w)
  /\ worker' = [worker EXCEPT ![w].phase = "FailJob",
                              ![w].flag = AttemptsAreUsedUp(worker[w].job)]
  /\ UNCHANGED <<rows, queue, request, recovery, spent>>

failJob(w) ==
  /\ worker[w].phase = "FailJob"
  /\ job' = SetJob(worker[w].job, IF worker[w].flag THEN "DEAD_LETTER" ELSE "FAILED")
  /\ Goto(w, "FailVersion")
  /\ UNCHANGED <<version, current, source, queue, request, recovery, spent>>

failVersion(w) ==
  /\ worker[w].phase = "FailVersion"
  /\ version' = SetVersion(worker[w].job, "FAILED")
  /\ Goto(w, "FailSource")
  /\ UNCHANGED <<job, current, source, queue, request, recovery, spent>>

Redelivered(w) ==
  IF worker[w].left > 1 THEN Added(worker[w].job, worker[w].left - 1) ELSE queue

failSource(w) ==
  /\ worker[w].phase = "FailSource"
  /\ source' = "FAILED"
  /\ queue' = Redelivered(w)
  /\ worker' = [worker EXCEPT ![w] = IdleWorker]
  /\ UNCHANGED <<version, job, current, request, recovery, spent>>

heartbeat(w) ==
  LET v == worker[w].job
  IN /\ Beats(w)
     /\ job[v].status = "PROCESSING" /\ job[v].stale
     /\ job' = [job EXCEPT ![v].stale = FALSE]
     /\ UNCHANGED <<version, current, source, queue, worker, request, recovery, spent>>

\* The worker process dies: BullMQ notices the stalled message and delivers it again,
\* or has done so before and drops it.
workerDies(w) ==
  /\ worker[w].phase # "Idle"
  /\ CountFault
  /\ \/ worker[w].left > 0 /\ queue' = Added(worker[w].job, worker[w].left)
     \/ UNCHANGED queue
  /\ worker' = [worker EXCEPT ![w] = IdleWorker]
  /\ UNCHANGED <<rows, request, recovery>>

\* A worker that is alive misses the renewal of its lock: the message is delivered
\* again while the handler runs on, and its own outcome no longer counts for BullMQ.
workerStalls(w) ==
  /\ worker[w].phase # "Idle" /\ worker[w].left > 0
  /\ CountFault
  /\ queue' = Added(worker[w].job, worker[w].left)
  /\ worker' = [worker EXCEPT ![w].left = 0]
  /\ UNCHANGED <<rows, request, recovery>>

-----------------------------------------------------------------------------
(* Time, and recoverStaleOperations. *)

\* Somebody alive is at work on v.  Nobody is on a message that waits in a long queue,
\* and the heartbeat does not renew a CANCEL_REQUESTED job, however long its wave lasts.
Attended(v) ==
  /\ job[v].status # "CANCEL_REQUESTED"
  /\ \/ \E w \in Workers : worker[w].job = v
     \/ \E r \in Requests : request[r].job = v
     \/ v \in recovery.jobs

\* A job ages past staleBefore when nobody attends to it; when somebody does, blocked
\* for all that time, it counts as a lapse.
ages(v) ==
  /\ job[v].status \in {"QUEUED", "PROCESSING", "CANCEL_REQUESTED"}
  /\ ~job[v].stale
  /\ \/ ~Attended(v) /\ UNCHANGED spent
     \/ Attended(v) /\ CountLapse
  /\ job' = [job EXCEPT ![v].stale = TRUE]
  /\ UNCHANGED <<version, current, source, queue, worker, request, recovery>>

StaleIn(statuses) == {v \in Versions : job[v].stale /\ job[v].status \in statuses}

recoverCancelled ==
  /\ recovery.phase = "Idle"
  /\ StaleIn({"QUEUED", "PROCESSING", "CANCEL_REQUESTED"}) # {}
  /\ job' = SetJobs(StaleIn({"CANCEL_REQUESTED"}), "CANCELLED")
  /\ recovery' = [recovery EXCEPT !.phase = "Stale"]
  /\ UNCHANGED <<version, current, source, queue, worker, request, spent>>

\* Mutant: jobs whose message was lost before a worker took it are forgotten.
RecoveredWhenProcessing == {"PROCESSING"}

RecoveredStatuses == {"QUEUED", "PROCESSING"}

recoverStale ==
  LET found == StaleIn(RecoveredStatuses)
  IN /\ recovery.phase = "Stale"
     /\ job' = SetJobs(found, "QUEUED")
     /\ recovery' = IF found = {} THEN IdleRecovery
                    ELSE [phase |-> "Versions", jobs |-> found]
     /\ UNCHANGED <<version, current, source, queue, worker, request, spent>>

recoverVersions ==
  /\ recovery.phase = "Versions"
  /\ version' = SetVersions(recovery.jobs, "QUEUED")
  /\ recovery' = [recovery EXCEPT !.phase = "Enqueue"]
  /\ UNCHANGED <<job, current, source, queue, worker, request, spent>>

\* A full queue is an error of that job only: it stays QUEUED for the next round.
recoverEnqueue ==
  /\ recovery.phase = "Enqueue"
  /\ \E v \in recovery.jobs :
       /\ queue' = IF QueueHasCapacity THEN Added(v, Deliveries) ELSE queue
       /\ recovery' = IF recovery.jobs = {v} THEN IdleRecovery
                      ELSE [recovery EXCEPT !.jobs = @ \ {v}]
  /\ UNCHANGED <<rows, worker, request, spent>>

recoveryDies ==
  /\ recovery.phase # "Idle"
  /\ CountFault
  /\ recovery' = IdleRecovery
  /\ UNCHANGED <<rows, queue, worker, request>>

-----------------------------------------------------------------------------
WorkerStep(w) ==
  \/ claim(w) \/ begin(w) \/ checkCancellation(w)
  \/ \E next \in {"Wave", "Store"} : embedWave(w, next)
  \/ store(w) \/ commit(w)
  \/ cancelJob(w) \/ cancelVersion(w)
  \/ fail(w) \/ failJob(w) \/ failVersion(w) \/ failSource(w)

RequestStep(r) ==
  retryWrite(r) \/ cancelWrite(r) \/ enqueueDocumentIndexJob(r) \/ enqueueFails(r)

RecoveryStep == recoverCancelled \/ recoverStale \/ recoverVersions \/ recoverEnqueue

Next ==
  \/ \E r \in Requests :
       \/ upload(r) \/ RequestStep(r) \/ requestDies(r)
       \/ \E v \in Versions : retryRead(r, v) \/ cancelRead(r, v)
  \/ \E w \in Workers :
       \/ WorkerStep(w) \/ heartbeat(w) \/ workerDies(w) \/ workerStalls(w)
       \/ \E v \in Versions : take(w, v)
  \/ \E v \in Versions : ages(v)
  \/ RecoveryStep \/ recoveryDies

Spec == Init /\ [][Next]_vars

-----------------------------------------------------------------------------
(* Fairness: what is started goes on (every call times out), a document has *)
(* finitely many waves, BullMQ hands messages out first in first out, the  *)
(* clock passes, and the recovery timer fires.  Users, faults, aging of    *)
(* attended jobs and heartbeats are not fair.                              *)

Fairness ==
  /\ \A w \in Workers : WF_vars(WorkerStep(w)) /\ SF_vars(embedWave(w, "Store"))
  /\ \A v \in Versions : SF_vars(\E w \in Workers : take(w, v))
  /\ \A r \in Requests : WF_vars(RequestStep(r))
  /\ \A v \in Versions : WF_vars(~Attended(v) /\ ages(v))
  /\ SF_vars(RecoveryStep)

FairSpec == Spec /\ Fairness

-----------------------------------------------------------------------------
(* Properties. *)

\* "Atomic database claims prevent a recovered job and a BullMQ stalled-job retry from
\* indexing the same version concurrently" (docs/phase4-execution.md): no two workers
\* are past the claim of one job, unless recovery took a live worker's job for stale or
\* a user's retry, which writes by id, put a job that was at work back into the queue.
OneIndexerPerVersion ==
  spent.lapses = 0 /\ spent.retries = 0 =>
    \A w1, w2 \in Workers :
      (w1 # w2 /\ IsIndexing(w1) /\ IsIndexing(w2)) => worker[w1].job # worker[w2].job

\* "Retry jobs use exponential backoff with a maximum attempt count"
\* (docs/phase4-execution.md): however many messages name a job, every attempt beyond
\* maxAttempts is owed to a worker that died or was taken for dead, or to a user's retry
\* of a job whose last attempt was still at work.
AttemptsAreBounded ==
  \A v \in Versions :
    job[v].attempt <= MaxAttempts + spent.faults + spent.lapses + spent.retries

\* The storing transaction is the only way to publish a version: whatever dies, is
\* delivered twice or is cancelled, a completed job has its chunks, the version a
\* document shows has chunks and is its own, and a READY source shows something.
WhatIsShownIsStored ==
  /\ \A v \in Versions : (job[v].status = "COMPLETED" \/ version[v].status = "INDEXED")
                            => version[v].chunks
  /\ \A d \in Documents : current[d] # 0 => /\ version[current[d]].chunks
                                            /\ version[current[d]].doc = d
  /\ source = "READY" => \E d \in Documents : current[d] # 0

\* No job is left behind: a message lost, a worker dead or a queue full delays a job,
\* and in the end it is completed, failed, dead-lettered or cancelled.
JobsSettle ==
  \A v \in Versions : job[v].status \in {"QUEUED", "PROCESSING", "CANCEL_REQUESTED"}
    ~> job[v].status \in {"COMPLETED", "FAILED", "DEAD_LETTER", "CANCELLED"}
=============================================================================
