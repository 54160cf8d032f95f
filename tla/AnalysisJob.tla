----------------------------- MODULE AnalysisJob -----------------------------
(***************************************************************************)
(* The persistent analysis job of server/services/analysis-job-service.ts  *)
(* and the HTTP requests that act on it concurrently.  A request reads the *)
(* job row, later writes it, and anything may happen in between: another   *)
(* tab's advance, a cancel, a retry, the death of the server process.  The *)
(* only locks are the WHERE clauses of the updates, which the actions      *)
(* below repeat.                                                           *)
(*                                                                         *)
(* Stages are 1..StageCount in the order of STAGE_ORDER.  What a stage     *)
(* computes is abstracted to the rows it needs (Reads) and whether it      *)
(* leaves rows behind (Writes); AnalysisStages models the stages           *)
(* themselves.  Time is abstracted to the three ages of lastHeartbeatAt    *)
(* that the claim tells apart.                                             *)
(***************************************************************************)
EXTENDS Naturals, FiniteSets

CONSTANTS Jobs,         \* analysis jobs that may be created for the dashboard
          Requests,     \* HTTP requests that may be in flight at once
          Retriers,     \* the requests among them that may be retries
          Creators,     \* the requests among them that may start an analysis
          Objectives,   \* objectives a user may save on the dashboard
          NoObjective,  \* "no completed analysis yet"
          NoJob,        \* the job of an idle request
          StageCount,   \* stages in STAGE_ORDER
          Reads,        \* Reads[s]: stages whose persisted rows stage s loads
          Writes,       \* stages that persist rows
          MaxFaults,    \* bound: dead requests and heartbeats lost by live ones
          MaxRetries    \* bound: retries of one job

Stages == 1..StageCount

ASSUME PipelineAssumption ==
  /\ StageCount \in Nat /\ StageCount > 1
  /\ Writes \subseteq Stages
  /\ Reads \in [Stages -> SUBSET Writes]
  /\ \A s \in Stages : \A w \in Reads[s] : w < s

ASSUME RequestAssumption ==
  /\ Retriers \subseteq Requests
  /\ Creators \subseteq Requests
  /\ NoJob \notin Jobs
  /\ NoObjective \notin Objectives

ASSUME BoundAssumption == MaxFaults \in Nat /\ MaxRetries \in Nat

VARIABLES
  job,        \* job[j]: the AnalysisJob row
  dashboard,  \* the Dashboard row and its versions
  output,     \* output[j][s]: claim that persisted stage s's rows, 0 for none
  req,        \* req[r]: what request r has read and where it stands
  faults      \* faults so far, at most MaxFaults

vars == <<job, dashboard, output, req, faults>>

Statuses == {"ABSENT", "QUEUED", "RUNNING", "WAITING_FOR_APPROVAL",
             "COMPLETED", "FAILED", "CANCELLED"}

\* lastHeartbeatAt: null, within the last five minutes, or older.
Heartbeats == {"none", "fresh", "stale"}

\* The error codes that make a retry rebuild the analysis from its metadata
\* (REBUILD: AI_PROVIDER_ERROR, ANALYSIS_SCOPE_INVALID, AI_INVALID_RESPONSE)
\* and all the others.
ErrorCodes == {"NONE", "REBUILD", "OTHER"}

JobRows ==
  [status: Statuses, stage: Stages, runVersion: Nat, heartbeat: Heartbeats,
   errorCode: ErrorCodes, objective: Objectives \cup {NoObjective},
   finalVersion: Nat, retries: Nat]

Dashboards ==
  [status: {"DRAFT", "ANALYZING", "GENERATED"}, objective: Objectives,
   analysed: Objectives \cup {NoObjective}, version: Nat]

\* Idle, between the two database calls of an operation, or inside the stage
\* handler of an advance (Handling, then Handled or HandlerFailed).
Phases == {"Idle", "CreateChecked", "AdvanceRead", "Handling", "Handled",
           "HandlerFailed", "RetryRead", "FinalizeJobRead", "FinalizeRead"}

RequestStates ==
  [phase: Phases, job: Jobs \cup {NoJob}, version: Nat, stage: Stages,
   errorCode: ErrorCodes, objective: Objectives \cup {NoObjective}]

TypeOK ==
  /\ job \in [Jobs -> JobRows]
  /\ dashboard \in Dashboards
  /\ output \in [Jobs -> [Stages -> Nat]]
  /\ req \in [Requests -> RequestStates]
  /\ \A r \in Requests : req[r].phase \notin {"Idle", "CreateChecked"} => req[r].job \in Jobs
  /\ faults \in 0..MaxFaults

NoRow == [status |-> "ABSENT", stage |-> 1, runVersion |-> 1, heartbeat |-> "none",
          errorCode |-> "NONE", objective |-> NoObjective, finalVersion |-> 0,
          retries |-> 0]

IdleRequest == [phase |-> "Idle", job |-> NoJob, version |-> 0, stage |-> 1,
                errorCode |-> "NONE", objective |-> NoObjective]

Init ==
  /\ job = [j \in Jobs |-> NoRow]
  /\ dashboard \in [status: {"DRAFT"}, objective: Objectives,
                    analysed: {NoObjective}, version: {0}]
  /\ output = [j \in Jobs |-> [s \in Stages |-> 0]]
  /\ req = [r \in Requests |-> IdleRequest]
  /\ faults = 0

-----------------------------------------------------------------------------
nextAnalysisStage(s) == IF s < StageCount THEN s + 1 ELSE s

\* The status a successful stage leaves: GENERATING_INSIGHTS, the last stage but
\* one, and FINALIZING_DASHBOARD stop for review.
statusAfter(s) == IF s + 1 < StageCount THEN "RUNNING" ELSE "WAITING_FOR_APPROVAL"

\* Mutant: the objective is compared without a look at the dashboard's status.
canStartOnNewObjective == dashboard.objective # dashboard.analysed

canStartDashboardAnalysis ==
  \/ dashboard.status = "DRAFT"
  \/ /\ dashboard.status = "GENERATED"
     /\ dashboard.analysed # NoObjective
     /\ dashboard.objective # dashboard.analysed

\* retryAnalysisJob starts over when it has deleted what the stages wrote.
\* Mutants: STAGE_ORDER counted from zero; the stage is left where it failed.
retryStageFromZero(rebuild, s) == IF rebuild THEN 0 ELSE s
retryStageKept(rebuild, s) == s

retryStage(rebuild, s) == IF rebuild THEN 1 ELSE s

\* Mutant: the claim does not change the run version.
claimedVersionUnchanged(version) == version

claimedVersion(version) == version + 1

\* Request r runs a stage handler under the claim it won.
HoldsClaim(r) == req[r].phase \in {"Handling", "Handled", "HandlerFailed"}

\* The WHERE clause of the heartbeat and of the success write.
\* Mutant: the status is not in it, as it is not in the failure write's.
StillRunningAny(r) == job[req[r].job].runVersion = req[r].version

StillRunning(r) ==
  /\ job[req[r].job].runVersion = req[r].version
  /\ job[req[r].job].status = "RUNNING"

ClaimAlive(j) ==
  \E r \in Requests : HoldsClaim(r) /\ req[r].job = j /\ req[r].version = job[j].runVersion

Finish(r) == req' = [req EXCEPT ![r] = IdleRequest]

-----------------------------------------------------------------------------
(* The dashboard and the creation of a job. *)

saveObjective(o) ==
  /\ dashboard' = [dashboard EXCEPT !.objective = o]
  /\ UNCHANGED <<job, output, req, faults>>

\* createAnalysisJob up to its transaction.  On an ANALYZING dashboard it only
\* returns the existing job or a conflict, and changes nothing.
createAnalysisJobCheck(r) ==
  /\ r \in Creators
  /\ req[r].phase = "Idle"
  /\ canStartDashboardAnalysis
  /\ req' = [req EXCEPT ![r] = [IdleRequest EXCEPT !.phase = "CreateChecked",
                                                   !.objective = dashboard.objective]]
  /\ UNCHANGED <<job, dashboard, output, faults>>

createAnalysisJobCommit(r) ==
  /\ req[r].phase = "CreateChecked"
  /\ \E j \in Jobs :
       /\ job[j].status = "ABSENT"
       /\ job' = [job EXCEPT ![j] = [NoRow EXCEPT !.status = "QUEUED",
                                                  !.objective = req[r].objective]]
  /\ dashboard' = [dashboard EXCEPT !.status = "ANALYZING"]
  /\ Finish(r)
  /\ UNCHANGED <<output, faults>>

-----------------------------------------------------------------------------
(* advanceAnalysisJob: read, claim, run the stage, write the outcome. *)

\* Any other status returns at once without touching the row.
advanceRead(r, j) ==
  /\ req[r].phase = "Idle"
  /\ job[j].status \in {"QUEUED", "RUNNING"}
  /\ req' = [req EXCEPT ![r] = [IdleRequest EXCEPT !.phase = "AdvanceRead", !.job = j,
                                   !.version = job[j].runVersion, !.stage = job[j].stage]]
  /\ UNCHANGED <<job, dashboard, output, faults>>

\* Mutant: the claim has no clause for a heartbeat that went stale.
ClaimableUnclaimed(j, version) ==
  /\ job[j].runVersion = version
  /\ job[j].status \in {"QUEUED", "RUNNING"} /\ job[j].heartbeat = "none"

Claimable(j, version) ==
  /\ job[j].runVersion = version
  /\ \/ job[j].status = "QUEUED"
     \/ job[j].status = "RUNNING" /\ job[j].heartbeat \in {"none", "stale"}

\* The stage that will run is the one read before the claim.
advanceClaim(r) ==
  /\ req[r].phase = "AdvanceRead"
  /\ Claimable(req[r].job, req[r].version)
  /\ job' = [job EXCEPT ![req[r].job].status = "RUNNING",
                        ![req[r].job].runVersion = claimedVersion(req[r].version),
                        ![req[r].job].heartbeat = "fresh",
                        ![req[r].job].errorCode = "NONE"]
  /\ req' = [req EXCEPT ![r].phase = "Handling", ![r].version = claimedVersion(@)]
  /\ UNCHANGED <<dashboard, output, faults>>

advanceConflict(r) ==
  /\ req[r].phase = "AdvanceRead"
  /\ ~Claimable(req[r].job, req[r].version)
  /\ Finish(r)
  /\ UNCHANGED <<job, dashboard, output, faults>>

\* onProgress of the streaming AI call.
reportHeartbeat(r) ==
  /\ req[r].phase = "Handling"
  /\ StillRunning(r)
  /\ job' = [job EXCEPT ![req[r].job].heartbeat = "fresh"]
  /\ UNCHANGED <<dashboard, output, req, faults>>

\* Five minutes pass.  A claim whose request is alive loses its heartbeat only
\* when the provider stalls, which counts as a fault.
heartbeatLapses(j) ==
  /\ job[j].status = "RUNNING"
  /\ job[j].heartbeat = "fresh"
  /\ \/ ~ClaimAlive(j) /\ UNCHANGED faults
     \/ ClaimAlive(j) /\ faults < MaxFaults /\ faults' = faults + 1
  /\ job' = [job EXCEPT ![j].heartbeat = "stale"]
  /\ UNCHANGED <<dashboard, output, req>>

InputsPresent(r) == \A w \in Reads[req[r].stage] : output[req[r].job][w] # 0

\* The handler persists its rows with upsert(update: {}), so rows that already
\* exist win, whoever wrote them.  No write of a handler checks the claim.
runStage(r) ==
  /\ req[r].phase = "Handling"
  /\ InputsPresent(r)
  /\ output' = [output EXCEPT ![req[r].job][req[r].stage] =
                  IF req[r].stage \in Writes /\ @ = 0 THEN req[r].version ELSE @]
  /\ req' = [req EXCEPT ![r].phase = "Handled"]
  /\ UNCHANGED <<job, dashboard, faults>>

\* A handler may fail before it persists anything or after it persisted some rows.
failStage(r, code) ==
  /\ req[r].phase \in {"Handling", "Handled"}
  /\ req' = [req EXCEPT ![r].phase = "HandlerFailed", ![r].errorCode = code]
  /\ UNCHANGED <<job, dashboard, output, faults>>

\* The failure write is fenced by the run version only, not by the status.
advanceFailed(r) ==
  /\ req[r].phase = "HandlerFailed"
  /\ job' = IF job[req[r].job].runVersion = req[r].version
            THEN [job EXCEPT ![req[r].job].status = "FAILED",
                             ![req[r].job].heartbeat = "none",
                             ![req[r].job].errorCode = req[r].errorCode]
            ELSE job
  /\ Finish(r)
  /\ UNCHANGED <<dashboard, output, faults>>

advanceApplied(r) ==
  /\ req[r].phase = "Handled"
  /\ job' = IF StillRunning(r)
            THEN [job EXCEPT ![req[r].job].stage = nextAnalysisStage(req[r].stage),
                             ![req[r].job].status = statusAfter(req[r].stage),
                             ![req[r].job].heartbeat = "none"]
            ELSE job
  /\ Finish(r)
  /\ UNCHANGED <<dashboard, output, faults>>

-----------------------------------------------------------------------------
(* retryAnalysisJob, cancelAnalysisJob, finalizeAnalysisDashboard. *)

retryRead(r, j) ==
  /\ r \in Retriers
  /\ req[r].phase = "Idle"
  /\ job[j].status = "FAILED"
  /\ job[j].retries < MaxRetries
  /\ req' = [req EXCEPT ![r] = [IdleRequest EXCEPT !.phase = "RetryRead", !.job = j,
                                                   !.errorCode = job[j].errorCode]]
  /\ UNCHANGED <<job, dashboard, output, faults>>

\* The update is by id alone: it neither rechecks FAILED nor bumps runVersion.
retryCommit(r) ==
  LET j == req[r].job
      rebuild == req[r].errorCode = "REBUILD"
  IN /\ req[r].phase = "RetryRead"
     /\ job' = [job EXCEPT ![j].status = "QUEUED",
                           ![j].errorCode = "NONE",
                           ![j].heartbeat = "none",
                           ![j].stage = retryStage(rebuild, @),
                           ![j].retries = @ + 1]
     /\ output' = IF rebuild THEN [output EXCEPT ![j] = [s \in Stages |-> 0]] ELSE output
     /\ Finish(r)
     /\ UNCHANGED <<dashboard, faults>>

cancelAnalysisJob(j) ==
  /\ job[j].status \in {"QUEUED", "RUNNING"}
  /\ job' = [job EXCEPT ![j].status = "CANCELLED", ![j].heartbeat = "none"]
  /\ UNCHANGED <<dashboard, output, req, faults>>

\* The approvals finalization also checks are modelled in AnalysisReview.  The job and the
\* versions of its dashboard are read by two SELECTs, outside a transaction.
finalizeReadJob(r, j) ==
  /\ req[r].phase = "Idle"
  /\ job[j].status = "WAITING_FOR_APPROVAL"
  /\ req' = [req EXCEPT ![r] = [IdleRequest EXCEPT !.phase = "FinalizeJobRead", !.job = j]]
  /\ UNCHANGED <<job, dashboard, output, faults>>

finalizeReadVersions(r) ==
  /\ req[r].phase = "FinalizeJobRead"
  /\ req' = [req EXCEPT ![r].phase = "FinalizeRead", ![r].version = dashboard.version + 1]
  /\ UNCHANGED <<job, dashboard, output, faults>>

\* unique (dashboardId, version) aborts the transaction of a request that lost; the job is
\* updated by its id, whatever its status is by then.
\* Mutant: without the constraint.
VersionIsFreeAlways(version) == TRUE

VersionIsFree(version) == version > dashboard.version

finalizeCommit(r) ==
  /\ req[r].phase = "FinalizeRead"
  /\ IF VersionIsFree(req[r].version)
     THEN /\ job' = [job EXCEPT ![req[r].job].status = "COMPLETED",
                                ![req[r].job].finalVersion = req[r].version]
          /\ dashboard' = [dashboard EXCEPT !.status = "GENERATED",
                                            !.version = req[r].version,
                                            !.analysed = job[req[r].job].objective]
     ELSE UNCHANGED <<job, dashboard>>
  /\ Finish(r)
  /\ UNCHANGED <<output, faults>>

\* The server process dies, or the platform ends the request, between two calls.
requestDies(r) ==
  /\ req[r].phase # "Idle"
  /\ faults < MaxFaults
  /\ faults' = faults + 1
  /\ Finish(r)
  /\ UNCHANGED <<job, dashboard, output>>

-----------------------------------------------------------------------------
\* What the server does by itself once a request has started.
ServerStep(r) ==
  \/ createAnalysisJobCommit(r)
  \/ advanceClaim(r) \/ advanceConflict(r)
  \/ runStage(r)
  \/ \E code \in ErrorCodes \ {"NONE"} : failStage(r, code)
  \/ advanceFailed(r) \/ advanceApplied(r)
  \/ retryCommit(r)
  \/ finalizeReadVersions(r) \/ finalizeCommit(r)

Next ==
  \/ \E o \in Objectives : saveObjective(o)
  \/ \E r \in Requests :
       \/ createAnalysisJobCheck(r)
       \/ ServerStep(r)
       \/ reportHeartbeat(r)
       \/ requestDies(r)
       \/ \E j \in Jobs : advanceRead(r, j) \/ retryRead(r, j) \/ finalizeReadJob(r, j)
  \/ \E j \in Jobs : heartbeatLapses(j) \/ cancelAnalysisJob(j)

Spec == Init /\ [][Next]_vars
-----------------------------------------------------------------------------
(* Fairness: a started request runs to its end (the provider, the database *)
(* and the platform all time out), the clock passes the age of an abandoned *)
(* heartbeat, and somebody who watches the job opens its page again, which  *)
(* calls advance.  Users, faults and successful stages are not fair.        *)

ClaimExpires(j) == ~ClaimAlive(j) /\ heartbeatLapses(j)

Fairness ==
  /\ \A r \in Requests : WF_vars(ServerStep(r))
  /\ \A j \in Jobs : WF_vars(ClaimExpires(j))
  /\ \A j \in Jobs : WF_vars(\E r \in Requests : advanceRead(r, j))

FairSpec == Spec /\ Fairness

-----------------------------------------------------------------------------
(* Properties. *)

\* Two requests that run a stage of one job never hold the same claim, and no
\* claim is newer than the row: the optimistic runVersion of advanceAnalysisJob
\* admits one owner at a time, whatever retries, cancels and stale takeovers do.
ClaimsAreFenced ==
  /\ \A r \in Requests : HoldsClaim(r) => req[r].version <= job[req[r].job].runVersion
  /\ \A r1, r2 \in Requests :
       (r1 # r2 /\ HoldsClaim(r1) /\ HoldsClaim(r2) /\ req[r1].job = req[r2].job)
         => req[r1].version # req[r2].version

\* A job stands at a stage only when every stage before it that persists rows has
\* done so: what an advance applies was written down before, and a retry never
\* deletes rows the remaining stages need.
StagesBehindAreBacked ==
  \A j \in Jobs : \A s \in Writes : s < job[j].stage => output[j][s] # 0

\* The version a dashboard shows is the final version of exactly one of its jobs, two jobs
\* never have the same one, and a completed job has one - however many reviewers finalize
\* the same job or different ones.  (An earlier version of a job may be superseded by a
\* second publication of the same job.)
VersionsBelongToJobs ==
  /\ \A j \in Jobs : job[j].finalVersion <= dashboard.version
  /\ dashboard.version > 0 => \E j \in Jobs : job[j].finalVersion = dashboard.version
  /\ \A j, k \in Jobs :
       job[j].finalVersion = job[k].finalVersion /\ job[j].finalVersion # 0 => j = k
  /\ \A j \in Jobs : job[j].status = "COMPLETED" => job[j].finalVersion # 0

\* More versions than jobs that have one: two finalizations of a job have both gone through.
JobIsPublishedTwice ==
  dashboard.version > Cardinality({j \in Jobs : job[j].finalVersion # 0})

\* While one user at a time starts analyses, the dashboard is ANALYZING exactly when one of
\* its jobs has not been completed: createAnalysisJob and finalizeAnalysisDashboard keep the
\* two rows in step, until a second publication of an earlier job comes between.
DashboardFollowsJob ==
  ~JobIsPublishedTwice =>
    Cardinality({j \in Jobs : job[j].status \notin {"ABSENT", "COMPLETED"}})
      = IF dashboard.status = "ANALYZING" THEN 1 ELSE 0

\* The dashboard agrees with its jobs: createAnalysisJob and finalizeAnalysisDashboard
\* keep status and versions in step with the jobs' rows, over any number of analyses.
DashboardFollowsJobs == VersionsBelongToJobs /\ DashboardFollowsJob

\* Read as the message of retryAnalysisJob states it, "Only a failed analysis job
\* can be retried": no other existing job goes back to QUEUED.
OnlyFailedJobsAreRetried ==
  [][\A j \in Jobs : (job'[j].status = "QUEUED" /\ job[j].status # "QUEUED")
       => job[j].status \in {"ABSENT", "FAILED"}]_vars

\* A job that is queued or running comes to rest: a dead server process or a
\* stalled provider delays it by one expired heartbeat, not for ever.
AnalysisSettles ==
  \A j \in Jobs : job[j].status \in {"QUEUED", "RUNNING"}
    ~> job[j].status \in {"WAITING_FOR_APPROVAL", "COMPLETED", "FAILED", "CANCELLED"}

\* The rows implement the lifecycle that AnalysisLifecycle states.
Lifecycle == INSTANCE AnalysisLifecycle
               WITH status <- [j \in Jobs |-> job[j].status],
                    stage <- [j \in Jobs |-> job[j].stage]

\* While one retry at a time is in flight, every step on the rows is a step of the
\* lifecycle or leaves it unchanged.
ImplementsLifecycle == Lifecycle!LifecycleSpec

\* Whatever overlaps, a job that has not been retried yet moves as the lifecycle says, its
\* first retry included: only that retry makes room for requests that act on what they read
\* before it.
UnretriedFollowLifecycle ==
  [][\A j \in Jobs : job[j].retries = 0 =>
       Lifecycle!JobNext(j) \/ UNCHANGED <<job[j].status, job[j].stage>>]_vars

\* The stages behind a job that has not been retried have left their rows.
UnretriedStagesAreBacked ==
  \A j \in Jobs : job[j].retries = 0 => \A s \in Writes : s < job[j].stage => output[j][s] # 0
=============================================================================
