--------------------------- MODULE AnalysisJobProofs ---------------------------
(***************************************************************************)
(* Proofs about AnalysisJob, for every number of jobs, requests, stages,   *)
(* retries and faults.                                                     *)
(***************************************************************************)
EXTENDS AnalysisJob, FiniteSetTheorems, TLAPS

\* The next stage of a stage is a stage, and so is 1, where a retry may start over.
LEMMA StageType ==
  /\ 1 \in Stages
  /\ \A s \in Stages : nextAnalysisStage(s) \in Stages
  /\ \A s \in Stages, rebuild \in BOOLEAN : retryStage(rebuild, s) \in Stages
<1>1. StageCount \in Nat /\ StageCount > 1
  BY PipelineAssumption
<1>2. \A s \in Stages : s \in Nat /\ s >= 1 /\ s <= StageCount
  BY <1>1 DEF Stages
<1>3. 1 \in Stages
  BY <1>1 DEF Stages
<1>4. \A s \in Stages : nextAnalysisStage(s) \in Stages
  BY <1>1, <1>2 DEF Stages, nextAnalysisStage
<1>5. \A s \in Stages, rebuild \in BOOLEAN : retryStage(rebuild, s) \in Stages
  BY <1>3 DEF retryStage
<1> QED BY <1>3, <1>4, <1>5

LEMMA StatusAfterType ==
  \A s \in Stages : statusAfter(s) \in Statuses
BY DEF statusAfter, Statuses

\* The names that the actions write, each a member of its set.
LEMMA Names ==
  /\ "QUEUED" \in Statuses /\ "RUNNING" \in Statuses /\ "COMPLETED" \in Statuses
  /\ "FAILED" \in Statuses /\ "CANCELLED" \in Statuses
  /\ "none" \in Heartbeats /\ "fresh" \in Heartbeats /\ "stale" \in Heartbeats
  /\ "NONE" \in ErrorCodes
  /\ "Handling" \in Phases /\ "HandlerFailed" \in Phases
BY DEF Statuses, Heartbeats, ErrorCodes, Phases

\* The rows that Init and the actions write out in full have their types.
LEMMA RowTypes ==
  /\ NoRow \in JobRows
  /\ IdleRequest \in RequestStates
BY StageType DEF NoRow, JobRows, IdleRequest, RequestStates, Statuses, Heartbeats,
                 ErrorCodes, Phases

\* A row stays one when an action writes some of its fields.
LEMMA RowChanges ==
  ASSUME NEW old \in JobRows, NEW st \in Statuses, NEW beat \in Heartbeats,
         NEW code \in ErrorCodes, NEW n \in Nat
  PROVE  /\ [old EXCEPT !.status = st, !.heartbeat = beat] \in JobRows
         /\ [old EXCEPT !.heartbeat = beat] \in JobRows
         /\ [old EXCEPT !.status = st, !.heartbeat = beat, !.runVersion = n,
                        !.errorCode = code] \in JobRows
         /\ [old EXCEPT !.status = st, !.heartbeat = beat, !.errorCode = code] \in JobRows
         /\ [old EXCEPT !.status = st, !.finalVersion = n] \in JobRows
<1>1. [old EXCEPT !.status = st, !.heartbeat = beat] \in JobRows
  BY DEF JobRows
<1>2. [old EXCEPT !.heartbeat = beat] \in JobRows
  BY DEF JobRows
<1>3. [old EXCEPT !.status = st, !.heartbeat = beat, !.runVersion = n, !.errorCode = code] \in JobRows
  BY DEF JobRows
<1>4. [old EXCEPT !.status = st, !.heartbeat = beat, !.errorCode = code] \in JobRows
  BY DEF JobRows
<1>5. [old EXCEPT !.status = st, !.finalVersion = n] \in JobRows
  BY DEF JobRows
<1> QED BY <1>1, <1>2, <1>3, <1>4, <1>5

LEMMA TypeInit == Init => TypeOK
<1> SUFFICES ASSUME Init PROVE TypeOK
  OBVIOUS
<1>1. job \in [Jobs -> JobRows]
  BY RowTypes DEF Init
<1>2. dashboard \in Dashboards
  BY DEF Init, Dashboards
<1>3. output \in [Jobs -> [Stages -> Nat]]
  BY DEF Init
<1>4. req \in [Requests -> RequestStates]
  BY RowTypes DEF Init
<1>5. \A r \in Requests : req[r].phase \notin {"Idle", "CreateChecked"} => req[r].job \in Jobs
  BY DEF Init, IdleRequest
<1>6. faults \in 0..MaxFaults
  BY BoundAssumption DEF Init
<1> QED BY <1>1, <1>2, <1>3, <1>4, <1>5, <1>6 DEF TypeOK

\* Request r becomes idle, whatever it was doing.
LEMMA FinishType ==
  ASSUME TypeOK, NEW r \in Requests, Finish(r)
  PROVE  /\ req' \in [Requests -> RequestStates]
         /\ \A q \in Requests : req'[q].phase \notin {"Idle", "CreateChecked"}
                                  => req'[q].job \in Jobs
BY RowTypes DEF TypeOK, Finish, IdleRequest

\* What a retry makes of the row it retries.
Retried(row, rebuild) ==
  [row EXCEPT !.status = "QUEUED", !.errorCode = "NONE", !.heartbeat = "none",
              !.stage = retryStage(rebuild, row.stage), !.retries = row.retries + 1]

LEMMA RetryWritesOneRow ==
  ASSUME TypeOK, NEW r \in Requests, retryCommit(r),
         NEW j, j = req[r].job, NEW rebuild, rebuild = (req[r].errorCode = "REBUILD")
  PROVE  /\ j \in Jobs /\ Retried(job[j], rebuild) \in JobRows
         /\ job' = [job EXCEPT ![j] = Retried(job[j], rebuild)]
         /\ Retried(job[j], rebuild).status = "QUEUED"
         /\ Retried(job[j], rebuild).runVersion = job[j].runVersion
         /\ Retried(job[j], rebuild).objective = job[j].objective
         /\ Retried(job[j], rebuild).finalVersion = job[j].finalVersion
         /\ Retried(job[j], rebuild).stage = retryStage(rebuild, job[j].stage)
         /\ Retried(job[j], rebuild).retries = job[j].retries + 1
<1>1. j \in Jobs /\ job \in [Jobs -> JobRows]
  BY DEF TypeOK, retryCommit
<1>2. job' = [job EXCEPT ![j].status = "QUEUED",
                         ![j].errorCode = "NONE",
                         ![j].heartbeat = "none",
                         ![j].stage = retryStage(rebuild, @),
                         ![j].retries = @ + 1]
  BY DEF retryCommit
<1>3. \A st : job' = [job EXCEPT ![j].status = "QUEUED",
                                 ![j].errorCode = "NONE",
                                 ![j].heartbeat = "none",
                                 ![j].stage = st,
                                 ![j].retries = @ + 1]
        => job' = [job EXCEPT ![j] = [job[j] EXCEPT
                     !.status = "QUEUED", !.errorCode = "NONE", !.heartbeat = "none",
                     !.stage = st, !.retries = job[j].retries + 1]]
  BY <1>1
<1>4. job' = [job EXCEPT ![j] = Retried(job[j], rebuild)]
  BY <1>1, <1>2, <1>3 DEF Retried
<1>5. job[j] \in JobRows /\ job[j].stage \in Stages /\ job[j].retries + 1 \in Nat
  BY <1>1 DEF JobRows
<1>6. retryStage(rebuild, job[j].stage) \in Stages
  BY <1>5, StageType
<1> DEFINE st == retryStage(rebuild, job[j].stage)
           n == job[j].retries + 1
<1>7. Retried(job[j], rebuild)
        = [status |-> "QUEUED", stage |-> st, runVersion |-> job[j].runVersion,
           heartbeat |-> "none", errorCode |-> "NONE", objective |-> job[j].objective,
           finalVersion |-> job[j].finalVersion, retries |-> n]
  <2> HIDE DEF st, n
  <2>1. Retried(job[j], rebuild)
          = [job[j] EXCEPT !.status = "QUEUED", !.errorCode = "NONE", !.heartbeat = "none",
                           !.stage = st, !.retries = n]
    BY DEF Retried, st, n
  <2> QED BY <1>5, <2>1 DEF JobRows
<1>8. /\ job[j].runVersion \in Nat /\ job[j].objective \in Objectives \cup {NoObjective}
      /\ job[j].finalVersion \in Nat /\ st \in Stages /\ n \in Nat
  BY <1>5, <1>6 DEF JobRows
<1> DEFINE row == Retried(job[j], rebuild)
<1>9. /\ row \in JobRows /\ row.status = "QUEUED" /\ row.runVersion = job[j].runVersion
      /\ row.objective = job[j].objective /\ row.finalVersion = job[j].finalVersion
      /\ row.stage = st /\ row.retries = n
  <2> HIDE DEF st, n, row
  <2>1. row = [status |-> "QUEUED", stage |-> st, runVersion |-> job[j].runVersion,
               heartbeat |-> "none", errorCode |-> "NONE", objective |-> job[j].objective,
               finalVersion |-> job[j].finalVersion, retries |-> n]
    BY <1>7 DEF row
  <2> QED BY <1>8, <2>1, Names DEF JobRows
<1> QED BY <1>1, <1>4, <1>9

\* A table stays one when one of its rows is replaced.
LEMMA RowReplaced ==
  ASSUME NEW Keys, NEW Rows, NEW table \in [Keys -> Rows], NEW key \in Keys, NEW row \in Rows
  PROVE  [table EXCEPT ![key] = row] \in [Keys -> Rows]
OBVIOUS

LEMMA TypeStep == TypeOK /\ [Next]_vars => TypeOK'
<1> SUFFICES ASSUME TypeOK, [Next]_vars PROVE TypeOK'
  OBVIOUS
<1> USE DEF TypeOK
<1>1. ASSUME NEW o \in Objectives, saveObjective(o) PROVE TypeOK'
  BY <1>1 DEF saveObjective, Dashboards
<1>2. ASSUME NEW r \in Requests, createAnalysisJobCheck(r) PROVE TypeOK'
  BY <1>2, RowTypes DEF createAnalysisJobCheck, RequestStates, IdleRequest, Phases, Dashboards
<1>3. ASSUME NEW r \in Requests, createAnalysisJobCommit(r) PROVE TypeOK'
  <2>1. PICK j \in Jobs : job' = [job EXCEPT ![j] = [NoRow EXCEPT !.status = "QUEUED",
                                                       !.objective = req[r].objective]]
    BY <1>3 DEF createAnalysisJobCommit
  <2>2. [NoRow EXCEPT !.status = "QUEUED", !.objective = req[r].objective] \in JobRows
    BY RowTypes DEF JobRows, NoRow, RequestStates, Statuses
  <2>3. job' \in [Jobs -> JobRows]
    BY <2>1, <2>2
  <2>4. dashboard' \in Dashboards
    BY <1>3 DEF createAnalysisJobCommit, Dashboards
  <2> QED BY <1>3, <2>3, <2>4, FinishType DEF createAnalysisJobCommit
<1>4. ASSUME NEW r \in Requests, NEW j \in Jobs, advanceRead(r, j) PROVE TypeOK'
  BY <1>4, RowTypes DEF advanceRead, RequestStates, IdleRequest, Phases, JobRows
<1>5. ASSUME NEW r \in Requests, advanceClaim(r) PROVE TypeOK'
  <2>1. req[r].job \in Jobs /\ req[r].version + 1 \in Nat
    BY <1>5 DEF advanceClaim, RequestStates
  <2>2. job' \in [Jobs -> JobRows]
    <3>1. job' = [job EXCEPT ![req[r].job].status = "RUNNING",
                             ![req[r].job].runVersion = req[r].version + 1,
                             ![req[r].job].heartbeat = "fresh",
                             ![req[r].job].errorCode = "NONE"]
      BY <1>5 DEF advanceClaim, claimedVersion
    <3> DEFINE row == [job[req[r].job] EXCEPT !.status = "RUNNING", !.heartbeat = "fresh",
                         !.runVersion = req[r].version + 1, !.errorCode = "NONE"]
    <3>2. row \in JobRows
      BY <2>1, Names, RowChanges
    <3>3. job' = [job EXCEPT ![req[r].job] = row]
      BY <2>1, <3>1
    <3> HIDE DEF row
    <3> QED BY <2>1, <3>2, <3>3
  <2>3. req' \in [Requests -> RequestStates]
    <3> DEFINE state == [req[r] EXCEPT !.phase = "Handling", !.version = @ + 1]
    <3>1. state \in RequestStates
      BY <2>1 DEF RequestStates, Phases
    <3>2. req' = [req EXCEPT ![r] = state]
      BY <1>5 DEF advanceClaim, claimedVersion
    <3> HIDE DEF state
    <3>3. req \in [Requests -> RequestStates]
      OBVIOUS
    <3> QED BY <3>1, <3>2, <3>3, RowReplaced
  <2>4. ASSUME NEW q \in Requests, req'[q].phase \notin {"Idle", "CreateChecked"}
        PROVE  req'[q].job \in Jobs
    <3>1. CASE q = r
      <4>1. req'[q].job = req[r].job
        BY <1>5, <3>1 DEF advanceClaim, RequestStates
      <4> QED BY <2>1, <4>1
    <3>2. CASE q # r
      BY <1>5, <2>4, <3>2 DEF advanceClaim
    <3> QED BY <3>1, <3>2
  <2> QED BY <1>5, <2>2, <2>3, <2>4 DEF advanceClaim
<1>6. ASSUME NEW r \in Requests, advanceConflict(r) PROVE TypeOK'
  BY <1>6, FinishType DEF advanceConflict
<1>7. ASSUME NEW r \in Requests, reportHeartbeat(r) PROVE TypeOK'
  <2> DEFINE row == [job[req[r].job] EXCEPT !.heartbeat = "fresh"]
  <2>1. req[r].job \in Jobs
    BY <1>7 DEF reportHeartbeat
  <2>2. row \in JobRows /\ job' = [job EXCEPT ![req[r].job] = row]
    <3>1. job[req[r].job] \in JobRows
      BY <2>1
    <3>2. row \in JobRows
      BY <3>1, Names, RowChanges
    <3>3. job' = [job EXCEPT ![req[r].job] = row]
      BY <1>7, <2>1 DEF reportHeartbeat
    <3> QED BY <3>2, <3>3
  <2> HIDE DEF row
  <2>3. job' \in [Jobs -> JobRows]
    BY <2>1, <2>2
  <2> QED BY <1>7, <2>3 DEF reportHeartbeat
<1>8. ASSUME NEW j \in Jobs, heartbeatLapses(j) PROVE TypeOK'
  <2> DEFINE row == [job[j] EXCEPT !.heartbeat = "stale"]
  <2>1. job' \in [Jobs -> JobRows]
    <3>1. row \in JobRows /\ job' = [job EXCEPT ![j] = row]
      BY <1>8 DEF heartbeatLapses, JobRows, Heartbeats
    <3> HIDE DEF row
    <3> QED BY <3>1
  <2>2. faults' \in 0..MaxFaults
    BY <1>8, BoundAssumption DEF heartbeatLapses
  <2> QED BY <1>8, <2>1, <2>2 DEF heartbeatLapses
<1>9. ASSUME NEW r \in Requests, runStage(r) PROVE TypeOK'
  <2>1. req[r].job \in Jobs /\ req[r].stage \in Stages /\ req[r].version \in Nat
    BY <1>9 DEF runStage, RequestStates
  <2>2. output' \in [Jobs -> [Stages -> Nat]]
    BY <1>9, <2>1 DEF runStage
  <2>3. req' \in [Requests -> RequestStates]
    <3> DEFINE state == [req[r] EXCEPT !.phase = "Handled"]
    <3>1. state \in RequestStates /\ req' = [req EXCEPT ![r] = state]
      BY <1>9 DEF runStage, RequestStates, Phases
    <3> HIDE DEF state
    <3> QED BY <3>1
  <2> QED BY <1>9, <2>1, <2>2, <2>3 DEF runStage
<1>10. ASSUME NEW r \in Requests, NEW code \in ErrorCodes, failStage(r, code) PROVE TypeOK'
  <2>1. req' \in [Requests -> RequestStates]
    <3> DEFINE q == [req[r] EXCEPT !.phase = "HandlerFailed", !.errorCode = code]
    <3>1. q \in RequestStates
      BY Names DEF RequestStates
    <3>2. req' = [req EXCEPT ![r] = q]
      BY <1>10 DEF failStage
    <3> HIDE DEF q
    <3> QED BY <3>1, <3>2
  <2> QED BY <1>10, <2>1 DEF failStage
<1>11. ASSUME NEW r \in Requests, advanceFailed(r) PROVE TypeOK'
  <2>1. req[r].job \in Jobs /\ req[r].errorCode \in ErrorCodes
    BY <1>11 DEF advanceFailed, RequestStates
  <2>2. job' \in [Jobs -> JobRows]
    <3>1. CASE job' = job
      BY <3>1
    <3>2. CASE job' = [job EXCEPT ![req[r].job].status = "FAILED",
                                  ![req[r].job].heartbeat = "none",
                                  ![req[r].job].errorCode = req[r].errorCode]
      <4> DEFINE row == [job[req[r].job] EXCEPT !.status = "FAILED", !.heartbeat = "none",
                                                !.errorCode = req[r].errorCode]
      <4>1. row \in JobRows
        BY <2>1, Names, RowChanges
      <4>2. job' = [job EXCEPT ![req[r].job] = row]
        BY <2>1, <3>2
      <4> QED BY <2>1, <4>1, <4>2
    <3> QED BY <1>11, <3>1, <3>2 DEF advanceFailed
  <2> QED BY <1>11, <2>2, FinishType DEF advanceFailed
<1>12. ASSUME NEW r \in Requests, advanceApplied(r) PROVE TypeOK'
  <2>1. req[r].job \in Jobs /\ req[r].stage \in Stages
    BY <1>12 DEF advanceApplied, RequestStates
  <2>2. nextAnalysisStage(req[r].stage) \in Stages /\ statusAfter(req[r].stage) \in Statuses
    BY <2>1, StageType, StatusAfterType
  <2>3. job' \in [Jobs -> JobRows]
    <3>1. CASE job' = job
      BY <3>1
    <3>2. CASE job' = [job EXCEPT ![req[r].job].stage = nextAnalysisStage(req[r].stage),
                                  ![req[r].job].status = statusAfter(req[r].stage),
                                  ![req[r].job].heartbeat = "none"]
      <4> DEFINE row == [job[req[r].job] EXCEPT !.stage = nextAnalysisStage(req[r].stage),
                           !.status = statusAfter(req[r].stage), !.heartbeat = "none"]
      <4>1. row \in JobRows
        <5>1. job[req[r].job] \in JobRows
          BY <2>1
        <5> QED BY <2>2, <5>1, Names DEF JobRows
      <4>2. job' = [job EXCEPT ![req[r].job] = row]
        BY <2>1, <3>2
      <4> QED BY <2>1, <4>1, <4>2
    <3> QED BY <1>12, <3>1, <3>2 DEF advanceApplied
  <2> QED BY <1>12, <2>3, FinishType DEF advanceApplied
<1>13. ASSUME NEW r \in Requests, NEW j \in Jobs, retryRead(r, j) PROVE TypeOK'
  BY <1>13, RowTypes DEF retryRead, RequestStates, IdleRequest, Phases, JobRows
<1>14. ASSUME NEW r \in Requests, retryCommit(r) PROVE TypeOK'
  <2> DEFINE rebuild == req[r].errorCode = "REBUILD"
  <2>1. req[r].job \in Jobs
    BY <1>14 DEF retryCommit
  <2>3. job' \in [Jobs -> JobRows]
    <3> DEFINE row == Retried(job[req[r].job], rebuild)
    <3>1. row \in JobRows /\ job' = [job EXCEPT ![req[r].job] = row]
      BY <1>14, RetryWritesOneRow
    <3> HIDE DEF row
    <3> QED BY <2>1, <3>1
  <2>4. output' \in [Jobs -> [Stages -> Nat]]
    BY <1>14, <2>1 DEF retryCommit
  <2> QED BY <1>14, <2>3, <2>4, FinishType DEF retryCommit
<1>15. ASSUME NEW j \in Jobs, cancelAnalysisJob(j) PROVE TypeOK'
  <2> DEFINE row == [job[j] EXCEPT !.status = "CANCELLED", !.heartbeat = "none"]
  <2>1. row \in JobRows
    BY Names, RowChanges
  <2>2. job' = [job EXCEPT ![j] = row]
    BY <1>15 DEF cancelAnalysisJob
  <2> HIDE DEF row
  <2>3. job' \in [Jobs -> JobRows]
    BY <2>1, <2>2
  <2> QED BY <1>15, <2>3 DEF cancelAnalysisJob
<1>16. ASSUME NEW r \in Requests, NEW j \in Jobs, finalizeReadJob(r, j) PROVE TypeOK'
  BY <1>16, RowTypes DEF finalizeReadJob, RequestStates, IdleRequest, Phases
<1>20. ASSUME NEW r \in Requests, finalizeReadVersions(r) PROVE TypeOK'
  <2> DEFINE n == dashboard.version + 1
             state == [req[r] EXCEPT !.phase = "FinalizeRead", !.version = n]
  <2>1. n \in Nat
    BY DEF Dashboards
  <2>2. req' = [req EXCEPT ![r] = state] /\ req \in [Requests -> RequestStates]
    BY <1>20 DEF finalizeReadVersions
  <2> HIDE DEF n
  <2>3. state \in RequestStates /\ state.job = req[r].job
    BY <2>1 DEF RequestStates, Phases
  <2> HIDE DEF state
  <2>4. /\ req' \in [Requests -> RequestStates] /\ req'[r] = state
        /\ \A q \in Requests : q # r => req'[q] = req[q]
    BY <2>2, <2>3, RowReplaced
  <2>5. req[r].job \in Jobs
    BY <1>20 DEF finalizeReadVersions
  <2> QED BY <1>20, <2>3, <2>4, <2>5 DEF finalizeReadVersions
<1>17. ASSUME NEW r \in Requests, finalizeCommit(r) PROVE TypeOK'
  <2>1. req[r].job \in Jobs /\ req[r].version \in Nat
    BY <1>17 DEF finalizeCommit, RequestStates
  <2>2. job' \in [Jobs -> JobRows]
    <3>1. CASE job' = job
      BY <3>1
    <3>2. CASE job' = [job EXCEPT ![req[r].job].status = "COMPLETED",
                                  ![req[r].job].finalVersion = req[r].version]
      <4> DEFINE row == [job[req[r].job] EXCEPT !.status = "COMPLETED",
                                                !.finalVersion = req[r].version]
      <4>1. row \in JobRows
        BY <2>1, Names, RowChanges
      <4>2. job' = [job EXCEPT ![req[r].job] = row]
        BY <2>1, <3>2
      <4> HIDE DEF row
      <4> QED BY <2>1, <4>1, <4>2
    <3> QED BY <1>17, <3>1, <3>2 DEF finalizeCommit
  <2>3. job[req[r].job].objective \in Objectives \cup {NoObjective}
    BY <2>1 DEF JobRows
  <2>4. dashboard' \in Dashboards
    BY <1>17, <2>1, <2>3 DEF finalizeCommit, Dashboards
  <2> QED BY <1>17, <2>2, <2>4, FinishType DEF finalizeCommit
<1>18. ASSUME NEW r \in Requests, requestDies(r) PROVE TypeOK'
  <2>1. faults' \in 0..MaxFaults
    BY <1>18, BoundAssumption DEF requestDies
  <2> QED BY <1>18, <2>1, FinishType DEF requestDies
<1>19. CASE UNCHANGED vars
  BY <1>19 DEF vars
<1> QED
  BY <1>1, <1>2, <1>3, <1>4, <1>5, <1>6, <1>7, <1>8, <1>9, <1>10, <1>11, <1>12, <1>13,
     <1>14, <1>15, <1>16, <1>17, <1>18, <1>19, <1>20 DEF Next, ServerStep

\* Every reachable state of the analysis job is well typed.
THEOREM TypeCorrect == Spec => []TypeOK
<1>1. Init => TypeOK
  BY TypeInit
<1>2. TypeOK /\ [Next]_vars => TypeOK'
  BY TypeStep
<1> QED BY <1>1, <1>2, PTL DEF Spec
-----------------------------------------------------------------------------
(* What the writes of an advance leave in the rows. *)

LEMMA ClaimWrites ==
  ASSUME TypeOK, NEW r \in Requests, advanceClaim(r)
  PROVE  LET j == req[r].job
         IN /\ j \in Jobs
            /\ job'[j].status = "RUNNING" /\ job'[j].runVersion = req[r].version + 1
            /\ job'[j].stage = job[j].stage /\ job'[j].finalVersion = job[j].finalVersion
            /\ job'[j].retries = job[j].retries
            /\ \A k \in Jobs : k # j => job'[k] = job[k]
<1> DEFINE j == req[r].job
           row == [job[j] EXCEPT !.status = "RUNNING", !.runVersion = req[r].version + 1,
                                 !.heartbeat = "fresh", !.errorCode = "NONE"]
<1>1. j \in Jobs /\ job \in [Jobs -> JobRows]
  BY DEF advanceClaim, TypeOK
<1>2. job[j] \in JobRows
  BY <1>1
<1>3. row.status = "RUNNING" /\ row.runVersion = req[r].version + 1
      /\ row.stage = job[j].stage /\ row.finalVersion = job[j].finalVersion
      /\ row.retries = job[j].retries
  BY <1>2 DEF JobRows
<1>4. job' = [job EXCEPT ![j] = row]
  BY <1>1 DEF advanceClaim, claimedVersion
<1> HIDE DEF row, j
<1>5. job'[j] = row /\ \A k \in Jobs : k # j => job'[k] = job[k]
  BY <1>1, <1>4
<1> QED BY <1>1, <1>3, <1>5 DEF j

LEMMA FailureWrites ==
  ASSUME TypeOK, NEW r \in Requests, advanceFailed(r)
  PROVE  LET j == req[r].job
         IN /\ j \in Jobs
            /\ \A k \in Jobs : k # j => job'[k] = job[k]
            /\ \/ job'[j] = job[j]
               \/ /\ job[j].runVersion = req[r].version
                  /\ job'[j].status = "FAILED" /\ job'[j].runVersion = job[j].runVersion
                  /\ job'[j].stage = job[j].stage /\ job'[j].finalVersion = job[j].finalVersion
                  /\ job'[j].retries = job[j].retries
<1> DEFINE j == req[r].job
           row == [job[j] EXCEPT !.status = "FAILED", !.heartbeat = "none",
                                 !.errorCode = req[r].errorCode]
<1>1. j \in Jobs /\ job \in [Jobs -> JobRows]
  BY DEF advanceFailed, TypeOK
<1>2. job[j] \in JobRows
  BY <1>1
<1>3. row.status = "FAILED" /\ row.runVersion = job[j].runVersion
      /\ row.stage = job[j].stage /\ row.finalVersion = job[j].finalVersion
      /\ row.retries = job[j].retries
  BY <1>2 DEF JobRows
<1>4. job' = job \/ (job[j].runVersion = req[r].version /\ job' = [job EXCEPT ![j] = row])
  BY <1>1 DEF advanceFailed
<1> HIDE DEF row, j
<1>5. CASE job' = job
  BY <1>1, <1>5 DEF j
<1>6. CASE job[j].runVersion = req[r].version /\ job' = [job EXCEPT ![j] = row]
  <2>1. job'[j] = row /\ \A k \in Jobs : k # j => job'[k] = job[k]
    BY <1>1, <1>6
  <2> QED BY <1>1, <1>3, <1>6, <2>1 DEF j
<1> QED BY <1>4, <1>5, <1>6

LEMMA SuccessWrites ==
  ASSUME TypeOK, NEW r \in Requests, advanceApplied(r)
  PROVE  LET j == req[r].job
         IN /\ j \in Jobs
            /\ \A k \in Jobs : k # j => job'[k] = job[k]
            /\ \/ ~StillRunning(r) /\ job'[j] = job[j]
               \/ /\ StillRunning(r)
                  /\ job'[j].status = statusAfter(req[r].stage)
                  /\ job'[j].stage = nextAnalysisStage(req[r].stage)
                  /\ job'[j].runVersion = job[j].runVersion
                  /\ job'[j].finalVersion = job[j].finalVersion
                  /\ job'[j].retries = job[j].retries
<1> DEFINE j == req[r].job
           row == [job[j] EXCEPT !.stage = nextAnalysisStage(req[r].stage),
                                 !.status = statusAfter(req[r].stage), !.heartbeat = "none"]
<1>1. j \in Jobs /\ job \in [Jobs -> JobRows]
  BY DEF advanceApplied, TypeOK
<1>2. job[j] \in JobRows
  BY <1>1
<1>3. /\ row.status = statusAfter(req[r].stage) /\ row.stage = nextAnalysisStage(req[r].stage)
      /\ row.runVersion = job[j].runVersion /\ row.finalVersion = job[j].finalVersion
      /\ row.retries = job[j].retries
  BY <1>2 DEF JobRows
<1>4. \/ ~StillRunning(r) /\ job' = job
      \/ StillRunning(r) /\ job' = [job EXCEPT ![j] = row]
  BY <1>1 DEF advanceApplied
<1> HIDE DEF row, j
<1>5. CASE ~StillRunning(r) /\ job' = job
  BY <1>1, <1>5 DEF j
<1>6. CASE StillRunning(r) /\ job' = [job EXCEPT ![j] = row]
  <2>1. job'[j] = row /\ \A k \in Jobs : k # j => job'[k] = job[k]
    BY <1>1, <1>6
  <2> QED BY <1>1, <1>3, <1>6, <2>1 DEF j
<1> QED BY <1>4, <1>5, <1>6

-----------------------------------------------------------------------------
(* ClaimsAreFenced.  A claim is one more than the run version it was taken  *)
(* from, and no run version ever goes down: only the creation of a job sets *)
(* it, and no request can hold a claim on a row that does not exist yet.    *)

ClaimPhases == {"AdvanceRead", "Handling", "Handled", "HandlerFailed"}

FenceInv ==
  /\ \A r \in Requests : req[r].phase \in ClaimPhases =>
       /\ job[req[r].job].status # "ABSENT"
       /\ req[r].version <= job[req[r].job].runVersion
  /\ \A r1, r2 \in Requests :
       (r1 # r2 /\ HoldsClaim(r1) /\ HoldsClaim(r2) /\ req[r1].job = req[r2].job)
         => req[r1].version # req[r2].version

\* A job row that exists stays, and its run version never goes down.
RowsKept ==
  \A j \in Jobs : job[j].status # "ABSENT" =>
    job'[j].status # "ABSENT" /\ job'[j].runVersion = job[j].runVersion

\* No request gets hold of a job's run version that it did not have before.
RequestsKept ==
  \A r \in Requests : req'[r].phase \in ClaimPhases =>
    /\ req[r].phase \in ClaimPhases
    /\ req'[r].job = req[r].job /\ req'[r].version = req[r].version
    /\ HoldsClaim(r)' => HoldsClaim(r)

LEMMA FenceKept ==
  ASSUME TypeOK, FenceInv, RowsKept, RequestsKept
  PROVE  FenceInv'
<1>1. ASSUME NEW r \in Requests, req'[r].phase \in ClaimPhases
      PROVE  /\ job'[req'[r].job].status # "ABSENT"
             /\ req'[r].version <= job'[req'[r].job].runVersion
  <2>1. req[r].phase \in ClaimPhases /\ req'[r].job = req[r].job
        /\ req'[r].version = req[r].version
    BY <1>1 DEF RequestsKept
  <2>2. req[r].job \in Jobs
    BY <2>1 DEF TypeOK, ClaimPhases
  <2> QED BY <2>1, <2>2 DEF FenceInv, RowsKept
<1>2. ASSUME NEW r1 \in Requests, NEW r2 \in Requests,
             r1 # r2, HoldsClaim(r1)', HoldsClaim(r2)', req'[r1].job = req'[r2].job
      PROVE  req'[r1].version # req'[r2].version
  <2>1. req'[r1].phase \in ClaimPhases /\ req'[r2].phase \in ClaimPhases
    BY <1>2 DEF HoldsClaim, ClaimPhases
  <2> QED BY <1>2, <2>1 DEF RequestsKept, FenceInv
<1> QED BY <1>1, <1>2 DEF FenceInv

\* Of a request that becomes idle nothing is kept, and the others are untouched.
LEMMA FinishKeeps ==
  ASSUME TypeOK, NEW r \in Requests, Finish(r)
  PROVE  RequestsKept
BY DEF TypeOK, Finish, IdleRequest, RequestsKept, ClaimPhases, HoldsClaim

LEMMA FenceInit == Init => FenceInv
BY DEF Init, IdleRequest, FenceInv, HoldsClaim, ClaimPhases

LEMMA FenceStep == TypeOK /\ FenceInv /\ [Next]_vars => FenceInv'
<1> SUFFICES ASSUME TypeOK, FenceInv, [Next]_vars PROVE FenceInv'
  OBVIOUS
<1>1. ASSUME NEW o \in Objectives, saveObjective(o) PROVE FenceInv'
  BY <1>1, FenceKept DEF saveObjective, RowsKept, RequestsKept, HoldsClaim
<1>2. ASSUME NEW r \in Requests, createAnalysisJobCheck(r) PROVE FenceInv'
  <2>1. RequestsKept
    BY <1>2 DEF createAnalysisJobCheck, TypeOK, IdleRequest, RequestsKept, ClaimPhases,
                HoldsClaim
  <2> QED BY <1>2, <2>1, FenceKept DEF createAnalysisJobCheck, RowsKept
<1>3. ASSUME NEW r \in Requests, createAnalysisJobCommit(r) PROVE FenceInv'
  <2>1. RowsKept
    BY <1>3 DEF createAnalysisJobCommit, TypeOK, RowsKept
  <2>2. Finish(r)
    BY <1>3 DEF createAnalysisJobCommit
  <2> QED BY <2>1, <2>2, FinishKeeps, FenceKept
<1>4. ASSUME NEW r \in Requests, NEW j \in Jobs, advanceRead(r, j) PROVE FenceInv'
  <2>1. job' = job /\ job[j].status # "ABSENT"
    BY <1>4 DEF advanceRead
  <2>2. /\ req'[r].phase = "AdvanceRead" /\ req'[r].job = j
        /\ req'[r].version = job[j].runVersion
        /\ \A q \in Requests : q # r => req'[q] = req[q]
    BY <1>4 DEF advanceRead, TypeOK, IdleRequest
  <2>3. job[j].runVersion \in Nat
    BY DEF TypeOK, JobRows
  <2> QED BY <2>1, <2>2, <2>3 DEF FenceInv, HoldsClaim, ClaimPhases
<1>5. ASSUME NEW r \in Requests, advanceClaim(r) PROVE FenceInv'
  <2> DEFINE j == req[r].job
             n == req[r].version
  <2>1. j \in Jobs /\ n \in Nat /\ req[r].phase = "AdvanceRead"
    BY <1>5 DEF advanceClaim, TypeOK, RequestStates
  <2>2. job[j].runVersion = n
    BY <1>5 DEF advanceClaim, Claimable
  <2>3. /\ job'[j].status = "RUNNING" /\ job'[j].runVersion = n + 1
        /\ \A k \in Jobs : k # j => job'[k] = job[k]
    BY <1>5, ClaimWrites
  <2>4. /\ req'[r].phase = "Handling" /\ req'[r].job = j /\ req'[r].version = n + 1
        /\ \A q \in Requests : q # r => req'[q] = req[q]
    BY <1>5 DEF advanceClaim, claimedVersion, TypeOK, RequestStates
  <2>5. \A q \in Requests : req[q].phase \in ClaimPhases =>
          req[q].job \in Jobs /\ req[q].version \in Nat
    BY DEF TypeOK, RequestStates, ClaimPhases
  <2>6. ASSUME NEW q \in Requests, q # r, req[q].phase \in ClaimPhases
        PROVE  /\ job'[req[q].job].status # "ABSENT"
               /\ req[q].version <= job'[req[q].job].runVersion
               /\ req[q].job = j => req[q].version < n + 1
    <3>1. req[q].job \in Jobs /\ req[q].version \in Nat
      BY <2>5, <2>6
    <3>2. job[req[q].job].status # "ABSENT" /\ req[q].version <= job[req[q].job].runVersion
      BY <2>6 DEF FenceInv
    <3> HIDE DEF j, n
    <3> QED BY <2>1, <2>2, <2>3, <3>1, <3>2
  <2>7. \A q \in Requests : HoldsClaim(q) => req[q].phase \in ClaimPhases
    BY DEF HoldsClaim, ClaimPhases
  <2>8. \A q \in Requests : q # r => (HoldsClaim(q)' <=> HoldsClaim(q))
    BY <2>4 DEF HoldsClaim
  <2>9. ASSUME NEW q \in Requests, req'[q].phase \in ClaimPhases
        PROVE  /\ job'[req'[q].job].status # "ABSENT"
               /\ req'[q].version <= job'[req'[q].job].runVersion
    <3>1. CASE q = r
      BY <2>1, <2>3, <2>4, <3>1
    <3>2. CASE q # r
      BY <2>4, <2>6, <2>9, <3>2
    <3> QED BY <3>1, <3>2
  <2>10. ASSUME NEW q1 \in Requests, NEW q2 \in Requests, q1 # q2, HoldsClaim(q1)',
                HoldsClaim(q2)', req'[q1].job = req'[q2].job
         PROVE  req'[q1].version # req'[q2].version
    <3> HIDE DEF j, n
    <3>1. CASE q1 = r
      BY <2>1, <2>4, <2>5, <2>6, <2>7, <2>8, <2>10, <3>1
    <3>2. CASE q2 = r
      BY <2>1, <2>4, <2>5, <2>6, <2>7, <2>8, <2>10, <3>2
    <3>3. CASE q1 # r /\ q2 # r
      BY <2>4, <2>8, <2>10, <3>3 DEF FenceInv
    <3> QED BY <3>1, <3>2, <3>3
  <2> QED BY <2>9, <2>10 DEF FenceInv
<1>6. ASSUME NEW r \in Requests, advanceConflict(r) PROVE FenceInv'
  BY <1>6, FinishKeeps, FenceKept DEF advanceConflict, RowsKept
<1>7. ASSUME NEW r \in Requests, reportHeartbeat(r) PROVE FenceInv'
  <2>1. RowsKept
    BY <1>7 DEF reportHeartbeat, TypeOK, JobRows, RowsKept
  <2> QED BY <1>7, <2>1, FenceKept DEF reportHeartbeat, RequestsKept, HoldsClaim
<1>8. ASSUME NEW j \in Jobs, heartbeatLapses(j) PROVE FenceInv'
  <2>1. RowsKept
    BY <1>8 DEF heartbeatLapses, TypeOK, JobRows, RowsKept
  <2> QED BY <1>8, <2>1, FenceKept DEF heartbeatLapses, RequestsKept, HoldsClaim
<1>9. ASSUME NEW r \in Requests, runStage(r) PROVE FenceInv'
  <2>1. RequestsKept
    BY <1>9 DEF runStage, TypeOK, RequestStates, RequestsKept, ClaimPhases, HoldsClaim
  <2> QED BY <1>9, <2>1, FenceKept DEF runStage, RowsKept
<1>10. ASSUME NEW r \in Requests, NEW code \in ErrorCodes, failStage(r, code) PROVE FenceInv'
  <2>1. RequestsKept
    BY <1>10 DEF failStage, TypeOK, RequestStates, RequestsKept, ClaimPhases, HoldsClaim
  <2> QED BY <1>10, <2>1, FenceKept DEF failStage, RowsKept
<1>11. ASSUME NEW r \in Requests, advanceFailed(r) PROVE FenceInv'
  <2>1. RowsKept
    BY <1>11, FailureWrites DEF RowsKept
  <2> QED BY <1>11, <2>1, FinishKeeps, FenceKept DEF advanceFailed
<1>12. ASSUME NEW r \in Requests, advanceApplied(r) PROVE FenceInv'
  <2>1. \A s \in Stages : statusAfter(s) # "ABSENT"
    BY DEF statusAfter
  <2>2. req[r].stage \in Stages
    BY DEF TypeOK, RequestStates
  <2>3. RowsKept
    BY <1>12, <2>1, <2>2, SuccessWrites DEF RowsKept
  <2> QED BY <1>12, <2>3, FinishKeeps, FenceKept DEF advanceApplied
<1>13. ASSUME NEW r \in Requests, NEW j \in Jobs, retryRead(r, j) PROVE FenceInv'
  <2>1. RequestsKept
    BY <1>13 DEF retryRead, TypeOK, IdleRequest, RequestsKept, ClaimPhases, HoldsClaim
  <2> QED BY <1>13, <2>1, FenceKept DEF retryRead, RowsKept
<1>14. ASSUME NEW r \in Requests, retryCommit(r) PROVE FenceInv'
  <2>1. RowsKept
    <3> DEFINE j == req[r].job
               row == Retried(job[j], req[r].errorCode = "REBUILD")
    <3>1. /\ j \in Jobs /\ job' = [job EXCEPT ![j] = row] /\ row.status = "QUEUED"
          /\ row.runVersion = job[j].runVersion /\ job \in [Jobs -> JobRows]
      BY <1>14, RetryWritesOneRow DEF TypeOK
    <3> HIDE DEF j, row
    <3> QED BY <3>1 DEF RowsKept
  <2> QED BY <1>14, <2>1, FinishKeeps, FenceKept DEF retryCommit
<1>15. ASSUME NEW j \in Jobs, cancelAnalysisJob(j) PROVE FenceInv'
  <2>1. RowsKept
    BY <1>15 DEF cancelAnalysisJob, TypeOK, JobRows, RowsKept
  <2> QED BY <1>15, <2>1, FenceKept DEF cancelAnalysisJob, RequestsKept, HoldsClaim
<1>16. ASSUME NEW r \in Requests, NEW j \in Jobs, finalizeReadJob(r, j) PROVE FenceInv'
  <2>1. RequestsKept
    BY <1>16 DEF finalizeReadJob, TypeOK, IdleRequest, RequestsKept, ClaimPhases, HoldsClaim
  <2> QED BY <1>16, <2>1, FenceKept DEF finalizeReadJob, RowsKept
<1>20. ASSUME NEW r \in Requests, finalizeReadVersions(r) PROVE FenceInv'
  <2>1. RequestsKept
    BY <1>20 DEF finalizeReadVersions, TypeOK, RequestStates, RequestsKept, ClaimPhases, HoldsClaim
  <2> QED BY <1>20, <2>1, FenceKept DEF finalizeReadVersions, RowsKept
<1>17. ASSUME NEW r \in Requests, finalizeCommit(r) PROVE FenceInv'
  <2>1. RowsKept
    <3>1. CASE job' = job
      BY <3>1 DEF RowsKept
    <3>2. CASE job' = [job EXCEPT ![req[r].job].status = "COMPLETED",
                                  ![req[r].job].finalVersion = req[r].version]
      <4>1. job \in [Jobs -> JobRows]
        BY DEF TypeOK
      <4> QED BY <3>2, <4>1 DEF JobRows, RowsKept
    <3> QED BY <1>17, <3>1, <3>2 DEF finalizeCommit
  <2> QED BY <1>17, <2>1, FinishKeeps, FenceKept DEF finalizeCommit
<1>18. ASSUME NEW r \in Requests, requestDies(r) PROVE FenceInv'
  BY <1>18, FinishKeeps, FenceKept DEF requestDies, RowsKept
<1>19. CASE UNCHANGED vars
  BY <1>19, FenceKept DEF vars, RowsKept, RequestsKept, HoldsClaim
<1> QED
  BY <1>1, <1>2, <1>3, <1>4, <1>5, <1>6, <1>7, <1>8, <1>9, <1>10, <1>11, <1>12, <1>13,
     <1>14, <1>15, <1>16, <1>17, <1>18, <1>19, <1>20 DEF Next, ServerStep

LEMMA FenceImplies == TypeOK /\ FenceInv => ClaimsAreFenced
BY DEF FenceInv, ClaimsAreFenced, HoldsClaim, ClaimPhases

\* The optimistic run version of advanceAnalysisJob fences the stage handlers of a job
\* for any number of jobs, requests, stages, retries and faults.
THEOREM FencedClaims == Spec => []ClaimsAreFenced
<1>1. Init => TypeOK /\ FenceInv
  BY TypeInit, FenceInit
<1>2. TypeOK /\ FenceInv /\ [Next]_vars => (TypeOK /\ FenceInv)'
  BY TypeStep, FenceStep
<1>3. TypeOK /\ FenceInv => ClaimsAreFenced
  BY FenceImplies
<1> QED BY <1>1, <1>2, <1>3, PTL DEF Spec

-----------------------------------------------------------------------------
-----------------------------------------------------------------------------
(* The life of a job up to its first retry: it moves as AnalysisLifecycle  *)
(* says, and a stage is entered only on the rows of the stages before it,  *)
(* for every number of jobs, requests, stages and faults, and whatever     *)
(* happens to other jobs.  retryAnalysisJob reads FAILED and later updates *)
(* the row by its id alone: a request that acts on what it read before     *)
(* that may bring the row anywhere, and the statements say nothing of a    *)
(* job that has been retried.                                              *)

(* The inductive invariant.  A request can read the row, lose the race for *)
(* its stage, and claim it afterwards: applying a stage does not change    *)
(* the run version.  It then runs the stage again that has just been       *)
(* applied, and brings the row to where it is already.                     *)

Row(r) == job[req[r].job]
Fresh(r) == Row(r).retries = 0
IsCurrent(r) == req[r].version = Row(r).runVersion
Underway(r) == Row(r).status \in {"QUEUED", "RUNNING"}

\* The phases of a request that has read a job.
TrackedPhases == ClaimPhases \cup {"RetryRead", "FinalizeJobRead", "FinalizeRead"}

\* The stage of the request is the row's, or the one that was applied last.
StandsAt(r) ==
  \/ req[r].stage = Row(r).stage
  \/ req[r].stage + 1 = Row(r).stage /\ req[r].stage + 1 < StageCount

\* What a request has read exists, and is never deleted.
KnownJobs == \A r \in Requests : req[r].phase \in TrackedPhases => Row(r).status # "ABSENT"

ClaimsAreNumbered == \A r \in Requests : HoldsClaim(r) => req[r].version > 0

\* The failure write of the newest claim never hits a job that waits for review.
ClaimsAreOfRunning ==
  \A r \in Requests :
    Fresh(r) /\ HoldsClaim(r) /\ IsCurrent(r) => Row(r).status \in {"RUNNING", "CANCELLED"}

RequestsStand ==
  \A r \in Requests :
    Fresh(r) /\ req[r].phase \in ClaimPhases /\ IsCurrent(r) /\ Underway(r) => StandsAt(r)

\* While the newest claim is at work, those who have read the row since know its stage.
ReadersAreUpToDate ==
  \A r, q \in Requests :
    /\ Fresh(r) /\ HoldsClaim(r) /\ IsCurrent(r) /\ Underway(r)
    /\ req[q].phase = "AdvanceRead" /\ req[q].job = req[r].job /\ IsCurrent(q)
    => req[q].stage = Row(r).stage

HandledIsPersisted ==
  \A r \in Requests :
    Fresh(r) /\ req[r].phase = "Handled" /\ IsCurrent(r) /\ req[r].stage \in Writes
      => output[req[r].job][req[r].stage] # 0

RetriersFindFailed ==
  \A r \in Requests : Fresh(r) /\ req[r].phase = "RetryRead" => Row(r).status = "FAILED"

FinalizedWaits ==
  \A r \in Requests :
    Fresh(r) /\ req[r].phase \in {"FinalizeJobRead", "FinalizeRead"}
      => Row(r).status \in {"WAITING_FOR_APPROVAL", "COMPLETED"}

\* A job is created at the first stage.
AbsentAreFirst == \A j \in Jobs : job[j].status = "ABSENT" => job[j].stage = 1

StageInv ==
  /\ KnownJobs
  /\ AbsentAreFirst
  /\ ClaimsAreNumbered
  /\ ClaimsAreOfRunning
  /\ RequestsStand
  /\ ReadersAreUpToDate
  /\ HandledIsPersisted
  /\ RetriersFindFailed
  /\ FinalizedWaits
  /\ UnretriedStagesAreBacked

-----------------------------------------------------------------------------
(* The steps that stir nothing the invariant is about. *)

RowsStay ==
  /\ \A j \in Jobs : /\ job'[j].status = job[j].status
                     /\ job'[j].stage = job[j].stage
                     /\ job'[j].runVersion = job[j].runVersion
                     /\ job'[j].retries = job[j].retries
  /\ output' = output

\* Of a request that goes on, at most the outcome of its stage, or the version it is going
\* to publish, is new.
RequestsStay ==
  \A r \in Requests : req'[r].phase \in TrackedPhases =>
    /\ req[r].phase \in TrackedPhases
    /\ req'[r].job = req[r].job
    /\ req'[r].phase \in ClaimPhases =>
         req'[r].version = req[r].version /\ req'[r].stage = req[r].stage
    /\ \/ req'[r].phase = req[r].phase
       \/ HoldsClaim(r) /\ req'[r].phase = "HandlerFailed"
       \/ req[r].phase = "FinalizeJobRead" /\ req'[r].phase = "FinalizeRead"

LEMMA TrackedTypes ==
  ASSUME TypeOK
  PROVE  /\ \A r \in Requests : req[r].phase \in TrackedPhases => req[r].job \in Jobs
         /\ \A r \in Requests : req[r].version \in Nat /\ req[r].stage \in Stages
         /\ \A j \in Jobs : /\ job[j].status \in Statuses /\ job[j].stage \in Stages
                            /\ job[j].runVersion \in Nat /\ job[j].retries \in Nat
BY DEF TypeOK, TrackedPhases, ClaimPhases, RequestStates, JobRows

LEMMA StageKept ==
  ASSUME TypeOK, StageInv, RowsStay, RequestsStay
  PROVE  StageInv'
<1> USE TrackedTypes
    DEF StageInv, RowsStay, RequestsStay, TrackedPhases, ClaimPhases, HoldsClaim,
           IsCurrent, Underway, Row, Fresh
<1>1. KnownJobs'
  BY DEF KnownJobs
<1>2. AbsentAreFirst'
  BY DEF AbsentAreFirst
<1>3. ClaimsAreNumbered'
  BY DEF ClaimsAreNumbered
<1>4. ClaimsAreOfRunning'
  BY DEF ClaimsAreOfRunning
<1>5. RequestsStand'
  BY DEF RequestsStand, StandsAt
<1>6. ReadersAreUpToDate'
  BY DEF ReadersAreUpToDate
<1>7. HandledIsPersisted'
  BY DEF HandledIsPersisted
<1>8. RetriersFindFailed'
  BY DEF RetriersFindFailed
<1>9. FinalizedWaits'
  BY DEF FinalizedWaits
<1>10. UnretriedStagesAreBacked'
  BY DEF UnretriedStagesAreBacked
<1> QED BY <1>1, <1>2, <1>3, <1>4, <1>5, <1>6, <1>7, <1>8, <1>9,
       <1>10

LEMMA FinishStays ==
  ASSUME TypeOK, NEW r \in Requests, Finish(r)
  PROVE  RequestsStay
BY DEF TypeOK, Finish, IdleRequest, RequestsStay, TrackedPhases, ClaimPhases, HoldsClaim

LEMMA StageInit == Init => StageInv
<1> SUFFICES ASSUME Init PROVE StageInv
  OBVIOUS
<1>1. UnretriedStagesAreBacked
  BY PipelineAssumption DEF Init, NoRow, UnretriedStagesAreBacked, Stages
<1> QED
  BY <1>1 DEF Init, IdleRequest, NoRow, StageInv, KnownJobs, AbsentAreFirst, ClaimsAreNumbered,
              ClaimsAreOfRunning, RequestsStand, ReadersAreUpToDate, HandledIsPersisted,
              RetriersFindFailed, FinalizedWaits, HoldsClaim, TrackedPhases, ClaimPhases

-----------------------------------------------------------------------------
(* The steps that do. *)

\* A row that has been retried, or is being retried, is free to move.
LEMMA RetriedRowMoves ==
  ASSUME TypeOK, StageInv, NEW j \in Jobs, RequestsStay,
         job'[j].status # "ABSENT", job'[j].retries # 0,
         \A k \in Jobs : k # j => job'[k] = job[k] /\ output'[k] = output[k]
  PROVE  StageInv'
<1> USE TrackedTypes
    DEF StageInv, RequestsStay, TrackedPhases, ClaimPhases, HoldsClaim,
           IsCurrent, Underway, Row, Fresh
<1>1. KnownJobs'
  BY DEF KnownJobs
<1>2. AbsentAreFirst'
  BY DEF AbsentAreFirst
<1>3. ClaimsAreNumbered'
  BY DEF ClaimsAreNumbered
<1>4. ClaimsAreOfRunning'
  BY DEF ClaimsAreOfRunning
<1>5. RequestsStand'
  BY DEF RequestsStand, StandsAt
<1>6. ReadersAreUpToDate'
  BY DEF ReadersAreUpToDate
<1>7. HandledIsPersisted'
  BY DEF HandledIsPersisted
<1>8. RetriersFindFailed'
  BY DEF RetriersFindFailed
<1>9. FinalizedWaits'
  BY DEF FinalizedWaits
<1>10. UnretriedStagesAreBacked'
  BY DEF UnretriedStagesAreBacked
<1> QED BY <1>1, <1>2, <1>3, <1>4, <1>5, <1>6, <1>7, <1>8, <1>9,
       <1>10

\* A new job stands at its first stage, and nobody has read it.
LEMMA CreateKeepsStages ==
  ASSUME TypeOK, StageInv, NEW r \in Requests, createAnalysisJobCommit(r)
  PROVE  StageInv'
<1> USE TrackedTypes
<1>1. PICK j \in Jobs : /\ job[j].status = "ABSENT"
                        /\ job' = [job EXCEPT ![j] = [NoRow EXCEPT !.status = "QUEUED",
                                                         !.objective = req[r].objective]]
  BY DEF createAnalysisJobCommit
<1>2. /\ job'[j].stage = 1 /\ job'[j].status = "QUEUED"
      /\ \A k \in Jobs : k # j => job'[k] = job[k]
      /\ output' = output
  BY <1>1 DEF createAnalysisJobCommit, TypeOK, NoRow
<1>3. RequestsStay
  BY FinishStays DEF createAnalysisJobCommit
<1>4. \A q \in Requests : req[q].phase \in TrackedPhases => req[q].job # j
  BY <1>1 DEF StageInv, KnownJobs, Row
<1> USE <1>2, <1>3, <1>4
    DEF StageInv, RequestsStay, TrackedPhases, ClaimPhases, HoldsClaim,
           IsCurrent, Underway, Row, Fresh
<1>5. KnownJobs'
  BY DEF KnownJobs
<1>6. AbsentAreFirst'
  BY DEF AbsentAreFirst
<1>7. ClaimsAreNumbered'
  BY DEF ClaimsAreNumbered
<1>8. ClaimsAreOfRunning'
  BY DEF ClaimsAreOfRunning
<1>9. RequestsStand'
  BY DEF RequestsStand, StandsAt
<1>10. ReadersAreUpToDate'
  BY DEF ReadersAreUpToDate
<1>11. HandledIsPersisted'
  BY DEF HandledIsPersisted
<1>12. RetriersFindFailed'
  BY DEF RetriersFindFailed
<1>13. FinalizedWaits'
  BY DEF FinalizedWaits
<1>14. UnretriedStagesAreBacked'
  BY PipelineAssumption DEF UnretriedStagesAreBacked, Stages
<1> QED BY <1>5, <1>6, <1>7, <1>8, <1>9, <1>10, <1>11, <1>12, <1>13,
       <1>14

\* Who reads the row knows its stage, or what it waits for.
LEMMA ReadKeepsStages ==
  ASSUME TypeOK, StageInv, NEW r \in Requests, NEW j \in Jobs, job[j].status # "ABSENT",
         job' = job, output' = output, \A q \in Requests : q # r => req'[q] = req[q],
         req'[r].job = j,
         \/ req'[r].phase = "AdvanceRead" /\ req'[r].stage = job[j].stage
         \/ req'[r].phase = "RetryRead" /\ job[j].status = "FAILED"
         \/ req'[r].phase = "FinalizeJobRead" /\ job[j].status = "WAITING_FOR_APPROVAL"
  PROVE  StageInv'
<1> USE TrackedTypes
    DEF StageInv, TrackedPhases, ClaimPhases, HoldsClaim,
           IsCurrent, Underway, Row, Fresh
<1>1. KnownJobs'
  BY DEF KnownJobs
<1>2. AbsentAreFirst'
  BY DEF AbsentAreFirst
<1>3. ClaimsAreNumbered'
  BY DEF ClaimsAreNumbered
<1>4. ClaimsAreOfRunning'
  BY DEF ClaimsAreOfRunning
<1>5. RequestsStand'
  BY DEF RequestsStand, StandsAt
<1>6. ReadersAreUpToDate'
  BY DEF ReadersAreUpToDate
<1>7. HandledIsPersisted'
  BY DEF HandledIsPersisted
<1>8. RetriersFindFailed'
  BY DEF RetriersFindFailed
<1>9. FinalizedWaits'
  BY DEF FinalizedWaits
<1>10. UnretriedStagesAreBacked'
  BY DEF UnretriedStagesAreBacked
<1> QED BY <1>1, <1>2, <1>3, <1>4, <1>5, <1>6, <1>7, <1>8, <1>9,
       <1>10

\* The new claim is above all others, so nobody else is current.
LEMMA ClaimKeepsStages ==
  ASSUME TypeOK, FenceInv, StageInv, NEW r \in Requests, advanceClaim(r)
  PROVE  StageInv'
<1> USE TrackedTypes
<1> DEFINE j == req[r].job
           n == req[r].version
<1>1. j \in Jobs /\ n \in Nat /\ req[r].phase = "AdvanceRead" /\ job[j].runVersion = n
      /\ job[j].status \in {"QUEUED", "RUNNING"}
  BY DEF advanceClaim, Claimable, TrackedPhases, ClaimPhases
<1>2. /\ job'[j].status = "RUNNING" /\ job'[j].runVersion = n + 1
      /\ job'[j].stage = job[j].stage /\ job'[j].retries = job[j].retries
      /\ \A k \in Jobs : k # j => job'[k] = job[k]
      /\ output' = output
  BY ClaimWrites DEF advanceClaim
<1>3. /\ req'[r].phase = "Handling" /\ req'[r].job = j /\ req'[r].version = n + 1
      /\ req'[r].stage = req[r].stage
      /\ \A q \in Requests : q # r => req'[q] = req[q]
  BY DEF advanceClaim, claimedVersion, TypeOK, RequestStates
<1>4. \A q \in Requests : req[q].phase \in ClaimPhases /\ req[q].job = j => req[q].version <= n
  BY <1>1 DEF FenceInv
<1>5. \A q \in Requests :
        Fresh(q) /\ req[q].phase \in {"RetryRead", "FinalizeJobRead", "FinalizeRead"} => req[q].job # j
  BY <1>1 DEF StageInv, FinalizedWaits, RetriersFindFailed, Row
<1> HIDE DEF j, n
<1>6. Fresh(r) => StandsAt(r)'
  <2>1. Fresh(r) => StandsAt(r)
    BY <1>1 DEF StageInv, RequestsStand, IsCurrent, Underway, Row, ClaimPhases, j, n
  <2> QED BY <1>2, <1>3, <2>1 DEF StandsAt, Row, j
<1>7. \A q \in Requests : q # r /\ req'[q].phase \in ClaimPhases /\ req'[q].job = j
                            => ~IsCurrent(q)'
  BY <1>1, <1>2, <1>3, <1>4 DEF IsCurrent, Row
<1>8. Fresh(r)' => Fresh(r)
  BY <1>2, <1>3 DEF Fresh, Row, j
<1> USE <1>1, <1>2, <1>3, <1>5, <1>7 DEF StageInv, TrackedPhases, ClaimPhases, HoldsClaim, Row, Fresh
<1>9. KnownJobs'
  BY DEF KnownJobs
<1>10. AbsentAreFirst'
  BY DEF AbsentAreFirst
<1>11. ClaimsAreNumbered'
  BY DEF ClaimsAreNumbered
<1>12. ClaimsAreOfRunning'
  BY DEF ClaimsAreOfRunning, IsCurrent
<1>13. RequestsStand'
  <2> SUFFICES ASSUME NEW q \in Requests, Fresh(q)', req'[q].phase \in ClaimPhases,
                      IsCurrent(q)', Underway(q)'
               PROVE  StandsAt(q)'
    BY DEF RequestsStand
  <2>1. CASE q = r
    BY <1>6, <1>8, <2>1
  <2>2. CASE q # r
    <3>1. req[q].job # j /\ req[q].job \in Jobs
      BY <2>2
    <3> QED BY <2>2, <3>1 DEF RequestsStand, StandsAt, IsCurrent, Underway
  <2> QED BY <2>1, <2>2
<1>14. ReadersAreUpToDate'
  <2> SUFFICES ASSUME NEW p \in Requests, NEW q \in Requests,
                      Fresh(p)', HoldsClaim(p)', IsCurrent(p)', Underway(p)',
                      req'[q].phase = "AdvanceRead", req'[q].job = req'[p].job, IsCurrent(q)'
               PROVE  req'[q].stage = Row(p)'.stage
    BY DEF ReadersAreUpToDate
  <2>1. q # r /\ req'[q].job # j
    OBVIOUS
  <2>2. p # r /\ req[p].job # j /\ req[p].job \in Jobs
    BY <2>1
  <2> QED BY <2>1, <2>2 DEF ReadersAreUpToDate, IsCurrent, Underway
<1>15. HandledIsPersisted'
  BY DEF HandledIsPersisted, IsCurrent
<1>16. RetriersFindFailed'
  BY DEF RetriersFindFailed
<1>17. FinalizedWaits'
  BY DEF FinalizedWaits
<1>18. UnretriedStagesAreBacked'
  BY DEF UnretriedStagesAreBacked
<1> QED BY <1>9, <1>10, <1>11, <1>12, <1>13, <1>14, <1>15, <1>16, <1>17,
       <1>18

\* A handler only adds rows, and signs them with a claim that is not 0.
LEMMA RunKeepsStages ==
  ASSUME TypeOK, StageInv, NEW r \in Requests, runStage(r)
  PROVE  StageInv'
<1> USE TrackedTypes
<1>1. /\ req[r].phase = "Handling" /\ req'[r].phase = "Handled" /\ req'[r].job = req[r].job
      /\ req'[r].version = req[r].version /\ req'[r].stage = req[r].stage
      /\ \A q \in Requests : q # r => req'[q] = req[q]
      /\ job' = job
  BY DEF runStage, TypeOK, RequestStates
<1>2. req[r].version # 0 /\ req[r].job \in Jobs /\ req[r].stage \in Stages
  BY <1>1 DEF StageInv, ClaimsAreNumbered, HoldsClaim, TrackedPhases, ClaimPhases
<1>3. /\ \A k \in Jobs, s \in Stages : output[k][s] # 0 => output'[k][s] # 0
      /\ req[r].stage \in Writes => output'[req[r].job][req[r].stage] # 0
  BY <1>2 DEF runStage, TypeOK
<1> USE <1>1, <1>2, <1>3
    DEF StageInv, TrackedPhases, ClaimPhases, HoldsClaim,
           IsCurrent, Underway, Row, Fresh
<1>4. KnownJobs'
  BY DEF KnownJobs
<1>5. AbsentAreFirst'
  BY DEF AbsentAreFirst
<1>6. ClaimsAreNumbered'
  BY DEF ClaimsAreNumbered
<1>7. ClaimsAreOfRunning'
  BY DEF ClaimsAreOfRunning
<1>8. RequestsStand'
  BY DEF RequestsStand, StandsAt
<1>9. ReadersAreUpToDate'
  BY DEF ReadersAreUpToDate
<1>10. HandledIsPersisted'
  BY DEF HandledIsPersisted
<1>11. RetriersFindFailed'
  BY DEF RetriersFindFailed
<1>12. FinalizedWaits'
  BY DEF FinalizedWaits
<1>13. UnretriedStagesAreBacked'
  BY PipelineAssumption DEF UnretriedStagesAreBacked
<1> QED BY <1>4, <1>5, <1>6, <1>7, <1>8, <1>9, <1>10, <1>11, <1>12,
       <1>13

\* A step that takes one job out of QUEUED and RUNNING, to a status that the newest claim,
\* if it is still at work, the reviewers and the retriers may find.
LEMMA RestKeepsStages ==
  ASSUME TypeOK, StageInv, NEW j \in Jobs, RequestsStay, output' = output,
         job'[j].status \notin {"ABSENT", "QUEUED", "RUNNING"},
         job'[j].stage = job[j].stage, job'[j].runVersion = job[j].runVersion,
         job'[j].retries = job[j].retries,
         \A k \in Jobs : k # j => job'[k] = job[k],
         \A q \in Requests : job[j].retries = 0 /\ req[q].job = j =>
           /\ HoldsClaim(q) /\ req'[q].phase \in ClaimPhases /\ IsCurrent(q)
                => job'[j].status = "CANCELLED"
           /\ req'[q].phase \in {"FinalizeJobRead", "FinalizeRead"}
                => job'[j].status \in {"WAITING_FOR_APPROVAL", "COMPLETED"}
           /\ req'[q].phase = "RetryRead" => job'[j].status = "FAILED"
  PROVE  StageInv'
<1> USE TrackedTypes
    DEF StageInv, RequestsStay, TrackedPhases, ClaimPhases, HoldsClaim,
           IsCurrent, Underway, Row, Fresh
<1>1. KnownJobs'
  BY DEF KnownJobs
<1>2. AbsentAreFirst'
  BY DEF AbsentAreFirst
<1>3. ClaimsAreNumbered'
  BY DEF ClaimsAreNumbered
<1>4. ClaimsAreOfRunning'
  BY DEF ClaimsAreOfRunning
<1>5. RequestsStand'
  BY DEF RequestsStand, StandsAt
<1>6. ReadersAreUpToDate'
  BY DEF ReadersAreUpToDate
<1>7. HandledIsPersisted'
  BY DEF HandledIsPersisted
<1>8. RetriersFindFailed'
  BY DEF RetriersFindFailed
<1>9. FinalizedWaits'
  BY DEF FinalizedWaits
<1>10. UnretriedStagesAreBacked'
  BY DEF UnretriedStagesAreBacked
<1> QED BY <1>1, <1>2, <1>3, <1>4, <1>5, <1>6, <1>7, <1>8, <1>9,
       <1>10
LEMMA CancelKeepsStages ==
  ASSUME TypeOK, StageInv, NEW j \in Jobs, cancelAnalysisJob(j)
  PROVE  StageInv'
<1>1. /\ job[j].status \in {"QUEUED", "RUNNING"} /\ job'[j].status = "CANCELLED"
      /\ job'[j].stage = job[j].stage /\ job'[j].runVersion = job[j].runVersion
      /\ job'[j].retries = job[j].retries
      /\ \A k \in Jobs : k # j => job'[k] = job[k]
      /\ req' = req /\ output' = output
  BY DEF cancelAnalysisJob, TypeOK, JobRows
<1>2. RequestsStay
  BY <1>1 DEF RequestsStay
<1>3. \A q \in Requests : Fresh(q) /\ req[q].phase \in {"RetryRead", "FinalizeJobRead", "FinalizeRead"}
                            => req[q].job # j
  BY <1>1 DEF StageInv, FinalizedWaits, RetriersFindFailed, Row
<1> QED BY <1>1, <1>2, <1>3, RestKeepsStages DEF Fresh, Row

\* The failure write hits the row of the newest claim only, whose request is over then.
LEMMA FailKeepsStages ==
  ASSUME TypeOK, FenceInv, StageInv, NEW r \in Requests, advanceFailed(r)
  PROVE  StageInv'
<1> DEFINE j == req[r].job
<1>1. j \in Jobs /\ HoldsClaim(r) /\ RequestsStay /\ output' = output /\ Finish(r)
  BY FinishStays, TrackedTypes DEF advanceFailed, HoldsClaim, TrackedPhases, ClaimPhases
<1>2. CASE ~IsCurrent(r)
  <2>1. RowsStay
    BY <1>2 DEF advanceFailed, IsCurrent, Row, RowsStay
  <2> QED BY <1>1, <2>1, StageKept
<1>3. CASE IsCurrent(r)
  <2>1. /\ job'[j].status = "FAILED" /\ job'[j].stage = job[j].stage
        /\ job'[j].runVersion = job[j].runVersion /\ job'[j].retries = job[j].retries
        /\ \A k \in Jobs : k # j => job'[k] = job[k]
    BY <1>1, <1>3 DEF advanceFailed, IsCurrent, Row, TypeOK, JobRows
  <2>2. req'[r].phase = "Idle"
    BY <1>1 DEF Finish, TypeOK, IdleRequest
  <2>3. \A q \in Requests : q # r /\ HoldsClaim(q) /\ req[q].job = j => ~IsCurrent(q)
    BY <1>1, <1>3 DEF FenceInv, IsCurrent, Row
  <2>4. job[j].retries = 0 => job[j].status \in {"RUNNING", "CANCELLED"}
    BY <1>1, <1>3 DEF StageInv, ClaimsAreOfRunning, Row, Fresh
  <2>5. \A q \in Requests : job[j].retries = 0 /\ req[q].phase \in {"FinalizeJobRead", "FinalizeRead"}
                              => req[q].job # j
    BY <2>4 DEF StageInv, FinalizedWaits, Row, Fresh
  <2>6. \A q \in Requests : req'[q].phase \in {"FinalizeJobRead", "FinalizeRead"}
                              => req[q].phase \in {"FinalizeJobRead", "FinalizeRead"}
    BY <1>1 DEF RequestsStay, TrackedPhases, HoldsClaim
  <2> HIDE DEF j
  <2> QED BY <1>1, <2>1, <2>2, <2>3, <2>5, <2>6, RestKeepsStages DEF ClaimPhases
<1> QED BY <1>2, <1>3

\* A row that has not been retried moves on from the stage it stands at, or stays where the
\* stage was applied before.
LEMMA ApplyMoves ==
  ASSUME TypeOK, StageInv, NEW r \in Requests, advanceApplied(r), StillRunning(r),
         Fresh(r)
  PROVE  LET j == req[r].job
         IN /\ job[j].status = "RUNNING"
            /\ job'[j].runVersion = job[j].runVersion
            /\ job'[j].retries = job[j].retries
            /\ \A k \in Jobs : k # j => job'[k] = job[k]
            /\ \/ /\ req[r].stage = job[j].stage
                  /\ job'[j].stage = nextAnalysisStage(job[j].stage)
                  /\ job'[j].status = statusAfter(job[j].stage)
               \/ /\ req[r].stage + 1 = job[j].stage
                  /\ job'[j].stage = job[j].stage
                  /\ job'[j].status = "RUNNING"
<1> USE TrackedTypes
<1> DEFINE j == req[r].job
           s == req[r].stage
<1>1. j \in Jobs /\ s \in Stages /\ s \in Nat /\ job[j].stage \in Stages /\ StageCount \in Nat
  <2>1. j \in Jobs /\ s \in Stages /\ job[j].stage \in Stages
    BY DEF advanceApplied, TrackedPhases, ClaimPhases
  <2> HIDE DEF j, s
  <2> QED BY <2>1, PipelineAssumption DEF Stages
<1>2. job[j].status = "RUNNING" /\ StandsAt(r)
  BY DEF StillRunning, advanceApplied, StageInv, RequestsStand, IsCurrent, Underway, Row,
         ClaimPhases
<1>3. /\ job'[j].stage = nextAnalysisStage(s) /\ job'[j].status = statusAfter(s)
      /\ job'[j].runVersion = job[j].runVersion /\ job'[j].retries = job[j].retries
      /\ \A k \in Jobs : k # j => job'[k] = job[k]
  BY SuccessWrites
<1> HIDE DEF j, s
<1>4. CASE s = job[j].stage
  BY <1>2, <1>3, <1>4 DEF j, s
<1>5. CASE s + 1 = job[j].stage /\ s + 1 < StageCount
  BY <1>1, <1>2, <1>3, <1>5 DEF nextAnalysisStage, statusAfter, j, s
<1> QED BY <1>2, <1>4, <1>5 DEF StandsAt, Row, j, s

LEMMA ApplyKeepsStages ==
  ASSUME TypeOK, FenceInv, StageInv, NEW r \in Requests, advanceApplied(r)
  PROVE  StageInv'
<1> USE TrackedTypes
<1> DEFINE j == req[r].job
           s == req[r].stage
<1>1. /\ j \in Jobs /\ HoldsClaim(r) /\ RequestsStay /\ output' = output /\ Finish(r)
      /\ req[r].phase = "Handled"
  BY FinishStays DEF advanceApplied, HoldsClaim, TrackedPhases, ClaimPhases
<1>2. CASE ~StillRunning(r)
  <2>1. RowsStay
    BY <1>1, <1>2 DEF advanceApplied, RowsStay
  <2> QED BY <1>1, <2>1, StageKept
<1>4. CASE StillRunning(r) /\ ~Fresh(r)
  <2>1. /\ job'[j].status # "ABSENT" /\ job'[j].retries # 0
        /\ \A k \in Jobs : k # j => job'[k] = job[k]
    BY <1>1, <1>4, SuccessWrites DEF statusAfter, Fresh, Row
  <2> HIDE DEF j
  <2> QED BY <1>1, <2>1, RetriedRowMoves
<1>3. CASE StillRunning(r) /\ Fresh(r)
  <2>1. /\ job[j].status = "RUNNING" /\ IsCurrent(r) /\ Underway(r)
        /\ job'[j].runVersion = job[j].runVersion
        /\ job[j].retries = 0 /\ job'[j].retries = 0
        /\ \A k \in Jobs : k # j => job'[k] = job[k]
    BY <1>3, ApplyMoves DEF StillRunning, IsCurrent, Underway, Row, Fresh
  <2>2. \/ /\ s = job[j].stage
           /\ job'[j].stage = nextAnalysisStage(s) /\ job'[j].status = statusAfter(s)
        \/ s + 1 = job[j].stage /\ job'[j].stage = job[j].stage /\ job'[j].status = "RUNNING"
    BY <1>3, ApplyMoves
  <2>3. req'[r].phase = "Idle" /\ \A q \in Requests : q # r => req'[q] = req[q]
    BY <1>1 DEF Finish, TypeOK, IdleRequest
  <2>4. \A q \in Requests : q # r /\ HoldsClaim(q) /\ req[q].job = j => ~IsCurrent(q)
    BY <1>1, <2>1 DEF FenceInv, IsCurrent, Row
  <2>5. \A q \in Requests : req[q].phase \in {"RetryRead", "FinalizeJobRead", "FinalizeRead"}
                              => req[q].job # j
    BY <2>1 DEF StageInv, FinalizedWaits, RetriersFindFailed, Row, Fresh
  <2>6. \A q \in Requests : req[q].phase = "AdvanceRead" /\ req[q].job = j /\ IsCurrent(q)
                              => req[q].stage = job[j].stage
    BY <1>1, <2>1 DEF StageInv, ReadersAreUpToDate, Row, Fresh
  <2>7. s \in Nat /\ job[j].stage \in Nat /\ StageCount \in Nat /\ \A w \in Writes : w \in Nat
    <3>1. s \in Stages /\ job[j].stage \in Stages
      BY <1>1
    <3>2. Stages \subseteq Nat /\ StageCount \in Nat /\ Writes \subseteq Stages
      BY PipelineAssumption DEF Stages
    <3> QED BY <3>1, <3>2
  <2>8. s \in Writes => output[j][s] # 0
    BY <1>1, <2>1 DEF StageInv, HandledIsPersisted, Row, Fresh
  <2> HIDE DEF j, s
  <2> USE <1>1, <2>1, <2>3 DEF TrackedPhases, ClaimPhases, HoldsClaim, Row, Fresh
  <2>16. KnownJobs'
    BY <2>2 DEF StageInv, KnownJobs, statusAfter
  <2>0. AbsentAreFirst'
    BY <2>2 DEF StageInv, AbsentAreFirst, statusAfter
  <2>9. ClaimsAreNumbered'
    BY DEF StageInv, ClaimsAreNumbered
  <2>10. ClaimsAreOfRunning'
    BY <2>4 DEF StageInv, ClaimsAreOfRunning, IsCurrent
  <2>11. RequestsStand'
    <3> SUFFICES ASSUME NEW q \in Requests, Fresh(q)', req'[q].phase \in ClaimPhases,
                        IsCurrent(q)', Underway(q)'
                 PROVE  StandsAt(q)'
      BY DEF RequestsStand
    <3>1. q # r /\ req'[q] = req[q] /\ req[q].job \in Jobs
      OBVIOUS
    <3>2. CASE req[q].job # j
      BY <3>1, <3>2 DEF StageInv, RequestsStand, StandsAt, IsCurrent, Underway
    <3>3. CASE req[q].job = j
      <4>1. req[q].phase = "AdvanceRead" /\ req[q].stage = job[j].stage
        BY <2>4, <2>6, <3>1, <3>3 DEF IsCurrent
      <4>2. CASE s = job[j].stage
        <5>1. statusAfter(s) \in {"QUEUED", "RUNNING"} => s + 1 < StageCount
          BY DEF statusAfter
        <5>2. s + 1 < StageCount => nextAnalysisStage(s) = s + 1
          BY <2>7 DEF nextAnalysisStage
        <5> QED BY <2>2, <2>7, <3>1, <3>3, <4>1, <4>2, <5>1, <5>2 DEF StandsAt, Underway
      <4>3. CASE s # job[j].stage
        BY <2>2, <3>1, <3>3, <4>1, <4>3 DEF StandsAt
      <4> QED BY <4>2, <4>3
    <3> QED BY <3>2, <3>3
  <2>12. ReadersAreUpToDate'
    BY <2>4 DEF StageInv, ReadersAreUpToDate, IsCurrent, Underway
  <2>13. HandledIsPersisted'
    BY <2>4 DEF StageInv, HandledIsPersisted, IsCurrent
  <2>14. FinalizedWaits'
    BY <2>5 DEF StageInv, FinalizedWaits
  <2>17. RetriersFindFailed'
    BY <2>5 DEF StageInv, RetriersFindFailed
  <2>15. UnretriedStagesAreBacked'
    <3>1. \A w \in Writes : w < job'[j].stage => w < job[j].stage \/ (w = s /\ w \in Writes)
      BY <2>2, <2>7 DEF nextAnalysisStage
    <3> QED BY <2>8, <3>1 DEF StageInv, UnretriedStagesAreBacked
  <2> QED BY <2>0, <2>9, <2>10, <2>11, <2>12, <2>13, <2>14, <2>15, <2>16, <2>17
         DEF StageInv
<1> QED BY <1>2, <1>3, <1>4

\* The first retry of a row is a retry: what it leaves has been retried.
LEMMA RetryKeepsStages ==
  ASSUME TypeOK, StageInv, NEW r \in Requests, retryCommit(r)
  PROVE  StageInv'
<1> DEFINE j == req[r].job
           row == Retried(job[j], req[r].errorCode = "REBUILD")
<1>1. /\ j \in Jobs /\ job' = [job EXCEPT ![j] = row] /\ row.status = "QUEUED"
      /\ row.retries = job[j].retries + 1 /\ job \in [Jobs -> JobRows]
  BY RetryWritesOneRow DEF TypeOK
<1>2. \A k \in Jobs : k # j => output'[k] = output[k]
  BY <1>1 DEF retryCommit, TypeOK
<1>3. RequestsStay
  BY FinishStays DEF retryCommit
<1>4. job[j].retries \in Nat
  BY <1>1 DEF JobRows
<1> HIDE DEF j, row
<1>5. job'[j].status # "ABSENT" /\ job'[j].retries # 0 /\ \A k \in Jobs : k # j => job'[k] = job[k]
  BY <1>1, <1>4
<1> QED BY <1>1, <1>2, <1>3, <1>5, RetriedRowMoves

\* The update of finalizeAnalysisDashboard is by id, yet it finds a job that waits or that
\* another reviewer has completed: before a retry nothing leaves these two.
LEMMA FinalizeKeepsStages ==
  ASSUME TypeOK, StageInv, NEW r \in Requests, finalizeCommit(r)
  PROVE  StageInv'
<1> DEFINE j == req[r].job
<1>1. /\ j \in Jobs /\ RequestsStay /\ output' = output
      /\ job[j].retries = 0 => job[j].status \in {"WAITING_FOR_APPROVAL", "COMPLETED"}
  BY FinishStays, TrackedTypes DEF finalizeCommit, TrackedPhases, StageInv, FinalizedWaits, Row, Fresh
<1>2. CASE ~VersionIsFree(req[r].version)
  <2>1. RowsStay
    BY <1>1, <1>2 DEF finalizeCommit, RowsStay
  <2> QED BY <1>1, <2>1, StageKept
<1>3. CASE VersionIsFree(req[r].version)
  <2>1. /\ job'[j].status = "COMPLETED" /\ job'[j].stage = job[j].stage
        /\ job'[j].runVersion = job[j].runVersion /\ job'[j].retries = job[j].retries
        /\ \A k \in Jobs : k # j => job'[k] = job[k]
    BY <1>1, <1>3 DEF finalizeCommit, TypeOK, JobRows
  <2>2. \A q \in Requests : job[j].retries = 0 /\ HoldsClaim(q) /\ req[q].job = j => ~IsCurrent(q)
    BY <1>1 DEF StageInv, ClaimsAreOfRunning, Row, Fresh
  <2>3. \A q \in Requests : job[j].retries = 0 /\ req[q].phase = "RetryRead" => req[q].job # j
    BY <1>1 DEF StageInv, RetriersFindFailed, Row, Fresh
  <2>4. \A q \in Requests : req'[q].phase = "RetryRead" => req[q].phase = "RetryRead"
    BY <1>1 DEF RequestsStay, TrackedPhases, HoldsClaim
  <2> HIDE DEF j
  <2> QED BY <1>1, <2>1, <2>2, <2>3, <2>4, RestKeepsStages
<1> QED BY <1>2, <1>3

LEMMA StageStep ==
  TypeOK /\ FenceInv /\ StageInv /\ [Next]_vars => StageInv'
<1> SUFFICES ASSUME TypeOK, FenceInv, StageInv, [Next]_vars
             PROVE  StageInv'
  OBVIOUS
<1>1. ASSUME NEW o \in Objectives, saveObjective(o) PROVE StageInv'
  BY <1>1, StageKept DEF saveObjective, RowsStay, RequestsStay
<1>2. ASSUME NEW r \in Requests, createAnalysisJobCheck(r) PROVE StageInv'
  <2>1. RequestsStay
    BY <1>2 DEF createAnalysisJobCheck, TypeOK, IdleRequest, RequestsStay, TrackedPhases, ClaimPhases
  <2> QED BY <1>2, <2>1, StageKept DEF createAnalysisJobCheck, RowsStay
<1>3. ASSUME NEW r \in Requests, createAnalysisJobCommit(r) PROVE StageInv'
  BY <1>3, CreateKeepsStages
<1>4. ASSUME NEW r \in Requests, NEW j \in Jobs, advanceRead(r, j) PROVE StageInv'
  <2>1. req'[r].phase = "AdvanceRead" /\ req'[r].job = j /\ req'[r].stage = job[j].stage
    BY <1>4 DEF advanceRead, TypeOK, IdleRequest
  <2> QED BY <1>4, <2>1, ReadKeepsStages DEF advanceRead
<1>5. ASSUME NEW r \in Requests, advanceClaim(r) PROVE StageInv'
  BY <1>5, ClaimKeepsStages
<1>6. ASSUME NEW r \in Requests, advanceConflict(r) PROVE StageInv'
  BY <1>6, FinishStays, StageKept DEF advanceConflict, RowsStay
<1>7. ASSUME NEW r \in Requests, reportHeartbeat(r) PROVE StageInv'
  <2>1. RowsStay
    BY <1>7 DEF reportHeartbeat, TypeOK, JobRows, RowsStay
  <2> QED BY <1>7, <2>1, StageKept DEF reportHeartbeat, RequestsStay
<1>8. ASSUME NEW j \in Jobs, heartbeatLapses(j) PROVE StageInv'
  <2>1. RowsStay
    BY <1>8 DEF heartbeatLapses, TypeOK, JobRows, RowsStay
  <2> QED BY <1>8, <2>1, StageKept DEF heartbeatLapses, RequestsStay
<1>9. ASSUME NEW r \in Requests, runStage(r) PROVE StageInv'
  BY <1>9, RunKeepsStages
<1>10. ASSUME NEW r \in Requests, NEW code \in ErrorCodes, failStage(r, code) PROVE StageInv'
  <2>1. RequestsStay
    BY <1>10 DEF failStage, TypeOK, RequestStates, RequestsStay, TrackedPhases, ClaimPhases,
                 HoldsClaim
  <2> QED BY <1>10, <2>1, StageKept DEF failStage, RowsStay
<1>11. ASSUME NEW r \in Requests, advanceFailed(r) PROVE StageInv'
  BY <1>11, FailKeepsStages
<1>12. ASSUME NEW r \in Requests, advanceApplied(r) PROVE StageInv'
  BY <1>12, ApplyKeepsStages
<1>13. ASSUME NEW r \in Requests, NEW j \in Jobs, retryRead(r, j) PROVE StageInv'
  <2>1. req'[r].phase = "RetryRead" /\ req'[r].job = j
    BY <1>13 DEF retryRead, TypeOK, IdleRequest
  <2> QED BY <1>13, <2>1, ReadKeepsStages DEF retryRead
<1>14. ASSUME NEW r \in Requests, retryCommit(r) PROVE StageInv'
  BY <1>14, RetryKeepsStages
<1>15. ASSUME NEW j \in Jobs, cancelAnalysisJob(j) PROVE StageInv'
  BY <1>15, CancelKeepsStages
<1>16. ASSUME NEW r \in Requests, NEW j \in Jobs, finalizeReadJob(r, j) PROVE StageInv'
  <2>1. req'[r].phase = "FinalizeJobRead" /\ req'[r].job = j
    BY <1>16 DEF finalizeReadJob, TypeOK, IdleRequest
  <2> QED BY <1>16, <2>1, ReadKeepsStages DEF finalizeReadJob
<1>20. ASSUME NEW r \in Requests, finalizeReadVersions(r) PROVE StageInv'
  <2>1. RequestsStay
    BY <1>20 DEF finalizeReadVersions, TypeOK, RequestStates, RequestsStay, TrackedPhases, ClaimPhases,
                 HoldsClaim
  <2> QED BY <1>20, <2>1, StageKept DEF finalizeReadVersions, RowsStay
<1>17. ASSUME NEW r \in Requests, finalizeCommit(r) PROVE StageInv'
  BY <1>17, FinalizeKeepsStages
<1>18. ASSUME NEW r \in Requests, requestDies(r) PROVE StageInv'
  BY <1>18, FinishStays, StageKept DEF requestDies, RowsStay
<1>19. CASE UNCHANGED vars
  BY <1>19, StageKept DEF vars, RowsStay, RequestsStay
<1> QED
  BY <1>1, <1>2, <1>3, <1>4, <1>5, <1>6, <1>7, <1>8, <1>9, <1>10, <1>11, <1>12, <1>13,
     <1>14, <1>15, <1>16, <1>17, <1>18, <1>19, <1>20 DEF Next, ServerStep

\* A job that has not been retried stands only at a stage behind which all rows are written,
\* for any number of requests that advance, take over, cancel, finalize and die.
THEOREM UnretriedAreBacked == Spec => []UnretriedStagesAreBacked
<1> DEFINE Inv == TypeOK /\ FenceInv /\ StageInv
<1>1. Init => Inv
  BY TypeInit, FenceInit, StageInit
<1>2. Inv /\ [Next]_vars => Inv'
  BY TypeStep, FenceStep, StageStep
<1>3. Inv => UnretriedStagesAreBacked
  BY DEF StageInv
<1> QED BY <1>1, <1>2, <1>3, PTL DEF Spec

-----------------------------------------------------------------------------
(* The rows move as AnalysisLifecycle says. *)

\* What a step on one row does to the two functions of the lifecycle.
LEMMA OneRowMoves ==
  ASSUME NEW j \in Jobs, \A k \in Jobs : k # j => job'[k] = job[k]
  PROVE  /\ [k \in Jobs |-> job[k].status]' = [[k \in Jobs |-> job[k].status]
                                                 EXCEPT ![j] = job'[j].status]
         /\ [k \in Jobs |-> job[k].stage]' = [[k \in Jobs |-> job[k].stage]
                                                 EXCEPT ![j] = job'[j].stage]
         /\ job'[j].stage = job[j].stage
              => [k \in Jobs |-> job[k].stage]' = [k \in Jobs |-> job[k].stage]
         /\ [k \in Jobs |-> job[k].status][j] = job[j].status
         /\ [k \in Jobs |-> job[k].stage][j] = job[j].stage
OBVIOUS

Stutters(j) == job'[j].status = job[j].status /\ job'[j].stage = job[j].stage
Moves(j) == Lifecycle!JobNext(j) \/ Stutters(j)
AllMove == \A j \in Jobs : job[j].retries = 0 => Moves(j)

\* A step that leaves all rows but one where they are has to account for that one only.
LEMMA OthersStutter ==
  ASSUME NEW j \in Jobs, \A k \in Jobs : k # j => job'[k] = job[k],
         job[j].retries = 0 => Moves(j)
  PROVE  AllMove
BY DEF AllMove, Moves, Stutters

LEMMA StepMoves ==
  ASSUME TypeOK, StageInv, [Next]_vars
  PROVE  AllMove
<1> USE TrackedTypes
<1>1. RowsStay => AllMove
  BY DEF AllMove, Moves, Stutters, RowsStay
<1>2. ASSUME NEW r \in Requests, createAnalysisJobCommit(r) PROVE AllMove
  <2>1. PICK j \in Jobs : /\ job[j].status = "ABSENT"
                          /\ job' = [job EXCEPT ![j] = [NoRow EXCEPT !.status = "QUEUED",
                                                           !.objective = req[r].objective]]
    BY <1>2 DEF createAnalysisJobCommit
  <2>2. /\ job'[j].status = "QUEUED" /\ job'[j].stage = 1
        /\ \A k \in Jobs : k # j => job'[k] = job[k]
    BY <2>1 DEF TypeOK, NoRow
  <2>3. job'[j].stage = job[j].stage
    BY <2>1, <2>2 DEF StageInv, AbsentAreFirst
  <2>4. Lifecycle!Enter(j)
    BY <2>1, <2>2, <2>3, OneRowMoves DEF Lifecycle!Enter
  <2>5. Moves(j)
    BY <2>4 DEF Moves, Lifecycle!JobNext
  <2> QED BY <2>2, <2>5, OthersStutter
<1>3. ASSUME NEW r \in Requests, advanceClaim(r) PROVE AllMove
  <2>1. PICK j \in Jobs : j = req[r].job /\ job[j].status \in {"QUEUED", "RUNNING"}
    BY <1>3 DEF advanceClaim, Claimable, TrackedPhases, ClaimPhases
  <2>2. /\ job'[j].status = "RUNNING" /\ job'[j].stage = job[j].stage
        /\ \A k \in Jobs : k # j => job'[k] = job[k]
    BY <1>3, <2>1, ClaimWrites
  <2>3. job[j].status = "QUEUED" => Lifecycle!Start(j)
    BY <2>1, <2>2, OneRowMoves DEF Lifecycle!Start
  <2>4. job[j].status = "RUNNING" => Stutters(j)
    BY <2>2 DEF Stutters
  <2>5. Moves(j)
    BY <2>1, <2>3, <2>4 DEF Moves, Lifecycle!JobNext
  <2> QED BY <2>2, <2>5, OthersStutter
<1>4. ASSUME NEW r \in Requests, advanceFailed(r) PROVE AllMove
  <2>1. PICK j \in Jobs : j = req[r].job /\ HoldsClaim(r)
    BY <1>4 DEF advanceFailed, HoldsClaim, TrackedPhases, ClaimPhases
  <2>2. CASE ~IsCurrent(r)
    <3>1. RowsStay
      BY <1>4, <2>2 DEF advanceFailed, IsCurrent, Row, RowsStay
    <3> QED BY <1>1, <3>1
  <2>3. CASE IsCurrent(r)
    <3>1. job[j].retries = 0 => job[j].status \in {"RUNNING", "CANCELLED"}
      BY <2>1, <2>3 DEF StageInv, ClaimsAreOfRunning, Row, Fresh
    <3>2. /\ job'[j].status = "FAILED" /\ job'[j].stage = job[j].stage
          /\ \A k \in Jobs : k # j => job'[k] = job[k]
      BY <1>4, <2>1, <2>3 DEF advanceFailed, IsCurrent, Row, TypeOK, JobRows
    <3>3. job[j].retries = 0 => Lifecycle!FailStage(j)
      BY <2>1, <3>1, <3>2, OneRowMoves DEF Lifecycle!FailStage
    <3>4. job[j].retries = 0 => Moves(j)
      BY <3>3 DEF Moves, Lifecycle!JobNext
    <3> QED BY <3>2, <3>4, OthersStutter
  <2> QED BY <2>2, <2>3
<1>5. ASSUME NEW r \in Requests, advanceApplied(r) PROVE AllMove
  <2>1. PICK j \in Jobs : j = req[r].job
    BY <1>5 DEF advanceApplied, TrackedPhases, ClaimPhases
  <2>2. CASE ~StillRunning(r)
    <3>1. RowsStay
      BY <1>5, <2>2 DEF advanceApplied, RowsStay
    <3> QED BY <1>1, <3>1
  <2>3. CASE StillRunning(r) /\ Fresh(r)
    <3>1. /\ job[j].status = "RUNNING" /\ \A k \in Jobs : k # j => job'[k] = job[k]
          /\ \/ /\ job'[j].stage = nextAnalysisStage(job[j].stage)
                /\ job'[j].status = statusAfter(job[j].stage)
             \/ job'[j].stage = job[j].stage /\ job'[j].status = "RUNNING"
      BY <1>5, <2>1, <2>3, ApplyMoves
    <3>2. CASE /\ job'[j].stage = nextAnalysisStage(job[j].stage)
               /\ job'[j].status = statusAfter(job[j].stage)
      <4>1. /\ job'[j].stage = IF job[j].stage < StageCount THEN job[j].stage + 1 ELSE job[j].stage
            /\ job'[j].status = IF job[j].stage + 1 < StageCount THEN "RUNNING"
                                                                 ELSE "WAITING_FOR_APPROVAL"
        BY <3>2 DEF nextAnalysisStage, statusAfter
      <4>2. Lifecycle!CompleteStage(j)
        <5> DEFINE status == [k \in Jobs |-> job[k].status]
                   stage == [k \in Jobs |-> job[k].stage]
        <5>1. status[j] = "RUNNING" /\ stage[j] = job[j].stage
          BY <3>1
        <5>2. status' = [status EXCEPT ![j] = IF stage[j] + 1 < StageCount
                                              THEN "RUNNING" ELSE "WAITING_FOR_APPROVAL"]
          BY <2>1, <3>1, <4>1, <5>1
        <5>3. stage' = [stage EXCEPT ![j] = IF stage[j] < StageCount THEN stage[j] + 1
                                                                     ELSE stage[j]]
          BY <2>1, <3>1, <4>1, <5>1
        <5> QED BY <5>1, <5>2, <5>3 DEF Lifecycle!CompleteStage
      <4>3. Moves(j)
        BY <4>2 DEF Moves, Lifecycle!JobNext
      <4> QED BY <3>1, <4>3, OthersStutter
    <3>3. CASE job'[j].stage = job[j].stage /\ job'[j].status = "RUNNING"
      <4>1. Moves(j)
        BY <3>1, <3>3 DEF Moves, Stutters
      <4> QED BY <3>1, <4>1, OthersStutter
    <3> QED BY <3>1, <3>2, <3>3
  <2>4. CASE ~Fresh(r)
    <3>1. job[j].retries # 0 /\ \A k \in Jobs : k # j => job'[k] = job[k]
      BY <1>5, <2>1, <2>4, SuccessWrites DEF Fresh, Row
    <3> QED BY <3>1, OthersStutter
  <2> QED BY <2>2, <2>3, <2>4
<1>6. ASSUME NEW r \in Requests, retryCommit(r) PROVE AllMove
  <2>1. PICK j \in Jobs : j = req[r].job /\ req[r].phase = "RetryRead"
    BY <1>6 DEF retryCommit, TypeOK
  <2>2. /\ job'[j].status = "QUEUED" /\ job'[j].stage \in {1, job[j].stage}
        /\ \A k \in Jobs : k # j => job'[k] = job[k]
    <3> DEFINE row == Retried(job[j], req[r].errorCode = "REBUILD")
    <3>1. /\ job' = [job EXCEPT ![j] = row] /\ row.status = "QUEUED"
          /\ row.stage = retryStage(req[r].errorCode = "REBUILD", job[j].stage)
          /\ job \in [Jobs -> JobRows]
      BY <1>6, <2>1, RetryWritesOneRow DEF TypeOK
    <3>2. row.stage \in {1, job[j].stage}
      BY <3>1 DEF retryStage
    <3> HIDE DEF row
    <3> QED BY <3>1, <3>2
  <2>3. ASSUME job[j].retries = 0 PROVE Lifecycle!Retry(j)
    <3> DEFINE status == [k \in Jobs |-> job[k].status]
               stage == [k \in Jobs |-> job[k].stage]
    <3>1. job[j].status = "FAILED"
      BY <2>1, <2>3 DEF StageInv, RetriersFindFailed, Fresh, Row
    <3>2. status[j] = "FAILED" /\ status' = [status EXCEPT ![j] = "QUEUED"]
      BY <2>2, <3>1, OneRowMoves
    <3>3. stage' = stage \/ stage' = [stage EXCEPT ![j] = 1]
      BY <2>2, OneRowMoves
    <3> QED BY <3>2, <3>3 DEF Lifecycle!Retry
  <2>4. job[j].retries = 0 => Moves(j)
    BY <2>3 DEF Moves, Lifecycle!JobNext
  <2> QED BY <2>2, <2>4, OthersStutter
<1>7. ASSUME NEW j \in Jobs, cancelAnalysisJob(j) PROVE AllMove
  <2>1. /\ job[j].status \in {"QUEUED", "RUNNING"} /\ job'[j].status = "CANCELLED"
        /\ job'[j].stage = job[j].stage /\ \A k \in Jobs : k # j => job'[k] = job[k]
    BY <1>7 DEF cancelAnalysisJob, TypeOK, JobRows
  <2>2. Lifecycle!Stop(j)
    BY <2>1, OneRowMoves DEF Lifecycle!Stop
  <2>3. Moves(j)
    BY <2>2 DEF Moves, Lifecycle!JobNext
  <2> QED BY <2>1, <2>3, OthersStutter
<1>8. ASSUME NEW r \in Requests, finalizeCommit(r) PROVE AllMove
  <2>1. PICK j \in Jobs :
          /\ j = req[r].job
          /\ job[j].retries = 0 => job[j].status \in {"WAITING_FOR_APPROVAL", "COMPLETED"}
    BY <1>8 DEF finalizeCommit, TrackedPhases, StageInv, FinalizedWaits, Row, Fresh
  <2>2. CASE ~VersionIsFree(req[r].version)
    <3>1. RowsStay
      BY <1>8, <2>2 DEF finalizeCommit, RowsStay
    <3> QED BY <1>1, <3>1
  <2>3. CASE VersionIsFree(req[r].version)
    <3>1. /\ job'[j].status = "COMPLETED" /\ job'[j].stage = job[j].stage
          /\ \A k \in Jobs : k # j => job'[k] = job[k]
      BY <1>8, <2>1, <2>3 DEF finalizeCommit, TypeOK, JobRows
    <3>2. job[j].status = "WAITING_FOR_APPROVAL" => Lifecycle!Publish(j)
      BY <2>1, <3>1, OneRowMoves DEF Lifecycle!Publish
    <3>3. job[j].status = "COMPLETED" => Stutters(j)
      BY <3>1 DEF Stutters
    <3>4. job[j].retries = 0 => Moves(j)
      BY <2>1, <3>2, <3>3 DEF Moves, Lifecycle!JobNext
    <3> QED BY <3>1, <3>4, OthersStutter
  <2> QED BY <2>2, <2>3
<1>9. ASSUME NEW r \in Requests, reportHeartbeat(r) PROVE AllMove
  <2>1. RowsStay
    BY <1>9 DEF reportHeartbeat, TypeOK, JobRows, RowsStay
  <2> QED BY <1>1, <2>1
<1>10. ASSUME NEW j \in Jobs, heartbeatLapses(j) PROVE AllMove
  <2>1. RowsStay
    BY <1>10 DEF heartbeatLapses, TypeOK, JobRows, RowsStay
  <2> QED BY <1>1, <2>1
<1>11. ASSUME UNCHANGED job PROVE AllMove
  BY <1>11 DEF AllMove, Moves, Stutters
<1>12. CASE UNCHANGED vars
  BY <1>11, <1>12 DEF vars
<1>13. \A r \in Requests :
         \/ createAnalysisJobCheck(r) \/ advanceConflict(r) \/ requestDies(r) \/ runStage(r)
         \/ finalizeReadVersions(r)
         \/ \E code \in ErrorCodes \ {"NONE"} : failStage(r, code)
         \/ \E j \in Jobs : advanceRead(r, j) \/ retryRead(r, j) \/ finalizeReadJob(r, j)
         => AllMove
  BY <1>11 DEF createAnalysisJobCheck, advanceConflict, requestDies, runStage, failStage,
               advanceRead, retryRead, finalizeReadJob, finalizeReadVersions
<1>14. \A o \in Objectives : saveObjective(o) => AllMove
  BY <1>11 DEF saveObjective
<1> QED
  BY <1>2, <1>3, <1>4, <1>5, <1>6, <1>7, <1>8, <1>9, <1>10, <1>12, <1>13, <1>14
     DEF Next, ServerStep

\* Up to its first retry, and with it, a job shows its watchers the pipeline they expect, for
\* all the requests, claims, heartbeats and crashes of analysis-job-service.ts: one stage at a
\* time, a pause at FAILED that only the retry ends, a review and a publication after it.
THEOREM UnretriedAreAPipeline == Spec => UnretriedFollowLifecycle
<1> DEFINE Inv == TypeOK /\ FenceInv /\ StageInv
<1>1. Init => Inv
  BY TypeInit, FenceInit, StageInit
<1>2. Inv /\ [Next]_vars => Inv'
  BY TypeStep, FenceStep, StageStep
<1>3. Inv /\ [Next]_vars
        => [\A j \in Jobs : job[j].retries = 0 =>
              Lifecycle!JobNext(j) \/ UNCHANGED <<job[j].status, job[j].stage>>]_vars
  BY StepMoves DEF AllMove, Moves, Stutters
<1> QED BY <1>1, <1>2, <1>3, PTL DEF Spec, UnretriedFollowLifecycle

-----------------------------------------------------------------------------
(* The versions of the dashboard, for any number of creators, reviewers,   *)
(* retries and jobs.                                                       *)

VersionInv ==
  /\ VersionsBelongToJobs
  /\ \A j \in Jobs : job[j].status = "ABSENT" => job[j].finalVersion = 0

\* The steps that neither create nor complete a job.
OutcomesStay ==
  /\ \A j \in Jobs : /\ job'[j].finalVersion = job[j].finalVersion
                     /\ job'[j].status = "COMPLETED" => job[j].status = "COMPLETED"
                     /\ job'[j].status = "ABSENT" => job[j].status = "ABSENT"
  /\ dashboard'.version = dashboard.version

LEMMA OutcomeKept ==
  ASSUME VersionInv, OutcomesStay
  PROVE  VersionInv'
BY DEF VersionInv, VersionsBelongToJobs, OutcomesStay

LEMMA OutcomeInit == Init => VersionInv
BY DEF Init, NoRow, VersionInv, VersionsBelongToJobs

\* The unique version lets a finalization through only with a version above all others.
LEMMA FinalizeKeepsOutcome ==
  ASSUME TypeOK, VersionInv, NEW r \in Requests, finalizeCommit(r)
  PROVE  VersionInv'
<1> DEFINE j == req[r].job
           v == req[r].version
<1>1. j \in Jobs /\ v \in Nat
  BY TrackedTypes DEF finalizeCommit, TrackedPhases
<1>2. dashboard.version \in Nat /\ \A k \in Jobs : job[k].finalVersion \in Nat
  BY DEF TypeOK, Dashboards, JobRows
<1>3. CASE ~VersionIsFree(v)
  <2>1. OutcomesStay
    BY <1>3 DEF finalizeCommit, OutcomesStay
  <2> QED BY <2>1, OutcomeKept
<1>4. CASE VersionIsFree(v)
  <2>1. /\ job' = [job EXCEPT ![j].status = "COMPLETED", ![j].finalVersion = v]
        /\ dashboard'.version = v /\ v > dashboard.version
    <3>1. dashboard' = [dashboard EXCEPT !.status = "GENERATED", !.version = v,
                                         !.analysed = job[j].objective]
      BY <1>4 DEF finalizeCommit
    <3> HIDE DEF j, v
    <3>2. dashboard'.version = v
      BY <3>1 DEF TypeOK, Dashboards
    <3> QED BY <1>4, <3>2 DEF finalizeCommit, VersionIsFree, j, v
  <2> HIDE DEF j, v
  <2>2. /\ job'[j].status = "COMPLETED" /\ job'[j].finalVersion = v
        /\ \A k \in Jobs : k # j => job'[k] = job[k]
    BY <1>1, <2>1 DEF TypeOK, JobRows
  <2>6. \A k \in Jobs : job[k].finalVersion <= dashboard.version
    BY DEF VersionInv, VersionsBelongToJobs
  <2>3. ASSUME NEW k \in Jobs, k # j PROVE job'[k].finalVersion < v
    <3>1. job'[k].finalVersion = job[k].finalVersion
      BY <2>2, <2>3
    <3> QED BY <1>1, <1>2, <2>1, <2>6, <3>1
  <2>4. VersionsBelongToJobs'
    <3>1. ASSUME NEW k \in Jobs PROVE job'[k].finalVersion <= dashboard'.version
      <4>1. CASE k = j
        BY <1>1, <2>1, <2>2, <4>1
      <4>2. CASE k # j
        <5>1. job'[k].finalVersion = job[k].finalVersion /\ job[k].finalVersion \in Nat
          BY <1>2, <2>2, <4>2
        <5>2. job'[k].finalVersion < v /\ dashboard'.version = v
          BY <2>1, <2>3, <4>2
        <5> QED BY <1>1, <5>1, <5>2
      <4> QED BY <4>1, <4>2
    <3>2. \E k \in Jobs : job'[k].finalVersion = dashboard'.version
      BY <1>1, <2>1, <2>2
    <3>3. ASSUME NEW k \in Jobs, NEW l \in Jobs,
                 job'[k].finalVersion = job'[l].finalVersion, job'[k].finalVersion # 0
          PROVE  k = l
      <4>1. CASE k # j /\ l # j
        BY <2>2, <3>3, <4>1 DEF VersionInv, VersionsBelongToJobs
      <4>2. CASE k = j /\ l # j
        BY <1>1, <2>2, <2>3, <3>3, <4>2
      <4>3. CASE k # j /\ l = j
        BY <1>1, <2>2, <2>3, <3>3, <4>3
      <4> QED BY <4>1, <4>2, <4>3
    <3>4. ASSUME NEW k \in Jobs, job'[k].status = "COMPLETED" PROVE job'[k].finalVersion # 0
      <4>1. CASE k = j
        BY <1>1, <1>2, <2>1, <2>2, <4>1
      <4>2. CASE k # j
        BY <2>2, <3>4, <4>2 DEF VersionInv, VersionsBelongToJobs
      <4> QED BY <4>1, <4>2
    <3> QED BY <3>1, <3>2, <3>3, <3>4 DEF VersionsBelongToJobs
  <2>5. \A k \in Jobs : job'[k].status = "ABSENT" => job'[k].finalVersion = 0
    BY <2>2 DEF VersionInv
  <2> QED BY <2>4, <2>5 DEF VersionInv
<1> QED BY <1>3, <1>4

LEMMA OutcomeStep == TypeOK /\ VersionInv /\ [Next]_vars => VersionInv'
<1> SUFFICES ASSUME TypeOK, VersionInv, [Next]_vars PROVE VersionInv'
  OBVIOUS
<1> USE TrackedTypes
<1>1. OutcomesStay => VersionInv'
  BY OutcomeKept
<1>2. ASSUME UNCHANGED <<job, dashboard>> PROVE VersionInv'
  BY <1>1, <1>2 DEF OutcomesStay
<1>3. ASSUME NEW o \in Objectives, saveObjective(o) PROVE VersionInv'
  <2>1. OutcomesStay
    BY <1>3 DEF saveObjective, OutcomesStay, TypeOK, Dashboards
  <2> QED BY <1>1, <2>1
<1>4. ASSUME NEW r \in Requests, createAnalysisJobCommit(r) PROVE VersionInv'
  <2>1. PICK j \in Jobs : /\ job[j].status = "ABSENT"
                          /\ job' = [job EXCEPT ![j] = [NoRow EXCEPT !.status = "QUEUED",
                                                           !.objective = req[r].objective]]
    BY <1>4 DEF createAnalysisJobCommit
  <2>2. /\ job'[j].status = "QUEUED" /\ job'[j].finalVersion = 0
        /\ \A k \in Jobs : k # j => job'[k] = job[k]
    BY <2>1 DEF TypeOK, NoRow
  <2>3. job[j].finalVersion = 0
    BY <2>1 DEF VersionInv
  <2>4. dashboard'.version = dashboard.version
    BY <1>4 DEF createAnalysisJobCommit, TypeOK, Dashboards
  <2>5. OutcomesStay
    BY <2>2, <2>3, <2>4 DEF OutcomesStay
  <2> QED BY <1>1, <2>5
<1>5. ASSUME NEW r \in Requests, advanceClaim(r) PROVE VersionInv'
  <2>1. OutcomesStay
    <3> DEFINE j == req[r].job
    <3>1. /\ j \in Jobs /\ job'[j].status = "RUNNING"
          /\ job'[j].finalVersion = job[j].finalVersion
          /\ \A i \in Jobs : i # j => job'[i] = job[i]
      BY <1>5, ClaimWrites
    <3>2. dashboard' = dashboard
      BY <1>5 DEF advanceClaim
    <3> HIDE DEF j
    <3> QED BY <3>1, <3>2 DEF OutcomesStay
  <2> QED BY <1>1, <2>1
<1>6. ASSUME NEW r \in Requests, reportHeartbeat(r) PROVE VersionInv'
  <2>1. OutcomesStay
    BY <1>6 DEF reportHeartbeat, TypeOK, JobRows, OutcomesStay
  <2> QED BY <1>1, <2>1
<1>7. ASSUME NEW j \in Jobs, heartbeatLapses(j) PROVE VersionInv'
  <2>1. OutcomesStay
    BY <1>7 DEF heartbeatLapses, TypeOK, JobRows, OutcomesStay
  <2> QED BY <1>1, <2>1
<1>8. ASSUME NEW r \in Requests, advanceFailed(r) PROVE VersionInv'
  <2>1. OutcomesStay
    BY <1>8, FailureWrites DEF advanceFailed, OutcomesStay
  <2> QED BY <1>1, <2>1
<1>9. ASSUME NEW r \in Requests, advanceApplied(r) PROVE VersionInv'
  <2>1. OutcomesStay
    <3> DEFINE j == req[r].job
    <3>1. /\ j \in Jobs /\ \A k \in Jobs : k # j => job'[k] = job[k]
          /\ \/ job'[j] = job[j]
             \/ /\ job'[j].status = statusAfter(req[r].stage)
                /\ job'[j].finalVersion = job[j].finalVersion
      BY <1>9, SuccessWrites
    <3>2. statusAfter(req[r].stage) \notin {"ABSENT", "COMPLETED"}
      BY DEF statusAfter
    <3>3. dashboard' = dashboard
      BY <1>9 DEF advanceApplied
    <3> HIDE DEF j
    <3> QED BY <3>1, <3>2, <3>3 DEF OutcomesStay
  <2> QED BY <1>1, <2>1
<1>10. ASSUME NEW r \in Requests, retryCommit(r) PROVE VersionInv'
  <2>1. OutcomesStay
    <3> DEFINE j == req[r].job
               row == Retried(job[j], req[r].errorCode = "REBUILD")
    <3>1. /\ j \in Jobs /\ job' = [job EXCEPT ![j] = row] /\ row.status = "QUEUED"
          /\ row.finalVersion = job[j].finalVersion /\ job \in [Jobs -> JobRows]
      BY <1>10, RetryWritesOneRow DEF TypeOK
    <3>2. dashboard' = dashboard
      BY <1>10 DEF retryCommit
    <3> HIDE DEF j, row
    <3>3. job'[j] = row /\ \A i \in Jobs : i # j => job'[i] = job[i]
      BY <3>1
    <3> QED BY <3>1, <3>2, <3>3 DEF OutcomesStay
  <2> QED BY <1>1, <2>1
<1>11. ASSUME NEW j \in Jobs, cancelAnalysisJob(j) PROVE VersionInv'
  <2>1. OutcomesStay
    BY <1>11 DEF cancelAnalysisJob, TypeOK, JobRows, OutcomesStay
  <2> QED BY <1>1, <2>1
<1>12. ASSUME NEW r \in Requests, finalizeCommit(r) PROVE VersionInv'
  BY <1>12, FinalizeKeepsOutcome
<1>13. CASE UNCHANGED vars
  BY <1>2, <1>13 DEF vars
<1>14. \A r \in Requests :
         \/ createAnalysisJobCheck(r) \/ advanceConflict(r) \/ requestDies(r) \/ runStage(r)
         \/ finalizeReadVersions(r)
         \/ \E code \in ErrorCodes \ {"NONE"} : failStage(r, code)
         \/ \E j \in Jobs : advanceRead(r, j) \/ retryRead(r, j) \/ finalizeReadJob(r, j)
         => VersionInv'
  BY <1>2 DEF createAnalysisJobCheck, advanceConflict, requestDies, runStage, failStage,
              advanceRead, retryRead, finalizeReadJob, finalizeReadVersions
<1> QED
  BY <1>3, <1>4, <1>5, <1>6, <1>7, <1>8, <1>9, <1>10, <1>11, <1>12, <1>13, <1>14
     DEF Next, ServerStep

\* The version a dashboard shows is the final version of one of its jobs, no two jobs have the
\* same one and no completed job has none, for any number of creators, reviewers, retries and
\* second publications that overlap: the unique version is enough.
THEOREM VersionsHaveAJob == Spec => []VersionsBelongToJobs
<1> DEFINE Inv == TypeOK /\ VersionInv
<1>1. Init => Inv
  BY TypeInit, OutcomeInit
<1>2. Inv /\ [Next]_vars => Inv'
  BY TypeStep, OutcomeStep
<1>3. Inv => VersionsBelongToJobs
  BY DEF VersionInv
<1> QED BY <1>1, <1>2, <1>3, PTL DEF Spec
=============================================================================
