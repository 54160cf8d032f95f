-------------------------- MODULE AnalysisLifecycle --------------------------
(***************************************************************************)
(* What an analysis job promises to the people who watch it: a pipeline of *)
(* stages that is entered once, moves one stage at a time, pauses at       *)
(* FAILED until somebody asks for a retry, stops for human review, and is  *)
(* published after it.  It says nothing of requests, claims, heartbeats or *)
(* crashes, nor of a second publication of what is completed; AnalysisJob  *)
(* implements it.  (docs/phase1-architecture.md, "Persistent lifecycle",   *)
(* as the code in analysis-job-service.ts has it.)                         *)
(***************************************************************************)
EXTENDS Naturals

CONSTANTS Jobs,        \* identifiers of analysis jobs
          StageCount   \* number of stages in the pipeline

VARIABLES status,      \* status[j]: the job's status, "ABSENT" before creation
          stage        \* stage[j]: the stage that runs next

lifecycleVars == <<status, stage>>

LifecycleInit ==
  /\ status = [j \in Jobs |-> "ABSENT"]
  /\ stage = [j \in Jobs |-> 1]

Enter(j) ==
  /\ status[j] = "ABSENT"
  /\ status' = [status EXCEPT ![j] = "QUEUED"]
  /\ UNCHANGED stage

Start(j) ==
  /\ status[j] = "QUEUED"
  /\ status' = [status EXCEPT ![j] = "RUNNING"]
  /\ UNCHANGED stage

\* The stage before the last one, and the last one, hand over to the reviewers.
CompleteStage(j) ==
  /\ status[j] = "RUNNING"
  /\ stage' = [stage EXCEPT ![j] = IF @ < StageCount THEN @ + 1 ELSE @]
  /\ status' = [status EXCEPT ![j] =
                  IF stage[j] + 1 < StageCount THEN "RUNNING" ELSE "WAITING_FOR_APPROVAL"]

\* A stage that was already running when its job was cancelled may still report
\* its failure.
FailStage(j) ==
  /\ status[j] \in {"RUNNING", "CANCELLED"}
  /\ status' = [status EXCEPT ![j] = "FAILED"]
  /\ UNCHANGED stage

Retry(j) ==
  /\ status[j] = "FAILED"
  /\ status' = [status EXCEPT ![j] = "QUEUED"]
  /\ \/ UNCHANGED stage
     \/ stage' = [stage EXCEPT ![j] = 1]

Stop(j) ==
  /\ status[j] \in {"QUEUED", "RUNNING"}
  /\ status' = [status EXCEPT ![j] = "CANCELLED"]
  /\ UNCHANGED stage

Publish(j) ==
  /\ status[j] = "WAITING_FOR_APPROVAL"
  /\ status' = [status EXCEPT ![j] = "COMPLETED"]
  /\ UNCHANGED stage

JobNext(j) ==
  \/ Enter(j) \/ Start(j) \/ CompleteStage(j) \/ FailStage(j)
  \/ Retry(j) \/ Stop(j) \/ Publish(j)

LifecycleNext == \E j \in Jobs : JobNext(j)

LifecycleSpec == LifecycleInit /\ [][LifecycleNext]_lifecycleVars
=============================================================================
