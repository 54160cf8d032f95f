---------------------------- MODULE AnalysisStages ----------------------------
(***************************************************************************)
(* The stage handlers of server/services/analysis-stage-runner.ts and the  *)
(* rows they leave for the reviewers: artifacts, KPI recommendations,      *)
(* queries with their validation and executions, widget recommendations.   *)
(* A handler is a series of separate database calls, so a crash can stop   *)
(* it half way and a second handler, started by a takeover of a stale      *)
(* claim, can run beside it.  Claims are reduced to the run version        *)
(* (AnalysisJob models them in full).                                      *)
(*                                                                         *)
(* An AI answer is a set of KPIs or a set of queries worth showing; a      *)
(* widget is named by the query it shows.  What a handler persists is the  *)
(* grounded answer; what AiResponseCache keeps is the provider's own, so a *)
(* handler that repeats a stage grounds it again.                          *)
(***************************************************************************)
EXTENDS Naturals, Sequences, FiniteSets

CONSTANTS Runners,       \* requests that may run a stage at once
          Kpis,          \* KPIs that may be recommended
          FallbackKpi,   \* the one recommended when nothing is grounded
          NoKpi,         \* the pick of a runner that creates no query
          MaxTakeovers,  \* bound: claims taken from a live runner
          MaxSetbacks,   \* bound: takeovers, crashed runners and failed stages
          MaxQueries     \* bound: query definitions of the job

ASSUME StageBoundAssumption ==
  MaxTakeovers \in Nat /\ MaxSetbacks \in Nat /\ MaxQueries \in Nat

ASSUME NamesAssumption == NoKpi \notin Kpis /\ FallbackKpi \in Kpis

VARIABLES
  analysis,   \* [status, stage, runVersion] of the AnalysisJob row
  artifact,   \* artifact[type]: revision 1, {} or FALSE when missing
  cache,      \* the KPIs that the cached answers to the KPI prompt and its repairs ground
  kpis,       \* KPI recommendations with a row
  queries,    \* QueryDefinition rows by id; ids are given in order
  widgets,    \* WIDGET recommendations with a row
  lastQuery,  \* the id given last
  build,      \* how often a retry deleted the rows: rows of an earlier build are gone
  runner,     \* runner[r]: the handler a request is executing
  takeovers, setbacks

rows == <<artifact, kpis, queries, lastQuery, widgets, build>>
stageVars == <<analysis, artifact, cache, kpis, queries, lastQuery, widgets, build, runner,
               takeovers, setbacks>>

STAGE_ORDER ==
  <<"PREPARING_METADATA", "ANALYZING_SCHEMA", "IDENTIFYING_BUSINESS_ENTITIES",
    "RECOMMENDING_KPIS", "GENERATING_QUERIES", "VALIDATING_QUERIES",
    "EXECUTING_QUERIES", "GENERATING_WIDGETS", "GENERATING_INSIGHTS",
    "FINALIZING_DASHBOARD">>

StageNames == {STAGE_ORDER[i] : i \in 1..Len(STAGE_ORDER)}

\* Mutant: the review is entered as if it were a stage.
nextStageNameReview(s) ==
  IF s = "GENERATING_INSIGHTS" THEN "WAITING_FOR_APPROVAL"
  ELSE STAGE_ORDER[1 + CHOOSE k \in 1..Len(STAGE_ORDER) : STAGE_ORDER[k] = s]

nextStageName(s) ==
  LET i == CHOOSE k \in 1..Len(STAGE_ORDER) : STAGE_ORDER[k] = s
  IN IF i < Len(STAGE_ORDER) THEN STAGE_ORDER[i + 1] ELSE s

QueryRows == [kpi: Kpis, validation: {"PROPOSED", "VALID", "INVALID"}, executed: BOOLEAN]
QueryIds == 1..MaxQueries

\* Marks are the artifacts whose content no property tells apart.
Marks == {"METADATA_CONTEXT", "SCHEMA_ANALYSIS", "DASHBOARD_PLAN", "GENERATED_INSIGHTS"}
Artifacts ==
  [marks: SUBSET Marks, kpis: SUBSET Kpis, widgets: SUBSET QueryIds]
NoArtifacts == [marks |-> {}, kpis |-> {}, widgets |-> {}]
NoRows == [i \in {} |-> {}]

\* A handler reads its inputs (Load), waits for the provider (Ask), persists its
\* artifact (Persist), works through a list of rows (Rows; Create between the
\* lookup and the insert of a query), and returns (Done, Failed).
RunnerStates ==
  [phase: {"Idle", "Load", "Ask", "Persist", "Rows", "Create", "Done", "Failed"},
   version: Nat, stage: StageNames, todo: SUBSET (Kpis \cup QueryIds),
   pick: Kpis \cup {NoKpi}, valid: SUBSET QueryIds, build: Nat, rebuild: BOOLEAN]

NoRunner == [phase |-> "Idle", version |-> 0, stage |-> "PREPARING_METADATA",
             todo |-> {}, pick |-> NoKpi, valid |-> {}, build |-> 0,
             rebuild |-> FALSE]

StagesTypeOK ==
  /\ analysis \in [status: {"QUEUED", "RUNNING", "FAILED", "WAITING_FOR_APPROVAL"},
                   stage: StageNames, runVersion: Nat, rebuild: BOOLEAN]
  /\ artifact \in Artifacts
  /\ cache \subseteq Kpis
  /\ kpis \subseteq Kpis
  /\ DOMAIN queries \subseteq 1..lastQuery /\ \A i \in DOMAIN queries : queries[i] \in QueryRows
  /\ lastQuery \in 0..MaxQueries /\ build \in Nat
  /\ widgets \subseteq QueryIds
  /\ runner \in [Runners -> RunnerStates]
  /\ takeovers \in 0..MaxTakeovers /\ setbacks \in 0..MaxSetbacks

StagesInit ==
  /\ analysis = [status |-> "QUEUED", stage |-> "PREPARING_METADATA", runVersion |-> 1,
                 rebuild |-> FALSE]
  /\ artifact = NoArtifacts
  /\ cache = {}
  /\ kpis = {} /\ queries = NoRows /\ lastQuery = 0 /\ widgets = {} /\ build = 0
  /\ runner = [r \in Runners |-> NoRunner]
  /\ takeovers = 0 /\ setbacks = 0

-----------------------------------------------------------------------------
at(r, phase, stage) == runner[r].phase = phase /\ runner[r].stage = stage

go(r, phase) == runner' = [runner EXCEPT ![r].phase = phase]

\* Go on with a list of rows to write, which belong to the rows that exist now.
goWith(r, phase, todo) ==
  runner' = [runner EXCEPT ![r].phase = phase, ![r].todo = todo, ![r].build = build]

\* One row of the list has been dealt with.
tick(r, item) == runner' = [runner EXCEPT ![r].todo = @ \ {item}]

\* The rows this handler refers to by id (foreign keys) have not been deleted.
Current(r) == runner[r].build = build

SetbacksAreLeft == takeovers + setbacks < MaxSetbacks

\* failure(...) of the handler, with a code that a retry rebuilds from or not.
refuse(r, rebuild) ==
  /\ SetbacksAreLeft
  /\ setbacks' = setbacks + 1
  /\ runner' = [runner EXCEPT ![r].phase = "Failed", ![r].rebuild = rebuild]
  /\ UNCHANGED <<rows, cache>>

OwnerAlive == \E r \in Runners : runner[r].phase # "Idle" /\ runner[r].version = analysis.runVersion

\* advanceAnalysisJob's claim: a queued job, an unclaimed running one, an abandoned
\* claim, or (a takeover) the claim of a runner whose heartbeat stopped.
claimStage(r) ==
  /\ runner[r].phase = "Idle"
  /\ \/ analysis.status = "QUEUED" /\ UNCHANGED takeovers
     \/ analysis.status = "RUNNING" /\ ~OwnerAlive /\ UNCHANGED takeovers
     \/ /\ analysis.status = "RUNNING" /\ OwnerAlive
        /\ takeovers < MaxTakeovers /\ SetbacksAreLeft
        /\ takeovers' = takeovers + 1
  /\ analysis' = [analysis EXCEPT !.status = "RUNNING", !.runVersion = @ + 1]
  /\ runner' = [runner EXCEPT ![r] = [NoRunner EXCEPT !.phase = "Load",
                                        !.version = analysis.runVersion + 1,
                                        !.stage = analysis.stage, !.build = build]]
  /\ UNCHANGED <<rows, cache, setbacks>>

\* A provider, connector or database error at any point of a handler.
stageThrows(r) ==
  /\ runner[r].phase \in {"Load", "Ask", "Persist", "Rows", "Create"}
  /\ \E rebuild \in BOOLEAN : refuse(r, rebuild)
  /\ UNCHANGED <<analysis, takeovers>>

stageFailed(r) ==
  /\ runner[r].phase = "Failed"
  /\ analysis' = IF analysis.runVersion = runner[r].version
                 THEN [analysis EXCEPT !.status = "FAILED", !.rebuild = runner[r].rebuild]
                 ELSE analysis
  /\ runner' = [runner EXCEPT ![r] = NoRunner]
  /\ UNCHANGED <<rows, cache, takeovers, setbacks>>

\* The WHERE clause of the success write.  Mutant: without the run version.
StageStillRunningAny(r) == analysis.status = "RUNNING"

StageStillRunning(r) == analysis.runVersion = runner[r].version /\ analysis.status = "RUNNING"

stageApplied(r) ==
  /\ runner[r].phase = "Done"
  /\ analysis' = IF StageStillRunning(r)
                 THEN [analysis EXCEPT !.stage = nextStageName(runner[r].stage),
                                       !.status = IF runner[r].stage = "GENERATING_INSIGHTS"
                                                  THEN "WAITING_FOR_APPROVAL" ELSE "RUNNING"]
                 ELSE analysis
  /\ runner' = [runner EXCEPT ![r] = NoRunner]
  /\ UNCHANGED <<rows, cache, takeovers, setbacks>>

runnerCrashes(r) ==
  /\ runner[r].phase # "Idle"
  /\ SetbacksAreLeft
  /\ setbacks' = setbacks + 1
  /\ runner' = [runner EXCEPT ![r] = NoRunner]
  /\ UNCHANGED <<analysis, rows, cache, takeovers>>

\* retryAnalysisJob, one at a time.  After a rebuild the metadata may have changed,
\* and with it the prompt whose answer is cached.
retryAnalysisJob ==
  /\ analysis.status = "FAILED"
  /\ analysis' = [analysis EXCEPT !.status = "QUEUED", !.rebuild = FALSE,
                                  !.stage = IF analysis.rebuild THEN "PREPARING_METADATA" ELSE @]
  /\ IF analysis.rebuild
     THEN /\ artifact' = NoArtifacts /\ kpis' = {} /\ queries' = NoRows /\ widgets' = {}
          /\ build' = build + 1
          /\ cache' \in {{}, cache}
     ELSE UNCHANGED <<artifact, kpis, queries, widgets, build, cache>>
  /\ UNCHANGED <<lastQuery, runner, takeovers, setbacks>>

-----------------------------------------------------------------------------
(* The handlers.  Every write is an upsert with an empty update, or skips a *)
(* row that exists, so the first writer wins.                               *)

Needs(marks) == marks \subseteq artifact.marks

persistMark(mark) == artifact' = [artifact EXCEPT !.marks = @ \cup {mark}]

prepareMetadataStage(r) ==
  /\ at(r, "Load", "PREPARING_METADATA")
  /\ persistMark("METADATA_CONTEXT")
  /\ go(r, "Done")
  /\ UNCHANGED <<cache, kpis, queries, lastQuery, widgets, build, setbacks>>

analyzeSchemaStage(r) ==
  \/ /\ at(r, "Load", "ANALYZING_SCHEMA")
     /\ IF Needs({"METADATA_CONTEXT"})
        THEN go(r, "Persist") /\ UNCHANGED <<rows, cache, setbacks>>
        ELSE refuse(r, TRUE)
  \/ /\ at(r, "Persist", "ANALYZING_SCHEMA")
     /\ persistMark("SCHEMA_ANALYSIS")
     /\ go(r, "Done")
     /\ UNCHANGED <<cache, kpis, queries, lastQuery, widgets, build, setbacks>>

validateEntitiesStage(r) ==
  /\ at(r, "Load", "IDENTIFYING_BUSINESS_ENTITIES")
  /\ IF Needs({"METADATA_CONTEXT", "SCHEMA_ANALYSIS"})
     THEN go(r, "Done") /\ UNCHANGED <<rows, cache, setbacks>>
     ELSE refuse(r, TRUE)

\* A recommendation is kept when it, or one of two repairs, is grounded; without any the
\* fallback stands in.
persistGrounded(r, grounded) ==
  /\ cache' = grounded
  /\ goWith(r, "Persist", IF grounded = {} THEN {FallbackKpi} ELSE grounded)

\* generateCachedStructuredOutput looks the prompt up, asks on a miss, and overwrites
\* the entry with the provider's answer.  What is grounded of it is not stored: on a hit
\* the repairs that had failed are asked for again, and may succeed.  (When nothing was
\* grounded, every repair may come out otherwise, which is as good as a miss.)
AnswerIsCached == cache # {}

\* A recommendation row needs its artifact: it cannot be created once a retry has
\* deleted it.
recommendKpisStage(r) ==
  \/ /\ at(r, "Load", "RECOMMENDING_KPIS")
     /\ ~Needs({"METADATA_CONTEXT", "SCHEMA_ANALYSIS"})
     /\ refuse(r, TRUE)
  \/ /\ at(r, "Load", "RECOMMENDING_KPIS")
     /\ Needs({"METADATA_CONTEXT", "SCHEMA_ANALYSIS"})
     /\ \/ ~AnswerIsCached /\ go(r, "Ask") /\ UNCHANGED cache
        \/ AnswerIsCached /\ \E repaired \in SUBSET Kpis : persistGrounded(r, cache \cup repaired)
     /\ UNCHANGED <<rows, setbacks>>
  \/ /\ at(r, "Ask", "RECOMMENDING_KPIS")
     /\ \E grounded \in SUBSET Kpis : persistGrounded(r, grounded)
     /\ UNCHANGED <<rows, setbacks>>
  \/ /\ at(r, "Persist", "RECOMMENDING_KPIS")
     /\ artifact' = [artifact EXCEPT !.kpis = IF @ = {} THEN runner[r].todo ELSE @]
     /\ goWith(r, "Rows", runner[r].todo)
     /\ UNCHANGED <<cache, kpis, queries, lastQuery, widgets, build, setbacks>>
  \/ /\ at(r, "Rows", "RECOMMENDING_KPIS")
     /\ IF runner[r].todo = {} THEN go(r, "Done") /\ UNCHANGED <<kpis, setbacks>>
        ELSE IF Current(r)
        THEN \E k \in runner[r].todo :
               kpis' = kpis \cup {k} /\ tick(r, k) /\ UNCHANGED setbacks
        ELSE refuse(r, FALSE)
     /\ UNCHANGED <<artifact, cache, queries, lastQuery, widgets, build>>

QueriesOf(k) == {i \in DOMAIN queries : queries[i].kpi = k}

ValidQueries == {i \in DOMAIN queries : queries[i].validation = "VALID"}

insertQuery(row) ==
  /\ lastQuery < MaxQueries
  /\ lastQuery' = lastQuery + 1
  /\ queries' = [i \in DOMAIN queries \cup {lastQuery + 1} |->
                   IF i \in DOMAIN queries THEN queries[i] ELSE row]

\* The findFirst of the query of a KPI; KPIs that a rebuild deleted have none.
\* Mutant: queries are created without the lookup.
HasQueryNever(r, k) == FALSE

HasQuery(r, k) == QueriesOf(k) # {} /\ Current(r)

\* findFirst, then create: nothing makes (job, recommendation) unique.
generateQueriesStage(r) ==
  \/ /\ at(r, "Load", "GENERATING_QUERIES")
     /\ IF kpis # {}
        THEN goWith(r, "Rows", kpis) /\ UNCHANGED <<rows, cache, setbacks>>
        ELSE refuse(r, TRUE)
  \/ /\ at(r, "Rows", "GENERATING_QUERIES")
     /\ IF runner[r].todo = {} THEN go(r, "Done")
        ELSE \E k \in runner[r].todo :
               IF HasQuery(r, k) THEN tick(r, k)
               ELSE runner' = [runner EXCEPT ![r].phase = "Create", ![r].pick = k,
                                             ![r].todo = @ \ {k}]
     /\ UNCHANGED <<rows, cache, setbacks>>
  \/ /\ at(r, "Create", "GENERATING_QUERIES")
     /\ IF Current(r)
        THEN /\ insertQuery([kpi |-> runner[r].pick, validation |-> "PROPOSED",
                             executed |-> FALSE])
             /\ runner' = [runner EXCEPT ![r].phase = "Rows", ![r].pick = NoKpi]
             /\ UNCHANGED <<artifact, cache, kpis, widgets, build, setbacks>>
        ELSE refuse(r, FALSE)

\* Works on the SQL it loaded: SQL that was validated before validates again, and a
\* query that stays invalid after two repairs is marked and fails the stage.  The
\* updates are by id: a row that a rebuild deleted makes the update throw.
validateQueriesStage(r) ==
  \/ /\ at(r, "Load", "VALIDATING_QUERIES")
     /\ IF Needs({"METADATA_CONTEXT"})
        THEN /\ runner' = [runner EXCEPT ![r].phase = "Rows", ![r].todo = DOMAIN queries,
                                          ![r].valid = ValidQueries]
             /\ UNCHANGED <<rows, cache, setbacks>>
        ELSE refuse(r, TRUE)
  \/ /\ at(r, "Rows", "VALIDATING_QUERIES") /\ runner[r].todo = {}
     /\ go(r, "Done")
     /\ UNCHANGED <<rows, cache, setbacks>>
  \/ /\ at(r, "Rows", "VALIDATING_QUERIES")
     /\ \E i \in runner[r].todo \cap DOMAIN queries :
          \/ /\ queries' = [queries EXCEPT ![i].validation = "VALID"]
             /\ tick(r, i)
             /\ UNCHANGED setbacks
          \/ /\ i \notin runner[r].valid
             /\ SetbacksAreLeft /\ setbacks' = setbacks + 1
             /\ queries' = [queries EXCEPT ![i].validation = "INVALID"]
             /\ runner' = [runner EXCEPT ![r].phase = "Failed", ![r].rebuild = FALSE]
     /\ UNCHANGED <<artifact, cache, kpis, lastQuery, widgets, build>>
  \/ /\ at(r, "Rows", "VALIDATING_QUERIES") /\ ~(runner[r].todo \subseteq DOMAIN queries)
     /\ refuse(r, FALSE)

\* executeQueryDefinition per validated query that has no successful execution yet.
\* A failing execution, or a query that is gone, fails the stage.
executeQueriesStage(r) ==
  \/ /\ at(r, "Load", "EXECUTING_QUERIES")
     /\ IF ValidQueries # {}
        THEN goWith(r, "Rows", ValidQueries) /\ UNCHANGED <<rows, cache, setbacks>>
        ELSE refuse(r, FALSE)
  \/ /\ at(r, "Rows", "EXECUTING_QUERIES") /\ runner[r].todo = {}
     /\ go(r, "Done")
     /\ UNCHANGED <<rows, cache, setbacks>>
  \/ /\ at(r, "Rows", "EXECUTING_QUERIES")
     /\ \E i \in runner[r].todo \cap ValidQueries :
          queries' = [queries EXCEPT ![i].executed = TRUE] /\ tick(r, i)
     /\ UNCHANGED <<artifact, cache, kpis, lastQuery, widgets, build, setbacks>>
  \/ /\ at(r, "Rows", "EXECUTING_QUERIES") /\ ~(runner[r].todo \subseteq ValidQueries)
     /\ refuse(r, FALSE)

\* The answer, or the fallback tables over every query, is grounded in the queries
\* read at the start of the stage; the plan is persisted before the widgets.  The queries
\* are read in no particular order and the prompt lists them, so a repeated stage may
\* miss the cache and get another answer.
generateWidgetsStage(r) ==
  \/ /\ at(r, "Load", "GENERATING_WIDGETS")
     /\ IF Needs({"METADATA_CONTEXT"}) /\ artifact.kpis # {} /\ queries # NoRows
        THEN /\ goWith(r, "Ask", DOMAIN queries)
             /\ UNCHANGED <<rows, cache, setbacks>>
        ELSE refuse(r, TRUE)
  \/ /\ at(r, "Ask", "GENERATING_WIDGETS")
     /\ persistMark("DASHBOARD_PLAN")
     /\ \E shown \in (SUBSET runner[r].todo) \ {{}} :
          runner' = [runner EXCEPT ![r].phase = "Persist", ![r].todo = shown]
     /\ UNCHANGED <<cache, kpis, queries, lastQuery, widgets, build, setbacks>>
  \/ /\ at(r, "Persist", "GENERATING_WIDGETS")
     /\ artifact' = [artifact EXCEPT !.widgets = IF @ = {} THEN runner[r].todo ELSE @]
     /\ goWith(r, "Rows", runner[r].todo)
     /\ UNCHANGED <<cache, kpis, queries, lastQuery, widgets, build, setbacks>>
  \/ /\ at(r, "Rows", "GENERATING_WIDGETS")
     /\ IF runner[r].todo = {} THEN go(r, "Done") /\ UNCHANGED <<widgets, setbacks>>
        ELSE IF Current(r)
        THEN \E i \in runner[r].todo :
               widgets' = widgets \cup {i} /\ tick(r, i) /\ UNCHANGED setbacks
        ELSE refuse(r, FALSE)
     /\ UNCHANGED <<artifact, cache, kpis, queries, lastQuery, build>>

generateInsightsStage(r) ==
  \/ /\ at(r, "Load", "GENERATING_INSIGHTS")
     /\ IF artifact.widgets # {}
        THEN go(r, "Persist") /\ UNCHANGED <<rows, cache, setbacks>>
        ELSE refuse(r, TRUE)
  \/ /\ at(r, "Persist", "GENERATING_INSIGHTS")
     /\ persistMark("GENERATED_INSIGHTS")
     /\ go(r, "Done")
     /\ UNCHANGED <<cache, kpis, queries, lastQuery, widgets, build, setbacks>>

\* FINALIZING_DASHBOARD is not run: a job that has reached it waits for review.
runAnalysisStage(r) ==
  /\ \/ prepareMetadataStage(r) \/ analyzeSchemaStage(r) \/ validateEntitiesStage(r)
     \/ recommendKpisStage(r) \/ generateQueriesStage(r) \/ validateQueriesStage(r)
     \/ executeQueriesStage(r) \/ generateWidgetsStage(r) \/ generateInsightsStage(r)
  /\ UNCHANGED <<analysis, takeovers>>

StagesNext ==
  \/ \E r \in Runners :
       \/ claimStage(r) \/ runAnalysisStage(r) \/ stageThrows(r)
       \/ stageFailed(r) \/ stageApplied(r) \/ runnerCrashes(r)
  \/ retryAnalysisJob

StagesSpec == StagesInit /\ [][StagesNext]_stageVars

-----------------------------------------------------------------------------
(* Properties. *)

\* What the reviewers are shown hangs together: every KPI row has exactly one query, and
\* that query is validated and executed; every widget row shows such a query; every KPI of
\* the persisted recommendation artifact has its row, unless the artifact is the fallback
\* (a stage that died after writing it is repeated, and then its repairs may succeed).
\* Crashed and failed stages, retries and rebuilds included, as long as no claim was taken
\* from a runner that is still alive.  With a live claim taken over, and the late writes of
\* the runner that lost it, there is still something to review: the last stage is applied
\* only for a claim under which the earlier stages were run.
ReviewIsBacked ==
  analysis.status = "WAITING_FOR_APPROVAL" =>
    /\ kpis # {} /\ widgets # {} /\ artifact.marks = Marks
    /\ \E i \in DOMAIN queries : queries[i].executed
    /\ takeovers = 0 =>
         /\ artifact.kpis \subseteq kpis \/ artifact.kpis = {FallbackKpi}
         /\ \A k \in kpis : \E i \in DOMAIN queries :
              QueriesOf(k) = {i} /\ queries[i].validation = "VALID" /\ queries[i].executed
         /\ \A i \in widgets : i \in DOMAIN queries /\ queries[i].executed
=============================================================================
