-------------------------- MODULE AnalysisStagesProofs --------------------------
(***************************************************************************)
(* What the reviewers are shown hangs together, for any number of runners, *)
(* KPIs, queries, failures, crashes and takeovers.                         *)
(*                                                                         *)
(* The argument has two halves.  Whoever loses a claim may go on writing,  *)
(* so of the rows themselves little is certain: they grow until a retry    *)
(* deletes them all, and the runner that holds the newest claim leaves     *)
(* what its stage is to leave (ProgressInv).  Without a takeover one       *)
(* runner at a time is at work, one that repeats a stage grounds at least  *)
(* what the cached answers ground, and rows, queries and artifacts fit     *)
(* each other (FitInv).                                                    *)
(***************************************************************************)
EXTENDS AnalysisStages, TLAPS

\* The stages after which something has been done.
FromReview   == {"FINALIZING_DASHBOARD"}
FromInsights == FromReview \cup {"GENERATING_INSIGHTS"}
FromWidgets  == FromInsights \cup {"GENERATING_WIDGETS"}
FromExecute  == FromWidgets \cup {"EXECUTING_QUERIES"}
FromValidate == FromExecute \cup {"VALIDATING_QUERIES"}
FromQueries  == FromValidate \cup {"GENERATING_QUERIES"}
FromKpis     == FromQueries \cup {"RECOMMENDING_KPIS"}
FromEntities == FromKpis \cup {"IDENTIFYING_BUSINESS_ENTITIES"}
FromSchema   == FromEntities \cup {"ANALYZING_SCHEMA"}

AtWork(r) == runner[r].phase # "Idle"

\* Runner r holds the newest claim.
Owns(r) == AtWork(r) /\ runner[r].version = analysis.runVersion

-----------------------------------------------------------------------------
(* What a runner has in its hands has the type of the rows it writes. *)

HandFits(stage, phase, todo, pick) ==
  /\ stage = "RECOMMENDING_KPIS" /\ phase \in {"Persist", "Rows"} => todo \subseteq Kpis
  /\ stage = "GENERATING_QUERIES" /\ phase \in {"Rows", "Create"} => todo \subseteq Kpis
  /\ stage = "GENERATING_QUERIES" /\ phase = "Create" => pick \in Kpis
  /\ stage = "GENERATING_WIDGETS" /\ phase \in {"Ask", "Persist", "Rows"} => todo \subseteq QueryIds

HandsFit ==
  \A r \in Runners : HandFits(runner[r].stage, runner[r].phase, runner[r].todo, runner[r].pick)

QueriesAreRows == queries \in [DOMAIN queries -> QueryRows]

StageTypes == StagesTypeOK /\ HandsFit /\ QueriesAreRows

-----------------------------------------------------------------------------
(* Claims. *)

\* The newest claim belongs to one runner, which runs the stage of the row, on the rows of
\* this build, while the row is RUNNING.
OwnerIsUnique ==
  /\ \A r \in Runners : AtWork(r) => runner[r].version <= analysis.runVersion
  /\ \A r, q \in Runners :
       AtWork(r) /\ AtWork(q) /\ runner[r].version = runner[q].version => r = q

OwnerIsInStep ==
  \A r \in Runners : Owns(r) =>
    analysis.status = "RUNNING" /\ runner[r].stage = analysis.stage /\ Current(r)

\* Nobody works under an old claim unless it was taken from somebody alive.
NoLateRunners == takeovers = 0 => \A r \in Runners : AtWork(r) => Owns(r)

ReviewIsLast == analysis.status = "WAITING_FOR_APPROVAL" <=> analysis.stage \in FromReview

ClaimInv == OwnerIsUnique /\ OwnerIsInStep /\ NoLateRunners /\ ReviewIsLast

-----------------------------------------------------------------------------
(* Progress: what the stages behind have left, and the owner's one so far. *)

SomeExecuted == \E i \in DOMAIN queries : queries[i].executed

StagesLeft(s) ==
  /\ s \in FromSchema => "METADATA_CONTEXT" \in artifact.marks
  /\ s \in FromEntities => "SCHEMA_ANALYSIS" \in artifact.marks
  /\ s \in FromQueries => kpis # {}
  /\ s \in FromWidgets => SomeExecuted
  /\ s \in FromInsights => "DASHBOARD_PLAN" \in artifact.marks /\ widgets # {}
  /\ s \in FromReview => "GENERATED_INSIGHTS" \in artifact.marks

OwnerLeft(r) ==
  /\ at(r, "Done", "PREPARING_METADATA") => "METADATA_CONTEXT" \in artifact.marks
  /\ at(r, "Done", "ANALYZING_SCHEMA") => "SCHEMA_ANALYSIS" \in artifact.marks
  /\ at(r, "Persist", "RECOMMENDING_KPIS") => runner[r].todo # {}
  /\ at(r, "Rows", "RECOMMENDING_KPIS") => runner[r].todo # {} \/ kpis # {}
  /\ at(r, "Done", "RECOMMENDING_KPIS") => kpis # {}
  /\ at(r, "Rows", "EXECUTING_QUERIES") => runner[r].todo # {} \/ SomeExecuted
  /\ at(r, "Done", "EXECUTING_QUERIES") => SomeExecuted
  /\ at(r, "Persist", "GENERATING_WIDGETS") =>
       "DASHBOARD_PLAN" \in artifact.marks /\ runner[r].todo # {}
  /\ at(r, "Rows", "GENERATING_WIDGETS") =>
       "DASHBOARD_PLAN" \in artifact.marks /\ (runner[r].todo # {} \/ widgets # {})
  /\ at(r, "Done", "GENERATING_WIDGETS") =>
       "DASHBOARD_PLAN" \in artifact.marks /\ widgets # {}
  /\ at(r, "Done", "GENERATING_INSIGHTS") => "GENERATED_INSIGHTS" \in artifact.marks

ProgressInv ==
  /\ StagesLeft(analysis.stage)
  /\ \A r \in Runners : Owns(r) => OwnerLeft(r)

-----------------------------------------------------------------------------
(* Fit: without a takeover the artifact is the fallback, or its KPIs are    *)
(* among those that the cached answers ground, and later get their rows.   *)

ArtifactFits(set) == artifact.kpis = {FallbackKpi} \/ artifact.kpis \subseteq set

RowsFit ==
  /\ ArtifactFits(cache)
  /\ widgets \subseteq DOMAIN queries
  /\ \A i \in DOMAIN queries : queries[i].kpi \in kpis
  /\ \A i, j \in DOMAIN queries : queries[i].kpi = queries[j].kpi => i = j

HasAQuery(k) == \E i \in DOMAIN queries : queries[i].kpi = k
IsValid(i) == queries[i].validation = "VALID"

StagesFit(s) ==
  /\ s \in FromQueries => ArtifactFits(kpis)
  /\ s \in FromValidate => \A k \in kpis : HasAQuery(k)
  /\ s \in FromExecute => \A i \in DOMAIN queries : IsValid(i)
  /\ s \in FromWidgets => \A i \in DOMAIN queries : queries[i].executed

OwnerFits(r) ==
  /\ at(r, "Ask", "RECOMMENDING_KPIS") => cache = {}
  /\ at(r, "Persist", "RECOMMENDING_KPIS") =>
       runner[r].todo = IF cache = {} THEN {FallbackKpi} ELSE cache
  /\ at(r, "Rows", "RECOMMENDING_KPIS") => ArtifactFits(runner[r].todo \cup kpis)
  /\ at(r, "Done", "RECOMMENDING_KPIS") => ArtifactFits(kpis)
  /\ at(r, "Rows", "GENERATING_QUERIES") =>
       /\ runner[r].todo \subseteq kpis
       /\ \A k \in kpis : k \in runner[r].todo \/ HasAQuery(k)
  /\ at(r, "Create", "GENERATING_QUERIES") =>
       /\ runner[r].todo \subseteq kpis /\ runner[r].pick \in kpis /\ ~HasAQuery(runner[r].pick)
       /\ \A k \in kpis : k \in runner[r].todo \/ k = runner[r].pick \/ HasAQuery(k)
  /\ at(r, "Done", "GENERATING_QUERIES") => \A k \in kpis : HasAQuery(k)
  /\ at(r, "Rows", "VALIDATING_QUERIES") =>
       \A i \in DOMAIN queries : i \in runner[r].todo \/ IsValid(i)
  /\ at(r, "Done", "VALIDATING_QUERIES") => \A i \in DOMAIN queries : IsValid(i)
  /\ at(r, "Rows", "EXECUTING_QUERIES") =>
       \A i \in DOMAIN queries : i \in runner[r].todo \/ queries[i].executed
  /\ at(r, "Done", "EXECUTING_QUERIES") => \A i \in DOMAIN queries : queries[i].executed
  /\ runner[r].phase \in {"Ask", "Persist", "Rows"} /\ runner[r].stage = "GENERATING_WIDGETS" =>
       runner[r].todo \subseteq DOMAIN queries

FitInv ==
  takeovers = 0 =>
    /\ RowsFit /\ StagesFit(analysis.stage)
    /\ \A r \in Runners : AtWork(r) => OwnerFits(r)

StagesInv == StageTypes /\ ClaimInv /\ ProgressInv /\ FitInv

-----------------------------------------------------------------------------
(* The order of the stages. *)

LEMMA NextStages ==
  /\ nextStageName("PREPARING_METADATA") = "ANALYZING_SCHEMA"
  /\ nextStageName("ANALYZING_SCHEMA") = "IDENTIFYING_BUSINESS_ENTITIES"
  /\ nextStageName("IDENTIFYING_BUSINESS_ENTITIES") = "RECOMMENDING_KPIS"
  /\ nextStageName("RECOMMENDING_KPIS") = "GENERATING_QUERIES"
  /\ nextStageName("GENERATING_QUERIES") = "VALIDATING_QUERIES"
  /\ nextStageName("VALIDATING_QUERIES") = "EXECUTING_QUERIES"
  /\ nextStageName("EXECUTING_QUERIES") = "GENERATING_WIDGETS"
  /\ nextStageName("GENERATING_WIDGETS") = "GENERATING_INSIGHTS"
  /\ nextStageName("GENERATING_INSIGHTS") = "FINALIZING_DASHBOARD"
<1>1. Len(STAGE_ORDER) = 10
  BY DEF STAGE_ORDER
<1>2. \A k, n \in 1..10 : STAGE_ORDER[k] = STAGE_ORDER[n] => k = n
  BY DEF STAGE_ORDER
<1>3. \A n \in 1..9 : nextStageName(STAGE_ORDER[n]) = STAGE_ORDER[n + 1]
  <2> SUFFICES ASSUME NEW n \in 1..9
               PROVE  nextStageName(STAGE_ORDER[n]) = STAGE_ORDER[n + 1]
    OBVIOUS
  <2>1. (CHOOSE k \in 1..Len(STAGE_ORDER) : STAGE_ORDER[k] = STAGE_ORDER[n]) = n
    BY <1>1, <1>2
  <2>2. n < Len(STAGE_ORDER)
    BY <1>1
  <2> QED BY <2>1, <2>2 DEF nextStageName
<1>4. /\ STAGE_ORDER[1] = "PREPARING_METADATA" /\ STAGE_ORDER[2] = "ANALYZING_SCHEMA"
      /\ STAGE_ORDER[3] = "IDENTIFYING_BUSINESS_ENTITIES" /\ STAGE_ORDER[4] = "RECOMMENDING_KPIS"
      /\ STAGE_ORDER[5] = "GENERATING_QUERIES" /\ STAGE_ORDER[6] = "VALIDATING_QUERIES"
      /\ STAGE_ORDER[7] = "EXECUTING_QUERIES" /\ STAGE_ORDER[8] = "GENERATING_WIDGETS"
      /\ STAGE_ORDER[9] = "GENERATING_INSIGHTS" /\ STAGE_ORDER[10] = "FINALIZING_DASHBOARD"
  BY DEF STAGE_ORDER
<1>5. /\ 1 \in 1..9 /\ 2 \in 1..9 /\ 3 \in 1..9 /\ 4 \in 1..9 /\ 5 \in 1..9 /\ 6 \in 1..9
      /\ 7 \in 1..9 /\ 8 \in 1..9 /\ 9 \in 1..9
      /\ 1 + 1 = 2 /\ 2 + 1 = 3 /\ 3 + 1 = 4 /\ 4 + 1 = 5 /\ 5 + 1 = 6 /\ 6 + 1 = 7
      /\ 7 + 1 = 8 /\ 8 + 1 = 9 /\ 9 + 1 = 10
  OBVIOUS
<1> HIDE DEF STAGE_ORDER
<1> QED BY <1>3, <1>4, <1>5

LEMMA StageNamesAre ==
  StageNames = FromSchema \cup {"PREPARING_METADATA"}
<1>1. Len(STAGE_ORDER) = 10
  BY DEF STAGE_ORDER
<1>2. 1..10 = {1, 2, 3, 4, 5, 6, 7, 8, 9, 10}
  OBVIOUS
<1>3. /\ STAGE_ORDER[1] = "PREPARING_METADATA" /\ STAGE_ORDER[2] = "ANALYZING_SCHEMA"
      /\ STAGE_ORDER[3] = "IDENTIFYING_BUSINESS_ENTITIES" /\ STAGE_ORDER[4] = "RECOMMENDING_KPIS"
      /\ STAGE_ORDER[5] = "GENERATING_QUERIES" /\ STAGE_ORDER[6] = "VALIDATING_QUERIES"
      /\ STAGE_ORDER[7] = "EXECUTING_QUERIES" /\ STAGE_ORDER[8] = "GENERATING_WIDGETS"
      /\ STAGE_ORDER[9] = "GENERATING_INSIGHTS" /\ STAGE_ORDER[10] = "FINALIZING_DASHBOARD"
  BY DEF STAGE_ORDER
<1> HIDE DEF STAGE_ORDER
<1> QED
  BY <1>1, <1>2, <1>3 DEF StageNames, FromSchema, FromEntities, FromKpis, FromQueries,
     FromValidate, FromExecute, FromWidgets, FromInsights, FromReview

-----------------------------------------------------------------------------
(* How a handler moves. *)

\* Runner r goes on to a phase, with a list and a pick; the others stay where they are.
Moves(r, phase, todo, pick) ==
  /\ runner' \in [Runners -> RunnerStates]
  /\ runner'[r].phase = phase /\ runner'[r].todo = todo /\ runner'[r].pick = pick
  /\ runner'[r].stage = runner[r].stage /\ runner'[r].version = runner[r].version
  /\ runner'[r].build \in {runner[r].build, build}
  /\ \A q \in Runners : q # r => runner'[q] = runner[q]

WorkPhases == {"Load", "Ask", "Persist", "Rows", "Create", "Done", "Failed"}

LEMMA GoMoves ==
  ASSUME StagesTypeOK, NEW r \in Runners, NEW phase \in WorkPhases, go(r, phase)
  PROVE  Moves(r, phase, runner[r].todo, runner[r].pick)
<1> DEFINE state == [runner[r] EXCEPT !.phase = phase]
<1>1. runner' = [runner EXCEPT ![r] = state]
  BY DEF go
<1>2. runner \in [Runners -> RunnerStates] /\ runner[r] \in RunnerStates
  BY DEF StagesTypeOK
<1>3. /\ state \in RunnerStates /\ state.phase = phase /\ state.todo = runner[r].todo
      /\ state.pick = runner[r].pick /\ state.stage = runner[r].stage
      /\ state.version = runner[r].version /\ state.build = runner[r].build
  BY <1>2 DEF RunnerStates, WorkPhases
<1> HIDE DEF state
<1> QED BY <1>1, <1>2, <1>3 DEF Moves

LEMMA GoWithMoves ==
  ASSUME StagesTypeOK, NEW r \in Runners, NEW phase \in WorkPhases,
         NEW todo \in SUBSET (Kpis \cup QueryIds), goWith(r, phase, todo)
  PROVE  Moves(r, phase, todo, runner[r].pick)
<1> DEFINE state == [runner[r] EXCEPT !.phase = phase, !.todo = todo, !.build = build]
<1>1. runner' = [runner EXCEPT ![r] = state]
  BY DEF goWith
<1>2. runner \in [Runners -> RunnerStates] /\ runner[r] \in RunnerStates /\ build \in Nat
  BY DEF StagesTypeOK
<1>3. /\ state \in RunnerStates /\ state.phase = phase /\ state.todo = todo
      /\ state.pick = runner[r].pick /\ state.stage = runner[r].stage
      /\ state.version = runner[r].version /\ state.build = build
  BY <1>2 DEF RunnerStates, WorkPhases
<1> HIDE DEF state
<1> QED BY <1>1, <1>2, <1>3 DEF Moves

LEMMA TickMoves ==
  ASSUME StagesTypeOK, NEW r \in Runners, NEW item, tick(r, item)
  PROVE  Moves(r, runner[r].phase, runner[r].todo \ {item}, runner[r].pick)
<1> DEFINE state == [runner[r] EXCEPT !.todo = runner[r].todo \ {item}]
<1>1. runner' = [runner EXCEPT ![r] = state]
  BY DEF tick
<1>2. runner \in [Runners -> RunnerStates] /\ runner[r] \in RunnerStates
  BY DEF StagesTypeOK
<1>3. /\ state \in RunnerStates /\ state.phase = runner[r].phase
      /\ state.todo = runner[r].todo \ {item}
      /\ state.pick = runner[r].pick /\ state.stage = runner[r].stage
      /\ state.version = runner[r].version /\ state.build = runner[r].build
  BY <1>2 DEF RunnerStates
<1> HIDE DEF state
<1> QED BY <1>1, <1>2, <1>3 DEF Moves

\* A runner that takes a pick from its list, writes it, or learns which rows are valid.
LEMMA PickMoves ==
  ASSUME StagesTypeOK, NEW r \in Runners, NEW phase \in WorkPhases,
         NEW todo \in SUBSET (Kpis \cup QueryIds), NEW pick \in Kpis \cup {NoKpi},
         runner' = [runner EXCEPT ![r] = [runner[r] EXCEPT !.phase = phase, !.todo = todo,
                                                           !.pick = pick]]
  PROVE  Moves(r, phase, todo, pick)
<1> DEFINE state == [runner[r] EXCEPT !.phase = phase, !.todo = todo, !.pick = pick]
<1>1. runner' = [runner EXCEPT ![r] = state]
  OBVIOUS
<1>2. runner \in [Runners -> RunnerStates] /\ runner[r] \in RunnerStates
  BY DEF StagesTypeOK
<1>3. /\ state \in RunnerStates /\ state.phase = phase /\ state.todo = todo
      /\ state.pick = pick /\ state.stage = runner[r].stage
      /\ state.version = runner[r].version /\ state.build = runner[r].build
  BY <1>2 DEF RunnerStates, WorkPhases
<1> HIDE DEF state
<1> QED BY <1>1, <1>2, <1>3 DEF Moves

LEMMA RefuseMoves ==
  ASSUME StagesTypeOK, NEW r \in Runners, NEW rebuild \in BOOLEAN, refuse(r, rebuild)
  PROVE  /\ Moves(r, "Failed", runner[r].todo, runner[r].pick)
         /\ setbacks' \in 0..MaxSetbacks
<1> DEFINE state == [runner[r] EXCEPT !.phase = "Failed", !.rebuild = rebuild]
<1>1. runner' = [runner EXCEPT ![r] = state]
  BY DEF refuse
<1>2. runner \in [Runners -> RunnerStates] /\ runner[r] \in RunnerStates
  BY DEF StagesTypeOK
<1>3. /\ state \in RunnerStates /\ state.phase = "Failed" /\ state.todo = runner[r].todo
      /\ state.pick = runner[r].pick /\ state.stage = runner[r].stage
      /\ state.version = runner[r].version /\ state.build = runner[r].build
  BY <1>2 DEF RunnerStates
<1>4. setbacks' \in 0..MaxSetbacks
  BY StageBoundAssumption DEF refuse, SetbacksAreLeft, StagesTypeOK
<1> HIDE DEF state
<1> QED BY <1>1, <1>2, <1>3, <1>4 DEF Moves

\* A handler at work keeps its claim.
LEMMA ClaimKept ==
  ASSUME ClaimInv, StagesTypeOK, NEW r \in Runners, NEW phase \in WorkPhases, NEW todo, NEW pick,
         AtWork(r), Moves(r, phase, todo, pick), UNCHANGED <<analysis, takeovers, build>>
  PROVE  ClaimInv'
<1>1. \A q \in Runners : /\ AtWork(q)' <=> AtWork(q)
                         /\ runner'[q].version = runner[q].version
                         /\ runner'[q].stage = runner[q].stage
                         /\ Current(q) => Current(q)'
  BY DEF AtWork, Moves, WorkPhases, Current
<1>2. OwnerIsUnique'
  BY <1>1 DEF ClaimInv, OwnerIsUnique
<1>3. OwnerIsInStep'
  BY <1>1 DEF ClaimInv, OwnerIsInStep, Owns
<1>4. NoLateRunners'
  BY <1>1 DEF ClaimInv, NoLateRunners, Owns
<1>5. ReviewIsLast'
  BY DEF ClaimInv, ReviewIsLast, FromReview
<1> QED BY <1>2, <1>3, <1>4, <1>5 DEF ClaimInv

-----------------------------------------------------------------------------
(* What a handler's step keeps of the rest. *)

\* Within a build rows are only added.
RowsGrow ==
  /\ artifact.marks \subseteq artifact'.marks
  /\ kpis \subseteq kpis' /\ widgets \subseteq widgets'
  /\ \A i \in DOMAIN queries : i \in DOMAIN queries'
                               /\ (queries[i].executed => queries'[i].executed)

LEMMA ProgressKept ==
  ASSUME ProgressInv, NEW r \in Runners, NEW phase, NEW todo, NEW pick,
         AtWork(r), Moves(r, phase, todo, pick), RowsGrow, analysis' = analysis,
         Owns(r) => OwnerLeft(r)'
  PROVE  ProgressInv'
<1>1. StagesLeft(analysis.stage)'
  BY DEF ProgressInv, StagesLeft, RowsGrow, SomeExecuted
<1>2. ASSUME NEW q \in Runners, Owns(q)' PROVE OwnerLeft(q)'
  <2>1. CASE q = r
    BY <1>2, <2>1 DEF Owns, Moves
  <2>2. CASE q # r
    <3>1. runner'[q] = runner[q] /\ Owns(q) /\ OwnerLeft(q)
      BY <1>2, <2>2 DEF Owns, AtWork, Moves, ProgressInv
    <3> QED BY <3>1 DEF OwnerLeft, RowsGrow, SomeExecuted, at
  <2> QED BY <2>1, <2>2
<1> QED BY <1>1, <1>2 DEF ProgressInv

LEMMA FitKept ==
  ASSUME ClaimInv, NEW r \in Runners, NEW phase, NEW todo, NEW pick,
         AtWork(r), Moves(r, phase, todo, pick), UNCHANGED <<analysis, takeovers>>,
         takeovers = 0 => RowsFit' /\ StagesFit(runner[r].stage)' /\ OwnerFits(r)'
  PROVE  FitInv'
<1> SUFFICES ASSUME takeovers = 0
             PROVE  /\ RowsFit' /\ StagesFit(analysis.stage)'
                    /\ \A q \in Runners : AtWork(q)' => OwnerFits(q)'
  BY DEF FitInv
<1>1. Owns(r) /\ runner[r].stage = analysis.stage
  BY DEF ClaimInv, NoLateRunners, OwnerIsInStep
<1>2. ASSUME NEW q \in Runners, AtWork(q)' PROVE q = r
  BY <1>1, <1>2 DEF ClaimInv, NoLateRunners, OwnerIsUnique, Owns, AtWork, Moves
<1>3. runner'[r].stage = analysis'.stage
  BY <1>1 DEF Moves
<1> QED BY <1>2, <1>3

RowTypes ==
  /\ artifact \in Artifacts /\ cache \in SUBSET Kpis
  /\ kpis \in SUBSET Kpis /\ widgets \in SUBSET QueryIds
  /\ lastQuery \in 0..MaxQueries
  /\ DOMAIN queries \subseteq 1..lastQuery /\ queries \in [DOMAIN queries -> QueryRows]
  /\ setbacks \in 0..MaxSetbacks

LEMMA TypesOfRows ==
  ASSUME StageTypes
  PROVE  /\ RowTypes /\ StagesTypeOK /\ build \in Nat
         /\ \A r \in Runners :
              /\ runner[r] \in RunnerStates
              /\ HandFits(runner[r].stage, runner[r].phase, runner[r].todo, runner[r].pick)
         /\ DOMAIN queries \subseteq QueryIds
BY StageBoundAssumption
   DEF StageTypes, StagesTypeOK, HandsFit, QueriesAreRows, RowTypes, QueryIds

LEMMA TypesKept ==
  ASSUME StageTypes, NEW r \in Runners, NEW phase, NEW todo, NEW pick,
         Moves(r, phase, todo, pick), UNCHANGED <<analysis, takeovers, build>>, RowTypes',
         HandFits(runner[r].stage, phase, todo, pick)
  PROVE  StageTypes'
<1>1. StagesTypeOK'
  BY DEF StageTypes, StagesTypeOK, RowTypes, Moves
<1>2. HandsFit'
  <2> SUFFICES ASSUME NEW q \in Runners
               PROVE  HandFits(runner'[q].stage, runner'[q].phase, runner'[q].todo, runner'[q].pick)
    BY DEF HandsFit, HandFits, QueryIds
  <2>1. CASE q = r
    BY <2>1 DEF Moves
  <2>2. CASE q # r
    BY <2>2 DEF Moves, StageTypes, HandsFit
  <2> QED BY <2>1, <2>2
<1> QED BY <1>1, <1>2 DEF StageTypes, QueriesAreRows, RowTypes

\* What is known of a runner before its step.
LEMMA OwnersKnow ==
  ASSUME StagesInv, NEW r \in Runners, AtWork(r)
  PROVE  /\ Owns(r) => /\ OwnerLeft(r) /\ Current(r) /\ StagesLeft(runner[r].stage)
         /\ takeovers = 0 => /\ Owns(r) /\ RowsFit /\ StagesFit(runner[r].stage) /\ OwnerFits(r)
BY DEF StagesInv, ClaimInv, NoLateRunners, OwnerIsInStep, ProgressInv, FitInv

LEMMA HandlerKeeps ==
  ASSUME StagesInv, NEW r \in Runners, NEW phase \in WorkPhases, NEW todo, NEW pick,
         AtWork(r), Moves(r, phase, todo, pick), UNCHANGED <<analysis, takeovers, build>>,
         HandFits(runner[r].stage, phase, todo, pick), RowTypes', RowsGrow,
         Owns(r) => OwnerLeft(r)',
         takeovers = 0 => RowsFit' /\ StagesFit(runner[r].stage)' /\ OwnerFits(r)'
  PROVE  StagesInv'
<1>1. StageTypes'
  BY TypesKept DEF StagesInv
<1>2. ClaimInv'
  BY ClaimKept, TypesOfRows DEF StagesInv
<1>3. ProgressInv'
  BY ProgressKept DEF StagesInv
<1>4. FitInv'
  BY FitKept DEF StagesInv
<1> QED BY <1>1, <1>2, <1>3, <1>4 DEF StagesInv

\* The steps that write nothing.
LEMMA QuietKeeps ==
  ASSUME StagesInv, NEW r \in Runners, NEW phase \in WorkPhases, NEW todo, NEW pick,
         AtWork(r), Moves(r, phase, todo, pick), UNCHANGED <<analysis, takeovers, rows, cache>>,
         setbacks' \in 0..MaxSetbacks, HandFits(runner[r].stage, phase, todo, pick),
         Owns(r) => OwnerLeft(r)', takeovers = 0 => OwnerFits(r)'
  PROVE  StagesInv'
<1>1. /\ artifact' = artifact /\ kpis' = kpis /\ queries' = queries /\ lastQuery' = lastQuery
      /\ widgets' = widgets /\ build' = build /\ cache' = cache
  BY DEF rows
<1>2. RowTypes'
  BY <1>1, TypesOfRows DEF StagesInv, RowTypes, QueryIds
<1>3. RowsGrow
  BY <1>1 DEF RowsGrow
<1>4. takeovers = 0 => RowsFit' /\ StagesFit(runner[r].stage)'
  <2> SUFFICES ASSUME takeovers = 0 PROVE RowsFit' /\ StagesFit(runner[r].stage)'
    OBVIOUS
  <2>1. RowsFit /\ StagesFit(runner[r].stage)
    BY OwnersKnow
  <2>2. RowsFit'
    BY <1>1, <2>1 DEF RowsFit, ArtifactFits
  <2>3. runner'[r].stage = runner[r].stage
    BY DEF Moves
  <2>4. StagesFit(runner[r].stage)'
    BY <1>1, <2>1, <2>3 DEF StagesFit, ArtifactFits, HasAQuery, IsValid
  <2> QED BY <2>2, <2>4
<1> QED BY <1>1, <1>2, <1>3, <1>4, HandlerKeeps

LEMMA RefuseKeeps ==
  ASSUME StagesInv, NEW r \in Runners, NEW rebuild \in BOOLEAN, AtWork(r), refuse(r, rebuild),
         UNCHANGED <<analysis, takeovers>>
  PROVE  StagesInv'
<1>1. /\ Moves(r, "Failed", runner[r].todo, runner[r].pick) /\ setbacks' \in 0..MaxSetbacks
      /\ UNCHANGED <<rows, cache>>
  BY RefuseMoves, TypesOfRows DEF StagesInv, refuse
<1>2. OwnerLeft(r)' /\ OwnerFits(r)'
  BY <1>1 DEF Moves, OwnerLeft, OwnerFits, at
<1>3. HandFits(runner[r].stage, "Failed", runner[r].todo, runner[r].pick) /\ "Failed" \in WorkPhases
  BY DEF HandFits, WorkPhases
<1> QED BY <1>1, <1>2, <1>3, QuietKeeps

-----------------------------------------------------------------------------
(* The handlers. *)

LEMMA MarkKeeps ==
  ASSUME StagesInv, NEW r \in Runners, NEW phase \in WorkPhases, NEW todo, NEW pick,
         NEW mark \in Marks, persistMark(mark), AtWork(r), Moves(r, phase, todo, pick),
         UNCHANGED <<analysis, takeovers, cache, kpis, queries, lastQuery, widgets, build, setbacks>>,
         HandFits(runner[r].stage, phase, todo, pick), Owns(r) => OwnerLeft(r)',
         takeovers = 0 => OwnerFits(r)'
  PROVE  StagesInv'
<1>1. /\ artifact' \in Artifacts /\ artifact.marks \subseteq artifact'.marks
      /\ artifact'.kpis = artifact.kpis /\ artifact'.widgets = artifact.widgets
  BY TypesOfRows DEF StagesInv, RowTypes, Artifacts, persistMark
<1>2. RowTypes'
  BY <1>1, TypesOfRows DEF StagesInv, RowTypes, QueryIds
<1>3. RowsGrow
  BY <1>1 DEF RowsGrow
<1>4. takeovers = 0 => RowsFit' /\ StagesFit(runner[r].stage)'
  <2> SUFFICES ASSUME takeovers = 0 PROVE RowsFit' /\ StagesFit(runner[r].stage)'
    OBVIOUS
  <2>1. RowsFit /\ StagesFit(runner[r].stage)
    BY OwnersKnow
  <2>2. RowsFit'
    BY <1>1, <2>1 DEF RowsFit, ArtifactFits
  <2>3. runner'[r].stage = runner[r].stage
    BY DEF Moves
  <2>4. StagesFit(runner[r].stage)'
    BY <1>1, <2>1, <2>3 DEF StagesFit, ArtifactFits, HasAQuery, IsValid
  <2> QED BY <2>2, <2>4
<1> QED BY <1>1, <1>2, <1>3, <1>4, HandlerKeeps

\* What is in the marks after a mark was persisted.
LEMMA MarksHave ==
  ASSUME StagesInv, NEW mark \in Marks, persistMark(mark)
  PROVE  artifact'.marks = artifact.marks \cup {mark}
BY TypesOfRows DEF StagesInv, RowTypes, Artifacts, persistMark

LEMMA PrepareKeeps ==
  ASSUME StagesInv, NEW r \in Runners, prepareMetadataStage(r), UNCHANGED <<analysis, takeovers>>
  PROVE  StagesInv'
<1>1. /\ runner[r].stage = "PREPARING_METADATA" /\ AtWork(r) /\ "Done" \in WorkPhases
      /\ Moves(r, "Done", runner[r].todo, runner[r].pick)
      /\ "METADATA_CONTEXT" \in Marks /\ persistMark("METADATA_CONTEXT")
      /\ UNCHANGED <<analysis, takeovers, cache, kpis, queries, lastQuery, widgets, build, setbacks>>
  BY GoMoves, TypesOfRows DEF StagesInv, prepareMetadataStage, at, AtWork, WorkPhases, Marks
<1>2. OwnerLeft(r)' /\ OwnerFits(r)'
  BY <1>1, MarksHave DEF Moves, OwnerLeft, OwnerFits, at
<1>3. HandFits(runner[r].stage, "Done", runner[r].todo, runner[r].pick)
  BY <1>1 DEF HandFits
<1> QED BY <1>1, <1>2, <1>3, MarkKeeps

LEMMA AnalyzeKeeps ==
  ASSUME StagesInv, NEW r \in Runners, analyzeSchemaStage(r), UNCHANGED <<analysis, takeovers>>
  PROVE  StagesInv'
<1>1. CASE at(r, "Load", "ANALYZING_SCHEMA") /\ refuse(r, TRUE)
  BY <1>1, RefuseKeeps DEF at, AtWork
<1>2. CASE /\ at(r, "Load", "ANALYZING_SCHEMA") /\ go(r, "Persist")
           /\ UNCHANGED <<rows, cache, setbacks>>
  <2>1. /\ runner[r].stage = "ANALYZING_SCHEMA" /\ AtWork(r) /\ "Persist" \in WorkPhases
        /\ Moves(r, "Persist", runner[r].todo, runner[r].pick) /\ setbacks' \in 0..MaxSetbacks
    BY <1>2, GoMoves, TypesOfRows DEF StagesInv, RowTypes, at, AtWork, WorkPhases
  <2>2. OwnerLeft(r)' /\ OwnerFits(r)'
    BY <2>1 DEF Moves, OwnerLeft, OwnerFits, at
  <2>3. HandFits(runner[r].stage, "Persist", runner[r].todo, runner[r].pick)
    BY <2>1 DEF HandFits
  <2> QED BY <1>2, <2>1, <2>2, <2>3, QuietKeeps
<1>3. CASE /\ at(r, "Persist", "ANALYZING_SCHEMA") /\ persistMark("SCHEMA_ANALYSIS") /\ go(r, "Done")
           /\ UNCHANGED <<cache, kpis, queries, lastQuery, widgets, build, setbacks>>
  <2>1. /\ runner[r].stage = "ANALYZING_SCHEMA" /\ AtWork(r) /\ "Done" \in WorkPhases
        /\ Moves(r, "Done", runner[r].todo, runner[r].pick) /\ "SCHEMA_ANALYSIS" \in Marks
    BY <1>3, GoMoves, TypesOfRows DEF StagesInv, at, AtWork, WorkPhases, Marks
  <2>2. OwnerLeft(r)' /\ OwnerFits(r)'
    BY <1>3, <2>1, MarksHave DEF Moves, OwnerLeft, OwnerFits, at
  <2>3. HandFits(runner[r].stage, "Done", runner[r].todo, runner[r].pick)
    BY <2>1 DEF HandFits
  <2> QED BY <1>3, <2>1, <2>2, <2>3, MarkKeeps
<1> QED BY <1>1, <1>2, <1>3 DEF analyzeSchemaStage

LEMMA EntitiesKeep ==
  ASSUME StagesInv, NEW r \in Runners, validateEntitiesStage(r), UNCHANGED <<analysis, takeovers>>
  PROVE  StagesInv'
<1>1. CASE at(r, "Load", "IDENTIFYING_BUSINESS_ENTITIES") /\ refuse(r, TRUE)
  BY <1>1, RefuseKeeps DEF at, AtWork
<1>2. CASE /\ at(r, "Load", "IDENTIFYING_BUSINESS_ENTITIES") /\ go(r, "Done")
           /\ UNCHANGED <<rows, cache, setbacks>>
  <2>1. /\ runner[r].stage = "IDENTIFYING_BUSINESS_ENTITIES" /\ AtWork(r) /\ "Done" \in WorkPhases
        /\ Moves(r, "Done", runner[r].todo, runner[r].pick) /\ setbacks' \in 0..MaxSetbacks
    BY <1>2, GoMoves, TypesOfRows DEF StagesInv, RowTypes, at, AtWork, WorkPhases
  <2>2. OwnerLeft(r)' /\ OwnerFits(r)'
    BY <2>1 DEF Moves, OwnerLeft, OwnerFits, at
  <2>3. HandFits(runner[r].stage, "Done", runner[r].todo, runner[r].pick)
    BY <2>1 DEF HandFits
  <2> QED BY <1>2, <2>1, <2>2, <2>3, QuietKeeps
<1> QED BY <1>1, <1>2 DEF validateEntitiesStage

LEMMA InsightsKeep ==
  ASSUME StagesInv, NEW r \in Runners, generateInsightsStage(r), UNCHANGED <<analysis, takeovers>>
  PROVE  StagesInv'
<1>1. CASE at(r, "Load", "GENERATING_INSIGHTS") /\ refuse(r, TRUE)
  BY <1>1, RefuseKeeps DEF at, AtWork
<1>2. CASE /\ at(r, "Load", "GENERATING_INSIGHTS") /\ go(r, "Persist")
           /\ UNCHANGED <<rows, cache, setbacks>>
  <2>1. /\ runner[r].stage = "GENERATING_INSIGHTS" /\ AtWork(r) /\ "Persist" \in WorkPhases
        /\ Moves(r, "Persist", runner[r].todo, runner[r].pick) /\ setbacks' \in 0..MaxSetbacks
    BY <1>2, GoMoves, TypesOfRows DEF StagesInv, RowTypes, at, AtWork, WorkPhases
  <2>2. OwnerLeft(r)' /\ OwnerFits(r)'
    BY <2>1 DEF Moves, OwnerLeft, OwnerFits, at
  <2>3. HandFits(runner[r].stage, "Persist", runner[r].todo, runner[r].pick)
    BY <2>1 DEF HandFits
  <2> QED BY <1>2, <2>1, <2>2, <2>3, QuietKeeps
<1>3. CASE /\ at(r, "Persist", "GENERATING_INSIGHTS") /\ persistMark("GENERATED_INSIGHTS")
           /\ go(r, "Done")
           /\ UNCHANGED <<cache, kpis, queries, lastQuery, widgets, build, setbacks>>
  <2>1. /\ runner[r].stage = "GENERATING_INSIGHTS" /\ AtWork(r) /\ "Done" \in WorkPhases
        /\ Moves(r, "Done", runner[r].todo, runner[r].pick) /\ "GENERATED_INSIGHTS" \in Marks
    BY <1>3, GoMoves, TypesOfRows DEF StagesInv, at, AtWork, WorkPhases, Marks
  <2>2. OwnerLeft(r)' /\ OwnerFits(r)'
    BY <1>3, <2>1, MarksHave DEF Moves, OwnerLeft, OwnerFits, at
  <2>3. HandFits(runner[r].stage, "Done", runner[r].todo, runner[r].pick)
    BY <2>1 DEF HandFits
  <2> QED BY <1>3, <2>1, <2>2, <2>3, MarkKeeps
<1> QED BY <1>1, <1>2, <1>3 DEF generateInsightsStage

\* Grounding an answer to the KPI prompt, when nothing that was grounded before is missing.
LEMMA GroundedKeeps ==
  ASSUME StagesInv, NEW r \in Runners, NEW grounded \in SUBSET Kpis,
         persistGrounded(r, grounded), runner[r].stage = "RECOMMENDING_KPIS", AtWork(r),
         takeovers = 0 => cache \subseteq grounded,
         UNCHANGED <<analysis, takeovers, rows, setbacks>>
  PROVE  StagesInv'
<1> DEFINE todo == IF grounded = {} THEN {FallbackKpi} ELSE grounded
<1>0. /\ artifact' = artifact /\ kpis' = kpis /\ queries' = queries /\ lastQuery' = lastQuery
      /\ widgets' = widgets /\ build' = build
  BY DEF rows
<1>1. todo \in SUBSET Kpis /\ todo \in SUBSET (Kpis \cup QueryIds) /\ todo # {}
  BY NamesAssumption
<1>2. cache' = grounded /\ goWith(r, "Persist", todo)
  BY DEF persistGrounded
<1>3. todo = IF cache' = {} THEN {FallbackKpi} ELSE cache'
  BY <1>2
<1> HIDE DEF todo
<1>4. Moves(r, "Persist", todo, runner[r].pick) /\ "Persist" \in WorkPhases
  BY <1>1, <1>2, GoWithMoves, TypesOfRows DEF StagesInv, WorkPhases
<1>5. /\ runner'[r].phase = "Persist" /\ runner'[r].todo = todo
      /\ runner'[r].stage = "RECOMMENDING_KPIS"
  BY <1>4 DEF Moves
<1>6. OwnerLeft(r)'
  BY <1>1, <1>5 DEF OwnerLeft, at
<1>7. OwnerFits(r)'
  BY <1>3, <1>5 DEF OwnerFits, at
<1>8. HandFits(runner[r].stage, "Persist", todo, runner[r].pick)
  BY <1>1 DEF HandFits
<1>9. RowTypes'
  BY <1>0, <1>2, TypesOfRows DEF StagesInv, RowTypes
<1>10. RowsGrow
  BY <1>0 DEF RowsGrow
<1>11. takeovers = 0 => RowsFit' /\ StagesFit(runner[r].stage)'
  <2> SUFFICES ASSUME takeovers = 0 PROVE RowsFit' /\ StagesFit(runner[r].stage)'
    OBVIOUS
  <2>1. RowsFit /\ cache \subseteq cache'
    BY <1>2, OwnersKnow
  <2>2. RowsFit'
    BY <1>0, <2>1 DEF RowsFit, ArtifactFits
  <2> QED BY <1>5, <2>2 DEF StagesFit, ArtifactFits, FromQueries, FromValidate, FromExecute,
     FromWidgets, FromInsights, FromReview
<1> QED BY <1>0, <1>4, <1>6, <1>7, <1>8, <1>9, <1>10, <1>11, HandlerKeeps

LEMMA KpisKeep ==
  ASSUME StagesInv, NEW r \in Runners, recommendKpisStage(r), UNCHANGED <<analysis, takeovers>>
  PROVE  StagesInv'
<1>1. CASE /\ at(r, "Load", "RECOMMENDING_KPIS") /\ cache = {} /\ go(r, "Ask")
           /\ UNCHANGED <<rows, cache, setbacks>>
  <2>1. /\ runner[r].stage = "RECOMMENDING_KPIS" /\ AtWork(r) /\ "Ask" \in WorkPhases
        /\ Moves(r, "Ask", runner[r].todo, runner[r].pick) /\ setbacks' \in 0..MaxSetbacks
    BY <1>1, GoMoves, TypesOfRows DEF StagesInv, RowTypes, at, AtWork, WorkPhases
  <2>2. OwnerLeft(r)' /\ OwnerFits(r)'
    BY <1>1, <2>1 DEF Moves, OwnerLeft, OwnerFits, at
  <2>3. HandFits(runner[r].stage, "Ask", runner[r].todo, runner[r].pick)
    BY <2>1 DEF HandFits
  <2> QED BY <1>1, <2>1, <2>2, <2>3, QuietKeeps
<1>2. CASE /\ at(r, "Load", "RECOMMENDING_KPIS") /\ UNCHANGED <<rows, setbacks>>
           /\ \E repaired \in SUBSET Kpis : persistGrounded(r, cache \cup repaired)
  <2>1. PICK repaired \in SUBSET Kpis : persistGrounded(r, cache \cup repaired)
    BY <1>2
  <2>2. cache \cup repaired \in SUBSET Kpis
    BY TypesOfRows DEF StagesInv, RowTypes
  <2>3. runner[r].stage = "RECOMMENDING_KPIS" /\ AtWork(r)
    BY <1>2 DEF at, AtWork
  <2> QED BY <1>2, <2>1, <2>2, <2>3, GroundedKeeps
<1>3. CASE at(r, "Load", "RECOMMENDING_KPIS") /\ refuse(r, TRUE)
  BY <1>3, RefuseKeeps DEF at, AtWork
<1>4. CASE /\ at(r, "Ask", "RECOMMENDING_KPIS") /\ UNCHANGED <<rows, setbacks>>
           /\ \E grounded \in SUBSET Kpis : persistGrounded(r, grounded)
  <2>1. PICK grounded \in SUBSET Kpis : persistGrounded(r, grounded)
    BY <1>4
  <2>2. runner[r].stage = "RECOMMENDING_KPIS" /\ AtWork(r)
    BY <1>4 DEF at, AtWork
  <2>3. takeovers = 0 => cache \subseteq grounded
    BY <1>4, <2>2, OwnersKnow DEF OwnerFits
  <2> QED BY <1>4, <2>1, <2>2, <2>3, GroundedKeeps
<1>5. CASE /\ at(r, "Persist", "RECOMMENDING_KPIS")
           /\ artifact' = [artifact EXCEPT !.kpis = IF @ = {} THEN runner[r].todo ELSE @]
           /\ goWith(r, "Rows", runner[r].todo)
           /\ UNCHANGED <<cache, kpis, queries, lastQuery, widgets, build, setbacks>>
  <2>0. /\ runner[r].todo \in SUBSET Kpis /\ runner[r].todo \in SUBSET (Kpis \cup QueryIds)
        /\ artifact \in Artifacts
    BY <1>5, TypesOfRows DEF StagesInv, RowTypes, HandFits, at
  <2>1. /\ runner[r].stage = "RECOMMENDING_KPIS" /\ AtWork(r) /\ "Rows" \in WorkPhases
        /\ Moves(r, "Rows", runner[r].todo, runner[r].pick)
    BY <1>5, <2>0, GoWithMoves, TypesOfRows DEF StagesInv, at, AtWork, WorkPhases
  <2>2. /\ artifact' \in Artifacts /\ artifact'.marks = artifact.marks
        /\ artifact'.kpis = IF artifact.kpis = {} THEN runner[r].todo ELSE artifact.kpis
        /\ artifact'.widgets = artifact.widgets
    BY <1>5, <2>0 DEF Artifacts
  <2>3. Owns(r) => OwnerLeft(r)'
    BY <1>5, <2>1, OwnersKnow DEF Moves, OwnerLeft, at
  <2>4. HandFits(runner[r].stage, "Rows", runner[r].todo, runner[r].pick)
    BY <2>0, <2>1 DEF HandFits
  <2>5. RowTypes'
    BY <1>5, <2>2, TypesOfRows DEF StagesInv, RowTypes
  <2>6. RowsGrow
    BY <1>5, <2>2 DEF RowsGrow
  <2>7. takeovers = 0 => RowsFit' /\ StagesFit(runner[r].stage)' /\ OwnerFits(r)'
    <3> SUFFICES ASSUME takeovers = 0
                 PROVE  RowsFit' /\ StagesFit(runner[r].stage)' /\ OwnerFits(r)'
      OBVIOUS
    <3>1. RowsFit /\ runner[r].todo = IF cache = {} THEN {FallbackKpi} ELSE cache
      BY <1>5, <2>1, OwnersKnow DEF OwnerFits
    <3>2. RowsFit'
      BY <1>5, <2>2, <3>1 DEF RowsFit, ArtifactFits
    <3>3. runner'[r].stage = "RECOMMENDING_KPIS"
      BY <2>1 DEF Moves
    <3>4. ArtifactFits(runner[r].todo)'
      BY <1>5, <2>1, <2>2, <3>1 DEF RowsFit, ArtifactFits, Moves
    <3>5. OwnerFits(r)'
      BY <2>1, <3>4 DEF Moves, OwnerFits, at, ArtifactFits
    <3>6. StagesFit(runner[r].stage)'
      BY <3>3 DEF StagesFit, ArtifactFits, FromQueries, FromValidate, FromExecute, FromWidgets,
             FromInsights, FromReview
    <3> QED BY <3>2, <3>5, <3>6
  <2> QED BY <1>5, <2>1, <2>3, <2>4, <2>5, <2>6, <2>7, HandlerKeeps
<1>6. CASE /\ at(r, "Rows", "RECOMMENDING_KPIS") /\ runner[r].todo = {} /\ go(r, "Done")
           /\ UNCHANGED <<rows, cache, setbacks>>
  <2>1. /\ runner[r].stage = "RECOMMENDING_KPIS" /\ AtWork(r) /\ "Done" \in WorkPhases
        /\ Moves(r, "Done", runner[r].todo, runner[r].pick) /\ setbacks' \in 0..MaxSetbacks
    BY <1>6, GoMoves, TypesOfRows DEF StagesInv, RowTypes, at, AtWork, WorkPhases
  <2>2. kpis' = kpis /\ artifact' = artifact
    BY <1>6 DEF rows
  <2>3. Owns(r) => OwnerLeft(r)'
    BY <1>6, <2>1, <2>2, OwnersKnow DEF Moves, OwnerLeft, at
  <2>4. ASSUME takeovers = 0 PROVE OwnerFits(r)'
    <3>1. ArtifactFits(kpis)
      BY <1>6, <2>1, <2>4, OwnersKnow DEF OwnerFits, ArtifactFits
    <3> QED BY <2>1, <2>2, <3>1 DEF Moves, OwnerFits, at, ArtifactFits
  <2>5. HandFits(runner[r].stage, "Done", runner[r].todo, runner[r].pick)
    BY <2>1 DEF HandFits
  <2> QED BY <1>6, <2>1, <2>3, <2>4, <2>5, QuietKeeps
<1>7. CASE /\ at(r, "Rows", "RECOMMENDING_KPIS") /\ Current(r)
           /\ \E k \in runner[r].todo : kpis' = kpis \cup {k} /\ tick(r, k) /\ UNCHANGED setbacks
           /\ UNCHANGED <<artifact, cache, queries, lastQuery, widgets, build>>
  <2> PICK k \in runner[r].todo : kpis' = kpis \cup {k} /\ tick(r, k) /\ UNCHANGED setbacks
    BY <1>7
  <2> DEFINE todo == runner[r].todo \ {k}
  <2>0. runner[r].todo \in SUBSET Kpis /\ runner[r].phase = "Rows"
    BY <1>7, TypesOfRows DEF StagesInv, HandFits, at
  <2>1. /\ runner[r].stage = "RECOMMENDING_KPIS" /\ AtWork(r) /\ "Rows" \in WorkPhases
        /\ Moves(r, "Rows", todo, runner[r].pick)
    BY <1>7, <2>0, TickMoves, TypesOfRows DEF StagesInv, at, AtWork, WorkPhases
  <2>3. OwnerLeft(r)'
    BY <2>1 DEF Moves, OwnerLeft, at
  <2>4. HandFits(runner[r].stage, "Rows", todo, runner[r].pick)
    BY <2>0, <2>1 DEF HandFits
  <2>5. RowTypes'
    BY <1>7, <2>0, TypesOfRows DEF StagesInv, RowTypes
  <2>6. RowsGrow
    BY <1>7 DEF RowsGrow
  <2>7. takeovers = 0 => RowsFit' /\ StagesFit(runner[r].stage)' /\ OwnerFits(r)'
    <3> SUFFICES ASSUME takeovers = 0
                 PROVE  RowsFit' /\ StagesFit(runner[r].stage)' /\ OwnerFits(r)'
      OBVIOUS
    <3>1. RowsFit /\ ArtifactFits(runner[r].todo \cup kpis)
      BY <1>7, <2>1, OwnersKnow DEF OwnerFits
    <3>2. RowsFit'
      BY <1>7, <3>1 DEF RowsFit, ArtifactFits
    <3>3. runner'[r].stage = "RECOMMENDING_KPIS"
      BY <2>1 DEF Moves
    <3>4. artifact'.kpis = {FallbackKpi} \/ artifact'.kpis \subseteq todo \cup kpis'
      BY <1>7, <3>1 DEF ArtifactFits
    <3>5. OwnerFits(r)'
      BY <2>1, <3>4 DEF Moves, OwnerFits, at, ArtifactFits
    <3>6. StagesFit(runner[r].stage)'
      BY <3>3 DEF StagesFit, ArtifactFits, FromQueries, FromValidate, FromExecute, FromWidgets,
             FromInsights, FromReview
    <3> QED BY <3>2, <3>5, <3>6
  <2> HIDE DEF todo
  <2> QED BY <1>7, <2>1, <2>3, <2>4, <2>5, <2>6, <2>7, HandlerKeeps
<1>8. CASE at(r, "Rows", "RECOMMENDING_KPIS") /\ refuse(r, FALSE)
  BY <1>8, RefuseKeeps DEF at, AtWork
<1>9. CASE at(r, "Load", "RECOMMENDING_KPIS")
  BY <1>1, <1>2, <1>3, <1>9 DEF recommendKpisStage, AnswerIsCached, at
<1>10. CASE at(r, "Rows", "RECOMMENDING_KPIS")
  BY <1>6, <1>7, <1>8, <1>10 DEF recommendKpisStage, AnswerIsCached, at, rows
<1> QED BY <1>4, <1>5, <1>9, <1>10 DEF recommendKpisStage, AnswerIsCached

LEMMA QueryInserted ==
  ASSUME StagesInv, NEW row \in QueryRows, insertQuery(row)
  PROVE  /\ lastQuery' \in 0..MaxQueries /\ lastQuery' \notin DOMAIN queries
         /\ DOMAIN queries' = DOMAIN queries \cup {lastQuery'}
         /\ DOMAIN queries' \subseteq 1..lastQuery'
         /\ queries' \in [DOMAIN queries' -> QueryRows] /\ queries'[lastQuery'] = row
         /\ \A i \in DOMAIN queries : queries'[i] = queries[i]
<1>1. /\ lastQuery \in 0..MaxQueries /\ DOMAIN queries \subseteq 1..lastQuery
      /\ queries \in [DOMAIN queries -> QueryRows] /\ MaxQueries \in Nat
  BY TypesOfRows, StageBoundAssumption DEF StagesInv, RowTypes
<1>2. lastQuery' = lastQuery + 1 /\ lastQuery < MaxQueries
  BY DEF insertQuery
<1>3. lastQuery' \in 0..MaxQueries /\ lastQuery' \notin DOMAIN queries /\ lastQuery' \in 1..lastQuery'
      /\ 1..lastQuery \subseteq 1..lastQuery'
  BY <1>1, <1>2
<1>4. queries' = [i \in DOMAIN queries \cup {lastQuery'} |->
                    IF i \in DOMAIN queries THEN queries[i] ELSE row]
  BY DEF insertQuery
<1> QED BY <1>1, <1>3, <1>4

LEMMA QueriesKeep ==
  ASSUME StagesInv, NEW r \in Runners, generateQueriesStage(r), UNCHANGED <<analysis, takeovers>>
  PROVE  StagesInv'
<1>1. CASE /\ at(r, "Load", "GENERATING_QUERIES") /\ goWith(r, "Rows", kpis)
           /\ UNCHANGED <<rows, cache, setbacks>>
  <2>0. kpis \in SUBSET Kpis /\ kpis \in SUBSET (Kpis \cup QueryIds)
    BY TypesOfRows DEF StagesInv, RowTypes
  <2>1. /\ runner[r].stage = "GENERATING_QUERIES" /\ AtWork(r) /\ "Rows" \in WorkPhases
        /\ Moves(r, "Rows", kpis, runner[r].pick) /\ setbacks' \in 0..MaxSetbacks /\ kpis' = kpis
    BY <1>1, <2>0, GoWithMoves, TypesOfRows DEF StagesInv, RowTypes, at, AtWork, WorkPhases, rows
  <2>2. OwnerLeft(r)' /\ OwnerFits(r)'
    BY <2>1 DEF Moves, OwnerLeft, OwnerFits, at
  <2>3. HandFits(runner[r].stage, "Rows", kpis, runner[r].pick)
    BY <2>0, <2>1 DEF HandFits
  <2> QED BY <1>1, <2>1, <2>2, <2>3, QuietKeeps
<1>2. CASE at(r, "Load", "GENERATING_QUERIES") /\ refuse(r, TRUE)
  BY <1>2, RefuseKeeps DEF at, AtWork
<1>3. CASE /\ at(r, "Rows", "GENERATING_QUERIES") /\ runner[r].todo = {} /\ go(r, "Done")
           /\ UNCHANGED <<rows, cache, setbacks>>
  <2>1. /\ runner[r].stage = "GENERATING_QUERIES" /\ AtWork(r) /\ "Done" \in WorkPhases
        /\ Moves(r, "Done", runner[r].todo, runner[r].pick) /\ setbacks' \in 0..MaxSetbacks
        /\ kpis' = kpis /\ queries' = queries
    BY <1>3, GoMoves, TypesOfRows DEF StagesInv, RowTypes, at, AtWork, WorkPhases, rows
  <2>2. OwnerLeft(r)'
    BY <2>1 DEF Moves, OwnerLeft, at
  <2>3. ASSUME takeovers = 0 PROVE OwnerFits(r)'
    <3>1. \A k \in kpis : HasAQuery(k)
      BY <1>3, <2>1, <2>3, OwnersKnow DEF OwnerFits
    <3>2. \A k \in kpis' : HasAQuery(k)'
      BY <2>1, <3>1 DEF HasAQuery
    <3> QED BY <2>1, <3>2 DEF Moves, OwnerFits, at
  <2>4. HandFits(runner[r].stage, "Done", runner[r].todo, runner[r].pick)
    BY <2>1 DEF HandFits
  <2> QED BY <1>3, <2>1, <2>2, <2>3, <2>4, QuietKeeps
<1>4. CASE /\ at(r, "Rows", "GENERATING_QUERIES") /\ UNCHANGED <<rows, cache, setbacks>>
           /\ \E k \in runner[r].todo : HasQuery(r, k) /\ tick(r, k)
  <2> PICK k \in runner[r].todo : HasQuery(r, k) /\ tick(r, k)
    BY <1>4
  <2> DEFINE todo == runner[r].todo \ {k}
  <2>0. runner[r].todo \in SUBSET Kpis /\ runner[r].phase = "Rows"
    BY <1>4, TypesOfRows DEF StagesInv, HandFits, at
  <2>1. /\ runner[r].stage = "GENERATING_QUERIES" /\ AtWork(r) /\ "Rows" \in WorkPhases
        /\ Moves(r, "Rows", todo, runner[r].pick) /\ setbacks' \in 0..MaxSetbacks
        /\ kpis' = kpis /\ queries' = queries
    BY <1>4, <2>0, TickMoves, TypesOfRows DEF StagesInv, RowTypes, at, AtWork, WorkPhases, rows
  <2>2. OwnerLeft(r)'
    BY <2>1 DEF Moves, OwnerLeft, at
  <2>3. ASSUME takeovers = 0 PROVE OwnerFits(r)'
    <3>1. /\ runner[r].todo \subseteq kpis
          /\ \A j \in kpis : j \in runner[r].todo \/ HasAQuery(j)
      BY <1>4, <2>1, <2>3, OwnersKnow DEF OwnerFits
    <3>2. HasAQuery(k)
      BY DEF HasQuery, QueriesOf, HasAQuery
    <3>3. todo \subseteq kpis' /\ \A j \in kpis' : j \in todo \/ HasAQuery(j)'
      BY <2>1, <3>1, <3>2 DEF HasAQuery
    <3> HIDE DEF todo
    <3> QED BY <2>1, <3>3 DEF Moves, OwnerFits, at
  <2>4. HandFits(runner[r].stage, "Rows", todo, runner[r].pick)
    BY <2>0, <2>1 DEF HandFits
  <2> HIDE DEF todo
  <2> QED BY <1>4, <2>1, <2>2, <2>3, <2>4, QuietKeeps
<1>5. CASE /\ at(r, "Rows", "GENERATING_QUERIES") /\ UNCHANGED <<rows, cache, setbacks>>
           /\ \E k \in runner[r].todo :
                /\ ~HasQuery(r, k)
                /\ runner' = [runner EXCEPT ![r].phase = "Create", ![r].pick = k,
                                            ![r].todo = @ \ {k}]
  <2> PICK k \in runner[r].todo :
                /\ ~HasQuery(r, k)
                /\ runner' = [runner EXCEPT ![r].phase = "Create", ![r].pick = k,
                                            ![r].todo = @ \ {k}]
    BY <1>5
  <2> DEFINE todo == runner[r].todo \ {k}
  <2>0. /\ runner[r].todo \in SUBSET Kpis /\ k \in Kpis
        /\ todo \in SUBSET (Kpis \cup QueryIds) /\ k \in Kpis \cup {NoKpi}
    BY <1>5, TypesOfRows DEF StagesInv, HandFits, at
  <2>1. /\ runner[r].stage = "GENERATING_QUERIES" /\ AtWork(r) /\ "Create" \in WorkPhases
        /\ setbacks' \in 0..MaxSetbacks /\ kpis' = kpis /\ queries' = queries
    BY <1>5, TypesOfRows DEF StagesInv, RowTypes, at, AtWork, WorkPhases, rows
  <2>2. Moves(r, "Create", todo, k)
    <3>1. runner' = [runner EXCEPT ![r] = [runner[r] EXCEPT !.phase = "Create", !.todo = todo,
                                                            !.pick = k]]
      <4>1. runner \in [Runners -> RunnerStates] /\ runner[r] \in RunnerStates
        BY TypesOfRows DEF StagesInv, StagesTypeOK
      <4> QED BY <4>1 DEF RunnerStates
    <3> HIDE DEF todo
    <3> QED BY <2>0, <2>1, <3>1, PickMoves, TypesOfRows DEF StagesInv
  <2>3. OwnerLeft(r)'
    BY <2>1, <2>2 DEF Moves, OwnerLeft, at
  <2>4. ASSUME takeovers = 0 PROVE OwnerFits(r)'
    <3>1. /\ runner[r].todo \subseteq kpis /\ Current(r)
          /\ \A j \in kpis : j \in runner[r].todo \/ HasAQuery(j)
      BY <1>5, <2>1, <2>4, OwnersKnow DEF OwnerFits
    <3>2. ~HasAQuery(k)
      BY <3>1 DEF HasQuery, QueriesOf, HasAQuery
    <3>3. /\ todo \subseteq kpis' /\ k \in kpis' /\ ~HasAQuery(k)'
          /\ \A j \in kpis' : j \in todo \/ j = k \/ HasAQuery(j)'
      BY <2>1, <3>1, <3>2 DEF HasAQuery
    <3>4. /\ runner'[r].phase = "Create" /\ runner'[r].stage = "GENERATING_QUERIES"
          /\ runner'[r].todo = todo /\ runner'[r].pick = k
      BY <2>1, <2>2 DEF Moves
    <3> HIDE DEF todo
    <3>5. HasAQuery(runner[r].pick)' = HasAQuery(k)'
      BY <3>4 DEF HasAQuery
    <3> QED BY <3>3, <3>4, <3>5 DEF OwnerFits, at
  <2>5. HandFits(runner[r].stage, "Create", todo, k)
    BY <2>0, <2>1 DEF HandFits
  <2> HIDE DEF todo
  <2> QED BY <1>5, <2>1, <2>2, <2>3, <2>4, <2>5, QuietKeeps
<1>6. CASE /\ at(r, "Create", "GENERATING_QUERIES") /\ Current(r)
           /\ insertQuery([kpi |-> runner[r].pick, validation |-> "PROPOSED", executed |-> FALSE])
           /\ runner' = [runner EXCEPT ![r].phase = "Rows", ![r].pick = NoKpi]
           /\ UNCHANGED <<artifact, cache, kpis, widgets, build, setbacks>>
  <2> DEFINE row == [kpi |-> runner[r].pick, validation |-> "PROPOSED", executed |-> FALSE]
             todo == runner[r].todo
  <2>0. /\ todo \in SUBSET Kpis /\ runner[r].pick \in Kpis
        /\ todo \in SUBSET (Kpis \cup QueryIds) /\ NoKpi \in Kpis \cup {NoKpi}
    BY <1>6, TypesOfRows DEF StagesInv, HandFits, at
  <2>1. /\ runner[r].stage = "GENERATING_QUERIES" /\ AtWork(r) /\ "Rows" \in WorkPhases
    BY <1>6 DEF at, AtWork, WorkPhases
  <2>2. Moves(r, "Rows", todo, NoKpi)
    <3>1. runner' = [runner EXCEPT ![r] = [runner[r] EXCEPT !.phase = "Rows", !.todo = todo,
                                                            !.pick = NoKpi]]
      <4>1. runner \in [Runners -> RunnerStates] /\ runner[r] \in RunnerStates
        BY TypesOfRows DEF StagesInv, StagesTypeOK
      <4> QED BY <1>6, <4>1 DEF RunnerStates
    <3> HIDE DEF todo
    <3> QED BY <2>0, <2>1, <3>1, PickMoves, TypesOfRows DEF StagesInv
  <2>3. row \in QueryRows /\ row.kpi = runner[r].pick
    BY <2>0 DEF QueryRows
  <2> HIDE DEF row
  <2>4. /\ lastQuery' \in 0..MaxQueries /\ lastQuery' \notin DOMAIN queries
        /\ DOMAIN queries' = DOMAIN queries \cup {lastQuery'}
        /\ DOMAIN queries' \subseteq 1..lastQuery'
        /\ queries' \in [DOMAIN queries' -> QueryRows] /\ queries'[lastQuery'] = row
        /\ \A i \in DOMAIN queries : queries'[i] = queries[i]
    <3>1. insertQuery(row)
      BY <1>6 DEF row
    <3> QED BY <2>3, <3>1, QueryInserted
  <2>5. OwnerLeft(r)'
    BY <2>1, <2>2 DEF Moves, OwnerLeft, at
  <2>6. HandFits(runner[r].stage, "Rows", todo, NoKpi)
    BY <2>0, <2>1 DEF HandFits
  <2>7. RowTypes'
    BY <1>6, <2>4, TypesOfRows DEF StagesInv, RowTypes
  <2>8. RowsGrow
    BY <1>6, <2>4 DEF RowsGrow
  <2>9. takeovers = 0 => RowsFit' /\ StagesFit(runner[r].stage)' /\ OwnerFits(r)'
    <3> SUFFICES ASSUME takeovers = 0
                 PROVE  RowsFit' /\ StagesFit(runner[r].stage)' /\ OwnerFits(r)'
      OBVIOUS
    <3>1. /\ RowsFit /\ todo \subseteq kpis /\ runner[r].pick \in kpis /\ ~HasAQuery(runner[r].pick)
          /\ \A j \in kpis : j \in todo \/ j = runner[r].pick \/ HasAQuery(j)
          /\ ArtifactFits(kpis)
      BY <1>6, <2>1, OwnersKnow DEF OwnerFits, StagesFit, ArtifactFits, FromQueries
    <3>2. \A i \in DOMAIN queries : queries[i].kpi # row.kpi
      BY <2>3, <3>1 DEF HasAQuery
    <3>3. \A i, j \in DOMAIN queries' : queries'[i].kpi = queries'[j].kpi => i = j
      BY <2>4, <3>1, <3>2 DEF RowsFit, ArtifactFits
    <3>4. \A i \in DOMAIN queries' : queries'[i].kpi \in kpis'
      BY <1>6, <2>3, <2>4, <3>1 DEF RowsFit, ArtifactFits
    <3>5. RowsFit'
      BY <1>6, <2>4, <3>1, <3>3, <3>4 DEF RowsFit, ArtifactFits
    <3>6. runner'[r].stage = "GENERATING_QUERIES" /\ runner'[r].phase = "Rows" /\ runner'[r].todo = todo
      BY <2>1, <2>2 DEF Moves
    <3>7. \A j \in kpis' : j \in todo \/ HasAQuery(j)'
      BY <1>6, <2>3, <2>4, <3>1 DEF HasAQuery
    <3>8. OwnerFits(r)'
      BY <1>6, <3>1, <3>6, <3>7 DEF OwnerFits, at
    <3>9. StagesFit(runner[r].stage)'
      BY <1>6, <3>1, <3>6 DEF StagesFit, ArtifactFits, FromQueries, FromValidate, FromExecute,
         FromWidgets, FromInsights, FromReview
    <3> QED BY <3>5, <3>8, <3>9
  <2> HIDE DEF todo
  <2> QED BY <1>6, <2>1, <2>2, <2>5, <2>6, <2>7, <2>8, <2>9, HandlerKeeps
<1>7. CASE at(r, "Create", "GENERATING_QUERIES") /\ refuse(r, FALSE)
  BY <1>7, RefuseKeeps DEF at, AtWork
<1>8. CASE at(r, "Load", "GENERATING_QUERIES")
  BY <1>1, <1>2, <1>8 DEF generateQueriesStage, at
<1>9. CASE at(r, "Rows", "GENERATING_QUERIES")
  BY <1>3, <1>4, <1>5, <1>9 DEF generateQueriesStage, at
<1>10. CASE at(r, "Create", "GENERATING_QUERIES")
  BY <1>6, <1>7, <1>10 DEF generateQueriesStage, at
<1> QED BY <1>8, <1>9, <1>10 DEF generateQueriesStage

\* A query row is updated by its id: it stays the query of its KPI, and executed if it was.
LEMMA QueryUpdated ==
  ASSUME StagesInv, NEW i \in DOMAIN queries, NEW row \in QueryRows, row.kpi = queries[i].kpi,
         queries[i].executed => row.executed, queries' = [queries EXCEPT ![i] = row],
         UNCHANGED <<artifact, cache, kpis, lastQuery, widgets>>, setbacks' \in 0..MaxSetbacks
  PROVE  /\ RowTypes' /\ RowsGrow /\ (RowsFit => RowsFit')
         /\ DOMAIN queries' = DOMAIN queries /\ queries'[i] = row
         /\ \A j \in DOMAIN queries : j # i => queries'[j] = queries[j]
         /\ \A k : HasAQuery(k) => HasAQuery(k)'
<1>1. queries \in [DOMAIN queries -> QueryRows] /\ RowTypes
  BY TypesOfRows DEF StagesInv, RowTypes
<1>2. /\ DOMAIN queries' = DOMAIN queries /\ queries'[i] = row
      /\ \A j \in DOMAIN queries : j # i => queries'[j] = queries[j]
      /\ queries' \in [DOMAIN queries' -> QueryRows]
  BY <1>1
<1>3. \A j \in DOMAIN queries : queries'[j].kpi = queries[j].kpi
                                /\ (queries[j].executed => queries'[j].executed)
  BY <1>2
<1>4. RowTypes'
  BY <1>1, <1>2 DEF RowTypes
<1>5. RowsGrow
  BY <1>2, <1>3 DEF RowsGrow
<1>6. RowsFit => RowsFit'
  BY <1>2, <1>3 DEF RowsFit, ArtifactFits
<1>7. \A k : HasAQuery(k) => HasAQuery(k)'
  BY <1>2, <1>3 DEF HasAQuery
<1> QED BY <1>2, <1>4, <1>5, <1>6, <1>7

LEMMA ValidKeep ==
  ASSUME StagesInv, NEW r \in Runners, validateQueriesStage(r), UNCHANGED <<analysis, takeovers>>
  PROVE  StagesInv'
<1>1. CASE /\ at(r, "Load", "VALIDATING_QUERIES")
           /\ runner' = [runner EXCEPT ![r].phase = "Rows", ![r].todo = DOMAIN queries,
                                       ![r].valid = ValidQueries]
           /\ UNCHANGED <<rows, cache, setbacks>>
  <2> DEFINE state == [runner[r] EXCEPT !.phase = "Rows", !.todo = DOMAIN queries,
                                        !.valid = ValidQueries]
  <2>0. /\ runner \in [Runners -> RunnerStates] /\ runner[r] \in RunnerStates
        /\ DOMAIN queries \in SUBSET (Kpis \cup QueryIds) /\ ValidQueries \in SUBSET QueryIds
    BY TypesOfRows DEF StagesInv, StagesTypeOK, ValidQueries
  <2>1. runner' = [runner EXCEPT ![r] = state]
    BY <1>1
  <2>2. /\ state \in RunnerStates /\ state.phase = "Rows" /\ state.todo = DOMAIN queries
        /\ state.pick = runner[r].pick /\ state.stage = runner[r].stage
        /\ state.version = runner[r].version /\ state.build = runner[r].build
    BY <2>0 DEF RunnerStates
  <2> HIDE DEF state
  <2>3. Moves(r, "Rows", DOMAIN queries, runner[r].pick)
    BY <2>0, <2>1, <2>2 DEF Moves
  <2>4. /\ runner[r].stage = "VALIDATING_QUERIES" /\ AtWork(r) /\ "Rows" \in WorkPhases
        /\ setbacks' \in 0..MaxSetbacks /\ queries' = queries
    BY <1>1, TypesOfRows DEF StagesInv, RowTypes, at, AtWork, WorkPhases, rows
  <2>5. OwnerLeft(r)' /\ OwnerFits(r)'
    BY <2>3, <2>4 DEF Moves, OwnerLeft, OwnerFits, at
  <2>6. HandFits(runner[r].stage, "Rows", DOMAIN queries, runner[r].pick)
    BY <2>4 DEF HandFits
  <2> QED BY <1>1, <2>3, <2>4, <2>5, <2>6, QuietKeeps
<1>2. CASE at(r, "Load", "VALIDATING_QUERIES") /\ refuse(r, TRUE)
  BY <1>2, RefuseKeeps DEF at, AtWork
<1>3. CASE /\ at(r, "Rows", "VALIDATING_QUERIES") /\ runner[r].todo = {} /\ go(r, "Done")
           /\ UNCHANGED <<rows, cache, setbacks>>
  <2>1. /\ runner[r].stage = "VALIDATING_QUERIES" /\ AtWork(r) /\ "Done" \in WorkPhases
        /\ Moves(r, "Done", runner[r].todo, runner[r].pick) /\ setbacks' \in 0..MaxSetbacks
        /\ queries' = queries
    BY <1>3, GoMoves, TypesOfRows DEF StagesInv, RowTypes, at, AtWork, WorkPhases, rows
  <2>2. OwnerLeft(r)'
    BY <2>1 DEF Moves, OwnerLeft, at
  <2>3. ASSUME takeovers = 0 PROVE OwnerFits(r)'
    <3>1. \A i \in DOMAIN queries : IsValid(i)
      BY <1>3, <2>1, <2>3, OwnersKnow DEF OwnerFits
    <3>2. \A i \in DOMAIN queries' : IsValid(i)'
      BY <2>1, <3>1 DEF IsValid
    <3> QED BY <2>1, <3>2 DEF Moves, OwnerFits, at
  <2>4. HandFits(runner[r].stage, "Done", runner[r].todo, runner[r].pick)
    BY <2>1 DEF HandFits
  <2> QED BY <1>3, <2>1, <2>2, <2>3, <2>4, QuietKeeps
<1>4. ASSUME at(r, "Rows", "VALIDATING_QUERIES"), NEW i \in runner[r].todo \cap DOMAIN queries,
             queries' = [queries EXCEPT ![i].validation = "VALID"], tick(r, i),
             UNCHANGED <<artifact, cache, kpis, lastQuery, widgets, build, setbacks>>
      PROVE  StagesInv'
  <2> DEFINE todo == runner[r].todo \ {i}
             row == [queries[i] EXCEPT !.validation = "VALID"]
  <2>1. /\ runner[r].stage = "VALIDATING_QUERIES" /\ AtWork(r) /\ "Rows" \in WorkPhases
        /\ Moves(r, "Rows", todo, runner[r].pick) /\ setbacks' \in 0..MaxSetbacks
    BY <1>4, TickMoves, TypesOfRows DEF StagesInv, RowTypes, at, AtWork, WorkPhases
  <2>2. queries[i] \in QueryRows /\ queries' = [queries EXCEPT ![i] = row] /\ i \in DOMAIN queries
    BY <1>4, TypesOfRows DEF StagesInv, RowTypes
  <2>3. row \in QueryRows /\ row.kpi = queries[i].kpi /\ row.executed = queries[i].executed
        /\ row.validation = "VALID"
    BY <2>2 DEF QueryRows
  <2> HIDE DEF row, todo
  <2>4. /\ RowTypes' /\ RowsGrow /\ (RowsFit => RowsFit')
        /\ DOMAIN queries' = DOMAIN queries /\ queries'[i] = row
        /\ \A j \in DOMAIN queries : j # i => queries'[j] = queries[j]
        /\ \A k : HasAQuery(k) => HasAQuery(k)'
    <3>1. /\ UNCHANGED <<artifact, cache, kpis, lastQuery, widgets>> /\ setbacks' \in 0..MaxSetbacks
          /\ row.kpi = queries[i].kpi /\ (queries[i].executed => row.executed) /\ row \in QueryRows
      BY <1>4, <2>1, <2>3
    <3> QED BY <2>2, <3>1, QueryUpdated
  <2>5. /\ runner'[r].phase = "Rows" /\ runner'[r].stage = "VALIDATING_QUERIES"
        /\ runner'[r].todo = todo
    BY <2>1 DEF Moves
  <2>6. OwnerLeft(r)'
    BY <2>5 DEF OwnerLeft, at
  <2>7. HandFits(runner[r].stage, "Rows", todo, runner[r].pick)
    BY <2>1 DEF HandFits
  <2>8. takeovers = 0 => RowsFit' /\ StagesFit(runner[r].stage)' /\ OwnerFits(r)'
    <3> SUFFICES ASSUME takeovers = 0
                 PROVE  RowsFit' /\ StagesFit(runner[r].stage)' /\ OwnerFits(r)'
      OBVIOUS
    <3>1. /\ RowsFit /\ ArtifactFits(kpis) /\ \A k \in kpis : HasAQuery(k)
          /\ \A j \in DOMAIN queries : j \in runner[r].todo \/ IsValid(j)
      BY <1>4, <2>1, OwnersKnow DEF OwnerFits, StagesFit, ArtifactFits, FromQueries, FromValidate
    <3>2. \A j \in DOMAIN queries' : j \in todo \/ IsValid(j)'
      BY <2>3, <2>4, <3>1 DEF IsValid, todo
    <3>3. OwnerFits(r)'
      BY <2>5, <3>2 DEF OwnerFits, at
    <3>4. ArtifactFits(kpis)' /\ \A k \in kpis' : HasAQuery(k)'
      BY <1>4, <2>4, <3>1 DEF ArtifactFits
    <3>5. StagesFit(runner[r].stage)'
      BY <2>5, <3>4 DEF StagesFit, ArtifactFits, FromExecute, FromWidgets, FromInsights, FromReview
    <3> QED BY <2>4, <3>1, <3>3, <3>5
  <2> QED BY <1>4, <2>1, <2>4, <2>6, <2>7, <2>8, HandlerKeeps
<1>5. ASSUME at(r, "Rows", "VALIDATING_QUERIES"), NEW i \in runner[r].todo \cap DOMAIN queries,
             queries' = [queries EXCEPT ![i].validation = "INVALID"],
             SetbacksAreLeft, setbacks' = setbacks + 1,
             runner' = [runner EXCEPT ![r].phase = "Failed", ![r].rebuild = FALSE],
             UNCHANGED <<artifact, cache, kpis, lastQuery, widgets, build>>
      PROVE  StagesInv'
  <2> DEFINE state == [runner[r] EXCEPT !.phase = "Failed", !.rebuild = FALSE]
             row == [queries[i] EXCEPT !.validation = "INVALID"]
  <2>1. /\ runner[r].stage = "VALIDATING_QUERIES" /\ AtWork(r) /\ "Failed" \in WorkPhases
        /\ setbacks' \in 0..MaxSetbacks
    BY <1>5, TypesOfRows, StageBoundAssumption
       DEF StagesInv, StagesTypeOK, SetbacksAreLeft, at, AtWork, WorkPhases
  <2>2. queries[i] \in QueryRows /\ queries' = [queries EXCEPT ![i] = row] /\ i \in DOMAIN queries
    BY <1>5, TypesOfRows DEF StagesInv, RowTypes
  <2>3. row \in QueryRows /\ row.kpi = queries[i].kpi /\ row.executed = queries[i].executed
    BY <2>2 DEF QueryRows
  <2>4. /\ runner \in [Runners -> RunnerStates] /\ runner[r] \in RunnerStates
        /\ runner' = [runner EXCEPT ![r] = state]
    BY <1>5, TypesOfRows DEF StagesInv, StagesTypeOK
  <2>5. /\ state \in RunnerStates /\ state.phase = "Failed" /\ state.todo = runner[r].todo
        /\ state.pick = runner[r].pick /\ state.stage = runner[r].stage
        /\ state.version = runner[r].version /\ state.build = runner[r].build
    BY <2>4 DEF RunnerStates
  <2> HIDE DEF row, state
  <2>6. Moves(r, "Failed", runner[r].todo, runner[r].pick)
    BY <2>4, <2>5 DEF Moves
  <2>7. /\ RowTypes' /\ RowsGrow /\ (RowsFit => RowsFit')
        /\ \A k : HasAQuery(k) => HasAQuery(k)'
    BY <1>5, <2>1, <2>2, <2>3, QueryUpdated
  <2>8. runner'[r].phase = "Failed" /\ runner'[r].stage = "VALIDATING_QUERIES"
    BY <2>1, <2>6 DEF Moves
  <2>9. OwnerLeft(r)' /\ OwnerFits(r)'
    BY <2>8 DEF OwnerLeft, OwnerFits, at
  <2>10. HandFits(runner[r].stage, "Failed", runner[r].todo, runner[r].pick)
    BY <2>1 DEF HandFits
  <2>11. takeovers = 0 => RowsFit' /\ StagesFit(runner[r].stage)'
    <3> SUFFICES ASSUME takeovers = 0
                 PROVE  RowsFit' /\ StagesFit(runner[r].stage)'
      OBVIOUS
    <3>1. /\ RowsFit /\ ArtifactFits(kpis) /\ \A k \in kpis : HasAQuery(k)
      BY <1>5, <2>1, OwnersKnow DEF StagesFit, ArtifactFits, FromQueries, FromValidate
    <3>2. ArtifactFits(kpis)' /\ \A k \in kpis' : HasAQuery(k)'
      BY <1>5, <2>7, <3>1 DEF ArtifactFits
    <3>3. StagesFit(runner[r].stage)'
      BY <2>8, <3>2 DEF StagesFit, ArtifactFits, FromExecute, FromWidgets, FromInsights, FromReview
    <3> QED BY <2>7, <3>1, <3>3
  <2> QED BY <1>5, <2>1, <2>6, <2>7, <2>9, <2>10, <2>11, HandlerKeeps
<1>6. CASE at(r, "Rows", "VALIDATING_QUERIES") /\ refuse(r, FALSE)
  BY <1>6, RefuseKeeps DEF at, AtWork
<1>7. CASE at(r, "Load", "VALIDATING_QUERIES")
  BY <1>1, <1>2, <1>7 DEF validateQueriesStage, at
<1>8. CASE at(r, "Rows", "VALIDATING_QUERIES")
  BY <1>3, <1>4, <1>5, <1>6, <1>8 DEF validateQueriesStage, at
<1> QED BY <1>7, <1>8 DEF validateQueriesStage

LEMMA ExecuteKeeps ==
  ASSUME StagesInv, NEW r \in Runners, executeQueriesStage(r), UNCHANGED <<analysis, takeovers>>
  PROVE  StagesInv'
<1>1. CASE /\ at(r, "Load", "EXECUTING_QUERIES") /\ ValidQueries # {}
           /\ goWith(r, "Rows", ValidQueries) /\ UNCHANGED <<rows, cache, setbacks>>
  <2>0. ValidQueries \in SUBSET (Kpis \cup QueryIds)
    BY TypesOfRows DEF StagesInv, ValidQueries
  <2>1. /\ runner[r].stage = "EXECUTING_QUERIES" /\ AtWork(r) /\ "Rows" \in WorkPhases
        /\ Moves(r, "Rows", ValidQueries, runner[r].pick) /\ setbacks' \in 0..MaxSetbacks
        /\ queries' = queries
    BY <1>1, <2>0, GoWithMoves, TypesOfRows DEF StagesInv, RowTypes, at, AtWork, WorkPhases, rows
  <2>2. /\ runner'[r].phase = "Rows" /\ runner'[r].stage = "EXECUTING_QUERIES"
        /\ runner'[r].todo = ValidQueries
    BY <2>1 DEF Moves
  <2>3. OwnerLeft(r)'
    BY <1>1, <2>2 DEF OwnerLeft, at
  <2>4. ASSUME takeovers = 0 PROVE OwnerFits(r)'
    <3>1. \A i \in DOMAIN queries : IsValid(i)
      BY <2>1, <2>4, OwnersKnow DEF StagesFit, ArtifactFits, FromExecute
    <3>2. \A i \in DOMAIN queries' : i \in ValidQueries
      BY <2>1, <3>1 DEF IsValid, ValidQueries
    <3> QED BY <2>2, <3>2 DEF OwnerFits, at
  <2>5. HandFits(runner[r].stage, "Rows", ValidQueries, runner[r].pick)
    BY <2>1 DEF HandFits
  <2> QED BY <1>1, <2>1, <2>3, <2>4, <2>5, QuietKeeps
<1>2. CASE at(r, "Load", "EXECUTING_QUERIES") /\ refuse(r, FALSE)
  BY <1>2, RefuseKeeps DEF at, AtWork
<1>3. CASE /\ at(r, "Rows", "EXECUTING_QUERIES") /\ runner[r].todo = {} /\ go(r, "Done")
           /\ UNCHANGED <<rows, cache, setbacks>>
  <2>1. /\ runner[r].stage = "EXECUTING_QUERIES" /\ AtWork(r) /\ "Done" \in WorkPhases
        /\ Moves(r, "Done", runner[r].todo, runner[r].pick) /\ setbacks' \in 0..MaxSetbacks
        /\ queries' = queries
    BY <1>3, GoMoves, TypesOfRows DEF StagesInv, RowTypes, at, AtWork, WorkPhases, rows
  <2>2. runner'[r].phase = "Done" /\ runner'[r].stage = "EXECUTING_QUERIES"
    BY <2>1 DEF Moves
  <2>3. ASSUME Owns(r) PROVE OwnerLeft(r)'
    <3>1. SomeExecuted
      BY <1>3, <2>1, <2>3, OwnersKnow DEF OwnerLeft
    <3>2. SomeExecuted'
      BY <2>1, <3>1 DEF SomeExecuted
    <3> QED BY <2>2, <3>2 DEF OwnerLeft, at
  <2>4. ASSUME takeovers = 0 PROVE OwnerFits(r)'
    <3>1. \A i \in DOMAIN queries : queries[i].executed
      BY <1>3, <2>1, <2>4, OwnersKnow DEF OwnerFits
    <3> QED BY <2>1, <2>2, <3>1 DEF OwnerFits, at
  <2>5. HandFits(runner[r].stage, "Done", runner[r].todo, runner[r].pick)
    BY <2>1 DEF HandFits
  <2> QED BY <1>3, <2>1, <2>3, <2>4, <2>5, QuietKeeps
<1>4. ASSUME at(r, "Rows", "EXECUTING_QUERIES"), NEW i \in runner[r].todo \cap ValidQueries,
             queries' = [queries EXCEPT ![i].executed = TRUE], tick(r, i),
             UNCHANGED <<artifact, cache, kpis, lastQuery, widgets, build, setbacks>>
      PROVE  StagesInv'
  <2> DEFINE todo == runner[r].todo \ {i}
             row == [queries[i] EXCEPT !.executed = TRUE]
  <2>1. /\ runner[r].stage = "EXECUTING_QUERIES" /\ AtWork(r) /\ "Rows" \in WorkPhases
        /\ Moves(r, "Rows", todo, runner[r].pick) /\ setbacks' \in 0..MaxSetbacks
    BY <1>4, TickMoves, TypesOfRows DEF StagesInv, RowTypes, at, AtWork, WorkPhases
  <2>2. queries[i] \in QueryRows /\ queries' = [queries EXCEPT ![i] = row] /\ i \in DOMAIN queries
    BY <1>4, TypesOfRows DEF StagesInv, RowTypes, ValidQueries
  <2>3. row \in QueryRows /\ row.kpi = queries[i].kpi /\ row.executed
        /\ row.validation = queries[i].validation
    BY <2>2 DEF QueryRows
  <2> HIDE DEF row, todo
  <2>4. /\ RowTypes' /\ RowsGrow /\ (RowsFit => RowsFit')
        /\ DOMAIN queries' = DOMAIN queries /\ queries'[i] = row
        /\ \A j \in DOMAIN queries : j # i => queries'[j] = queries[j]
        /\ \A k : HasAQuery(k) => HasAQuery(k)'
    <3>1. /\ UNCHANGED <<artifact, cache, kpis, lastQuery, widgets>> /\ setbacks' \in 0..MaxSetbacks
          /\ row.kpi = queries[i].kpi /\ (queries[i].executed => row.executed) /\ row \in QueryRows
      BY <1>4, <2>1, <2>3
    <3> QED BY <2>2, <3>1, QueryUpdated
  <2>5. /\ runner'[r].phase = "Rows" /\ runner'[r].stage = "EXECUTING_QUERIES"
        /\ runner'[r].todo = todo
    BY <2>1 DEF Moves
  <2>6. OwnerLeft(r)'
    <3>1. SomeExecuted'
      BY <2>2, <2>3, <2>4 DEF SomeExecuted
    <3> QED BY <2>5, <3>1 DEF OwnerLeft, at
  <2>7. HandFits(runner[r].stage, "Rows", todo, runner[r].pick)
    BY <2>1 DEF HandFits
  <2>8. takeovers = 0 => RowsFit' /\ StagesFit(runner[r].stage)' /\ OwnerFits(r)'
    <3> SUFFICES ASSUME takeovers = 0
                 PROVE  RowsFit' /\ StagesFit(runner[r].stage)' /\ OwnerFits(r)'
      OBVIOUS
    <3>1. /\ RowsFit /\ ArtifactFits(kpis) /\ \A k \in kpis : HasAQuery(k)
          /\ \A j \in DOMAIN queries : IsValid(j)
          /\ \A j \in DOMAIN queries : j \in runner[r].todo \/ queries[j].executed
      BY <1>4, <2>1, OwnersKnow DEF OwnerFits, StagesFit, ArtifactFits, FromQueries,
         FromValidate, FromExecute
    <3>2. \A j \in DOMAIN queries' : j \in todo \/ queries'[j].executed
      BY <2>3, <2>4, <3>1 DEF todo
    <3>3. OwnerFits(r)'
      BY <2>5, <3>2 DEF OwnerFits, at
    <3>4. /\ ArtifactFits(kpis)' /\ \A k \in kpis' : HasAQuery(k)'
      BY <1>4, <2>4, <3>1 DEF ArtifactFits
    <3>5. \A j \in DOMAIN queries' : IsValid(j)'
      BY <2>2, <2>3, <2>4, <3>1 DEF IsValid
    <3>6. StagesFit(runner[r].stage)'
      BY <2>5, <3>4, <3>5 DEF StagesFit, ArtifactFits, FromWidgets, FromInsights, FromReview
    <3> QED BY <2>4, <3>1, <3>3, <3>6
  <2> QED BY <1>4, <2>1, <2>4, <2>6, <2>7, <2>8, HandlerKeeps
<1>5. CASE at(r, "Rows", "EXECUTING_QUERIES") /\ refuse(r, FALSE)
  BY <1>5, RefuseKeeps DEF at, AtWork
<1>6. CASE at(r, "Load", "EXECUTING_QUERIES")
  BY <1>1, <1>2, <1>6 DEF executeQueriesStage, at
<1>7. CASE at(r, "Rows", "EXECUTING_QUERIES")
  BY <1>3, <1>4, <1>5, <1>7 DEF executeQueriesStage, at
<1> QED BY <1>6, <1>7 DEF executeQueriesStage

\* Widgets come last: what they change disturbs nothing of the earlier stages.
LEMMA WidgetsFit ==
  ASSUME NEW s, s \notin FromInsights, StagesFit(s), artifact'.kpis = artifact.kpis,
         UNCHANGED <<kpis, queries>>
  PROVE  StagesFit(s)'
<1>1. \A k : HasAQuery(k)' <=> HasAQuery(k)
  BY DEF HasAQuery
<1>2. \A i : IsValid(i)' <=> IsValid(i)
  BY DEF IsValid
<1> QED BY <1>1, <1>2 DEF StagesFit, ArtifactFits

LEMMA WidgetsKeep ==
  ASSUME StagesInv, NEW r \in Runners, generateWidgetsStage(r), UNCHANGED <<analysis, takeovers>>
  PROVE  StagesInv'
<1>0. "GENERATING_WIDGETS" \notin FromInsights
  BY DEF FromInsights, FromReview
<1>1. CASE /\ at(r, "Load", "GENERATING_WIDGETS") /\ goWith(r, "Ask", DOMAIN queries)
           /\ UNCHANGED <<rows, cache, setbacks>>
  <2>0. DOMAIN queries \in SUBSET (Kpis \cup QueryIds) /\ DOMAIN queries \subseteq QueryIds
    BY TypesOfRows DEF StagesInv
  <2>1. /\ runner[r].stage = "GENERATING_WIDGETS" /\ AtWork(r) /\ "Ask" \in WorkPhases
        /\ Moves(r, "Ask", DOMAIN queries, runner[r].pick) /\ setbacks' \in 0..MaxSetbacks
        /\ queries' = queries
    BY <1>1, <2>0, GoWithMoves, TypesOfRows DEF StagesInv, RowTypes, at, AtWork, WorkPhases, rows
  <2>2. OwnerLeft(r)' /\ OwnerFits(r)'
    BY <2>1 DEF Moves, OwnerLeft, OwnerFits, at
  <2>3. HandFits(runner[r].stage, "Ask", DOMAIN queries, runner[r].pick)
    BY <2>0, <2>1 DEF HandFits
  <2> QED BY <1>1, <2>1, <2>2, <2>3, QuietKeeps
<1>2. CASE at(r, "Load", "GENERATING_WIDGETS") /\ refuse(r, TRUE)
  BY <1>2, RefuseKeeps DEF at, AtWork
<1>4. ASSUME at(r, "Ask", "GENERATING_WIDGETS"), persistMark("DASHBOARD_PLAN"),
             NEW shown \in (SUBSET runner[r].todo) \ {{}},
             runner' = [runner EXCEPT ![r].phase = "Persist", ![r].todo = shown],
             UNCHANGED <<cache, kpis, queries, lastQuery, widgets, build, setbacks>>
      PROVE  StagesInv'
  <2>0. shown \subseteq runner[r].todo /\ shown # {}
    OBVIOUS
  <2>1. shown \subseteq QueryIds /\ shown \in SUBSET (Kpis \cup QueryIds)
    BY <1>4, <2>0, TypesOfRows DEF StagesInv, RowTypes, HandFits, at
  <2>2. /\ runner \in [Runners -> RunnerStates] /\ runner[r] \in RunnerStates
        /\ runner[r].pick \in Kpis \cup {NoKpi}
    BY TypesOfRows DEF StagesInv, StagesTypeOK, RunnerStates
  <2>3. /\ runner[r].stage = "GENERATING_WIDGETS" /\ AtWork(r) /\ "Persist" \in WorkPhases
        /\ "DASHBOARD_PLAN" \in Marks
    BY <1>4 DEF at, AtWork, WorkPhases, Marks
  <2>4. Moves(r, "Persist", shown, runner[r].pick)
    <3>1. runner' = [runner EXCEPT ![r] = [runner[r] EXCEPT !.phase = "Persist", !.todo = shown,
                                                            !.pick = runner[r].pick]]
      BY <1>4, <2>2 DEF RunnerStates
    <3> QED BY <2>1, <2>2, <2>3, <3>1, PickMoves, TypesOfRows DEF StagesInv
  <2>5. /\ runner'[r].phase = "Persist" /\ runner'[r].stage = "GENERATING_WIDGETS"
        /\ runner'[r].todo = shown /\ "DASHBOARD_PLAN" \in artifact'.marks
    BY <1>4, <2>3, <2>4, MarksHave DEF Moves
  <2>6. OwnerLeft(r)'
    BY <2>0, <2>5 DEF OwnerLeft, at
  <2>7. takeovers = 0 => OwnerFits(r)'
    <3> SUFFICES ASSUME takeovers = 0 PROVE OwnerFits(r)'
      OBVIOUS
    <3>1. runner[r].todo \subseteq DOMAIN queries
      BY <1>4, <2>3, OwnersKnow DEF OwnerFits, at
    <3> QED BY <1>4, <2>0, <2>5, <3>1 DEF OwnerFits, at
  <2>8. HandFits(runner[r].stage, "Persist", shown, runner[r].pick)
    BY <2>1, <2>3 DEF HandFits
  <2> QED BY <1>4, <2>3, <2>4, <2>6, <2>7, <2>8, MarkKeeps
<1>5. CASE /\ at(r, "Persist", "GENERATING_WIDGETS")
           /\ artifact' = [artifact EXCEPT !.widgets = IF @ = {} THEN runner[r].todo ELSE @]
           /\ goWith(r, "Rows", runner[r].todo)
           /\ UNCHANGED <<cache, kpis, queries, lastQuery, widgets, build, setbacks>>
  <2>0. /\ runner[r].todo \in SUBSET QueryIds /\ runner[r].todo \in SUBSET (Kpis \cup QueryIds)
        /\ artifact \in Artifacts
    BY <1>5, TypesOfRows DEF StagesInv, RowTypes, HandFits, at
  <2>1. /\ runner[r].stage = "GENERATING_WIDGETS" /\ AtWork(r) /\ "Rows" \in WorkPhases
        /\ Moves(r, "Rows", runner[r].todo, runner[r].pick)
    BY <1>5, <2>0, GoWithMoves, TypesOfRows DEF StagesInv, at, AtWork, WorkPhases
  <2>2. /\ artifact' \in Artifacts /\ artifact'.marks = artifact.marks
        /\ artifact'.widgets = IF artifact.widgets = {} THEN runner[r].todo ELSE artifact.widgets
        /\ artifact'.kpis = artifact.kpis
    BY <1>5, <2>0 DEF Artifacts
  <2>3. Owns(r) => OwnerLeft(r)'
    BY <1>5, <2>1, <2>2, OwnersKnow DEF Moves, OwnerLeft, at
  <2>4. HandFits(runner[r].stage, "Rows", runner[r].todo, runner[r].pick)
    BY <2>0, <2>1 DEF HandFits
  <2>5. RowTypes'
    BY <1>5, <2>2, TypesOfRows DEF StagesInv, RowTypes
  <2>6. RowsGrow
    BY <1>5, <2>2 DEF RowsGrow
  <2>7. takeovers = 0 => RowsFit' /\ StagesFit(runner[r].stage)' /\ OwnerFits(r)'
    <3> SUFFICES ASSUME takeovers = 0
                 PROVE  RowsFit' /\ StagesFit(runner[r].stage)' /\ OwnerFits(r)'
      OBVIOUS
    <3>1. RowsFit /\ runner[r].todo \subseteq DOMAIN queries /\ StagesFit("GENERATING_WIDGETS")
      BY <1>5, <2>1, OwnersKnow DEF OwnerFits, at
    <3>2. RowsFit'
      BY <1>5, <2>2, <3>1 DEF RowsFit, ArtifactFits
    <3>3. runner'[r].stage = "GENERATING_WIDGETS"
      BY <2>1 DEF Moves
    <3>5. OwnerFits(r)'
      BY <1>5, <2>1, <3>1 DEF Moves, OwnerFits, at
    <3>6. StagesFit("GENERATING_WIDGETS")'
      BY <1>0, <1>5, <2>2, <3>1, WidgetsFit
    <3> QED BY <3>2, <3>3, <3>5, <3>6 DEF StagesFit, ArtifactFits
  <2> QED BY <1>5, <2>1, <2>3, <2>4, <2>5, <2>6, <2>7, HandlerKeeps
<1>6. CASE /\ at(r, "Rows", "GENERATING_WIDGETS") /\ runner[r].todo = {} /\ go(r, "Done")
           /\ UNCHANGED <<rows, cache, setbacks>>
  <2>1. /\ runner[r].stage = "GENERATING_WIDGETS" /\ AtWork(r) /\ "Done" \in WorkPhases
        /\ Moves(r, "Done", runner[r].todo, runner[r].pick) /\ setbacks' \in 0..MaxSetbacks
    BY <1>6, GoMoves, TypesOfRows DEF StagesInv, RowTypes, at, AtWork, WorkPhases
  <2>2. widgets' = widgets /\ artifact' = artifact
    BY <1>6 DEF rows
  <2>3. Owns(r) => OwnerLeft(r)'
    BY <1>6, <2>1, <2>2, OwnersKnow DEF Moves, OwnerLeft, at
  <2>4. OwnerFits(r)'
    BY <2>1 DEF Moves, OwnerFits, at
  <2>5. HandFits(runner[r].stage, "Done", runner[r].todo, runner[r].pick)
    BY <2>1 DEF HandFits
  <2> QED BY <1>6, <2>1, <2>3, <2>4, <2>5, QuietKeeps
<1>7. ASSUME at(r, "Rows", "GENERATING_WIDGETS"), NEW i \in runner[r].todo,
             widgets' = widgets \cup {i}, tick(r, i),
             UNCHANGED <<artifact, cache, kpis, queries, lastQuery, build, setbacks>>
      PROVE  StagesInv'
  <2> DEFINE todo == runner[r].todo \ {i}
  <2>0. runner[r].todo \in SUBSET QueryIds /\ runner[r].phase = "Rows"
    BY <1>7, TypesOfRows DEF StagesInv, HandFits, at
  <2>1. /\ runner[r].stage = "GENERATING_WIDGETS" /\ AtWork(r) /\ "Rows" \in WorkPhases
        /\ Moves(r, "Rows", todo, runner[r].pick)
    BY <1>7, <2>0, TickMoves, TypesOfRows DEF StagesInv, at, AtWork, WorkPhases
  <2>2. /\ runner'[r].phase = "Rows" /\ runner'[r].stage = "GENERATING_WIDGETS"
        /\ runner'[r].todo = todo
    BY <2>1 DEF Moves
  <2>3. Owns(r) => OwnerLeft(r)'
    BY <1>7, <2>1, <2>2, OwnersKnow DEF OwnerLeft, at
  <2>4. HandFits(runner[r].stage, "Rows", todo, runner[r].pick)
    BY <2>0, <2>1 DEF HandFits
  <2>5. RowTypes'
    BY <1>7, <2>0, TypesOfRows DEF StagesInv, RowTypes
  <2>6. RowsGrow
    BY <1>7 DEF RowsGrow
  <2>7. takeovers = 0 => RowsFit' /\ StagesFit(runner[r].stage)' /\ OwnerFits(r)'
    <3> SUFFICES ASSUME takeovers = 0
                 PROVE  RowsFit' /\ StagesFit(runner[r].stage)' /\ OwnerFits(r)'
      OBVIOUS
    <3>1. RowsFit /\ runner[r].todo \subseteq DOMAIN queries /\ StagesFit("GENERATING_WIDGETS")
      BY <1>7, <2>1, OwnersKnow DEF OwnerFits, at
    <3>2. RowsFit'
      BY <1>7, <3>1 DEF RowsFit, ArtifactFits
    <3>3. todo \subseteq DOMAIN queries'
      BY <1>7, <3>1 DEF todo
    <3>4. OwnerFits(r)'
      BY <2>2, <3>3 DEF OwnerFits, at
    <3>5. StagesFit("GENERATING_WIDGETS")'
      BY <1>0, <1>7, <3>1, WidgetsFit
    <3> QED BY <2>2, <3>2, <3>4, <3>5 DEF StagesFit, ArtifactFits
  <2> HIDE DEF todo
  <2> QED BY <1>7, <2>1, <2>3, <2>4, <2>5, <2>6, <2>7, HandlerKeeps
<1>8. CASE at(r, "Rows", "GENERATING_WIDGETS") /\ refuse(r, FALSE)
  BY <1>8, RefuseKeeps DEF at, AtWork
<1>9. CASE at(r, "Load", "GENERATING_WIDGETS")
  BY <1>1, <1>2, <1>9 DEF generateWidgetsStage, at
<1>10. CASE at(r, "Ask", "GENERATING_WIDGETS")
  BY <1>4, <1>10 DEF generateWidgetsStage, at
<1>11. CASE at(r, "Rows", "GENERATING_WIDGETS")
  BY <1>6, <1>7, <1>8, <1>11 DEF generateWidgetsStage, at, rows
<1> QED BY <1>5, <1>9, <1>10, <1>11 DEF generateWidgetsStage

LEMMA HandlersKeep ==
  ASSUME StagesInv, NEW r \in Runners, runAnalysisStage(r)
  PROVE  StagesInv'
BY PrepareKeeps, AnalyzeKeeps, EntitiesKeep, KpisKeep, QueriesKeep, ValidKeep, ExecuteKeeps,
   WidgetsKeep, InsightsKeep
   DEF runAnalysisStage

LEMMA ThrowsKeep ==
  ASSUME StagesInv, NEW r \in Runners, stageThrows(r)
  PROVE  StagesInv'
BY RefuseKeeps DEF stageThrows, AtWork

-----------------------------------------------------------------------------
(* Claims are taken and given back. *)

\* Rows that did not change still have been left, and fit, as before.
LEMMA RowsStay ==
  ASSUME UNCHANGED <<rows, cache>>
  PROVE  /\ \A s : StagesLeft(s) => StagesLeft(s)'
         /\ RowsFit => RowsFit'
         /\ \A s : StagesFit(s) => StagesFit(s)'
         /\ \A q \in Runners : runner'[q] = runner[q] =>
              /\ OwnerLeft(q) => OwnerLeft(q)'
              /\ OwnerFits(q) => OwnerFits(q)'
<1>1. /\ artifact' = artifact /\ kpis' = kpis /\ queries' = queries /\ widgets' = widgets
      /\ cache' = cache
  BY DEF rows
<1>2. SomeExecuted' <=> SomeExecuted
  BY <1>1 DEF SomeExecuted
<1>3. (\A k : HasAQuery(k)' <=> HasAQuery(k)) /\ (\A i : IsValid(i)' <=> IsValid(i))
  BY <1>1 DEF HasAQuery, IsValid
<1>4. \A s : StagesLeft(s) => StagesLeft(s)'
  BY <1>1, <1>2 DEF StagesLeft
<1>5. RowsFit => RowsFit'
  BY <1>1 DEF RowsFit, ArtifactFits
<1>6. \A s : StagesFit(s) => StagesFit(s)'
  BY <1>1, <1>3 DEF StagesFit, ArtifactFits
<1>7. ASSUME NEW q \in Runners, runner'[q] = runner[q], OwnerLeft(q) PROVE OwnerLeft(q)'
  BY <1>1, <1>2, <1>7 DEF OwnerLeft, at
<1>8. ASSUME NEW q \in Runners, runner'[q] = runner[q], OwnerFits(q) PROVE OwnerFits(q)'
  <2>1. /\ HasAQuery(runner[q].pick)' <=> HasAQuery(runner[q].pick)
    BY <1>1, <1>8 DEF HasAQuery
  <2> QED BY <1>1, <1>3, <1>8, <2>1 DEF OwnerFits, at, ArtifactFits
<1> QED BY <1>4, <1>5, <1>6, <1>7, <1>8

LEMMA ClaimKeeps ==
  ASSUME StagesInv, NEW r \in Runners, claimStage(r)
  PROVE  StagesInv'
<1> DEFINE state == [NoRunner EXCEPT !.phase = "Load", !.version = analysis.runVersion + 1,
                                     !.stage = analysis.stage, !.build = build]
<1>1. /\ StagesTypeOK /\ RowTypes /\ build \in Nat
      /\ analysis.runVersion \in Nat /\ analysis.stage \in StageNames
      /\ runner \in [Runners -> RunnerStates]
  BY TypesOfRows DEF StagesInv, StagesTypeOK
<1>2. /\ state \in RunnerStates /\ state.phase = "Load" /\ state.stage = analysis.stage
      /\ state.version = analysis.runVersion + 1 /\ state.build = build
  <2>1. NoRunner \in RunnerStates
    BY StageNamesAre DEF NoRunner, RunnerStates
  <2>2. analysis.runVersion + 1 \in Nat
    BY <1>1
  <2> QED BY <1>1, <2>1, <2>2 DEF RunnerStates
<1>3. runner' = [runner EXCEPT ![r] = state] /\ UNCHANGED <<rows, cache, setbacks>>
  BY DEF claimStage
<1>4. /\ analysis' \in [status: {"QUEUED", "RUNNING", "FAILED", "WAITING_FOR_APPROVAL"},
                        stage: StageNames, runVersion: Nat, rebuild: BOOLEAN]
      /\ analysis'.status = "RUNNING" /\ analysis'.stage = analysis.stage
      /\ analysis'.runVersion = analysis.runVersion + 1
      /\ analysis.status \in {"QUEUED", "RUNNING"}
  <2>1. analysis' = [analysis EXCEPT !.status = "RUNNING", !.runVersion = analysis.runVersion + 1]
    BY DEF claimStage
  <2>2. analysis.status \in {"QUEUED", "RUNNING"}
    BY DEF claimStage
  <2>3. analysis.runVersion + 1 \in Nat
    BY <1>1
  <2> QED BY <1>1, <2>1, <2>2, <2>3 DEF StagesTypeOK
<1>5. takeovers' \in 0..MaxTakeovers
  BY <1>1, StageBoundAssumption DEF claimStage, StagesTypeOK
<1> HIDE DEF state
<1>6. /\ runner' \in [Runners -> RunnerStates] /\ runner'[r] = state
      /\ \A q \in Runners : q # r => runner'[q] = runner[q]
  BY <1>1, <1>2, <1>3
<1>7. build' = build
  BY <1>3 DEF rows
<1>8. StageTypes'
  <2>1. RowTypes'
    BY <1>1, <1>3 DEF RowTypes, rows
  <2>2. StagesTypeOK'
    BY <1>1, <1>4, <1>5, <1>6, <1>7, <2>1 DEF StagesTypeOK, RowTypes
  <2>3. ASSUME NEW q \in Runners
        PROVE  HandFits(runner'[q].stage, runner'[q].phase, runner'[q].todo, runner'[q].pick)
    <3>1. CASE q = r
      BY <1>2, <1>6, <3>1 DEF HandFits
    <3>2. CASE q # r
      BY <1>6, <3>2, TypesOfRows DEF StagesInv
    <3> QED BY <3>1, <3>2
  <2> QED BY <2>1, <2>2, <2>3 DEF StageTypes, HandsFit, HandFits, QueriesAreRows, RowTypes, QueryIds
<1>9. \A q \in Runners : /\ AtWork(q) => runner[q].version <= analysis.runVersion
                         /\ runner[q].version \in Nat
  BY <1>1 DEF StagesInv, ClaimInv, OwnerIsUnique, RunnerStates
<1>10. \A q \in Runners : Owns(q)' => q = r
  BY <1>1, <1>4, <1>6, <1>9 DEF Owns, AtWork
<1>11. ASSUME takeovers' = 0, NEW q \in Runners, AtWork(q)' PROVE takeovers = 0 /\ q = r
  <2>1. takeovers = 0 /\ (analysis.status = "QUEUED" \/ ~OwnerAlive)
    BY <1>1, <1>11 DEF claimStage, StagesTypeOK
  <2>2. ~Owns(q)
    BY <2>1 DEF StagesInv, ClaimInv, OwnerIsInStep, OwnerAlive, Owns, AtWork
  <2> QED BY <1>6, <1>11, <2>1, <2>2 DEF StagesInv, ClaimInv, NoLateRunners, AtWork
<1>12. ClaimInv'
  <2>1. OwnerIsUnique'
    <3>1. \A q \in Runners : AtWork(q)' => runner'[q].version <= analysis'.runVersion
      BY <1>1, <1>2, <1>4, <1>6, <1>9 DEF AtWork
    <3>2. \A p, q \in Runners :
            AtWork(p)' /\ AtWork(q)' /\ runner'[p].version = runner'[q].version => p = q
      BY <1>1, <1>2, <1>6, <1>9 DEF AtWork, StagesInv, ClaimInv, OwnerIsUnique
    <3> QED BY <3>1, <3>2 DEF OwnerIsUnique
  <2>2. OwnerIsInStep'
    BY <1>2, <1>4, <1>6, <1>7, <1>10 DEF OwnerIsInStep, Current
  <2>3. NoLateRunners'
    BY <1>2, <1>4, <1>6, <1>11 DEF NoLateRunners, Owns, AtWork
  <2>4. ReviewIsLast'
    BY <1>4 DEF StagesInv, ClaimInv, ReviewIsLast, FromReview
  <2> QED BY <2>1, <2>2, <2>3, <2>4 DEF ClaimInv
<1>13. OwnerLeft(r)' /\ OwnerFits(r)'
  BY <1>2, <1>6 DEF OwnerLeft, OwnerFits, at
<1>14. ProgressInv'
  <2>1. StagesLeft(analysis.stage)
    BY DEF StagesInv, ProgressInv
  <2>2. StagesLeft(analysis.stage)'
    BY <1>3, <1>4, <2>1, RowsStay DEF StagesLeft
  <2> QED BY <1>10, <1>13, <2>2 DEF ProgressInv
<1>15. FitInv'
  <2> SUFFICES ASSUME takeovers' = 0
               PROVE  /\ RowsFit' /\ StagesFit(analysis.stage)'
                      /\ \A q \in Runners : AtWork(q)' => OwnerFits(q)'
    BY DEF FitInv
  <2>1. takeovers = 0 /\ RowsFit /\ StagesFit(analysis.stage)
    <3>1. AtWork(r)'
      BY <1>2, <1>6 DEF AtWork
    <3> QED BY <1>11, <3>1 DEF StagesInv, FitInv
  <2>2. RowsFit' /\ StagesFit(analysis.stage)'
    BY <1>3, <1>4, <2>1, RowsStay DEF StagesFit, ArtifactFits
  <2> QED BY <1>11, <1>13, <2>2
<1> QED BY <1>8, <1>12, <1>14, <1>15 DEF StagesInv

\* Runner r is gone; if the row changed, r held its claim and leaves a stage that is done.
LEMMA ReleaseKeeps ==
  ASSUME StagesInv, NEW r \in Runners, runner' = [runner EXCEPT ![r] = NoRunner],
         UNCHANGED <<rows, cache, takeovers>>, setbacks' \in 0..MaxSetbacks,
         analysis' \in [status: {"QUEUED", "RUNNING", "FAILED", "WAITING_FOR_APPROVAL"},
                        stage: StageNames, runVersion: Nat, rebuild: BOOLEAN],
         \/ analysis' = analysis
         \/ /\ Owns(r) /\ analysis'.runVersion = analysis.runVersion
            /\ analysis'.status = "WAITING_FOR_APPROVAL" <=> analysis'.stage \in FromReview
            /\ StagesLeft(analysis'.stage)
            /\ takeovers = 0 => StagesFit(analysis'.stage)
  PROVE  StagesInv'
<1>1. /\ StagesTypeOK /\ RowTypes /\ build' = build /\ NoRunner \in RunnerStates
      /\ runner \in [Runners -> RunnerStates]
  BY StageNamesAre, TypesOfRows DEF StagesInv, StagesTypeOK, rows, NoRunner, RunnerStates
<1>2. /\ runner' \in [Runners -> RunnerStates] /\ runner'[r] = NoRunner /\ ~AtWork(r)'
      /\ \A q \in Runners : q # r => runner'[q] = runner[q]
  <2>1. runner' \in [Runners -> RunnerStates] /\ runner'[r] = NoRunner
        /\ \A q \in Runners : q # r => runner'[q] = runner[q]
    BY <1>1
  <2> QED BY <2>1 DEF AtWork, NoRunner
<1>3. \A q \in Runners : AtWork(q)' => q # r /\ AtWork(q) /\ runner'[q] = runner[q]
  BY <1>2 DEF AtWork
<1>4. analysis'.runVersion = analysis.runVersion
  OBVIOUS
<1>5. \A q \in Runners : Owns(q)' => Owns(q) /\ q # r /\ analysis' = analysis
  BY <1>3, <1>4 DEF Owns, StagesInv, ClaimInv, OwnerIsUnique
<1>6. StageTypes'
  <2>1. RowTypes'
    BY <1>1 DEF RowTypes, rows
  <2>2. StagesTypeOK'
    BY <1>1, <1>2, <2>1 DEF StagesTypeOK, RowTypes
  <2>3. ASSUME NEW q \in Runners
        PROVE  HandFits(runner'[q].stage, runner'[q].phase, runner'[q].todo, runner'[q].pick)
    <3>1. CASE q = r
      BY <1>2, <3>1 DEF HandFits, NoRunner
    <3>2. CASE q # r
      BY <1>2, <3>2, TypesOfRows DEF StagesInv
    <3> QED BY <3>1, <3>2
  <2> QED BY <2>1, <2>2, <2>3 DEF StageTypes, HandsFit, HandFits, QueriesAreRows, RowTypes, QueryIds
<1>7. ClaimInv'
  <2>1. OwnerIsUnique'
    BY <1>3, <1>4 DEF StagesInv, ClaimInv, OwnerIsUnique
  <2>2. OwnerIsInStep'
    BY <1>1, <1>3, <1>5 DEF StagesInv, ClaimInv, OwnerIsInStep, Current
  <2>3. NoLateRunners'
    BY <1>3, <1>4 DEF StagesInv, ClaimInv, NoLateRunners, Owns
  <2>4. ReviewIsLast'
    BY DEF StagesInv, ClaimInv, ReviewIsLast, FromReview
  <2> QED BY <2>1, <2>2, <2>3, <2>4 DEF ClaimInv
<1>8. ProgressInv'
  <2>1. StagesLeft(analysis'.stage)
    BY DEF StagesInv, ProgressInv
  <2>2. StagesLeft(analysis.stage)'
    BY <2>1, RowsStay DEF StagesLeft
  <2>3. ASSUME NEW q \in Runners, Owns(q)' PROVE OwnerLeft(q)'
    BY <1>3, <1>5, <2>3, RowsStay DEF StagesInv, ProgressInv, Owns
  <2> QED BY <2>2, <2>3 DEF ProgressInv
<1>9. FitInv'
  <2> SUFFICES ASSUME takeovers = 0
               PROVE  /\ RowsFit' /\ StagesFit(analysis.stage)'
                      /\ \A q \in Runners : AtWork(q)' => OwnerFits(q)'
    BY DEF FitInv
  <2>1. RowsFit /\ StagesFit(analysis'.stage)
    BY DEF StagesInv, FitInv
  <2>2. RowsFit' /\ StagesFit(analysis.stage)'
    BY <2>1, RowsStay DEF StagesFit, ArtifactFits
  <2>3. ASSUME NEW q \in Runners, AtWork(q)' PROVE OwnerFits(q)'
    BY <1>3, <2>3, RowsStay DEF StagesInv, FitInv
  <2> QED BY <2>2, <2>3
<1> QED BY <1>6, <1>7, <1>8, <1>9 DEF StagesInv

\* The row of a runner that holds the claim is RUNNING the stage of the runner.
LEMMA OwnersRow ==
  ASSUME StagesInv, NEW r \in Runners, AtWork(r), analysis.runVersion = runner[r].version
  PROVE  /\ Owns(r) /\ analysis.status = "RUNNING" /\ runner[r].stage = analysis.stage
         /\ analysis.stage \notin FromReview /\ OwnerLeft(r) /\ StagesLeft(analysis.stage)
         /\ takeovers = 0 => StagesFit(analysis.stage) /\ OwnerFits(r)
<1>1. Owns(r)
  BY DEF Owns
<1>2. analysis.status = "RUNNING" /\ runner[r].stage = analysis.stage
  BY <1>1 DEF StagesInv, ClaimInv, OwnerIsInStep
<1>3. analysis.stage \notin FromReview
  BY <1>2 DEF StagesInv, ClaimInv, ReviewIsLast
<1> QED BY <1>1, <1>2, <1>3, OwnersKnow

LEMMA CrashKeeps ==
  ASSUME StagesInv, NEW r \in Runners, runnerCrashes(r)
  PROVE  StagesInv'
<1>1. setbacks' \in 0..MaxSetbacks
  BY TypesOfRows, StageBoundAssumption
     DEF StagesInv, StagesTypeOK, runnerCrashes, SetbacksAreLeft
<1>2. analysis \in [status: {"QUEUED", "RUNNING", "FAILED", "WAITING_FOR_APPROVAL"},
                    stage: StageNames, runVersion: Nat, rebuild: BOOLEAN]
  BY TypesOfRows DEF StagesInv, StagesTypeOK
<1> QED BY <1>1, <1>2, ReleaseKeeps DEF runnerCrashes

LEMMA FailedKeeps ==
  ASSUME StagesInv, NEW r \in Runners, stageFailed(r)
  PROVE  StagesInv'
<1>1. /\ setbacks' \in 0..MaxSetbacks /\ runner[r].rebuild \in BOOLEAN /\ AtWork(r)
      /\ analysis \in [status: {"QUEUED", "RUNNING", "FAILED", "WAITING_FOR_APPROVAL"},
                       stage: StageNames, runVersion: Nat, rebuild: BOOLEAN]
  BY TypesOfRows DEF StagesInv, RowTypes, StagesTypeOK, RunnerStates, AtWork, stageFailed
<1>2. runner' = [runner EXCEPT ![r] = NoRunner] /\ UNCHANGED <<rows, cache, takeovers>>
  BY DEF stageFailed
<1>3. CASE analysis.runVersion = runner[r].version
  <2>1. analysis' = [analysis EXCEPT !.status = "FAILED", !.rebuild = runner[r].rebuild]
    BY <1>3 DEF stageFailed
  <2>2. /\ analysis' \in [status: {"QUEUED", "RUNNING", "FAILED", "WAITING_FOR_APPROVAL"},
                          stage: StageNames, runVersion: Nat, rebuild: BOOLEAN]
        /\ analysis'.status = "FAILED" /\ analysis'.stage = analysis.stage
        /\ analysis'.runVersion = analysis.runVersion
    BY <1>1, <2>1
  <2>3. /\ Owns(r) /\ analysis.stage \notin FromReview /\ StagesLeft(analysis.stage)
        /\ takeovers = 0 => StagesFit(analysis.stage)
    BY <1>1, <1>3, OwnersRow
  <2> QED BY <1>1, <1>2, <2>2, <2>3, ReleaseKeeps
<1>4. CASE analysis.runVersion # runner[r].version
  <2>1. analysis' = analysis
    BY <1>4 DEF stageFailed
  <2> QED BY <1>1, <1>2, <2>1, ReleaseKeeps
<1> QED BY <1>3, <1>4

\* A stage that is done has left what the next one needs.
LEMMA DoneLeaves ==
  ASSUME NEW r \in Runners, runner[r].phase = "Done", NEW s, runner[r].stage = s,
         s \in StageNames, s \notin FromReview, StagesLeft(s), OwnerLeft(r)
  PROVE  /\ nextStageName(s) \in StageNames /\ StagesLeft(nextStageName(s))
         /\ s = "GENERATING_INSIGHTS" <=> nextStageName(s) \in FromReview
         /\ StagesFit(s) /\ OwnerFits(r) => StagesFit(nextStageName(s))
<1> USE DEF FromSchema, FromEntities, FromKpis, FromQueries, FromValidate, FromExecute,
            FromWidgets, FromInsights, FromReview
<1>1. CASE s = "PREPARING_METADATA"
  BY <1>1, NextStages, StageNamesAre DEF StagesLeft, OwnerLeft, StagesFit, ArtifactFits,
     OwnerFits, at
<1>2. CASE s = "ANALYZING_SCHEMA"
  BY <1>2, NextStages, StageNamesAre DEF StagesLeft, OwnerLeft, StagesFit, ArtifactFits,
     OwnerFits, at
<1>3. CASE s = "IDENTIFYING_BUSINESS_ENTITIES"
  BY <1>3, NextStages, StageNamesAre DEF StagesLeft, OwnerLeft, StagesFit, ArtifactFits,
     OwnerFits, at
<1>4. CASE s = "RECOMMENDING_KPIS"
  BY <1>4, NextStages, StageNamesAre DEF StagesLeft, OwnerLeft, StagesFit, ArtifactFits,
     OwnerFits, at
<1>5. CASE s = "GENERATING_QUERIES"
  BY <1>5, NextStages, StageNamesAre DEF StagesLeft, OwnerLeft, StagesFit, ArtifactFits,
     OwnerFits, at
<1>6. CASE s = "VALIDATING_QUERIES"
  BY <1>6, NextStages, StageNamesAre DEF StagesLeft, OwnerLeft, StagesFit, ArtifactFits,
     OwnerFits, at
<1>7. CASE s = "EXECUTING_QUERIES"
  BY <1>7, NextStages, StageNamesAre DEF StagesLeft, OwnerLeft, StagesFit, ArtifactFits,
     OwnerFits, at
<1>8. CASE s = "GENERATING_WIDGETS"
  BY <1>8, NextStages, StageNamesAre DEF StagesLeft, OwnerLeft, StagesFit, ArtifactFits,
     OwnerFits, at
<1>9. CASE s = "GENERATING_INSIGHTS"
  BY <1>9, NextStages, StageNamesAre DEF StagesLeft, OwnerLeft, StagesFit, ArtifactFits,
     OwnerFits, at
<1> QED BY <1>1, <1>2, <1>3, <1>4, <1>5, <1>6, <1>7, <1>8, <1>9, StageNamesAre

LEMMA AppliedKeeps ==
  ASSUME StagesInv, NEW r \in Runners, stageApplied(r)
  PROVE  StagesInv'
<1>1. /\ setbacks' \in 0..MaxSetbacks /\ AtWork(r)
      /\ analysis \in [status: {"QUEUED", "RUNNING", "FAILED", "WAITING_FOR_APPROVAL"},
                       stage: StageNames, runVersion: Nat, rebuild: BOOLEAN]
  BY TypesOfRows DEF StagesInv, RowTypes, StagesTypeOK, AtWork, stageApplied
<1>2. runner' = [runner EXCEPT ![r] = NoRunner] /\ UNCHANGED <<rows, cache, takeovers>>
  BY DEF stageApplied
<1>3. CASE StageStillRunning(r)
  <2> DEFINE s == runner[r].stage
             status == IF s = "GENERATING_INSIGHTS" THEN "WAITING_FOR_APPROVAL" ELSE "RUNNING"
  <2>1. analysis' = [analysis EXCEPT !.stage = nextStageName(s), !.status = status]
    BY <1>3 DEF stageApplied
  <2>2. /\ Owns(r) /\ s = analysis.stage /\ s \in StageNames /\ s \notin FromReview
        /\ StagesLeft(s) /\ OwnerLeft(r)
        /\ takeovers = 0 => StagesFit(s) /\ OwnerFits(r)
    BY <1>1, <1>3, OwnersRow DEF StageStillRunning
  <2>3. runner[r].phase = "Done"
    BY DEF stageApplied
  <2>4. /\ nextStageName(s) \in StageNames /\ StagesLeft(nextStageName(s))
        /\ s = "GENERATING_INSIGHTS" <=> nextStageName(s) \in FromReview
        /\ takeovers = 0 => StagesFit(nextStageName(s))
    BY <2>2, <2>3, DoneLeaves
  <2>5. /\ analysis' \in [status: {"QUEUED", "RUNNING", "FAILED", "WAITING_FOR_APPROVAL"},
                          stage: StageNames, runVersion: Nat, rebuild: BOOLEAN]
        /\ analysis'.status = status /\ analysis'.stage = nextStageName(s)
        /\ analysis'.runVersion = analysis.runVersion
    BY <1>1, <2>1, <2>4
  <2>6. status = "WAITING_FOR_APPROVAL" <=> s = "GENERATING_INSIGHTS"
    OBVIOUS
  <2> HIDE DEF s, status
  <2> QED BY <1>1, <1>2, <2>2, <2>4, <2>5, <2>6, ReleaseKeeps
<1>4. CASE ~StageStillRunning(r)
  <2>1. analysis' = analysis
    BY <1>4 DEF stageApplied
  <2> QED BY <1>1, <1>2, <2>1, ReleaseKeeps
<1> QED BY <1>3, <1>4

LEMMA RetryKeeps ==
  ASSUME StagesInv, retryAnalysisJob
  PROVE  StagesInv'
<1> DEFINE Row == [status: {"QUEUED", "RUNNING", "FAILED", "WAITING_FOR_APPROVAL"},
                   stage: StageNames, runVersion: Nat, rebuild: BOOLEAN]
           stage == IF analysis.rebuild THEN "PREPARING_METADATA" ELSE analysis.stage
<1>1. /\ StagesTypeOK /\ RowTypes /\ build \in Nat /\ MaxQueries \in Nat /\ analysis \in Row
  BY TypesOfRows, StageBoundAssumption DEF StagesInv, StagesTypeOK
<1>2. analysis' = [analysis EXCEPT !.status = "QUEUED", !.rebuild = FALSE, !.stage = stage]
  BY DEF retryAnalysisJob
<1>3. /\ analysis' \in Row /\ analysis'.status = "QUEUED" /\ analysis'.stage = stage
      /\ analysis'.runVersion = analysis.runVersion
  <2>1. stage \in StageNames
    BY <1>1, StageNamesAre
  <2> HIDE DEF stage
  <2> QED BY <1>1, <1>2, <2>1
<1>4. UNCHANGED <<lastQuery, runner, takeovers, setbacks>>
  BY DEF retryAnalysisJob
<1>5. \A q \in Runners : ~Owns(q)
  BY DEF StagesInv, ClaimInv, OwnerIsInStep, retryAnalysisJob
<1>6. \A q \in Runners : ~Owns(q)' /\ (AtWork(q)' <=> AtWork(q))
  BY <1>3, <1>4, <1>5 DEF Owns, AtWork
<1>7. stage \notin FromReview
  BY DEF StagesInv, ClaimInv, ReviewIsLast, FromReview, retryAnalysisJob
<1>8. ClaimInv'
  <2>1. OwnerIsUnique'
    BY <1>3, <1>4, <1>6 DEF StagesInv, ClaimInv, OwnerIsUnique
  <2>2. OwnerIsInStep'
    BY <1>6 DEF OwnerIsInStep
  <2>3. NoLateRunners'
    BY <1>4, <1>5, <1>6 DEF StagesInv, ClaimInv, NoLateRunners
  <2>4. ReviewIsLast'
    BY <1>3, <1>7 DEF ReviewIsLast, FromReview
  <2> QED BY <2>1, <2>2, <2>3, <2>4 DEF ClaimInv
<1>9. takeovers' = 0 => \A q \in Runners : ~AtWork(q)'
  BY <1>4, <1>5, <1>6 DEF StagesInv, ClaimInv, NoLateRunners
<1>10. ASSUME RowTypes', build' \in Nat PROVE StageTypes'
  <2>1. StagesTypeOK'
    BY <1>1, <1>3, <1>4, <1>10 DEF StagesTypeOK, RowTypes
  <2>2. HandsFit'
    BY <1>4 DEF StagesInv, StageTypes, HandsFit, HandFits, QueryIds
  <2> QED BY <1>10, <2>1, <2>2 DEF StageTypes, QueriesAreRows, RowTypes
<1>11. CASE analysis.rebuild
  <2>1. /\ artifact' = NoArtifacts /\ kpis' = {} /\ queries' = NoRows /\ widgets' = {}
        /\ build' = build + 1
        /\ cache' \in {{}, cache}
    BY <1>11 DEF retryAnalysisJob
  <2>3. /\ DOMAIN queries' = {} /\ queries' \in [DOMAIN queries' -> QueryRows]
        /\ artifact'.kpis = {}
    BY <2>1 DEF NoRows, NoArtifacts
  <2>4. RowTypes'
    <3>1. artifact' \in Artifacts
      BY <2>1 DEF NoArtifacts, Artifacts
    <3>2. cache' \in SUBSET Kpis
      BY <1>1, <2>1 DEF RowTypes
    <3> QED BY <1>1, <1>4, <2>1, <2>3, <3>1, <3>2 DEF RowTypes
  <2>5. StageTypes'
    BY <1>1, <1>10, <2>1, <2>4
  <2>6. ProgressInv'
    BY <1>3, <1>6, <1>11
       DEF ProgressInv, StagesLeft, FromSchema, FromEntities, FromKpis, FromQueries, FromValidate,
           FromExecute, FromWidgets, FromInsights, FromReview
  <2>7. RowsFit'
    BY <2>1, <2>3 DEF RowsFit, ArtifactFits
  <2>8. StagesFit(analysis.stage)'
    BY <1>3, <1>11
       DEF StagesFit, ArtifactFits, FromQueries, FromValidate, FromExecute, FromWidgets,
          FromInsights, FromReview
  <2>9. FitInv'
    BY <1>9, <2>7, <2>8 DEF FitInv
  <2> QED BY <1>8, <2>5, <2>6, <2>9 DEF StagesInv
<1>12. CASE ~analysis.rebuild
  <2>1. UNCHANGED <<rows, cache>> /\ build' = build /\ analysis'.stage = analysis.stage
    BY <1>3, <1>4, <1>12 DEF retryAnalysisJob, rows
  <2>2. StageTypes'
    <3>1. RowTypes'
      BY <1>1, <1>4, <2>1 DEF RowTypes, rows
    <3> QED BY <1>1, <1>10, <2>1, <3>1
  <2>3. ProgressInv'
    <3>1. StagesLeft(analysis.stage)'
      BY <2>1, RowsStay DEF StagesInv, ProgressInv, StagesLeft
    <3> QED BY <1>6, <3>1 DEF ProgressInv
  <2>4. FitInv'
    <3>1. takeovers' = 0 => RowsFit' /\ StagesFit(analysis.stage)'
      BY <1>4, <2>1, RowsStay DEF StagesInv, FitInv, StagesFit, ArtifactFits
    <3> QED BY <1>9, <3>1 DEF FitInv
  <2> QED BY <1>8, <2>2, <2>3, <2>4 DEF StagesInv
<1> QED BY <1>11, <1>12

-----------------------------------------------------------------------------
(* The theorems. *)

LEMMA StagesInvInit == StagesInit => StagesInv
<1> SUFFICES ASSUME StagesInit PROVE StagesInv
  OBVIOUS
<1>1. NoRunner \in RunnerStates /\ NoRunner.phase = "Idle"
  BY StageNamesAre DEF NoRunner, RunnerStates
<1>2. /\ runner \in [Runners -> RunnerStates]
      /\ \A r \in Runners : runner[r] = NoRunner /\ ~AtWork(r)
  BY <1>1 DEF StagesInit, AtWork
<1>3. /\ analysis \in [status: {"QUEUED", "RUNNING", "FAILED", "WAITING_FOR_APPROVAL"},
                       stage: StageNames, runVersion: Nat, rebuild: BOOLEAN]
      /\ analysis.stage = "PREPARING_METADATA" /\ analysis.status = "QUEUED"
  BY StageNamesAre DEF StagesInit
<1>4. /\ artifact \in Artifacts /\ artifact.kpis = {}
      /\ DOMAIN queries = {} /\ queries \in [DOMAIN queries -> QueryRows]
  BY DEF StagesInit, NoArtifacts, Artifacts, NoRows
<1>5. StageTypes
  <2>1. StagesTypeOK
    BY <1>2, <1>3, <1>4, StageBoundAssumption DEF StagesInit, StagesTypeOK
  <2>2. HandsFit
    BY <1>2 DEF HandsFit, HandFits, NoRunner
  <2> QED BY <1>4, <2>1, <2>2 DEF StageTypes, QueriesAreRows
<1>6. ClaimInv
  BY <1>2, <1>3
     DEF ClaimInv, OwnerIsUnique, OwnerIsInStep, NoLateRunners, ReviewIsLast, Owns, FromReview
<1>7. ProgressInv
  BY <1>2, <1>3
     DEF ProgressInv, Owns, StagesLeft, FromSchema, FromEntities, FromKpis, FromQueries,
         FromValidate, FromExecute, FromWidgets, FromInsights, FromReview
<1>8. FitInv
  BY <1>2, <1>3, <1>4
     DEF StagesInit, FitInv, RowsFit, ArtifactFits, StagesFit, FromQueries, FromValidate,
        FromExecute, FromWidgets, FromInsights, FromReview
<1> QED BY <1>5, <1>6, <1>7, <1>8 DEF StagesInv

LEMMA StagesStutter ==
  ASSUME StagesInv, UNCHANGED stageVars
  PROVE  StagesInv'
<1>1. /\ UNCHANGED <<rows, cache>> /\ analysis' = analysis /\ runner' = runner /\ build' = build
      /\ takeovers' = takeovers /\ setbacks' = setbacks /\ lastQuery' = lastQuery
  BY DEF stageVars, rows
<1>2. StageTypes'
  <2>1. RowTypes'
    BY <1>1, TypesOfRows DEF StagesInv, RowTypes, rows
  <2>2. StagesTypeOK'
    BY <1>1, <2>1 DEF StagesInv, StageTypes, StagesTypeOK, RowTypes
  <2> QED BY <1>1, <2>1, <2>2
          DEF StagesInv, StageTypes, HandsFit, HandFits, QueriesAreRows, RowTypes, QueryIds
<1>3. ClaimInv'
  BY <1>1 DEF StagesInv, ClaimInv, OwnerIsUnique, OwnerIsInStep, NoLateRunners, ReviewIsLast,
         Owns, AtWork, Current, FromReview
<1>4. ProgressInv'
  <2>1. StagesLeft(analysis.stage)'
    BY <1>1, RowsStay DEF StagesInv, ProgressInv, StagesLeft
  <2>2. \A q \in Runners : Owns(q)' => OwnerLeft(q)'
    BY <1>1, RowsStay DEF StagesInv, ProgressInv, Owns, AtWork
  <2> QED BY <2>1, <2>2 DEF ProgressInv
<1>5. FitInv'
  <2> SUFFICES ASSUME takeovers = 0
               PROVE  /\ RowsFit' /\ StagesFit(analysis.stage)'
                      /\ \A q \in Runners : AtWork(q)' => OwnerFits(q)'
    BY <1>1 DEF FitInv
  <2>1. RowsFit' /\ StagesFit(analysis.stage)'
    BY <1>1, RowsStay DEF StagesInv, FitInv, StagesFit, ArtifactFits
  <2>2. \A q \in Runners : AtWork(q)' => OwnerFits(q)'
    BY <1>1, RowsStay DEF StagesInv, FitInv, AtWork
  <2> QED BY <2>1, <2>2
<1> QED BY <1>2, <1>3, <1>4, <1>5 DEF StagesInv

\* Claims, progress and fit hold whatever the runners do, fail at, and take over.
THEOREM StagesInvariant == StagesSpec => []StagesInv
<1>1. StagesInit => StagesInv
  BY StagesInvInit
<1>2. StagesInv /\ [StagesNext]_stageVars => StagesInv'
  <2> SUFFICES ASSUME StagesInv, [StagesNext]_stageVars PROVE StagesInv'
    OBVIOUS
  <2>1. ASSUME NEW r \in Runners, claimStage(r) PROVE StagesInv'
    BY <2>1, ClaimKeeps
  <2>2. ASSUME NEW r \in Runners, runAnalysisStage(r) PROVE StagesInv'
    BY <2>2, HandlersKeep
  <2>3. ASSUME NEW r \in Runners, stageThrows(r) PROVE StagesInv'
    BY <2>3, ThrowsKeep
  <2>4. ASSUME NEW r \in Runners, stageFailed(r) PROVE StagesInv'
    BY <2>4, FailedKeeps
  <2>5. ASSUME NEW r \in Runners, stageApplied(r) PROVE StagesInv'
    BY <2>5, AppliedKeeps
  <2>6. ASSUME NEW r \in Runners, runnerCrashes(r) PROVE StagesInv'
    BY <2>6, CrashKeeps
  <2>7. CASE retryAnalysisJob
    BY <2>7, RetryKeeps
  <2>8. CASE UNCHANGED stageVars
    BY <2>8, StagesStutter
  <2> QED BY <2>1, <2>2, <2>3, <2>4, <2>5, <2>6, <2>7, <2>8 DEF StagesNext
<1> QED BY <1>1, <1>2, PTL DEF StagesSpec

\* Every row, artifact and runner of the stages keeps its type.
THEOREM StagesTypeCorrect == StagesSpec => []StagesTypeOK
<1>1. StagesInv => StagesTypeOK
  BY DEF StagesInv, StageTypes
<1> QED BY <1>1, StagesInvariant, PTL

\* What reviewers are shown is there and belongs together: a job waits for its review only
\* after every stage ran under a claim that was still held when it was applied.  Where no
\* claim was taken from a living runner, a stage that was repeated has left the rows of all
\* its artifact's KPIs, unless that artifact is the fallback, and one query of each.
THEOREM ReviewersSeeBackedRows == StagesSpec => []ReviewIsBacked
<1>1. ASSUME StagesInv PROVE ReviewIsBacked
  <2> SUFFICES ASSUME analysis.status = "WAITING_FOR_APPROVAL"
               PROVE  /\ kpis # {} /\ widgets # {} /\ artifact.marks = Marks
                      /\ \E i \in DOMAIN queries : queries[i].executed
                      /\ takeovers = 0 =>
                           /\ artifact.kpis \subseteq kpis \/ artifact.kpis = {FallbackKpi}
                           /\ \A k \in kpis : \E i \in DOMAIN queries :
                                QueriesOf(k) = {i} /\ queries[i].validation = "VALID"
                                /\ queries[i].executed
                           /\ \A i \in widgets : i \in DOMAIN queries /\ queries[i].executed
    BY DEF ReviewIsBacked
  <2>1. analysis.stage = "FINALIZING_DASHBOARD" /\ StagesLeft(analysis.stage)
    BY <1>1 DEF StagesInv, ClaimInv, ReviewIsLast, FromReview, ProgressInv
  <2>2. /\ kpis # {} /\ widgets # {} /\ SomeExecuted /\ Marks \subseteq artifact.marks
    BY <2>1 DEF StagesLeft, FromSchema, FromEntities, FromKpis, FromQueries, FromValidate,
           FromExecute, FromWidgets, FromInsights, FromReview, Marks
  <2>3. artifact.marks \subseteq Marks
    BY <1>1, TypesOfRows DEF StagesInv, RowTypes, Artifacts
  <2>4. ASSUME takeovers = 0
        PROVE  /\ artifact.kpis \subseteq kpis \/ artifact.kpis = {FallbackKpi}
               /\ \A k \in kpis : \E i \in DOMAIN queries :
                    QueriesOf(k) = {i} /\ queries[i].validation = "VALID" /\ queries[i].executed
               /\ \A i \in widgets : i \in DOMAIN queries /\ queries[i].executed
    <3>1. RowsFit /\ StagesFit("FINALIZING_DASHBOARD")
      BY <1>1, <2>1, <2>4 DEF StagesInv, FitInv
    <3>2. /\ ArtifactFits(kpis) /\ \A k \in kpis : HasAQuery(k)
          /\ \A i \in DOMAIN queries : IsValid(i) /\ queries[i].executed
      BY <3>1 DEF StagesFit, ArtifactFits, FromQueries, FromValidate, FromExecute, FromWidgets,
         FromInsights, FromReview
    <3>3. \A i \in widgets : i \in DOMAIN queries /\ queries[i].executed
      BY <3>1, <3>2 DEF RowsFit, ArtifactFits
    <3>4. ASSUME NEW k \in kpis
          PROVE  \E i \in DOMAIN queries :
                   QueriesOf(k) = {i} /\ queries[i].validation = "VALID" /\ queries[i].executed
      <4>1. PICK i \in DOMAIN queries : queries[i].kpi = k
        BY <3>2 DEF HasAQuery
      <4>2. \A j \in DOMAIN queries : queries[j].kpi = k => j = i
        BY <3>1, <4>1 DEF RowsFit, ArtifactFits
      <4>3. QueriesOf(k) = {i}
        BY <4>1, <4>2 DEF QueriesOf
      <4> QED BY <3>2, <4>3 DEF IsValid
    <3> QED BY <3>2, <3>3, <3>4 DEF ArtifactFits
  <2> QED BY <2>2, <2>3, <2>4 DEF SomeExecuted
<1> QED BY <1>1, StagesInvariant, PTL
=============================================================================
