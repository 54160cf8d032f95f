---------------------------- MODULE AnalysisReview ----------------------------
(***************************************************************************)
(* Human review and publication of an analysis that waits for approval:    *)
(* server/services/analysis-review-service.ts with the query creation and  *)
(* execution of server/services/query-service.ts.  Reviewers act           *)
(* concurrently; every operation reads the job and its rows first, checks  *)
(* that the job is under review, and writes later without checking again - *)
(* a regeneration seconds later, when the provider has answered.           *)
(*                                                                         *)
(* A recommendation is its row: type, external id, revision, decision and, *)
(* for a widget, the query it shows.  Titles, descriptions and chart types *)
(* are left out.                                                           *)
(***************************************************************************)
EXTENDS Naturals, Sequences, FiniteSets

CONSTANTS Reviewers,     \* review requests in flight at once
          KpiIds,        \* external ids of the KPIs the pipeline recommended
          WidgetIds,     \* external ids of the widgets it defined
          ShownBy,       \* ShownBy[w]: the KPI whose query widget w showed first
          MaxRegenerations, \* bound: regenerations that reach the database, in all
          ActsOnSuperseded  \* may a request name a superseded recommendation?

ASSUME ReviewAssumption ==
  /\ KpiIds \cap WidgetIds = {}
  /\ ShownBy \in [WidgetIds -> KpiIds]
  /\ MaxRegenerations \in Nat
  /\ ActsOnSuperseded \in BOOLEAN
  /\ IsFiniteSet(KpiIds) /\ IsFiniteSet(WidgetIds) /\ IsFiniteSet(Reviewers)

VARIABLES
  jobStatus,   \* status of the AnalysisJob row, as far as review goes
  recs,        \* AnalysisRecommendation rows, in order of creation
  queryRow,    \* QueryDefinition rows, in order of creation
  artifacts,   \* artifacts[type]: highest artifact revision of that type
  versions,    \* DashboardVersion snapshots, by version number
  rendered,    \* DashboardWidget rows: the recommendations shown
  req          \* req[r]: what reviewer r's request has read

reviewVars == <<jobStatus, recs, queryRow, artifacts, versions, rendered, req>>

Types == {"KPI", "WIDGET"}
Decisions == {"APPROVED", "REJECTED"}
RecIds == 1..Len(recs)

\* query = 0 for a KPI; rec is the KPI a query belongs to.
RecRows == [type: Types, ext: KpiIds \cup WidgetIds, revision: Nat \ {0},
            status: Decisions \cup {"PENDING", "SUPERSEDED"}, query: Nat]
QueryRecords == [rec: Nat, valid: BOOLEAN, executed: BOOLEAN]
Snapshots == [kpis: SUBSET Nat, widgets: SUBSET Nat]

\* What a request remembers between its steps: the recommendation it names, a set of
\* recommendations or the snapshot it read, and the revisions it computed.
Phases == {"Idle", "Deciding", "Approving", "Asking", "Superseding", "Querying",
           "Executing", "Gathering", "Finalizing"}
NoRequest == [phase |-> "Idle", rec |-> 0, decision |-> "APPROVED", ids |-> {},
              kpis |-> {}, revision |-> 0, artifact |-> 0, query |-> 0]

ReviewTypeOK ==
  /\ jobStatus \in {"WAITING_FOR_APPROVAL", "COMPLETED"}
  /\ recs \in Seq(RecRows)
  /\ queryRow \in Seq(QueryRecords)
  /\ artifacts \in [Types -> Nat]
  /\ versions \in Seq(Snapshots)
  /\ rendered \subseteq RecIds
  /\ req \in [Reviewers -> [phase: Phases, rec: Nat, decision: Decisions, ids: SUBSET Nat,
                            kpis: SUBSET Nat, revision: Nat, artifact: Nat, query: Nat]]

\* The rows the pipeline leaves (AnalysisStages!ReviewIsBacked): one executed query
\* per KPI, and widgets that show them.
SetAsSeq(S) == CHOOSE f \in [1..Cardinality(S) -> S] : \A x \in S : \E i \in DOMAIN f : f[i] = x

ReviewInit ==
  LET ks == SetAsSeq(KpiIds)
      ws == SetAsSeq(WidgetIds)
      at(k) == CHOOSE i \in DOMAIN ks : ks[i] = k
      row(type, ext, query) == [type |-> type, ext |-> ext, revision |-> 1,
                                status |-> "PENDING", query |-> query]
  IN /\ jobStatus = "WAITING_FOR_APPROVAL"
     /\ recs = [i \in 1..Len(ks) |-> row("KPI", ks[i], 0)]
               \o [i \in 1..Len(ws) |-> row("WIDGET", ws[i], at(ShownBy[ws[i]]))]
     /\ queryRow = [i \in 1..Len(ks) |-> [rec |-> i, valid |-> TRUE, executed |-> TRUE]]
     /\ artifacts = [t \in Types |-> 1]
     /\ versions = <<>>
     /\ rendered = {}
     /\ req = [r \in Reviewers |-> NoRequest]

-----------------------------------------------------------------------------
UnderReview == jobStatus = "WAITING_FOR_APPROVAL"

Approved(type) == {i \in RecIds : recs[i].type = type /\ recs[i].status = "APPROVED"}

\* The review page lists only recommendations that are not superseded; a page that was
\* opened earlier, or another client, may name any.
Nameable(i) == recs[i].status # "SUPERSEDED" \/ ActsOnSuperseded

Finish(r) == req' = [req EXCEPT ![r] = NoRequest]
rowsOnly == UNCHANGED <<jobStatus, artifacts, versions, rendered>>

updateRecommendationDecisionRead(r) ==
  /\ req[r].phase = "Idle"
  /\ UnderReview
  /\ \E i \in RecIds, d \in Decisions :
       /\ Nameable(i)
       /\ req' = [req EXCEPT ![r] = [NoRequest EXCEPT !.phase = "Deciding", !.rec = i,
                                                      !.decision = d]]
  /\ UNCHANGED <<jobStatus, recs, queryRow, artifacts, versions, rendered>>

updateRecommendationDecisionWrite(r) ==
  /\ req[r].phase = "Deciding"
  /\ recs' = [recs EXCEPT ![req[r].rec].status = req[r].decision]
  /\ Finish(r)
  /\ rowsOnly /\ UNCHANGED queryRow

\* All that are not approved yet, or the chosen ones; superseded rows are not read.
approveRead(r) ==
  /\ req[r].phase = "Idle"
  /\ UnderReview
  /\ \E chosen \in SUBSET {i \in RecIds : recs[i].status # "SUPERSEDED"} :
       /\ chosen # {}
       /\ req' = [req EXCEPT ![r] = [NoRequest EXCEPT !.phase = "Approving", !.ids = chosen]]
  /\ UNCHANGED <<jobStatus, recs, queryRow, artifacts, versions, rendered>>

approveWrite(r) ==
  /\ req[r].phase = "Approving"
  /\ recs' = [i \in RecIds |-> IF i \in req[r].ids THEN [recs[i] EXCEPT !.status = "APPROVED"]
                               ELSE recs[i]]
  /\ Finish(r)
  /\ rowsOnly /\ UNCHANGED queryRow

-----------------------------------------------------------------------------
(* regenerateAnalysisRecommendation. *)

Revisions(type, ext) == {recs[i].revision : i \in {k \in RecIds : recs[k].type = type
                                                               /\ recs[k].ext = ext}}
Highest(S) == CHOOSE n \in S \cup {0} : \A m \in S : m <= n

\* Mutant: numbered from the wrong end.
nextRevisionDown(type, ext) == Highest(Revisions(type, ext)) - 1

nextRevision(type, ext) == Highest(Revisions(type, ext)) + 1

\* New revisions are the highest ones read, plus one; a widget may pick any query of
\* the job that has a result schema.
regenerateRead(r) ==
  /\ req[r].phase = "Idle"
  /\ UnderReview
  /\ \E i \in RecIds :
       /\ Nameable(i)
       /\ \E q \in IF recs[i].type = "KPI" THEN {0}
                   ELSE {k \in DOMAIN queryRow : queryRow[k].executed} :
            req' = [req EXCEPT ![r] =
                     [NoRequest EXCEPT !.phase = "Asking", !.rec = i, !.query = q,
                        !.revision = nextRevision(recs[i].type, recs[i].ext),
                        !.artifact = artifacts[recs[i].type] + 1]]
  /\ UNCHANGED <<jobStatus, recs, queryRow, artifacts, versions, rendered>>

\* The provider fails, the answer is not grounded, or another regeneration has taken
\* the artifact revision (unique per job, type and revision).
regenerateAbandoned(r) ==
  /\ req[r].phase = "Asking"
  /\ Finish(r)
  /\ UNCHANGED <<jobStatus, recs, queryRow, artifacts, versions, rendered>>

\* Revisions of the two artifacts beyond the ones the pipeline left.
Regenerated == (artifacts["KPI"] - 1) + (artifacts["WIDGET"] - 1)

regenerateArtifact(r) ==
  LET type == recs[req[r].rec].type
  IN /\ req[r].phase = "Asking"
     /\ req[r].artifact > artifacts[type]
     /\ Regenerated < MaxRegenerations
     /\ artifacts' = [artifacts EXCEPT ![type] = req[r].artifact]
     /\ req' = [req EXCEPT ![r].phase = "Superseding"]
     /\ UNCHANGED <<jobStatus, recs, queryRow, versions, rendered>>

\* Mutant: no unique (job, type, external id, revision).
RevisionIsTakenNever(type, ext, revision) == FALSE

RevisionIsTaken(type, ext, revision) == revision \in Revisions(type, ext)

\* One transaction: supersede the recommendation the request names, insert the new
\* revision; unique (job, type, external id, revision) may abort it.
regenerateSupersede(r) ==
  LET old == recs[req[r].rec]
      new == [old EXCEPT !.revision = req[r].revision, !.status = "PENDING",
                         !.query = req[r].query]
  IN /\ req[r].phase = "Superseding"
     /\ IF RevisionIsTaken(old.type, old.ext, req[r].revision)
        THEN Finish(r) /\ UNCHANGED recs
        ELSE /\ recs' = Append([recs EXCEPT ![req[r].rec].status = "SUPERSEDED"], new)
             /\ IF old.type = "KPI"
                THEN req' = [req EXCEPT ![r].phase = "Querying", ![r].rec = Len(recs) + 1]
                ELSE Finish(r)
     /\ rowsOnly /\ UNCHANGED queryRow

\* createValidatedQueryDefinition for the new KPI; an invalid one is kept but ends
\* the request with an error.
createValidatedQueryDefinition(r) ==
  /\ req[r].phase = "Querying"
  /\ \E valid \in BOOLEAN :
       /\ queryRow' = Append(queryRow, [rec |-> req[r].rec, valid |-> valid, executed |-> FALSE])
       /\ IF valid
          THEN req' = [req EXCEPT ![r].phase = "Executing", ![r].query = Len(queryRow) + 1]
          ELSE Finish(r)
  /\ rowsOnly /\ UNCHANGED recs

\* executeQueryDefinition: the database answers, or it fails and the request ends.
executeQueryDefinition(r) ==
  /\ req[r].phase = "Executing"
  /\ queryRow[req[r].query].valid
  /\ \E succeeds \in BOOLEAN :
       queryRow' = [queryRow EXCEPT ![req[r].query].executed = @ \/ succeeds]
  /\ Finish(r)
  /\ rowsOnly /\ UNCHANGED recs

\* POST /api/query-definitions/[id]/execute: a retest, at any time.
retestQuery(r) ==
  /\ req[r].phase = "Idle"
  /\ \E q \in DOMAIN queryRow :
       /\ queryRow[q].valid /\ ~queryRow[q].executed
       /\ req' = [req EXCEPT ![r] = [NoRequest EXCEPT !.phase = "Executing", !.query = q]]
  /\ UNCHANGED <<jobStatus, recs, queryRow, artifacts, versions, rendered>>

-----------------------------------------------------------------------------
(* finalizeAnalysisDashboard. *)

\* Mutant: the decision on the query's KPI is not looked at.
PublishableAnyKpi(i, kpis) ==
  recs[i].query \in DOMAIN queryRow /\ queryRow[recs[i].query].executed

\* A widget may be published when its query belongs to an approved KPI and has a
\* successful execution.
Publishable(i, kpis) ==
  LET q == recs[i].query
  IN /\ q \in DOMAIN queryRow
     /\ queryRow[q].rec \in kpis
     /\ queryRow[q].executed

\* The job and each relation it includes are read by SELECTs of their own, outside a
\* transaction, the job first: its status may be older than the versions that are found.
finalizeReadJob(r) ==
  /\ req[r].phase = "Idle"
  /\ UnderReview
  /\ req' = [req EXCEPT ![r] = [NoRequest EXCEPT !.phase = "Gathering"]]
  /\ UNCHANGED <<jobStatus, recs, queryRow, artifacts, versions, rendered>>

\* The version to publish is the highest one found, plus one.
finalizeReadVersions(r) ==
  /\ req[r].phase = "Gathering" /\ req[r].revision = 0
  /\ req' = [req EXCEPT ![r].revision = Len(versions) + 1]
  /\ UNCHANGED <<jobStatus, recs, queryRow, artifacts, versions, rendered>>

finalizeReadRecommendations(r) ==
  /\ req[r].phase = "Gathering" /\ req[r].kpis = {}
  /\ IF Approved("KPI") # {} /\ Approved("WIDGET") # {}
     THEN req' = [req EXCEPT ![r] = [req[r] EXCEPT !.kpis = Approved("KPI"),
                                                   !.ids = Approved("WIDGET")]]
     ELSE Finish(r)
  /\ UNCHANGED <<jobStatus, recs, queryRow, artifacts, versions, rendered>>

\* Read last: queries and results only grow, so that an earlier read could only refuse more.
finalizeReadQueries(r) ==
  /\ req[r].phase = "Gathering" /\ req[r].revision # 0 /\ req[r].kpis # {}
  /\ IF \A i \in req[r].ids : Publishable(i, req[r].kpis)
     THEN req' = [req EXCEPT ![r].phase = "Finalizing"]
     ELSE Finish(r)
  /\ UNCHANGED <<jobStatus, recs, queryRow, artifacts, versions, rendered>>

VersionIsFree(version) == version = Len(versions) + 1

\* unique (dashboard, version) aborts the transaction of the request that comes second with
\* the same version; the job's status is not looked at again.
finalizeCommit(r) ==
  /\ req[r].phase = "Finalizing"
  /\ IF VersionIsFree(req[r].revision)
     THEN /\ versions' = Append(versions, [kpis |-> req[r].kpis, widgets |-> req[r].ids])
          /\ rendered' = req[r].ids
          /\ jobStatus' = "COMPLETED"
     ELSE UNCHANGED <<versions, rendered, jobStatus>>
  /\ Finish(r)
  /\ UNCHANGED <<recs, queryRow, artifacts>>

ReviewNext ==
  \E r \in Reviewers :
    \/ updateRecommendationDecisionRead(r) \/ updateRecommendationDecisionWrite(r)
    \/ approveRead(r) \/ approveWrite(r)
    \/ regenerateRead(r) \/ regenerateAbandoned(r) \/ regenerateArtifact(r)
    \/ regenerateSupersede(r)
    \/ createValidatedQueryDefinition(r) \/ executeQueryDefinition(r) \/ retestQuery(r)
    \/ finalizeReadJob(r) \/ finalizeReadVersions(r) \/ finalizeReadRecommendations(r)
    \/ finalizeReadQueries(r) \/ finalizeCommit(r)

ReviewSpec == ReviewInit /\ [][ReviewNext]_reviewVars

-----------------------------------------------------------------------------
(* Properties. *)

\* Whatever the interleaving of reviewers who decide, regenerate and finalize, every version
\* that is published hangs together: each of its widgets shows an executed query that belongs
\* to a KPI of the same version.  The dashboard renders the newest version, a job that is under
\* review has none, and one that is completed has at least one.  It may have more: a
\* finalization that read the status before the first publication and the versions after it
\* publishes again - but only the finalizations that were under way then can, one by one.
VersionsAreBacked ==
  /\ (versions = <<>>) <=> UnderReview
  /\ Len(versions) <= Cardinality(Reviewers)
  /\ rendered = IF versions = <<>> THEN {} ELSE versions[Len(versions)].widgets
  /\ \A v \in DOMAIN versions : \A i \in versions[v].widgets :
       /\ recs[i].query \in DOMAIN queryRow
       /\ queryRow[recs[i].query].rec \in versions[v].kpis
       /\ queryRow[recs[i].query].executed

\* Concurrent regenerations never share or skip a revision of a recommendation, and there
\* is always one to decide on: the newest revision is not the one that a regeneration
\* superseded, whatever older one the regeneration was asked for.
NewestRevisionIsLive ==
  \A i \in RecIds :
    LET revisions == Revisions(recs[i].type, recs[i].ext)
    IN /\ revisions = 1..Cardinality({k \in RecIds : /\ recs[k].type = recs[i].type
                                                     /\ recs[k].ext = recs[i].ext})
       /\ recs[i].revision = Highest(revisions) => recs[i].status # "SUPERSEDED"
=============================================================================
