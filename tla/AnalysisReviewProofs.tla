------------------------- MODULE AnalysisReviewProofs -------------------------
(***************************************************************************)
(* AnalysisReview for every number of reviewers, KPIs, widgets and         *)
(* regenerations: every version published hangs together, only the         *)
(* finalizations under way at the first publication publish again, and     *)
(* every recommendation keeps a newest revision to decide on.              *)
(***************************************************************************)
EXTENDS AnalysisReview, FiniteSetTheorems, SequenceTheorems, TLAPS

-----------------------------------------------------------------------------
(* The inductive invariant. *)

\* The revisions of one recommendation.
RowsLike(type, ext) == {k \in RecIds : recs[k].type = type /\ recs[k].ext = ext}

\* Widgets with executed queries of these KPIs.
Backed(widgets, kpis) ==
  \A i \in widgets : /\ i \in RecIds
                     /\ recs[i].query \in DOMAIN queryRow
                     /\ queryRow[recs[i].query].rec \in kpis
                     /\ queryRow[recs[i].query].executed

\* What a request has read is still there, and no revision was skipped before the one it
\* computed; what is to be published is backed, and its version follows one that exists.
IsSound(r) ==
  /\ req[r].phase \in {"Deciding", "Asking", "Superseding"} => req[r].rec \in RecIds
  /\ req[r].phase \in {"Asking", "Superseding"} =>
       req[r].revision \in
         1..(Cardinality(RowsLike(recs[req[r].rec].type, recs[req[r].rec].ext)) + 1)
  /\ req[r].phase = "Executing" => req[r].query \in DOMAIN queryRow
  /\ req[r].phase = "Gathering" =>
       req[r].revision \in 0..(Len(versions) + 1) /\ req[r].ids \subseteq RecIds
  /\ req[r].phase = "Finalizing" =>
       req[r].revision \in 1..(Len(versions) + 1) /\ Backed(req[r].ids, req[r].kpis)

RequestsAreSound == \A r \in Reviewers : IsSound(r)

PublishedWell ==
  /\ (versions = <<>>) <=> UnderReview
  /\ rendered = IF versions = <<>> THEN {} ELSE versions[Len(versions)].widgets
  /\ \A v \in DOMAIN versions : Backed(versions[v].widgets, versions[v].kpis)

\* The finalizations under way: after the first publication none begins, and each publishes
\* once at most.
Finalizers == {r \in Reviewers : req[r].phase \in {"Gathering", "Finalizing"}}

FinalizersAreLeft ==
  ~UnderReview => Len(versions) + Cardinality(Finalizers) <= Cardinality(Reviewers)

ReviewInv == /\ ReviewTypeOK /\ RequestsAreSound /\ PublishedWell /\ NewestRevisionIsLive
             /\ FinalizersAreLeft

-----------------------------------------------------------------------------
(* What a step keeps of the rows. *)

RequestRows == [phase: Phases, rec: Nat, decision: Decisions, ids: SUBSET Nat,
                kpis: SUBSET Nat, revision: Nat, artifact: Nat, query: Nat]

\* No row goes; what a recommendation and a query are about stays, and so does a result.
RowsKeep ==
  /\ RecIds \subseteq RecIds'
  /\ \A i \in RecIds : /\ recs'[i].type = recs[i].type /\ recs'[i].ext = recs[i].ext
                       /\ recs'[i].revision = recs[i].revision
                       /\ recs'[i].query = recs[i].query
  /\ DOMAIN queryRow \subseteq DOMAIN queryRow'
  /\ \A q \in DOMAIN queryRow : /\ queryRow'[q].rec = queryRow[q].rec
                                /\ queryRow[q].executed => queryRow'[q].executed

LEMMA RowsAreFinite ==
  ASSUME NEW n \in Nat, NEW S \in SUBSET (1..n)
  PROVE  IsFiniteSet(S) /\ Cardinality(S) \in Nat
<1>1. IsFiniteSet(1..n)
  BY FS_Interval
<1>2. IsFiniteSet(S)
  BY <1>1, FS_Subset
<1> QED BY <1>2, FS_CardinalityType

LEMMA RowsLikeAreFinite ==
  ASSUME ReviewTypeOK, NEW type, NEW ext
  PROVE  IsFiniteSet(RowsLike(type, ext)) /\ Cardinality(RowsLike(type, ext)) \in Nat
<1>1. Len(recs) \in Nat
  BY DEF ReviewTypeOK
<1>2. RowsLike(type, ext) \in SUBSET (1..Len(recs))
  BY DEF RowsLike, RecIds
<1> QED BY <1>1, <1>2, RowsAreFinite

LEMMA SameVersions ==
  ASSUME ReviewTypeOK, UNCHANGED versions
  PROVE  Len(versions) <= Len(versions')
<1>1. Len(versions) \in Nat
  BY DEF ReviewTypeOK
<1> QED BY <1>1

LEMMA BackedStays ==
  ASSUME RowsKeep, NEW widgets, NEW kpis, Backed(widgets, kpis)
  PROVE  Backed(widgets, kpis)'
BY DEF RowsKeep, Backed

LEMMA RowsLikeGrow ==
  ASSUME ReviewTypeOK, ReviewTypeOK', RowsKeep, NEW type, NEW ext
  PROVE  /\ Cardinality(RowsLike(type, ext)) <= Cardinality(RowsLike(type, ext)')
         /\ Cardinality(RowsLike(type, ext)') \in Nat
<1>1. RowsLike(type, ext) \subseteq RowsLike(type, ext)'
  BY DEF RowsKeep, RowsLike
<1>2. Len(recs') \in Nat
  BY DEF ReviewTypeOK
<1>3. RowsLike(type, ext)' \in SUBSET (1..Len(recs'))
  BY DEF RowsLike, RecIds
<1>4. IsFiniteSet(RowsLike(type, ext)') /\ Cardinality(RowsLike(type, ext)') \in Nat
  BY <1>2, <1>3, RowsAreFinite
<1> QED BY <1>1, <1>4, FS_Subset

\* A request that waits stays sound.
LEMMA SoundStays ==
  ASSUME ReviewTypeOK, ReviewTypeOK', RowsKeep, Len(versions) <= Len(versions'),
         NEW r \in Reviewers, IsSound(r),
         req'[r].phase = req[r].phase \/ (req[r].phase = "Asking" /\ req'[r].phase = "Superseding"),
         req'[r].rec = req[r].rec, req'[r].revision = req[r].revision,
         req'[r].query = req[r].query, req'[r].ids = req[r].ids, req'[r].kpis = req[r].kpis
  PROVE  IsSound(r)'
<1>1. req'[r].phase \in {"Deciding", "Asking", "Superseding"} => req'[r].rec \in RecIds'
  BY DEF IsSound, RowsKeep
<1>2. ASSUME req'[r].phase \in {"Asking", "Superseding"}
      PROVE  (req[r].revision \in
                1..(Cardinality(RowsLike(recs[req[r].rec].type, recs[req[r].rec].ext)) + 1))'
  <2>1. PICK type, ext : type = recs[req[r].rec].type /\ ext = recs[req[r].rec].ext
    OBVIOUS
  <2>2. req[r].rec \in RecIds /\ req[r].revision \in 1..(Cardinality(RowsLike(type, ext)) + 1)
    BY <1>2, <2>1 DEF IsSound
  <2>3. recs'[req'[r].rec].type = type /\ recs'[req'[r].rec].ext = ext
    BY <2>1, <2>2 DEF RowsKeep
  <2>4. /\ Cardinality(RowsLike(type, ext)) \in Nat
        /\ Cardinality(RowsLike(type, ext)') \in Nat
        /\ Cardinality(RowsLike(type, ext)) <= Cardinality(RowsLike(type, ext)')
    BY RowsLikeAreFinite, RowsLikeGrow
  <2>5. req'[r].revision \in 1..(Cardinality(RowsLike(type, ext)') + 1)
    BY <2>2, <2>4
  <2>6. RowsLike(recs[req[r].rec].type, recs[req[r].rec].ext)' = RowsLike(type, ext)'
    BY <2>3 DEF RowsLike
  <2> QED BY <2>5, <2>6
<1>3. req'[r].phase = "Executing" => req'[r].query \in DOMAIN queryRow'
  BY DEF IsSound, RowsKeep
<1>5. Len(versions) \in Nat /\ Len(versions') \in Nat /\ Len(versions) <= Len(versions')
  BY DEF ReviewTypeOK
<1>6. ASSUME req'[r].phase = "Gathering"
      PROVE  req'[r].revision \in 0..(Len(versions') + 1) /\ req'[r].ids \subseteq RecIds'
  BY <1>5, <1>6 DEF IsSound, RowsKeep
<1>4. ASSUME req'[r].phase = "Finalizing"
      PROVE  req'[r].revision \in 1..(Len(versions') + 1) /\ Backed(req[r].ids, req[r].kpis)'
  <2>1. PICK widgets, kpis : widgets = req[r].ids /\ kpis = req[r].kpis
    OBVIOUS
  <2>2. req[r].revision \in 1..(Len(versions) + 1) /\ Backed(widgets, kpis)
    BY <1>4, <2>1 DEF IsSound
  <2>3. Backed(widgets, kpis)'
    BY <2>2, BackedStays
  <2> QED BY <1>5, <2>1, <2>2, <2>3 DEF Backed
<1> QED BY <1>1, <1>2, <1>3, <1>4, <1>6 DEF IsSound

\* The revisions of a recommendation, while its rows keep what they are about.
LEMMA SoundRevisions ==
  ASSUME ReviewTypeOK, NewestRevisionIsLive, NEW i \in RecIds
  PROVE  LET n == Cardinality(RowsLike(recs[i].type, recs[i].ext))
         IN /\ n \in Nat
            /\ Revisions(recs[i].type, recs[i].ext) = 1..n
            /\ Highest(1..n) = n
            /\ recs[i].revision \in 1..n
            /\ recs[i].revision = n => recs[i].status # "SUPERSEDED"
<1> DEFINE n == Cardinality(RowsLike(recs[i].type, recs[i].ext))
<1>1. n \in Nat
  BY RowsLikeAreFinite
<1>2. /\ Revisions(recs[i].type, recs[i].ext) = 1..n
      /\ recs[i].revision = Highest(Revisions(recs[i].type, recs[i].ext)) =>
           recs[i].status # "SUPERSEDED"
  BY DEF NewestRevisionIsLive, RowsLike
<1>3. Highest(1..n) = n
  <2>1. n \in (1..n) \cup {0} /\ \A m \in 1..n : m <= n
    BY <1>1
  <2>2. \A x \in (1..n) \cup {0} : (\A m \in 1..n : m <= x) => x = n
    BY <1>1
  <2> QED BY <2>1, <2>2 DEF Highest
<1>4. recs[i].revision \in 1..n
  BY <1>2 DEF Revisions
<1> QED BY <1>1, <1>2, <1>3, <1>4

\* Decisions leave the revisions alone.
LEMMA DecisionsKeepRevisions ==
  ASSUME NewestRevisionIsLive, RecIds' = RecIds,
         \A i \in RecIds : /\ recs'[i].type = recs[i].type /\ recs'[i].ext = recs[i].ext
                           /\ recs'[i].revision = recs[i].revision
                           /\ recs'[i].status = recs[i].status \/ recs'[i].status # "SUPERSEDED"
  PROVE  NewestRevisionIsLive'
<1> SUFFICES ASSUME NEW i \in RecIds
             PROVE  (LET revisions == Revisions(recs[i].type, recs[i].ext)
                     IN /\ revisions = 1..Cardinality({k \in RecIds :
                                         recs[k].type = recs[i].type /\ recs[k].ext = recs[i].ext})
                        /\ recs[i].revision = Highest(revisions) => recs[i].status # "SUPERSEDED")'
  BY DEF NewestRevisionIsLive
<1>1. PICK S : S = Revisions(recs[i].type, recs[i].ext)
  OBVIOUS
<1>2. Revisions(recs[i].type, recs[i].ext)' = S
  BY <1>1 DEF Revisions
<1>3. {k \in RecIds : recs[k].type = recs[i].type /\ recs[k].ext = recs[i].ext}'
      = {k \in RecIds : recs[k].type = recs[i].type /\ recs[k].ext = recs[i].ext}
  OBVIOUS
<1>4. /\ S = 1..Cardinality({k \in RecIds :
                            recs[k].type = recs[i].type /\ recs[k].ext = recs[i].ext})
      /\ recs[i].revision = Highest(S) => recs[i].status # "SUPERSEDED"
  BY <1>1 DEF NewestRevisionIsLive
<1> QED BY <1>2, <1>3, <1>4 DEF Highest

-----------------------------------------------------------------------------
(* One request moves. *)

LEMMA NoRequestIsPlain == NoRequest \in RequestRows /\ NoRequest.phase = "Idle"
BY DEF NoRequest, RequestRows, Phases, Decisions

\* What a step of request r has to show.
StepOf(r) ==
  /\ ReviewTypeOK' /\ RowsKeep /\ Len(versions) <= Len(versions')
  /\ \A v \in Reviewers : v # r => req'[v] = req[v]
  /\ IsSound(r)'
  /\ PublishedWell' /\ NewestRevisionIsLive'

LEMMA StepKeepsInv ==
  ASSUME ReviewInv, NEW r \in Reviewers, StepOf(r), FinalizersAreLeft'
  PROVE  ReviewInv'
<1>1. ASSUME NEW v \in Reviewers PROVE IsSound(v)'
  <2>1. CASE v = r
    BY <2>1 DEF StepOf
  <2>2. CASE v # r
    BY <2>2, SoundStays DEF StepOf, ReviewInv, RequestsAreSound
  <2> QED BY <2>1, <2>2
<1> QED BY <1>1 DEF StepOf, ReviewInv, RequestsAreSound

LEMMA RequestSet ==
  ASSUME ReviewTypeOK, NEW r \in Reviewers, NEW x \in RequestRows, req' = [req EXCEPT ![r] = x]
  PROVE  /\ req' \in [Reviewers -> RequestRows] /\ req'[r] = x
         /\ \A v \in Reviewers : v # r => req'[v] = req[v]
<1>1. req \in [Reviewers -> RequestRows]
  BY DEF ReviewTypeOK, RequestRows
<1> QED BY <1>1

LEMMA Finished ==
  ASSUME ReviewTypeOK, NEW r \in Reviewers, Finish(r)
  PROVE  /\ req' \in [Reviewers -> RequestRows]
         /\ \A v \in Reviewers : v # r => req'[v] = req[v]
         /\ IsSound(r)'
<1>1. /\ req' \in [Reviewers -> RequestRows] /\ req'[r] = NoRequest
      /\ \A v \in Reviewers : v # r => req'[v] = req[v]
  BY NoRequestIsPlain, RequestSet DEF Finish
<1> QED BY <1>1, NoRequestIsPlain DEF IsSound

\* Rows of the database that a step does not write.
LEMMA RowsUnchanged ==
  ASSUME ReviewInv, UNCHANGED <<recs, queryRow>>
  PROVE  RowsKeep /\ NewestRevisionIsLive'
<1>1. RowsKeep
  BY DEF RowsKeep, RecIds
<1>2. NewestRevisionIsLive'
  BY DecisionsKeepRevisions DEF ReviewInv, RecIds
<1> QED BY <1>1, <1>2

LEMMA NotPublished ==
  ASSUME ReviewInv, RowsKeep, UNCHANGED <<jobStatus, versions, rendered>>
  PROVE  PublishedWell'
<1>1. ASSUME NEW v \in DOMAIN versions PROVE Backed(versions[v].widgets, versions[v].kpis)'
  <2>1. PICK widgets, kpis : widgets = versions[v].widgets /\ kpis = versions[v].kpis
    OBVIOUS
  <2>2. Backed(widgets, kpis)'
    BY <2>1, BackedStays DEF ReviewInv, PublishedWell
  <2> QED BY <2>1, <2>2 DEF Backed
<1> QED BY <1>1 DEF ReviewInv, PublishedWell, UnderReview

\* A request reads and goes on to its next phase.
LEMMA ReadStep ==
  ASSUME ReviewInv, NEW r \in Reviewers, NEW x \in RequestRows, req' = [req EXCEPT ![r] = x],
         UNCHANGED <<jobStatus, recs, queryRow, versions, rendered>>,
         artifacts' \in [Types -> Nat],
         ReviewTypeOK' => IsSound(r)'
  PROVE  StepOf(r)
<1>1. /\ req' \in [Reviewers -> RequestRows] /\ req'[r] = x
      /\ \A v \in Reviewers : v # r => req'[v] = req[v]
  BY RequestSet DEF ReviewInv
<1>2. ReviewTypeOK'
  BY <1>1 DEF ReviewInv, ReviewTypeOK, RequestRows, RecIds
<1>3. RowsKeep /\ NewestRevisionIsLive'
  BY RowsUnchanged
<1>4. PublishedWell'
  BY <1>3, NotPublished
<1> QED BY <1>1, <1>2, <1>3, <1>4, SameVersions DEF StepOf, ReviewInv

\* The phases in which nothing has to be remembered.
LEMMA PlainRead ==
  ASSUME ReviewInv, NEW r \in Reviewers, NEW x \in RequestRows, req' = [req EXCEPT ![r] = x],
         UNCHANGED <<jobStatus, recs, queryRow, versions, rendered>>,
         artifacts' \in [Types -> Nat],
         x.phase \in {"Idle", "Approving"} \/ (x.phase = "Deciding" /\ x.rec \in RecIds)
           \/ (x.phase = "Executing" /\ x.query \in DOMAIN queryRow)
  PROVE  StepOf(r)
<1>1. req'[r] = x
  BY RequestSet DEF ReviewInv
<1>2. IsSound(r)'
  BY <1>1 DEF IsSound, RecIds
<1> QED BY <1>2, ReadStep

LEMMA ReadsStep ==
  ASSUME ReviewInv, NEW r \in Reviewers,
         \/ updateRecommendationDecisionRead(r) \/ approveRead(r) \/ regenerateAbandoned(r)
         \/ retestQuery(r)
  PROVE  StepOf(r)
<1>1. artifacts \in [Types -> Nat] /\ Len(recs) \in Nat /\ RecIds \subseteq Nat
      /\ Len(queryRow) \in Nat /\ DOMAIN queryRow \subseteq Nat
  BY DEF ReviewInv, ReviewTypeOK, RecIds
<1>2. CASE updateRecommendationDecisionRead(r)
  <2>1. PICK i \in RecIds, d \in Decisions : req' = [req EXCEPT ![r] =
               [NoRequest EXCEPT !.phase = "Deciding", !.rec = i, !.decision = d]]
    BY <1>2 DEF updateRecommendationDecisionRead
  <2> DEFINE x == [NoRequest EXCEPT !.phase = "Deciding", !.rec = i, !.decision = d]
  <2>2. x \in RequestRows /\ x.phase = "Deciding" /\ x.rec = i
    BY <1>1 DEF NoRequest, RequestRows, Phases, Decisions
  <2> HIDE DEF x
  <2> QED BY <1>1, <1>2, <2>1, <2>2, PlainRead DEF updateRecommendationDecisionRead, x
<1>3. CASE approveRead(r)
  <2>1. PICK chosen \in SUBSET RecIds : req' = [req EXCEPT ![r] =
               [NoRequest EXCEPT !.phase = "Approving", !.ids = chosen]]
    BY <1>3 DEF approveRead
  <2> DEFINE x == [NoRequest EXCEPT !.phase = "Approving", !.ids = chosen]
  <2>2. x \in RequestRows /\ x.phase = "Approving"
    BY <1>1 DEF NoRequest, RequestRows, Phases, Decisions
  <2> HIDE DEF x
  <2> QED BY <1>1, <1>3, <2>1, <2>2, PlainRead DEF approveRead, x
<1>4. CASE regenerateAbandoned(r)
  BY <1>1, <1>4, NoRequestIsPlain, PlainRead DEF regenerateAbandoned, Finish
<1>5. CASE retestQuery(r)
  <2>1. PICK q \in DOMAIN queryRow : req' = [req EXCEPT ![r] =
               [NoRequest EXCEPT !.phase = "Executing", !.query = q]]
    BY <1>5 DEF retestQuery
  <2> DEFINE x == [NoRequest EXCEPT !.phase = "Executing", !.query = q]
  <2>2. x \in RequestRows /\ x.phase = "Executing" /\ x.query = q
    BY <1>1 DEF NoRequest, RequestRows, Phases, Decisions
  <2> HIDE DEF x
  <2> QED BY <1>1, <1>5, <2>1, <2>2, PlainRead DEF retestQuery, x
<1> QED BY <1>2, <1>3, <1>4, <1>5

\* The revision that a regeneration computes follows the ones that exist.
LEMMA RegenerateReadStep ==
  ASSUME ReviewInv, NEW r \in Reviewers, regenerateRead(r)
  PROVE  StepOf(r)
<1>1. /\ ReviewTypeOK /\ NewestRevisionIsLive /\ artifacts \in [Types -> Nat]
      /\ recs \in Seq(RecRows) /\ Len(queryRow) \in Nat
  BY DEF ReviewInv, ReviewTypeOK
<1>2. PICK i \in RecIds :
        \E q \in IF recs[i].type = "KPI" THEN {0} ELSE {k \in DOMAIN queryRow : queryRow[k].executed} :
            req' = [req EXCEPT ![r] =
                     [NoRequest EXCEPT !.phase = "Asking", !.rec = i, !.query = q,
                        !.revision = nextRevision(recs[i].type, recs[i].ext),
                        !.artifact = artifacts[recs[i].type] + 1]]
  BY DEF regenerateRead
<1>3. PICK q : /\ q \in IF recs[i].type = "KPI" THEN {0}
                        ELSE {k \in DOMAIN queryRow : queryRow[k].executed}
               /\ req' = [req EXCEPT ![r] =
                     [NoRequest EXCEPT !.phase = "Asking", !.rec = i, !.query = q,
                        !.revision = nextRevision(recs[i].type, recs[i].ext),
                        !.artifact = artifacts[recs[i].type] + 1]]
  BY <1>2
<1>4. q \in Nat
  BY <1>1, <1>3 DEF ReviewTypeOK
<1>5. i \in Nat /\ recs[i] \in RecRows
  BY <1>1 DEF RecIds
<1> DEFINE n == Cardinality(RowsLike(recs[i].type, recs[i].ext))
           a == artifacts[recs[i].type] + 1
           y == [NoRequest EXCEPT !.phase = "Asking", !.rec = i, !.query = q]
           x == [y EXCEPT !.revision = n + 1, !.artifact = a]
<1>6. n \in Nat /\ nextRevision(recs[i].type, recs[i].ext) = n + 1
  BY <1>1, SoundRevisions DEF nextRevision
<1>7. a \in Nat
  <2>1. recs[i].type \in Types
    BY <1>5 DEF RecRows
  <2>2. artifacts[recs[i].type] \in Nat
    BY <1>1, <2>1
  <2> QED BY <2>2
<1>8. req' = [req EXCEPT ![r] = x]
  BY <1>3, <1>6
<1> HIDE DEF n, a
<1>9. x \in RequestRows /\ x.phase = "Asking" /\ x.rec = i /\ x.revision = n + 1
  <2>1. y \in RequestRows /\ y.phase = "Asking" /\ y.rec = i
    BY <1>4, <1>5 DEF NoRequest, RequestRows, Phases, Decisions
  <2>2. n + 1 \in Nat
    BY <1>6
  <2> HIDE DEF y
  <2> QED BY <1>7, <2>1, <2>2 DEF RequestRows
<1> HIDE DEF x
<1>10. IsSound(r)'
  <2>1. req'[r] = x
    BY <1>1, <1>8, <1>9, RequestSet
  <2>2. UNCHANGED recs
    BY DEF regenerateRead
  <2>3. n + 1 \in 1..(n + 1)
    BY <1>6
  <2>4. RowsLike(recs[req[r].rec].type, recs[req[r].rec].ext)' = RowsLike(recs[i].type, recs[i].ext)
    BY <1>9, <2>1, <2>2 DEF RowsLike, RecIds
  <2> QED BY <1>9, <2>1, <2>2, <2>3, <2>4 DEF IsSound, RecIds, n
<1> QED BY <1>1, <1>8, <1>9, <1>10, ReadStep DEF regenerateRead

LEMMA RegenerateArtifactStep ==
  ASSUME ReviewInv, NEW r \in Reviewers, regenerateArtifact(r)
  PROVE  StepOf(r)
<1>1. /\ ReviewTypeOK /\ recs \in Seq(RecRows) /\ req[r] \in RequestRows /\ IsSound(r)
      /\ artifacts \in [Types -> Nat]
  BY DEF ReviewInv, ReviewTypeOK, RequestRows, RequestsAreSound
<1>2. artifacts' \in [Types -> Nat]
  <2>1. req[r].artifact \in Nat
    BY <1>1 DEF RequestRows
  <2> QED BY <1>1, <2>1 DEF regenerateArtifact
<1> DEFINE x == [req[r] EXCEPT !.phase = "Superseding"]
<1>3. req' = [req EXCEPT ![r] = x] /\ req[r].phase = "Asking"
  BY <1>1 DEF regenerateArtifact
<1>4. /\ x \in RequestRows /\ x.phase = "Superseding" /\ x.rec = req[r].rec
      /\ x.revision = req[r].revision /\ x.query = req[r].query /\ x.ids = req[r].ids
      /\ x.kpis = req[r].kpis
  BY <1>1 DEF RequestRows, Phases
<1> HIDE DEF x
<1>5. req'[r] = x
  BY <1>1, <1>3, <1>4, RequestSet
<1>6. RowsKeep
  BY RowsUnchanged DEF regenerateArtifact
<1>7. ReviewTypeOK' => IsSound(r)'
  BY <1>1, <1>3, <1>4, <1>5, <1>6, SoundStays, SameVersions DEF regenerateArtifact
<1> QED BY <1>2, <1>3, <1>4, <1>7, ReadStep DEF regenerateArtifact

\* What a finalization reads, and that it is backed when the last of it is read.
LEMMA FinalizeReadStep ==
  ASSUME ReviewInv, NEW r \in Reviewers,
         \/ finalizeReadJob(r) \/ finalizeReadVersions(r) \/ finalizeReadRecommendations(r)
         \/ finalizeReadQueries(r)
  PROVE  StepOf(r)
<1>1. /\ ReviewTypeOK /\ artifacts \in [Types -> Nat] /\ Len(versions) \in Nat
      /\ Len(recs) \in Nat /\ RecIds \subseteq Nat /\ req[r] \in RequestRows /\ IsSound(r)
  BY DEF ReviewInv, ReviewTypeOK, RecIds, RequestRows, RequestsAreSound
<1>2. UNCHANGED <<jobStatus, recs, queryRow, artifacts, versions, rendered>>
  BY DEF finalizeReadJob, finalizeReadVersions, finalizeReadRecommendations, finalizeReadQueries
<1>3. CASE Finish(r)
  BY <1>1, <1>2, <1>3, NoRequestIsPlain, PlainRead DEF Finish
<1>4. CASE finalizeReadJob(r)
  <2> DEFINE x == [NoRequest EXCEPT !.phase = "Gathering"]
  <2>1. req' = [req EXCEPT ![r] = x]
    BY <1>4 DEF finalizeReadJob
  <2>2. x \in RequestRows /\ x.phase = "Gathering" /\ x.revision = 0 /\ x.ids = {}
    BY DEF NoRequest, RequestRows, Phases, Decisions
  <2> HIDE DEF x
  <2>3. req'[r] = x
    BY <1>1, <2>1, <2>2, RequestSet
  <2>4. IsSound(r)'
    BY <1>1, <1>2, <2>2, <2>3 DEF IsSound
  <2> QED BY <1>1, <1>2, <2>1, <2>2, <2>4, ReadStep
<1>5. CASE finalizeReadVersions(r)
  <2> DEFINE n == Len(versions) + 1
             x == [req[r] EXCEPT !.revision = n]
  <2>1. req' = [req EXCEPT ![r] = x] /\ req[r].phase = "Gathering" /\ n \in Nat
    BY <1>1, <1>5 DEF finalizeReadVersions
  <2> HIDE DEF n
  <2>2. x \in RequestRows /\ x.phase = "Gathering" /\ x.revision = n /\ x.ids = req[r].ids
    BY <1>1, <2>1 DEF RequestRows
  <2> HIDE DEF x
  <2>3. req'[r] = x /\ req[r].ids \subseteq RecIds
    BY <1>1, <2>1, <2>2, RequestSet DEF IsSound
  <2>4. IsSound(r)'
    BY <1>1, <1>2, <2>2, <2>3 DEF IsSound, RecIds, n
  <2> QED BY <1>1, <1>2, <2>1, <2>2, <2>4, ReadStep
<1>6. CASE finalizeReadRecommendations(r) /\ ~Finish(r)
  <2>1. PICK kpis, widgets : kpis = Approved("KPI") /\ widgets = Approved("WIDGET")
    OBVIOUS
  <2> DEFINE x == [req[r] EXCEPT !.kpis = kpis, !.ids = widgets]
  <2>2. req' = [req EXCEPT ![r] = x] /\ req[r].phase = "Gathering"
    BY <1>6, <2>1 DEF finalizeReadRecommendations
  <2>3. kpis \in SUBSET Nat /\ widgets \in SUBSET Nat /\ widgets \subseteq RecIds
    BY <1>1, <2>1 DEF Approved
  <2>4. /\ x \in RequestRows /\ x.phase = "Gathering" /\ x.revision = req[r].revision
        /\ x.ids = widgets
    BY <1>1, <2>2, <2>3 DEF RequestRows
  <2> HIDE DEF x
  <2>5. req'[r] = x
    BY <1>1, <2>2, <2>4, RequestSet
  <2>6. IsSound(r)'
    BY <1>1, <1>2, <2>2, <2>3, <2>4, <2>5 DEF IsSound, RecIds
  <2> QED BY <1>1, <1>2, <2>2, <2>4, <2>6, ReadStep
<1>7. CASE finalizeReadQueries(r) /\ ~Finish(r)
  <2>1. PICK kpis, widgets : kpis = req[r].kpis /\ widgets = req[r].ids
    OBVIOUS
  <2> DEFINE x == [req[r] EXCEPT !.phase = "Finalizing"]
  <2>2. /\ req' = [req EXCEPT ![r] = x] /\ req[r].phase = "Gathering" /\ req[r].revision # 0
        /\ \A i \in widgets : Publishable(i, kpis)
    BY <1>1, <1>7, <2>1 DEF finalizeReadQueries
  <2>3. Backed(widgets, kpis) /\ req[r].revision \in 1..(Len(versions) + 1)
    BY <1>1, <2>1, <2>2 DEF IsSound, Publishable, Backed
  <2>4. /\ x \in RequestRows /\ x.phase = "Finalizing" /\ x.revision = req[r].revision
        /\ x.ids = widgets /\ x.kpis = kpis
    BY <1>1, <2>1 DEF RequestRows, Phases
  <2> HIDE DEF x
  <2>5. req'[r] = x
    BY <1>1, <2>2, <2>4, RequestSet
  <2>6. Backed(widgets, kpis)'
    BY <1>2, <2>3, RowsUnchanged, BackedStays
  <2>7. Backed(req[r].ids, req[r].kpis)'
    BY <2>4, <2>5, <2>6 DEF Backed
  <2>8. IsSound(r)'
    BY <1>2, <2>3, <2>4, <2>5, <2>7 DEF IsSound
  <2> QED BY <1>1, <1>2, <2>2, <2>4, <2>8, ReadStep
<1> QED BY <1>3, <1>4, <1>5, <1>6, <1>7

\* A decision on some recommendations.
LEMMA DecisionStep ==
  ASSUME ReviewInv, NEW r \in Reviewers,
         updateRecommendationDecisionWrite(r) \/ approveWrite(r)
  PROVE  StepOf(r)
<1>1. /\ ReviewTypeOK /\ recs \in Seq(RecRows) /\ req[r] \in RequestRows /\ IsSound(r)
      /\ Len(recs) \in Nat
  BY DEF ReviewInv, ReviewTypeOK, RequestRows, RequestsAreSound
<1>2. /\ req' \in [Reviewers -> RequestRows] /\ IsSound(r)'
      /\ \A v \in Reviewers : v # r => req'[v] = req[v]
  BY <1>1, Finished DEF updateRecommendationDecisionWrite, approveWrite
<1>3. ASSUME NEW d \in Decisions, NEW i \in RecIds
      PROVE  /\ [recs[i] EXCEPT !.status = d] \in RecRows
             /\ [recs[i] EXCEPT !.status = d].type = recs[i].type
             /\ [recs[i] EXCEPT !.status = d].ext = recs[i].ext
             /\ [recs[i] EXCEPT !.status = d].revision = recs[i].revision
             /\ [recs[i] EXCEPT !.status = d].query = recs[i].query
             /\ [recs[i] EXCEPT !.status = d].status # "SUPERSEDED"
  <2>1. recs[i] \in RecRows
    BY <1>1 DEF RecIds
  <2> QED BY <2>1 DEF RecRows, Decisions
<1>4. PICK D \in SUBSET RecIds, d \in Decisions :
        recs' = [i \in RecIds |-> IF i \in D THEN [recs[i] EXCEPT !.status = d] ELSE recs[i]]
  <2>1. CASE updateRecommendationDecisionWrite(r)
    <3>1. req[r].rec \in RecIds /\ req[r].decision \in Decisions
      BY <1>1, <2>1 DEF updateRecommendationDecisionWrite, IsSound, RequestRows
    <3>2. recs = [i \in RecIds |-> recs[i]]
      BY <1>1 DEF RecIds
    <3>3. recs' = [recs EXCEPT ![req[r].rec] = [recs[req[r].rec] EXCEPT !.status = req[r].decision]]
      BY <2>1, <3>1 DEF updateRecommendationDecisionWrite
    <3>4. recs' = [i \in RecIds |-> IF i \in {req[r].rec}
                                    THEN [recs[i] EXCEPT !.status = req[r].decision] ELSE recs[i]]
      BY <3>1, <3>2, <3>3
    <3> QED BY <3>1, <3>4
  <2>2. CASE approveWrite(r)
    <3>1. recs' = [i \in RecIds |-> IF i \in (req[r].ids \cap RecIds)
                                    THEN [recs[i] EXCEPT !.status = "APPROVED"] ELSE recs[i]]
      BY <2>2 DEF approveWrite
    <3>2. "APPROVED" \in Decisions
      BY DEF Decisions
    <3> QED BY <3>1, <3>2
  <2> QED BY <2>1, <2>2
<1>5. \A i \in RecIds : /\ recs'[i] \in RecRows
                        /\ recs'[i].type = recs[i].type /\ recs'[i].ext = recs[i].ext
                        /\ recs'[i].revision = recs[i].revision /\ recs'[i].query = recs[i].query
                        /\ recs'[i].status = recs[i].status \/ recs'[i].status # "SUPERSEDED"
  <2>1. \A i \in RecIds : recs[i] \in RecRows
    BY <1>1 DEF RecIds
  <2> QED BY <1>3, <1>4, <2>1
<1>6. recs' \in Seq(RecRows) /\ RecIds' = RecIds
  <2>1. recs' \in [1..Len(recs) -> RecRows]
    BY <1>4, <1>5 DEF RecIds
  <2>2. recs' \in Seq(RecRows) /\ Len(recs') = Len(recs)
    BY <1>1, <2>1
  <2> QED BY <2>2 DEF RecIds
<1>7. UNCHANGED <<jobStatus, artifacts, versions, rendered, queryRow>>
  BY DEF updateRecommendationDecisionWrite, approveWrite, rowsOnly
<1>8. RowsKeep
  BY <1>5, <1>6, <1>7 DEF RowsKeep
<1>9. NewestRevisionIsLive'
  BY <1>5, <1>6, DecisionsKeepRevisions DEF ReviewInv
<1>10. ReviewTypeOK'
  BY <1>1, <1>2, <1>6, <1>7 DEF ReviewTypeOK, RequestRows
<1> QED BY <1>1, <1>2, <1>7, <1>8, <1>9, <1>10, NotPublished, SameVersions DEF StepOf

-----------------------------------------------------------------------------
(* A new revision is inserted. *)

LEMMA SupersedeStep ==
  ASSUME ReviewInv, NEW r \in Reviewers, regenerateSupersede(r)
  PROVE  StepOf(r)
<1> DEFINE old == recs[req[r].rec]
           new == [old EXCEPT !.revision = req[r].revision, !.status = "PENDING",
                              !.query = req[r].query]
<1>1. /\ ReviewTypeOK /\ recs \in Seq(RecRows) /\ req[r] \in RequestRows /\ IsSound(r)
      /\ Len(recs) \in Nat /\ NewestRevisionIsLive
  BY DEF ReviewInv, ReviewTypeOK, RequestRows, RequestsAreSound
<1>2. req[r].phase = "Superseding" /\ req[r].rec \in RecIds /\ old \in RecRows
  BY <1>1 DEF regenerateSupersede, IsSound, RecIds
<1>3. CASE RevisionIsTaken(old.type, old.ext, req[r].revision)
  <2>1. Finish(r) /\ UNCHANGED <<jobStatus, artifacts, versions, rendered, recs, queryRow>>
    BY <1>3 DEF regenerateSupersede, rowsOnly
  <2> QED BY <1>1, <2>1, NoRequestIsPlain, PlainRead DEF Finish, ReviewTypeOK
<1>4. CASE ~RevisionIsTaken(old.type, old.ext, req[r].revision)
  <2> DEFINE n == Cardinality(RowsLike(old.type, old.ext))
             out == [recs EXCEPT ![req[r].rec] = [old EXCEPT !.status = "SUPERSEDED"]]
             x == [req[r] EXCEPT !.phase = "Querying", !.rec = Len(recs) + 1]
  <2>1. /\ recs' = Append(out, new)
        /\ UNCHANGED <<jobStatus, artifacts, versions, rendered, queryRow>>
    BY <1>4 DEF regenerateSupersede, rowsOnly
  <2>2. req[r].revision = n + 1 /\ n \in Nat /\ Revisions(old.type, old.ext) = 1..n
    <3>1. n \in Nat /\ Revisions(old.type, old.ext) = 1..n
      BY <1>1, <1>2, SoundRevisions
    <3>2. req[r].revision \in 1..(n + 1)
      BY <1>2, <1>1 DEF IsSound
    <3>3. req[r].revision \notin 1..n
      BY <1>4, <3>1 DEF RevisionIsTaken
    <3> QED BY <3>1, <3>2, <3>3
  <2>3. PICK m, type, ext : m = n /\ type = old.type /\ ext = old.ext
    OBVIOUS
  <2>4. /\ new \in RecRows /\ new.type = old.type /\ new.ext = old.ext
        /\ new.revision = n + 1 /\ new.status = "PENDING"
    <3>1. req[r].revision \in Nat \ {0} /\ req[r].query \in Nat
      BY <1>1, <2>2 DEF RequestRows
    <3> QED BY <1>2, <2>2, <3>1 DEF RecRows
  <2>5. LET gone == [old EXCEPT !.status = "SUPERSEDED"]
        IN /\ gone \in RecRows /\ gone.type = old.type /\ gone.ext = old.ext
           /\ gone.revision = old.revision /\ gone.query = old.query
    BY <1>2 DEF RecRows
  <2>6. /\ out \in Seq(RecRows) /\ Len(out) = Len(recs)
        /\ \A i \in RecIds : /\ out[i].type = recs[i].type /\ out[i].ext = recs[i].ext
                             /\ out[i].revision = recs[i].revision
                             /\ out[i].query = recs[i].query
                             /\ i # req[r].rec => out[i] = recs[i]
    <3>1. /\ out \in Seq(RecRows) /\ Len(out) = Len(recs)
          /\ \A i \in 1..Len(recs) :
               out[i] = IF i = req[r].rec THEN [old EXCEPT !.status = "SUPERSEDED"] ELSE recs[i]
      BY <1>1, <1>2, <2>5, ExceptSeq DEF RecIds
    <3> HIDE DEF out
    <3> QED BY <2>5, <3>1 DEF RecIds
  <2> HIDE DEF out, new
  <2>7. /\ recs' \in Seq(RecRows) /\ Len(recs') = Len(recs) + 1
        /\ \A i \in RecIds : recs'[i] = out[i]
        /\ recs'[Len(recs) + 1] = new
        /\ RecIds' = RecIds \cup {Len(recs) + 1} /\ Len(recs) + 1 \notin RecIds
    BY <1>1, <2>1, <2>4, <2>6 DEF RecIds
  <2>8. RowsKeep
    BY <2>1, <2>6, <2>7 DEF RowsKeep
  <2>9. /\ req' \in [Reviewers -> RequestRows] /\ IsSound(r)'
        /\ \A v \in Reviewers : v # r => req'[v] = req[v]
    <3>1. CASE old.type = "KPI"
      <4>1. req' = [req EXCEPT ![r] = x]
        BY <1>1, <1>4, <3>1 DEF regenerateSupersede, ReviewTypeOK
      <4>2. x \in RequestRows /\ x.phase = "Querying"
        <5>1. Len(recs) + 1 \in Nat
          BY <1>1
        <5> QED BY <1>1, <5>1 DEF RequestRows, Phases
      <4> HIDE DEF x
      <4>3. /\ req' \in [Reviewers -> RequestRows] /\ req'[r] = x
            /\ \A v \in Reviewers : v # r => req'[v] = req[v]
        BY <1>1, <4>1, <4>2, RequestSet
      <4> QED BY <4>2, <4>3 DEF IsSound
    <3>2. CASE old.type # "KPI"
      <4>1. Finish(r)
        BY <1>4, <3>2 DEF regenerateSupersede
      <4> QED BY <1>1, <4>1, Finished
    <3> QED BY <3>1, <3>2
  <2>10. \A t, e : ~(t = type /\ e = ext) =>
           RowsLike(t, e)' = RowsLike(t, e) /\ Revisions(t, e)' = Revisions(t, e)
    <3> SUFFICES ASSUME NEW t, NEW e, ~(t = type /\ e = ext)
                 PROVE  RowsLike(t, e)' = RowsLike(t, e) /\ Revisions(t, e)' = Revisions(t, e)
      OBVIOUS
    <3>1. ~(recs'[Len(recs) + 1].type = t /\ recs'[Len(recs) + 1].ext = e)
      BY <2>3, <2>4, <2>7
    <3>2. RowsLike(t, e)' = RowsLike(t, e)
      BY <2>6, <2>7, <3>1 DEF RowsLike
    <3>3. \A i \in RowsLike(t, e) : recs'[i].revision = recs[i].revision
      BY <2>6, <2>7 DEF RowsLike
    <3>4. /\ Revisions(t, e) = {recs[i].revision : i \in RowsLike(t, e)}
          /\ Revisions(t, e)' = {recs'[i].revision : i \in RowsLike(t, e)'}
      BY DEF Revisions, RowsLike
    <3> QED BY <3>2, <3>3, <3>4
  <2>11. /\ Cardinality(RowsLike(type, ext)') = m + 1
         /\ Revisions(type, ext)' = 1..(m + 1)
    <3>1. RowsLike(type, ext)' = RowsLike(type, ext) \cup {Len(recs) + 1}
      <4>1. /\ recs'[Len(recs) + 1].type = type /\ recs'[Len(recs) + 1].ext = ext
            /\ \A i \in RecIds : recs'[i].type = recs[i].type /\ recs'[i].ext = recs[i].ext
        BY <2>3, <2>4, <2>6, <2>7
      <4> QED BY <2>7, <4>1 DEF RowsLike
    <3>2. Len(recs) + 1 \notin RowsLike(type, ext)
      BY <2>7 DEF RowsLike
    <3>3. IsFiniteSet(RowsLike(type, ext))
      BY <1>1, RowsLikeAreFinite
    <3>4. Cardinality(RowsLike(type, ext)') = m + 1
      BY <2>3, <3>1, <3>2, <3>3, FS_AddElement
    <3>5. /\ \A i \in RowsLike(type, ext) : recs'[i].revision = recs[i].revision
          /\ recs'[Len(recs) + 1].revision = m + 1
      BY <2>3, <2>4, <2>6, <2>7 DEF RowsLike
    <3>6. /\ Revisions(type, ext) = {recs[i].revision : i \in RowsLike(type, ext)}
          /\ Revisions(type, ext)' = {recs'[i].revision : i \in RowsLike(type, ext)'}
      BY DEF Revisions, RowsLike
    <3>7. Revisions(type, ext)' = Revisions(type, ext) \cup {m + 1}
      BY <3>1, <3>5, <3>6
    <3>8. (1..m) \cup {m + 1} = 1..(m + 1)
      <4>1. \A k \in Nat : (1..k) \cup {k + 1} = 1..(k + 1)
        OBVIOUS
      <4> QED BY <2>2, <2>3, <4>1
    <3> QED BY <2>2, <2>3, <3>4, <3>7, <3>8
  <2>12. NewestRevisionIsLive'
    <3> SUFFICES ASSUME NEW i \in RecIds', NEW t, NEW e, t = recs'[i].type, e = recs'[i].ext
                 PROVE  /\ Revisions(t, e)' = 1..Cardinality(RowsLike(t, e)')
                        /\ recs'[i].revision = Highest(Revisions(t, e))' => recs'[i].status # "SUPERSEDED"
      <4> SUFFICES ASSUME NEW i \in RecIds'
                   PROVE  (LET revisions == Revisions(recs[i].type, recs[i].ext)
                           IN /\ revisions = 1..Cardinality({k \in RecIds :
                                     recs[k].type = recs[i].type /\ recs[k].ext = recs[i].ext})
                              /\ recs[i].revision = Highest(revisions) =>
                                   recs[i].status # "SUPERSEDED")'
        BY DEF NewestRevisionIsLive
      <4>1. PICK t, e : t = recs'[i].type /\ e = recs'[i].ext
        OBVIOUS
      <4>2. /\ Revisions(t, e)' = 1..Cardinality(RowsLike(t, e)')
            /\ recs'[i].revision = Highest(Revisions(t, e))' => recs'[i].status # "SUPERSEDED"
        BY <4>1
      <4>3. Revisions(recs[i].type, recs[i].ext)' = Revisions(t, e)'
        BY <4>1 DEF Revisions
      <4>4. {k \in RecIds : recs[k].type = recs[i].type /\ recs[k].ext = recs[i].ext}'
            = RowsLike(t, e)'
        BY <4>1 DEF RowsLike
      <4> QED BY <4>2, <4>3, <4>4 DEF Highest
    <3>1. CASE t = type /\ e = ext
      <4>1. Highest(1..(m + 1)) = m + 1
        <5>1. \A y \in (1..(m + 1)) \cup {0} : (\A z \in 1..(m + 1) : z <= y) <=> y = m + 1
          <6>1. m \in Nat
            BY <2>2, <2>3
          <6>2. \A k \in Nat : \A y \in (1..(k + 1)) \cup {0} :
                  (\A z \in 1..(k + 1) : z <= y) <=> y = k + 1
            OBVIOUS
          <6> QED BY <6>1, <6>2
        <5>2. m + 1 \in (1..(m + 1)) \cup {0}
          BY <2>2, <2>3
        <5> QED BY <5>1, <5>2 DEF Highest
      <4>2. CASE i = Len(recs) + 1
        BY <2>4, <2>7, <2>11, <3>1, <4>2
      <4>3. CASE i # Len(recs) + 1
        <5>1. i \in RecIds /\ recs[i].type = type /\ recs[i].ext = ext /\ recs'[i].revision = recs[i].revision
          BY <2>6, <2>7, <3>1, <4>3
        <5>2. recs[i].revision \in 1..m
          BY <2>2, <2>3, <5>1 DEF Revisions
        <5>3. recs'[i].revision # m + 1
          BY <2>2, <2>3, <5>1, <5>2
        <5> QED BY <2>11, <3>1, <4>1, <5>3 DEF Highest
      <4> QED BY <4>2, <4>3
    <3>2. CASE ~(t = type /\ e = ext)
      <4>1. i \in RecIds /\ recs'[i] = recs[i] /\ t = recs[i].type /\ e = recs[i].ext
        <5>1. i # Len(recs) + 1
          BY <2>3, <2>4, <2>7, <3>2
        <5>2. i \in RecIds
          BY <2>7, <5>1
        <5> QED BY <2>3, <2>4, <2>6, <2>7, <3>2, <5>2
      <4>2. /\ Revisions(t, e) = 1..Cardinality(RowsLike(t, e))
            /\ recs[i].revision = Highest(Revisions(t, e)) => recs[i].status # "SUPERSEDED"
        BY <1>1, <4>1 DEF NewestRevisionIsLive, RowsLike
      <4> QED BY <2>10, <3>2, <4>1, <4>2 DEF Highest
    <3> QED BY <3>1, <3>2
  <2>13. ReviewTypeOK'
    BY <1>1, <2>1, <2>7, <2>9 DEF ReviewTypeOK, RequestRows
  <2> QED BY <1>1, <2>1, <2>8, <2>9, <2>12, <2>13, NotPublished, SameVersions DEF StepOf
<1> QED BY <1>3, <1>4

-----------------------------------------------------------------------------
(* Queries. *)

\* Queries are added and tested; recommendations and what is published stay.
LEMMA QueryStep ==
  ASSUME ReviewInv, NEW r \in Reviewers,
         queryRow' \in Seq(QueryRecords), DOMAIN queryRow \subseteq DOMAIN queryRow',
         \A q \in DOMAIN queryRow : /\ queryRow'[q].rec = queryRow[q].rec
                                    /\ queryRow[q].executed => queryRow'[q].executed,
         UNCHANGED <<jobStatus, recs, artifacts, versions, rendered>>,
         req' \in [Reviewers -> RequestRows],
         \A v \in Reviewers : v # r => req'[v] = req[v],
         IsSound(r)'
  PROVE  StepOf(r)
<1>1. RowsKeep
  BY DEF RowsKeep, RecIds
<1>2. NewestRevisionIsLive'
  BY DecisionsKeepRevisions DEF ReviewInv, RecIds
<1>3. ReviewTypeOK'
  BY DEF ReviewInv, ReviewTypeOK, RequestRows, RecIds
<1> QED BY <1>1, <1>2, <1>3, NotPublished, SameVersions DEF StepOf, ReviewInv

LEMMA CreateQueryStep ==
  ASSUME ReviewInv, NEW r \in Reviewers, createValidatedQueryDefinition(r)
  PROVE  StepOf(r)
<1>1. /\ ReviewTypeOK /\ queryRow \in Seq(QueryRecords) /\ req[r] \in RequestRows
      /\ Len(queryRow) \in Nat /\ req \in [Reviewers -> RequestRows]
  BY DEF ReviewInv, ReviewTypeOK, RequestRows
<1>2. PICK valid \in BOOLEAN :
        /\ queryRow' = Append(queryRow, [rec |-> req[r].rec, valid |-> valid, executed |-> FALSE])
        /\ IF valid
           THEN req' = [req EXCEPT ![r].phase = "Executing", ![r].query = Len(queryRow) + 1]
           ELSE Finish(r)
  BY DEF createValidatedQueryDefinition
<1>3. [rec |-> req[r].rec, valid |-> valid, executed |-> FALSE] \in QueryRecords
  BY <1>1 DEF RequestRows, QueryRecords
<1>4. /\ queryRow' \in Seq(QueryRecords)
      /\ DOMAIN queryRow \subseteq DOMAIN queryRow' /\ Len(queryRow) + 1 \in DOMAIN queryRow'
      /\ \A q \in DOMAIN queryRow : queryRow'[q] = queryRow[q]
  BY <1>1, <1>2, <1>3
<1>5. /\ req' \in [Reviewers -> RequestRows] /\ IsSound(r)'
      /\ \A v \in Reviewers : v # r => req'[v] = req[v]
  <2>1. CASE valid
    <3> DEFINE n == Len(queryRow) + 1
               x == [req[r] EXCEPT !.phase = "Executing", !.query = n]
    <3>1. req' = [req EXCEPT ![r] = x]
      BY <1>1, <1>2, <2>1
    <3>2. n \in Nat
      BY <1>1
    <3> HIDE DEF n
    <3>3. x \in RequestRows /\ x.phase = "Executing" /\ x.query = n
      BY <1>1, <3>2 DEF RequestRows, Phases
    <3> HIDE DEF x
    <3>4. /\ req' \in [Reviewers -> RequestRows] /\ req'[r] = x
          /\ \A v \in Reviewers : v # r => req'[v] = req[v]
      BY <1>1, <3>1, <3>3, RequestSet
    <3> QED BY <1>4, <3>3, <3>4 DEF IsSound, n
  <2>2. CASE ~valid
    BY <1>1, <1>2, <2>2, Finished
  <2> QED BY <2>1, <2>2
<1> QED BY <1>4, <1>5, QueryStep DEF createValidatedQueryDefinition, rowsOnly

LEMMA ExecuteQueryStep ==
  ASSUME ReviewInv, NEW r \in Reviewers, executeQueryDefinition(r)
  PROVE  StepOf(r)
<1>1. /\ ReviewTypeOK /\ queryRow \in Seq(QueryRecords) /\ req[r].query \in DOMAIN queryRow
  BY DEF ReviewInv, ReviewTypeOK, RequestsAreSound, IsSound, executeQueryDefinition
<1> DEFINE q == req[r].query
<1>2. queryRow[q] \in QueryRecords
  BY <1>1
<1>3. PICK b \in BOOLEAN : /\ queryRow[q].executed => b
                           /\ queryRow' = [queryRow EXCEPT ![q] = [queryRow[q] EXCEPT !.executed = b]]
  <2>1. queryRow[q].executed \in BOOLEAN
    BY <1>2 DEF QueryRecords
  <2>2. PICK succeeds \in BOOLEAN : queryRow' = [queryRow EXCEPT ![q].executed = @ \/ succeeds]
    BY DEF executeQueryDefinition
  <2>3. (queryRow[q].executed \/ succeeds) \in BOOLEAN
    OBVIOUS
  <2> QED BY <2>1, <2>2, <2>3
<1> DEFINE x == [queryRow[q] EXCEPT !.executed = b]
<1>4. x \in QueryRecords /\ x.rec = queryRow[q].rec /\ x.executed = b
  BY <1>2 DEF QueryRecords
<1> HIDE DEF x
<1>5. queryRow' = [queryRow EXCEPT ![q] = x]
  BY <1>3 DEF x
<1>6. /\ queryRow' \in Seq(QueryRecords) /\ DOMAIN queryRow' = DOMAIN queryRow
      /\ \A p \in DOMAIN queryRow : queryRow'[p] = IF p = q THEN x ELSE queryRow[p]
  BY <1>1, <1>4, <1>5
<1>7. /\ req' \in [Reviewers -> RequestRows] /\ IsSound(r)'
      /\ \A v \in Reviewers : v # r => req'[v] = req[v]
  BY <1>1, Finished DEF executeQueryDefinition
<1>8. \A p \in DOMAIN queryRow : /\ queryRow'[p].rec = queryRow[p].rec
                                 /\ queryRow[p].executed => queryRow'[p].executed
  BY <1>3, <1>4, <1>6
<1>9. UNCHANGED <<jobStatus, recs, artifacts, versions, rendered>>
  BY DEF executeQueryDefinition, rowsOnly
<1> HIDE DEF q
<1> QED BY <1>6, <1>7, <1>8, <1>9, QueryStep

-----------------------------------------------------------------------------
(* Publication. *)

LEMMA FinalizeCommitStep ==
  ASSUME ReviewInv, NEW r \in Reviewers, finalizeCommit(r)
  PROVE  StepOf(r)
<1>1. /\ ReviewTypeOK /\ versions \in Seq(Snapshots) /\ Len(versions) \in Nat
      /\ req[r] \in RequestRows /\ IsSound(r) /\ PublishedWell
  BY DEF ReviewInv, ReviewTypeOK, RequestRows, RequestsAreSound
<1>2. UNCHANGED <<recs, queryRow, artifacts>> /\ Finish(r)
  BY DEF finalizeCommit
<1>3. RowsKeep /\ NewestRevisionIsLive'
  BY <1>2, RowsUnchanged
<1>4. /\ req' \in [Reviewers -> RequestRows] /\ IsSound(r)'
      /\ \A v \in Reviewers : v # r => req'[v] = req[v]
  BY <1>1, <1>2, Finished
<1>5. CASE ~VersionIsFree(req[r].revision)
  <2>1. UNCHANGED <<versions, rendered, jobStatus>>
    BY <1>5 DEF finalizeCommit
  <2>2. ReviewTypeOK'
    BY <1>1, <1>2, <1>4, <2>1 DEF ReviewTypeOK, RequestRows, RecIds
  <2> QED BY <1>1, <1>3, <1>4, <2>1, <2>2, NotPublished DEF StepOf
<1>6. CASE VersionIsFree(req[r].revision)
  <2>1. PICK widgets, kpis : widgets = req[r].ids /\ kpis = req[r].kpis
    OBVIOUS
  <2>2. /\ versions' = Append(versions, [kpis |-> kpis, widgets |-> widgets])
        /\ rendered' = widgets /\ jobStatus' = "COMPLETED"
    BY <1>6, <2>1 DEF finalizeCommit
  <2>3. Backed(widgets, kpis)
    BY <1>1, <1>6, <2>1 DEF finalizeCommit, IsSound
  <2>4. [kpis |-> kpis, widgets |-> widgets] \in Snapshots /\ widgets \subseteq RecIds
    BY <1>1, <2>1, <2>3 DEF RequestRows, Snapshots, Backed
  <2>5. /\ versions' \in Seq(Snapshots) /\ Len(versions') = Len(versions) + 1
        /\ DOMAIN versions' = DOMAIN versions \cup {Len(versions')} /\ versions' # <<>>
        /\ \A v \in DOMAIN versions : versions'[v] = versions[v]
        /\ versions'[Len(versions')].kpis = kpis /\ versions'[Len(versions')].widgets = widgets
    BY <1>1, <2>2, <2>4
  <2>6. Backed(widgets, kpis)'
    BY <1>3, <2>3, BackedStays
  <2>7. ASSUME NEW v \in DOMAIN versions'
        PROVE  Backed(versions[v].widgets, versions[v].kpis)'
    <3>1. CASE v = Len(versions')
      BY <2>5, <2>6, <3>1 DEF Backed
    <3>2. CASE v # Len(versions')
      <4>1. v \in DOMAIN versions /\ versions'[v] = versions[v]
        BY <2>5, <3>2
      <4>2. PICK ws, ks : ws = versions[v].widgets /\ ks = versions[v].kpis
        OBVIOUS
      <4>3. Backed(ws, ks)'
        BY <1>1, <1>3, <4>1, <4>2, BackedStays DEF PublishedWell
      <4> QED BY <4>1, <4>2, <4>3 DEF Backed
    <3> QED BY <3>1, <3>2
  <2>8. PublishedWell'
    BY <2>2, <2>5, <2>7 DEF PublishedWell, UnderReview
  <2>9. ReviewTypeOK'
    BY <1>1, <1>2, <1>4, <2>2, <2>4, <2>5 DEF ReviewTypeOK, RequestRows, RecIds
  <2> QED BY <1>1, <1>3, <1>4, <2>5, <2>8, <2>9 DEF StepOf
<1> QED BY <1>5, <1>6

\* Nobody joins the finalizations after the first publication, and who publishes leaves.
LEMMA FinalizersStep ==
  ASSUME ReviewInv, NEW r \in Reviewers, \A v \in Reviewers : v # r => req'[v] = req[v],
         \/ UnderReview /\ UnderReview'
         \/ UNCHANGED <<jobStatus, versions>> /\ (r \in Finalizers' => r \in Finalizers)
         \/ /\ r \in Finalizers /\ r \notin Finalizers'
            /\ (versions = <<>>) <=> UnderReview
            /\ Len(versions') = Len(versions) + 1
  PROVE  FinalizersAreLeft'
<1>1. /\ IsFiniteSet(Reviewers) /\ Cardinality(Reviewers) \in Nat
      /\ Finalizers \subseteq Reviewers /\ Finalizers' \subseteq Reviewers
      /\ Len(versions) \in Nat
  BY ReviewAssumption, FS_CardinalityType DEF Finalizers, ReviewInv, ReviewTypeOK
<1>2. /\ IsFiniteSet(Finalizers) /\ Cardinality(Finalizers) \in Nat
      /\ Cardinality(Finalizers) <= Cardinality(Reviewers)
      /\ IsFiniteSet(Finalizers') /\ Cardinality(Finalizers') \in Nat
  BY <1>1, FS_Subset, FS_CardinalityType
<1>3. \A v \in Reviewers : v # r => (v \in Finalizers <=> v \in Finalizers')
  BY DEF Finalizers
<1>4. CASE UnderReview /\ UnderReview'
  BY <1>4 DEF FinalizersAreLeft
<1>5. CASE UNCHANGED <<jobStatus, versions>> /\ (r \in Finalizers' => r \in Finalizers)
  <2>1. Finalizers' \subseteq Finalizers
    BY <1>1, <1>3, <1>5
  <2>2. Cardinality(Finalizers') <= Cardinality(Finalizers)
    BY <1>2, <2>1, FS_Subset
  <2> QED BY <1>1, <1>2, <1>5, <2>2 DEF FinalizersAreLeft, ReviewInv, UnderReview
<1>6. CASE /\ r \in Finalizers /\ r \notin Finalizers'
           /\ (versions = <<>>) <=> UnderReview
           /\ Len(versions') = Len(versions) + 1
  <2>1. Finalizers' = Finalizers \ {r}
    BY <1>1, <1>3, <1>6
  <2>2. Cardinality(Finalizers') = Cardinality(Finalizers) - 1
    BY <1>2, <1>6, <2>1, FS_RemoveElement
  <2>3. Len(versions) + Cardinality(Finalizers) <= Cardinality(Reviewers)
    <3>1. CASE UnderReview
      <4>1. Len(versions) = 0
        BY <1>6, <3>1
      <4> QED BY <1>1, <1>2, <4>1
    <3>2. CASE ~UnderReview
      BY <3>2 DEF ReviewInv, FinalizersAreLeft
    <3> QED BY <3>1, <3>2
  <2> QED BY <1>1, <1>2, <1>6, <2>2, <2>3 DEF FinalizersAreLeft
<1> QED BY <1>4, <1>5, <1>6

\* Every other step keeps the finalizations as they are.
LEMMA NobodyJoins ==
  ASSUME ReviewInv, NEW r \in Reviewers, ~finalizeReadJob(r), ~finalizeCommit(r),
         \/ updateRecommendationDecisionRead(r) \/ updateRecommendationDecisionWrite(r)
         \/ approveRead(r) \/ approveWrite(r)
         \/ regenerateRead(r) \/ regenerateAbandoned(r) \/ regenerateArtifact(r)
         \/ regenerateSupersede(r)
         \/ createValidatedQueryDefinition(r) \/ executeQueryDefinition(r) \/ retestQuery(r)
         \/ finalizeReadVersions(r) \/ finalizeReadRecommendations(r) \/ finalizeReadQueries(r)
  PROVE  UNCHANGED <<jobStatus, versions>> /\ (r \in Finalizers' => r \in Finalizers)
<1>1. req \in [Reviewers -> RequestRows] /\ NoRequest.phase = "Idle"
  BY NoRequestIsPlain DEF ReviewInv, ReviewTypeOK, RequestRows
<1>2. UNCHANGED <<jobStatus, versions>>
  BY DEF updateRecommendationDecisionRead, updateRecommendationDecisionWrite, approveRead,
         approveWrite, regenerateRead, regenerateAbandoned, regenerateArtifact,
         regenerateSupersede, createValidatedQueryDefinition, executeQueryDefinition,
         retestQuery, rowsOnly, finalizeReadVersions, finalizeReadRecommendations,
         finalizeReadQueries
<1>3. CASE Finish(r)
  <2>1. req'[r].phase = "Idle"
    BY <1>1, <1>3 DEF Finish
  <2> QED BY <1>2, <2>1 DEF Finalizers
<1>4. CASE finalizeReadVersions(r) \/ finalizeReadRecommendations(r) \/ finalizeReadQueries(r)
  BY <1>2, <1>4 DEF finalizeReadVersions, finalizeReadRecommendations, finalizeReadQueries,
         Finalizers
<1>5. CASE \/ updateRecommendationDecisionRead(r) \/ approveRead(r) \/ regenerateRead(r)
           \/ retestQuery(r)
  <2>1. PICK x : /\ req' = [req EXCEPT ![r] = x]
                 /\ x.phase \in {"Deciding", "Approving", "Asking", "Executing"}
    <3>1. CASE updateRecommendationDecisionRead(r)
      <4>1. PICK i \in RecIds, d \in Decisions : req' = [req EXCEPT ![r] = [NoRequest EXCEPT !.phase = "Deciding", !.rec = i, !.decision = d]]
        BY <3>1 DEF updateRecommendationDecisionRead
      <4> DEFINE y == [NoRequest EXCEPT !.phase = "Deciding", !.rec = i, !.decision = d]
      <4>2. y.phase = "Deciding"
        BY DEF NoRequest
      <4> HIDE DEF y
      <4> QED BY <4>1, <4>2 DEF y
    <3>2. CASE approveRead(r)
      <4>1. PICK c \in SUBSET RecIds : req' = [req EXCEPT ![r] = [NoRequest EXCEPT !.phase = "Approving", !.ids = c]]
        BY <3>2 DEF approveRead
      <4> DEFINE y == [NoRequest EXCEPT !.phase = "Approving", !.ids = c]
      <4>2. y.phase = "Approving"
        BY DEF NoRequest
      <4> HIDE DEF y
      <4> QED BY <4>1, <4>2 DEF y
    <3>3. CASE regenerateRead(r)
      <4>1. PICK i \in RecIds :
              \E q \in IF recs[i].type = "KPI" THEN {0}
                      ELSE {k \in DOMAIN queryRow : queryRow[k].executed} :
                req' = [req EXCEPT ![r] =
                         [NoRequest EXCEPT !.phase = "Asking", !.rec = i, !.query = q,
                            !.revision = nextRevision(recs[i].type, recs[i].ext),
                            !.artifact = artifacts[recs[i].type] + 1]]
        BY <3>3 DEF regenerateRead
      <4>2. PICK q : req' = [req EXCEPT ![r] =
                       [NoRequest EXCEPT !.phase = "Asking", !.rec = i, !.query = q,
                          !.revision = nextRevision(recs[i].type, recs[i].ext),
                          !.artifact = artifacts[recs[i].type] + 1]]
        BY <4>1
      <4> DEFINE y == [NoRequest EXCEPT !.phase = "Asking", !.rec = i, !.query = q,
                          !.revision = nextRevision(recs[i].type, recs[i].ext),
                          !.artifact = artifacts[recs[i].type] + 1]
      <4>3. y.phase = "Asking"
        BY DEF NoRequest
      <4> HIDE DEF y
      <4> QED BY <4>2, <4>3 DEF y
    <3>4. CASE retestQuery(r)
      <4>1. PICK q \in DOMAIN queryRow : req' = [req EXCEPT ![r] = [NoRequest EXCEPT !.phase = "Executing", !.query = q]]
        BY <3>4 DEF retestQuery
      <4> DEFINE y == [NoRequest EXCEPT !.phase = "Executing", !.query = q]
      <4>2. y.phase = "Executing"
        BY DEF NoRequest
      <4> HIDE DEF y
      <4> QED BY <4>1, <4>2 DEF y
    <3> QED BY <1>5, <3>1, <3>2, <3>3, <3>4
  <2> QED BY <1>1, <1>2, <2>1 DEF Finalizers
<1>6. CASE \/ regenerateArtifact(r)
           \/ regenerateSupersede(r) /\ ~Finish(r)
           \/ createValidatedQueryDefinition(r) /\ ~Finish(r)
  <2>1. PICK p \in {"Superseding", "Querying", "Executing"} : \E i :
          \/ req' = [req EXCEPT ![r].phase = p]
          \/ req' = [req EXCEPT ![r].phase = p, ![r].rec = i]
          \/ req' = [req EXCEPT ![r].phase = p, ![r].query = i]
    BY <1>6 DEF regenerateArtifact, regenerateSupersede, createValidatedQueryDefinition
  <2>2. req'[r].phase = p
    BY <1>1, <2>1 DEF RequestRows
  <2> QED BY <1>2, <2>1, <2>2 DEF Finalizers
<1> QED BY <1>3, <1>4, <1>5, <1>6 DEF updateRecommendationDecisionWrite, approveWrite,
         regenerateAbandoned, executeQueryDefinition

LEMMA FinalizersCounted ==
  ASSUME ReviewInv, NEW r \in Reviewers, StepOf(r),
         \/ updateRecommendationDecisionRead(r) \/ updateRecommendationDecisionWrite(r)
         \/ approveRead(r) \/ approveWrite(r)
         \/ regenerateRead(r) \/ regenerateAbandoned(r) \/ regenerateArtifact(r)
         \/ regenerateSupersede(r)
         \/ createValidatedQueryDefinition(r) \/ executeQueryDefinition(r) \/ retestQuery(r)
         \/ finalizeReadJob(r) \/ finalizeReadVersions(r) \/ finalizeReadRecommendations(r)
         \/ finalizeReadQueries(r) \/ finalizeCommit(r)
  PROVE  FinalizersAreLeft'
<1>1. \A v \in Reviewers : v # r => req'[v] = req[v]
  BY DEF StepOf
<1>2. CASE finalizeReadJob(r)
  <2>1. UnderReview /\ UnderReview'
    BY <1>2 DEF finalizeReadJob, UnderReview
  <2> QED BY <1>1, <2>1, FinalizersStep
<1>3. CASE finalizeCommit(r)
  <2>1. req \in [Reviewers -> RequestRows] /\ NoRequest.phase = "Idle" /\ versions \in Seq(Snapshots)
    BY NoRequestIsPlain DEF ReviewInv, ReviewTypeOK, RequestRows
  <2>2. r \in Finalizers /\ r \notin Finalizers'
    BY <1>3, <2>1 DEF finalizeCommit, Finish, Finalizers
  <2>3. CASE UNCHANGED <<versions, rendered, jobStatus>>
    BY <1>1, <2>2, <2>3, FinalizersStep
  <2>4. CASE versions' = Append(versions, [kpis |-> req[r].kpis, widgets |-> req[r].ids])
    <3>1. Len(versions') = Len(versions) + 1 /\ ((versions = <<>>) <=> UnderReview)
      BY <2>1, <2>4 DEF ReviewInv, PublishedWell
    <3> QED BY <1>1, <2>2, <3>1, FinalizersStep
  <2> QED BY <1>3, <2>3, <2>4 DEF finalizeCommit
<1>4. CASE ~finalizeReadJob(r) /\ ~finalizeCommit(r)
  <2>1. UNCHANGED <<jobStatus, versions>> /\ (r \in Finalizers' => r \in Finalizers)
    BY <1>4, NobodyJoins
  <2> QED BY <1>1, <2>1, FinalizersStep
<1> QED BY <1>2, <1>3, <1>4

-----------------------------------------------------------------------------
(* The rows the pipeline leaves. *)

LEMMA SetAsSeqLists ==
  ASSUME NEW S, IsFiniteSet(S)
  PROVE  LET f == SetAsSeq(S)
         IN /\ f \in Seq(S) /\ Len(f) = Cardinality(S) /\ Len(f) \in Nat
            /\ \A x \in S : \E i \in DOMAIN f : f[i] = x
            /\ \A i, k \in DOMAIN f : f[i] = f[k] => i = k
<1> DEFINE n == Cardinality(S)
           f == SetAsSeq(S)
<1>1. n \in Nat /\ Bijection(1..n, S) # {}
  BY FS_CardinalityType DEF ExistsBijection
<1>2. \E g \in [1..n -> S] : \A x \in S : \E i \in DOMAIN g : g[i] = x
  BY <1>1 DEF Bijection, Injection, Surjection
<1>3. f \in [1..n -> S] /\ \A x \in S : \E i \in DOMAIN f : f[i] = x
  BY <1>2 DEF SetAsSeq
<1> HIDE DEF f
<1>4. f \in Surjection(1..n, S)
  BY <1>3 DEF Surjection
<1>5. IsFiniteSet(1..n) /\ Cardinality(1..n) = n
  BY <1>1, FS_Interval
<1>6. f \in Injection(1..n, S)
  BY <1>4, <1>5, FS_SurjSameCardinalityImpliesInj
<1>7. \A i, k \in DOMAIN f : f[i] = f[k] => i = k
  BY <1>3, <1>6 DEF Injection, IsInjective
<1>8. f \in Seq(S) /\ Len(f) = n
  BY <1>1, <1>3
<1> QED BY <1>1, <1>3, <1>7, <1>8 DEF f

LEMMA Concatenated ==
  ASSUME NEW S, NEW a \in Seq(S), NEW b \in Seq(S)
  PROVE  /\ a \o b \in Seq(S) /\ Len(a \o b) = Len(a) + Len(b)
         /\ \A i \in 1..Len(a) : (a \o b)[i] = a[i]
         /\ \A i \in 1..Len(b) : (a \o b)[Len(a) + i] = b[i]
OBVIOUS

LEMMA InitiallyInv == ReviewInit => ReviewInv
<1> SUFFICES ASSUME ReviewInit PROVE ReviewInv
  OBVIOUS
<1> DEFINE row(type, ext, query) == [type |-> type, ext |-> ext, revision |-> 1,
                                     status |-> "PENDING", query |-> query]
<1>1. PICK ks, ws : ks = SetAsSeq(KpiIds) /\ ws = SetAsSeq(WidgetIds)
  OBVIOUS
<1>2. /\ ks \in Seq(KpiIds) /\ Len(ks) \in Nat /\ DOMAIN ks = 1..Len(ks)
      /\ \A x \in KpiIds : \E i \in 1..Len(ks) : ks[i] = x
      /\ \A i, k \in 1..Len(ks) : ks[i] = ks[k] => i = k
  BY <1>1, SetAsSeqLists, ReviewAssumption
<1>3. /\ ws \in Seq(WidgetIds) /\ Len(ws) \in Nat /\ DOMAIN ws = 1..Len(ws)
      /\ \A i, k \in 1..Len(ws) : ws[i] = ws[k] => i = k
  BY <1>1, SetAsSeqLists, ReviewAssumption
<1> DEFINE at(k) == CHOOSE i \in DOMAIN ks : ks[i] = k
           A == [i \in 1..Len(ks) |-> row("KPI", ks[i], 0)]
           B == [i \in 1..Len(ws) |-> row("WIDGET", ws[i], at(ShownBy[ws[i]]))]
<1>4. /\ jobStatus = "WAITING_FOR_APPROVAL" /\ recs = A \o B
      /\ queryRow = [i \in 1..Len(ks) |-> [rec |-> i, valid |-> TRUE, executed |-> TRUE]]
      /\ artifacts = [t \in Types |-> 1] /\ versions = <<>> /\ rendered = {}
      /\ req = [r \in Reviewers |-> NoRequest]
  BY <1>1 DEF ReviewInit
<1>5. \A i \in 1..Len(ws) : at(ShownBy[ws[i]]) \in Nat
  <2>1. \A i \in 1..Len(ws) : ShownBy[ws[i]] \in KpiIds
    BY <1>3, ReviewAssumption
  <2>2. \A x \in KpiIds : at(x) \in 1..Len(ks)
    BY <1>2
  <2> HIDE DEF at
  <2> QED BY <1>2, <2>1, <2>2
<1> HIDE DEF at
<1>6. /\ A \in Seq(RecRows) /\ Len(A) = Len(ks)
      /\ \A i \in 1..Len(ks) : /\ A[i].type = "KPI" /\ A[i].ext = ks[i]
                               /\ A[i].revision = 1 /\ A[i].status = "PENDING"
  <2>1. \A i \in 1..Len(ks) : row("KPI", ks[i], 0) \in RecRows
    BY <1>2 DEF RecRows, Types
  <2>2. \A i \in 1..Len(ks) : A[i] = row("KPI", ks[i], 0)
    OBVIOUS
  <2>3. \A i \in 1..Len(ks) :
          /\ row("KPI", ks[i], 0).type = "KPI" /\ row("KPI", ks[i], 0).ext = ks[i]
          /\ row("KPI", ks[i], 0).revision = 1 /\ row("KPI", ks[i], 0).status = "PENDING"
    OBVIOUS
  <2> HIDE DEF row
  <2> QED BY <1>2, <2>1, <2>2, <2>3
<1>7. /\ B \in Seq(RecRows) /\ Len(B) = Len(ws)
      /\ \A i \in 1..Len(ws) : /\ B[i].type = "WIDGET" /\ B[i].ext = ws[i]
                               /\ B[i].revision = 1 /\ B[i].status = "PENDING"
  <2>1. \A i \in 1..Len(ws) : row("WIDGET", ws[i], at(ShownBy[ws[i]])) \in RecRows
    BY <1>3, <1>5 DEF RecRows, Types
  <2>2. \A i \in 1..Len(ws) : B[i] = row("WIDGET", ws[i], at(ShownBy[ws[i]]))
    OBVIOUS
  <2>3. \A x, q : /\ row("WIDGET", x, q).type = "WIDGET" /\ row("WIDGET", x, q).ext = x
                  /\ row("WIDGET", x, q).revision = 1 /\ row("WIDGET", x, q).status = "PENDING"
    OBVIOUS
  <2> HIDE DEF row
  <2> QED BY <1>3, <2>1, <2>2, <2>3
<1> HIDE DEF A, B
<1>8. /\ recs \in Seq(RecRows) /\ Len(recs) = Len(ks) + Len(ws)
      /\ \A i \in 1..Len(ks) : recs[i] = A[i]
      /\ \A i \in 1..Len(ws) : recs[Len(ks) + i] = B[i]
  <2>1. /\ A \o B \in Seq(RecRows) /\ Len(A \o B) = Len(A) + Len(B)
        /\ \A i \in 1..Len(A) : (A \o B)[i] = A[i]
        /\ \A i \in 1..Len(B) : (A \o B)[Len(A) + i] = B[i]
    <3>1. A \in Seq(RecRows) /\ B \in Seq(RecRows)
      BY <1>6, <1>7
    <3> QED BY ONLY <3>1, Concatenated
  <2>2. recs = A \o B /\ Len(A) = Len(ks) /\ Len(B) = Len(ws)
    BY <1>4, <1>6, <1>7
  <2> QED BY <2>1, <2>2
<1>9. \A i \in RecIds : /\ recs[i].revision = 1 /\ recs[i].status = "PENDING"
                        /\ \/ i \in 1..Len(ks) /\ recs[i].type = "KPI" /\ recs[i].ext = ks[i]
                           \/ /\ i - Len(ks) \in 1..Len(ws) /\ recs[i].type = "WIDGET"
                              /\ recs[i].ext = ws[i - Len(ks)]
  <2> SUFFICES ASSUME NEW i \in RecIds
               PROVE  /\ recs[i].revision = 1 /\ recs[i].status = "PENDING"
                      /\ \/ i \in 1..Len(ks) /\ recs[i].type = "KPI" /\ recs[i].ext = ks[i]
                         \/ /\ i - Len(ks) \in 1..Len(ws) /\ recs[i].type = "WIDGET"
                            /\ recs[i].ext = ws[i - Len(ks)]
    OBVIOUS
  <2>1. CASE i \in 1..Len(ks)
    BY <1>6, <1>8, <2>1
  <2>2. CASE i \notin 1..Len(ks)
    <3>1. i - Len(ks) \in 1..Len(ws) /\ Len(ks) + (i - Len(ks)) = i
      BY <1>2, <1>3, <1>8, <2>2 DEF RecIds
    <3>2. recs[i] = B[i - Len(ks)]
      BY <1>8, <3>1
    <3> QED BY <1>7, <3>1, <3>2
  <2> QED BY <2>1, <2>2
<1>10. \A i, k \in RecIds : recs[i].type = recs[k].type /\ recs[i].ext = recs[k].ext => i = k
  <2> SUFFICES ASSUME NEW i \in RecIds, NEW k \in RecIds,
                      recs[i].type = recs[k].type, recs[i].ext = recs[k].ext
               PROVE  i = k
    OBVIOUS
  <2>1. i \in Int /\ k \in Int
    BY DEF RecIds
  <2>2. CASE recs[i].type = "KPI"
    <3>1. i \in 1..Len(ks) /\ k \in 1..Len(ks) /\ ks[i] = ks[k]
      BY <1>9, <2>2
    <3> QED BY <1>2, <3>1
  <2>3. CASE recs[i].type # "KPI"
    <3>1. /\ i - Len(ks) \in 1..Len(ws) /\ k - Len(ks) \in 1..Len(ws)
          /\ ws[i - Len(ks)] = ws[k - Len(ks)]
      BY <1>9, <2>3
    <3>2. i - Len(ks) = k - Len(ks)
      BY <1>3, <3>1
    <3> QED BY <1>2, <2>1, <3>2
  <2> QED BY <2>2, <2>3
<1>11. NewestRevisionIsLive
  <2> SUFFICES ASSUME NEW i \in RecIds
               PROVE  LET revisions == Revisions(recs[i].type, recs[i].ext)
                      IN /\ revisions = 1..Cardinality({k \in RecIds :
                                recs[k].type = recs[i].type /\ recs[k].ext = recs[i].ext})
                         /\ recs[i].revision = Highest(revisions) => recs[i].status # "SUPERSEDED"
    BY DEF NewestRevisionIsLive
  <2>1. {k \in RecIds : recs[k].type = recs[i].type /\ recs[k].ext = recs[i].ext} = {i}
    BY <1>10
  <2>2. Revisions(recs[i].type, recs[i].ext) = {1}
    BY <1>9, <2>1 DEF Revisions
  <2>3. Cardinality({i}) = 1
    BY FS_Singleton
  <2>4. 1..1 = {1}
    OBVIOUS
  <2> QED BY <1>9, <2>1, <2>2, <2>3, <2>4
<1>12. RequestsAreSound
  BY <1>4, NoRequestIsPlain DEF RequestsAreSound, IsSound
<1>13. PublishedWell /\ FinalizersAreLeft
  BY <1>4 DEF PublishedWell, FinalizersAreLeft, UnderReview
<1>14. ReviewTypeOK
  <2>1. queryRow \in Seq(QueryRecords)
    BY <1>2, <1>4 DEF QueryRecords
  <2>2. req \in [Reviewers -> RequestRows]
    BY <1>4, NoRequestIsPlain
  <2>3. artifacts \in [Types -> Nat] /\ versions \in Seq(Snapshots)
    BY <1>4
  <2> QED BY <1>4, <1>8, <2>1, <2>2, <2>3 DEF ReviewTypeOK, RequestRows, RecIds
<1> QED BY <1>11, <1>12, <1>13, <1>14 DEF ReviewInv

LEMMA ReviewInvariant == ReviewSpec => []ReviewInv
<1>1. ReviewInv /\ [ReviewNext]_reviewVars => ReviewInv'
  <2> SUFFICES ASSUME ReviewInv, [ReviewNext]_reviewVars PROVE ReviewInv'
    OBVIOUS
  <2>1. CASE ReviewNext
    <3>1. PICK r \in Reviewers :
            \/ updateRecommendationDecisionRead(r) \/ updateRecommendationDecisionWrite(r)
            \/ approveRead(r) \/ approveWrite(r)
            \/ regenerateRead(r) \/ regenerateAbandoned(r) \/ regenerateArtifact(r)
            \/ regenerateSupersede(r)
            \/ createValidatedQueryDefinition(r) \/ executeQueryDefinition(r) \/ retestQuery(r)
            \/ finalizeReadJob(r) \/ finalizeReadVersions(r) \/ finalizeReadRecommendations(r)
            \/ finalizeReadQueries(r) \/ finalizeCommit(r)
      BY <2>1 DEF ReviewNext
    <3>2. StepOf(r)
      BY <3>1, ReadsStep, RegenerateReadStep, RegenerateArtifactStep, FinalizeReadStep,
         DecisionStep, SupersedeStep, CreateQueryStep, ExecuteQueryStep, FinalizeCommitStep
    <3>3. FinalizersAreLeft'
      BY <3>1, <3>2, FinalizersCounted
    <3> QED BY <3>2, <3>3, StepKeepsInv
  <2>2. CASE UNCHANGED reviewVars
    <3>1. UNCHANGED <<jobStatus, recs, queryRow, artifacts, versions, rendered, req>>
      BY <2>2 DEF reviewVars
    <3>2. RowsKeep /\ NewestRevisionIsLive'
      BY <3>1, RowsUnchanged
    <3>3. ReviewTypeOK'
      BY <3>1 DEF ReviewInv, ReviewTypeOK, RecIds
    <3>4. RequestsAreSound'
      BY <3>1, <3>2, <3>3, SoundStays DEF ReviewInv, RequestsAreSound, ReviewTypeOK
    <3>5. FinalizersAreLeft'
      BY <3>1 DEF ReviewInv, FinalizersAreLeft, Finalizers, UnderReview
    <3> QED BY <3>1, <3>2, <3>3, <3>4, <3>5, NotPublished DEF ReviewInv
  <2> QED BY <2>1, <2>2
<1> QED BY InitiallyInv, <1>1, PTL DEF ReviewSpec

-----------------------------------------------------------------------------
(* Theorems. *)

\* The rows and the requests of a review keep to their types.
THEOREM TypeCorrect == ReviewSpec => []ReviewTypeOK
<1>1. ReviewInv => ReviewTypeOK
  BY DEF ReviewInv
<1> QED BY <1>1, ReviewInvariant, PTL

\* Every version hangs together, the dashboard renders the newest one, and only finalizations
\* under way at the first publication publish again, for any number of reviewers who decide,
\* regenerate, retest and finalize between another one's reads and writes.
THEOREM PublicationsAreBacked == ReviewSpec => []VersionsAreBacked
<1>1. ReviewInv => VersionsAreBacked
  <2> SUFFICES ASSUME ReviewInv PROVE VersionsAreBacked
    OBVIOUS
  <2>1. Len(versions) \in Nat /\ Cardinality(Reviewers) \in Nat
    BY ReviewAssumption, FS_CardinalityType DEF ReviewInv, ReviewTypeOK
  <2>2. IsFiniteSet(Finalizers) /\ Cardinality(Finalizers) \in Nat
    BY ReviewAssumption, FS_Subset, FS_CardinalityType DEF Finalizers
  <2>3. Len(versions) <= Cardinality(Reviewers)
    BY <2>1, <2>2 DEF ReviewInv, PublishedWell, FinalizersAreLeft
  <2> QED BY <2>3 DEF ReviewInv, PublishedWell, Backed, VersionsAreBacked
<1> QED BY <1>1, ReviewInvariant, PTL

\* Revisions are numbered without gaps or doubles, and the newest one is never superseded,
\* for any number of concurrent regenerations.
THEOREM RevisionsAreInOrder == ReviewSpec => []NewestRevisionIsLive
<1>1. ReviewInv => NewestRevisionIsLive
  BY DEF ReviewInv
<1> QED BY <1>1, ReviewInvariant, PTL
=============================================================================
