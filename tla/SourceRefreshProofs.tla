-------------------------- MODULE SourceRefreshProofs --------------------------
(***************************************************************************)
(* SourceRefresh for every number of files, runs, workers, requests and    *)
(* deliveries, and every bound: a run is worked on once while nobody alive *)
(* was taken for dead, documents carry their newest content whatever       *)
(* overlaps, and as long as refreshes do not overlap, snapshots follow the *)
(* documents and files that were deleted are hidden.                       *)
(***************************************************************************)
EXTENDS SourceRefresh, FiniteSetTheorems, SequenceTheorems, TLAPS

-----------------------------------------------------------------------------
(* The inductive invariant. *)

RunIds == Runs \cup {NoRun}
WorkerRows ==
  [phase: Phases, msg: RunIds, left: 0..Deliveries, run: RunIds,
   prev: [Locators -> SnapRows \cup {NoRow}], scan: [Locators -> Contents \cup {Absent}],
   stamps: [Locators -> Stamps],
   todo: SUBSET Locators, made: SUBSET (Locators \X Nat), errors: BOOLEAN]
RequestRows == [phase: {"Idle", "Create", "Add", "Record"}, run: RunIds]
Spendings == [writes: 0..MaxWrites, starts: 0..MaxStarts, faults: 0..MaxFaults,
              lapses: 0..MaxLapses, overlapped: BOOLEAN]

RefreshTypes ==
  /\ kind \in Kinds
  /\ file \in [Locators -> Contents \cup {Absent}]
  /\ stamp \in [Locators -> Stamps]
  /\ doc \in [Locators -> DocRows \cup {NoRow}]
  /\ snap \in [Locators -> SnapRows \cup {NoRow}]
  /\ run \in [Runs -> {"QUEUED", "PROCESSING", "FINISHED"}]
  /\ queue \in [RunIds -> [1..Deliveries -> Nat]]
  /\ worker \in [Workers -> WorkerRows]
  /\ request \in [Requests -> RequestRows]
  /\ recovering \in SUBSET Runs
  /\ spent \in Spendings

\* What a worker holds stands for rows that exist.
IsSound(w) ==
  /\ worker[w].phase \notin {"Idle", "Ensure", "Insert"} => worker[w].run \in Runs
  /\ \A l \in worker[w].todo : worker[w].scan[l] # Absent
  /\ \A l \in Locators : worker[w].prev[l] # NoRow => Known(l)
  /\ \A j \in worker[w].made : Known(j[1]) /\ j[2] \in DOMAIN doc[j[1]].versions

WorkersAreSound == \A w \in Workers : IsSound(w)

\* A row of a document has the content of its newest version, each content once.
IsNewest(d) ==
  /\ d.versions # << >>
  /\ d.sum = d.versions[Len(d.versions)].sum
  /\ LET sums == {d.versions[n].sum : n \in DOMAIN d.versions}
     IN IsFiniteSet(sums) /\ Cardinality(sums) = Len(d.versions)

\* Documents and snapshots are written together.
RowsFit ==
  \A l \in Locators : /\ Known(l) <=> snap[l] # NoRow
                      /\ Known(l) => IsNewest(doc[l])

\* A run that somebody works on is not QUEUED, unless it was taken from somebody alive.
AttendedIsClaimed ==
  spent.lapses = 0 => \A w \in Workers : IsRefreshing(w) => run[worker[w].run] # "QUEUED"

OneRefresh ==
  ~spent.overlapped => \A v, w \in Workers : IsRefreshing(v) /\ IsRefreshing(w) => v = w

\* Alone, a worker finds the rows of the files that it has still to do, and of those that it
\* did not see, as it read them.
ScanIsFresh ==
  ~spent.overlapped => \A w \in Workers : worker[w].phase = "Files" =>
    \A l \in Locators :
      l \in worker[w].todo \/ worker[w].scan[l] = Absent => snap[l] = worker[w].prev[l]

RefreshInv ==
  /\ RefreshTypes /\ WorkersAreSound /\ RowsFit
  /\ AttendedIsClaimed /\ OneWorkerPerRun
  /\ OneRefresh /\ ScanIsFresh
  /\ SnapshotsFollowDocuments /\ DeletedFilesAreHidden

-----------------------------------------------------------------------------
(* Rows of documents. *)

Jobs == {"QUEUED", "SENT", "DEAD_LETTER"}

\* Rows of one document with the same contents.
SameContents(d, e) ==
  /\ e.sum = d.sum
  /\ DOMAIN e.versions = DOMAIN d.versions /\ Len(e.versions) = Len(d.versions)
  /\ \A n \in DOMAIN d.versions : e.versions[n].sum = d.versions[n].sum

LEMMA RowActive ==
  ASSUME NEW d \in DocRows, NEW b \in BOOLEAN
  PROVE  /\ [d EXCEPT !.active = b] \in DocRows
         /\ [d EXCEPT !.active = b].active = b
         /\ SameContents(d, [d EXCEPT !.active = b])
BY DEF DocRows, SameContents

LEMMA RowJob ==
  ASSUME NEW d \in DocRows, NEW n \in DOMAIN d.versions, NEW s \in Jobs
  PROVE  /\ [d EXCEPT !.versions[n].job = s] \in DocRows
         /\ [d EXCEPT !.versions[n].job = s].active = d.active
         /\ SameContents(d, [d EXCEPT !.versions[n].job = s])
<1> DEFINE v == [d.versions[n] EXCEPT !.job = s]
           vs == [d.versions EXCEPT ![n] = v]
<1>1. d.versions \in Seq(Versions) /\ n \in 1..Len(d.versions)
      /\ DOMAIN d.versions = 1..Len(d.versions)
  BY DEF DocRows
<1>2. d.versions[n] \in Versions
  BY <1>1
<1>3. v \in Versions /\ v.sum = d.versions[n].sum
  BY <1>2 DEF Versions, Jobs
<1> HIDE DEF v
<1>4. /\ vs \in Seq(Versions) /\ Len(vs) = Len(d.versions)
      /\ \A m \in 1..Len(d.versions) : vs[m] = IF m = n THEN v ELSE d.versions[m]
  BY <1>1, <1>3, ExceptSeq
<1>5. DOMAIN vs = 1..Len(d.versions)
  BY <1>1
<1>6. [d EXCEPT !.versions[n].job = s] = [d EXCEPT !.versions = vs]
  BY DEF v
<1> HIDE DEF vs
<1>7. /\ [d EXCEPT !.versions = vs] \in DocRows /\ [d EXCEPT !.versions = vs].versions = vs
      /\ [d EXCEPT !.versions = vs].sum = d.sum /\ [d EXCEPT !.versions = vs].active = d.active
  BY <1>4 DEF DocRows
<1>8. \A m \in 1..Len(d.versions) : vs[m].sum = d.versions[m].sum
  BY <1>3, <1>4
<1> QED BY <1>1, <1>4, <1>5, <1>6, <1>7, <1>8 DEF SameContents

LEMMA SameStaysNewest ==
  ASSUME NEW d, NEW e, SameContents(d, e), IsNewest(d), d \in DocRows, e \in DocRows
  PROVE  IsNewest(e)
<1>1. /\ d.versions \in Seq(Versions) /\ e.versions \in Seq(Versions)
      /\ Len(d.versions) \in Nat
  BY DEF DocRows
<1>2. d.versions # << >> /\ Len(d.versions) \in DOMAIN d.versions
  BY <1>1 DEF IsNewest
<1>3. e.versions # << >> /\ e.sum = e.versions[Len(e.versions)].sum
  BY <1>1, <1>2 DEF IsNewest, SameContents
<1>4. {e.versions[n].sum : n \in DOMAIN e.versions} = {d.versions[n].sum : n \in DOMAIN d.versions}
  BY DEF SameContents
<1> QED BY <1>3, <1>4 DEF IsNewest, SameContents

\* A new version of a document, and the first of one.
LEMMA RowAppended ==
  ASSUME NEW d \in DocRows, IsNewest(d), NEW v \in Versions,
         v.sum \notin {d.versions[n].sum : n \in DOMAIN d.versions}
  PROVE  LET e == [sum |-> v.sum, active |-> TRUE, versions |-> d.versions \o <<v>>]
         IN /\ e \in DocRows /\ IsNewest(e)
            /\ DOMAIN d.versions \subseteq DOMAIN e.versions
            /\ Len(d.versions) + 1 \in DOMAIN e.versions
<1> DEFINE vs == d.versions \o <<v>>
           sums == {d.versions[n].sum : n \in DOMAIN d.versions}
<1>1. d.versions \in Seq(Versions) /\ <<v>> \in Seq(Versions) /\ Len(<<v>>) = 1 /\ <<v>>[1] = v
  BY DEF DocRows
<1>2. /\ vs \in Seq(Versions) /\ Len(vs) = Len(d.versions) + 1 /\ Len(d.versions) \in Nat
      /\ DOMAIN vs = 1..(Len(d.versions) + 1) /\ DOMAIN d.versions = 1..Len(d.versions)
      /\ vs[Len(d.versions) + 1] = v
      /\ \A n \in 1..Len(d.versions) : vs[n] = d.versions[n]
  BY <1>1
<1> HIDE DEF vs
<1>3. {vs[n].sum : n \in DOMAIN vs} = sums \cup {v.sum}
  <2> DEFINE k == Len(d.versions)
  <2>1. 1..(k + 1) = (1..k) \cup {k + 1}
    <3> HIDE DEF k
    <3>1. k \in Nat
      BY <1>2 DEF k
    <3> QED BY <3>1
  <2>2. {vs[n].sum : n \in 1..k} = {d.versions[n].sum : n \in 1..k}
    BY <1>2
  <2>3. {vs[n].sum : n \in (1..k) \cup {k + 1}} = {vs[n].sum : n \in 1..k} \cup {vs[k + 1].sum}
    OBVIOUS
  <2> QED BY <1>2, <2>1, <2>2, <2>3
<1>4. IsFiniteSet(sums \cup {v.sum})
      /\ Cardinality(sums \cup {v.sum}) = Len(d.versions) + 1
  BY FS_AddElement DEF IsNewest
<1>5. v.sum \in Contents
  BY DEF Versions
<1>6. [sum |-> v.sum, active |-> TRUE, versions |-> vs] \in DocRows
  BY <1>2, <1>5 DEF DocRows
<1>7. IsNewest([sum |-> v.sum, active |-> TRUE, versions |-> vs])
  <2>1. vs # << >>
    BY <1>2
  <2> DEFINE row == [sum |-> v.sum, active |-> TRUE, versions |-> vs]
  <2>2. row.versions = vs /\ row.sum = v.sum
    OBVIOUS
  <2>3. v.sum = vs[Len(vs)].sum
    BY <1>2
  <2>4. LET all == {vs[n].sum : n \in DOMAIN vs} IN IsFiniteSet(all) /\ Cardinality(all) = Len(vs)
    BY <1>2, <1>3, <1>4
  <2> HIDE DEF row, vs
  <2> QED BY <2>1, <2>2, <2>3, <2>4 DEF IsNewest
<1> QED BY <1>2, <1>6, <1>7 DEF vs

LEMMA RowFirst ==
  ASSUME NEW v \in Versions
  PROVE  LET e == [sum |-> v.sum, active |-> TRUE, versions |-> <<v>>]
         IN e \in DocRows /\ IsNewest(e) /\ 1 \in DOMAIN e.versions
<1> DEFINE vs == <<v>>
<1>1. /\ vs \in Seq(Versions) /\ Len(vs) = 1 /\ DOMAIN vs = {1} /\ vs[1] = v
      /\ vs # << >>
  OBVIOUS
<1>2. v.sum \in Contents
  BY DEF Versions
<1> HIDE DEF vs
<1>3. {vs[n].sum : n \in DOMAIN vs} = {v.sum}
  BY <1>1
<1>4. [sum |-> v.sum, active |-> TRUE, versions |-> vs] \in DocRows
  BY <1>1, <1>2 DEF DocRows
<1>5. IsNewest([sum |-> v.sum, active |-> TRUE, versions |-> vs])
  <2>1. IsFiniteSet({v.sum}) /\ Cardinality({v.sum}) = 1
    BY FS_Singleton
  <2> QED BY <1>1, <1>3, <2>1 DEF IsNewest
<1> QED BY <1>1, <1>4, <1>5 DEF vs

-----------------------------------------------------------------------------
(* What a step makes of the rows. *)

\* The rows of documents keep their contents.
DocsSame ==
  /\ doc' \in [Locators -> DocRows \cup {NoRow}]
  /\ \A l \in Locators : /\ Known(l)' <=> Known(l)
                         /\ Known(l) => SameContents(doc[l], doc'[l])

\* Documents stay, and so do their versions.
DocsGrow ==
  /\ doc' \in [Locators -> DocRows \cup {NoRow}]
  /\ \A l \in Locators : Known(l) =>
       Known(l)' /\ DOMAIN doc[l].versions \subseteq DOMAIN doc'[l].versions
  /\ \A l \in Locators : Known(l)' => IsNewest(doc'[l])

LEMMA SameGrow ==
  ASSUME RefreshTypes, RowsFit, DocsSame
  PROVE  DocsGrow
<1> SUFFICES ASSUME NEW l \in Locators, Known(l)
             PROVE  /\ DOMAIN doc[l].versions \subseteq DOMAIN doc'[l].versions
                    /\ IsNewest(doc'[l])
  BY DEF DocsSame, DocsGrow
<1>1. /\ doc[l] \in DocRows /\ doc'[l] \in DocRows /\ SameContents(doc[l], doc'[l])
      /\ IsNewest(doc[l])
  BY DEF RefreshTypes, RowsFit, DocsSame, Known
<1> QED BY <1>1, SameStaysNewest DEF SameContents

LEMMA DocsUnchanged ==
  ASSUME RefreshTypes, RowsFit, UNCHANGED doc
  PROVE  DocsSame /\ DocsGrow
<1>1. DocsSame
  BY DEF RefreshTypes, DocsSame, Known, SameContents
<1> QED BY <1>1, SameGrow

LEMMA IndexJobSet ==
  ASSUME RefreshTypes, RowsFit, NEW l \in Locators, Known(l), NEW n \in DOMAIN doc[l].versions,
         NEW s \in Jobs, SetIndexJob(<<l, n>>, s)
  PROVE  /\ DocsSame
         /\ \A k \in Locators : Known(k) => doc'[k].active = doc[k].active
<1>1. doc[l] \in DocRows
  BY DEF RefreshTypes, Known
<1>2. doc' = [doc EXCEPT ![l] = [doc[l] EXCEPT !.versions[n].job = s]]
  BY DEF SetIndexJob, RefreshTypes
<1> DEFINE e == [doc[l] EXCEPT !.versions[n].job = s]
<1>3. e \in DocRows /\ e.active = doc[l].active /\ SameContents(doc[l], e)
  BY <1>1, RowJob
<1>4. e # NoRow
  BY <1>3, RefreshAssumption
<1>5. doc' = [doc EXCEPT ![l] = e]
  BY <1>2
<1> HIDE DEF e
<1>6. /\ doc'[l] = e
      /\ \A k \in Locators : k # l => doc'[k] = doc[k]
      /\ doc' \in [Locators -> DocRows \cup {NoRow}]
  BY <1>3, <1>5 DEF RefreshTypes
<1>7. \A k \in Locators : SameContents(doc[k], doc[k])
  BY DEF SameContents
<1> QED BY <1>3, <1>4, <1>6, <1>7 DEF DocsSame, Known

LEMMA Reactivated ==
  ASSUME RefreshTypes, RowsFit, NEW w \in Workers, NEW l \in Locators, reactivateFile(w, l)
  PROVE  /\ DocsSame
         /\ Known(l) /\ doc[l].sum = StoredSum(w, l)
         /\ \A k \in Locators : k # l => doc'[k] = doc[k]
<1>1. /\ Known(l) /\ doc[l].sum = StoredSum(w, l)
      /\ doc' = [doc EXCEPT ![l] = [doc[l] EXCEPT !.active = TRUE]]
  BY DEF reactivateFile, Reactivates, RefreshTypes
<1>2. doc[l] \in DocRows
  BY <1>1 DEF RefreshTypes, Known
<1> DEFINE e == [doc[l] EXCEPT !.active = TRUE]
<1>3. e \in DocRows /\ SameContents(doc[l], e)
  BY <1>2, RowActive
<1>4. doc' = [doc EXCEPT ![l] = e] /\ e # NoRow
  BY <1>1, <1>3, RefreshAssumption
<1> HIDE DEF e
<1>5. /\ doc'[l] = e
      /\ \A k \in Locators : k # l => doc'[k] = doc[k]
      /\ doc' \in [Locators -> DocRows \cup {NoRow}]
  BY <1>3, <1>4 DEF RefreshTypes
<1>6. \A k \in Locators : SameContents(doc[k], doc[k])
  BY DEF SameContents
<1> QED BY <1>1, <1>3, <1>4, <1>5, <1>6 DEF DocsSame, Known

LEMMA Deactivated ==
  ASSUME RefreshTypes, RowsFit, NEW w \in Workers, IsSound(w), deactivate(w)
  PROVE  /\ DocsSame
         /\ \A l \in Locators : Known(l) =>
              doc'[l].active = (IF l \in Deleted(w) THEN FALSE ELSE doc[l].active)
<1>1. doc' = [l \in Locators |-> IF l \in Deleted(w) THEN [doc[l] EXCEPT !.active = FALSE]
                                 ELSE doc[l]]
  BY DEF deactivate
<1>2. \A l \in Locators : l \in Deleted(w) => doc[l] \in DocRows
  BY DEF Deleted, IsSound, RefreshTypes, Known
<1>3. \A l \in Locators : l \in Deleted(w) =>
        /\ doc'[l] \in DocRows /\ doc'[l] # NoRow /\ doc'[l].active = FALSE
        /\ SameContents(doc[l], doc'[l])
  BY <1>1, <1>2, RowActive, RefreshAssumption
<1>4. \A l \in Locators : /\ l \notin Deleted(w) => doc'[l] = doc[l]
                          /\ SameContents(doc[l], doc[l])
  BY <1>1 DEF SameContents
<1>5. doc' \in [Locators -> DocRows \cup {NoRow}]
  BY <1>1, <1>3, <1>4 DEF RefreshTypes
<1> QED BY <1>2, <1>3, <1>4, <1>5, RefreshAssumption DEF DocsSame, Known

LEMMA VersionStored ==
  ASSUME RefreshTypes, RowsFit, NEW w \in Workers, NEW l \in Locators, IsSound(w),
         storeFile(w, l)
  PROVE  /\ DocsGrow
         /\ Known(l)' /\ doc'[l].sum = StoredSum(w, l) /\ doc'[l].active = TRUE
         /\ NewestVersion(l) \in DOMAIN doc'[l].versions /\ NewestVersion(l) \in Nat
         /\ \A k \in Locators : k # l => doc'[k] = doc[k]
<1> DEFINE v == Version(StoredSum(w, l), file[l])
           vs == (IF Known(l) THEN doc[l].versions ELSE << >>) \o <<v>>
           e == [sum |-> v.sum, active |-> TRUE, versions |-> vs]
<1>1. file[l] \in Contents /\ StoredSum(w, l) \in Contents
  <2>1. /\ file[l] \in Contents \cup {Absent} /\ file[l] # Absent
        /\ worker[w].scan[l] \in Contents \cup {Absent} /\ worker[w].scan[l] # Absent
    BY DEF RefreshTypes, WorkerRows, storeFile, IsSound
  <2> QED BY <2>1 DEF StoredSum
<1>2. v \in Versions /\ v.sum = StoredSum(w, l)
  BY <1>1 DEF Version, Versions
<1>3. doc' = [doc EXCEPT ![l] = e]
  BY <1>2 DEF storeFile, createVersion
<1>4. /\ e \in DocRows /\ IsNewest(e) /\ NewestVersion(l) \in DOMAIN vs
      /\ NewestVersion(l) \in Nat
      /\ Known(l) => DOMAIN doc[l].versions \subseteq DOMAIN vs
  <2>1. CASE Known(l)
    <3>1. doc[l] \in DocRows /\ IsNewest(doc[l]) /\ Len(doc[l].versions) \in Nat
      BY <2>1 DEF RefreshTypes, RowsFit, Known, DocRows
    <3>2. v.sum \notin {doc[l].versions[n].sum : n \in DOMAIN doc[l].versions}
      BY <1>2, <2>1 DEF storeFile, ViolatesUnique, Sums
    <3>3. vs = doc[l].versions \o <<v>>
      BY <2>1
    <3> HIDE DEF v
    <3>4. /\ e \in DocRows /\ IsNewest(e) /\ DOMAIN doc[l].versions \subseteq DOMAIN vs
          /\ Len(doc[l].versions) + 1 \in DOMAIN vs
      BY <1>2, <3>1, <3>2, <3>3, RowAppended
    <3> QED BY <2>1, <3>1, <3>4 DEF NewestVersion
  <2>2. CASE ~Known(l)
    <3>1. vs = <<v>>
      BY <2>2
    <3> HIDE DEF v
    <3> QED BY <1>2, <2>2, <3>1, RowFirst DEF NewestVersion
  <2> QED BY <2>1, <2>2
<1>5. e # NoRow /\ e.sum = StoredSum(w, l) /\ e.active = TRUE /\ e.versions = vs
  BY <1>2, <1>4, RefreshAssumption
<1> HIDE DEF e, vs, v
<1>6. /\ doc'[l] = e
      /\ \A k \in Locators : k # l => doc'[k] = doc[k]
      /\ doc' \in [Locators -> DocRows \cup {NoRow}]
  BY <1>3, <1>4 DEF RefreshTypes
<1>7. \A k \in Locators : Known(k)' => IsNewest(doc'[k])
  BY <1>4, <1>6 DEF RowsFit, Known
<1> QED BY <1>4, <1>5, <1>6, <1>7 DEF DocsGrow, Known

LEMMA SnapshotWritten ==
  ASSUME RefreshTypes, NEW w \in Workers, NEW l \in worker[w].todo, IsSound(w),
         upsertSnapshot(w, l)
  PROVE  /\ l \in Locators
         /\ snap' \in [Locators -> SnapRows \cup {NoRow}]
         /\ snap'[l] # NoRow /\ snap'[l].sum = worker[w].scan[l]
         /\ \A k \in Locators : k # l => snap'[k] = snap[k]
<1>1. l \in Locators /\ worker[w].scan[l] \in Contents /\ worker[w].stamps[l] \in Stamps
  BY DEF RefreshTypes, WorkerRows, IsSound
<1>2. [sum |-> worker[w].scan[l], stamp |-> worker[w].stamps[l], status |-> "ACTIVE"] \in SnapRows
  BY <1>1 DEF SnapRows
<1> QED BY <1>1, <1>2, RefreshAssumption DEF upsertSnapshot, RefreshTypes

LEMMA SnapshotsMarked ==
  ASSUME RefreshTypes, RowsFit, NEW w \in Workers, IsSound(w), markDeleted(w)
  PROVE  /\ snap' \in [Locators -> SnapRows \cup {NoRow}]
         /\ \A l \in Locators : /\ snap'[l] # NoRow <=> snap[l] # NoRow
                                /\ snap[l] # NoRow => snap'[l].sum = snap[l].sum
<1>1. \A l \in Locators : l \in Deleted(w) => snap[l] \in SnapRows
  BY DEF Deleted, IsSound, RowsFit, RefreshTypes
<1>2. \A l \in Locators :
        snap'[l] = IF l \in Deleted(w) THEN [snap[l] EXCEPT !.status = "DELETED"] ELSE snap[l]
  BY DEF markDeleted
<1>3. \A l \in Locators : l \in Deleted(w) =>
        /\ snap'[l] \in SnapRows /\ snap'[l].sum = snap[l].sum /\ snap'[l] # NoRow
  <2>1. \A s \in SnapRows : /\ [s EXCEPT !.status = "DELETED"] \in SnapRows
                            /\ [s EXCEPT !.status = "DELETED"].sum = s.sum
    BY DEF SnapRows
  <2>2. NoRow \notin SnapRows
    BY RefreshAssumption
  <2> SUFFICES ASSUME NEW l \in Locators, l \in Deleted(w)
               PROVE  /\ snap'[l] \in SnapRows /\ snap'[l].sum = snap[l].sum /\ snap'[l] # NoRow
    OBVIOUS
  <2>3. snap[l] \in SnapRows /\ snap'[l] = [snap[l] EXCEPT !.status = "DELETED"]
    BY <1>1, <1>2
  <2>4. snap'[l] \in SnapRows /\ snap'[l].sum = snap[l].sum
    BY <2>1, <2>3
  <2> QED BY <2>2, <2>4
<1>4. snap' \in [Locators -> SnapRows \cup {NoRow}]
  BY <1>2, <1>3 DEF markDeleted, RefreshTypes
<1> QED BY <1>1, <1>2, <1>3, <1>4, RefreshAssumption

LEMMA IndexJobsAreSet ==
  ASSUME RefreshTypes, RowsFit, NEW w \in Workers, IsSound(w), NEW j \in worker[w].made,
         NEW s \in Jobs, SetIndexJob(j, s)
  PROVE  /\ DocsSame
         /\ \A k \in Locators : Known(k) => doc'[k].active = doc[k].active
<1>1. /\ j = <<j[1], j[2]>> /\ j[1] \in Locators /\ Known(j[1])
      /\ j[2] \in DOMAIN doc[j[1]].versions
  BY DEF RefreshTypes, WorkerRows, IsSound
<1> QED BY <1>1, IndexJobSet

LEMMA RowsStep ==
  RefreshTypes /\ WorkersAreSound /\ RowsFit /\ [Next]_vars =>
    DocsGrow /\ RowsFit' /\ snap' \in [Locators -> SnapRows \cup {NoRow}]
<1> SUFFICES ASSUME RefreshTypes, WorkersAreSound, RowsFit, [Next]_vars
             PROVE  /\ DocsGrow /\ RowsFit'
                    /\ snap' \in [Locators -> SnapRows \cup {NoRow}]
  OBVIOUS
<1> DEFINE Goal == /\ DocsGrow /\ RowsFit'
                   /\ snap' \in [Locators -> SnapRows \cup {NoRow}]
<1>1. \A w \in Workers : IsSound(w) /\ worker[w].todo \subseteq Locators
  BY DEF WorkersAreSound, RefreshTypes, WorkerRows
<1>2. ASSUME DocsSame,
             \A l \in Locators : snap'[l] # NoRow <=> snap[l] # NoRow
      PROVE  DocsGrow /\ RowsFit'
  BY <1>2, SameGrow DEF RowsFit, DocsGrow, DocsSame
<1>3. ASSUME UNCHANGED snap, DocsSame PROVE Goal
  BY <1>2, <1>3 DEF RefreshTypes
<1>4. ASSUME UNCHANGED <<doc, snap>> PROVE Goal
  BY <1>3, <1>4, DocsUnchanged
<1>5. ASSUME NEW w \in Workers, NEW l \in Locators, keepFile(w, l) PROVE Goal
  <2>1. /\ snap' \in [Locators -> SnapRows \cup {NoRow}]
        /\ snap'[l] # NoRow /\ \A k \in Locators : k # l => snap'[k] = snap[k]
    BY <1>1, <1>5, SnapshotWritten DEF keepFile
  <2>2. snap[l] # NoRow
    BY <1>1, <1>5 DEF keepFile, Unchanged, IsSound, RowsFit
  <2>3. DocsSame
    BY <1>5, DocsUnchanged DEF keepFile
  <2> QED BY <1>2, <2>1, <2>2, <2>3
<1>6. ASSUME NEW w \in Workers, NEW l \in Locators, reactivateFile(w, l) PROVE Goal
  <2>1. /\ snap' \in [Locators -> SnapRows \cup {NoRow}]
        /\ snap'[l] # NoRow /\ \A k \in Locators : k # l => snap'[k] = snap[k]
    BY <1>1, <1>6, SnapshotWritten DEF reactivateFile
  <2>2. snap[l] # NoRow /\ DocsSame
    BY <1>6, Reactivated DEF RowsFit
  <2> QED BY <1>2, <2>1, <2>2
<1>7. ASSUME NEW w \in Workers, NEW l \in Locators, storeFile(w, l) PROVE Goal
  <2>1. /\ snap' \in [Locators -> SnapRows \cup {NoRow}]
        /\ snap'[l] # NoRow /\ \A k \in Locators : k # l => snap'[k] = snap[k]
    BY <1>1, <1>7, SnapshotWritten DEF storeFile
  <2>2. DocsGrow /\ Known(l)' /\ \A k \in Locators : k # l => doc'[k] = doc[k]
    BY <1>1, <1>7, VersionStored
  <2>3. RowsFit'
    BY <2>1, <2>2 DEF RowsFit, DocsGrow, Known
  <2> QED BY <2>1, <2>2, <2>3
<1>8. ASSUME NEW w \in Workers, deactivate(w) PROVE Goal
  BY <1>1, <1>3, <1>8, Deactivated DEF deactivate
<1>9. ASSUME NEW w \in Workers, markDeleted(w) PROVE Goal
  BY <1>1, <1>2, <1>9, SnapshotsMarked, DocsUnchanged DEF markDeleted
<1>10. ASSUME NEW w \in Workers, enqueueIndex(w) \/ enqueueIndexFails(w) PROVE Goal
  <2>1. DocsSame /\ snap' = snap
    BY <1>1, <1>10, IndexJobsAreSet DEF enqueueIndex, enqueueIndexFails, Jobs
  <2> QED BY <1>3, <2>1
<1>11. ASSUME NEW l \in Locators, recoverJob(l) PROVE Goal
  <2>1. DocsSame /\ snap' = snap
    BY <1>11, IndexJobSet DEF recoverJob, Jobs
  <2> QED BY <1>3, <2>1
<1>12. ASSUME NEW l \in Locators, writeFile(l) \/ deleteFile(l) PROVE Goal
  BY <1>4, <1>12 DEF writeFile, deleteFile, Change
<1>13. ASSUME NEW q \in Requests,
              startCheck(q) \/ RequestStep(q) \/ startFails(q) \/ requestDies(q)
       PROVE  Goal
  BY <1>4, <1>13 DEF startCheck, RequestStep, startCreate, startAdd, startRecord, startFails,
                     requestDies
<1>14. ASSUME NEW w \in Workers, NEW m \in Runs \cup {NoRun}, take(w, m) PROVE Goal
  BY <1>4, <1>14 DEF take
<1>15. ASSUME NEW w \in Workers,
              \/ ensureRunFind(w) \/ ensureRunInsert(w) \/ claim(w) \/ skip(w) \/ scanFolder(w)
              \/ finish(w) \/ fail(w) \/ refreshThrows(w) \/ workerDies(w)
       PROVE  Goal
  BY <1>4, <1>15 DEF ensureRunFind, ensureRunInsert, claim, skip, scanFolder, finish, fail,
                     refreshThrows, workerDies
<1>16. ASSUME NEW w \in Workers, NEW l \in Locators, refuseFile(w, l) \/ fileFails(w, l)
       PROVE  Goal
  BY <1>4, <1>16 DEF refuseFile, fileFails
<1>17. ASSUME NEW r \in Runs, recoverRun(r) \/ recoverAdd(r) \/ recoverAddFails(r) PROVE Goal
  BY <1>4, <1>17 DEF recoverRun, recoverAdd, recoverAddFails
<1>18. ASSUME tick \/ UNCHANGED vars PROVE Goal
  BY <1>4, <1>18 DEF tick, vars
<1> HIDE DEF Goal
<1>19. ASSUME NEW w \in Workers, WorkerStep(w) PROVE Goal
  BY <1>5, <1>6, <1>7, <1>8, <1>9, <1>10, <1>15, <1>16, <1>19 DEF WorkerStep
<1>20. Goal
  BY <1>10, <1>11, <1>12, <1>13, <1>14, <1>15, <1>16, <1>17, <1>18, <1>19 DEF Next
<1> QED BY <1>20 DEF Goal

-----------------------------------------------------------------------------
(* Types of the other rows. *)

LEMMA Spends ==
  ASSUME RefreshTypes
  PROVE  /\ CountFault => spent' \in Spendings /\ spent'.lapses = spent.lapses
                          /\ spent'.overlapped = spent.overlapped
         /\ CountLapse => spent' \in Spendings /\ spent'.lapses # 0
                          /\ spent'.overlapped = spent.overlapped
<1> USE RefreshAssumption
<1>1. spent \in Spendings
  BY DEF RefreshTypes
<1>2. ASSUME CountFault
      PROVE  /\ spent' \in Spendings /\ spent'.lapses = spent.lapses
             /\ spent'.overlapped = spent.overlapped
  <2>1. spent.faults + 1 \in 0..MaxFaults
    BY <1>1, <1>2 DEF CountFault, Spendings
  <2> QED BY <1>1, <1>2, <2>1 DEF CountFault, Spendings
<1>3. ASSUME CountLapse
      PROVE  /\ spent' \in Spendings /\ spent'.lapses # 0
             /\ spent'.overlapped = spent.overlapped
  <2>1. spent.lapses + 1 \in 0..MaxLapses /\ spent.lapses + 1 # 0
    BY <1>1, <1>3 DEF CountLapse, Spendings
  <2> QED BY <1>1, <1>3, <2>1 DEF CountLapse, Spendings
<1> QED BY <1>2, <1>3

LEMMA QueueChanges ==
  ASSUME RefreshTypes
  PROVE  /\ \A r \in RunIds : Added(r) \in [RunIds -> [1..Deliveries -> Nat]]
         /\ \A w \in Workers : Redelivered(w) \in [RunIds -> [1..Deliveries -> Nat]]
<1>1. \A r \in RunIds, n \in 1..Deliveries :
        [queue EXCEPT ![r][n] = @ + 1] \in [RunIds -> [1..Deliveries -> Nat]]
  <2> SUFFICES ASSUME NEW r \in RunIds, NEW n \in 1..Deliveries
               PROVE  [queue EXCEPT ![r][n] = @ + 1] \in [RunIds -> [1..Deliveries -> Nat]]
    OBVIOUS
  <2>1. queue[r] \in [1..Deliveries -> Nat]
    BY DEF RefreshTypes
  <2>2. queue[r][n] \in Nat
    BY <2>1
  <2> QED BY <2>1, <2>2 DEF RefreshTypes
<1>2. Deliveries \in 1..Deliveries
  BY RefreshAssumption
<1>3. \A w \in Workers : /\ worker[w].msg \in RunIds
                         /\ worker[w].left # 0 => worker[w].left \in 1..Deliveries
  BY RefreshAssumption DEF RefreshTypes, WorkerRows
<1>4. queue \in [RunIds -> [1..Deliveries -> Nat]]
  BY DEF RefreshTypes
<1> QED BY <1>1, <1>2, <1>3, <1>4 DEF Added, Redelivered

LEMMA PlainTypesStep ==
  RefreshTypes /\ [Next]_vars =>
    /\ kind' \in Kinds
    /\ file' \in [Locators -> Contents \cup {Absent}]
    /\ stamp' \in [Locators -> Stamps]
    /\ run' \in [Runs -> {"QUEUED", "PROCESSING", "FINISHED"}]
    /\ queue' \in [RunIds -> [1..Deliveries -> Nat]]
    /\ request' \in [Requests -> RequestRows]
    /\ recovering' \in SUBSET Runs
    /\ spent' \in Spendings
<1> DEFINE Goal ==
      /\ kind' \in Kinds
      /\ file' \in [Locators -> Contents \cup {Absent}]
      /\ stamp' \in [Locators -> Stamps]
      /\ run' \in [Runs -> {"QUEUED", "PROCESSING", "FINISHED"}]
      /\ queue' \in [RunIds -> [1..Deliveries -> Nat]]
      /\ request' \in [Requests -> RequestRows]
      /\ recovering' \in SUBSET Runs
      /\ spent' \in Spendings
<1> SUFFICES ASSUME RefreshTypes, [Next]_vars PROVE Goal
  OBVIOUS
<1> USE RefreshAssumption
<1>1. /\ kind \in Kinds
      /\ file \in [Locators -> Contents \cup {Absent}]
      /\ stamp \in [Locators -> Stamps]
      /\ run \in [Runs -> {"QUEUED", "PROCESSING", "FINISHED"}]
      /\ queue \in [RunIds -> [1..Deliveries -> Nat]]
      /\ request \in [Requests -> RequestRows]
      /\ recovering \in SUBSET Runs
      /\ spent \in Spendings
  BY DEF RefreshTypes
<1>2. IdleRequest \in RequestRows
  BY DEF IdleRequest, RequestRows, RunIds
<1>3. CASE UNCHANGED <<kind, file, stamp, run, queue, request, recovering, spent>>
  BY <1>1, <1>3
<1>4. ASSUME NEW l \in Locators, writeFile(l) \/ deleteFile(l) PROVE Goal
  <2>1. PICK c \in Contents \cup {Absent}, s \in NextStamps(l) \cup {stamp[l]} : Change(l, c, s)
    BY <1>4 DEF writeFile, deleteFile
  <2>2. spent.writes + 1 \in 0..MaxWrites
    BY <1>1, <2>1 DEF Change, Spendings
  <2>4. s \in Stamps
    BY <1>1, <2>1, <2>2 DEF NextStamps, KeptStamps, Stamps
  <2>3. spent' \in Spendings
    BY <1>1, <2>1, <2>2 DEF Change, Spendings
  <2> QED BY <1>1, <2>1, <2>3, <2>4 DEF Change
<1>5. ASSUME NEW q \in Requests, startCheck(q) PROVE Goal
  <2>1. spent.starts + 1 \in 0..MaxStarts
    BY <1>1, <1>5 DEF startCheck, Spendings
  <2>2. spent' \in Spendings
    BY <1>1, <1>5, <2>1 DEF startCheck, Spendings
  <2>3. [request[q] EXCEPT !.phase = "Create"] \in RequestRows
    BY <1>1 DEF RequestRows
  <2>4. request' = [request EXCEPT ![q] = [request[q] EXCEPT !.phase = "Create"]]
    BY <1>1, <1>5 DEF startCheck
  <2> QED BY <1>1, <1>5, <2>2, <2>3, <2>4 DEF startCheck
<1>6. ASSUME NEW q \in Requests, startCreate(q) PROVE Goal
  BY <1>1, <1>6 DEF startCreate, RequestRows, RunIds
<1>7. ASSUME NEW q \in Requests, startAdd(q) PROVE Goal
  <2>1. request[q].run \in RunIds /\ [request[q] EXCEPT !.phase = "Record"] \in RequestRows
    BY <1>1 DEF RequestRows
  <2>2. request' = [request EXCEPT ![q] = [request[q] EXCEPT !.phase = "Record"]]
    BY <1>1, <1>7 DEF startAdd
  <2> QED BY <1>1, <1>7, <2>1, <2>2, QueueChanges DEF startAdd
<1>8. ASSUME NEW q \in Requests, startRecord(q) \/ startFails(q) \/ requestDies(q) PROVE Goal
  <2>1. CASE startRecord(q)
    BY <1>1, <1>2, <2>1, Spends DEF startRecord
  <2>2. CASE startFails(q)
    BY <1>1, <1>2, <2>2, Spends DEF startFails
  <2>3. CASE requestDies(q)
    BY <1>1, <1>2, <2>3, Spends DEF requestDies
  <2> QED BY <1>8, <2>1, <2>2, <2>3
<1>9. CASE tick
  BY <1>1, <1>9, QueueChanges DEF tick, RunIds
<1>10. ASSUME NEW w \in Workers, NEW m \in Runs \cup {NoRun}, take(w, m) PROVE Goal
  <2>1. PICK n \in 1..Deliveries : queue[m][n] > 0 /\ queue' = [queue EXCEPT ![m][n] = @ - 1]
    BY <1>10 DEF take
  <2>2. m \in RunIds /\ queue[m] \in [1..Deliveries -> Nat] /\ queue[m][n] - 1 \in Nat
    BY <1>1, <2>1 DEF RunIds
  <2>3. queue' \in [RunIds -> [1..Deliveries -> Nat]]
    BY <1>1, <2>1, <2>2
  <2> QED BY <1>1, <1>10, <2>3 DEF take
<1>11. ASSUME NEW w \in Workers,
              ensureRunInsert(w) \/ finish(w) \/ fail(w) \/ workerDies(w) \/ refreshThrows(w)
       PROVE  Goal
  <2>1. CASE ensureRunInsert(w)
    BY <1>1, <2>1 DEF ensureRunInsert
  <2>2. CASE finish(w)
    BY <1>1, <2>2 DEF finish
  <2>3. CASE fail(w)
    BY <1>1, <2>3, QueueChanges DEF fail
  <2>4. CASE workerDies(w)
    BY <1>1, <2>4, Spends, QueueChanges DEF workerDies
  <2>5. CASE refreshThrows(w)
    BY <1>1, <2>5, Spends, QueueChanges DEF refreshThrows
  <2> QED BY <1>11, <2>1, <2>2, <2>3, <2>4, <2>5
<1>12. ASSUME NEW w \in Workers, claim(w) PROVE Goal
  <2>1. PICK b \in BOOLEAN : spent' = [spent EXCEPT !.overlapped = b]
    <3>1. (spent.overlapped \/ \E v \in Workers : IsRefreshing(v)) \in BOOLEAN
      OBVIOUS
    <3> QED BY <1>12, <3>1 DEF claim
  <2>2. spent' \in Spendings
    BY <1>1, <2>1 DEF Spendings
  <2> QED BY <1>1, <1>12, <2>2 DEF claim
<1>13. ASSUME NEW w \in Workers,
              \/ ensureRunFind(w) \/ skip(w) \/ scanFolder(w) \/ deactivate(w) \/ markDeleted(w)
              \/ enqueueIndex(w) \/ enqueueIndexFails(w)
       PROVE  Goal
  BY <1>1, <1>3, <1>13, Spends DEF ensureRunFind, skip, scanFolder, deactivate, markDeleted,
     enqueueIndex, enqueueIndexFails
<1>14. ASSUME NEW w \in Workers, NEW l \in Locators,
              \/ keepFile(w, l) \/ reactivateFile(w, l) \/ storeFile(w, l) \/ refuseFile(w, l)
              \/ fileFails(w, l)
       PROVE  Goal
  BY <1>1, <1>3, <1>14, Spends DEF keepFile, reactivateFile, storeFile, refuseFile, fileFails
<1>15. ASSUME NEW r \in Runs, recoverRun(r) \/ recoverAdd(r) \/ recoverAddFails(r) PROVE Goal
  <2>1. r \in RunIds
    BY DEF RunIds
  <2>2. CASE recoverRun(r)
    <3>1. spent' \in Spendings
      BY <1>1, <2>2, Spends DEF recoverRun
    <3> QED BY <1>1, <2>2, <3>1 DEF recoverRun
  <2>3. CASE recoverAdd(r)
    BY <1>1, <2>1, <2>3, QueueChanges DEF recoverAdd
  <2>4. CASE recoverAddFails(r)
    BY <1>1, <2>4, Spends DEF recoverAddFails
  <2> QED BY <1>15, <2>2, <2>3, <2>4
<1>16. ASSUME NEW l \in Locators, recoverJob(l) PROVE Goal
  <2>1. spent' \in Spendings
    BY <1>1, <1>16, Spends DEF recoverJob
  <2> QED BY <1>1, <1>16, <2>1 DEF recoverJob
<1>17. CASE UNCHANGED vars
  BY <1>1, <1>17 DEF vars
<1> HIDE DEF Goal
<1>18. ASSUME NEW w \in Workers, WorkerStep(w) PROVE Goal
  BY <1>11, <1>12, <1>13, <1>14, <1>18 DEF WorkerStep
<1>19. ASSUME NEW q \in Requests, RequestStep(q) PROVE Goal
  BY <1>6, <1>7, <1>8, <1>19 DEF RequestStep
<1> QED BY <1>4, <1>5, <1>8, <1>9, <1>10, <1>11, <1>13, <1>14, <1>15, <1>16, <1>17, <1>18, <1>19
           DEF Next

-----------------------------------------------------------------------------
(* What a step makes of a worker. *)

WorkerActs(w) ==
  \/ \E m \in Runs \cup {NoRun} : take(w, m)
  \/ WorkerStep(w)
  \/ \E l \in Locators : fileFails(w, l)
  \/ enqueueIndexFails(w) \/ refreshThrows(w) \/ workerDies(w)

\* One worker moves; it becomes a refreshing one by a claim, has files to do after a scan, and
\* has done its files by deactivate.
Effect(w) ==
  /\ worker' \in [Workers -> WorkerRows]
  /\ WorkersAreSound'
  /\ \A v \in Workers : v # w => worker'[v] = worker[v]
  /\ IsRefreshing(w)' => worker'[w].run = worker[w].run /\ (IsRefreshing(w) \/ claim(w))
  /\ worker'[w].phase = "Files" =>
       \/ scanFolder(w) /\ worker'[w].prev = snap
       \/ /\ worker[w].phase = "Files" /\ worker'[w].todo \subseteq worker[w].todo
          /\ worker'[w].prev = worker[w].prev /\ worker'[w].scan = worker[w].scan
  /\ worker'[w].phase \in {"MarkDeleted", "Enqueue"} =>
       /\ worker'[w].scan = worker[w].scan
       /\ worker[w].phase \in {"MarkDeleted", "Enqueue"} \/ deactivate(w)

LEMMA WorkerSet ==
  ASSUME RefreshTypes, WorkersAreSound, DocsGrow,
         NEW w \in Workers, NEW x \in WorkerRows, worker' = [worker EXCEPT ![w] = x],
         x.phase \notin {"Idle", "Ensure", "Insert"} => x.run \in Runs,
         \A l \in x.todo : x.scan[l] # Absent,
         \A l \in Locators : x.prev[l] # NoRow => Known(l)',
         \A j \in x.made : Known(j[1])' /\ j[2] \in DOMAIN doc'[j[1]].versions
  PROVE  /\ worker' \in [Workers -> WorkerRows] /\ WorkersAreSound'
         /\ worker'[w] = x
         /\ \A v \in Workers : v # w => worker'[v] = worker[v]
<1>1. /\ worker' \in [Workers -> WorkerRows] /\ worker'[w] = x
      /\ \A v \in Workers : v # w => worker'[v] = worker[v]
  BY DEF RefreshTypes
<1>2. IsSound(w)'
  BY <1>1 DEF IsSound
<1>3. ASSUME NEW v \in Workers, v # w PROVE IsSound(v)'
  <2>1. IsSound(v) /\ worker'[v] = worker[v] /\ worker[v] \in WorkerRows
    BY <1>1, <1>3 DEF WorkersAreSound, RefreshTypes
  <2>2. \A j \in worker[v].made : j[1] \in Locators
    BY <2>1 DEF WorkerRows
  <2> QED BY <2>1, <2>2 DEF IsSound, DocsGrow
<1> QED BY <1>1, <1>2, <1>3 DEF WorkersAreSound

LEMMA WorkerReset ==
  ASSUME RefreshTypes, WorkersAreSound, DocsGrow,
         NEW w \in Workers, worker' = [worker EXCEPT ![w] = IdleWorker]
  PROVE  Effect(w)
<1>1. IdleWorker \in WorkerRows
  BY RefreshAssumption DEF IdleWorker, WorkerRows, Phases, RunIds, Stamps
<1>2. /\ IdleWorker.phase = "Idle" /\ IdleWorker.todo = {} /\ IdleWorker.made = {}
      /\ \A l \in Locators : IdleWorker.prev[l] = NoRow
  BY DEF IdleWorker
<1>3. /\ worker' \in [Workers -> WorkerRows] /\ WorkersAreSound'
      /\ worker'[w] = IdleWorker
      /\ \A v \in Workers : v # w => worker'[v] = worker[v]
  BY <1>1, <1>2, WorkerSet
<1> QED BY <1>2, <1>3 DEF Effect, IsRefreshing

\* A worker keeps its run and forgets some of what it has read.
LEMMA WorkerKeeps ==
  ASSUME RefreshTypes, WorkersAreSound, DocsGrow,
         NEW w \in Workers, NEW x \in WorkerRows, worker' = [worker EXCEPT ![w] = x],
         x.run = worker[w].run, x.run \in Runs \/ x.phase = "Insert",
         x.scan = worker[w].scan, x.todo \subseteq worker[w].todo,
         \A l \in Locators : x.prev[l] # NoRow => worker[w].prev[l] # NoRow,
         \A j \in x.made : \/ j \in worker[w].made
                           \/ Known(j[1])' /\ j[2] \in DOMAIN doc'[j[1]].versions
  PROVE  /\ worker' \in [Workers -> WorkerRows] /\ WorkersAreSound'
         /\ worker'[w] = x
         /\ \A v \in Workers : v # w => worker'[v] = worker[v]
<1>1. IsSound(w) /\ worker[w] \in WorkerRows
  BY DEF WorkersAreSound, RefreshTypes
<1>2. \A j \in worker[w].made : /\ j[1] \in Locators
                                /\ Known(j[1])' /\ j[2] \in DOMAIN doc'[j[1]].versions
  BY <1>1 DEF IsSound, WorkerRows, DocsGrow
<1>3. \A l \in Locators : x.prev[l] # NoRow => Known(l)'
  BY <1>1 DEF IsSound, DocsGrow
<1>4. \A l \in x.todo : x.scan[l] # Absent
  BY <1>1 DEF IsSound
<1>5. \A j \in x.made : Known(j[1])' /\ j[2] \in DOMAIN doc'[j[1]].versions
  BY <1>2
<1> QED BY <1>3, <1>4, <1>5, WorkerSet

LEMMA EffectOfClaiming ==
  ASSUME RefreshTypes, WorkersAreSound, RowsFit, DocsGrow, NEW w \in Workers,
         \/ \E m \in Runs \cup {NoRun} : take(w, m)
         \/ ensureRunFind(w) \/ ensureRunInsert(w) \/ claim(w) \/ skip(w) \/ scanFolder(w)
  PROVE  Effect(w)
<1>1. IsSound(w) /\ worker[w] \in WorkerRows
  BY DEF WorkersAreSound, RefreshTypes
<1>2. ASSUME NEW m \in Runs \cup {NoRun}, take(w, m) PROVE Effect(w)
  <2>1. PICK n \in 1..Deliveries : worker' = [worker EXCEPT ![w] =
            [IdleWorker EXCEPT !.phase = IF m = NoRun THEN "Ensure" ELSE "Claim",
                               !.msg = IF n = 1 THEN NoRun ELSE m, !.left = n - 1, !.run = m]]
    BY <1>2 DEF take
  <2> DEFINE x == [IdleWorker EXCEPT !.phase = IF m = NoRun THEN "Ensure" ELSE "Claim",
                               !.msg = IF n = 1 THEN NoRun ELSE m, !.left = n - 1, !.run = m]
  <2>2. n - 1 \in 0..Deliveries /\ m \in RunIds /\ (IF n = 1 THEN NoRun ELSE m) \in RunIds
        /\ (IF m = NoRun THEN "Ensure" ELSE "Claim") \in Phases
    BY RefreshAssumption DEF RunIds, Phases
  <2>3. x \in WorkerRows
    <3>1. IdleWorker \in WorkerRows
      BY RefreshAssumption DEF IdleWorker, WorkerRows, Phases, RunIds, Stamps
    <3> QED BY <2>2, <3>1 DEF WorkerRows
  <2>4. /\ x.phase = (IF m = NoRun THEN "Ensure" ELSE "Claim") /\ x.run = m
        /\ x.todo = {} /\ x.made = {} /\ \A l \in Locators : x.prev[l] = NoRow
    BY DEF IdleWorker
  <2>5. worker' = [worker EXCEPT ![w] = x]
    BY <2>1
  <2> HIDE DEF x
  <2>6. /\ worker' \in [Workers -> WorkerRows] /\ WorkersAreSound'
        /\ worker'[w] = x
        /\ \A v \in Workers : v # w => worker'[v] = worker[v]
    BY <2>3, <2>4, <2>5, WorkerSet
  <2> QED BY <2>4, <2>6 DEF Effect, IsRefreshing
<1>3. ASSUME NEW p \in {"Insert", "Scan"}, Goto(w, p), p = "Scan" => claim(w) PROVE Effect(w)
  <2> DEFINE x == [worker[w] EXCEPT !.phase = p]
  <2>1. /\ x \in WorkerRows /\ x.phase = p /\ x.run = worker[w].run /\ x.scan = worker[w].scan
        /\ x.todo = worker[w].todo /\ x.prev = worker[w].prev /\ x.made = worker[w].made
        /\ worker' = [worker EXCEPT ![w] = x]
    BY <1>1, <1>3 DEF Goto, WorkerRows, Phases, RefreshTypes
  <2>2. x.run \in Runs \/ x.phase = "Insert"
    BY <1>1, <1>3, <2>1 DEF claim, IsSound
  <2> HIDE DEF x
  <2>3. /\ worker' \in [Workers -> WorkerRows] /\ WorkersAreSound'
        /\ worker'[w] = x
        /\ \A v \in Workers : v # w => worker'[v] = worker[v]
    BY <2>1, <2>2, WorkerKeeps
  <2> QED BY <1>3, <2>1, <2>3 DEF Effect, IsRefreshing
<1>4. ASSUME NEW r \in Runs, worker' = [worker EXCEPT ![w].phase = "Claim", ![w].run = r]
      PROVE  Effect(w)
  <2> DEFINE x == [worker[w] EXCEPT !.phase = "Claim", !.run = r]
  <2>1. /\ x \in WorkerRows /\ x.phase = "Claim" /\ x.run = r /\ x.scan = worker[w].scan
        /\ x.todo = worker[w].todo /\ x.prev = worker[w].prev /\ x.made = worker[w].made
        /\ worker' = [worker EXCEPT ![w] = x]
    BY <1>1, <1>4 DEF WorkerRows, Phases, RunIds, RefreshTypes
  <2>2. /\ \A l \in x.todo : x.scan[l] # Absent
        /\ \A l \in Locators : x.prev[l] # NoRow => Known(l)'
        /\ \A j \in x.made : Known(j[1])' /\ j[2] \in DOMAIN doc'[j[1]].versions
    <3>1. \A j \in worker[w].made : j[1] \in Locators
      BY <1>1 DEF WorkerRows
    <3> QED BY <1>1, <2>1, <3>1 DEF IsSound, DocsGrow
  <2> HIDE DEF x
  <2>3. /\ worker' \in [Workers -> WorkerRows] /\ WorkersAreSound'
        /\ worker'[w] = x
        /\ \A v \in Workers : v # w => worker'[v] = worker[v]
    BY <2>1, <2>2, WorkerSet
  <2> QED BY <2>1, <2>3 DEF Effect, IsRefreshing
<1>5. CASE ensureRunFind(w)
  BY <1>3, <1>4, <1>5 DEF ensureRunFind, ActiveRuns
<1>6. CASE ensureRunInsert(w)
  BY <1>4, <1>6 DEF ensureRunInsert
<1>7. CASE claim(w)
  <2>1. Goto(w, "Scan")
    BY <1>7 DEF claim
  <2> QED BY <1>3, <1>7, <2>1
<1>8. CASE skip(w)
  BY <1>8, WorkerReset DEF skip
<1>9. CASE scanFolder(w)
  <2> DEFINE seen == {l \in Locators : file[l] # Absent}
             found == [l \in Locators |-> FoundSum(l)]
             x == [worker[w] EXCEPT !.phase = "Files", !.prev = snap, !.scan = found,
                                    !.stamps = stamp, !.todo = seen]
  <2>1. /\ worker' = [worker EXCEPT ![w] = x]
    BY <1>9 DEF scanFolder, RefreshTypes
  <2>2. /\ seen \in SUBSET Locators /\ found \in [Locators -> Contents \cup {Absent}]
        /\ \A l \in seen : found[l] # Absent
    <3> SUFFICES ASSUME NEW l \in Locators
                 PROVE  /\ FoundSum(l) \in Contents \cup {Absent}
                        /\ file[l] # Absent => FoundSum(l) # Absent
      OBVIOUS
    <3>1. file[l] \in Contents \cup {Absent} /\ (snap[l] # NoRow => snap[l].sum \in Contents)
      BY DEF RefreshTypes, SnapRows
    <3>2. \A c \in Contents : c # Absent
      BY RefreshAssumption DEF Contents, Absent
    <3> QED BY <3>1, <3>2 DEF FoundSum, LooksUnchanged
  <2> HIDE DEF seen, found
  <2>3. /\ x \in WorkerRows /\ x.phase = "Files" /\ x.prev = snap /\ x.scan = found /\ x.todo = seen
        /\ x.run = worker[w].run /\ x.made = worker[w].made
    BY <1>1, <2>2 DEF WorkerRows, Phases, RefreshTypes
  <2>4. worker[w].phase = "Scan" /\ UNCHANGED <<doc, snap>>
    BY <1>9 DEF scanFolder
  <2> HIDE DEF x
  <2> QED
    <3>1. x.run \in Runs
      BY <1>1, <2>3, <2>4 DEF IsSound
    <3>2. \A l \in x.todo : x.scan[l] # Absent
      BY <2>2, <2>3
    <3>3. \A l \in Locators : x.prev[l] # NoRow => Known(l)'
      BY <2>3, <2>4 DEF DocsGrow, RowsFit
    <3>4. \A j \in x.made : Known(j[1])' /\ j[2] \in DOMAIN doc'[j[1]].versions
      BY <1>1, <2>3, <2>4 DEF IsSound, Known
    <3>5. /\ worker' \in [Workers -> WorkerRows] /\ WorkersAreSound'
          /\ worker'[w] = x
          /\ \A v \in Workers : v # w => worker'[v] = worker[v]
      BY <2>1, <2>3, <3>1, <3>2, <3>3, <3>4, WorkerSet
    <3> QED BY <1>9, <2>3, <2>4, <3>5 DEF Effect, IsRefreshing
<1> QED BY <1>2, <1>5, <1>6, <1>7, <1>8, <1>9

LEMMA EffectOfRefreshing ==
  ASSUME RefreshTypes, WorkersAreSound, RowsFit, DocsGrow, NEW w \in Workers,
         \/ \E l \in Locators : \/ keepFile(w, l) \/ reactivateFile(w, l) \/ storeFile(w, l)
                                \/ refuseFile(w, l) \/ fileFails(w, l)
         \/ deactivate(w) \/ markDeleted(w) \/ enqueueIndex(w) \/ enqueueIndexFails(w)
         \/ finish(w) \/ fail(w) \/ refreshThrows(w) \/ workerDies(w)
  PROVE  Effect(w)
<1>1. IsSound(w) /\ worker[w] \in WorkerRows
  BY DEF WorkersAreSound, RefreshTypes
<1>2. CASE finish(w) \/ fail(w) \/ workerDies(w)
  BY <1>2, WorkerReset DEF finish, fail, workerDies
<1>3. ASSUME worker[w].run \in Runs, NEW x \in WorkerRows, worker' = [worker EXCEPT ![w] = x],
             IsRefreshing(w), x.run = worker[w].run, x.scan = worker[w].scan,
             x.todo \subseteq worker[w].todo,
             \/ x.prev = worker[w].prev
             \/ x.phase # "Files" /\ \A l \in Locators : x.prev[l] = NoRow,
             \A j \in x.made : \/ j \in worker[w].made
                               \/ Known(j[1])' /\ j[2] \in DOMAIN doc'[j[1]].versions,
             x.phase = "Files" => worker[w].phase = "Files",
             x.phase \in {"MarkDeleted", "Enqueue"} =>
               worker[w].phase \in {"MarkDeleted", "Enqueue"} \/ deactivate(w)
      PROVE  Effect(w)
  <2>1. \A l \in Locators : x.prev[l] # NoRow => worker[w].prev[l] # NoRow
    BY <1>3
  <2>2. /\ worker' \in [Workers -> WorkerRows] /\ WorkersAreSound'
        /\ worker'[w] = x
        /\ \A v \in Workers : v # w => worker'[v] = worker[v]
    BY <1>3, <2>1, WorkerKeeps
  <2> QED BY <1>3, <2>2 DEF Effect
<1>4. ASSUME IsRefreshing(w) PROVE worker[w].run \in Runs
  BY <1>1, <1>4 DEF IsRefreshing, IsSound
<1>5. ASSUME NEW l \in Locators, keepFile(w, l) \/ reactivateFile(w, l) PROVE Effect(w)
  <2> DEFINE x == [worker[w] EXCEPT !.todo = @ \ {l}]
  <2>1. /\ x \in WorkerRows /\ x.phase = worker[w].phase /\ x.run = worker[w].run
        /\ x.scan = worker[w].scan /\ x.todo = worker[w].todo \ {l}
        /\ x.prev = worker[w].prev /\ x.made = worker[w].made
    BY <1>1 DEF WorkerRows
  <2>2. worker' = [worker EXCEPT ![w] = x] /\ worker[w].phase = "Files"
    BY <1>5 DEF keepFile, reactivateFile, FileDone, RefreshTypes
  <2> HIDE DEF x
  <2> QED BY <1>3, <1>4, <2>1, <2>2 DEF IsRefreshing
<1>6. ASSUME NEW l \in Locators, refuseFile(w, l) \/ fileFails(w, l) PROVE Effect(w)
  <2> DEFINE x == [worker[w] EXCEPT !.todo = @ \ {l}, !.errors = TRUE]
  <2>1. /\ x \in WorkerRows /\ x.phase = worker[w].phase /\ x.run = worker[w].run
        /\ x.scan = worker[w].scan /\ x.todo = worker[w].todo \ {l}
        /\ x.prev = worker[w].prev /\ x.made = worker[w].made
    BY <1>1 DEF WorkerRows
  <2>2. worker' = [worker EXCEPT ![w] = x] /\ worker[w].phase = "Files"
    BY <1>6 DEF refuseFile, fileFails, FileFailed, RefreshTypes
  <2> HIDE DEF x
  <2> QED BY <1>3, <1>4, <2>1, <2>2 DEF IsRefreshing
<1>7. ASSUME NEW l \in Locators, storeFile(w, l) PROVE Effect(w)
  <2> DEFINE j == <<l, NewestVersion(l)>>
             x == [worker[w] EXCEPT !.todo = @ \ {l}, !.made = @ \cup {j}]
  <2>1. /\ j \in Locators \X Nat /\ j[1] = l
        /\ doc'[j[1]] # NoRow /\ j[2] \in DOMAIN doc'[j[1]].versions
    BY <1>1, <1>7, VersionStored DEF Known
  <2>2. worker' = [worker EXCEPT ![w] = x] /\ worker[w].phase = "Files"
    BY <1>7 DEF storeFile, RefreshTypes
  <2> HIDE DEF j
  <2>3. /\ x \in WorkerRows /\ x.phase = worker[w].phase /\ x.run = worker[w].run
        /\ x.scan = worker[w].scan /\ x.todo = worker[w].todo \ {l}
        /\ x.prev = worker[w].prev /\ x.made = worker[w].made \cup {j}
    BY <1>1, <2>1 DEF WorkerRows
  <2> HIDE DEF x
  <2>4. \A i \in x.made : \/ i \in worker[w].made
                          \/ Known(i[1])' /\ i[2] \in DOMAIN doc'[i[1]].versions
    BY <2>1, <2>3 DEF Known
  <2> QED BY <1>3, <1>4, <2>2, <2>3, <2>4 DEF IsRefreshing
<1>8. ASSUME NEW p \in {"MarkDeleted", "Fail"}, Goto(w, p), IsRefreshing(w),
             p = "MarkDeleted" => deactivate(w)
      PROVE  Effect(w)
  <2> DEFINE x == [worker[w] EXCEPT !.phase = p]
  <2>1. /\ x \in WorkerRows /\ x.phase = p /\ x.run = worker[w].run /\ x.scan = worker[w].scan
        /\ x.todo = worker[w].todo /\ x.prev = worker[w].prev /\ x.made = worker[w].made
        /\ worker' = [worker EXCEPT ![w] = x]
    BY <1>1, <1>8 DEF Goto, WorkerRows, Phases, RefreshTypes
  <2> HIDE DEF x
  <2> QED BY <1>3, <1>4, <1>8, <2>1
<1>9. ASSUME Settled(w), IsRefreshing(w),
             worker[w].phase \in {"MarkDeleted", "Enqueue"} \/ deactivate(w)
      PROVE  Effect(w)
  <2> DEFINE x == [worker[w] EXCEPT !.phase = "Enqueue", !.prev = IdleWorker.prev,
                                    !.stamps = IdleWorker.stamps]
  <2>1. /\ IdleWorker.prev \in [Locators -> SnapRows \cup {NoRow}]
        /\ IdleWorker.stamps \in [Locators -> Stamps]
        /\ \A l \in Locators : IdleWorker.prev[l] = NoRow
    BY RefreshAssumption DEF IdleWorker, Stamps
  <2>2. /\ x \in WorkerRows /\ x.phase = "Enqueue" /\ x.run = worker[w].run
        /\ x.scan = worker[w].scan /\ x.todo = worker[w].todo
        /\ x.prev = IdleWorker.prev /\ x.made = worker[w].made
        /\ worker' = [worker EXCEPT ![w] = x]
    BY <1>1, <1>9, <2>1 DEF Settled, WorkerRows, Phases, RefreshTypes
  <2> HIDE DEF x
  <2> QED BY <1>3, <1>4, <1>9, <2>1, <2>2
<1>10. CASE deactivate(w)
  BY <1>8, <1>9, <1>10 DEF deactivate, IsRefreshing
<1>11. CASE markDeleted(w)
  BY <1>9, <1>11 DEF markDeleted, IsRefreshing
<1>12. CASE refreshThrows(w)
  BY <1>8, <1>12 DEF refreshThrows, IsRefreshing
<1>13. CASE enqueueIndex(w) \/ enqueueIndexFails(w)
  <2>1. PICK j \in worker[w].made, e \in BOOLEAN :
          /\ worker[w].phase = "Enqueue"
          /\ worker' = [worker EXCEPT ![w] = [worker[w] EXCEPT !.made = @ \ {j}, !.errors = e]]
    <3>1. CASE enqueueIndex(w)
      <4>1. PICK j \in worker[w].made : worker' = [worker EXCEPT ![w].made = @ \ {j}]
        BY <3>1 DEF enqueueIndex
      <4>2. [worker[w] EXCEPT !.made = @ \ {j}]
              = [worker[w] EXCEPT !.made = @ \ {j}, !.errors = worker[w].errors]
        BY <1>1 DEF WorkerRows
      <4>3. worker[w].errors \in BOOLEAN /\ worker[w].phase = "Enqueue"
        BY <1>1, <3>1 DEF WorkerRows, enqueueIndex
      <4> QED BY <4>1, <4>2, <4>3
    <3>2. CASE enqueueIndexFails(w)
      BY <3>2 DEF enqueueIndexFails
    <3> QED BY <1>13, <3>1, <3>2
  <2> DEFINE x == [worker[w] EXCEPT !.made = @ \ {j}, !.errors = e]
  <2>2. /\ x \in WorkerRows /\ x.phase = worker[w].phase /\ x.run = worker[w].run
        /\ x.scan = worker[w].scan /\ x.todo = worker[w].todo
        /\ x.prev = worker[w].prev /\ x.made = worker[w].made \ {j}
    BY <1>1 DEF WorkerRows
  <2>3. worker' = [worker EXCEPT ![w] = x]
    BY <2>1
  <2> HIDE DEF x
  <2> QED BY <1>3, <1>4, <2>1, <2>2, <2>3 DEF IsRefreshing
<1> QED BY <1>2, <1>5, <1>6, <1>7, <1>10, <1>11, <1>12, <1>13

-----------------------------------------------------------------------------
(* What a step does to everything else: the workers that do not act, and   *)
(* the steps that are nobody's.                                            *)

LEMMA WorkerEffect ==
  ASSUME RefreshTypes, WorkersAreSound, RowsFit, DocsGrow, NEW w \in Workers, WorkerActs(w)
  PROVE  Effect(w)
<1>1. ASSUME WorkerStep(w) PROVE Effect(w)
  BY <1>1, EffectOfClaiming, EffectOfRefreshing DEF WorkerStep
<1> QED BY <1>1, EffectOfClaiming, EffectOfRefreshing DEF WorkerActs

\* Steps of the folder, the requests, the schedule and the recovery.
Others ==
  \/ \E l \in Locators : writeFile(l) \/ deleteFile(l) \/ recoverJob(l)
  \/ \E q \in Requests : startCheck(q) \/ RequestStep(q) \/ startFails(q) \/ requestDies(q)
  \/ tick
  \/ \E r \in Runs : recoverRun(r) \/ recoverAdd(r) \/ recoverAddFails(r)
  \/ UNCHANGED vars

LEMMA NextSplits == [Next]_vars <=> Others \/ \E w \in Workers : WorkerActs(w)
BY DEF Next, Others, WorkerActs

LEMMA OthersKeepWorkers == Others => UNCHANGED <<kind, snap, worker>>
<1> SUFFICES ASSUME Others PROVE UNCHANGED <<kind, snap, worker>>
  OBVIOUS
<1>1. ASSUME NEW l \in Locators, writeFile(l) \/ deleteFile(l) \/ recoverJob(l)
      PROVE  UNCHANGED <<kind, snap, worker>>
  BY <1>1 DEF writeFile, deleteFile, Change, recoverJob
<1>2. ASSUME NEW q \in Requests,
             startCheck(q) \/ RequestStep(q) \/ startFails(q) \/ requestDies(q)
      PROVE  UNCHANGED <<kind, snap, worker>>
  BY <1>2 DEF startCheck, RequestStep, startCreate, startAdd, startRecord, startFails, requestDies
<1>3. ASSUME NEW r \in Runs, recoverRun(r) \/ recoverAdd(r) \/ recoverAddFails(r)
      PROVE  UNCHANGED <<kind, snap, worker>>
  BY <1>3 DEF recoverRun, recoverAdd, recoverAddFails
<1>4. CASE tick \/ UNCHANGED vars
  BY <1>4 DEF tick, vars
<1> QED BY <1>1, <1>2, <1>3, <1>4 DEF Others

LEMMA TypesStep ==
  RefreshTypes /\ WorkersAreSound /\ RowsFit /\ [Next]_vars =>
    RefreshTypes' /\ WorkersAreSound' /\ RowsFit'
<1> SUFFICES ASSUME RefreshTypes, WorkersAreSound, RowsFit, [Next]_vars
             PROVE  RefreshTypes' /\ WorkersAreSound' /\ RowsFit'
  OBVIOUS
<1>1. DocsGrow /\ RowsFit' /\ snap' \in [Locators -> SnapRows \cup {NoRow}]
  BY RowsStep
<1>2. worker' \in [Workers -> WorkerRows] /\ WorkersAreSound'
  <2>1. ASSUME NEW w \in Workers, WorkerActs(w)
        PROVE  worker' \in [Workers -> WorkerRows] /\ WorkersAreSound'
    BY <1>1, <2>1, WorkerEffect DEF Effect
  <2>2. ASSUME Others PROVE worker' \in [Workers -> WorkerRows] /\ WorkersAreSound'
    <3>1. worker' = worker
      BY <2>2, OthersKeepWorkers
    <3>2. \A v \in Workers : IsSound(v)'
      <4> SUFFICES ASSUME NEW v \in Workers PROVE IsSound(v)'
        OBVIOUS
      <4>1. IsSound(v) /\ worker[v] \in WorkerRows
        BY DEF WorkersAreSound, RefreshTypes
      <4>2. \A j \in worker[v].made : j[1] \in Locators
        BY <4>1 DEF WorkerRows
      <4> QED BY <1>1, <3>1, <4>1, <4>2 DEF IsSound, DocsGrow
    <3> QED BY <3>1, <3>2 DEF RefreshTypes, WorkersAreSound
  <2> QED BY <2>1, <2>2, NextSplits
<1> QED BY <1>1, <1>2, PlainTypesStep DEF RefreshTypes, DocsGrow

-----------------------------------------------------------------------------
(* Who works on what.                                                      *)

\* The counts of a step that a worker takes.
LEMMA WorkerCounts ==
  ASSUME RefreshTypes, NEW w \in Workers, WorkerActs(w)
  PROVE  /\ spent'.lapses = spent.lapses
         /\ spent.overlapped => spent'.overlapped
         /\ spent.overlapped = spent'.overlapped \/ claim(w)
         /\ \A r \in Runs : run'[r] = "QUEUED" => run[r] = "QUEUED" \/ ~Attended(r)
         /\ claim(w) => /\ run[worker[w].run] = "QUEUED"
                        /\ worker[w].run \in Runs => run'[worker[w].run] = "PROCESSING"
                        /\ ~spent'.overlapped => \A v \in Workers : ~IsRefreshing(v)
<1>1. spent \in Spendings /\ run \in [Runs -> {"QUEUED", "PROCESSING", "FINISHED"}]
  BY DEF RefreshTypes
<1> DEFINE Goal ==
      /\ spent'.lapses = spent.lapses
      /\ spent.overlapped => spent'.overlapped
      /\ spent.overlapped = spent'.overlapped \/ claim(w)
      /\ \A r \in Runs : run'[r] = "QUEUED" => run[r] = "QUEUED" \/ ~Attended(r)
<1>2. ASSUME claim(w)
      PROVE  Goal /\ /\ run[worker[w].run] = "QUEUED"
                     /\ worker[w].run \in Runs => run'[worker[w].run] = "PROCESSING"
                     /\ ~spent'.overlapped => \A v \in Workers : ~IsRefreshing(v)
  <2>1. PICK b \in BOOLEAN : /\ b <=> (spent.overlapped \/ \E v \in Workers : IsRefreshing(v))
                             /\ spent' = [spent EXCEPT !.overlapped = b]
    <3>1. (spent.overlapped \/ \E v \in Workers : IsRefreshing(v)) \in BOOLEAN
      OBVIOUS
    <3> QED BY <1>2, <3>1 DEF claim
  <2>2. spent'.lapses = spent.lapses /\ spent'.overlapped = b
    BY <1>1, <2>1 DEF Spendings
  <2>3. /\ \A r \in Runs : run'[r] = "QUEUED" => run[r] = "QUEUED"
        /\ run[worker[w].run] = "QUEUED"
        /\ worker[w].run \in Runs => run'[worker[w].run] = "PROCESSING"
    BY <1>1, <1>2 DEF claim, Claimable
  <2> QED BY <1>2, <2>1, <2>2, <2>3
<1>3. ASSUME UNCHANGED spent,
             \A r \in Runs : run'[r] = "QUEUED" => run[r] = "QUEUED" \/ ~Attended(r)
      PROVE  Goal
  BY <1>3
<1>4. ASSUME CountFault, \A r \in Runs : run'[r] = "QUEUED" => run[r] = "QUEUED" PROVE Goal
  BY <1>4, Spends
<1>5. ASSUME WorkerActs(w), ~claim(w) PROVE Goal
  <2>1. ASSUME NEW m \in Runs \cup {NoRun}, take(w, m) PROVE Goal
    BY <1>3, <2>1 DEF take
  <2>2. CASE ensureRunInsert(w)
    <3>1. \A r \in Runs : run'[r] = "QUEUED" => run[r] = "QUEUED" \/ ~Attended(r)
      BY <1>1, <2>2 DEF ensureRunInsert, Free, Attended
    <3> QED BY <1>3, <2>2, <3>1 DEF ensureRunInsert
  <2>3. CASE \/ ensureRunFind(w) \/ skip(w) \/ scanFolder(w) \/ deactivate(w) \/ markDeleted(w)
             \/ enqueueIndex(w)
    BY <1>3, <2>3 DEF ensureRunFind, skip, scanFolder, deactivate, markDeleted, enqueueIndex
  <2>4. CASE finish(w) \/ fail(w)
    <3>1. \A r \in Runs : run'[r] = "QUEUED" => run[r] = "QUEUED"
      BY <1>1, <2>4 DEF finish, fail
    <3> QED BY <1>3, <2>4, <3>1 DEF finish, fail
  <2>5. CASE enqueueIndexFails(w) \/ refreshThrows(w) \/ workerDies(w)
    BY <1>4, <2>5 DEF enqueueIndexFails, refreshThrows, workerDies
  <2>6. ASSUME NEW l \in Locators,
               keepFile(w, l) \/ reactivateFile(w, l) \/ storeFile(w, l) \/ refuseFile(w, l)
        PROVE  Goal
    BY <1>3, <2>6 DEF keepFile, reactivateFile, storeFile, refuseFile
  <2>7. ASSUME NEW l \in Locators, fileFails(w, l) PROVE Goal
    BY <1>4, <2>7 DEF fileFails
  <2> HIDE DEF Goal
  <2> QED BY <1>5, <2>1, <2>2, <2>3, <2>4, <2>5, <2>6, <2>7 DEF WorkerActs, WorkerStep
<1> HIDE DEF Goal
<1>6. Goal /\ (claim(w) => /\ run[worker[w].run] = "QUEUED"
                           /\ worker[w].run \in Runs => run'[worker[w].run] = "PROCESSING"
                           /\ ~spent'.overlapped => \A v \in Workers : ~IsRefreshing(v))
  BY <1>2, <1>5
<1> QED BY <1>6 DEF Goal

\* The counts of a step that no worker takes.
LEMMA OtherCounts ==
  ASSUME RefreshTypes, Others
  PROVE  /\ spent'.overlapped = spent.overlapped
         /\ spent'.lapses = 0 => /\ spent.lapses = 0
                                 /\ \A r \in Runs : run'[r] = "QUEUED" =>
                                      run[r] = "QUEUED" \/ ~Attended(r)
<1> DEFINE Goal == /\ spent'.overlapped = spent.overlapped
                   /\ spent'.lapses = 0 =>
                        /\ spent.lapses = 0
                        /\ \A r \in Runs : run'[r] = "QUEUED" => run[r] = "QUEUED" \/ ~Attended(r)
<1> SUFFICES Goal
  OBVIOUS
<1>1. spent \in Spendings /\ run \in [Runs -> {"QUEUED", "PROCESSING", "FINISHED"}]
  BY DEF RefreshTypes
<1>2. ASSUME spent' = spent \/ CountFault \/ CountLapse,
             \A r \in Runs : run'[r] = "QUEUED" =>
               run[r] = "QUEUED" \/ ~Attended(r) \/ CountLapse
      PROVE  Goal
  BY <1>2, Spends
<1>3. ASSUME NEW l \in Locators, writeFile(l) \/ deleteFile(l) PROVE Goal
  <2>1. spent'.overlapped = spent.overlapped /\ spent'.lapses = spent.lapses /\ run' = run
    BY <1>1, <1>3 DEF writeFile, deleteFile, Change, Spendings
  <2> QED BY <2>1
<1>4. ASSUME NEW l \in Locators, recoverJob(l) PROVE Goal
  BY <1>2, <1>4 DEF recoverJob
<1>5. ASSUME NEW q \in Requests, startCheck(q) PROVE Goal
  <2>1. spent'.overlapped = spent.overlapped /\ spent'.lapses = spent.lapses /\ run' = run
    BY <1>1, <1>5 DEF startCheck, Spendings
  <2> QED BY <2>1
<1>6. ASSUME NEW q \in Requests, startCreate(q) PROVE Goal
  <2>1. \A r \in Runs : run'[r] = "QUEUED" => run[r] = "QUEUED" \/ ~Attended(r)
    BY <1>1, <1>6 DEF startCreate, Free, Attended
  <2> QED BY <1>2, <1>6, <2>1 DEF startCreate
<1>7. ASSUME NEW q \in Requests, startAdd(q) \/ startRecord(q) \/ requestDies(q) PROVE Goal
  BY <1>2, <1>7 DEF startAdd, startRecord, requestDies
<1>8. ASSUME NEW q \in Requests, startFails(q) PROVE Goal
  <2>1. \A r \in Runs : run'[r] = "QUEUED" => run[r] = "QUEUED"
    BY <1>1, <1>8 DEF startFails
  <2> QED BY <1>2, <1>8, <2>1 DEF startFails
<1>9. ASSUME NEW r \in Runs, recoverRun(r) PROVE Goal
  <2>1. \A s \in Runs : run'[s] = "QUEUED" => run[s] = "QUEUED" \/ s = r
    BY <1>1, <1>9 DEF recoverRun
  <2>2. IF Attended(r) THEN CountLapse ELSE spent' = spent
    BY <1>9 DEF recoverRun
  <2> HIDE DEF Goal
  <2> QED BY <1>2, <2>1, <2>2
<1>10. ASSUME NEW r \in Runs, recoverAdd(r) \/ recoverAddFails(r) PROVE Goal
  BY <1>2, <1>10 DEF recoverAdd, recoverAddFails
<1>11. CASE tick \/ UNCHANGED vars
  BY <1>2, <1>11 DEF tick, vars
<1> HIDE DEF Goal
<1> QED BY <1>3, <1>4, <1>5, <1>6, <1>7, <1>8, <1>9, <1>10, <1>11 DEF Others, RequestStep

LEMMA OwnersStep ==
  RefreshInv /\ [Next]_vars => AttendedIsClaimed' /\ OneWorkerPerRun' /\ OneRefresh'
<1> SUFFICES ASSUME RefreshInv, [Next]_vars
             PROVE  AttendedIsClaimed' /\ OneWorkerPerRun' /\ OneRefresh'
  OBVIOUS
<1>1. RefreshTypes /\ WorkersAreSound /\ RowsFit /\ DocsGrow
  BY RowsStep DEF RefreshInv
<1>2. \A v \in Workers : IsRefreshing(v) => worker[v].run \in Runs
  BY <1>1 DEF WorkersAreSound, IsSound, IsRefreshing
<1>3. CASE Others
  <2>1. worker' = worker
    BY <1>3, OthersKeepWorkers
  <2>2. \A v \in Workers : IsRefreshing(v)' <=> IsRefreshing(v)
    BY <2>1 DEF IsRefreshing
  <2>3. /\ spent'.overlapped = spent.overlapped
        /\ spent'.lapses = 0 =>
             /\ spent.lapses = 0
             /\ \A r \in Runs : run'[r] = "QUEUED" => run[r] = "QUEUED" \/ ~Attended(r)
    BY <1>1, <1>3, OtherCounts
  <2>4. AttendedIsClaimed'
    BY <1>2, <2>1, <2>2, <2>3 DEF RefreshInv, AttendedIsClaimed, Attended
  <2>5. OneWorkerPerRun' /\ OneRefresh'
    BY <2>1, <2>2, <2>3 DEF RefreshInv, OneWorkerPerRun, OneRefresh
  <2> QED BY <2>4, <2>5
<1>4. ASSUME NEW w \in Workers, WorkerActs(w)
      PROVE  AttendedIsClaimed' /\ OneWorkerPerRun' /\ OneRefresh'
  <2>1. /\ \A v \in Workers : v # w => worker'[v] = worker[v]
        /\ IsRefreshing(w)' => worker'[w].run = worker[w].run /\ (IsRefreshing(w) \/ claim(w))
        /\ WorkersAreSound'
    BY <1>1, <1>4, WorkerEffect DEF Effect
  <2>2. /\ spent'.lapses = spent.lapses
        /\ spent.overlapped => spent'.overlapped
        /\ \A r \in Runs : run'[r] = "QUEUED" => run[r] = "QUEUED" \/ ~Attended(r)
        /\ claim(w) => /\ run[worker[w].run] = "QUEUED"
                       /\ worker[w].run \in Runs => run'[worker[w].run] = "PROCESSING"
                       /\ ~spent'.overlapped => \A v \in Workers : ~IsRefreshing(v)
    BY <1>1, <1>4, WorkerCounts
  <2>3. \A v \in Workers : IsRefreshing(v)' => /\ worker'[v].run = worker[v].run
                                               /\ worker[v].run \in Runs
                                               /\ IsRefreshing(v) \/ (v = w /\ claim(w))
    <3> SUFFICES ASSUME NEW v \in Workers, IsRefreshing(v)'
                 PROVE  /\ worker'[v].run = worker[v].run /\ worker[v].run \in Runs
                        /\ IsRefreshing(v) \/ (v = w /\ claim(w))
      OBVIOUS
    <3>1. worker'[v].run \in Runs
      BY <2>1 DEF IsRefreshing, WorkersAreSound, IsSound
    <3>2. CASE v = w
      BY <2>1, <3>1, <3>2
    <3>3. CASE v # w
      BY <1>2, <2>1, <3>3 DEF IsRefreshing
    <3> QED BY <3>2, <3>3
  <2>4. AttendedIsClaimed'
    <3> SUFFICES ASSUME spent.lapses = 0, NEW v \in Workers, IsRefreshing(v)'
                 PROVE  run'[worker'[v].run] # "QUEUED"
      BY <2>2 DEF AttendedIsClaimed
    <3>1. CASE IsRefreshing(v)
      BY <2>2, <2>3, <3>1 DEF RefreshInv, AttendedIsClaimed, Attended
    <3>2. CASE v = w /\ claim(w)
      BY <2>2, <2>3, <3>2
    <3> QED BY <2>3, <3>1, <3>2
  <2>5. OneWorkerPerRun'
    <3> SUFFICES ASSUME spent.lapses = 0, NEW u \in Workers, NEW v \in Workers, u # v,
                        IsRefreshing(u)', IsRefreshing(v)'
                 PROVE  worker'[u].run # worker'[v].run
      BY <2>2 DEF OneWorkerPerRun
    <3>1. \A x \in Workers : IsRefreshing(x) => run[worker[x].run] # "QUEUED"
      BY DEF RefreshInv, AttendedIsClaimed
    <3>2. CASE IsRefreshing(u) /\ IsRefreshing(v)
      BY <2>3, <3>2 DEF RefreshInv, OneWorkerPerRun
    <3>3. CASE ~(IsRefreshing(u) /\ IsRefreshing(v))
      BY <2>2, <2>3, <3>1, <3>3
    <3> QED BY <3>2, <3>3
  <2>6. OneRefresh'
    BY <2>2, <2>3 DEF RefreshInv, OneRefresh
  <2> QED BY <2>4, <2>5, <2>6
<1> QED BY <1>3, <1>4, NextSplits

-----------------------------------------------------------------------------
(* What refreshes that do not overlap make of the rows. *)

\* Nobody else is refreshing while w acts on its files.
LEMMA Alone ==
  ASSUME RefreshInv, NEW w \in Workers, IsRefreshing(w), ~spent.overlapped,
         NEW v \in Workers, v # w
  PROVE  worker[v].phase \notin {"Files", "MarkDeleted", "Enqueue"}
BY DEF RefreshInv, OneRefresh, IsRefreshing

\* A step that changes neither the contents of documents nor snapshots, and activates nothing.
LEMMA ContentKept ==
  ASSUME RefreshInv, DocsSame, UNCHANGED <<kind, snap>>,
         spent.overlapped => spent'.overlapped,
         \A l \in Locators : Known(l) /\ doc'[l].active => doc[l].active,
         \A v \in Workers : worker'[v].phase = "Files" =>
           \/ worker'[v].prev = snap
           \/ /\ worker[v].phase = "Files" /\ worker'[v].todo \subseteq worker[v].todo
              /\ worker'[v].prev = worker[v].prev /\ worker'[v].scan = worker[v].scan,
         \A v \in Workers : worker'[v].phase \in {"MarkDeleted", "Enqueue"} =>
           /\ worker[v].phase \in {"MarkDeleted", "Enqueue"}
           /\ worker'[v].scan = worker[v].scan
  PROVE  ScanIsFresh' /\ SnapshotsFollowDocuments' /\ DeletedFilesAreHidden'
<1>1. ScanIsFresh'
  BY DEF RefreshInv, ScanIsFresh
<1>2. SnapshotsFollowDocuments'
  BY DEF RefreshInv, SnapshotsFollowDocuments, DocsSame, SameContents
<1>3. DeletedFilesAreHidden'
  BY DEF RefreshInv, DeletedFilesAreHidden, DocsSame
<1> QED BY <1>1, <1>2, <1>3
\* The turns of the loop over the files that write a snapshot.
LEMMA FileStep ==
  ASSUME RefreshInv, [Next]_vars, NEW w \in Workers, NEW l \in Locators,
         keepFile(w, l) \/ reactivateFile(w, l) \/ storeFile(w, l)
  PROVE  ScanIsFresh' /\ SnapshotsFollowDocuments' /\ DeletedFilesAreHidden'
<1>1. /\ RefreshTypes /\ WorkersAreSound /\ RowsFit /\ DocsGrow /\ RowsFit'
      /\ IsSound(w) /\ worker[w] \in WorkerRows
  BY RowsStep DEF RefreshInv, WorkersAreSound, RefreshTypes
<1>2. /\ worker[w].phase = "Files" /\ l \in worker[w].todo /\ upsertSnapshot(w, l)
      /\ kind' = kind /\ spent' = spent
  BY DEF keepFile, reactivateFile, storeFile
<1>3. /\ snap'[l] # NoRow /\ snap'[l].sum = worker[w].scan[l]
      /\ \A k \in Locators : k # l => snap'[k] = snap[k]
  BY <1>1, <1>2, SnapshotWritten
<1>4. /\ worker'[w].phase = "Files" /\ worker'[w].todo = worker[w].todo \ {l}
      /\ worker'[w].prev = worker[w].prev /\ worker'[w].scan = worker[w].scan
      /\ \A v \in Workers : v # w => worker'[v] = worker[v]
  <2>1. CASE keepFile(w, l) \/ reactivateFile(w, l)
    <3>1. worker' = [worker EXCEPT ![w] = [worker[w] EXCEPT !.todo = worker[w].todo \ {l}]]
      BY <2>1 DEF keepFile, reactivateFile, FileDone, RefreshInv, RefreshTypes
    <3> QED BY <1>1, <1>2, <3>1 DEF RefreshTypes, WorkerRows
  <2>2. CASE storeFile(w, l)
    <3> DEFINE x == [worker[w] EXCEPT !.todo = worker[w].todo \ {l},
                                      !.made = worker[w].made \cup {<<l, NewestVersion(l)>>}]
    <3>1. worker' = [worker EXCEPT ![w] = x]
      BY <2>2 DEF storeFile, RefreshInv, RefreshTypes
    <3>2. /\ x.phase = worker[w].phase /\ x.todo = worker[w].todo \ {l}
          /\ x.prev = worker[w].prev /\ x.scan = worker[w].scan
      BY <1>1 DEF WorkerRows
    <3> HIDE DEF x
    <3> QED BY <1>1, <1>2, <3>1, <3>2 DEF RefreshTypes
  <2> QED BY <2>1, <2>2
<1>5. ASSUME ~spent.overlapped, NEW v \in Workers, v # w
      PROVE  worker[v].phase \notin {"Files", "MarkDeleted", "Enqueue"}
  BY <1>2, <1>5, Alone DEF IsRefreshing
<1>6. ~spent.overlapped =>
        \A k \in Locators : k \in worker[w].todo \/ worker[w].scan[k] = Absent =>
          snap[k] = worker[w].prev[k]
  BY <1>2 DEF RefreshInv, ScanIsFresh
<1>7. ScanIsFresh'
  <2> SUFFICES ASSUME ~spent.overlapped, NEW v \in Workers, worker'[v].phase = "Files",
                      NEW k \in Locators,
                      k \in worker'[v].todo \/ worker'[v].scan[k] = Absent
               PROVE  snap'[k] = worker'[v].prev[k]
    BY <1>2 DEF ScanIsFresh
  <2>1. v = w
    BY <1>4, <1>5
  <2>2. k # l
    BY <1>1, <1>2, <1>4, <2>1 DEF IsSound
  <2> QED BY <1>3, <1>4, <1>6, <2>1, <2>2
<1>8. SnapshotsFollowDocuments'
  <2> SUFFICES ASSUME NEW k \in Locators, snap'[k] # NoRow
               PROVE  /\ Known(k)'
                      /\ kind = "SHARED_FOLDER" /\ ~spent.overlapped => snap'[k].sum = doc'[k].sum
    BY <1>2 DEF SnapshotsFollowDocuments
  <2>1. Known(k)'
    BY <1>1 DEF RowsFit
  <2>2. CASE keepFile(w, l)
    <3>1. doc' = doc /\ worker[w].prev[l].sum = worker[w].scan[l] /\ worker[w].prev[l] # NoRow
      BY <2>2 DEF keepFile, Unchanged
    <3>2. CASE k = l
      BY <1>2, <1>3, <1>6, <2>1, <3>1, <3>2 DEF RefreshInv, SnapshotsFollowDocuments
    <3>3. CASE k # l
      BY <1>3, <2>1, <3>1, <3>3 DEF RefreshInv, SnapshotsFollowDocuments
    <3> QED BY <3>2, <3>3
  <2>3. CASE reactivateFile(w, l) \/ storeFile(w, l)
    <3>1. doc'[l].sum = StoredSum(w, l) /\ \A m \in Locators : m # l => doc'[m] = doc[m]
      BY <1>1, <2>3, Reactivated, VersionStored DEF DocsSame, SameContents
    <3>2. CASE k = l
      BY <1>3, <2>1, <3>1, <3>2 DEF StoredSum
    <3>3. CASE k # l
      BY <1>3, <2>1, <3>1, <3>3 DEF RefreshInv, SnapshotsFollowDocuments
    <3> QED BY <3>2, <3>3
  <2> QED BY <2>2, <2>3
<1>9. DeletedFilesAreHidden'
  <2>1. ASSUME ~spent.overlapped, NEW v \in Workers
        PROVE  worker'[v].phase \notin {"MarkDeleted", "Enqueue"}
    <3>1. CASE v = w
      BY <1>4, <3>1
    <3>2. CASE v # w
      BY <1>4, <1>5, <2>1, <3>2
    <3> QED BY <3>1, <3>2
  <2> QED BY <1>2, <2>1 DEF DeletedFilesAreHidden
<1> QED BY <1>7, <1>8, <1>9

\* Files that the scan did not see are hidden, then their snapshots are marked.
LEMMA DeletionStep ==
  ASSUME RefreshInv, [Next]_vars, NEW w \in Workers, deactivate(w) \/ markDeleted(w)
  PROVE  ScanIsFresh' /\ SnapshotsFollowDocuments' /\ DeletedFilesAreHidden'
<1>1. /\ RefreshTypes /\ WorkersAreSound /\ RowsFit /\ DocsGrow /\ RowsFit' /\ IsSound(w)
  BY RowsStep DEF RefreshInv, WorkersAreSound
<1>2. /\ worker[w].phase \in {"Files", "MarkDeleted"}
      /\ kind' = kind /\ spent' = spent
      /\ WorkerActs(w)
  BY DEF deactivate, markDeleted, WorkerActs, WorkerStep
<1>3. Effect(w)
  BY <1>1, <1>2, WorkerEffect
<1>4. worker'[w].phase \in {"MarkDeleted", "Enqueue"} /\ worker'[w].scan = worker[w].scan
  <2>1. worker'[w].phase \in {"MarkDeleted", "Enqueue"}
    BY <1>1 DEF deactivate, markDeleted, Settled, Goto, RefreshTypes, WorkerRows
  <2> QED BY <1>3, <2>1 DEF Effect
<1>5. ASSUME ~spent.overlapped, NEW v \in Workers, v # w
      PROVE  worker'[v].phase \notin {"Files", "MarkDeleted", "Enqueue"}
  <2>1. worker[v].phase \notin {"Files", "MarkDeleted", "Enqueue"}
    BY <1>2, <1>5, Alone DEF IsRefreshing
  <2> QED BY <1>3, <1>5, <2>1 DEF Effect
<1>6. ScanIsFresh'
  BY <1>2, <1>4, <1>5 DEF ScanIsFresh
<1>7. /\ \A l \in Locators : snap'[l] # NoRow => snap[l] # NoRow /\ snap'[l].sum = snap[l].sum
      /\ DocsSame
  <2>1. CASE deactivate(w)
    BY <1>1, <2>1, Deactivated DEF deactivate
  <2>2. CASE markDeleted(w)
    <3>1. \A l \in Locators : /\ snap'[l] # NoRow <=> snap[l] # NoRow
                              /\ snap[l] # NoRow => snap'[l].sum = snap[l].sum
      BY <1>1, <2>2, SnapshotsMarked
    <3>2. DocsSame
      BY <1>1, <2>2, DocsUnchanged DEF markDeleted
    <3> QED BY <3>1, <3>2
  <2> QED BY <2>1, <2>2
<1>8. SnapshotsFollowDocuments'
  BY <1>2, <1>7 DEF RefreshInv, SnapshotsFollowDocuments, DocsSame, SameContents
<1>9. DeletedFilesAreHidden'
  <2> SUFFICES ASSUME ~spent.overlapped, NEW v \in Workers,
                      worker'[v].phase \in {"MarkDeleted", "Enqueue"},
                      NEW l \in Locators, Known(l)', doc'[l].active
               PROVE  worker'[v].scan[l] # Absent
    BY <1>2 DEF DeletedFilesAreHidden
  <2>1. v = w /\ worker'[v].scan = worker[w].scan /\ Known(l)
    BY <1>4, <1>5, <1>7 DEF DocsSame
  <2>2. CASE deactivate(w)
    <3>1. l \notin Deleted(w)
      BY <1>1, <2>1, <2>2, Deactivated
    <3>2. snap[l] # NoRow
      BY <1>1, <2>1 DEF RowsFit
    <3>3. worker[w].scan[l] = Absent => snap[l] = worker[w].prev[l]
      BY <2>2 DEF deactivate, RefreshInv, ScanIsFresh
    <3> QED BY <2>1, <3>1, <3>2, <3>3 DEF Deleted
  <2>3. CASE markDeleted(w)
    BY <2>1, <2>3 DEF markDeleted, RefreshInv, DeletedFilesAreHidden
  <2> QED BY <2>2, <2>3
<1> QED BY <1>6, <1>8, <1>9
LEMMA ContentStep ==
  RefreshInv /\ [Next]_vars => ScanIsFresh' /\ SnapshotsFollowDocuments' /\ DeletedFilesAreHidden'
<1> DEFINE Goal == ScanIsFresh' /\ SnapshotsFollowDocuments' /\ DeletedFilesAreHidden'
<1> SUFFICES ASSUME RefreshInv, [Next]_vars PROVE Goal
  OBVIOUS
<1>1. RefreshTypes /\ WorkersAreSound /\ RowsFit /\ DocsGrow
  BY RowsStep DEF RefreshInv
<1>2. CASE Others
  <2>1. /\ kind' = kind /\ snap' = snap /\ worker' = worker
        /\ spent'.overlapped = spent.overlapped
    BY <1>1, <1>2, OthersKeepWorkers, OtherCounts
  <2>2. DocsSame /\ \A l \in Locators : Known(l) => doc'[l].active = doc[l].active
    <3>1. ASSUME UNCHANGED doc
          PROVE  DocsSame /\ \A l \in Locators : Known(l) => doc'[l].active = doc[l].active
      BY <1>1, <3>1, DocsUnchanged
    <3>2. ASSUME NEW l \in Locators, recoverJob(l)
          PROVE  DocsSame /\ \A k \in Locators : Known(k) => doc'[k].active = doc[k].active
      <4>1. PICK n \in DOMAIN doc[l].versions : SetIndexJob(<<l, n>>, "SENT")
        BY <3>2 DEF recoverJob
      <4>2. Known(l) /\ "SENT" \in Jobs
        BY <3>2 DEF recoverJob, Jobs
      <4> QED BY <1>1, <4>1, <4>2, IndexJobSet
    <3>3. (\E l \in Locators : recoverJob(l)) \/ UNCHANGED doc
      BY <1>2 DEF Others, writeFile, deleteFile, Change, startCheck, RequestStep, startCreate,
           startAdd, startRecord, startFails, requestDies, tick, recoverRun, recoverAdd,
           recoverAddFails, vars
    <3> QED BY <3>1, <3>2, <3>3
  <2> QED BY <2>1, <2>2, ContentKept
<1>3. ASSUME NEW w \in Workers, WorkerActs(w) PROVE Goal
  <2>1. CASE \E l \in Locators : keepFile(w, l) \/ reactivateFile(w, l) \/ storeFile(w, l)
    BY <2>1, FileStep
  <2>2. CASE deactivate(w) \/ markDeleted(w)
    BY <2>2, DeletionStep
  <2>3. CASE ~(deactivate(w) \/ \E l \in Locators : keepFile(w, l) \/ reactivateFile(w, l)
                                                    \/ storeFile(w, l))
             /\ ~markDeleted(w)
    <3>1. kind' = kind /\ snap' = snap
      BY <1>3, <2>3 DEF WorkerActs, WorkerStep, take, ensureRunFind, ensureRunInsert, claim, skip,
           scanFolder, refuseFile, enqueueIndex, finish, fail, fileFails, enqueueIndexFails,
           refreshThrows, workerDies
    <3>2. DocsSame /\ \A l \in Locators : Known(l) => doc'[l].active = doc[l].active
      <4>1. ASSUME UNCHANGED doc
            PROVE  DocsSame /\ \A l \in Locators : Known(l) => doc'[l].active = doc[l].active
        BY <1>1, <4>1, DocsUnchanged
      <4>2. ASSUME enqueueIndex(w) \/ enqueueIndexFails(w)
            PROVE  DocsSame /\ \A k \in Locators : Known(k) => doc'[k].active = doc[k].active
        <5>1. PICK j \in worker[w].made : SetIndexJob(j, "SENT") \/ SetIndexJob(j, "DEAD_LETTER")
          BY <4>2 DEF enqueueIndex, enqueueIndexFails
        <5>2. IsSound(w) /\ "SENT" \in Jobs /\ "DEAD_LETTER" \in Jobs
          BY <1>1 DEF WorkersAreSound, Jobs
        <5> QED BY <1>1, <5>1, <5>2, IndexJobsAreSet
      <4>3. enqueueIndex(w) \/ enqueueIndexFails(w) \/ UNCHANGED doc
        BY <1>3, <2>3 DEF WorkerActs, WorkerStep, take, ensureRunFind, ensureRunInsert, claim,
             skip, scanFolder, refuseFile, finish, fail, fileFails, refreshThrows, workerDies
      <4> QED BY <4>1, <4>2, <4>3
    <3>3. spent.overlapped => spent'.overlapped
      BY <1>1, <1>3, WorkerCounts
    <3>4. Effect(w)
      BY <1>1, <1>3, WorkerEffect
    <3>5. \A v \in Workers : worker'[v].phase = "Files" =>
            \/ worker'[v].prev = snap
            \/ /\ worker[v].phase = "Files" /\ worker'[v].todo \subseteq worker[v].todo
               /\ worker'[v].prev = worker[v].prev /\ worker'[v].scan = worker[v].scan
      BY <3>4 DEF Effect
    <3>6. \A v \in Workers : worker'[v].phase \in {"MarkDeleted", "Enqueue"} =>
            /\ worker[v].phase \in {"MarkDeleted", "Enqueue"}
            /\ worker'[v].scan = worker[v].scan
      BY <2>3, <3>4 DEF Effect
    <3> QED BY <3>1, <3>2, <3>3, <3>5, <3>6, ContentKept
  <2> QED BY <2>1, <2>2, <2>3
<1> QED BY <1>2, <1>3, NextSplits

-----------------------------------------------------------------------------
(* Theorems. *)

LEMMA InitiallyInv == Init => RefreshInv
<1> SUFFICES ASSUME Init PROVE RefreshInv
  OBVIOUS
<1> USE RefreshAssumption
<1>1. IdleWorker \in WorkerRows /\ IdleRequest \in RequestRows
  BY DEF IdleWorker, IdleRequest, WorkerRows, RequestRows, Phases, RunIds, Stamps
<1>2. /\ IdleWorker.phase = "Idle" /\ IdleWorker.todo = {} /\ IdleWorker.made = {}
      /\ \A l \in Locators : IdleWorker.prev[l] = NoRow
  BY DEF IdleWorker
<1>3. spent \in Spendings
  BY DEF Init, Spendings
<1>4. queue \in [RunIds -> [1..Deliveries -> Nat]]
  BY DEF Init, RunIds
<1>5. RefreshTypes
  BY <1>1, <1>3, <1>4 DEF Init, RefreshTypes, Stamps
<1>6. \A w \in Workers : worker[w] = IdleWorker
  BY DEF Init
<1>7. WorkersAreSound
  BY <1>2, <1>6 DEF WorkersAreSound, IsSound
<1>8. \A w \in Workers : ~IsRefreshing(w)
  BY <1>2, <1>6 DEF IsRefreshing
<1>9. \A l \in Locators : snap[l] = NoRow /\ ~Known(l)
  BY DEF Init, Known
<1>10. ScanIsFresh /\ DeletedFilesAreHidden
  BY <1>2, <1>6 DEF ScanIsFresh, DeletedFilesAreHidden
<1> QED BY <1>5, <1>7, <1>8, <1>9, <1>10 DEF RefreshInv, RowsFit, AttendedIsClaimed,
     OneWorkerPerRun, OneRefresh, SnapshotsFollowDocuments

LEMMA RefreshInvariant == Spec => []RefreshInv
<1>1. RefreshInv /\ [Next]_vars => RefreshInv'
  BY TypesStep, OwnersStep, ContentStep DEF RefreshInv
<1> QED BY InitiallyInv, <1>1, PTL DEF Spec

\* The variables of the refresh keep to their types; a worker acts on rows that exist.
THEOREM TypeCorrect == Spec => []TypeOK
<1>1. RefreshInv => TypeOK
  <2> SUFFICES ASSUME RefreshInv PROVE TypeOK
    OBVIOUS
  <2>1. RefreshTypes
    BY DEF RefreshInv
  <2>2. ASSUME NEW w \in Workers
        PROVE  /\ worker[w].phase \in Phases
               /\ worker[w].phase \in Phases \ {"Idle", "Ensure", "Insert"} => worker[w].run \in Runs
               /\ worker[w].msg \in Runs \cup {NoRun} /\ worker[w].left \in 0..Deliveries
               /\ \A l \in Locators : worker[w].prev[l] = NoRow \/ worker[w].prev[l] \in SnapRows
               /\ worker[w].scan \in [Locators -> Contents \cup {Absent}]
               /\ worker[w].stamps \in [Locators -> Stamps]
               /\ worker[w].todo \subseteq Locators
               /\ \A j \in worker[w].made : doc[j[1]] # NoRow /\ j[2] \in DOMAIN doc[j[1]].versions
    <3>1. IsSound(w) /\ worker[w] \in WorkerRows
      BY <2>1 DEF RefreshInv, WorkersAreSound, RefreshTypes
    <3>2. /\ worker[w].phase \in Phases /\ worker[w].msg \in RunIds /\ worker[w].left \in 0..Deliveries
          /\ worker[w].prev \in [Locators -> SnapRows \cup {NoRow}]
          /\ worker[w].scan \in [Locators -> Contents \cup {Absent}]
          /\ worker[w].stamps \in [Locators -> Stamps]
          /\ worker[w].todo \subseteq Locators
      BY <3>1 DEF WorkerRows
    <3> QED BY <3>1, <3>2 DEF IsSound, Known, RunIds
  <2>3. /\ \A l \in Locators : doc[l] = NoRow \/ doc[l] \in DocRows
        /\ \A l \in Locators : snap[l] = NoRow \/ snap[l] \in SnapRows
    BY <2>1 DEF RefreshTypes
  <2> QED BY <2>1, <2>2, <2>3 DEF TypeOK, RefreshTypes, RequestRows, Spendings, RunIds
<1> QED BY <1>1, RefreshInvariant, PTL

\* The claim is a mutual exclusion: two workers are inside one run only after recovery has
\* taken somebody alive for dead, for any number of messages, deliveries and deaths.
THEOREM RunsAreWorkedOnOnce == Spec => []OneWorkerPerRun
<1>1. RefreshInv => OneWorkerPerRun
  BY DEF RefreshInv
<1> QED BY <1>1, RefreshInvariant, PTL

\* The version history of a document has each content once and the document the newest,
\* also when refreshes overlap: the transaction and the unique keys are enough.
THEOREM HistoriesAreSound == Spec => []DocumentsAreNewestVersions
<1>1. RefreshInv => DocumentsAreNewestVersions
  BY DEF RefreshInv, RowsFit, IsNewest, DocumentsAreNewestVersions, Sums
<1> QED BY <1>1, RefreshInvariant, PTL

\* A change that shows in the checksum of a file is not overlooked: alone, a refresh of a
\* folder compares with the checksum that the document has.
THEOREM ChangesAreSeen == Spec => []SnapshotsFollowDocuments
<1>1. RefreshInv => SnapshotsFollowDocuments
  BY DEF RefreshInv
<1> QED BY <1>1, RefreshInvariant, PTL

\* What a refresh did not see is out of retrieval before it goes on to its index jobs.
THEOREM DeletionsAreSeen == Spec => []DeletedFilesAreHidden
<1>1. RefreshInv => DeletedFilesAreHidden
  BY DEF RefreshInv
<1> QED BY <1>1, RefreshInvariant, PTL
=============================================================================
