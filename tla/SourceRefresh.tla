---------------------------- MODULE SourceRefresh ----------------------------
(***************************************************************************)
(* Refreshing a shared folder or a Google Drive folder                     *)
(* (packages/knowledge/refresh-source.ts): runs that a user or the         *)
(* schedule starts, the messages that name them, the workers that compare  *)
(* the files with the snapshots of the last refresh and write documents,   *)
(* versions and index jobs, and the recovery of runs and jobs.             *)
(*                                                                         *)
(* A checksum stands for its content, and a stamp for the size and the     *)
(* modification time by which a folder's files are compared first.  Other  *)
(* metadata and counters are left out; a limit that is exceeded, a link    *)
(* that is refused and a folder that cannot be read are one error,         *)
(* refreshThrows.  What becomes of an index job once its message is sent   *)
(* is the business of DocumentIndex.  COMPLETED, PARTIAL and FAILED are    *)
(* one status, FINISHED; a worker's errors tell COMPLETED from PARTIAL.    *)
(* The id of a finished run may stand for a later run.                     *)
(***************************************************************************)
EXTENDS Naturals, Sequences, FiniteSets

CONSTANTS Locators,    \* stable names of the files of the source
          NameOf,      \* NameOf[l]: the document name of a Drive file
          Kinds,       \* kinds of source: SHARED_FOLDER, GOOGLE_DRIVE
          Runs,        \* ids of refresh runs
          Workers,     \* concurrent deliveries
          Requests,    \* manual refreshes in flight at once
          NoRun,       \* a scheduled message names no run
          NoRow,       \* no snapshot, no document
          Reverts,     \* may an earlier content, or a deleted file, come back?
          Deliveries,  \* "attempts" of a queue message
          MaxWrites,   \* bound: changes of files, and contents
          MaxStarts,   \* bound: manual refreshes
          MaxFaults,   \* bound: dead processes, queue outages, failing calls
          MaxLapses,   \* bound: recoveries of what somebody alive is at work on
          MaxEvents    \* bound: all of these together

Contents == 1..MaxWrites
Absent == 0    \* the content of a file that is not there

Versions == [sum: Contents, bytes: Contents, job: {"QUEUED", "SENT", "DEAD_LETTER"}]
DocRows == [sum: Contents, active: BOOLEAN, versions: Seq(Versions)]
Stamps == 0..MaxWrites
SnapRows == [sum: Contents, stamp: Stamps, status: {"ACTIVE", "DELETED"}]

ASSUME RefreshAssumption ==
  /\ Kinds \subseteq {"SHARED_FOLDER", "GOOGLE_DRIVE"}
  /\ NoRun \notin Runs
  /\ NoRow \notin DocRows /\ NoRow \notin SnapRows
  /\ Reverts \in BOOLEAN
  /\ Deliveries \in Nat \ {0} /\ MaxWrites \in Nat /\ MaxStarts \in Nat
  /\ MaxFaults \in Nat /\ MaxLapses \in Nat /\ MaxEvents \in Nat

VARIABLES
  kind,        \* the kind of the source
  file,        \* file[l]: what the folder holds
  stamp,       \* stamp[l]: the size and time of file l (of a shared folder)
  doc,         \* doc[l]: the Document row and its versions with their index jobs
  snap,        \* snap[l]: the SourceSnapshot row
  run,         \* run[r]: status of the SourceRefreshRun row
  queue,       \* queue[r][n]: waiting messages for run r with n deliveries left
  worker,      \* worker[w]: the delivery it handles and what it has read
  request,     \* request[q]: likewise for the web process
  recovering,  \* runs that the recovery loop has reset and not enqueued yet
  spent        \* what the bounds count; whether two refreshes ever overlapped

vars == <<kind, file, stamp, doc, snap, run, queue, worker, request, recovering, spent>>

Phases == {"Idle", "Ensure", "Insert", "Claim", "Scan", "Files", "MarkDeleted", "Enqueue", "Fail"}

IdleWorker == [phase |-> "Idle", msg |-> NoRun, left |-> 0, run |-> NoRun,
               prev |-> [l \in Locators |-> NoRow], scan |-> [l \in Locators |-> Absent],
               stamps |-> [l \in Locators |-> 0],
               todo |-> {}, made |-> {}, errors |-> FALSE]
IdleRequest == [phase |-> "Idle", run |-> NoRun]

TypeOK ==
  /\ kind \in Kinds
  /\ file \in [Locators -> Contents \cup {Absent}]
  /\ stamp \in [Locators -> Stamps]
  /\ \A l \in Locators : doc[l] = NoRow \/ doc[l] \in DocRows
  /\ \A l \in Locators : snap[l] = NoRow \/ snap[l] \in SnapRows
  /\ run \in [Runs -> {"QUEUED", "PROCESSING", "FINISHED"}]
  /\ queue \in [Runs \cup {NoRun} -> [1..Deliveries -> Nat]]
  /\ \A w \in Workers :
       /\ worker[w].phase \in Phases
       /\ worker[w].phase \in Phases \ {"Idle", "Ensure", "Insert"} => worker[w].run \in Runs
       /\ worker[w].msg \in Runs \cup {NoRun} /\ worker[w].left \in 0..Deliveries
       /\ \A l \in Locators : worker[w].prev[l] = NoRow \/ worker[w].prev[l] \in SnapRows
       /\ worker[w].scan \in [Locators -> Contents \cup {Absent}]
       /\ worker[w].stamps \in [Locators -> Stamps]
       /\ worker[w].todo \subseteq Locators
       /\ \A j \in worker[w].made : doc[j[1]] # NoRow /\ j[2] \in DOMAIN doc[j[1]].versions
  /\ request \in [Requests -> [phase: {"Idle", "Create", "Add", "Record"}, run: Runs \cup {NoRun}]]
  /\ recovering \subseteq Runs
  /\ spent \in [writes: 0..MaxWrites, starts: 0..MaxStarts, faults: 0..MaxFaults,
                lapses: 0..MaxLapses, overlapped: BOOLEAN]

Init ==
  /\ kind \in Kinds
  /\ file = [l \in Locators |-> Absent]
  /\ stamp = [l \in Locators |-> 0]
  /\ doc = [l \in Locators |-> NoRow]
  /\ snap = [l \in Locators |-> NoRow]
  /\ run = [r \in Runs |-> "FINISHED"]
  /\ queue = [r \in Runs \cup {NoRun} |-> [n \in 1..Deliveries |-> 0]]
  /\ worker = [w \in Workers |-> IdleWorker]
  /\ request = [q \in Requests |-> IdleRequest]
  /\ recovering = {}
  /\ spent = [writes |-> 0, starts |-> 0, faults |-> 0, lapses |-> 0, overlapped |-> FALSE]

-----------------------------------------------------------------------------
MayGoOn == spent.writes + spent.starts + spent.faults + spent.lapses < MaxEvents
CountFault == /\ MayGoOn /\ spent.faults < MaxFaults
              /\ spent' = [spent EXCEPT !.faults = @ + 1]
CountLapse == /\ MayGoOn /\ spent.lapses < MaxLapses
              /\ spent' = [spent EXCEPT !.lapses = @ + 1]

ActiveRuns == {r \in Runs : run[r] \in {"QUEUED", "PROCESSING"}}
Waiting(r) == \E n \in 1..Deliveries : queue[r][n] > 0
Added(r) == [queue EXCEPT ![r][Deliveries] = @ + 1]
Redelivered(w) == IF worker[w].left = 0 THEN queue
                  ELSE [queue EXCEPT ![worker[w].msg][worker[w].left] = @ + 1]

\* The code between the claim of a run and the write of its result.
IsRefreshing(w) == worker[w].phase \in {"Scan", "Files", "MarkDeleted", "Enqueue", "Fail"}
Attended(r) == \E w \in Workers : IsRefreshing(w) /\ worker[w].run = r
\* Nobody holds the id of this run any more, so it can stand for a new row.
Free(r) == /\ run[r] = "FINISHED" /\ ~Waiting(r) /\ r \notin recovering
           /\ \A w \in Workers : worker[w].run # r
           /\ \A q \in Requests : request[q].run # r

Known(l) == doc[l] # NoRow
Sums(l) == {doc[l].versions[n].sum : n \in DOMAIN doc[l].versions}
DocumentName(l) == IF kind = "GOOGLE_DRIVE" THEN NameOf[l] ELSE l
Goto(w, phase) == worker' = [worker EXCEPT ![w].phase = phase]

-----------------------------------------------------------------------------
(* The folder, the users and the schedule. *)

Change(l, c, s) ==
  /\ MayGoOn /\ spent.writes < MaxWrites
  /\ file[l] # c
  /\ file' = [file EXCEPT ![l] = c]
  /\ stamp' = [stamp EXCEPT ![l] = s]
  /\ spent' = [spent EXCEPT !.writes = @ + 1]
  /\ UNCHANGED <<kind, doc, snap, run, queue, worker, request, recovering>>

\* A write may leave size and time as they were: another content of the same length with
\* a time that was set back, or within the resolution of the clock.
KeptStamps(l) == IF stamp[l] # 0 /\ (Reverts \/ file[l] # Absent) THEN {stamp[l]} ELSE {}
NextStamps(l) ==
  IF kind = "GOOGLE_DRIVE" THEN {stamp[l]} ELSE KeptStamps(l) \cup {spent.writes + 1}

\* Contents are numbered in the order in which they are written first.
writeFile(l) ==
  \E c \in Contents : /\ IF Reverts THEN c <= spent.writes + 1 ELSE c = spent.writes + 1
                     /\ \E s \in NextStamps(l) : Change(l, c, s)

deleteFile(l) == Change(l, Absent, stamp[l])

\* startSourceRefresh: the count, the insert, the message.
startCheck(q) ==
  /\ request[q].phase = "Idle"
  /\ MayGoOn /\ spent.starts < MaxStarts
  /\ ActiveRuns = {}
  /\ request' = [request EXCEPT ![q].phase = "Create"]
  /\ spent' = [spent EXCEPT !.starts = @ + 1]
  /\ UNCHANGED <<kind, file, stamp, doc, snap, run, queue, worker, recovering>>

startCreate(q) ==
  /\ request[q].phase = "Create"
  /\ \E r \in Runs :
       /\ Free(r)
       /\ run' = [run EXCEPT ![r] = "QUEUED"]
       /\ request' = [request EXCEPT ![q] = [phase |-> "Add", run |-> r]]
  /\ UNCHANGED <<kind, file, stamp, doc, snap, queue, worker, recovering, spent>>

startAdd(q) ==
  /\ request[q].phase = "Add"
  /\ queue' = Added(request[q].run)
  /\ request' = [request EXCEPT ![q].phase = "Record"]
  /\ UNCHANGED <<kind, file, stamp, doc, snap, run, worker, recovering, spent>>

\* The number of the message and the audit row.
startRecord(q) ==
  /\ request[q].phase = "Record"
  /\ request' = [request EXCEPT ![q] = IdleRequest]
  /\ UNCHANGED <<kind, file, stamp, doc, snap, run, queue, worker, recovering, spent>>

\* The queue is full or down, or a row after the message is not written: the run is written
\* back by its id, wherever it is.
startFails(q) ==
  /\ request[q].phase \in {"Add", "Record"}
  /\ CountFault
  /\ run' = [run EXCEPT ![request[q].run] = "FINISHED"]
  /\ request' = [request EXCEPT ![q] = IdleRequest]
  /\ UNCHANGED <<kind, file, stamp, doc, snap, queue, worker, recovering>>

requestDies(q) ==
  /\ request[q].phase # "Idle"
  /\ CountFault
  /\ request' = [request EXCEPT ![q] = IdleRequest]
  /\ UNCHANGED <<kind, file, stamp, doc, snap, run, queue, worker, recovering>>

\* The job scheduler keeps one message ahead.
tick ==
  /\ ~Waiting(NoRun)
  /\ queue' = Added(NoRun)
  /\ UNCHANGED <<kind, file, stamp, doc, snap, run, worker, request, recovering, spent>>

-----------------------------------------------------------------------------
(* processSourceRefreshJob. *)

take(w, m) ==
  /\ worker[w].phase = "Idle"
  /\ \E n \in 1..Deliveries :
       /\ queue[m][n] > 0
       /\ queue' = [queue EXCEPT ![m][n] = @ - 1]
       /\ worker' = [worker EXCEPT ![w] =
            [IdleWorker EXCEPT !.phase = IF m = NoRun THEN "Ensure" ELSE "Claim",
                               !.msg = IF n = 1 THEN NoRun ELSE m, !.left = n - 1, !.run = m]]
  /\ UNCHANGED <<kind, file, stamp, doc, snap, run, request, recovering, spent>>

\* ensureRun: the newest active run, else a new one.  Which of two active runs is the
\* newest is left open.
ensureRunFind(w) ==
  /\ worker[w].phase = "Ensure"
  /\ IF ActiveRuns = {}
     THEN Goto(w, "Insert")
     ELSE \E r \in ActiveRuns :
            worker' = [worker EXCEPT ![w].phase = "Claim", ![w].run = r]
  /\ UNCHANGED <<kind, file, stamp, doc, snap, run, queue, request, recovering, spent>>

ensureRunInsert(w) ==
  /\ worker[w].phase = "Insert"
  /\ \E r \in Runs :
       /\ Free(r)
       /\ run' = [run EXCEPT ![r] = "QUEUED"]
       /\ worker' = [worker EXCEPT ![w].phase = "Claim", ![w].run = r]
  /\ UNCHANGED <<kind, file, stamp, doc, snap, queue, request, recovering, spent>>

\* The update that takes a QUEUED run, and the return when it took none.
\* Mutant: the claim does not look for QUEUED.
ClaimableActive(r) == run[r] \in {"QUEUED", "PROCESSING"}
Claimable(r) == run[r] = "QUEUED"

claim(w) ==
  /\ worker[w].phase = "Claim"
  /\ Claimable(worker[w].run)
  /\ run' = [run EXCEPT ![worker[w].run] = "PROCESSING"]
  /\ Goto(w, "Scan")
  /\ spent' = [spent EXCEPT !.overlapped = @ \/ \E v \in Workers : IsRefreshing(v)]
  /\ UNCHANGED <<kind, file, stamp, doc, snap, queue, request, recovering>>

skip(w) ==
  /\ worker[w].phase = "Claim"
  /\ ~Claimable(worker[w].run)
  /\ worker' = [worker EXCEPT ![w] = IdleWorker]
  /\ UNCHANGED <<kind, file, stamp, doc, snap, run, queue, request, recovering, spent>>

\* The size and time that the last refresh saw: scanSharedFolder then takes the checksum
\* that it stored, without reading the file.
LooksUnchanged(l) ==
  kind = "SHARED_FOLDER" /\ snap[l] # NoRow /\ snap[l].stamp = stamp[l]

FoundSum(l) == IF file[l] # Absent /\ LooksUnchanged(l) THEN snap[l].sum ELSE file[l]

\* The snapshots and the files, read one after the other.
scanFolder(w) ==
  /\ worker[w].phase = "Scan"
  /\ worker' = [worker EXCEPT ![w].phase = "Files", ![w].prev = snap,
                              ![w].scan = [l \in Locators |-> FoundSum(l)],
                              ![w].stamps = stamp,
                              ![w].todo = {l \in Locators : file[l] # Absent}]
  /\ UNCHANGED <<kind, file, stamp, doc, snap, run, queue, request, recovering, spent>>

Unchanged(w, l) == worker[w].prev[l] # NoRow /\ worker[w].prev[l].sum = worker[w].scan[l]
Changed(w, l) == ~Unchanged(w, l)
FileDone(w, l) == worker' = [worker EXCEPT ![w].todo = @ \ {l}]
FileFailed(w, l) == worker' = [worker EXCEPT ![w].todo = @ \ {l}, ![w].errors = TRUE]
upsertSnapshot(w, l) ==
  snap' = [snap EXCEPT ![l] = [sum |-> worker[w].scan[l], stamp |-> worker[w].stamps[l],
                               status |-> "ACTIVE"]]

\* The checksum of a version: of the scan for a folder, of the download for Drive.
StoredSum(w, l) == IF kind = "GOOGLE_DRIVE" THEN file[l] ELSE worker[w].scan[l]

\* createVersion for a document that has this content already.
\* Mutant: the checksum is not compared.
ReactivatesAny(l, sum) == Known(l)
Reactivates(l, sum) == Known(l) /\ doc[l].sum = sum

\* The unique keys: one version per content of a document, one document per name.
\* Mutant: there are none.
ViolatesNoUnique(l, sum) == FALSE
ViolatesUnique(l, sum) ==
  \/ Known(l) /\ sum \in Sums(l)
  \/ ~Known(l) /\ \E k \in Locators : Known(k) /\ DocumentName(k) = DocumentName(l)

Version(sum, bytes) == [sum |-> sum, bytes |-> bytes, job |-> "QUEUED"]
createVersion(l, sum, bytes) ==
  doc' = [doc EXCEPT ![l] =
    [sum |-> sum, active |-> TRUE,
     versions |-> (IF Known(l) THEN doc[l].versions ELSE << >>) \o <<Version(sum, bytes)>>]]
\* Mutant: the versions are counted, without one more.
VersionCount(l) == IF Known(l) THEN Len(doc[l].versions) ELSE 0
NewestVersion(l) == IF Known(l) THEN Len(doc[l].versions) + 1 ELSE 1

\* One turn of the loop over the files, one transaction.
keepFile(w, l) ==
  /\ worker[w].phase = "Files" /\ l \in worker[w].todo
  /\ Unchanged(w, l)
  /\ upsertSnapshot(w, l)
  /\ FileDone(w, l)
  /\ UNCHANGED <<kind, file, stamp, doc, run, queue, request, recovering, spent>>

reactivateFile(w, l) ==
  /\ worker[w].phase = "Files" /\ l \in worker[w].todo
  /\ Changed(w, l)
  /\ file[l] # Absent
  /\ Reactivates(l, StoredSum(w, l))
  /\ doc' = [doc EXCEPT ![l].active = TRUE]
  /\ upsertSnapshot(w, l)
  /\ FileDone(w, l)
  /\ UNCHANGED <<kind, file, stamp, run, queue, request, recovering, spent>>

storeFile(w, l) ==
  /\ worker[w].phase = "Files" /\ l \in worker[w].todo
  /\ Changed(w, l)
  /\ file[l] # Absent
  /\ ~Reactivates(l, StoredSum(w, l))
  /\ ~ViolatesUnique(l, StoredSum(w, l))
  /\ createVersion(l, StoredSum(w, l), file[l])
  /\ upsertSnapshot(w, l)
  /\ worker' = [worker EXCEPT ![w].todo = @ \ {l}, ![w].made = @ \cup {<<l, NewestVersion(l)>>}]
  /\ UNCHANGED <<kind, file, stamp, run, queue, request, recovering, spent>>

\* The file has gone since the scan, or a unique key refuses its rows.
refuseFile(w, l) ==
  /\ worker[w].phase = "Files" /\ l \in worker[w].todo
  /\ Changed(w, l)
  /\ \/ file[l] = Absent
     \/ ~Reactivates(l, StoredSum(w, l)) /\ ViolatesUnique(l, StoredSum(w, l))
  /\ FileFailed(w, l)
  /\ UNCHANGED <<kind, file, stamp, doc, snap, run, queue, request, recovering, spent>>

\* Any other error of the transaction: reading, downloading, storing, the database.
fileFails(w, l) ==
  /\ worker[w].phase = "Files" /\ l \in worker[w].todo
  /\ CountFault
  /\ FileFailed(w, l)
  /\ UNCHANGED <<kind, file, stamp, doc, snap, run, queue, request, recovering>>

\* Snapshots of earlier refreshes whose files were not seen in this one.
\* Mutant: not after an error.
DeletedWithoutErrors(w) == IF worker[w].errors THEN {} ELSE
  {l \in Locators : worker[w].prev[l] # NoRow /\ worker[w].scan[l] = Absent}
Deleted(w) == {l \in Locators : worker[w].prev[l] # NoRow /\ worker[w].scan[l] = Absent}

\* From here on the snapshots that were read are not used any more.
Settled(w) == worker' = [worker EXCEPT ![w].phase = "Enqueue", ![w].prev = IdleWorker.prev,
                                         ![w].stamps = IdleWorker.stamps]

deactivate(w) ==
  /\ worker[w].phase = "Files" /\ worker[w].todo = {}
  /\ doc' = [l \in Locators |-> IF l \in Deleted(w) THEN [doc[l] EXCEPT !.active = FALSE]
                                ELSE doc[l]]
  /\ IF Deleted(w) = {} THEN Settled(w) ELSE Goto(w, "MarkDeleted")
  /\ UNCHANGED <<kind, file, stamp, snap, run, queue, request, recovering, spent>>

markDeleted(w) ==
  /\ worker[w].phase = "MarkDeleted"
  /\ snap' = [l \in Locators |-> IF l \in Deleted(w) THEN [snap[l] EXCEPT !.status = "DELETED"]
                                 ELSE snap[l]]
  /\ Settled(w)
  /\ UNCHANGED <<kind, file, stamp, doc, run, queue, request, recovering, spent>>

SetIndexJob(j, status) == doc' = [doc EXCEPT ![j[1]].versions[j[2]].job = status]

enqueueIndex(w) ==
  /\ worker[w].phase = "Enqueue"
  /\ \E j \in worker[w].made :
       /\ SetIndexJob(j, "SENT")
       /\ worker' = [worker EXCEPT ![w].made = @ \ {j}]
  /\ UNCHANGED <<kind, file, stamp, snap, run, queue, request, recovering, spent>>

\* The queue is full or down.
enqueueIndexFails(w) ==
  /\ worker[w].phase = "Enqueue"
  /\ CountFault
  /\ \E j \in worker[w].made :
       /\ SetIndexJob(j, "DEAD_LETTER")
       /\ worker' = [worker EXCEPT ![w].made = @ \ {j}, ![w].errors = TRUE]
  /\ UNCHANGED <<kind, file, stamp, snap, run, queue, request, recovering>>

finish(w) ==
  /\ worker[w].phase = "Enqueue" /\ worker[w].made = {}
  /\ run' = [run EXCEPT ![worker[w].run] = "FINISHED"]
  /\ worker' = [worker EXCEPT ![w] = IdleWorker]
  /\ UNCHANGED <<kind, file, stamp, doc, snap, queue, request, recovering, spent>>

\* The scan or a statement outside the loop over the files throws.
refreshThrows(w) ==
  /\ \/ worker[w].phase \in {"Scan", "MarkDeleted"}
     \/ worker[w].phase = "Files" /\ worker[w].todo = {}
  /\ CountFault
  /\ Goto(w, "Fail")
  /\ UNCHANGED <<kind, file, stamp, doc, snap, run, queue, request, recovering>>

fail(w) ==
  /\ worker[w].phase = "Fail"
  /\ run' = [run EXCEPT ![worker[w].run] = "FINISHED"]
  /\ queue' = Redelivered(w)
  /\ worker' = [worker EXCEPT ![w] = IdleWorker]
  /\ UNCHANGED <<kind, file, stamp, doc, snap, request, recovering, spent>>

\* The process dies, or the queue takes it for dead: the message is delivered again.
workerDies(w) ==
  /\ worker[w].phase # "Idle"
  /\ CountFault
  /\ queue' = Redelivered(w)
  /\ worker' = [worker EXCEPT ![w] = IdleWorker]
  /\ UNCHANGED <<kind, file, stamp, doc, snap, run, request, recovering>>

-----------------------------------------------------------------------------
(* recoverStaleOperations.  A run has no heartbeat: what counts is the age of startedAt, *)
(* so a refresh that takes long is recovered although its worker lives.                  *)

\* Mutant: runs that nobody has claimed.
StaleQueuedRun(r) == run[r] = "QUEUED"
StaleRun(r) == run[r] = "PROCESSING"

recoverRun(r) ==
  /\ StaleRun(r)
  /\ IF Attended(r) THEN CountLapse ELSE UNCHANGED spent
  /\ run' = [run EXCEPT ![r] = "QUEUED"]
  /\ recovering' = recovering \cup {r}
  /\ UNCHANGED <<kind, file, stamp, doc, snap, queue, worker, request>>

recoverAdd(r) ==
  /\ r \in recovering
  /\ queue' = Added(r)
  /\ recovering' = recovering \ {r}
  /\ UNCHANGED <<kind, file, stamp, doc, snap, run, worker, request, spent>>

\* The queue is full or down, or the recovering process dies.
recoverAddFails(r) ==
  /\ r \in recovering
  /\ CountFault
  /\ recovering' = recovering \ {r}
  /\ UNCHANGED <<kind, file, stamp, doc, snap, run, queue, worker, request>>

\* A QUEUED index job whose row is old gets a message.
recoverJob(l) ==
  /\ Known(l)
  /\ \E n \in DOMAIN doc[l].versions :
       /\ doc[l].versions[n].job = "QUEUED"
       /\ IF \E w \in Workers : <<l, n>> \in worker[w].made
          THEN CountLapse ELSE UNCHANGED spent
       /\ SetIndexJob(<<l, n>>, "SENT")
  /\ UNCHANGED <<kind, file, stamp, snap, run, queue, worker, request, recovering>>

-----------------------------------------------------------------------------
WorkerStep(w) ==
  \/ ensureRunFind(w) \/ ensureRunInsert(w) \/ claim(w) \/ skip(w) \/ scanFolder(w)
  \/ \E l \in Locators : \/ keepFile(w, l) \/ reactivateFile(w, l)
                         \/ storeFile(w, l) \/ refuseFile(w, l)
  \/ deactivate(w) \/ markDeleted(w) \/ enqueueIndex(w) \/ finish(w) \/ fail(w)

RequestStep(q) == startCreate(q) \/ startAdd(q) \/ startRecord(q)
RecoveryStep(r) == (recoverRun(r) /\ UNCHANGED spent) \/ recoverAdd(r)

Next ==
  \/ \E l \in Locators : writeFile(l) \/ deleteFile(l) \/ recoverJob(l)
  \/ \E q \in Requests : startCheck(q) \/ RequestStep(q) \/ startFails(q) \/ requestDies(q)
  \/ tick
  \/ \E w \in Workers :
       \/ \E m \in Runs \cup {NoRun} : take(w, m)
       \/ WorkerStep(w)
       \/ \E l \in Locators : fileFails(w, l)
       \/ enqueueIndexFails(w) \/ refreshThrows(w) \/ workerDies(w)
  \/ \E r \in Runs : recoverRun(r) \/ recoverAdd(r) \/ recoverAddFails(r)

Spec == Init /\ [][Next]_vars

\* Workers and requests go on; the queue hands out every message; the schedule and the
\* recovery timer fire.  Users, faults and lapses are not fair.
FairSpec ==
  /\ Spec
  /\ WF_vars(tick)
  /\ \A w \in Workers : WF_vars(WorkerStep(w))
  /\ \A m \in Runs \cup {NoRun} : SF_vars(\E w \in Workers : take(w, m))
  /\ \A q \in Requests : WF_vars(RequestStep(q))
  /\ \A r \in Runs : WF_vars(RecoveryStep(r))
  /\ \A l \in Locators : WF_vars(recoverJob(l) /\ UNCHANGED spent)

-----------------------------------------------------------------------------
(* Properties. *)

\* A run is worked on once: two workers are inside the same run only after recovery has
\* taken a living one for dead (docs/phase4-execution.md:12, "Atomic database claims").
OneWorkerPerRun ==
  spent.lapses = 0 =>
    \A v, w \in Workers :
      v # w /\ IsRefreshing(v) /\ IsRefreshing(w) => worker[v].run # worker[w].run

\* A document carries the content of its newest version and never has two versions of one
\* content, whichever refreshes overlap, fail half way or are repeated.
DocumentsAreNewestVersions ==
  \A l \in Locators : Known(l) =>
    /\ doc[l].versions # << >>
    /\ doc[l].sum = doc[l].versions[Len(doc[l].versions)].sum
    /\ Cardinality(Sums(l)) = Len(doc[l].versions)

\* Every snapshot has its document, and a folder's snapshot, with which the next refresh
\* compares the files, names the checksum that the document has: a change that shows in the
\* checksum of a file is not taken for one that is stored already.  (A change that leaves
\* size and time as they were does not show in it: see Overlooked.)
SnapshotsFollowDocuments ==
  \A l \in Locators : snap[l] # NoRow =>
    /\ Known(l)
    /\ kind = "SHARED_FOLDER" /\ ~spent.overlapped => snap[l].sum = doc[l].sum

\* Acceptance criterion of phase 4 (docs/insightkm-development-plan.md:345): after a refresh
\* has compared the folder, no document of a file that it did not see is retrieved.
DeletedFilesAreHidden ==
  \A w \in Workers : worker[w].phase \in {"MarkDeleted", "Enqueue"} /\ ~spent.overlapped =>
    \A l \in Locators : Known(l) /\ doc[l].active => worker[w].scan[l] # Absent

\* The file was changed, but has the size and time under which its snapshot has another
\* content: no refresh sees the change until the file is written again.
Overlooked(l) == LooksUnchanged(l) /\ snap[l].sum # file[l]

Mirrors(l) == IF file[l] = Absent
              THEN Known(l) => ~doc[l].active
              ELSE /\ Known(l) /\ doc[l].active
                   /\ \/ doc[l].versions[Len(doc[l].versions)].bytes = file[l]
                      \/ Overlooked(l)

\* A refresh without errors is complete: when it ends as COMPLETED, every file it saw is an
\* active document of the checksum it found or a later one, unless an earlier content or a
\* deleted file came back (no version is created then) or refreshes overlapped.
CompletedMeansComplete ==
  \A w \in Workers :
    worker[w].phase = "Enqueue" /\ ~worker[w].errors /\ ~spent.overlapped /\ ~Reverts =>
      \A l \in Locators : worker[w].scan[l] # Absent =>
        Known(l) /\ doc[l].active /\ doc[l].sum >= worker[w].scan[l]

\* A refresh that says COMPLETED has done its part, and once the folder is left alone, the
\* documents become its files and stay so, with their present bytes (but for a change that
\* size and time do not show) and no index job forgotten, whatever runs died, failed or lost
\* their message, unless two refreshes overlapped.  It is about sources with a schedule, which
\* a user has to switch on, and about Drive files whose names differ: of two with one name
\* the second is refused for good (ViolatesUnique).
RefreshConverges ==
  /\ []CompletedMeansComplete
  /\ ~Reverts => <>[](\/ spent.overlapped
                     \/ \A l \in Locators :
                          /\ Mirrors(l)
                          /\ Known(l) => \A n \in DOMAIN doc[l].versions :
                                            doc[l].versions[n].job # "QUEUED")
=============================================================================
