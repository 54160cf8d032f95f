# Formal models of InsightKM's long-running operations

TLA+ modules, model-checking configurations and proofs for the parts of this repository in
which several processes, requests or tabs share rows: the analysis pipeline that turns a
connected database into a dashboard, the page that drives it and the review that publishes
it; the refreshing of sources and the indexing of documents by queue workers; and ten
services in which requests overlap, from the circuit breaker of the AI providers to the
consent a chat's memory rests on. Every action is translated from the TypeScript and SQL under
`src/`; `PROJECT.json` maps each definition to the lines it stands for.

## 1. Inventory

The application is a Next.js web process (server actions and route handlers), a NestJS
worker process (`apps/worker`), PostgreSQL (through Prisma and `pg`), and Redis with one
BullMQ queue. No in-memory lock spans two requests: coordination is by the WHERE clauses of
updates, by unique constraints, and by timestamps that are compared with "five minutes ago"
or with `staleBefore`.

| Component | State it keeps | Operations | Hard behaviour | What makes it correct |
| --- | --- | --- | --- | --- |
| Analysis jobs (`analysis-job-service.ts`) | `AnalysisJob` row: status, current stage, `runVersion`, heartbeat, error code; `Dashboard` status and versions | create, advance, heartbeat, retry, cancel, finalize | each operation reads, then writes, with a provider call of minutes in between; two tabs; a dead request; a stalled provider; a retry that does not look again | one claim per run version; stages in order and only on persisted rows; the dashboard follows its job; a job comes to rest |
| Analysis stages (`analysis-stage-runner.ts`, `cached-provider.ts`) | artifacts, KPI and widget recommendations, query definitions with validation and executions, the prompt cache | nine stage handlers | a handler is a series of separate inserts: it may die half way, and after a takeover two handlers of one stage interleave | what reviewers see belongs together |
| Review and publication (`analysis-review-service.ts`, `query-service.ts`) | recommendation revisions and decisions, artifact revisions, dashboard versions, rendered widgets | decide, bulk approve, regenerate, retest, finalize | decisions race finalization; finalizations race each other between their SELECTs; two regenerations race each other; a page may be old | every published widget is backed; a job is published again by overlapping finalizations only |
| Dashboards (`features/dashboards`, `features/analysis`) | dashboard row, widget positions | save objective, delete, reorder, edit | a start races a save or a deletion | status agrees with jobs |
| Document indexing (`index-document.ts`, `knowledge-service.ts`, `source-operations.ts`) | `DocumentVersion`, `DocumentIndexJob`, current version, `KnowledgeSource` status, chunks | upload, claim, embed in waves, heartbeat, cancel, store, fail, retry | dead and stalled workers, redelivered messages, writes by id after a status was read elsewhere | one indexer per version; nothing shown that is not stored; every job ends |
| Queue and recovery (`job-queue.ts`, `recover-operations.ts`, worker runtime) | BullMQ messages; timestamps of rows | enqueue with backpressure, schedule, recovery loop | rows commit before messages are added; the queue may be full or down; a live worker may look dead | no row is left behind |
| Source refresh (`refresh-source.ts`) | `SourceRefreshRun`, `SourceSnapshot`, documents, versions | start, schedule, claim, compare, write, deactivate, enqueue, recover; crawl a web site | overlapping runs, lost messages, a refresh taken for dead, partial failure, files that change behind their size and time, a truncated crawl, pages of several addresses | documents follow the source; a page that is linked is not hidden |
| AI providers (`resilient-provider.ts`, `fetch-with-retry.ts`) | circuit breaker per provider and process | structured output, health check, fallback | late answers reset or reopen a circuit; everyone asks when the cooldown ends | a failing provider is left alone, a recovered one is used again |
| Database connectors and metadata (`data-source-service.ts`, `metadata-context.ts`) | tables, columns, relationships, metadata version, refresh runs | discover, enrich, select, build a context | the database changes while it is listed; enrichments finish late; the context must fit a limit | stored metadata never goes back; descriptions belong to the rows they describe; the best is kept |
| Database intelligence (`database-intelligence-service.ts`) | `DatabaseQuery` row; per process a map of running connectors | propose, review, execute, cancel | two tabs; a canceller in another process; a failure written late | a query is sent once; a cancelled one shows no result |
| Business insights (`process-business-insight.ts`, `business-insight-service.ts`) | `BusinessInsightJob` row, its snapshot, one message | create, enqueue, analyse, store, fail | the queue's retries beside a row with its own status; a lost commit answer | a conclusion has the snapshot it was drawn from; no row is left behind |
| Chat (`chat-service.ts`, `conversation-memory-service.ts`) | conversation, messages, citations, cumulative summaries | a turn: store, offer, retrieve, summarize, generate, save | turns of several tabs; sources re-indexed or conversations deleted meanwhile | summaries are cumulative prefixes; citations exist |
| User memory (`user-memory-service.ts`) | consent history, memories | decide, save, delete, expire, show | a save overtakes a revocation; decisions for one Bot and for all | what is revoked is gone and not shown |
| Registered APIs (`legacy-api-service.ts`) | `LegacyApi` row, invocations | save, assign, test, plan, call, delete | a test ends after a newer save; a call fails while it is stored | READY means tested; no call is forgotten |
| Excel data sources (`excel-version.ts`) | file versions, the version in use, warnings | replace, roll back | requests overlap under READ COMMITTED | the file in use is marked current; schema changes are marked |
| Retention (`retention.ts`) | deletion by age | one statement | deletes what a turn is using | see `ChatTurn`, `UserMemory` |
| User interface (`analysis-runner.tsx`) | the row a page shows, its timer, its requests | advance, poll, retry, cancel | answers overtake each other; tabs close | a page that is open drives its job and learns of its end |
| Grounding and SQL guard | none | pure checks | SQL parsing | only admitted SQL runs |
| Authentication, embedded and external auth, authorization | users, sessions, policies, grants | sign-in, resets, access decisions | security mechanisms | left to a security review |
| Unified sources, knowledge deletion, dashboards' forms, copilot, dashboard insights | rows of the above | forms and single answers | mostly one transaction each | see `PROJECT.json` |

Interactions: the analysis page calls `advance` once per stage and status; `advance` claims
the job and calls a stage handler, which writes rows that the review services read and
finalization copies into a version; finalization writes the dashboard status that the next
`createAnalysisJob` reads. Uploads, retries and refreshes write rows and add queue messages;
workers read the rows again when a message arrives; the recovery loop of any worker rewrites
rows whose timestamps are old and adds messages of its own; retrieval reads documents, versions
and the source status. Discovery writes the metadata that analyses turn into a context and
database queries are checked against. A chat turn reads chunks that indexing replaces, memories
that a revocation deletes, and may call a registered API or a database; retention deletes
conversations by age. All calls to a model go through one circuit breaker per provider.

`PROJECT.json` lists every component with its status, and the hazards at their lines.

## 2. The modules

| Module | What it models |
| --- | --- |
| `AnalysisLifecycle` | The abstract promise: one job's status and stage, with no requests, claims or clocks. |
| `AnalysisJob` | The job row, its dashboard and the requests that act on them concurrently; implements `AnalysisLifecycle`. |
| `AnalysisJobProofs` | The proofs about `AnalysisJob`: types and claims; that a job which was not retried advances in order, on persisted rows, along `AnalysisLifecycle`; that versions belong to jobs. |
| `AnalysisStages` | The nine stage handlers, database call by database call. |
| `AnalysisReview` | Decisions, regenerations, retests and finalization by concurrent reviewers, from the state `AnalysisStages` leaves. |
| `AnalysisRunner` | The analysis page: timers, polls, answers, tabs; the server reduced to its claim protocol. |
| `DocumentIndex` | Uploads, queue messages, indexing workers, recovery. |
| `SourceRefresh` | Folder and Drive refresh runs: starts, schedule, claims, per-file transactions, messages, recovery. |
| `WebCrawl` | One crawl after the other of a web site that changes. |
| `CircuitBreaker` | The breaker and the calls that pass it. |
| `MetadataDiscovery` | Discoveries, an enrichment and the selection of tables over a database that changes. |
| `MetadataContext` | The reduction of selected metadata to a context that fits. |
| `DatabaseQuery` | One query, from its proposal to its result or cancellation, over several server processes. |
| `BusinessInsight` | One insight: request, message, worker attempts, snapshot. |
| `ChatTurn` | The turns of one conversation with summaries and citations. |
| `UserMemory` | Consent, memories and prompts. |
| `LegacyApi` | A registered API tool and its calls. |
| `ExcelVersions` | Replacing and rolling back a workbook. |
| `ServicePromises` | The ten services side by side: `NothingIsForgotten`, what insights, queries and API calls promise alike, and `ServicesTypeOK`. |
| `AnalysisStagesProofs`, `AnalysisReviewProofs`, `AnalysisRunnerProofs`, `DocumentIndexProofs`, `SourceRefreshProofs` | The proofs about the module of that name. |
| `ConversationProofs` | The proofs about what a model is told: `ChatTurn`, `UserMemory`, `MetadataContext`. |
| `ServicesProofs` | The proofs about the other services, `CircuitBreaker`, `DatabaseQuery`, `ExcelVersions`, `MetadataDiscovery`, `LegacyApi`, `BusinessInsight` and `WebCrawl`, and about all ten together. |
| `MC*` | Small instances for TLC. `MCAnalysisOutcome` explores `AnalysisStages` and, with two jobs, `AnalysisJob`; `MCServices` the ten services. |

### AnalysisJob

`job[j]` is the `AnalysisJob` row, `dashboard` the dashboard row with the number of its
versions, `output[j][s]` says under which claim stage `s` persisted its rows, and `req[r]`
is what HTTP request `r` has read and where it stands. Every service function that reads and
later writes is two or more actions, with the read values kept in `req`:

| Code | Actions |
| --- | --- |
| `createAnalysisJob` | `createAnalysisJobCheck`, `createAnalysisJobCommit` |
| `advanceAnalysisJob` | `advanceRead`, `advanceClaim` or `advanceConflict`, then `runStage` / `failStage` / `reportHeartbeat`, then `advanceApplied` / `advanceFailed` |
| `retryAnalysisJob` | `retryRead`, `retryCommit` |
| `cancelAnalysisJob` | `cancelAnalysisJob` (one conditional update) |
| `finalizeAnalysisDashboard` | `finalizeReadJob`, `finalizeReadVersions` (a `findFirst` with `include` is several SELECTs and no transaction), `finalizeCommit` |
| the process or the platform | `requestDies`, `heartbeatLapses` |

The guards are the WHERE clauses: the claim compares status, `runVersion` and heartbeat; the
success write compares `runVersion` and RUNNING; the failure write compares `runVersion`
only; the retry and the finalization write by id. A heartbeat is null, fresh or older than
five minutes; that is all the code distinguishes. What a stage computes is reduced to which
earlier stages' rows it loads (`Reads`) and whether it writes rows (`Writes`).

### AnalysisStages

One job, several runners. A handler moves through Load, Ask (the provider), Persist (the
artifact), Rows (one insert or update at a time) and Create (between the lookup and the
insert of a query). Rows are written by `upsert` with an empty update, so the first writer
wins; queries are written by `findFirst` and `create`, which nothing makes unique. `build`
counts how often a retry has deleted the rows, so a late handler's foreign keys fail as they
do in PostgreSQL. The provider's answer is any nonempty set of KPIs, or of queries to show.
Grounding repairs an answer before it is persisted, and falls back to one KPI where it cannot,
while the prompt cache keeps the raw answer: a stage that is repeated reads the same raw answer
but grounds it again, and what it persists and what rows it writes may be others than before. A
grounded answer is part of the raw one, or the fallback. An artifact and rows are persisted as
they come, so that a stage which died between them may leave rows that its later artifact does
not name.

### AnalysisReview

`recs` holds every revision of every recommendation, in order of insertion; `versions` the
published snapshots; `rendered` the dashboard's widgets. Decisions, bulk approval,
regeneration and finalization each read under review and write later, by id. Finalization is five
steps: the SELECTs of the job, of its dashboard's versions, of recommendations and of queries, and
the transaction that publishes. Another reviewer may act between any two of them. The reads of a
regeneration (job and artifacts, then revisions) are merged into one step. `ActsOnSuperseded`
says whether a client may name a superseded recommendation, as an old page does. Edits of
titles and descriptions, and layout, are left out. Widgets without a query (text and filter)
are left out: they have nothing to be backed by.

### DocumentIndex

Versions are numbered in order of upload and each has one job. `queue[v][n]` counts messages
for job `v` with `n` deliveries left. A worker's phases are the stretches between two
database calls of `processDocumentIndexJob`; a request's are those of upload, `retryIndexJob`,
`retryDocumentIndex` and `cancelIndexJob`; `recovery` walks through
`recoverStaleOperations`. `stale` is "older than `staleBefore`", of the heartbeat while
PROCESSING and of `updatedAt` otherwise. The storing transaction is two steps (`store` reads
under READ COMMITTED whether the source is complete, `commit` writes), because two documents'
transactions may overlap. BullMQ itself is external: a message is delivered again after an
error while it has attempts left, and after its worker died or missed a lock renewal. Errors
thrown while a worker marks a job CANCELLED are left out, as is a change of the embedding
model, which gives a version a second job.

### AnalysisRunner

`row`, `heartbeat` and `owner` are the server's side, with read and claim in one step and a stage
reduced to its outcome (both are `AnalysisJob`'s business). For each page `shown` is its React
state, `timer` the 300 ms timer of the effect on `[advance, job.status, job.currentStage]`,
`call` and `reply` the one `advance` that `running.current` allows, `poll` the answer of an
interval. `setJob` re-runs the effects: a changed row clears the timer and arms it while the job
is active, the same row leaves it alone. A retry is two steps (`retryRead`, `retryCommit`), as on
the server: a late one resets a job that has gone on, under review included. Pages open and close,
requests are lost, users retry and cancel.

### SourceRefresh

`doc[l]` is the `Document` of a file with its versions and their index jobs, `snap[l]` its
`SourceSnapshot`, `run[r]` the run row. The user's request is `startCheck`, then one step per
call (count, insert, message, message id and audit); the schedule adds messages without a run.
A worker ensures a run, claims it, reads snapshots and files, handles one file per transaction in
any order, deactivates what it did not see, marks snapshots, enqueues index jobs and writes the
result. Both unique keys of versions and documents are in the model (`ViolatesUnique`), as is the
rule that an already known content gives no version. Recovery looks at `startedAt`, because a run
has no heartbeat. `Reverts` says whether a file may go back to an earlier content or come back
after a deletion: then the code deliberately creates no version, and convergence cannot be asked.
A checksum stands for its content, and `stamp[l]` for the size and modification time of a folder's
file. A file whose stamp is that of its snapshot is not read: the scan reports the snapshot's
checksum (`FoundSum`, source-security.ts:151), and writes that leave the stamp alone are among the
file's changes. Google Drive names its checksum in the listing. The index job itself is
`DocumentIndex`'s business.

### WebCrawl

`site[p]` is what the server says of a page: its status, links, content, where redirects end and
the canonical link. `page[p]` is the snapshot of a page with its document, `crawl` the walk: queue,
`visited` and `seen` addresses, links read, what is left of the page limit. A step is one turn of
`refreshWeb`'s loop with everything `enqueueChildren` does. `visited` and `seen` differ as in the
code: a page that is read adds its own address to both, and the final and the canonical address to
`visited` only. So a page whose address another page gave is not queued any more, and if it is in
the queue already it is passed over (`passVisited`): not read, not seen, and at the end of a
complete crawl its document is deactivated. A 304 answer stands for the links recorded with the
page as parent. Failures of storing a page, which count as errors of the page, are left out.

### The ten services of MCServices

The services share no state, so one run explores each of them by itself: `service` chooses one at
the start, the others rest in one of their initial states.

- `CircuitBreaker`: `request`, `requestProbe` and `requestRefused` are the branches of `canRequest`;
  `recordSuccess`, `recordFailure` and `failUnrecorded` what becomes of an answer. Time is what is
  left of the cooldown.
- `ExcelVersions`: a request reads the versions, its `updateMany` locks the current rows it can see
  (statement snapshot of READ COMMITTED) and the rest of the transaction becomes visible at commit.
- `MetadataDiscovery`: listing, comparing and storing are separate steps; a print stands for a
  table's fingerprint. Storing keeps row ids of tables that stayed and clears descriptions of
  changed ones; an enrichment stores by id whatever it read before.
- `MetadataContext`: each iteration of each loop of `enforceCharacterLimit` is a step; the length is
  a sum of weights per kind of piece; the ranking is the one order of the tables in which each
  outranks those behind it.
- `DatabaseQuery`: requests belong to processes; `active[p]` is the map of running connectors that a
  canceller in the same process can break. Both failure writes may fail themselves
  (`failureIsNotWritten`): the exception leaves the row EXECUTING.
- `BusinessInsight`: conversations go on while a worker counts them in two queries; the queue
  delivers again after an error or a missed lock renewal; a commit's answer may be lost.
- `ChatTurn`: a turn's database calls are its steps; summaries have unique versions, citations
  foreign keys, and retention looks at `lastMessageAt` only.
- `UserMemory`: a save reads consent, looks for an existing memory and writes, in three steps; a
  decision and its deletions are one transaction.
- `LegacyApi`: the action that saves, assigns and tests is three service calls; a call of a tool
  creates an invocation and ends it, unless the transaction that records its failure fails
  (`failureIsLost`).
- `WebCrawl`: see above.

## 3. What is checked

Runs (`<run>.cfg`); with two TLC workers each takes less than four minutes.

| Run | Module | Asks | Bounds | Distinct states |
| --- | --- | --- | --- | --- |
| `AnalysisJobClaims` | `MCAnalysisJob` | `TypeOK`, `ClaimsAreFenced`, `StagesBehindAreBacked`, `ImplementsLifecycle`, `AnalysisSettles` | 1 job, 4 stages, 2 requests (one may retry), 2 faults, 1 retry | %CLAIMS% |
| `AnalysisOutcome` | `MCAnalysisOutcome` | `StagesTypeOK`, `ReviewIsBacked`, `DashboardFollowsJobs` | stages: 2 KPIs, 2 runners, 2 setbacks of which one may be a takeover, 6 queries; dashboard: 2 jobs, 2 objectives, 2 stages, 2 requests (one may start), 1 fault | %OUTCOME% |
| `AnalysisReviewSafety` | `MCAnalysisReview` | `ReviewTypeOK`, `VersionsAreBacked`, `NewestRevisionIsLive` | 1 KPI, 1 widget, 2 reviewers, 2 regenerations, old pages | %REVIEW% |
| `AnalysisRunnerShows` | `MCAnalysisRunner` | `RunnerTypeOK`, `EndIsShown`, `DrivesUnlessDisturbed` | 2 tabs, 2 stages, 3 unforced events | %RUNNER% |
| `DocumentIndexSafety` | `MCDocumentIndex` | `TypeOK`, `OneIndexerPerVersion`, `AttemptsAreBounded`, `WhatIsShownIsStored` | 2 workers, 2 attempts, 2 deliveries; one version with 2 setbacks (of 2 faults, 1 lapse, 1 retry, 1 cancellation), or two versions of one or two documents with none | %INDEX% |
| `DocumentIndexSettles` | `MCDocumentIndex` | `JobsSettle` | 1 version, 1 worker, 3 of: fault, lapse, retry, cancellation (one each); queue of 2 | %SETTLES% |
| `SourceRefreshSafety` | `MCSourceRefresh` | `TypeOK`, `OneWorkerPerRun`, `DocumentsAreNewestVersions`, `SnapshotsFollowDocuments`, `DeletedFilesAreHidden` | 2 files (of one name, on Drive), 2 workers, 2 runs, 1 start, 1 fault, 1 lapse, 3 writes, 3 events | %SAFETY% |
| `SourceRefreshConverges` | `MCSourceRefresh` | `RefreshConverges` | 2 files, 1 worker, 3 run ids, no reverts, 3 events | %CONV% |
| `Services` | `MCServices` | 9 invariants, 6 action properties of ten services | see below | %SERVICES% |
| `AnalysisJobTwoRetries` | `MCAnalysisJob` | violates `OnlyFailedJobsAreRetried` | 2 retrying requests | |
| `CircuitBreakerProbes` | `CircuitBreaker` | violates `SingleProbe` | 3 calls | |
| `MetadataContextSilent` | `MCMetadataContext` | violates `OmittedRemainNamed` | 3 tables | |

Bounds of `Services`: 3 callers and a threshold of 3 failures; 2 editors and 3 workbook versions with
one or two columns; 3 pages, depth 1 or 2, limit 2 or 3, one change of the site, after which a page may
redirect or give a canonical address; 2 insight workers,
2 attempts, 1 mishap; 4 requests in 2 processes for one query, 1 dead process; 1 Bot beside "all
Bots", 2 categories, 2 decisions; 2 turns, 1 chunk, summaries from 2 messages on; 2 discoverers, 2
changes of 1 table, 3 refreshes; 3 tables of 1 or 3 columns, with and without rows, in every
combination of relevance, limits of tables and 4 lengths; 2 administrators, 1 chat, 2 contracts.

Why the bounds are enough. The protocols compare one value that was read with one that is
there now, so every interference that the code has to survive needs two actors and one or two
unlucky events: a dead actor and its successor, or a late actor beside the one that replaced
it. Two requests, runners, reviewers or workers with two faults give every such pair in every
order. Four stages are a first stage, two stages that depend on the one before (so that a
skipped stage is seen by its successor), and the last, which is never run. Two KPIs are needed
for a handler to die between two rows. Six queries are two per build with two rebuilds. A
waiting limit of two or three messages makes the queue full. Counters that the code does not
bound (retries, regenerations, cancellations, faults, versions) are bounded in the guards by
the constants named `Max...`.

The page needs two tabs (one that is overtaken) and two stages (one after which the row changes
and one after which it does not). A refresh needs two files for a run that dies between them, and
two runs that overlap; convergence is checked with one worker, because two overlapping refreshes
may undo each other and the property exempts them. What one worker does not show is a second one
inside the same run; `SourceRefreshSafety` has two. Its files have names of their own, because of two
Drive files with one name the second is refused for good; `SourceRefreshSafety` has the equal names.
Three pages are a root, a page that two pages link to and a page that is reached only through one of
them.

Deadlock is checked for `AnalysisJob`, where a user can always save an objective. The cfgs of
the other modules say `CHECK_DEADLOCK FALSE`: a review ends when the job is published and
nobody has anything left to do, and the others end when they have succeeded or the bounds on
faults, events and requests are used up.

Fairness. `AnalysisJob!FairSpec`: a request that has started runs to its end, because the
provider call, the database and the platform time out (weak fairness of `ServerStep`); the
clock passes the age of a heartbeat nobody renews; and somebody who watches a job opens its
page again, which calls `advance`. The last one is an assumption about people, not about code:
the page itself calls `advance` once per stage and status and afterwards only polls.
`DocumentIndex!FairSpec`: workers, requests and recovery go on with what they have started;
a document has finitely many waves (strong fairness of the last one, because a failing attempt
interrupts it); BullMQ hands messages out in order (strong fairness of `take` per job); an
unattended row ages; the recovery timer fires. `SourceRefresh!FairSpec`: likewise, and the
schedule ticks, which is so for sources whose schedule a user has switched on (`scheduleEnabled` is
false unless set); without it nothing converges by itself. It is strong for the hand-out of each message, because BullMQ hands messages out
in order while a worker is busy and free again, and weak for everything a process does by itself.
`AnalysisRunner!RunnerFairSpec`: timers fire, intervals tick, requests are executed and answered,
an unattended heartbeat ages; opening and closing tabs, retries, cancellations and lost requests are
free. Users, faults and the aging of attended rows are never fair.

Each property of a passing run has a mutant in `PROJECT.json`: a definition of the module with
a plausible bug (a dropped comparison in the claim, a retry that keeps its stage, an attempt
too many, a recovery that forgets lost messages), under which TLC finds that property violated.
The mutated forms stand beside the originals in the modules.

### What the properties say

- `ClaimsAreFenced`: two requests inside a stage of one job never hold the same run version,
  and none is newer than the row, whatever takeovers, cancels and retries happen.
- `StagesBehindAreBacked`: a stage is entered only when the rows of all earlier stages exist. It
  holds as long as a retry still finds the failed job it read and nobody claims a job it read before
  that retry; two requests of which one retries always behave like that, three do not (see below).
- `ImplementsLifecycle`: every step of the rows is a step of `AnalysisLifecycle`; in particular
  stages move one at a time, or back to the first from FAILED. It shows one thing a reader of the
  code may not expect: a cancelled stage that fails later turns CANCELLED into FAILED, because the
  failure write is fenced by the run version only; the abstract specification allows it.
- `AnalysisSettles`, `JobsSettle`: whatever dies, jobs come to rest.
- `ReviewIsBacked`: without a takeover, reviewers see exactly one validated, executed query per
  KPI, only widgets that show an executed query, and rows for every KPI of the recommendation
  artifact. The exception is an artifact that is the fallback: a stage that died after writing it
  is repeated, its repairs may succeed then, and rows that it writes meet the artifact of the first
  attempt or the other way round. With a takeover there is still something to review.
- `DashboardFollowsJobs`: the version shown is the final version of exactly one job, and completed
  jobs have one; while one user at a time starts analyses and until a job has been published a
  second time, the dashboard is ANALYZING exactly while a job is unfinished.
- `VersionsAreBacked`: every version hangs together and the dashboard renders the newest. A job can
  be published more than once (see below), but only by finalizations that were under way at the
  first publication. `NewestRevisionIsLive`: what the unique constraint achieves under concurrent
  regenerations.
- `EndIsShown`, `DrivesUnlessDisturbed`: an open page that shows a running job learns that it is
  over, and an active job that an open page shows as active comes to rest, unless a timer fired in
  vain, a request was lost or somebody retried. Each of the three exceptions is needed.
- `OneIndexerPerVersion`, `AttemptsAreBounded`, `WhatIsShownIsStored`: what the database claim,
  the attempt counter and the storing transaction achieve under redelivery, death and recovery.
  The first excepts lapses (a live worker is taken for dead) and retries (the write by id may put
  a job at work back into the queue); each exception is needed.
- `OneWorkerPerRun`, `DocumentsAreNewestVersions`, `SnapshotsFollowDocuments`: what the claim and
  the unique keys achieve for refreshes that overlap, die half way and are repeated; a folder's
  snapshot names the checksum that the document has, so a change that shows in a checksum is not
  taken for one that is stored. A change that leaves size and time alone does not show: the scan
  reports the old checksum, and the change is overlooked until the file is written again.
  `DeletedFilesAreHidden` and `RefreshConverges`: retrieval follows the folder, except for such
  changes (`Overlooked`), and for sources with a schedule and files with names of their own.
- `OpensOnlyOnFailures`: the breaker's two pieces of state agree, however late answers arrive, and
  the failures that the end of a cooldown invents stand for real ones.
- `CrawlHidesWhatIsGone`: both directions: neither limits nor errors cost a page its document that
  a link which this crawl has read leads to within the depth, and after a crawl that says COMPLETED
  only pages that were seen are active. Two things do cost such a page its document and are left out
  of the statement: another page that gave its address as its own, by a redirect or a canonical
  link, and a link on a page that answered 304, of which only the children first found on it count.
- `FileVersionIsCurrent`, `SchemaChangesAreMarked`: although requests compare with versions they
  read before their transactions.
- `ConclusionsHaveSnapshots`, `RunsOnce`, `CancelledShowsNoResult`: what the conditional updates of
  insights and queries achieve.
- `NothingIsForgotten`: no recovery exists for insights, queries and API calls, so every way they can
  fail must end their row; it does, unless there was a mishap: a process that dies, an exception
  before the try block, a lost lock or answer (insights), or a failure whose own write fails.
- `ConsentIsRespected`: memories follow the newest decision that names their category, over any
  history of decisions for one Bot and for all. A save that overlaps a revocation may store a memory
  after it; such a memory is still not shown.
- `SummariesArePrefixes`: cumulative summaries stay nested and gapless under overlapping turns.
- `MetadataNeverGoesBack`, `DescriptionsFitTheirRows`: of overlapping discoveries the first wins, and
  only a late enrichment can leave a description of an older shape, never on another table's row.
- `CheapestPiecesGoFirst`: the tables that stay outrank those that go, and rows go before columns,
  columns before tables, except where nothing but the warning about an earlier cut makes the
  context too long again. It is one warning at most: the loop before ran out of its
  pieces or ended at a length within the limit.
- `ReadyToolsWereTested`: READY needs a test whose call completed.
- `ServicesTypeOK` also holds what keeps records well formed: the crawl's queue is breadth first,
  within the limit and without a page that was read (one that was visited by another page's address
  may be in it), exactly the running queries can be broken, columns shown and omitted add up, and
  citations name stored chunks.

### Disagreements between code and documentation

Kept as runs that TLC finds violated, with the quoted line in `PROJECT.json`:

1. `AnalysisJobTwoRetries` — `retryAnalysisJob` checks FAILED, then updates by id: the second
   of two retries resets a job that already runs again or waits for review.
2. `CircuitBreakerProbes` — documentation and comment promise a single half-open probe; the first
   call after the cooldown clears `openedAt`, and every further call passes.
3. `MetadataContextSilent` — the ultra-compact reduction drops tables and columns that
   `scopeReduction` does not name.

Met while modelling and visible in the models, without a run of their own:

- `createAnalysisJob` checks the dashboard before its transaction: two requests create two jobs.
- Finalization reads the status of the job and the versions of its dashboard in separate SELECTs and
  updates by id: of two finalizations of a job both may publish a version, one after the other. The
  second may come after the next analysis has started and say GENERATED of a dashboard that is being
  analysed.
- Finalization publishes the approvals it read before its transaction, although they may have been
  withdrawn since; docs/phase1-architecture.md:44 requires approved recommendations.
- A re-index takes the version out of INDEXED and the source out of READY at once;
  docs/phase4-execution.md:23 says that chunks remain visible.
- A file that goes back to an earlier content gets no version, and a deleted file that comes back
  unchanged stays inactive; docs/phase4-execution.md:9 says that changed files create versions.
- An advance that read the job before a rebuild wins its claim, because the retry leaves
  `runVersion` alone, and the stage jumps. After a takeover two handlers of GENERATING_QUERIES may
  create two queries for one KPI. A decision read before a regeneration overwrites SUPERSEDED.
- Cancelling a job leaves its dashboard ANALYZING for good.
- A page stops driving its job when a poll shows the next stage before `advance` is answered.
- `retryIndexJob` and `retryDocumentIndex` read a status and write the job by id, so a retry that
  comes late puts a job back into the queue that a worker has claimed, and a second worker joins it.
- A live worker whose heartbeat lapses is joined by a second one; an older version stored after a
  newer one becomes current; recovery can mark a version QUEUED after its job was completed.
- A refresh run whose message was lost stays QUEUED until the schedule adopts it; a start whose
  message was sent late writes FAILED over a run a worker has taken.
- A file whose content changes while size and modification time stay is not read again
  (source-security.ts:151), and of two Drive files with one name the second is refused for good.
- A 304 answer stands for recorded parents only, so a page that two pages link to is hidden when the
  first of them drops the link.
- A page that gives another page's address as canonical costs that page its document, unless the
  other one was read before.
- A web process that dies between row and message leaves an insight PROCESSING; an exception before
  `executeDatabaseQuery`'s try block leaves a query EXECUTING, and so does a failure write that
  throws, here and in a call of a registered API.
- A summary conflict ends a turn with its question stored and no answer; two tabs that say yes
  ask the database twice.
- A test that began before a newer save makes the tool READY with a contract nobody tested.

## 4. What is proved

Eight modules hold theorems that TLAPS checks, for every value of the constants that satisfies the
named assumptions. The assumptions say only what an instance must be: numbers are naturals,
thresholds and page sizes are positive, special values (`NoJob`, `NoRow`, `NoVersion`, ...) are
none of the values they stand in for, the analysis pipeline has at least two stages each of
which reads only what earlier stages write (`PipelineAssumption`), and what a metadata context
serializes of a table is no shorter than the table's name, which is part of it
(`ContextAssumption`). TLC evaluates all of them on
every run. `PROJECT.json` lists the theorems; the arguments are these.

### AnalysisJobProofs

- `TypeCorrect`: `TypeOK` is inductive by itself: the only subtle conjunct is that a request that
  is past its first read names a real job, which the EXCEPT expressions on `job` need.
- `FencedClaims`: `Spec => []ClaimsAreFenced`, two concurrent retries included. The property is
  not inductive: after a request has read the row and before it claims, nothing in it says that
  the version it read is not ahead of the row. `FenceInv` adds that, and the uniqueness of live
  claims per version. Run versions of a row never decrease; a claim requires the row to have the
  version that was read and leaves the row one higher; so the new claim is above every earlier one.

- `UnretriedAreBacked` and `UnretriedAreAPipeline` are about jobs that have not been retried, under
  the whole `Spec`: any number of requests advance, take over, die, cancel, start and finalize, and
  other jobs may be retried. Such a job has the persisted rows of every stage before its own, and
  moves along the edges of `AnalysisLifecycle` up to its first retry and with it. After a retry both
  statements may fail in the code, since `retryAnalysisJob` updates by id and leaves `runVersion`
  alone: a stage is skipped, or a completed job runs again (`AnalysisJobTwoRetries`). With two
  requests of which one retries they hold again, and that is what TLC checks in `AnalysisJobClaims`
  (`StagesBehindAreBacked`, `ImplementsLifecycle`).
- `StageInv` is what the argument needs: where a request that holds the newest claim stands
  relative to the row (at its stage, or one behind, because applying a stage does not change the
  run version), that it persists or has persisted what its stage writes, and that a failure write
  of the newest claim never meets a job that waits for review.
- `VersionsHaveAJob`: the version a dashboard shows is the final version of one of its jobs, no two
  jobs share one and a completed job has one, for any number of creators, reviewers, retries and
  overlapping finalizations. `VersionInv` adds that a request has read no version above the newest.
  That the dashboard is ANALYZING exactly while a job is unfinished needs single starts and single
  publications, and is model-checked only.

### AnalysisStagesProofs

- `ReviewersSeeBackedRows`: `Spec => []ReviewIsBacked` for `AnalysisStages`, with every failure,
  death, retry, rebuild and takeover; `StagesTypeCorrect` comes with it. `StagesInv` has two halves,
  since the property promises more where no claim was taken from a runner that is still alive.
- `ProgressInv` holds under any takeovers: each stage behind the row has left something, and the
  runner that holds the newest claim (`Owns`; `ClaimInv` makes it unique and in step with the row)
  leaves what its stage is to leave. It survives the late writes of a runner that lost its claim
  because rows only grow until a retry deletes them all.
- `FitInv` holds without a takeover: one runner at a time is at work, no KPI has two queries, and the
  KPIs of the artifact have rows or are the fallback (`ArtifactFits`). It does not rest on the cache:
  that keeps raw answers, so a stage that died between its artifact and its rows may write others
  when it is repeated. What carries the argument is that the repeated stage writes its artifact again
  before its rows, and that rows of earlier attempts stay and are given queries as well.
- Each database call of a handler is a lemma of its own. TLC checked `StagesInv` on a million
  states before it was proved.

### AnalysisRunnerProofs

`RunnerTypeCorrect` needs more than types: `StagesAreLeft` says that a job has a stage to run until
it waits for its reviewers and that nobody holds a claim on it then, and `OpenPagesAsk` that only an
open page has an answer, a poll or a timer to wait for, and an answer that has arrived is a row.
From the same invariant follows `OnlyLateRetriesDisturbReviews`: once the job waits for approval no
late claim, failure or cancellation of any tab changes its row. One thing does, a retry that read
FAILED earlier and writes by id, and it can only put the job back to QUEUED.

### DocumentIndexProofs

- `TypeCorrect` is inductive with the fields of workers, requests and the recovery round.
- `ShownIsStored`: `WhatIsShownIsStored` is preserved by every step together with what the two
  halves of the storing transaction carry from one to the other.
- `ClaimsExclude`: `OneIndexerPerVersion`, for any number of workers, versions and redeliveries. It is not
  inductive: `ExclusionInv` adds that only uploads bring a version into the queue, that nobody names
  a version before it exists, that whoever writes as an indexer has a PROCESSING row that is not
  stale, and that attempts count claims. It is assumed at each step only while no lapse and no retry
  has happened (`Steady`), because after one of these it is false in the code.
- `AttemptsStayBounded`: `AttemptsAreBounded` under the whole `Spec`, lapses, retries and deaths
  included. Several workers may be at one version then, and what bounds its attempts is not any
  of them but all that may still claim its row: the row where it can be claimed or recovered, each
  worker that indexes or is about to write a failure, each retry and upload about to put it back.
  `AttemptsInv` counts these as tickets of the job. A claim, a failure, a recovery only exchange
  one ticket for another, and only a fault, a lapse or a retry adds one, so there are never more
  than `1 + Owed` of them; that makes `attempt + Kept <= MaxAttempts + Owed` inductive
  from the attempt on at which failures become final, where `Kept` leaves out the workers that
  index, because what they write next is DEAD_LETTER. It also needs that a version has one upload
  and that nobody names a version before it exists. TLC explored `AttemptsInv` in millions of
  states, with up to three workers, before it was proved.

### SourceRefreshProofs

`RefreshInv` is inductive and was checked by TLC before it was proved. Its parts are the types;
`WorkersAreSound` and `RowsFit` (what a worker that handles files has read, and that versions of a
document are numbered, distinct in content and headed by the current one); `AttendedIsClaimed` (a
worker inside a run that was never taken from it holds the RUNNING row); `ScanIsFresh` (a listing
is of this refresh); and the properties themselves. From it follow `TypeCorrect`,
`RunsAreWorkedOnOnce`, `HistoriesAreSound`, `ChangesAreSeen` and `DeletionsAreSeen`. The unique keys
carry `HistoriesAreSound`: the transaction that would break it violates one of them and rolls back.

### AnalysisReviewProofs

`ReviewInv` adds `RequestsAreSound` (what a reviewer holds in its hands still exists, revisions it
read are not above those stored), `PublishedWell` (each version hangs together, the newest is rendered,
and a job that has one is not under review) and `FinalizersAreLeft` (once the job is published,
versions and the finalizations still under way are together no more than the reviewers).
`PublicationsAreBacked` is then a fact about one step, `finalizeCommit`, and about nobody being able
to remove what it copied; `RevisionsAreInOrder` rests on the unique key of
revisions, which makes the second of two regenerations fail. TLC checks `ReviewInv` on the instance
of `AnalysisReviewSafety`.

### ServicesProofs

Each service has an inductive invariant of its own:

- `BreakerInv`: the circuit is open exactly while the count is at the threshold, and the count
  beyond it is made by calls that were waiting when it opened.
- `QueryInv`: whoever runs has claimed, there is one claim, connectors in the map belong to
  requests at work. `QueryRunsOnce`, `CancelledQueriesShowNoResult` and `QueriesAreNotForgotten`.
- `ExcelInv`: the version in use is current, versions a request read exist, and current versions
  have one schema unless the dashboards are marked. `ExcelFileIsCurrent`, `ExcelChangesAreMarked`.
- `MetadataInv`: refresh runs are numbered, and a discovery whose number is the next one read the
  rows that are still stored. `MetadataIsMonotone`, `DescriptionsStayTrue`.
- `ToolInv`: a test that is to write READY has a completed call, and a call that is over has a final
  status unless its failure was lost. `ReadyToolsHavePassed`,
  `CallsAreNotForgotten`.
- `InsightInv`: which statuses the row can have at each stretch of an attempt, and that the queue
  holds the message while somebody still has to conclude. `ConclusionsAreShown`,
  `InsightsAreNotForgotten`.

The three `...NotForgotten` theorems together are `NothingIsEverForgotten`, which states the property
`NothingIsForgotten` of `ServicePromises`. `ServicesTypeCorrect` is its property `ServicesTypeOK`,
for all ten services: it follows from the invariants above and those of `ConversationProofs`, and
from one more, that a table which no scan found has no row (`NoTableIsBlank`).

`CrawlHidesGone` is about a loop over a graph. `WalkFits` says what the walk has found and what it
has recorded; `IsDepth` that every page that is walked has the depth at which it was queued and
that, while nothing was cut off, what a page above the depth of the source links to was found, and
is no more than one deeper if it is walked at all (addresses that another page gave are found and not
walked). A crawl that ends with an empty queue and nothing cut off has then seen whatever links lead
to within the depth of the source, or was given its address (`CrawlSeesWithinDepth`), depth by depth,
since a source has a depth of at most two. The links of a page are a fold over a
sequence, about which no induction theorem can be used: that the fold keeps the queue well formed
is shown by a smallest position at which it does not.

### ConversationProofs

- `ConsentIsKept`: `MemoryInv` relates three places at once. A save goes on only where the newest decision was a
  grant when it looked (`SavesWereAllowed`), a prompt only for what the decisions it has seen grant
  (`PromptIsCovered`), and
  a stored memory is granted by the newest decision that names its category, or marked as late
  (`MemoriesAreGranted`). The last is the property's invariant part; the first two carry it over the
  steps between reading consent and writing a memory or showing one.
- `MemoryTypeCorrect` and `ChatTypeCorrect` are the types. That a conversation is never longer than
  its turns allow needs an argument of its own (`ChatBounds`): each message belongs to a turn that
  has asked or answered, and a turn does each once.
- `CheapestPiecesFirst` and `ContextTypeCorrect` are about `MetadataContext`. `ContextInv` says that
  the tables are the first ones of the ranking (`TablesFit`) and, by phase, which pieces are gone or
  how little the length may exceed the limit (`CutInOrder`). A cut must make the context shorter,
  which is a fact about sums over the tables. The library's sum takes an order nobody knows and
  induction is not to be had, so what is needed of it (`TotalUnfolds`, `TotalIsMonotone`) is shown by
  way of a smallest set of positions for which it fails; that a ranking exists (`RankingExists`) in
  the same way, and that it is total (`RankIsTotal`) by cases.
- `SummariesAreCumulative` and `CitationsStayStored`: `ChatInv` says that summaries have the versions
  1 to n (`VersionsAreGapless`), that what a turn is about to store extends the summary it read
  (`DraftsFollow`), and that a deleted conversation has none. The unique key of conversation and
  version does the rest: the second of two turns that summarize beside each other fails. No
  induction over the versions is needed, because the property compares any two summaries.

### What stays with TLC

- Liveness (`AnalysisSettles`, `JobsSettle`, `RefreshConverges`, `EndIsShown`,
  `DrivesUnlessDisturbed`): fairness needs ENABLED, which the provers do not know.
- `StagesBehindAreBacked`, `ImplementsLifecycle` and `DashboardFollowsJobs`: they hold for the instances
  of their runs and not for every value of the constants (a second retry, a second creator breaks
  them), so what is proved is the part that holds always: `UnretriedAreBacked`,
  `UnretriedAreAPipeline`, `VersionsHaveAJob`. Every other invariant and action property of section 3
  is proved.
- Induction theorems take an operator as a parameter, which the provers cannot instantiate. Where a
  proof needed an induction it goes by a smallest counterexample instead, as above.

## 5. What is not modelled, and why

- Parsing, prompts, grounding, SQL guards, drivers, HTTP clients and rendering are data
  transformation or I/O: their outcome is a nondeterministic choice where a model needs it. They are
  most of the repository's lines (forms, pages, connectors, seeds, schemas), and the reason the map
  covers a modest share of them.
- Authentication, sessions, tokens and access decisions are security mechanisms and are left to
  a security review; a refused request changes nothing in the models.
- Embeddings and chunk contents are reduced to "stored". Audit rows and logs are left out, except
  where writing one fails after something else was done; so are display fields (progress, messages).
- `createBusinessInsight`, the synchronous variant of the queued insight, is called by tests only.
- Dashboard deletion, widget order, edits of texts, `saveAiEndpoint` and `deleteKnowledgeSource` are
  forms over one or two statements; their races (a reordering on stale positions, a deletion beside
  a start) are known and have no property yet. Connection tests write their outcome by id and are
  not modelled either.
- A change of the embedding model, which gives a document version a second index job.
- Retention beyond conversations and memories; health probes.

## 6. Plan

1. Done: the modules above, their runs, and the proofs of section 4.
2. Proofs: of the safety properties three are left to TLC for the reason given above. Liveness is
   left as a whole.
3. Widget order and dashboard deletion beside a starting analysis; connection tests.
