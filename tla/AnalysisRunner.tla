---------------------------- MODULE AnalysisRunner ----------------------------
(***************************************************************************)
(* The analysis page that drives a job (components/analysis/               *)
(* analysis-runner.tsx): a timer calls advance, advance runs one stage on  *)
(* the server and returns the row, an interval polls the row, and every    *)
(* row that arrives may arm the timer again.  Requests and answers take    *)
(* time and overtake each other; a page can be closed at any moment.       *)
(*                                                                         *)
(* The server side is the claim protocol of analysis-job-service.ts with   *)
(* read and claim in one step (AnalysisJob has them in full).  What a      *)
(* stage does, its heartbeats while it lives and messages are left out;    *)
(* one poll of a page is under way at a time.                              *)
(***************************************************************************)
EXTENDS Naturals

CONSTANTS Pages,           \* browser tabs that may show the job
          NoPage,          \* owner of no stage
          Nothing,         \* no row on its way
          Stages,          \* the job ends after this many stages
          MaxPageEvents    \* bound: tabs opened and closed, cancels, retries, lost requests

ASSUME RunnerAssumption ==
  /\ NoPage \notin Pages
  /\ Stages \in Nat \ {0} /\ MaxPageEvents \in Nat

VARIABLES
  row,         \* status and stage of the AnalysisJob row
  heartbeat,   \* lastHeartbeatAt: "NONE", "FRESH" or "STALE"
  owner,       \* the page whose request holds the newest claim and still executes it
  open,        \* open[p]: "LATER", "OPEN" or "CLOSED"
  shown,       \* shown[p]: the row the page has in its state
  timer,       \* timer[p]: is the 300 ms timer armed?
  call,        \* call[p]: where the page's advance is
  reply,       \* reply[p]: the row on its way to the page's advance
  poll,        \* poll[p]: the row on its way to the page's poll
  retrying,    \* retrying[p]: retries of page p between their check and their update
  pageEvents,
  disturbed    \* history: has a timer fired in vain, a request been lost, a user retried?

runnerVars ==
  <<row, heartbeat, owner, open, shown, timer, call, reply, poll, retrying, pageEvents,
    disturbed>>
serverVars == <<row, heartbeat, owner>>
pageVars == <<open, shown, timer, call, reply, poll>>
eventVars == <<retrying, pageEvents, disturbed>>

Active == {"QUEUED", "RUNNING"}
\* COMPLETED is left out: the page treats it like WAITING_FOR_APPROVAL.
Ended == {"WAITING_FOR_APPROVAL", "CANCELLED"}
RowsShown == [status: Active \cup Ended \cup {"FAILED"}, stage: 0..Stages]

ASSUME NothingAssumption == Nothing \notin RowsShown

\* An advance is sent, runs its stage, asks for the row (after the stage on the
\* server, after a conflict or a failure in the browser), and is answered.
CallPhases == {"idle", "sent", "working", "asking", "answered"}

RunnerTypeOK ==
  /\ row \in RowsShown
  /\ heartbeat \in {"NONE", "FRESH", "STALE"}
  /\ owner \in Pages \cup {NoPage}
  /\ open \in [Pages -> {"LATER", "OPEN", "CLOSED"}]
  /\ shown \in [Pages -> RowsShown \cup {Nothing}]
  /\ timer \in [Pages -> BOOLEAN]
  /\ call \in [Pages -> CallPhases]
  /\ reply \in [Pages -> RowsShown \cup {Nothing}]
  /\ poll \in [Pages -> RowsShown \cup {Nothing}]
  /\ retrying \in [Pages -> Nat]
  /\ pageEvents \in 0..MaxPageEvents
  /\ disturbed \in BOOLEAN

RunnerInit ==
  /\ row = [status |-> "QUEUED", stage |-> 0]
  /\ heartbeat = "NONE" /\ owner = NoPage
  /\ open = [p \in Pages |-> "LATER"]
  /\ shown = [p \in Pages |-> Nothing]
  /\ timer = [p \in Pages |-> FALSE]
  /\ call = [p \in Pages |-> "idle"]
  /\ reply = [p \in Pages |-> Nothing]
  /\ poll = [p \in Pages |-> Nothing]
  /\ retrying = [p \in Pages |-> 0]
  /\ pageEvents = 0
  /\ disturbed = FALSE

-----------------------------------------------------------------------------
(* The page. *)

IsOpen(p) == open[p] = "OPEN"

\* The effect on [advance, job.status, job.currentStage]: a changed row clears the
\* timer and arms it while the job is active, the same row leaves it alone.
\* Mutant: without job.currentStage.
ArmedByStatus(p, r) ==
  IF r = shown[p] \/ (shown[p] # Nothing /\ r.status = shown[p].status) THEN timer[p]
  ELSE r.status \in Active
Armed(p, r) == IF r = shown[p] THEN timer[p] ELSE r.status \in Active

setJob(p, r) ==
  /\ shown' = [shown EXCEPT ![p] = r]
  /\ timer' = [timer EXCEPT ![p] = Armed(p, r)]

pageEvent == pageEvents < MaxPageEvents /\ pageEvents' = pageEvents + 1

openPage(p) ==
  /\ open[p] = "LATER" /\ pageEvent
  /\ open' = [open EXCEPT ![p] = "OPEN"]
  /\ setJob(p, row)
  /\ UNCHANGED <<serverVars, call, reply, poll, retrying, disturbed>>

\* Unmounting clears the timers; the server works on, answers are ignored.
closePage(p) ==
  /\ IsOpen(p) /\ pageEvent
  /\ open' = [open EXCEPT ![p] = "CLOSED"]
  /\ shown' = [shown EXCEPT ![p] = Nothing]
  /\ timer' = [timer EXCEPT ![p] = FALSE]
  /\ call' = [call EXCEPT ![p] = IF @ \in {"sent", "working"} THEN @ ELSE "idle"]
  /\ reply' = [reply EXCEPT ![p] = Nothing]
  /\ poll' = [poll EXCEPT ![p] = Nothing]
  /\ UNCHANGED <<serverVars, retrying, disturbed>>

\* advance returns at once while running.current is set.
timerFires(p) ==
  /\ timer[p]
  /\ timer' = [timer EXCEPT ![p] = FALSE]
  /\ IF call[p] = "idle" THEN call' = [call EXCEPT ![p] = "sent"] /\ UNCHANGED disturbed
     ELSE UNCHANGED call /\ disturbed' = TRUE
  /\ UNCHANGED <<serverVars, open, shown, reply, poll, retrying, pageEvents>>

Move(p, from, to) == call[p] = from /\ call' = [call EXCEPT ![p] = to]

\* The answer of an advance, or of the refreshJob that follows a refusal.
advanceAnswered(p) ==
  /\ Move(p, "answered", "idle")
  /\ reply' = [reply EXCEPT ![p] = Nothing]
  /\ setJob(p, reply[p])
  /\ UNCHANGED <<serverVars, open, poll, eventVars>>

\* Mutant: the interval runs before the first stage is seen to run, not after.
PollsQueued(p) == IsOpen(p) /\ shown[p].status = "QUEUED"
Polls(p) == IsOpen(p) /\ shown[p].status = "RUNNING"

pollReads(p) ==
  /\ Polls(p) /\ poll[p] = Nothing
  /\ poll' = [poll EXCEPT ![p] = row]
  /\ UNCHANGED <<serverVars, open, shown, timer, call, reply, eventVars>>

pollArrives(p) ==
  /\ poll[p] # Nothing
  /\ poll' = [poll EXCEPT ![p] = Nothing]
  /\ setJob(p, poll[p])
  /\ UNCHANGED <<serverVars, open, call, reply, eventVars>>

\* control: the button is shown by the page's row, the server decides by its own.
cancel(p) ==
  /\ IsOpen(p) /\ shown[p].status \in Active /\ row.status \in Active /\ pageEvent
  /\ row' = [row EXCEPT !.status = "CANCELLED"] /\ heartbeat' = "NONE"
  /\ setJob(p, row')
  /\ UNCHANGED <<owner, open, call, reply, poll, retrying, disturbed>>

\* The button can be pressed again while a retry is under way.
retryRead(p) ==
  /\ IsOpen(p) /\ shown[p].status = "FAILED" /\ row.status = "FAILED"
  /\ pageEvent /\ disturbed' = TRUE
  /\ retrying' = [retrying EXCEPT ![p] = @ + 1]
  /\ UNCHANGED <<serverVars, pageVars>>

\* The update is by id, whatever became of the row; the answer may not reach the page.
retryCommit(p) ==
  /\ retrying[p] > 0
  /\ retrying' = [retrying EXCEPT ![p] = @ - 1]
  /\ \E stage \in {0, row.stage} : row' = [status |-> "QUEUED", stage |-> stage]
  /\ heartbeat' = "NONE"
  /\ \/ IsOpen(p) /\ setJob(p, row')
     \/ UNCHANGED <<shown, timer>>
  /\ UNCHANGED <<owner, open, call, reply, poll, pageEvents, disturbed>>

-----------------------------------------------------------------------------
(* The server: POST advance and GET of the row. *)

\* The answer is of interest to an open page only.
Answering(p) == IF IsOpen(p) THEN "asking" ELSE "idle"

Claimable ==
  \/ row.status = "QUEUED"
  \/ row.status = "RUNNING" /\ heartbeat \in {"NONE", "STALE"}

claimStage(p) ==
  /\ Claimable
  /\ Move(p, "sent", "working")
  /\ row' = [row EXCEPT !.status = "RUNNING"]
  /\ heartbeat' = "FRESH" /\ owner' = p
  /\ UNCHANGED <<open, shown, timer, reply, poll, eventVars>>

\* An ended job is answered as it is, any other one with a conflict.
claimRefused(p) ==
  /\ ~Claimable
  /\ Move(p, "sent", Answering(p))
  /\ UNCHANGED <<serverVars, open, shown, timer, reply, poll, eventVars>>

\* nextAnalysisStage stays at the last stage, which a job that was queued again while it
\* waited runs once more.
\* Mutant: past the end of STAGE_ORDER.
NextStagePastEnd(stage) == stage + 1
NextStage(stage) == IF stage < Stages THEN stage + 1 ELSE stage
WaitsForReview(stage) == stage = Stages

\* Only the newest claim of a running job is applied; the last stage is the reviewers'.
stageApplied(p) ==
  /\ Move(p, "working", Answering(p))
  /\ IF owner = p /\ row.status = "RUNNING"
     THEN /\ row' = [stage |-> NextStage(row.stage),
                     status |-> IF WaitsForReview(NextStage(row.stage)) THEN "WAITING_FOR_APPROVAL"
                                ELSE "RUNNING"]
          /\ heartbeat' = "NONE" /\ owner' = NoPage
     ELSE UNCHANGED serverVars
  /\ UNCHANGED <<open, shown, timer, reply, poll, eventVars>>

\* The row becomes FAILED under the newest claim, whatever its status.
stageFailed(p) ==
  /\ Move(p, "working", Answering(p))
  /\ IF owner = p
     THEN row' = [row EXCEPT !.status = "FAILED"] /\ heartbeat' = "NONE" /\ owner' = NoPage
     ELSE UNCHANGED serverVars
  /\ UNCHANGED <<open, shown, timer, reply, poll, eventVars>>

rowRead(p) ==
  /\ Move(p, "asking", "answered")
  /\ reply' = [reply EXCEPT ![p] = row]
  /\ UNCHANGED <<serverVars, open, shown, timer, poll, eventVars>>

\* The fetch throws: advance catches it and keeps the row it has.  The process may
\* have died with its stage, which leaves a heartbeat that grows stale.
requestLost(p) ==
  /\ call[p] # "idle" /\ pageEvent /\ disturbed' = TRUE
  /\ call' = [call EXCEPT ![p] = "idle"]
  /\ reply' = [reply EXCEPT ![p] = Nothing]
  /\ owner' = IF owner = p THEN NoPage ELSE owner
  /\ UNCHANGED <<row, heartbeat, open, shown, timer, poll, retrying>>

heartbeatLapses ==
  /\ heartbeat = "FRESH" /\ owner = NoPage
  /\ heartbeat' = "STALE"
  /\ UNCHANGED <<row, owner, pageVars, eventVars>>

-----------------------------------------------------------------------------
Browser(p) == timerFires(p) \/ advanceAnswered(p) \/ pollArrives(p)

Server(p) ==
  claimStage(p) \/ claimRefused(p) \/ stageApplied(p) \/ stageFailed(p) \/ rowRead(p)

User(p) == openPage(p) \/ closePage(p) \/ cancel(p) \/ retryRead(p) \/ retryCommit(p)

RunnerNext ==
  \/ \E p \in Pages :
       \/ Browser(p) \/ pollReads(p) \/ Server(p) \/ User(p) \/ requestLost(p)
  \/ heartbeatLapses

RunnerSpec == RunnerInit /\ [][RunnerNext]_runnerVars

\* Timers fire, requests are executed and answered, intervals tick, clocks move on.
\* Users and reviewers do as they like, and mishaps need not happen.
RunnerFairness ==
  /\ \A p \in Pages :
       /\ WF_runnerVars(timerFires(p)) /\ WF_runnerVars(advanceAnswered(p))
       /\ WF_runnerVars(pollReads(p)) /\ WF_runnerVars(pollArrives(p))
       /\ WF_runnerVars(Server(p))
  /\ WF_runnerVars(heartbeatLapses)

RunnerFairSpec == RunnerSpec /\ RunnerFairness

-----------------------------------------------------------------------------
(* Properties. *)

\* Some open page shows the job as active.
Watched == \E p \in Pages : IsOpen(p) /\ shown[p].status \in Active

\* README.md:297, "While the analysis page is open, the browser requests one bounded stage
\* at a time": an active job that an open page shows as active comes to rest, as long as no
\* timer fired in vain, no request was lost and nobody retried.  Answers that overtake each
\* other, conflicts between tabs, and tabs closed in the middle of a stage do not stop the
\* page that is left.  (The three exceptions do.  A poll that shows a stage before advance
\* is answered arms a timer that fires in vain: the answer then changes nothing, and nobody
\* calls advance again.  A retry in another tab brings a row back that a page still shows,
\* whose timer is then not armed.)
DrivesUnlessDisturbed ==
  (row.status \in Active /\ Watched)
    ~> (row.status \notin Active \/ ~Watched \/ disturbed)

\* A page that shows a running job learns that it is over, although its own request was
\* lost or another tab drove the job: the interval outlives every failed request.
EndIsShown ==
  \A p \in Pages :
    (IsOpen(p) /\ shown[p].status = "RUNNING" /\ row.status \notin Active)
      ~> (~IsOpen(p) \/ shown[p].status # "RUNNING" \/ row.status \in Active)

=============================================================================
