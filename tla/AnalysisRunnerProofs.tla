-------------------------- MODULE AnalysisRunnerProofs --------------------------
(***************************************************************************)
(* The page and the row it drives keep to their types, for any number of   *)
(* tabs and stages.  Tabs that close, answers that overtake each other and *)
(* claims that were taken over apply no stage past the last one; a job     *)
(* that waits for its reviewers can be disturbed by one thing only, a      *)
(* retry that found it FAILED before.                                      *)
(***************************************************************************)
EXTENDS AnalysisRunner, TLAPS

\* Nobody holds a claim on a job that waits for its reviewers.
NoClaimInReview == row.status = "WAITING_FOR_APPROVAL" => owner = NoPage

\* An open page, and no other, shows a row; only an open page has an answer, a poll or a
\* timer to wait for.
OpenPagesAsk ==
  \A p \in Pages :
    /\ IsOpen(p) <=> shown[p] # Nothing
    /\ call[p] \in {"asking", "answered"} => IsOpen(p)
    /\ call[p] = "answered" <=> reply[p] # Nothing
    /\ poll[p] # Nothing => IsOpen(p)
    /\ timer[p] => IsOpen(p)

RunnerInv == RunnerTypeOK /\ NoClaimInReview /\ OpenPagesAsk

LEMMA RowsAreShown ==
  /\ Stages \in Nat /\ 0 < Stages /\ 0 \in 0..Stages
  /\ \A s : s \in 0..Stages <=> s \in Nat /\ s <= Stages
  /\ Nothing \notin RowsShown /\ NoPage \notin Pages
BY RunnerAssumption, NothingAssumption

LEMMA JobIsSet ==
  ASSUME RunnerTypeOK, NEW p \in Pages, NEW r \in RowsShown, setJob(p, r)
  PROVE  /\ shown' \in [Pages -> RowsShown \cup {Nothing}] /\ timer' \in [Pages -> BOOLEAN]
         /\ shown'[p] = r
         /\ \A q \in Pages : q # p => shown'[q] = shown[q] /\ timer'[q] = timer[q]
<1>1. Armed(p, r) \in BOOLEAN
  <2>1. timer[p] \in BOOLEAN
    BY DEF RunnerTypeOK
  <2>2. CASE r = shown[p]
    BY <2>1, <2>2 DEF Armed
  <2>3. CASE r # shown[p]
    BY <2>3 DEF Armed
  <2> QED BY <2>2, <2>3
<1> HIDE DEF Armed
<1> QED BY <1>1 DEF RunnerTypeOK, setJob

LEMMA EventCounted ==
  ASSUME RunnerTypeOK, pageEvent
  PROVE  pageEvents' \in 0..MaxPageEvents
BY RunnerAssumption DEF RunnerTypeOK, pageEvent

-----------------------------------------------------------------------------
(* The page. *)

LEMMA TimerKeeps ==
  ASSUME RunnerInv, NEW p \in Pages, timerFires(p) PROVE RunnerInv'
<1>1. /\ UNCHANGED <<row, heartbeat, owner, open, shown, reply, poll, retrying, pageEvents>>
      /\ timer' = [timer EXCEPT ![p] = FALSE]
      /\ call' = call \/ (call[p] = "idle" /\ call' = [call EXCEPT ![p] = "sent"])
      /\ disturbed' \in BOOLEAN
  BY DEF timerFires, serverVars, RunnerInv, RunnerTypeOK
<1>2. RunnerTypeOK'
  BY <1>1 DEF RunnerInv, RunnerTypeOK, CallPhases
<1>3. NoClaimInReview'
  BY <1>1 DEF RunnerInv, NoClaimInReview
<1>4. OpenPagesAsk'
  BY <1>1 DEF RunnerInv, RunnerTypeOK, OpenPagesAsk, IsOpen
<1> QED BY <1>2, <1>3, <1>4 DEF RunnerInv

LEMMA AnswerKeeps ==
  ASSUME RunnerInv, NEW p \in Pages, advanceAnswered(p) PROVE RunnerInv'
<1>1. /\ UNCHANGED <<row, heartbeat, owner, open, poll, retrying, pageEvents, disturbed>>
      /\ call[p] = "answered" /\ call' = [call EXCEPT ![p] = "idle"]
      /\ reply' = [reply EXCEPT ![p] = Nothing] /\ setJob(p, reply[p])
  BY DEF advanceAnswered, Move, serverVars, eventVars
<1>2. reply[p] \in RowsShown /\ reply[p] # Nothing /\ IsOpen(p)
  BY <1>1 DEF RunnerInv, RunnerTypeOK, OpenPagesAsk
<1>3. /\ shown' \in [Pages -> RowsShown \cup {Nothing}] /\ timer' \in [Pages -> BOOLEAN]
      /\ shown'[p] = reply[p]
      /\ \A q \in Pages : q # p => shown'[q] = shown[q] /\ timer'[q] = timer[q]
  BY <1>1, <1>2, JobIsSet DEF RunnerInv
<1>4. RunnerTypeOK'
  BY <1>1, <1>3 DEF RunnerInv, RunnerTypeOK, CallPhases
<1>5. NoClaimInReview'
  BY <1>1 DEF RunnerInv, NoClaimInReview
<1>6. OpenPagesAsk'
  BY <1>1, <1>2, <1>3 DEF RunnerInv, RunnerTypeOK, OpenPagesAsk, IsOpen
<1> QED BY <1>4, <1>5, <1>6 DEF RunnerInv

LEMMA PollKeeps ==
  ASSUME RunnerInv, NEW p \in Pages, pollReads(p) \/ pollArrives(p) PROVE RunnerInv'
<1>1. CASE pollReads(p)
  <2>1. /\ UNCHANGED <<row, heartbeat, owner, open, shown, timer, call, reply>>
        /\ UNCHANGED <<retrying, pageEvents, disturbed>>
        /\ poll' = [poll EXCEPT ![p] = row] /\ IsOpen(p)
    BY <1>1 DEF pollReads, Polls, serverVars, eventVars
  <2>2. RunnerTypeOK'
    BY <2>1 DEF RunnerInv, RunnerTypeOK
  <2>3. NoClaimInReview'
    BY <2>1 DEF RunnerInv, NoClaimInReview
  <2>4. OpenPagesAsk'
    BY <2>1 DEF RunnerInv, RunnerTypeOK, OpenPagesAsk, IsOpen
  <2> QED BY <2>2, <2>3, <2>4 DEF RunnerInv
<1>2. CASE pollArrives(p)
  <2>1. /\ UNCHANGED <<row, heartbeat, owner, open, call, reply, retrying, pageEvents, disturbed>>
        /\ poll[p] # Nothing /\ poll' = [poll EXCEPT ![p] = Nothing] /\ setJob(p, poll[p])
    BY <1>2 DEF pollArrives, serverVars, eventVars
  <2>2. poll[p] \in RowsShown /\ IsOpen(p)
    BY <2>1 DEF RunnerInv, RunnerTypeOK, OpenPagesAsk
  <2>3. /\ shown' \in [Pages -> RowsShown \cup {Nothing}] /\ timer' \in [Pages -> BOOLEAN]
        /\ shown'[p] = poll[p]
        /\ \A q \in Pages : q # p => shown'[q] = shown[q] /\ timer'[q] = timer[q]
    BY <2>1, <2>2, JobIsSet DEF RunnerInv
  <2>4. RunnerTypeOK'
    BY <2>1, <2>3 DEF RunnerInv, RunnerTypeOK
  <2>5. NoClaimInReview'
    BY <2>1 DEF RunnerInv, NoClaimInReview
  <2>6. OpenPagesAsk'
    BY <2>1, <2>2, <2>3 DEF RunnerInv, RunnerTypeOK, OpenPagesAsk, IsOpen
  <2> QED BY <2>4, <2>5, <2>6 DEF RunnerInv
<1> QED BY <1>1, <1>2

LEMMA OpenKeeps ==
  ASSUME RunnerInv, NEW p \in Pages, openPage(p) PROVE RunnerInv'
<1>1. /\ UNCHANGED <<row, heartbeat, owner, call, reply, poll, retrying, disturbed>>
      /\ open[p] = "LATER" /\ open' = [open EXCEPT ![p] = "OPEN"] /\ setJob(p, row)
      /\ pageEvents' \in 0..MaxPageEvents /\ row \in RowsShown
  BY EventCounted DEF openPage, serverVars, RunnerInv, RunnerTypeOK
<1>2. /\ shown' \in [Pages -> RowsShown \cup {Nothing}] /\ timer' \in [Pages -> BOOLEAN]
      /\ shown'[p] = row
      /\ \A q \in Pages : q # p => shown'[q] = shown[q] /\ timer'[q] = timer[q]
  BY <1>1, JobIsSet DEF RunnerInv
<1>3. RunnerTypeOK'
  BY <1>1, <1>2 DEF RunnerInv, RunnerTypeOK
<1>4. NoClaimInReview'
  BY <1>1 DEF RunnerInv, NoClaimInReview
<1>5. /\ IsOpen(p)' /\ shown'[p] # Nothing
      /\ \A q \in Pages : q # p => (IsOpen(q)' <=> IsOpen(q))
  BY <1>1, <1>2, RowsAreShown DEF RunnerInv, RunnerTypeOK, IsOpen
<1>6. OpenPagesAsk'
  BY <1>1, <1>2, <1>5 DEF RunnerInv, OpenPagesAsk
<1> QED BY <1>3, <1>4, <1>6 DEF RunnerInv

LEMMA CloseKeeps ==
  ASSUME RunnerInv, NEW p \in Pages, closePage(p) PROVE RunnerInv'
<1> DEFINE phase == IF call[p] \in {"sent", "working"} THEN call[p] ELSE "idle"
<1>1. /\ UNCHANGED <<row, heartbeat, owner, retrying, disturbed>>
      /\ open' = [open EXCEPT ![p] = "CLOSED"] /\ shown' = [shown EXCEPT ![p] = Nothing]
      /\ timer' = [timer EXCEPT ![p] = FALSE] /\ call' = [call EXCEPT ![p] = phase]
      /\ reply' = [reply EXCEPT ![p] = Nothing] /\ poll' = [poll EXCEPT ![p] = Nothing]
      /\ pageEvents' \in 0..MaxPageEvents
  BY EventCounted DEF closePage, serverVars, RunnerInv
<1>2. phase \in CallPhases /\ phase \notin {"asking", "answered"}
  BY DEF CallPhases
<1> HIDE DEF phase
<1>3. RunnerTypeOK'
  BY <1>1, <1>2 DEF RunnerInv, RunnerTypeOK
<1>4. NoClaimInReview'
  BY <1>1 DEF RunnerInv, NoClaimInReview
<1>5. OpenPagesAsk'
  BY <1>1, <1>2 DEF RunnerInv, RunnerTypeOK, OpenPagesAsk, IsOpen
<1> QED BY <1>3, <1>4, <1>5 DEF RunnerInv

\* A cancel, or the update of a retry, changes the row and may show it at once.
LEMMA ControlKeeps ==
  ASSUME RunnerInv, NEW p \in Pages, cancel(p) \/ retryCommit(p) PROVE RunnerInv'
<1>1. /\ UNCHANGED <<owner, open, call, reply, poll>> /\ heartbeat' = "NONE"
      /\ (IsOpen(p) /\ setJob(p, row')) \/ UNCHANGED <<shown, timer>>
      /\ pageEvents' \in 0..MaxPageEvents /\ disturbed' \in BOOLEAN
      /\ retrying' \in [Pages -> Nat]
  <2>1. CASE cancel(p)
    BY <2>1, EventCounted DEF cancel, RunnerInv, RunnerTypeOK
  <2>2. CASE retryCommit(p)
    <3>1. retrying[p] - 1 \in Nat
      BY <2>2, RunnerAssumption DEF retryCommit, RunnerInv, RunnerTypeOK
    <3> QED BY <2>2, <3>1 DEF retryCommit, RunnerInv, RunnerTypeOK
  <2> QED BY <2>1, <2>2
<1>2. row' \in RowsShown /\ row'.status # "WAITING_FOR_APPROVAL"
  <2>1. row \in RowsShown /\ row.stage \in 0..Stages
    BY DEF RunnerInv, RunnerTypeOK, RowsShown
  <2>2. CASE cancel(p)
    <3>1. row' = [row EXCEPT !.status = "CANCELLED"]
      BY <2>2 DEF cancel
    <3> QED BY <2>1, <3>1 DEF RowsShown, Ended
  <2>3. CASE retryCommit(p)
    <3>1. PICK stage \in {0, row.stage} : row' = [status |-> "QUEUED", stage |-> stage]
      BY <2>3 DEF retryCommit
    <3>2. stage \in 0..Stages
      BY <2>1, <3>1, RowsAreShown
    <3> QED BY <3>1, <3>2 DEF RowsShown, Active
  <2> QED BY <2>2, <2>3
<1>3. NoClaimInReview'
  BY <1>2 DEF NoClaimInReview
<1>4. CASE IsOpen(p) /\ setJob(p, row')
  <2>1. /\ shown' \in [Pages -> RowsShown \cup {Nothing}] /\ timer' \in [Pages -> BOOLEAN]
        /\ shown'[p] = row'
        /\ \A q \in Pages : q # p => shown'[q] = shown[q] /\ timer'[q] = timer[q]
    BY <1>2, <1>4, JobIsSet DEF RunnerInv
  <2>2. RunnerTypeOK'
    BY <1>1, <1>2, <2>1 DEF RunnerInv, RunnerTypeOK
  <2>3. OpenPagesAsk'
    BY <1>1, <1>2, <1>4, <2>1, RowsAreShown DEF RunnerInv, OpenPagesAsk, IsOpen
  <2> QED BY <1>3, <2>2, <2>3 DEF RunnerInv
<1>5. CASE UNCHANGED <<shown, timer>>
  <2>1. RunnerTypeOK'
    BY <1>1, <1>2, <1>5 DEF RunnerInv, RunnerTypeOK
  <2>2. OpenPagesAsk'
    BY <1>1, <1>5 DEF RunnerInv, OpenPagesAsk, IsOpen
  <2> QED BY <1>3, <2>1, <2>2 DEF RunnerInv
<1> QED BY <1>1, <1>4, <1>5

\* The check of a retry leaves everything else alone.
LEMMA RetryReadKeeps ==
  ASSUME RunnerInv, NEW p \in Pages, retryRead(p) PROVE RunnerInv'
<1>1. /\ UNCHANGED <<row, heartbeat, owner, open, shown, timer, call, reply, poll>>
      /\ pageEvents' \in 0..MaxPageEvents /\ disturbed' \in BOOLEAN
      /\ retrying' \in [Pages -> Nat]
  BY EventCounted DEF retryRead, serverVars, pageVars, RunnerInv, RunnerTypeOK
<1>2. RunnerTypeOK'
  BY <1>1 DEF RunnerInv, RunnerTypeOK
<1>3. NoClaimInReview'
  BY <1>1 DEF RunnerInv, NoClaimInReview
<1>4. OpenPagesAsk'
  BY <1>1 DEF RunnerInv, OpenPagesAsk, IsOpen
<1> QED BY <1>2, <1>3, <1>4 DEF RunnerInv

-----------------------------------------------------------------------------
(* The server. *)

\* A call moves on, to a question only if its page is open.
LEMMA MoveKeeps ==
  ASSUME RunnerInv, NEW p \in Pages, NEW from \in {"sent", "working"},
         NEW to \in {"working", Answering(p)}, Move(p, from, to),
         UNCHANGED <<open, shown, timer, reply, poll, retrying, pageEvents, disturbed>>,
         row' \in RowsShown, heartbeat' \in {"NONE", "FRESH", "STALE"},
         owner' \in Pages \cup {NoPage}, NoClaimInReview'
  PROVE  RunnerInv'
<1>1. /\ call[p] = from /\ call' = [call EXCEPT ![p] = to] /\ to \in CallPhases
      /\ to # "answered" /\ (to = "asking" => IsOpen(p))
  BY DEF Move, Answering, CallPhases
<1>2. RunnerTypeOK'
  BY <1>1 DEF RunnerInv, RunnerTypeOK
<1>3. OpenPagesAsk'
  BY <1>1 DEF RunnerInv, RunnerTypeOK, OpenPagesAsk, IsOpen
<1> QED BY <1>2, <1>3 DEF RunnerInv

LEMMA ClaimKeeps ==
  ASSUME RunnerInv, NEW p \in Pages, claimStage(p) \/ claimRefused(p) PROVE RunnerInv'
<1>1. CASE claimStage(p)
  <2>1. /\ row' = [row EXCEPT !.status = "RUNNING"] /\ row \in RowsShown /\ Claimable
        /\ heartbeat' = "FRESH" /\ owner' = p /\ Move(p, "sent", "working")
        /\ UNCHANGED <<open, shown, timer, reply, poll, retrying, pageEvents, disturbed>>
    BY <1>1 DEF claimStage, eventVars, RunnerInv, RunnerTypeOK
  <2>2. row' \in RowsShown /\ row'.status = "RUNNING" /\ row'.stage = row.stage
    BY <2>1 DEF RowsShown, Active
  <2>3. NoClaimInReview'
    BY <2>1, <2>2 DEF RunnerInv, NoClaimInReview, Claimable
  <2> QED BY <2>1, <2>2, <2>3, MoveKeeps
<1>2. CASE claimRefused(p)
  <2>1. /\ UNCHANGED <<row, heartbeat, owner>> /\ Move(p, "sent", Answering(p))
        /\ UNCHANGED <<open, shown, timer, reply, poll, retrying, pageEvents, disturbed>>
    BY <1>2 DEF claimRefused, serverVars, eventVars
  <2>2. NoClaimInReview'
    BY <2>1 DEF RunnerInv, NoClaimInReview
  <2> QED BY <2>1, <2>2, MoveKeeps DEF RunnerInv, RunnerTypeOK
<1> QED BY <1>1, <1>2

LEMMA StageKeeps ==
  ASSUME RunnerInv, NEW p \in Pages, stageApplied(p) \/ stageFailed(p) PROVE RunnerInv'
<1>1. /\ Move(p, "working", Answering(p))
      /\ UNCHANGED <<open, shown, timer, reply, poll, retrying, pageEvents, disturbed>>
  BY DEF stageApplied, stageFailed, eventVars
<1>2. /\ row \in RowsShown /\ row.stage \in 0..Stages /\ heartbeat \in {"NONE", "FRESH", "STALE"}
      /\ owner \in Pages \cup {NoPage}
  BY DEF RunnerInv, RunnerTypeOK, RowsShown
<1>3. CASE UNCHANGED <<row, heartbeat, owner>>
  <2>1. NoClaimInReview'
    BY <1>3 DEF RunnerInv, NoClaimInReview
  <2> QED BY <1>1, <1>2, <1>3, <2>1, MoveKeeps
<1>4. CASE stageApplied(p) /\ owner = p /\ row.status = "RUNNING"
  <2>1. NextStage(row.stage) \in 0..Stages
    BY <1>2, RowsAreShown DEF NextStage
  <2>2. /\ row'.stage = NextStage(row.stage)
        /\ row' \in [status: {"WAITING_FOR_APPROVAL", "RUNNING"}, stage: 0..Stages]
        /\ heartbeat' = "NONE" /\ owner' = NoPage
    BY <1>4, <2>1 DEF stageApplied
  <2>3. row' \in RowsShown
    BY <2>2 DEF RowsShown, Active, Ended
  <2>4. NoClaimInReview'
    BY <2>2 DEF NoClaimInReview
  <2> QED BY <1>1, <2>2, <2>3, <2>4, MoveKeeps
<1>5. CASE stageFailed(p) /\ owner = p
  <2>1. row' = [row EXCEPT !.status = "FAILED"] /\ heartbeat' = "NONE" /\ owner' = NoPage
    BY <1>5 DEF stageFailed
  <2>2. row' \in RowsShown
    BY <1>2, <2>1 DEF RowsShown
  <2>3. NoClaimInReview'
    BY <2>1 DEF NoClaimInReview
  <2> QED BY <1>1, <2>1, <2>2, <2>3, MoveKeeps
<1> QED BY <1>3, <1>4, <1>5 DEF stageApplied, stageFailed, serverVars

LEMMA ReadKeeps ==
  ASSUME RunnerInv, NEW p \in Pages, rowRead(p) PROVE RunnerInv'
<1>1. /\ UNCHANGED <<row, heartbeat, owner, open, shown, timer, poll>>
      /\ UNCHANGED <<retrying, pageEvents, disturbed>>
      /\ call[p] = "asking" /\ call' = [call EXCEPT ![p] = "answered"]
      /\ reply' = [reply EXCEPT ![p] = row] /\ row \in RowsShown /\ row # Nothing
  BY RowsAreShown DEF rowRead, Move, serverVars, eventVars, RunnerInv, RunnerTypeOK
<1>2. RunnerTypeOK'
  BY <1>1 DEF RunnerInv, RunnerTypeOK, CallPhases
<1>3. NoClaimInReview'
  BY <1>1 DEF RunnerInv, NoClaimInReview
<1>4. OpenPagesAsk'
  BY <1>1 DEF RunnerInv, RunnerTypeOK, OpenPagesAsk, IsOpen
<1> QED BY <1>2, <1>3, <1>4 DEF RunnerInv

LEMMA LossKeeps ==
  ASSUME RunnerInv, NEW p \in Pages, requestLost(p) PROVE RunnerInv'
<1>1. /\ UNCHANGED <<row, heartbeat, open, shown, timer, poll, retrying>>
      /\ call' = [call EXCEPT ![p] = "idle"] /\ reply' = [reply EXCEPT ![p] = Nothing]
      /\ owner' \in {owner, NoPage} /\ pageEvents' \in 0..MaxPageEvents /\ disturbed' \in BOOLEAN
  BY EventCounted DEF requestLost, RunnerInv
<1>2. RunnerTypeOK'
  BY <1>1 DEF RunnerInv, RunnerTypeOK, CallPhases
<1>3. NoClaimInReview'
  BY <1>1 DEF RunnerInv, NoClaimInReview
<1>4. OpenPagesAsk'
  BY <1>1 DEF RunnerInv, RunnerTypeOK, OpenPagesAsk, IsOpen
<1> QED BY <1>2, <1>3, <1>4 DEF RunnerInv

-----------------------------------------------------------------------------
(* The theorems. *)

LEMMA RunnerInvInit == RunnerInit => RunnerInv
<1> SUFFICES ASSUME RunnerInit PROVE RunnerInv
  OBVIOUS
<1>1. RunnerTypeOK
  <2>1. row \in RowsShown
    BY RowsAreShown DEF RunnerInit, RowsShown, Active
  <2>2. 0 \in 0..MaxPageEvents
    BY RunnerAssumption
  <2> QED BY <2>1, <2>2 DEF RunnerInit, RunnerTypeOK, CallPhases
<1>2. NoClaimInReview
  BY RowsAreShown DEF RunnerInit, NoClaimInReview
<1>3. OpenPagesAsk
  BY DEF RunnerInit, OpenPagesAsk, IsOpen
<1> QED BY <1>1, <1>2, <1>3 DEF RunnerInv

LEMMA RunnerInvStep == RunnerInv /\ [RunnerNext]_runnerVars => RunnerInv'
<1> SUFFICES ASSUME RunnerInv, [RunnerNext]_runnerVars PROVE RunnerInv'
  OBVIOUS
<1>1. ASSUME NEW p \in Pages, Browser(p) \/ pollReads(p) PROVE RunnerInv'
  BY <1>1, TimerKeeps, AnswerKeeps, PollKeeps DEF Browser
<1>2. ASSUME NEW p \in Pages, Server(p) PROVE RunnerInv'
  BY <1>2, ClaimKeeps, StageKeeps, ReadKeeps DEF Server
<1>3. ASSUME NEW p \in Pages, User(p) PROVE RunnerInv'
  BY <1>3, OpenKeeps, CloseKeeps, ControlKeeps, RetryReadKeeps DEF User
<1>4. ASSUME NEW p \in Pages, requestLost(p) PROVE RunnerInv'
  BY <1>4, LossKeeps
<1>5. CASE heartbeatLapses \/ UNCHANGED runnerVars
  <2>1. /\ UNCHANGED <<row, owner, open, shown, timer, call, reply, poll>>
        /\ UNCHANGED <<retrying, pageEvents, disturbed>>
        /\ heartbeat' \in {"NONE", "FRESH", "STALE"}
    BY <1>5 DEF heartbeatLapses, pageVars, eventVars, runnerVars, RunnerInv, RunnerTypeOK
  <2>2. RunnerTypeOK'
    BY <2>1 DEF RunnerInv, RunnerTypeOK
  <2>3. NoClaimInReview'
    BY <2>1 DEF RunnerInv, NoClaimInReview
  <2>4. OpenPagesAsk'
    BY <2>1 DEF RunnerInv, OpenPagesAsk, IsOpen
  <2> QED BY <2>2, <2>3, <2>4 DEF RunnerInv
<1> QED BY <1>1, <1>2, <1>3, <1>4, <1>5 DEF RunnerNext

THEOREM RunnerInvariant == RunnerSpec => []RunnerInv
BY RunnerInvInit, RunnerInvStep, PTL DEF RunnerSpec

\* The row never goes past its last stage, and what pages show, ask for and receive are rows.
THEOREM RunnerTypeCorrect == RunnerSpec => []RunnerTypeOK
<1>1. RunnerInv => RunnerTypeOK
  BY DEF RunnerInv
<1> QED BY <1>1, RunnerInvariant, PTL

\* A job that waits for its reviewers is left alone by late claims, failures and cancellations
\* of any tab.  One thing disturbs it: a retry that read FAILED before, whose update by id
\* puts it back to QUEUED (analysis-job-service.ts:476).
THEOREM OnlyLateRetriesDisturbReviews ==
  RunnerSpec =>
    [][row.status = "WAITING_FOR_APPROVAL" =>
         \/ row' = row
         \/ row'.status = "QUEUED" /\ \E p \in Pages : retrying[p] > 0]_runnerVars
<1> DEFINE Left == row.status = "WAITING_FOR_APPROVAL" =>
                     \/ row' = row
                     \/ row'.status = "QUEUED" /\ \E p \in Pages : retrying[p] > 0
<1>1. RunnerInv /\ [RunnerNext]_runnerVars => [Left]_runnerVars
  <2> SUFFICES ASSUME RunnerInv, RunnerNext, row.status = "WAITING_FOR_APPROVAL"
               PROVE  \/ row' = row
                      \/ row'.status = "QUEUED" /\ \E p \in Pages : retrying[p] > 0
    OBVIOUS
  <2>1. owner = NoPage /\ owner \notin Pages
    BY RowsAreShown DEF RunnerInv, NoClaimInReview
  <2>2. ASSUME NEW p \in Pages, Browser(p) \/ pollReads(p) PROVE row' = row
    BY <2>2 DEF Browser, timerFires, advanceAnswered, pollArrives, pollReads, serverVars
  <2>3. ASSUME NEW p \in Pages, Server(p) PROVE row' = row
    BY <2>1, <2>3 DEF Server, claimStage, claimRefused, stageApplied, stageFailed, rowRead,
       Claimable, serverVars
  <2>4. ASSUME NEW p \in Pages, User(p), ~retryCommit(p) PROVE row' = row
    BY <2>4 DEF User, openPage, closePage, cancel, retryRead, Active, serverVars
  <2>5. ASSUME NEW p \in Pages, retryCommit(p)
        PROVE  row'.status = "QUEUED" /\ \E q \in Pages : retrying[q] > 0
    BY <2>5 DEF retryCommit
  <2>6. ASSUME NEW p \in Pages, requestLost(p) PROVE row' = row
    BY <2>6 DEF requestLost
  <2>7. CASE heartbeatLapses
    BY <2>7 DEF heartbeatLapses
  <2> QED BY <2>2, <2>3, <2>4, <2>5, <2>6, <2>7 DEF RunnerNext
<1> QED BY <1>1, RunnerInvariant, PTL DEF RunnerSpec
=============================================================================
