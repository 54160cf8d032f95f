---------------------------- MODULE BusinessInsight ----------------------------
(***************************************************************************)
(* One business insight: a request creates the row and adds a message      *)
(* (queueBusinessInsight, enqueueBusinessInsightJob); a worker counts      *)
(* conversations and messages while people go on chatting, and stores the  *)
(* result with its snapshot (process-business-insight.ts); a failure is    *)
(* written by the worker runtime and the queue tries again.                *)
(*                                                                         *)
(* Topics, trends and findings follow from the messages that were read and *)
(* are left out, as are filters and permissions.                           *)
(***************************************************************************)
EXTENDS Naturals, FiniteSets

CONSTANTS Conversations,     \* that the filters select
          InsightWorkers,    \* worker slots
          MinConversations,  \* 3: fewer allow no conclusion
          MinMessages,       \* 6: fewer allow no conclusion
          MaxMessages,       \* bound: messages of a conversation
          InsightAttempts,   \* 3: attempts of the queue
          MaxMishaps,        \* bound: deaths, stalls, lost answers, failures nobody could write
          NoResult           \* no BusinessInsightSnapshot row

ASSUME InsightAssumption ==
  /\ IsFiniteSet(Conversations)
  /\ {MinConversations, MinMessages, MaxMishaps} \subseteq Nat
  /\ MaxMessages \in Nat \ {0}
  /\ InsightAttempts \in Nat \ {0}
  /\ NoResult \notin InsightWorkers \cup [conversations: Nat, messages: Nat]

VARIABLES
  messageCount,   \* messageCount[c]: how many there are in conversation c
  requester,  \* how far the request is
  insight,    \* the BusinessInsightJob row
  snapshot,   \* its BusinessInsightSnapshot row
  delivery,   \* the message of the queue
  analyst,    \* analyst[w]: where worker w is and what it has read
  mishaps

insightVars == <<messageCount, requester, insight, snapshot, delivery, analyst, mishaps>>

Concluded == {"COMPLETED", "INSUFFICIENT_DATA"}
MessageCounts == 0..(MaxMessages * Cardinality(Conversations))
Results == [conversations: 0..Cardinality(Conversations), messages: MessageCounts]
NothingRead == [phase |-> "Idle", read |-> {}, count |-> 0]

InsightTypeOK ==
  /\ messageCount \in [Conversations -> 0..MaxMessages]
  /\ requester \in {"Start", "Enqueue", "Audit", "Failing", "Done"}
  /\ insight.status \in {"PROCESSING", "FAILED"} \cup Concluded
  /\ insight.result \in Results
  /\ snapshot \in Results \cup {NoResult}
  /\ delivery.state \in {"NONE", "WAITING", "ACTIVE", "COMPLETED", "FAILED"}
  /\ delivery.attempts \in 0..InsightAttempts
  /\ \A w \in InsightWorkers :
       /\ analyst[w].phase \in {"Idle", "Start", "Conversations", "Store", "Failing"}
       /\ analyst[w].read \subseteq Conversations
       /\ analyst[w].count \in MessageCounts
  /\ mishaps \in 0..MaxMishaps

InsightInit ==
  /\ messageCount \in [Conversations -> 0..1]
  /\ requester = "Start"
  /\ insight = [status |-> "PROCESSING", result |-> [conversations |-> 0, messages |-> 0]]
  /\ snapshot = NoResult
  /\ delivery = [state |-> "NONE", attempts |-> 0, worker |-> NoResult]
  /\ analyst = [w \in InsightWorkers |-> NothingRead]
  /\ mishaps = 0

-----------------------------------------------------------------------------
(* The chat goes on. *)
sendMessage(c) ==
  /\ messageCount[c] < MaxMessages
  /\ messageCount' = [messageCount EXCEPT ![c] = @ + 1]
  /\ UNCHANGED <<requester, insight, snapshot, delivery, analyst, mishaps>>

\* By its owner or by retention.
dropConversation(c) ==
  /\ messageCount[c] > 0
  /\ messageCount' = [messageCount EXCEPT ![c] = 0]
  /\ UNCHANGED <<requester, insight, snapshot, delivery, analyst, mishaps>>

-----------------------------------------------------------------------------
(* The request. *)
Request(from, to) == requester = from /\ requester' = to

createRow ==
  /\ Request("Start", "Enqueue")
  /\ UNCHANGED <<messageCount, insight, snapshot, delivery, analyst, mishaps>>

enqueue ==
  /\ Request("Enqueue", "Audit")
  /\ delivery' = [delivery EXCEPT !.state = "WAITING"]
  /\ UNCHANGED <<messageCount, insight, snapshot, analyst, mishaps>>

audit ==
  /\ Request("Audit", "Done")
  /\ UNCHANGED <<messageCount, insight, snapshot, delivery, analyst, mishaps>>

\* No worker, a full queue or no answer; or, with the message sent, the audit entry fails.
requestFails ==
  /\ Request("Enqueue", "Failing") \/ Request("Audit", "Failing")
  /\ UNCHANGED <<messageCount, insight, snapshot, delivery, analyst, mishaps>>

markUnavailable ==
  /\ Request("Failing", "Done")
  /\ insight' = [insight EXCEPT !.status = "FAILED"]
  /\ UNCHANGED <<messageCount, snapshot, delivery, analyst, mishaps>>

\* Or it cannot write its failure.
requesterDies ==
  /\ requester \notin {"Start", "Done"}
  /\ mishaps < MaxMishaps
  /\ mishaps' = mishaps + 1
  /\ requester' = "Done"
  /\ UNCHANGED <<messageCount, insight, snapshot, delivery, analyst>>

-----------------------------------------------------------------------------
(* The worker. *)
take(w) ==
  /\ delivery.state = "WAITING"
  /\ analyst[w].phase = "Idle"
  /\ delivery' = [state |-> "ACTIVE", attempts |-> delivery.attempts + 1, worker |-> w]
  /\ analyst' = [analyst EXCEPT ![w] = [NothingRead EXCEPT !.phase = "Start"]]
  /\ UNCHANGED <<messageCount, requester, insight, snapshot, mishaps>>

readConversations(w) ==
  /\ analyst[w].phase = "Start"
  /\ analyst' = [analyst EXCEPT ![w].phase = "Conversations",
                                ![w].read = {c \in Conversations : messageCount[c] > 0}]
  /\ UNCHANGED <<messageCount, requester, insight, snapshot, delivery, mishaps>>

MessagesOf(read) == {m \in read \X (1..MaxMessages) : m[2] <= messageCount[m[1]]}

readMessages(w) ==
  /\ analyst[w].phase = "Conversations"
  /\ analyst' = [analyst EXCEPT ![w].phase = "Store",
                                ![w].count = Cardinality(MessagesOf(analyst[w].read))]
  /\ UNCHANGED <<messageCount, requester, insight, snapshot, delivery, mishaps>>

\* The queue looks at what a worker that lost its lock reports no more.
Report(w, state) ==
  delivery' = IF delivery.worker = w THEN [delivery EXCEPT !.state = state, !.worker = NoResult]
              ELSE delivery
AfterFailure == IF delivery.attempts < InsightAttempts THEN "WAITING" ELSE "FAILED"

Result(w) == [conversations |-> Cardinality(analyst[w].read), messages |-> analyst[w].count]
EnoughEvidence(r) == r.conversations >= MinConversations /\ r.messages >= MinMessages

\* ON CONFLICT DO NOTHING
StoredSnapshot(r) == IF snapshot = NoResult THEN r ELSE snapshot

Concluding(w) ==
  insight' = [status |-> IF EnoughEvidence(Result(w)) THEN "COMPLETED" ELSE "INSUFFICIENT_DATA",
              result |-> Result(w)]
Store(w) == Concluding(w) /\ snapshot' = StoredSnapshot(Result(w))

commitInsight(w) ==
  /\ analyst[w].phase = "Store"
  /\ Store(w)
  /\ Report(w, "COMPLETED")
  /\ analyst' = [analyst EXCEPT ![w] = NothingRead]
  /\ UNCHANGED <<messageCount, requester, mishaps>>

ToFailing(w) == analyst' = [analyst EXCEPT ![w] = [NothingRead EXCEPT !.phase = "Failing"]]

\* Mutant: no transaction, the row is written before the snapshot is refused.
LeftByFailureHalf(w) ==
  UNCHANGED snapshot /\ (UNCHANGED insight \/ (analyst[w].phase = "Store" /\ Concluding(w)))
\* What a failing statement leaves after ROLLBACK.
LeftByFailure(w) == UNCHANGED <<insight, snapshot>>

insightFails(w) ==
  /\ analyst[w].phase \in {"Start", "Conversations", "Store"}
  /\ LeftByFailure(w)
  /\ ToFailing(w)
  /\ UNCHANGED <<messageCount, requester, delivery, mishaps>>

\* COMMIT does its work and its answer is lost.
commitAnswerIsLost(w) ==
  /\ analyst[w].phase = "Store"
  /\ mishaps < MaxMishaps
  /\ mishaps' = mishaps + 1
  /\ Store(w)
  /\ ToFailing(w)
  /\ UNCHANGED <<messageCount, requester, delivery>>

failedStatus == "FAILED"

writeFailure(w) ==
  /\ analyst[w].phase = "Failing"
  /\ insight' = [insight EXCEPT !.status = failedStatus]
  /\ Report(w, AfterFailure)
  /\ analyst' = [analyst EXCEPT ![w] = NothingRead]
  /\ UNCHANGED <<messageCount, requester, snapshot, mishaps>>

\* The database is away: the failure is not written either.
writeFailureFails(w) ==
  /\ analyst[w].phase = "Failing"
  /\ mishaps < MaxMishaps
  /\ mishaps' = mishaps + 1
  /\ Report(w, AfterFailure)
  /\ analyst' = [analyst EXCEPT ![w] = NothingRead]
  /\ UNCHANGED <<messageCount, requester, insight, snapshot>>

\* The lock runs out: the worker has died, or is slow and goes on.
stall(w) ==
  /\ delivery.worker = w
  /\ mishaps < MaxMishaps
  /\ mishaps' = mishaps + 1
  /\ delivery' = [delivery EXCEPT !.state = "WAITING", !.attempts = @ - 1, !.worker = NoResult]
  /\ analyst' \in {analyst, [analyst EXCEPT ![w] = NothingRead]}
  /\ UNCHANGED <<messageCount, requester, insight, snapshot>>

InsightNext ==
  \/ \E c \in Conversations : sendMessage(c) \/ dropConversation(c)
  \/ createRow \/ enqueue \/ audit \/ requestFails \/ markUnavailable \/ requesterDies
  \/ \E w \in InsightWorkers :
       \/ take(w) \/ readConversations(w) \/ readMessages(w) \/ commitInsight(w)
       \/ insightFails(w) \/ commitAnswerIsLost(w)
       \/ writeFailure(w) \/ writeFailureFails(w) \/ stall(w)

InsightSpec == InsightInit /\ [][InsightNext]_insightVars

-----------------------------------------------------------------------------
(* Properties. *)

\* docs/insightkm-development-plan.md:490, what was shown can be checked later: a concluded
\* insight has a snapshot, and as long as nobody was taken for dead and no answer was lost
\* it is the one that the row describes, whichever attempt concluded
\* (docs/phase7-execution.md:34, "immutable snapshot history").
ConclusionsHaveSnapshots ==
  insight.status \in Concluded =>
    /\ snapshot # NoResult
    /\ mishaps = 0 => insight.result = snapshot

Quiet == /\ requester = "Done"
         /\ delivery.state \notin {"WAITING", "ACTIVE"}
         /\ \A w \in InsightWorkers : analyst[w].phase = "Idle"

\* Nothing recovers an insight: a row that nobody works on any more is not left PROCESSING,
\* whatever failed in whichever order, unless there was a mishap: a process that died, a lock
\* that ran out, a lost answer, or a failure that could not be written.
NoInsightIsForgotten == Quiet /\ mishaps = 0 => insight.status # "PROCESSING"
=============================================================================
