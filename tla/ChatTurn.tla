-------------------------------- MODULE ChatTurn --------------------------------
(***************************************************************************)
(* The turns of one conversation (sendKnowledgeChatMessage in              *)
(* server/services/chat-service.ts with conversation-memory-service.ts):   *)
(* several tabs send messages at once; each turn stores the question,      *)
(* perhaps asks a database, retrieves chunks, brings the summary of the    *)
(* conversation up to date, waits for the provider and stores the answer   *)
(* with its citations in one transaction.  Meanwhile sources are indexed   *)
(* again, the user deletes the conversation and retention runs.            *)
(*                                                                         *)
(* Messages are numbered in the order of their createdAt.  What is said is *)
(* abstract: a message confirms an offer to ask the database or is a       *)
(* question.  Evidence and memory are read at once in the code and one     *)
(* after the other here.                                                   *)
(***************************************************************************)
EXTENDS Naturals, Sequences, FiniteSets, SequencesExt

CONSTANTS Turns,          \* messages the user sends
          Chunks,         \* document chunks that retrieval may find
          SummarizeAt,    \* 8: unsummarized messages that ask for a summary
          KeepRecent,     \* 6: newest messages that are never summarized
          MinCandidates   \* 4: fewer are not worth a summary

ASSUME ChatAssumption ==
  /\ IsFiniteSet(Turns)
  /\ {SummarizeAt, KeepRecent, MinCandidates} \subseteq Nat \ {0}

VARIABLES
  conversation,  \* LIVE, DELETED by its user, or GONE: removed by retention
  old,           \* is lastMessageAt older than chatHistoryDays?
  messages,      \* the ChatMessage rows, oldest first
  citations,     \* MessageCitation rows: a message and a chunk
  chunks,        \* the stored DocumentChunk rows
  summaries,     \* the ConversationSummary rows
  turn           \* turn[t]: how far it is and what it has read

chatVars == <<conversation, old, messages, citations, chunks, summaries, turn>>

TurnPhases == {"Idle", "Create", "Confirm", "Database", "Memory", "Summarize", "Generate",
               "Save", "Done"}
MaxMessageCount == 2 + 2 * Cardinality(Turns)
NewTurn == [phase |-> "Idle", confirmed |-> FALSE, offers |-> FALSE, evidence |-> {},
            version |-> 0, ids |-> {}]

ChatTypeOK ==
  /\ conversation \in {"LIVE", "DELETED", "GONE"} /\ old \in BOOLEAN
  /\ messages \in Seq([role: {"USER", "ASSISTANT"}, offers: BOOLEAN])
  /\ Len(messages) <= MaxMessageCount
  /\ citations \subseteq (1..MaxMessageCount) \X Chunks
  /\ chunks \subseteq Chunks
  /\ summaries \subseteq [version: Nat \ {0}, ids: SUBSET (1..MaxMessageCount)]
  /\ \A t \in Turns :
       /\ turn[t].phase \in TurnPhases
       /\ {turn[t].confirmed, turn[t].offers} \subseteq BOOLEAN
       /\ turn[t].evidence \subseteq Chunks
       /\ turn[t].ids \subseteq 1..MaxMessageCount

\* The conversation is new or has one earlier turn.
ChatInit ==
  /\ conversation = "LIVE" /\ old \in BOOLEAN
  /\ \E offers \in BOOLEAN :
       messages \in {<< >>, <<[role |-> "USER", offers |-> FALSE],
                             [role |-> "ASSISTANT", offers |-> offers]>>}
  /\ citations = {} /\ summaries = {}
  /\ chunks = Chunks
  /\ turn = [t \in Turns |-> NewTurn]

-----------------------------------------------------------------------------
Go(t, from, to) == turn[t].phase = from /\ turn' = [turn EXCEPT ![t].phase = to]

findConversation(t) ==
  /\ conversation = "LIVE"
  /\ Go(t, "Idle", "Create")
  /\ UNCHANGED <<conversation, old, messages, citations, chunks, summaries>>

createUserMessage(t) ==
  /\ conversation # "GONE"
  /\ Go(t, "Create", "Confirm")
  /\ messages' = Append(messages, [role |-> "USER", offers |-> FALSE])
  /\ UNCHANGED <<conversation, old, citations, chunks, summaries>>

Answers == {i \in DOMAIN messages : messages[i].role = "ASSISTANT"}
\* Does the newest answer, whoever it was for, offer to ask the database?
Offered == Answers # {} /\ messages[CHOOSE i \in Answers : \A j \in Answers : j <= i].offers

\* A "yes" to an offer stands for the question it was made for; any other message, and a
\* "yes" to nothing, is a question of its own.
readConfirmation(t) ==
  /\ turn[t].phase = "Confirm"
  /\ \E yes \in BOOLEAN :
       turn' = [turn EXCEPT ![t].phase = "Database", ![t].confirmed = yes /\ Offered]
  /\ UNCHANGED <<conversation, old, messages, citations, chunks, summaries>>

\* The database, or a legacy API, answers or fails; or the bot offers to ask the database.
answerByTool(t) ==
  /\ turn[t].phase = "Database"
  /\ \E offer \in BOOLEAN :
       /\ offer => ~turn[t].confirmed
       /\ turn' = [turn EXCEPT ![t].phase = "Memory", ![t].offers = offer]
  /\ UNCHANGED <<conversation, old, messages, citations, chunks, summaries>>

\* Neither does.
retrieve(t) ==
  /\ turn[t].phase = "Database"
  /\ ~turn[t].confirmed
  /\ \E evidence \in SUBSET chunks :
       turn' = [turn EXCEPT ![t].phase = "Memory", ![t].evidence = evidence]
  /\ UNCHANGED <<conversation, old, messages, citations, chunks, summaries>>

-----------------------------------------------------------------------------
(* ensureConversationSummary *)
Newest == IF summaries = {} THEN [version |-> 0, ids |-> {}]
          ELSE CHOOSE s \in summaries : \A other \in summaries : other.version <= s.version
Unsummarized == DOMAIN messages \ Newest.ids
\* Mutant: all but the oldest of them.
CandidatesNewest(ids) == {i \in ids : Cardinality({j \in ids : j < i}) >= KeepRecent}
\* All but the newest of them.
Candidates(ids) == {i \in ids : Cardinality({j \in ids : i < j}) >= KeepRecent}

\* Enough messages, and more characters than the threshold.
readSummary(t) ==
  /\ turn[t].phase = "Memory"
  /\ \/ Go(t, "Memory", "Generate")
     \/ /\ conversation = "LIVE"
        /\ Cardinality(Unsummarized) >= SummarizeAt
        /\ Cardinality(Candidates(Unsummarized)) >= MinCandidates
        /\ turn' = [turn EXCEPT ![t].phase = "Summarize",
                                ![t].version = Newest.version + 1,
                                ![t].ids = Newest.ids \cup Candidates(Unsummarized)]
  /\ UNCHANGED <<conversation, old, messages, citations, chunks, summaries>>

\* @@unique([conversationId, version])
SummaryVersionIsFree(version) == \A s \in summaries : s.version # version

ToGenerate(t) ==
  /\ turn[t].phase = "Summarize"
  /\ turn' = [turn EXCEPT ![t].phase = "Generate", ![t].version = 0, ![t].ids = {}]

\* Another turn has created that version, or the conversation is gone: the exception ends
\* the turn.
createSummary(t) ==
  /\ conversation # "GONE"
  /\ SummaryVersionIsFree(turn[t].version)
  /\ ToGenerate(t)
  /\ summaries' = summaries \cup {[version |-> turn[t].version, ids |-> turn[t].ids]}
  /\ UNCHANGED <<conversation, old, messages, citations, chunks>>

summaryNotGenerated(t) ==
  /\ ToGenerate(t)
  /\ UNCHANGED <<conversation, old, messages, citations, chunks, summaries>>

-----------------------------------------------------------------------------
\* The provider answers, or its error becomes an answer without citations.
generate(t) ==
  /\ turn[t].phase = "Generate"
  /\ \E cited \in {turn[t].evidence, {}} :
       turn' = [turn EXCEPT ![t].phase = "Save", ![t].evidence = cited]
  /\ UNCHANGED <<conversation, old, messages, citations, chunks, summaries>>

\* The foreign key of the citations.
Citable(t) == turn[t].evidence \subseteq chunks

EndTurn(t) == turn' = [turn EXCEPT ![t] = [NewTurn EXCEPT !.phase = "Done"]]

saveAnswer(t) ==
  /\ conversation # "GONE"
  /\ Citable(t)
  /\ turn[t].phase = "Save" /\ EndTurn(t)
  /\ messages' = Append(messages, [role |-> "ASSISTANT", offers |-> turn[t].offers])
  /\ citations' = citations \cup ({Len(messages) + 1} \X turn[t].evidence)
  /\ old' = FALSE
  /\ UNCHANGED <<conversation, chunks, summaries>>

\* An exception, a rate limit or a lost connection ends a turn wherever it is; an answer that
\* was shown already is not stored.
turnFails(t) ==
  /\ turn[t].phase \notin {"Idle", "Done"}
  /\ EndTurn(t)
  /\ UNCHANGED <<conversation, old, messages, citations, chunks, summaries>>

-----------------------------------------------------------------------------
\* Indexing a version again or deleting its source; the citations go with it.
removeChunk(chunk) ==
  /\ chunk \in chunks
  /\ chunks' = chunks \ {chunk}
  /\ citations' = {c \in citations : c[2] # chunk}
  /\ UNCHANGED <<conversation, old, messages, summaries, turn>>

deleteConversation ==
  /\ conversation = "LIVE"
  /\ conversation' = "DELETED"
  /\ UNCHANGED <<old, messages, citations, chunks, summaries, turn>>

\* enforceRetentionPolicies looks at lastMessageAt only.
enforceRetention ==
  /\ old /\ conversation # "GONE"
  /\ conversation' = "GONE"
  /\ messages' = << >> /\ citations' = {} /\ summaries' = {}
  /\ UNCHANGED <<old, chunks, turn>>

ChatNext ==
  \/ \E t \in Turns :
       \/ findConversation(t) \/ createUserMessage(t) \/ readConfirmation(t)
       \/ answerByTool(t) \/ retrieve(t)
       \/ readSummary(t) \/ createSummary(t) \/ summaryNotGenerated(t)
       \/ generate(t) \/ saveAnswer(t) \/ turnFails(t)
  \/ \E chunk \in Chunks : removeChunk(chunk)
  \/ deleteConversation \/ enforceRetention

ChatSpec == ChatInit /\ [][ChatNext]_chatVars

-----------------------------------------------------------------------------
(* Properties. *)

\* docs/phase7-execution.md:8, "Every immutable summary version stores its exact cumulative
\* source message IDs": versions have no gap, each covers more than the one before, none
\* covers a message and leaves out an older one, and the newest messages are left out,
\* although turns that overlap summarize beside each other.
SummariesArePrefixes ==
  \A s \in summaries :
    /\ \E n \in 1..Len(messages) - KeepRecent : s.ids = 1..n
    /\ s.version > 1 => \E before \in summaries : before.version = s.version - 1
    /\ \A other \in summaries \ {s} :
         \/ other.version < s.version /\ other.ids \subseteq s.ids /\ other.ids # s.ids
         \/ s.version < other.version /\ s.ids \subseteq other.ids /\ s.ids # other.ids

\* A citation of an answer shows text that is stored, also when the source was indexed again
\* or deleted while the provider was writing the answer.
CitationsAreStored ==
  \A c \in citations : c[1] \in Answers /\ c[2] \in chunks
=============================================================================
