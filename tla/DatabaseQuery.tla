----------------------------- MODULE DatabaseQuery -----------------------------
(***************************************************************************)
(* One question to a database source                                       *)
(* (server/services/database-intelligence-service.ts): a query is          *)
(* proposed, reviewed, executed and perhaps cancelled, by requests that    *)
(* several server processes handle.  A process knows the connectors of the *)
(* queries that it runs itself (activeDatabaseQueries); the row is shared. *)
(*                                                                         *)
(* Whether metadata, permissions and SQL are in order is a nondeterministic*)
(* verdict; rows, citations and audit entries are left out.                *)
(***************************************************************************)
EXTENDS Naturals, FiniteSets

CONSTANTS QueryRequests,    \* requests to execute or to cancel
          QueryProcesses,   \* server processes
          ProcessOf,        \* ProcessOf[r]: the process that handles request r
          MaxQueryMishaps   \* bound: processes that die, exceptions outside the try block,
                            \* failures that cannot be written

ASSUME QueryAssumption ==
  /\ ProcessOf \in [QueryRequests -> QueryProcesses]
  /\ IsFiniteSet(QueryRequests)
  /\ MaxQueryMishaps \in Nat

VARIABLES
  queryStatus,     \* of the DatabaseQuery row; "NONE" before it is proposed
  execution,       \* execution[r]: how far request r is
  running,         \* requests whose SQL the database executes
  active,          \* active[p]: the requests whose connector process p could break
  confirmed,       \* has a canceller been told that the query is cancelled?
  queryMishaps

queryVars == <<queryStatus, execution, running, active, confirmed, queryMishaps>>

Reviewed == "READY_FOR_REVIEW"
QueryStatuses == {"NONE", "CLARIFICATION_REQUIRED", Reviewed, "EXECUTING", "COMPLETED",
                  "FAILED", "CANCELLED"}
ExecutionPhases == {"Idle", "Validate", "Resolve", "Run", "Succeeded", "Failed", "Close",
                    "Break", "Cancel", "Done"}

QueryTypeOK ==
  /\ queryStatus \in QueryStatuses
  /\ execution \in [QueryRequests -> ExecutionPhases]
  /\ running \subseteq QueryRequests
  /\ active \in [QueryProcesses -> SUBSET QueryRequests]
  /\ confirmed \in BOOLEAN
  /\ queryMishaps \in 0..MaxQueryMishaps

QueryInit ==
  /\ queryStatus = "NONE"
  /\ execution = [r \in QueryRequests |-> "Idle"]
  /\ running = {}
  /\ active = [p \in QueryProcesses |-> {}]
  /\ confirmed = FALSE
  /\ queryMishaps = 0

-----------------------------------------------------------------------------
Phase(r, from, to) == execution[r] = from /\ execution' = [execution EXCEPT ![r] = to]

\* updateMany with the status it expects.
SetIf(expected, status) ==
  queryStatus' = IF queryStatus = expected THEN status ELSE queryStatus
\* Mutant: by id.
SetAnyway(expected, status) == queryStatus' = status
SetWhileExecuting(expected, status) == SetIf(expected, status)

proposeDatabaseQuery ==
  /\ queryStatus = "NONE"
  /\ queryStatus' \in {"CLARIFICATION_REQUIRED", Reviewed, "FAILED"}
  /\ UNCHANGED <<execution, running, active, confirmed, queryMishaps>>

(* executeDatabaseQuery *)
readReviewed(r) ==
  /\ queryStatus = Reviewed
  /\ Phase(r, "Idle", "Validate")
  /\ UNCHANGED <<queryStatus, running, active, confirmed, queryMishaps>>

\* Access, metadata or SQL are no longer in order; the row stays to be reviewed.
refuseExecution(r) ==
  /\ Phase(r, "Validate", "Done")
  /\ UNCHANGED <<queryStatus, running, active, confirmed, queryMishaps>>

\* Mutant: the claim does not look at the status.
ClaimedAnyway == TRUE
Claimed == queryStatus = Reviewed

claim(r) ==
  /\ Phase(r, "Validate", IF Claimed THEN "Resolve" ELSE "Done")
  /\ queryStatus' = IF Claimed THEN "EXECUTING" ELSE queryStatus
  /\ UNCHANGED <<running, active, confirmed, queryMishaps>>

\* No connector: the row is updated by id.
resolveFails(r) ==
  /\ Phase(r, "Resolve", "Done")
  /\ queryStatus' = "FAILED"
  /\ UNCHANGED <<running, active, confirmed, queryMishaps>>

\* An exception before the try block: the credential cannot be decrypted, or FAILED cannot
\* be written.
resolveThrows(r) ==
  /\ Phase(r, "Resolve", "Done")
  /\ queryMishaps < MaxQueryMishaps
  /\ queryMishaps' = queryMishaps + 1
  /\ UNCHANGED <<queryStatus, running, active, confirmed>>

run(r) ==
  /\ Phase(r, "Resolve", "Run")
  /\ active' = [active EXCEPT ![ProcessOf[r]] = @ \cup {r}]
  /\ running' = running \cup {r}
  /\ UNCHANGED <<queryStatus, confirmed, queryMishaps>>

\* The database answers, or refuses, or the connection was broken.
answer(r) ==
  /\ \/ r \in running /\ Phase(r, "Run", "Succeeded")
     \/ Phase(r, "Run", "Failed")
  /\ running' = running \ {r}
  /\ UNCHANGED <<queryStatus, active, confirmed, queryMishaps>>

complete(r) ==
  /\ Phase(r, "Succeeded", "Close")
  /\ SetWhileExecuting("EXECUTING", "COMPLETED")
  /\ UNCHANGED <<running, active, confirmed, queryMishaps>>

\* Mutant: an exception is not caught.
UncaughtFailure(r) == IF execution[r] = "Failed" THEN SetIf("EXECUTING", "FAILED")
                      ELSE UNCHANGED queryStatus
CaughtFailure(r) == SetIf("EXECUTING", "FAILED")

\* The failure of the query, or of masking its rows or storing them.
fail(r) ==
  /\ Phase(r, "Failed", "Close") \/ Phase(r, "Succeeded", "Close")
  /\ CaughtFailure(r)
  /\ UNCHANGED <<running, active, confirmed, queryMishaps>>

\* The database is away: the write of the failure throws too.
failureIsNotWritten(r) ==
  /\ Phase(r, "Failed", "Close") \/ Phase(r, "Succeeded", "Close")
  /\ queryMishaps < MaxQueryMishaps
  /\ queryMishaps' = queryMishaps + 1
  /\ UNCHANGED <<queryStatus, running, active, confirmed>>

Finally(r) == {r}

close(r) ==
  /\ Phase(r, "Close", "Done")
  /\ active' = [active EXCEPT ![ProcessOf[r]] = @ \ Finally(r)]
  /\ UNCHANGED <<queryStatus, running, confirmed, queryMishaps>>

-----------------------------------------------------------------------------
(* cancelDatabaseQuery *)
readExecuting(r) ==
  /\ queryStatus = "EXECUTING"
  /\ Phase(r, "Idle", "Break")
  /\ UNCHANGED <<queryStatus, running, active, confirmed, queryMishaps>>

\* The connector of the query, if this process runs it.
cancelActiveQuery(r) ==
  /\ Phase(r, "Break", "Cancel")
  /\ running' = running \ active[ProcessOf[r]]
  /\ UNCHANGED <<queryStatus, active, confirmed, queryMishaps>>

cancel(r) ==
  /\ Phase(r, "Cancel", "Done")
  /\ SetIf("EXECUTING", "CANCELLED")
  /\ confirmed' = (confirmed \/ queryStatus = "EXECUTING")
  /\ UNCHANGED <<running, active, queryMishaps>>

-----------------------------------------------------------------------------
\* Its requests end and its map is gone; a database may go on with what it was running.
processDies(p) ==
  /\ queryMishaps < MaxQueryMishaps
  /\ queryMishaps' = queryMishaps + 1
  /\ execution' = [r \in QueryRequests |->
       IF ProcessOf[r] = p /\ execution[r] # "Idle" THEN "Done" ELSE execution[r]]
  /\ running' \in {running, {r \in running : ProcessOf[r] # p}}
  /\ active' = [active EXCEPT ![p] = {}]
  /\ UNCHANGED <<queryStatus, confirmed>>

QueryNext ==
  \/ proposeDatabaseQuery
  \/ \E r \in QueryRequests :
       \/ readReviewed(r) \/ refuseExecution(r) \/ claim(r) \/ resolveFails(r) \/ resolveThrows(r)
       \/ run(r) \/ answer(r) \/ complete(r) \/ fail(r) \/ failureIsNotWritten(r) \/ close(r)
       \/ readExecuting(r) \/ cancelActiveQuery(r) \/ cancel(r)
  \/ \E p \in QueryProcesses : processDies(p)

QuerySpec == QueryInit /\ [][QueryNext]_queryVars

-----------------------------------------------------------------------------
(* Properties. *)

\* docs/phase5-execution.md:24, "atomic execution claim": the reviewed SQL is sent to the
\* database by one request only, and when the row says how it ended nothing runs any more;
\* only a cancelled query may run on, in a process the canceller could not reach.
RunsOnce ==
  /\ Cardinality({r \in QueryRequests : execution[r] \in {"Resolve", "Run", "Succeeded",
                                                          "Failed", "Close"}}) <= 1
  /\ queryStatus \in {"COMPLETED", "FAILED"} => running = {}

\* Who was told that the query is cancelled is never shown a result of it, although it may
\* run on and answer later.
CancelledShowsNoResult == confirmed => queryStatus \in {"CANCELLED", "FAILED"}

\* A connector of a query can be broken exactly as long as its request is at work, so a
\* later cancellation never breaks what it does not mean.
ActiveAreAtWork ==
  \A p \in QueryProcesses :
    active[p] = {r \in QueryRequests :
                   /\ ProcessOf[r] = p
                   /\ execution[r] \in {"Run", "Succeeded", "Failed", "Close"}}

\* Nothing recovers an EXECUTING query: the row has left EXECUTING when no request is at work
\* on it, unless a process died, there was an exception before the try block
\* (database-intelligence-service.ts:495), or a failure could not be written.
NoQueryIsForgotten ==
  /\ queryStatus = "EXECUTING"
  /\ \A r \in QueryRequests : execution[r] \in {"Idle", "Done", "Break", "Cancel"}
  => queryMishaps > 0
=============================================================================
