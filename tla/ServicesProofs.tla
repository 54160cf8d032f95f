---------------------------- MODULE ServicesProofs ----------------------------
(***************************************************************************)
(* What holds of the services that share no state, for every value of      *)
(* their constants: the circuit breaker, queries to database sources, the  *)
(* versions of a workbook, business insights, registered API tools, the    *)
(* metadata of database sources and the crawl of a website; and, with what *)
(* ConversationProofs shows of the others, of all the services together.   *)
(***************************************************************************)
EXTENDS ServicePromises, ConversationProofs, FiniteSetTheorems, SequenceTheorems, WellFoundedInduction, TLAPS

-----------------------------------------------------------------------------
(* CircuitBreaker.  Failures are counted while calls wait for the primary; *)
(* once the circuit is open no call starts to wait, so what is counted and *)
(* what still waits are at most FailureThreshold - 1 and all callers.      *)

Waiting == {c \in Callers : AtPrimary(c)}

\* What canRequest reads and what recordFailure counts fit together.
BreakerInv ==
  /\ failures \in Nat
  /\ cooling \in 0..Cooldown \cup {NotOpen}
  /\ call \in [Callers -> [phase: CallPhases, health: BOOLEAN]]
  /\ failing \in 0..FailureThreshold
  /\ halfOpen \in BOOLEAN
  /\ OpensOnlyOnFailures
  /\ cooling = NotOpen => failures <= failing
  /\ cooling # NotOpen =>
       failures + Cardinality(Waiting) <= FailureThreshold + Cardinality(Callers) - 1

LEMMA WaitingIsFinite ==
  /\ IsFiniteSet(Waiting) /\ Cardinality(Waiting) \in Nat
  /\ Cardinality(Callers) \in Nat /\ Cardinality(Waiting) <= Cardinality(Callers)
<1>1. Waiting \in SUBSET Callers
  BY DEF Waiting
<1> QED BY <1>1, BreakerAssumption, FS_Subset, FS_CardinalityType

\* Who stops waiting is one less.
LEMMA OneWaitsLess ==
  ASSUME NEW c \in Callers, AtPrimary(c), BreakerInv,
         NEW s \in [phase: CallPhases, health: BOOLEAN], s.phase \in {"Idle", "Fallback"},
         call' = [call EXCEPT ![c] = s]
  PROVE  Cardinality(Waiting)' = Cardinality(Waiting) - 1
<1>1. Waiting' = Waiting \ {c} /\ c \in Waiting
  BY DEF Waiting, AtPrimary, BreakerInv
<1> QED BY <1>1, WaitingIsFinite, FS_RemoveElement

LEMMA BreakerStep == BreakerInv /\ [BreakerNext]_breakerVars => BreakerInv'
<1> SUFFICES ASSUME BreakerInv, [BreakerNext]_breakerVars PROVE BreakerInv'
  OBVIOUS
<1> USE BreakerAssumption
<1>1. \A c \in Callers : call[c] \in [phase: CallPhases, health: BOOLEAN]
  BY DEF BreakerInv
<1>2. NextAfterFailure \in {"Idle", "Fallback"}
  BY DEF NextAfterFailure
<1>3. /\ IsFiniteSet(Waiting) /\ Cardinality(Waiting) \in Nat
      /\ Cardinality(Callers) \in Nat /\ Cardinality(Waiting) <= Cardinality(Callers)
  BY WaitingIsFinite
<1>4. ASSUME NEW c \in Callers, NEW health \in BOOLEAN, request(c, health)
      PROVE  BreakerInv'
  <2>1. call' \in [Callers -> [phase: CallPhases, health: BOOLEAN]]
    BY <1>1, <1>4 DEF request, CallPhases, BreakerInv
  <2> QED BY <1>4, <2>1 DEF request, BreakerInv, OpensOnlyOnFailures, OpenIffThreshold
<1>5. ASSUME NEW c \in Callers, NEW health \in BOOLEAN, requestProbe(c, health)
      PROVE  BreakerInv'
  <2>1. call' \in [Callers -> [phase: CallPhases, health: BOOLEAN]]
    BY <1>1, <1>5 DEF requestProbe, CallPhases, BreakerInv
  <2>2. failing' = FailureThreshold /\ failures' = FailureThreshold - 1
    BY <1>5 DEF requestProbe, failuresAfterCooldown, BreakerInv, OpensOnlyOnFailures
  <2> QED BY <1>5, <2>1, <2>2 DEF requestProbe, BreakerInv, OpensOnlyOnFailures, OpenIffThreshold
<1>6. ASSUME NEW c \in Callers, NEW health \in BOOLEAN, requestRefused(c, health)
      PROVE  BreakerInv'
  <2>1. call' \in [Callers -> [phase: CallPhases, health: BOOLEAN]]
    BY <1>1, <1>2, <1>6 DEF requestRefused, CallPhases, BreakerInv
  <2>2. Waiting' = Waiting
    BY <1>2, <1>6, <2>1 DEF requestRefused, Waiting, AtPrimary, BreakerInv
  <2> QED BY <1>6, <2>1, <2>2 DEF requestRefused, BreakerInv, OpensOnlyOnFailures, OpenIffThreshold
<1>7. ASSUME NEW c \in Callers, recordSuccess(c) PROVE BreakerInv'
  <2>1. call' \in [Callers -> [phase: CallPhases, health: BOOLEAN]]
    BY <1>1, <1>7 DEF recordSuccess, CallPhases, IdleCall, BreakerInv
  <2>2. /\ failures' = 0 /\ cooling' = NotOpen /\ failing' = 0 /\ halfOpen' = FALSE
        /\ 0 \in Nat /\ 0 \in 0..FailureThreshold /\ ~(0 >= FailureThreshold) /\ 0 <= 0
    BY <1>7 DEF recordSuccess, failuresAfterSuccess
  <2>3. OpensOnlyOnFailures'
    BY <2>2 DEF OpensOnlyOnFailures, OpenIffThreshold
  <2> QED BY <2>1, <2>2, <2>3 DEF BreakerInv
<1>8. ASSUME NEW c \in Callers, recordFailure(c) PROVE BreakerInv'
  <2>1. call' = [call EXCEPT ![c] = [call[c] EXCEPT !.phase = NextAfterFailure]]
        /\ [call[c] EXCEPT !.phase = NextAfterFailure] \in [phase: CallPhases, health: BOOLEAN]
    BY <1>1, <1>2, <1>8 DEF recordFailure, CallPhases, BreakerInv
  <2>2. call' \in [Callers -> [phase: CallPhases, health: BOOLEAN]]
    BY <2>1 DEF BreakerInv
  <2>3. [call[c] EXCEPT !.phase = NextAfterFailure].phase \in {"Idle", "Fallback"}
    BY <1>1, <1>2
  <2>4. Cardinality(Waiting)' = Cardinality(Waiting) - 1
    BY <1>8, <2>1, <2>3, OneWaitsLess DEF recordFailure
  <2>5. /\ failures' = failures + 1 /\ failures \in Nat
        /\ failing \in 0..FailureThreshold
        /\ cooling' = IF failures + 1 >= FailureThreshold THEN Cooldown ELSE cooling
        /\ failing' = IF failing < FailureThreshold THEN failing + 1 ELSE failing
        /\ halfOpen' = FALSE
    BY <1>8 DEF recordFailure, Trips, BreakerInv
  <2>6. CASE cooling = NotOpen
    <3>1. failures < FailureThreshold /\ failures <= failing
      BY <2>6 DEF BreakerInv, OpensOnlyOnFailures, OpenIffThreshold
    <3>2. /\ failures' \in Nat /\ failing' \in 0..FailureThreshold /\ failures' <= failing'
          /\ failures' >= FailureThreshold => /\ failing' = FailureThreshold
                                             /\ failures' = FailureThreshold
      BY <2>5, <3>1
    <3>3. /\ cooling' = IF failures' >= FailureThreshold THEN Cooldown ELSE NotOpen
          /\ Cooldown \in 0..Cooldown /\ Cooldown # NotOpen
      BY <2>5, <2>6
    <3>4. OpensOnlyOnFailures'
      BY <2>5, <3>2, <3>3 DEF OpensOnlyOnFailures, OpenIffThreshold
    <3>5. failures' >= FailureThreshold =>
            failures' + Cardinality(Waiting)' <= FailureThreshold + Cardinality(Callers) - 1
      BY <1>3, <2>4, <3>2
    <3> QED BY <2>2, <2>5, <3>2, <3>3, <3>4, <3>5 DEF BreakerInv
  <2>7. CASE cooling # NotOpen
    <3>1. /\ failures >= FailureThreshold /\ failing = FailureThreshold
          /\ failures + Cardinality(Waiting) <= FailureThreshold + Cardinality(Callers) - 1
      BY <2>7 DEF BreakerInv, OpensOnlyOnFailures, OpenIffThreshold
    <3>2. /\ failures' \in Nat /\ failing' = FailureThreshold
          /\ failing' \in 0..FailureThreshold /\ failures' >= FailureThreshold
          /\ cooling' = Cooldown /\ Cooldown \in 0..Cooldown /\ Cooldown # NotOpen
      BY <2>5, <3>1
    <3>3. OpensOnlyOnFailures'
      BY <3>2 DEF OpensOnlyOnFailures, OpenIffThreshold
    <3>4. failures' + Cardinality(Waiting)' <= FailureThreshold + Cardinality(Callers) - 1
      BY <1>3, <2>4, <2>5, <3>1
    <3> QED BY <2>2, <2>5, <3>2, <3>3, <3>4 DEF BreakerInv
  <2> QED BY <2>6, <2>7
<1>9. ASSUME NEW c \in Callers, failUnrecorded(c) PROVE BreakerInv'
  <2>1. call' \in [Callers -> [phase: CallPhases, health: BOOLEAN]]
        /\ IdleCall \in [phase: CallPhases, health: BOOLEAN] /\ IdleCall.phase = "Idle"
    BY <1>9 DEF failUnrecorded, IdleCall, CallPhases, BreakerInv
  <2>2. Cardinality(Waiting)' = Cardinality(Waiting) - 1
    BY <1>9, <2>1, OneWaitsLess DEF failUnrecorded
  <2> QED BY <1>3, <1>9, <2>1, <2>2
             DEF failUnrecorded, BreakerInv, OpensOnlyOnFailures, OpenIffThreshold
<1>10. ASSUME NEW c \in Callers, fallbackAnswers(c) PROVE BreakerInv'
  <2>1. call' \in [Callers -> [phase: CallPhases, health: BOOLEAN]]
    BY <1>10 DEF fallbackAnswers, IdleCall, CallPhases, BreakerInv
  <2>2. Waiting' = Waiting
    BY <1>10, <2>1 DEF fallbackAnswers, IdleCall, Waiting, AtPrimary, BreakerInv
  <2> QED BY <1>10, <2>1, <2>2
             DEF fallbackAnswers, BreakerInv, OpensOnlyOnFailures, OpenIffThreshold
<1>11. CASE timePasses
  <2>1. Waiting' = Waiting
    BY <1>11 DEF timePasses, Waiting, AtPrimary
  <2>2. cooling' \in 0..Cooldown /\ cooling' # NotOpen
    BY <1>11 DEF timePasses, BreakerInv
  <2> QED BY <1>11, <2>1, <2>2 DEF timePasses, BreakerInv, OpensOnlyOnFailures, OpenIffThreshold
<1>12. CASE UNCHANGED breakerVars
  <2>1. Waiting' = Waiting
    BY <1>12 DEF breakerVars, Waiting, AtPrimary
  <2> QED BY <1>12, <2>1 DEF breakerVars, BreakerInv, OpensOnlyOnFailures, OpenIffThreshold
<1> QED
  BY <1>4, <1>5, <1>6, <1>7, <1>8, <1>9, <1>10, <1>11, <1>12 DEF BreakerNext

LEMMA BreakerInvariant == BreakerSpec => []BreakerInv
<1>1. BreakerInit => BreakerInv
  <2> SUFFICES ASSUME BreakerInit PROVE BreakerInv
    OBVIOUS
  <2>1. 0 \in Nat /\ 0 \in 0..FailureThreshold /\ ~(0 >= FailureThreshold) /\ 0 <= 0
    BY BreakerAssumption
  <2>2. call \in [Callers -> [phase: CallPhases, health: BOOLEAN]]
    BY DEF BreakerInit, IdleCall, CallPhases
  <2> QED BY <2>1, <2>2 DEF BreakerInit, BreakerInv, OpensOnlyOnFailures, OpenIffThreshold
<1> QED BY <1>1, BreakerStep, PTL DEF BreakerSpec

\* The count never exceeds the threshold by more than the calls that were waiting when the
\* circuit opened.
THEOREM BreakerTypeCorrect == BreakerSpec => []BreakerTypeOK
<1>1. BreakerInv => BreakerTypeOK
  BY BreakerAssumption, WaitingIsFinite
     DEF BreakerInv, BreakerTypeOK, OpensOnlyOnFailures, OpenIffThreshold
<1> QED BY <1>1, BreakerInvariant, PTL

\* However late the answers of earlier calls arrive, the circuit is open exactly while the
\* count has reached the threshold, and it opens only on failures that happened.
THEOREM BreakerOpensOnFailures == BreakerSpec => []OpensOnlyOnFailures
<1>1. BreakerInv => OpensOnlyOnFailures
  BY DEF BreakerInv
<1> QED BY <1>1, BreakerInvariant, PTL

-----------------------------------------------------------------------------
(* DatabaseQuery.  The claim moves the row out of READY_FOR_REVIEW, no     *)
(* status goes back to it, and so one request executes the query.          *)

Executes(r) == execution[r] \in {"Resolve", "Run", "Succeeded", "Failed", "Close"}
NotClaimedYet == {"NONE", "CLARIFICATION_REQUIRED", Reviewed}

OneExecutes ==
  /\ \A r, q \in QueryRequests : Executes(r) /\ Executes(q) => r = q
  /\ queryStatus \in NotClaimedYet => \A r \in QueryRequests : ~Executes(r)

\* The row says how the query ended only when the one request at work has its answer.
RunningIsClaimed ==
  /\ queryStatus \in NotClaimedYet \cup {"COMPLETED", "FAILED"} => running = {}
  /\ \A r \in QueryRequests :
       /\ Executes(r) => running \subseteq (IF execution[r] = "Run" THEN {r} ELSE {})
       /\ Executes(r) /\ execution[r] # "Close" => queryStatus \in {"EXECUTING", "CANCELLED"}

ExecutingIsAtWork ==
  queryStatus = "EXECUTING" /\ queryMishaps = 0 =>
    \E r \in QueryRequests : Executes(r) /\ execution[r] # "Close"

QueryInv ==
  /\ QueryTypeOK
  /\ OneExecutes /\ RunningIsClaimed /\ CancelledShowsNoResult
  /\ ActiveAreAtWork
  /\ ExecutingIsAtWork

LEMMA QueryTypeStep == QueryTypeOK /\ [QueryNext]_queryVars => QueryTypeOK'
<1> SUFFICES ASSUME QueryTypeOK, [QueryNext]_queryVars PROVE QueryTypeOK'
  OBVIOUS
<1> USE QueryAssumption
        DEF QueryTypeOK, QueryStatuses, Reviewed, ExecutionPhases, Phase, SetWhileExecuting, SetIf
<1>1. CASE proposeDatabaseQuery
  BY <1>1 DEF proposeDatabaseQuery
<1>2. ASSUME NEW r \in QueryRequests,
             \/ readReviewed(r) \/ refuseExecution(r) \/ claim(r) \/ resolveFails(r)
             \/ resolveThrows(r) \/ readExecuting(r) \/ cancelActiveQuery(r) \/ cancel(r)
      PROVE  QueryTypeOK'
  <2>1. CASE readReviewed(r) \/ refuseExecution(r) \/ readExecuting(r) \/ resolveFails(r)
    BY <2>1 DEF readReviewed, refuseExecution, readExecuting, resolveFails
  <2>2. CASE claim(r)
    BY <2>2 DEF claim
  <2>3. CASE resolveThrows(r)
    BY <2>3 DEF resolveThrows
  <2>4. CASE cancelActiveQuery(r)
    BY <2>4 DEF cancelActiveQuery
  <2>5. CASE cancel(r)
    <3>1. confirmed' \in BOOLEAN
      BY <2>5 DEF cancel
    <3> QED BY <2>5, <3>1 DEF cancel
  <2> QED BY <1>2, <2>1, <2>2, <2>3, <2>4, <2>5
<1>3. ASSUME NEW r \in QueryRequests,
             \/ run(r) \/ answer(r) \/ complete(r) \/ fail(r) \/ failureIsNotWritten(r) \/ close(r)
      PROVE  QueryTypeOK'
  BY <1>3 DEF run, answer, complete, fail, CaughtFailure, failureIsNotWritten, close
<1>4. ASSUME NEW p \in QueryProcesses, processDies(p) PROVE QueryTypeOK'
  BY <1>4 DEF processDies
<1>5. CASE UNCHANGED queryVars
  BY <1>5 DEF queryVars
<1> QED BY <1>1, <1>2, <1>3, <1>4, <1>5 DEF QueryNext

\* The requests that have not claimed the query, or are done with it.
LEMMA QueryIdleSteps ==
  ASSUME QueryInv, QueryTypeOK', NEW r \in QueryRequests,
         \/ readReviewed(r) \/ refuseExecution(r) \/ readExecuting(r) \/ cancelActiveQuery(r)
         \/ cancel(r)
  PROVE  QueryInv'
<1>1. execution[r] \in {"Idle", "Validate", "Break", "Cancel"}
      /\ execution'[r] \in {"Validate", "Done", "Break", "Cancel"}
      /\ \A q \in QueryRequests : q # r => execution'[q] = execution[q]
  BY DEF QueryInv, QueryTypeOK, Phase, readReviewed, refuseExecution, readExecuting,
         cancelActiveQuery, cancel
<1>2. \A q \in QueryRequests :
        /\ Executes(q)' <=> Executes(q)
        /\ Executes(q) => execution'[q] = execution[q]
        /\ \A s \in {"Run", "Succeeded", "Failed", "Close"} : execution'[q] = s <=> execution[q] = s
  BY <1>1 DEF Executes
<1>3. /\ running' \subseteq running /\ active' = active /\ queryMishaps' = queryMishaps
      /\ \/ queryStatus' = queryStatus /\ confirmed' = confirmed
         \/ queryStatus = "EXECUTING" /\ queryStatus' = "CANCELLED"
  BY DEF QueryInv, QueryTypeOK, readReviewed, refuseExecution, readExecuting, cancelActiveQuery,
         cancel, SetIf
<1>4. OneExecutes'
  BY <1>2, <1>3 DEF QueryInv, OneExecutes, NotClaimedYet, Reviewed
<1>5. RunningIsClaimed'
  BY <1>2, <1>3 DEF QueryInv, RunningIsClaimed, NotClaimedYet, Reviewed
<1>6. CancelledShowsNoResult'
  BY <1>3 DEF QueryInv, CancelledShowsNoResult
<1>7. ActiveAreAtWork'
  BY <1>2, <1>3 DEF QueryInv, ActiveAreAtWork
<1>8. ExecutingIsAtWork'
  BY <1>2, <1>3 DEF QueryInv, ExecutingIsAtWork
<1> QED BY <1>4, <1>5, <1>6, <1>7, <1>8 DEF QueryInv

\* The claim.
LEMMA QueryClaimStep ==
  ASSUME QueryInv, QueryTypeOK', NEW r \in QueryRequests, claim(r)
  PROVE  QueryInv'
<1>1. /\ execution[r] = "Validate"
      /\ \A q \in QueryRequests : q # r => execution'[q] = execution[q]
      /\ running' = running /\ active' = active /\ queryMishaps' = queryMishaps
      /\ confirmed' = confirmed
  BY DEF claim, Phase, QueryInv, QueryTypeOK
<1>2. /\ execution'[r] = IF queryStatus = Reviewed THEN "Resolve" ELSE "Done"
      /\ queryStatus' = IF queryStatus = Reviewed THEN "EXECUTING" ELSE queryStatus
  BY DEF claim, Phase, Claimed, QueryInv, QueryTypeOK
<1>3. ActiveAreAtWork'
  <2>1. \A q \in QueryRequests : execution'[q] \in {"Run", "Succeeded", "Failed", "Close"}
                                   <=> execution[q] \in {"Run", "Succeeded", "Failed", "Close"}
    BY <1>1, <1>2
  <2>2. active' = active
    BY <1>1
  <2> QED BY <2>1, <2>2 DEF QueryInv, ActiveAreAtWork
<1>4. CASE queryStatus = Reviewed
  <2>1. execution'[r] = "Resolve" /\ queryStatus' = "EXECUTING" /\ running' = {}
    BY <1>1, <1>2, <1>4 DEF QueryInv, RunningIsClaimed, NotClaimedYet
  <2>3. ~confirmed
    BY <1>4 DEF QueryInv, CancelledShowsNoResult, Reviewed
  <2>4. CancelledShowsNoResult'
    BY <1>1, <2>3 DEF CancelledShowsNoResult
  <2>2. \A q \in QueryRequests : ~Executes(q) /\ (q # r => ~Executes(q)')
    BY <1>1, <1>4 DEF QueryInv, OneExecutes, NotClaimedYet, Executes
  <2>5. OneExecutes' /\ RunningIsClaimed' /\ ExecutingIsAtWork'
    BY <2>1, <2>2 DEF OneExecutes, RunningIsClaimed, ExecutingIsAtWork, NotClaimedYet, Executes,
                      Reviewed
  <2> QED BY <1>3, <2>4, <2>5 DEF QueryInv
<1>5. CASE queryStatus # Reviewed
  <2>1. execution'[r] = "Done" /\ queryStatus' = queryStatus
    BY <1>2, <1>5
  <2>2. \A q \in QueryRequests : /\ Executes(q)' <=> Executes(q)
                                 /\ Executes(q) => execution'[q] = execution[q]
    BY <1>1, <2>1 DEF Executes
  <2>3. OneExecutes' /\ RunningIsClaimed' /\ ExecutingIsAtWork'
    BY <1>1, <2>1, <2>2 DEF QueryInv, OneExecutes, RunningIsClaimed, ExecutingIsAtWork
  <2>4. CancelledShowsNoResult'
    BY <1>1, <2>1 DEF QueryInv, CancelledShowsNoResult
  <2> QED BY <1>3, <2>3, <2>4 DEF QueryInv
<1> QED BY <1>4, <1>5

\* The request that has claimed the query: nobody else executes it.
LEMMA QueryWorkSteps ==
  ASSUME QueryInv, QueryTypeOK', NEW r \in QueryRequests,
         \/ resolveFails(r) \/ resolveThrows(r) \/ run(r) \/ answer(r)
         \/ complete(r) \/ fail(r) \/ failureIsNotWritten(r) \/ close(r)
  PROVE  QueryInv'
<1>1. /\ Executes(r)
      /\ \A q \in QueryRequests : q # r => ~Executes(q) /\ execution'[q] = execution[q]
      /\ confirmed' = confirmed
  <2>1. Executes(r)
    BY DEF resolveFails, resolveThrows, run, answer, complete, fail, failureIsNotWritten,
           close, Phase, Executes
  <2>2. \A q \in QueryRequests : q # r => execution'[q] = execution[q]
    BY DEF resolveFails, resolveThrows, run, answer, complete, fail, failureIsNotWritten,
           close, Phase, QueryInv,
           QueryTypeOK
  <2> QED BY <2>1, <2>2 DEF QueryInv, OneExecutes, resolveFails, resolveThrows, run, answer,
                            complete, fail, failureIsNotWritten, close
<1>2. queryStatus \notin NotClaimedYet
      /\ queryStatus' \in {queryStatus, "FAILED"} \cup
                          (IF queryStatus = "EXECUTING" THEN {"COMPLETED"} ELSE {})
  BY <1>1 DEF QueryInv, OneExecutes, resolveFails, resolveThrows, run, answer, complete, fail,
              failureIsNotWritten, close, SetWhileExecuting, SetIf, CaughtFailure
<1>3. OneExecutes'
  BY <1>1, <1>2 DEF OneExecutes, NotClaimedYet, Executes, Reviewed
<1>4. CancelledShowsNoResult'
  BY <1>1, <1>2 DEF QueryInv, CancelledShowsNoResult
<1>5. RunningIsClaimed' /\ ExecutingIsAtWork'
  <2> USE DEF QueryInv, QueryTypeOK, RunningIsClaimed, ExecutingIsAtWork, NotClaimedYet, Executes,
              Reviewed, Phase
  <2>1. CASE resolveFails(r)
    BY <1>1, <2>1 DEF resolveFails
  <2>2. CASE resolveThrows(r)
    <3>1. queryMishaps' # 0
      BY <2>2, QueryAssumption DEF resolveThrows
    <3> QED BY <1>1, <2>2, <3>1 DEF resolveThrows
  <2>3. CASE run(r)
    BY <1>1, <2>3 DEF run
  <2>4. CASE answer(r)
    BY <1>1, <2>4 DEF answer
  <2>5. CASE complete(r)
    BY <1>1, <2>5 DEF complete, SetWhileExecuting, SetIf
  <2>6. CASE fail(r)
    BY <1>1, <2>6 DEF fail, CaughtFailure, SetIf
  <2>7. CASE close(r)
    BY <1>1, <2>7 DEF close
  <2>8. CASE failureIsNotWritten(r)
    <3>1. queryMishaps' # 0
      BY <2>8, QueryAssumption DEF failureIsNotWritten
    <3> QED BY <1>1, <2>8, <3>1 DEF failureIsNotWritten
  <2> QED BY <2>1, <2>2, <2>3, <2>4, <2>5, <2>6, <2>7, <2>8
<1>6. ActiveAreAtWork'
  <2> USE QueryAssumption DEF QueryInv, QueryTypeOK, ActiveAreAtWork, Phase
  <2>1. CASE run(r)
    BY <1>1, <2>1 DEF run
  <2>2. CASE close(r)
    BY <1>1, <2>2 DEF close, Finally
  <2>3. CASE \/ resolveFails(r) \/ resolveThrows(r) \/ answer(r) \/ complete(r) \/ fail(r)
             \/ failureIsNotWritten(r)
    BY <1>1, <2>3 DEF resolveFails, resolveThrows, answer, complete, fail, failureIsNotWritten
  <2> QED BY <2>1, <2>2, <2>3
<1> QED BY <1>3, <1>4, <1>5, <1>6 DEF QueryInv

LEMMA QueryStep == QueryInv /\ [QueryNext]_queryVars => QueryInv'
<1> SUFFICES ASSUME QueryInv, [QueryNext]_queryVars PROVE QueryInv'
  OBVIOUS
<1>1. QueryTypeOK'
  BY QueryTypeStep DEF QueryInv
<1>2. CASE proposeDatabaseQuery
  <2>1. /\ execution' = execution /\ running' = running /\ active' = active
        /\ confirmed' = confirmed /\ queryMishaps' = queryMishaps
        /\ queryStatus = "NONE" /\ queryStatus' \in {"CLARIFICATION_REQUIRED", Reviewed, "FAILED"}
    BY <1>2 DEF proposeDatabaseQuery
  <2> QED BY <1>1, <2>1
             DEF QueryInv, OneExecutes, RunningIsClaimed, CancelledShowsNoResult, ActiveAreAtWork,
                 ExecutingIsAtWork, Executes, NotClaimedYet, Reviewed
<1>3. ASSUME NEW p \in QueryProcesses, processDies(p) PROVE QueryInv'
  <2>1. /\ \A r \in QueryRequests : execution'[r] \in {execution[r], "Done"}
        /\ \A r \in QueryRequests : ProcessOf[r] # p => execution'[r] = execution[r]
        /\ \A r \in QueryRequests : ProcessOf[r] = p => execution'[r] \in {"Idle", "Done"}
        /\ running' \subseteq running
        /\ queryStatus' = queryStatus /\ confirmed' = confirmed
        /\ queryMishaps' # 0
    BY <1>3, QueryAssumption DEF processDies, QueryInv, QueryTypeOK
  <2>2. \A r \in QueryRequests : Executes(r)' => Executes(r) /\ execution'[r] = execution[r]
    BY <2>1 DEF Executes
  <2>3. OneExecutes' /\ RunningIsClaimed' /\ CancelledShowsNoResult' /\ ExecutingIsAtWork'
    BY <2>1, <2>2 DEF QueryInv, OneExecutes, RunningIsClaimed, CancelledShowsNoResult,
                      ExecutingIsAtWork
  <2>4. ActiveAreAtWork'
    BY <1>3, <2>1, QueryAssumption DEF processDies, QueryInv, QueryTypeOK, ActiveAreAtWork
  <2> QED BY <1>1, <2>3, <2>4 DEF QueryInv
<1>4. CASE UNCHANGED queryVars
  BY <1>1, <1>4 DEF queryVars, QueryInv, OneExecutes, RunningIsClaimed, CancelledShowsNoResult,
                    ActiveAreAtWork, ExecutingIsAtWork, Executes
<1> QED BY <1>1, <1>2, <1>3, <1>4, QueryIdleSteps, QueryClaimStep, QueryWorkSteps DEF QueryNext

LEMMA QueryInvariant == QuerySpec => []QueryInv
<1>1. QueryInit => QueryInv
  <2> SUFFICES ASSUME QueryInit PROVE QueryInv
    OBVIOUS
  <2>1. QueryTypeOK
    <3>1. confirmed \in BOOLEAN
      BY DEF QueryInit
    <3>2. queryMishaps \in 0..MaxQueryMishaps
      BY QueryAssumption DEF QueryInit
    <3> QED BY <3>1, <3>2 DEF QueryInit, QueryTypeOK, QueryStatuses, ExecutionPhases
  <2>2. \A r \in QueryRequests : execution[r] = "Idle"
    BY DEF QueryInit
  <2>3. OneExecutes /\ RunningIsClaimed /\ CancelledShowsNoResult /\ ExecutingIsAtWork
    BY <2>2 DEF QueryInit, OneExecutes, RunningIsClaimed, CancelledShowsNoResult,
                ExecutingIsAtWork, Executes
  <2>4. ActiveAreAtWork
    BY <2>2 DEF QueryInit, ActiveAreAtWork
  <2> QED BY <2>1, <2>3, <2>4 DEF QueryInv
<1> QED BY <1>1, QueryStep, PTL DEF QuerySpec

\* However many processes execute, cancel and die, the reviewed SQL is sent to the database
\* by one request only, and nothing runs when the row says how it ended.
THEOREM QueryRunsOnce == QuerySpec => []RunsOnce
<1>1. QueryInv => RunsOnce
  <2> SUFFICES ASSUME QueryInv PROVE RunsOnce
    OBVIOUS
  <2> DEFINE atWork == {r \in QueryRequests : Executes(r)}
  <2>1. atWork = {} => Cardinality(atWork) = 0
    BY FS_EmptySet
  <2>2. ASSUME NEW r \in atWork PROVE Cardinality(atWork) = 1
    <3>1. atWork = {r}
      BY <2>2 DEF QueryInv, OneExecutes
    <3> QED BY <3>1, FS_Singleton
  <2>3. Cardinality(atWork) <= 1
    <3>1. Cardinality(atWork) \in {0, 1}
      BY <2>1, <2>2
    <3> QED BY <3>1
  <2>4. queryStatus \in {"COMPLETED", "FAILED"} => running = {}
    BY DEF QueryInv, RunningIsClaimed
  <2> QED BY <2>3, <2>4 DEF RunsOnce, Executes
<1> QED BY <1>1, QueryInvariant, PTL

\* Whoever was told that the query is cancelled never finds it completed, although it may
\* run on and answer later.
THEOREM CancelledQueriesShowNoResult == QuerySpec => []CancelledShowsNoResult
<1>1. QueryInv => CancelledShowsNoResult
  BY DEF QueryInv
<1> QED BY <1>1, QueryInvariant, PTL

\* An EXECUTING row has a request that will write how it ends, unless a process died, there was
\* an exception before the try block, or a failure could not be written.
THEOREM QueriesAreNotForgotten == QuerySpec => []NoQueryIsForgotten
<1>1. QueryInv => NoQueryIsForgotten
  BY DEF QueryInv, QueryTypeOK, ExecutingIsAtWork, Executes, NoQueryIsForgotten
<1> QED BY <1>1, QueryInvariant, PTL

-----------------------------------------------------------------------------
(* ExcelVersions.  The version that a commit makes the data source's own   *)
(* it marks current itself; and as long as no dashboard is marked for      *)
(* review all workbooks had one schema.                                    *)

VersionRows == [schema: Schemas, isCurrent: BOOLEAN]
EditRecords == [phase: EditPhases, rollback: BOOLEAN, target: 0..MaxVersions,
                schema: Schemas \cup {NoVersion}, schemaChanged: BOOLEAN,
                rows: SUBSET VersionNumbers]

ExcelTypes ==
  /\ version \in [VersionNumbers -> VersionRows \cup {NoVersion}]
  /\ fileVersion \in VersionNumbers
  /\ hasSchemaWarning \in BOOLEAN
  /\ edit \in [Editors -> EditRecords]

\* What an edit has read is there: no version is ever deleted.
EditsAreOfVersions ==
  \A e \in Editors :
    /\ edit[e].rows \subseteq Uploaded
    /\ edit[e].phase # "Idle" =>
         /\ edit[e].target \in VersionNumbers /\ edit[e].schema \in Schemas
         /\ edit[e].rollback => edit[e].target \in Uploaded

OneSchemaUnlessMarked ==
  ~hasSchemaWarning =>
    \A n \in Uploaded :
      /\ \A m \in Uploaded : version[m].schema = version[n].schema
      /\ \A e \in Editors :
           edit[e].phase # "Idle" /\ ~edit[e].rollback /\ ~edit[e].schemaChanged
             => edit[e].schema = version[n].schema

ExcelInv == ExcelTypes /\ EditsAreOfVersions /\ FileVersionIsCurrent /\ OneSchemaUnlessMarked

\* The rows that were there keep their schema.
WorkbooksStay ==
  /\ Uploaded \subseteq Uploaded'
  /\ ~hasSchemaWarning' => \A n \in Uploaded : version'[n].schema = version[n].schema

LEMMA ExcelRows ==
  ASSUME ExcelTypes
  PROVE  /\ Uploaded \subseteq VersionNumbers
         /\ \A n \in Uploaded : version[n] \in VersionRows
         /\ \A n \in VersionNumbers \ Uploaded : version[n] = NoVersion
         /\ IsFiniteSet(Uploaded) /\ Cardinality(Uploaded) \in Nat
<1>1. Uploaded \in SUBSET VersionNumbers /\ IsFiniteSet(VersionNumbers)
  BY ExcelAssumption, FS_Interval DEF Uploaded, VersionNumbers
<1> QED BY <1>1, FS_Subset, FS_CardinalityType DEF ExcelTypes, Uploaded

\* A step of one edit that leaves the tables alone and is fit to go on.
LEMMA ExcelEditKept ==
  ASSUME ExcelInv, NEW e \in Editors, NEW s \in EditRecords,
         edit' = [edit EXCEPT ![e] = s],
         UNCHANGED <<version, fileVersion, hasSchemaWarning>>,
         s.rows \subseteq Uploaded,
         s.phase # "Idle" => /\ s.target \in VersionNumbers /\ s.schema \in Schemas
                             /\ s.rollback => s.target \in Uploaded
                             /\ ~s.rollback /\ ~s.schemaChanged /\ ~hasSchemaWarning
                                  => \A n \in Uploaded : s.schema = version[n].schema
  PROVE  ExcelInv'
<1>1. edit'[e] = s /\ \A f \in Editors : f # e => edit'[f] = edit[f]
  BY DEF ExcelInv, ExcelTypes
<1>2. ExcelTypes'
  BY DEF ExcelInv, ExcelTypes
<1>3. Uploaded' = Uploaded /\ CurrentVersions' = CurrentVersions
  BY DEF Uploaded, CurrentVersions
<1>4. EditsAreOfVersions'
  BY <1>1, <1>3 DEF ExcelInv, EditsAreOfVersions
<1>5. OneSchemaUnlessMarked'
  BY <1>1, <1>3 DEF ExcelInv, OneSchemaUnlessMarked
<1> QED BY <1>2, <1>3, <1>4, <1>5 DEF ExcelInv, FileVersionIsCurrent

LEMMA ExcelCommitKept ==
  ASSUME ExcelInv, NEW e \in Editors, edit[e].phase # "Idle",
         NEW row \in VersionRows, row.isCurrent,
         version' = [Cleared(e) EXCEPT ![edit[e].target] = row],
         fileVersion' = edit[e].target,
         edit' = [edit EXCEPT ![e] = NoEdit],
         \/ edit[e].target \in Uploaded /\ hasSchemaWarning'
         \/ row.schema = edit[e].schema /\ ~edit[e].rollback /\ edit[e].target \notin Uploaded,
         hasSchemaWarning' \in BOOLEAN,
         ~hasSchemaWarning' => ~hasSchemaWarning /\ ~edit[e].schemaChanged
  PROVE  ExcelInv' /\ WorkbooksStay
<1> DEFINE v == edit[e].target
<1>1. v \in VersionNumbers /\ edit[e].rows \subseteq Uploaded
  BY DEF ExcelInv, EditsAreOfVersions
<1>2. /\ version'[v] = row
      /\ \A n \in VersionNumbers : n # v =>
           version'[n] = IF n \in edit[e].rows THEN [version[n] EXCEPT !.isCurrent = FALSE]
                         ELSE version[n]
      /\ DOMAIN version' = VersionNumbers
  BY <1>1 DEF Cleared
<1>3. /\ NoEdit \in EditRecords /\ NoEdit.phase = "Idle" /\ NoEdit.rows = {}
      /\ edit'[e] = NoEdit /\ \A f \in Editors : f # e => edit'[f] = edit[f]
  BY ExcelAssumption DEF NoEdit, EditRecords, EditPhases, ExcelInv, ExcelTypes
<1> HIDE DEF v
<1>4. \A n \in VersionNumbers : n # v =>
        /\ n \in Uploaded => /\ version'[n] \in VersionRows
                             /\ version'[n].schema = version[n].schema
        /\ n \notin Uploaded => version'[n] = NoVersion
  <2> SUFFICES ASSUME NEW n \in VersionNumbers, n # v
               PROVE  /\ n \in Uploaded => /\ version'[n] \in VersionRows
                                           /\ version'[n].schema = version[n].schema
                      /\ n \notin Uploaded => version'[n] = NoVersion
    OBVIOUS
  <2>1. CASE n \in Uploaded
    <3>1. version[n] \in VersionRows
      BY <2>1, ExcelRows DEF ExcelInv
    <3>2. version'[n] \in {version[n], [version[n] EXCEPT !.isCurrent = FALSE]}
      BY <1>2
    <3>3. /\ [version[n] EXCEPT !.isCurrent = FALSE] \in VersionRows
          /\ [version[n] EXCEPT !.isCurrent = FALSE].schema = version[n].schema
      BY <3>1 DEF VersionRows
    <3> QED BY <2>1, <3>1, <3>2, <3>3
  <2>2. CASE n \notin Uploaded
    BY <1>1, <1>2, <2>2, ExcelRows DEF ExcelInv
  <2> QED BY <2>1, <2>2
<1>5. ExcelTypes'
  <2>1. \A n \in VersionNumbers : version'[n] \in VersionRows \cup {NoVersion}
    BY <1>2, <1>4
  <2>2. version' \in [VersionNumbers -> VersionRows \cup {NoVersion}]
    BY <1>2, <2>1 DEF Cleared
  <2> QED BY <1>1, <1>3, <2>2 DEF v, ExcelInv, ExcelTypes
<1>6. Uploaded' = Uploaded \cup {v}
  BY <1>1, <1>2, <1>4, ExcelAssumption, ExcelRows DEF Uploaded, VersionRows, ExcelInv
<1>7. FileVersionIsCurrent'
  BY <1>2, <1>6 DEF v, FileVersionIsCurrent, CurrentVersions
<1>8. EditsAreOfVersions'
  BY <1>3, <1>6 DEF ExcelInv, EditsAreOfVersions
<1>9. ASSUME ~hasSchemaWarning'
      PROVE  /\ v \notin Uploaded /\ row.schema = edit[e].schema
             /\ \A n \in Uploaded : version'[n].schema = version[n].schema
             /\ \A n \in Uploaded : version[n].schema = row.schema
             /\ \A m, n \in Uploaded : version[m].schema = version[n].schema
             /\ \A f \in Editors : \A n \in Uploaded :
                  edit[f].phase # "Idle" /\ ~edit[f].rollback /\ ~edit[f].schemaChanged
                    => edit[f].schema = version[n].schema
             /\ Uploaded # {}
  <2>1. v \notin Uploaded /\ row.schema = edit[e].schema /\ ~edit[e].rollback
    BY <1>9 DEF v
  <2>2. ~hasSchemaWarning /\ ~edit[e].schemaChanged
    BY <1>9
  <2>3. \A n \in Uploaded : version'[n].schema = version[n].schema
    BY <1>4, <2>1, ExcelRows DEF ExcelInv
  <2>4. Uploaded # {}
    BY DEF ExcelInv, FileVersionIsCurrent, CurrentVersions
  <2>5. /\ \A m, n \in Uploaded : version[m].schema = version[n].schema
        /\ \A f \in Editors : \A n \in Uploaded :
             edit[f].phase # "Idle" /\ ~edit[f].rollback /\ ~edit[f].schemaChanged
               => edit[f].schema = version[n].schema
    BY <2>2 DEF ExcelInv, OneSchemaUnlessMarked
  <2> QED BY <2>1, <2>2, <2>3, <2>4, <2>5
<1>10. OneSchemaUnlessMarked'
  <2> SUFFICES ASSUME ~hasSchemaWarning', NEW n \in Uploaded'
               PROVE  /\ \A m \in Uploaded' : version'[m].schema = version'[n].schema
                      /\ \A f \in Editors :
                           /\ edit'[f].phase # "Idle"
                           /\ ~edit'[f].rollback /\ ~edit'[f].schemaChanged
                           => edit'[f].schema = version'[n].schema
    BY DEF OneSchemaUnlessMarked
  <2>1. \A m \in Uploaded' : version'[m].schema = row.schema
    BY <1>2, <1>6, <1>9
  <2>2. PICK k \in Uploaded : version[k].schema = row.schema
    BY <1>9
  <2> QED BY <1>3, <1>9, <2>1, <2>2
<1> QED BY <1>5, <1>6, <1>7, <1>8, <1>9, <1>10 DEF ExcelInv, WorkbooksStay

LEMMA ExcelStep ==
  ASSUME ExcelInv, [ExcelNext]_excelVars
  PROVE  ExcelInv' /\ WorkbooksStay
<1> USE DEF EditPhases
<1>1. /\ ExcelTypes
      /\ \A e \in Editors : edit[e] \in EditRecords
      /\ CurrentVersions \subseteq Uploaded /\ Uploaded \subseteq VersionNumbers
  BY ExcelRows DEF ExcelInv, ExcelTypes, CurrentVersions
<1>2. ASSUME NEW e \in Editors, NEW s \in Schemas, replaceRead(e, s) PROVE ExcelInv'
  <2>1. PICK previous \in CurrentVersions, b \in BOOLEAN :
          /\ b <=> version[previous].schema # s
          /\ edit' = [edit EXCEPT ![e] =
               [phase |-> "Begin", rollback |-> FALSE, target |-> Cardinality(Uploaded) + 1,
                schema |-> s, schemaChanged |-> b, rows |-> {}]]
    BY <1>2 DEF replaceRead, schemaChanged
  <2> DEFINE record == [phase |-> "Begin", rollback |-> FALSE, target |-> Cardinality(Uploaded) + 1,
                        schema |-> s, schemaChanged |-> b, rows |-> {}]
  <2>2. Cardinality(Uploaded) + 1 \in VersionNumbers
    BY <1>1, <1>2, ExcelRows, ExcelAssumption DEF replaceRead, VersionNumbers
  <2>3. record \in EditRecords
    BY <2>2 DEF EditRecords, VersionNumbers
  <2>4. ~b /\ ~hasSchemaWarning => \A n \in Uploaded : s = version[n].schema
    BY <1>1, <2>1 DEF ExcelInv, OneSchemaUnlessMarked
  <2>5. /\ record.rows = {} /\ record.target = Cardinality(Uploaded) + 1 /\ record.schema = s
        /\ ~record.rollback /\ record.schemaChanged = b
    OBVIOUS
  <2>6. edit' = [edit EXCEPT ![e] = record] /\ UNCHANGED <<version, fileVersion, hasSchemaWarning>>
    BY <1>2, <2>1 DEF replaceRead
  <2> HIDE DEF record
  <2> QED BY <2>2, <2>3, <2>4, <2>5, <2>6, ExcelEditKept
<1>3. ASSUME NEW e \in Editors, NEW n \in VersionNumbers, rollbackRead(e, n) PROVE ExcelInv'
  <2> DEFINE record == [phase |-> "Begin", rollback |-> TRUE, target |-> n,
                        schema |-> version[n].schema, schemaChanged |-> TRUE, rows |-> {}]
  <2>1. n \in Uploaded /\ version[n].schema \in Schemas
    BY <1>1, <1>3, ExcelRows DEF rollbackRead, VersionRows
  <2>2. record \in EditRecords
    BY <2>1 DEF EditRecords, VersionNumbers
  <2>3. /\ record.rows = {} /\ record.target = n /\ record.schema \in Schemas
        /\ record.rollback = TRUE
    BY <2>1
  <2>4. edit' = [edit EXCEPT ![e] = record] /\ UNCHANGED <<version, fileVersion, hasSchemaWarning>>
    BY <1>3 DEF rollbackRead
  <2> HIDE DEF record
  <2> QED BY <2>1, <2>2, <2>3, <2>4, ExcelEditKept
<1>4. ASSUME NEW e \in Editors, clearCurrent(e) \/ clearUnblocked(e) PROVE ExcelInv'
  <2>1. PICK phase \in {"Blocked", "Open"}, rows \in SUBSET Uploaded :
          edit' = [edit EXCEPT ![e].phase = phase, ![e].rows = rows]
    BY <1>1, <1>4 DEF clearCurrent, clearUnblocked, StillCurrent
  <2> DEFINE record == [edit[e] EXCEPT !.phase = phase, !.rows = rows]
  <2>2. /\ record \in EditRecords /\ record.rows = rows /\ record.target = edit[e].target
        /\ record.schema = edit[e].schema /\ record.rollback = edit[e].rollback
        /\ record.schemaChanged = edit[e].schemaChanged
    BY <1>1 DEF EditRecords
  <2>3. edit' = [edit EXCEPT ![e] = record] /\ UNCHANGED <<version, fileVersion, hasSchemaWarning>>
    BY <1>1, <1>4, <2>1 DEF clearCurrent, clearUnblocked, ExcelTypes
  <2>4. edit[e].phase # "Idle"
    BY <1>4 DEF clearCurrent, clearUnblocked
  <2>5. /\ edit[e].target \in VersionNumbers /\ edit[e].schema \in Schemas
        /\ edit[e].rollback => edit[e].target \in Uploaded
        /\ ~edit[e].rollback /\ ~edit[e].schemaChanged /\ ~hasSchemaWarning
             => \A n \in Uploaded : edit[e].schema = version[n].schema
    BY <2>4 DEF ExcelInv, EditsAreOfVersions, OneSchemaUnlessMarked
  <2> HIDE DEF record
  <2> QED BY <2>2, <2>3, <2>5, ExcelEditKept
<1>5. ASSUME NEW e \in Editors, editFails(e) PROVE ExcelInv'
  <2>1. NoEdit \in EditRecords /\ NoEdit.phase = "Idle" /\ NoEdit.rows = {}
    BY ExcelAssumption DEF NoEdit, EditRecords
  <2> QED BY <1>5, <2>1, ExcelEditKept DEF editFails
<1>6. ASSUME NEW e \in Editors, replaceCommit(e)
      PROVE  ExcelInv' /\ WorkbooksStay
  <2> DEFINE row == [schema |-> edit[e].schema, isCurrent |-> TRUE]
  <2>1. edit[e].phase # "Idle" /\ ~edit[e].rollback /\ edit[e].target \notin Uploaded
    BY <1>6 DEF replaceCommit, VersionNumberIsFree, Uploaded
  <2>2. row \in VersionRows /\ row.isCurrent /\ row.schema = edit[e].schema
    BY <2>1 DEF VersionRows, ExcelInv, EditsAreOfVersions
  <2>3. hasSchemaWarning' \in BOOLEAN
        /\ (~hasSchemaWarning' => ~hasSchemaWarning /\ ~edit[e].schemaChanged)
    BY <1>6 DEF replaceCommit
  <2>4. /\ version' = [Cleared(e) EXCEPT ![edit[e].target] = row]
        /\ fileVersion' = edit[e].target /\ edit' = [edit EXCEPT ![e] = NoEdit]
    BY <1>6 DEF replaceCommit
  <2> HIDE DEF row
  <2> QED BY <2>1, <2>2, <2>3, <2>4, ExcelCommitKept
<1>7. ASSUME NEW e \in Editors, rollbackCommit(e)
      PROVE  ExcelInv' /\ WorkbooksStay
  <2> DEFINE v == edit[e].target
             row == [version[v] EXCEPT !.isCurrent = TRUE]
  <2>1. edit[e].phase # "Idle" /\ v \in Uploaded
    BY <1>7 DEF rollbackCommit, ExcelInv, EditsAreOfVersions
  <2>2. row \in VersionRows /\ row.isCurrent
    BY <1>1, <2>1, ExcelRows DEF VersionRows
  <2>3. hasSchemaWarning' = TRUE
    BY <1>7 DEF rollbackCommit
  <2>4. version' = [Cleared(e) EXCEPT ![v] = row]
    <3>1. [Cleared(e)[v] EXCEPT !.isCurrent = TRUE] = row
      <4>1. Cleared(e)[v] = version[v] \/ Cleared(e)[v] = [version[v] EXCEPT !.isCurrent = FALSE]
        BY <1>1, <2>1 DEF Cleared
      <4>2. version[v] \in VersionRows
        BY <1>1, <2>1, ExcelRows
      <4> QED BY <4>1, <4>2 DEF VersionRows
    <3> QED BY <1>1, <1>7, <2>1, <3>1 DEF rollbackCommit, flagRestored, Cleared
  <2>5. fileVersion' = v /\ edit' = [edit EXCEPT ![e] = NoEdit]
    BY <1>7 DEF rollbackCommit
  <2> HIDE DEF row
  <2> QED BY <2>1, <2>2, <2>3, <2>4, <2>5, ExcelCommitKept
<1>8. version' = version => WorkbooksStay
  BY DEF WorkbooksStay, Uploaded
<1>9. CASE UNCHANGED excelVars
  <2>1. Uploaded' = Uploaded /\ CurrentVersions' = CurrentVersions
    BY <1>9 DEF excelVars, Uploaded, CurrentVersions
  <2>2. ExcelTypes' /\ EditsAreOfVersions' /\ FileVersionIsCurrent'
    BY <1>9, <2>1 DEF excelVars, ExcelInv, ExcelTypes, EditsAreOfVersions, FileVersionIsCurrent
  <2>3. OneSchemaUnlessMarked'
    BY <1>9, <2>1 DEF excelVars, ExcelInv, OneSchemaUnlessMarked
  <2> QED BY <1>8, <1>9, <2>2, <2>3 DEF ExcelInv, excelVars
<1> QED
  BY <1>2, <1>3, <1>4, <1>5, <1>6, <1>7, <1>8, <1>9
     DEF ExcelNext, replaceRead, rollbackRead, clearCurrent, clearUnblocked, editFails, excelVars

LEMMA ExcelInvariant == ExcelSpec => []ExcelInv
<1>1. ExcelInit => ExcelInv
  <2> SUFFICES ASSUME ExcelInit PROVE ExcelInv
    OBVIOUS
  <2>1. PICK s \in Schemas :
          version = [n \in VersionNumbers |->
                       IF n = 1 THEN [schema |-> s, isCurrent |-> TRUE] ELSE NoVersion]
    BY DEF ExcelInit
  <2>2. 1 \in VersionNumbers /\ [schema |-> s, isCurrent |-> TRUE] \in VersionRows
    BY ExcelAssumption DEF VersionNumbers, VersionRows
  <2>3. version[1] = [schema |-> s, isCurrent |-> TRUE] /\ Uploaded = {1}
    BY <2>1, <2>2, ExcelAssumption DEF Uploaded, VersionRows
  <2>4. NoEdit \in EditRecords /\ NoEdit.phase = "Idle" /\ NoEdit.rows = {}
    BY ExcelAssumption DEF NoEdit, EditRecords, EditPhases
  <2>5. ExcelTypes
    BY <2>1, <2>2, <2>4 DEF ExcelInit, ExcelTypes
  <2>6. \A e \in Editors : edit[e] = NoEdit
    BY DEF ExcelInit
  <2> QED BY <2>3, <2>4, <2>5, <2>6
             DEF ExcelInit, ExcelInv, EditsAreOfVersions, FileVersionIsCurrent,
                 OneSchemaUnlessMarked, CurrentVersions
<1>2. ExcelInv /\ [ExcelNext]_excelVars => ExcelInv'
  BY ExcelStep
<1> QED BY <1>1, <1>2, PTL DEF ExcelSpec

\* Whichever replacements and rollbacks overlap, the version whose bytes and columns the data
\* source uses is marked current.
THEOREM ExcelFileIsCurrent == ExcelSpec => []FileVersionIsCurrent
<1>1. ExcelInv => FileVersionIsCurrent
  BY DEF ExcelInv
<1> QED BY <1>1, ExcelInvariant, PTL

\* Although a request compares its workbook with versions that it read before its
\* transaction, a commit that changes the columns finds or leaves the dashboards marked.
THEOREM ExcelChangesAreMarked == ExcelSpec => SchemaChangesAreMarked
<1>1. ExcelInv /\ [ExcelNext]_excelVars =>
        [version'[fileVersion'].schema # version[fileVersion].schema => hasSchemaWarning']_excelVars
  <2> SUFFICES ASSUME ExcelInv, [ExcelNext]_excelVars, ~hasSchemaWarning'
               PROVE  version'[fileVersion'].schema = version[fileVersion].schema
    OBVIOUS
  <2>1. ExcelInv' /\ WorkbooksStay
    BY ExcelStep
  <2>2. fileVersion \in Uploaded /\ fileVersion' \in Uploaded'
    BY <2>1 DEF ExcelInv, FileVersionIsCurrent, CurrentVersions
  <2> QED BY <2>1, <2>2 DEF ExcelInv, OneSchemaUnlessMarked, WorkbooksStay
<1> QED BY <1>1, ExcelInvariant, PTL DEF ExcelSpec, SchemaChangesAreMarked

-----------------------------------------------------------------------------
(* MetadataDiscovery.  Versions are counted without gaps, so a scan whose  *)
(* version has no run yet began after the last commit: nothing was stored  *)
(* between its comparison and its own commit.                              *)

StoredRows == [print: Prints, id: 0..MaxRefreshes, selected: BOOLEAN,
               about: Prints \cup {NotDescribed}]
Scans == [pc: {"Idle", "Listing", "Listed", "Compared"}, version: 0..MaxRefreshes,
          began: 0..MaxDatabaseChanges, tables: [Tables -> Prints], current: [Tables -> Prints]]

MetadataTypes ==
  /\ database \in [Tables -> Prints]
  /\ databaseChanges \in 0..MaxDatabaseChanges
  /\ metadataVersion \in 0..MaxRefreshes
  /\ stored \in [Tables -> StoredRows]
  /\ scannedAt \in 0..MaxDatabaseChanges
  /\ discovery \in [Discoverers -> Scans]
  /\ enrichment \in [Tables -> [print: Prints, id: 0..MaxRefreshes]]

VersionsCount ==
  /\ refreshRuns = 1..metadataVersion
  /\ scannedAt <= databaseChanges
  /\ \A d \in Discoverers : discovery[d].pc # "Idle" =>
       /\ discovery[d].version \in 1..(metadataVersion + 1)
       /\ discovery[d].began <= databaseChanges

\* The version a scan took is still the next one.
IsFirst(d) == discovery[d].pc # "Idle" /\ discovery[d].version = metadataVersion + 1

FirstIsCurrent ==
  \A d \in Discoverers : IsFirst(d) =>
    /\ discovery[d].began >= scannedAt
    /\ discovery[d].pc = "Compared" => discovery[d].current = [t \in Tables |-> stored[t].print]

MetadataInv == MetadataTypes /\ VersionsCount /\ FirstIsCurrent

LEMMA MetadataCommitIsFirst ==
  ASSUME MetadataInv, NEW d \in Discoverers, discoverCommit(d)
  PROVE  /\ IsFirst(d) /\ discovery[d].began >= scannedAt
         /\ \A t \in Tables : discovery[d].current[t] = stored[t].print
<1>1. discovery[d].pc = "Compared" /\ discovery[d].version \notin refreshRuns
  BY DEF discoverCommit, RefreshIsFirst
<1>2. /\ discovery[d].version \in 1..(metadataVersion + 1) /\ refreshRuns = 1..metadataVersion
      /\ metadataVersion \in Nat
  BY <1>1, MetadataAssumption DEF MetadataInv, VersionsCount, MetadataTypes
<1>3. IsFirst(d)
  BY <1>1, <1>2 DEF IsFirst
<1>4. /\ discovery[d].began >= scannedAt
      /\ discovery[d].current = [t \in Tables |-> stored[t].print]
  BY <1>1, <1>3 DEF MetadataInv, FirstIsCurrent
<1> QED BY <1>3, <1>4

LEMMA MetadataTypesStep == MetadataInv /\ [MetadataNext]_metadataVars => MetadataTypes'
<1> SUFFICES ASSUME MetadataInv, [MetadataNext]_metadataVars PROVE MetadataTypes'
  OBVIOUS
<1> USE MetadataAssumption
<1>1. MetadataTypes
  BY DEF MetadataInv
<1>2. NoDiscovery \in Scans
  BY DEF NoDiscovery, Scans, Nothing, Prints
<1>3. ASSUME NEW t \in Tables, NEW p \in Prints, databaseChange(t, p) PROVE MetadataTypes'
  BY <1>1, <1>3 DEF databaseChange, MetadataTypes
<1>4. ASSUME NEW d \in Discoverers, discoverBegin(d) PROVE MetadataTypes'
  <2>1. [NoDiscovery EXCEPT !.pc = "Listing", !.version = metadataVersion + 1,
                           !.began = databaseChanges] \in Scans
    <3>1. metadataVersion + 1 \in 0..MaxRefreshes /\ databaseChanges \in 0..MaxDatabaseChanges
      BY <1>1, <1>4 DEF discoverBegin, MetadataTypes
    <3> QED BY <1>2, <3>1 DEF Scans
  <2>2. discovery' \in [Discoverers -> Scans]
    BY <1>1, <1>4, <2>1 DEF discoverBegin, MetadataTypes
  <2> QED BY <1>1, <1>4, <2>2 DEF discoverBegin, MetadataTypes
<1>5. ASSUME NEW d \in Discoverers, discoverTables(d) PROVE MetadataTypes'
  <2>1. discovery[d] \in Scans /\ database \in [Tables -> Prints]
    BY <1>1 DEF MetadataTypes
  <2>2. discovery' = [discovery EXCEPT ![d] =
                        [discovery[d] EXCEPT !.pc = "Listed", !.tables = database]]
    BY <1>1, <1>5 DEF discoverTables, MetadataTypes
  <2>3. [discovery[d] EXCEPT !.pc = "Listed", !.tables = database] \in Scans
    BY <2>1 DEF Scans
  <2>4. discovery' \in [Discoverers -> Scans]
    BY <1>1, <2>2, <2>3 DEF MetadataTypes
  <2> QED BY <1>1, <1>5, <2>4 DEF discoverTables, MetadataTypes
<1>6. ASSUME NEW d \in Discoverers, discoverCompare(d) PROVE MetadataTypes'
  <2> DEFINE prints == [t \in Tables |-> stored[t].print]
  <2>1. discovery[d] \in Scans /\ prints \in [Tables -> Prints]
    BY <1>1 DEF MetadataTypes, StoredRows
  <2>2. discovery' = [discovery EXCEPT ![d] =
                        [discovery[d] EXCEPT !.pc = "Compared", !.current = prints]]
    BY <1>1, <1>6 DEF discoverCompare, MetadataTypes
  <2> HIDE DEF prints
  <2>3. [discovery[d] EXCEPT !.pc = "Compared", !.current = prints] \in Scans
    BY <2>1 DEF Scans
  <2>4. discovery' \in [Discoverers -> Scans]
    BY <1>1, <2>2, <2>3 DEF MetadataTypes
  <2> QED BY <1>1, <1>6, <2>4 DEF discoverCompare, MetadataTypes
<1>7. ASSUME NEW d \in Discoverers, discoverCommit(d) PROVE MetadataTypes'
  <2>1. discovery[d] \in Scans
    BY <1>1 DEF MetadataTypes
  <2>2. \A t \in Tables : Upserted(discovery[d], t) \in StoredRows
    <3> SUFFICES ASSUME NEW t \in Tables PROVE Upserted(discovery[d], t) \in StoredRows
      OBVIOUS
    <3>1. /\ stored[t] \in StoredRows /\ discovery[d].tables[t] \in Prints
          /\ discovery[d].version \in 0..MaxRefreshes
      BY <1>1, <2>1 DEF MetadataTypes, Scans
    <3>2. NoTable \in StoredRows
      BY DEF NoTable, StoredRows, Prints
    <3> QED BY <3>1, <3>2 DEF Upserted, StoredRows
  <2>3. stored' \in [Tables -> StoredRows]
    BY <1>7, <2>2 DEF discoverCommit
  <2>4. /\ scannedAt' \in 0..MaxDatabaseChanges /\ metadataVersion' \in 0..MaxRefreshes
    BY <1>7, <2>1 DEF discoverCommit, Scans
  <2>5. discovery' \in [Discoverers -> Scans]
    BY <1>1, <1>2, <1>7 DEF discoverCommit, MetadataTypes
  <2> QED BY <1>1, <1>7, <2>3, <2>4, <2>5 DEF discoverCommit, MetadataTypes
<1>8. ASSUME NEW d \in Discoverers, discoverFail(d) PROVE MetadataTypes'
  BY <1>1, <1>2, <1>8 DEF discoverFail, MetadataTypes
<1>9. ASSUME NEW chosen \in SUBSET Tables, saveDatabaseScope(chosen) PROVE MetadataTypes'
  <2>1. \A t \in Tables : [stored[t] EXCEPT !.selected = t \in chosen] \in StoredRows
    <3> SUFFICES ASSUME NEW t \in Tables, NEW b \in BOOLEAN
                 PROVE  [stored[t] EXCEPT !.selected = b] \in StoredRows
      <4>1. \A t \in Tables : (t \in chosen) \in BOOLEAN
        OBVIOUS
      <4> QED BY <4>1
    <3> QED BY <1>1 DEF MetadataTypes, StoredRows
  <2>2. stored' \in [Tables -> StoredRows]
    BY <1>9, <2>1 DEF saveDatabaseScope
  <2> QED BY <1>1, <1>9, <2>2 DEF saveDatabaseScope, MetadataTypes
<1>10. CASE enrichRead
  <2>1. enrichment' \in [Tables -> [print: Prints, id: 0..MaxRefreshes]]
    BY <1>1, <1>10 DEF enrichRead, MetadataTypes, StoredRows, Prints
  <2> QED BY <1>1, <1>10, <2>1 DEF enrichRead, MetadataTypes
<1>11. ASSUME NEW t \in Tables, enrichStore(t) PROVE MetadataTypes'
  <2>1. [print |-> 0, id |-> 0] \in [print: Prints, id: 0..MaxRefreshes]
    BY DEF Prints
  <2>2. stored' \in [Tables -> StoredRows]
    BY <1>1, <1>11 DEF enrichStore, MetadataTypes, StoredRows
  <2>3. enrichment' \in [Tables -> [print: Prints, id: 0..MaxRefreshes]]
    BY <1>1, <1>11, <2>1 DEF enrichStore, MetadataTypes
  <2> QED BY <1>1, <1>11, <2>2, <2>3 DEF enrichStore, MetadataTypes
<1>12. CASE enrichStop
  <2>1. enrichment' \in [Tables -> [print: Prints, id: 0..MaxRefreshes]]
    BY <1>12 DEF enrichStop, Prints
  <2> QED BY <1>1, <1>12, <2>1 DEF enrichStop, MetadataTypes
<1>13. CASE UNCHANGED metadataVars
  BY <1>1, <1>13 DEF metadataVars, MetadataTypes
<1> QED
  BY <1>3, <1>4, <1>5, <1>6, <1>7, <1>8, <1>9, <1>10, <1>11, <1>12, <1>13 DEF MetadataNext

\* Steps that store nothing but the owner's choice and descriptions, and move no scan.
LEMMA MetadataSteady ==
  ASSUME MetadataInv, MetadataTypes', databaseChanges' >= databaseChanges,
         UNCHANGED <<metadataVersion, scannedAt, refreshRuns, discovery>>,
         \A t \in Tables : stored'[t].print = stored[t].print
  PROVE  MetadataInv'
<1>1. /\ databaseChanges \in Nat /\ databaseChanges' \in Nat /\ scannedAt \in Nat
      /\ \A d \in Discoverers : discovery[d].began \in Nat
  BY MetadataAssumption DEF MetadataInv, MetadataTypes, Scans
<1>2. VersionsCount'
  BY <1>1 DEF MetadataInv, VersionsCount
<1>3. [t \in Tables |-> stored'[t].print] = [t \in Tables |-> stored[t].print]
  OBVIOUS
<1>4. FirstIsCurrent'
  BY <1>3 DEF MetadataInv, FirstIsCurrent, IsFirst
<1> QED BY <1>2, <1>4 DEF MetadataInv

\* Steps of one scan that store nothing.
LEMMA MetadataScanStep ==
  ASSUME MetadataInv, MetadataTypes', NEW d \in Discoverers,
         discoverBegin(d) \/ discoverTables(d) \/ discoverCompare(d) \/ discoverFail(d)
  PROVE  MetadataInv'
<1>1. /\ \A e \in Discoverers : e # d => discovery'[e] = discovery[e]
      /\ metadataVersion' = metadataVersion /\ refreshRuns' = refreshRuns
      /\ scannedAt' = scannedAt /\ stored' = stored /\ databaseChanges' = databaseChanges
  BY DEF MetadataInv, MetadataTypes, discoverBegin, discoverTables, discoverCompare, discoverFail
<1>2. metadataVersion \in Nat /\ scannedAt <= databaseChanges /\ databaseChanges \in Nat
  BY MetadataAssumption DEF MetadataInv, MetadataTypes, VersionsCount
<1>3. \/ discovery'[d].pc = "Idle"
      \/ /\ discovery'[d].version = metadataVersion + 1 /\ discovery'[d].pc = "Listing"
         /\ discovery'[d].began = databaseChanges
      \/ /\ discovery[d].pc # "Idle" /\ discovery'[d].version = discovery[d].version
         /\ discovery'[d].began = discovery[d].began
         /\ \/ discovery'[d].pc = "Listed"
            \/ discovery'[d].current = [t \in Tables |-> stored[t].print]
  <2> USE DEF MetadataInv, MetadataTypes, Scans
  <2>1. CASE discoverBegin(d)
    BY <2>1 DEF discoverBegin, NoDiscovery
  <2>2. CASE discoverTables(d)
    BY <2>2 DEF discoverTables
  <2>3. CASE discoverCompare(d)
    <3> DEFINE prints == [t \in Tables |-> stored[t].print]
    <3>1. /\ discovery[d].pc = "Listed" /\ d \in DOMAIN discovery
          /\ discovery[d] \in Scans
          /\ discovery' = [discovery EXCEPT ![d].pc = "Compared", ![d].current = prints]
      BY <2>3 DEF discoverCompare
    <3> HIDE DEF prints
    <3>2. /\ discovery'[d].current = prints /\ discovery'[d].version = discovery[d].version
          /\ discovery'[d].began = discovery[d].began
      BY <3>1
    <3> QED BY <3>1, <3>2 DEF prints
  <2>4. CASE discoverFail(d)
    BY <2>4 DEF discoverFail, NoDiscovery
  <2> QED BY <2>1, <2>2, <2>3, <2>4
<1>4. VersionsCount'
  BY <1>1, <1>2, <1>3 DEF MetadataInv, VersionsCount
<1>5. FirstIsCurrent'
  <2> SUFFICES ASSUME NEW e \in Discoverers, IsFirst(e)'
               PROVE  /\ discovery'[e].began >= scannedAt
                      /\ discovery'[e].pc = "Compared" =>
                           discovery'[e].current = [t \in Tables |-> stored[t].print]
    BY <1>1 DEF FirstIsCurrent
  <2>1. CASE e # d
    BY <1>1, <2>1 DEF MetadataInv, FirstIsCurrent, IsFirst
  <2>2. CASE e = d
    BY <1>1, <1>2, <1>3, <2>2 DEF MetadataInv, FirstIsCurrent, IsFirst
  <2> QED BY <2>1, <2>2
<1> QED BY <1>4, <1>5 DEF MetadataInv

LEMMA MetadataCommitStep ==
  ASSUME MetadataInv, MetadataTypes', NEW d \in Discoverers, discoverCommit(d)
  PROVE  MetadataInv'
<1>1. /\ discovery[d].version = metadataVersion + 1 /\ metadataVersion' = metadataVersion + 1
      /\ scannedAt' = discovery[d].began /\ databaseChanges' = databaseChanges
      /\ refreshRuns' = refreshRuns \cup {metadataVersion + 1}
  BY MetadataCommitIsFirst DEF IsFirst, discoverCommit
<1>2. /\ metadataVersion \in Nat /\ refreshRuns = 1..metadataVersion
      /\ discovery[d].began <= databaseChanges
  BY MetadataAssumption, MetadataCommitIsFirst
     DEF MetadataInv, MetadataTypes, VersionsCount, IsFirst
<1>3. \A e \in Discoverers : discovery'[e].pc # "Idle" =>
        discovery'[e] = discovery[e]
  BY DEF MetadataInv, MetadataTypes, discoverCommit, NoDiscovery
<1>4. \A e \in Discoverers : discovery'[e].pc # "Idle" =>
        /\ discovery'[e].version \in 1..(metadataVersion + 1)
        /\ discovery'[e].began <= databaseChanges
  BY <1>3 DEF MetadataInv, VersionsCount
<1>5. refreshRuns' = 1..(metadataVersion + 1)
  BY <1>1, <1>2
<1>6. \A e \in Discoverers : discovery'[e].pc # "Idle" =>
        discovery'[e].version \in 1..(metadataVersion' + 1) /\ ~IsFirst(e)'
  BY <1>1, <1>2, <1>4 DEF IsFirst
<1>7. VersionsCount'
  BY <1>1, <1>2, <1>4, <1>5, <1>6 DEF VersionsCount
<1>8. FirstIsCurrent'
  BY <1>6 DEF FirstIsCurrent, IsFirst
<1> QED BY <1>7, <1>8 DEF MetadataInv

LEMMA MetadataStep == MetadataInv /\ [MetadataNext]_metadataVars => MetadataInv'
<1> SUFFICES ASSUME MetadataInv, [MetadataNext]_metadataVars PROVE MetadataInv'
  OBVIOUS
<1>1. MetadataTypes' /\ databaseChanges \in Nat
  BY MetadataTypesStep, MetadataAssumption DEF MetadataInv, MetadataTypes
<1>2. ASSUME NEW t \in Tables, NEW p \in Prints, databaseChange(t, p) PROVE MetadataInv'
  BY <1>1, <1>2, MetadataSteady DEF databaseChange
<1>3. ASSUME NEW chosen \in SUBSET Tables, saveDatabaseScope(chosen) PROVE MetadataInv'
  <2>1. \A t \in Tables : stored'[t].print = stored[t].print
    BY <1>3 DEF saveDatabaseScope, MetadataInv, MetadataTypes, StoredRows
  <2> QED BY <1>1, <1>3, <2>1, MetadataSteady DEF saveDatabaseScope
<1>4. ASSUME NEW t \in Tables, enrichStore(t) PROVE MetadataInv'
  <2>1. \A u \in Tables : stored'[u].print = stored[u].print
    BY <1>4 DEF enrichStore, MetadataInv, MetadataTypes, StoredRows
  <2> QED BY <1>1, <1>4, <2>1, MetadataSteady DEF enrichStore
<1>5. CASE enrichRead \/ enrichStop
  BY <1>1, <1>5, MetadataSteady DEF enrichRead, enrichStop
<1>6. CASE UNCHANGED metadataVars
  BY <1>1, <1>6, MetadataSteady DEF metadataVars
<1> QED BY <1>1, <1>2, <1>3, <1>4, <1>5, <1>6, MetadataScanStep, MetadataCommitStep
           DEF MetadataNext

LEMMA MetadataInvariant == MetadataSpec => []MetadataInv
<1>1. MetadataInit => MetadataInv
  <2> SUFFICES ASSUME MetadataInit PROVE MetadataInv
    OBVIOUS
  <2>1. MetadataTypes
    <3>1. database \in [Tables -> Prints]
      <4>1. database \in [Tables -> {0, 1}]
        BY DEF MetadataInit
      <4> QED BY <4>1, MetadataAssumption DEF Prints
    <3>2. NoTable \in StoredRows /\ NoDiscovery \in Scans
      BY MetadataAssumption DEF NoTable, StoredRows, NoDiscovery, Scans, Nothing, Prints
    <3> QED BY <3>1, <3>2, MetadataAssumption DEF MetadataInit, MetadataTypes, Prints
  <2>2. \A d \in Discoverers : discovery[d].pc = "Idle"
    BY DEF MetadataInit, NoDiscovery
  <2>3. refreshRuns = 1..metadataVersion /\ scannedAt <= databaseChanges
    BY DEF MetadataInit
  <2> QED BY <2>1, <2>2, <2>3 DEF MetadataInv, VersionsCount, FirstIsCurrent, IsFirst
<1> QED BY <1>1, MetadataStep, PTL DEF MetadataSpec

\* Of overlapping discoveries the one that commits took its version after the last commit, so
\* versions grow one by one and what is stored never comes from a scan begun earlier.
THEOREM MetadataIsMonotone == MetadataSpec => MetadataNeverGoesBack
<1>1. MetadataInv /\ [MetadataNext]_metadataVars =>
        [metadataVersion' # metadataVersion =>
           /\ metadataVersion' = metadataVersion + 1
           /\ scannedAt' >= scannedAt]_metadataVars
  <2> SUFFICES ASSUME MetadataInv, MetadataNext, metadataVersion' # metadataVersion
               PROVE  metadataVersion' = metadataVersion + 1 /\ scannedAt' >= scannedAt
    BY DEF metadataVars
  <2>1. PICK d \in Discoverers : discoverCommit(d)
    BY DEF MetadataNext, databaseChange, discoverBegin, discoverTables, discoverCompare,
           discoverFail, saveDatabaseScope, enrichRead, enrichStore, enrichStop
  <2> QED BY <2>1, MetadataCommitIsFirst DEF discoverCommit, IsFirst
<1> QED BY <1>1, MetadataInvariant, PTL DEF MetadataSpec, MetadataNeverGoesBack

\* A discovery leaves no description behind that it made stale, although it compares the
\* scan with rows read before its transaction; and no description is stored for a row that
\* took the place of the one it was written for.
THEOREM DescriptionsStayTrue == MetadataSpec => DescriptionsFitTheirRows
<1> DEFINE Fits(t) ==
      /\ stored'[t].about \notin {stored'[t].print, NotDescribed} =>
           \/ stored[t].about = stored'[t].about /\ stored[t].print = stored'[t].print
           \/ enrichment[t].print = stored'[t].about /\ enrichment'[t].print = 0
      /\ stored'[t].about # stored[t].about /\ stored'[t].about # NotDescribed =>
           enrichment[t].id = stored'[t].id
<1>1. MetadataInv /\ [MetadataNext]_metadataVars => [\A t \in Tables : Fits(t)]_metadataVars
  <2> SUFFICES ASSUME MetadataInv, MetadataNext, NEW t \in Tables PROVE Fits(t)
    OBVIOUS
  <2>1. stored[t] \in StoredRows
    BY DEF MetadataInv, MetadataTypes
  <2>2. CASE stored' = stored
    BY <2>2
  <2>3. ASSUME NEW d \in Discoverers, discoverCommit(d) PROVE Fits(t)
    <3>1. stored'[t] = Upserted(discovery[d], t) /\ discovery[d].current[t] = stored[t].print
      BY <2>3, MetadataCommitIsFirst DEF discoverCommit
    <3> QED BY <2>1, <3>1 DEF Upserted, NoTable, metadataChanged
  <2>4. ASSUME NEW chosen \in SUBSET Tables, saveDatabaseScope(chosen) PROVE Fits(t)
    <3>1. stored'[t].about = stored[t].about /\ stored'[t].print = stored[t].print
      BY <2>1, <2>4 DEF saveDatabaseScope, StoredRows
    <3> QED BY <3>1
  <2>5. ASSUME NEW u \in Tables, enrichStore(u) PROVE Fits(t)
    <3>1. stored \in [Tables -> StoredRows]
          /\ enrichment \in [Tables -> [print: Prints, id: 0..MaxRefreshes]]
      BY DEF MetadataInv, MetadataTypes
    <3>2. CASE t # u
      <4>1. stored'[t] = stored[t]
        BY <2>5, <3>1, <3>2 DEF enrichStore
      <4> QED BY <4>1
    <3>3. CASE t = u
      <4>1. /\ stored'[t].about = enrichment[t].print /\ enrichment'[t].print = 0
            /\ stored'[t].id = stored[t].id /\ stored[t].id = enrichment[t].id
        BY <2>1, <2>5, <3>1, <3>3 DEF enrichStore, SameRow, StoredRows
      <4> QED BY <4>1
    <3> QED BY <3>2, <3>3
  <2> QED BY <2>2, <2>3, <2>4, <2>5
          DEF MetadataNext, databaseChange, discoverBegin, discoverTables, discoverCompare,
              discoverFail, enrichRead, enrichStop
<1>2. DescriptionsFitTheirRows <=> [][\A t \in Tables : Fits(t)]_metadataVars
  BY DEF DescriptionsFitTheirRows
<1> HIDE DEF Fits
<1> QED BY <1>1, <1>2, MetadataInvariant, PTL DEF MetadataSpec

-----------------------------------------------------------------------------
(* LegacyApi.  An outcome is written once, with the row of the call it     *)
(* came from; a row goes only with its tool, and tools do not come back.   *)

RequestRecords ==
  [at: {"Idle", "Saved", "Call", "Fetching", "Tested", "Done", "Dead", "Unwritten"},
   enabled: BOOLEAN, outcome: {"none", "ok", "clarification", "failure"}]

\* A request has an outcome only behind its call, and a good one is of a completed call.
OutcomesHaveCalls ==
  \A r \in ToolRequests :
    /\ toolRequest[r].at \in {"Idle", "Saved", "Call", "Fetching"} =>
         toolRequest[r].outcome = "none" /\ ~HasStatus(r, "COMPLETED")
    /\ ToolExists /\ toolRequest[r].outcome = "ok" => HasStatus(r, "COMPLETED")

ToolInv == ToolTypeOK /\ OutcomesHaveCalls /\ ReadyToolsWereTested /\ NoCallIsForgotten

\* Steps that leave the rows of calls alone and move one request that is not fetching.
LEMMA ToolQuietStep ==
  ASSUME ToolInv, ToolTypeOK', UNCHANGED invocation,
         ToolExists' => ToolExists,
         IsReady' => IsReady \/ \E a \in Administrators : HasStatus(a, "COMPLETED"),
         NEW r \in ToolRequests,
         \A q \in ToolRequests : q # r => toolRequest'[q] = toolRequest[q],
         toolRequest'[r].outcome = toolRequest[r].outcome \/ toolRequest'[r].outcome = "failure",
         toolRequest'[r].at \in {"Idle", "Saved", "Call", "Fetching"} =>
           /\ toolRequest[r].at \in {"Idle", "Saved", "Call", "Fetching"}
           /\ toolRequest'[r].outcome = toolRequest[r].outcome,
         HasStatus(r, "EXECUTING") => toolRequest'[r].at \in {"Fetching", "Dead", "Unwritten"}
  PROVE  ToolInv'
<1>1. \A q \in ToolRequests, s \in CallStatuses : HasStatus(q, s)' <=> HasStatus(q, s)
  BY DEF HasStatus
<1>2. OutcomesHaveCalls'
  BY <1>1 DEF ToolInv, OutcomesHaveCalls, CallStatuses
<1>3. ReadyToolsWereTested'
  BY <1>1 DEF ToolInv, ReadyToolsWereTested, CallStatuses, ToolRequests
<1>4. NoCallIsForgotten'
  BY <1>1 DEF ToolInv, NoCallIsForgotten, CallStatuses
<1> QED BY <1>2, <1>3, <1>4 DEF ToolInv

\* What happens to the tool while no call is answered and no request moves.
LEMMA ToolRowStep ==
  ASSUME ToolInv, ToolTypeOK', UNCHANGED <<invocation, toolRequest>>,
         ToolExists' => ToolExists, IsReady' => IsReady
  PROVE  ToolInv'
<1>1. \A q \in ToolRequests, s \in CallStatuses : HasStatus(q, s)' <=> HasStatus(q, s)
  BY DEF HasStatus
<1> QED BY <1>1 DEF ToolInv, OutcomesHaveCalls, ReadyToolsWereTested, NoCallIsForgotten,
                    CallStatuses, ToolRequests

\* A call gets its row or its answer.
LEMMA ToolCallStep ==
  ASSUME ToolInv, ToolTypeOK', NEW r \in ToolRequests,
         callBegins(r) \/ callCompletes(r) \/ callFails(r)
  PROVE  ToolInv'
<1>1. /\ toolRequest[r].at \in {"Call", "Fetching"}
      /\ toolRequest[r].outcome = "none"
      /\ tool' = tool
      /\ \A q \in ToolRequests : q # r => /\ toolRequest'[q] = toolRequest[q]
                                         /\ invocation'[q] = invocation[q]
  BY DEF callBegins, callCompletes, callFails, Returns, Moves, ToolInv, ToolTypeOK,
         OutcomesHaveCalls
<1>2. invocation'[r] \in CallRows /\ invocation'[r] # NoCall
      /\ \/ /\ invocation'[r].status \in {"CLARIFICATION_REQUIRED", "FAILED"}
            /\ toolRequest'[r].outcome \in {"clarification", "failure"}
            /\ toolRequest'[r].at \in {"Tested", "Done"}
         \/ /\ invocation'[r].status = "EXECUTING" /\ toolRequest'[r].at = "Fetching"
            /\ toolRequest'[r].outcome = "none" /\ toolRequest[r].at = "Call"
         \/ /\ invocation'[r].status = "COMPLETED" /\ toolRequest'[r].outcome = "ok"
            /\ toolRequest'[r].at \in {"Tested", "Done"}
  <2> USE ToolAssumption DEF ToolInv, ToolTypeOK, RequestRecords
  <2>1. CASE callBegins(r)
    <3>1. tool \in ToolRows
      BY <2>1 DEF callBegins, Callable, ToolExists
    <3>2. /\ [contract |-> tool.contract, status |-> "CLARIFICATION_REQUIRED"] \in CallRows
          /\ [contract |-> tool.contract, status |-> "EXECUTING"] \in CallRows
      BY <3>1 DEF ToolRows, CallRows, CallStatuses
    <3> QED BY <1>1, <2>1, <3>2 DEF callBegins, Returns, Moves
  <2>2. CASE callCompletes(r)
    <3>1. invocation[r] \in CallRows
      BY <2>2 DEF callCompletes
    <3>2. [invocation[r] EXCEPT !.status = "COMPLETED"] \in CallRows
          /\ [invocation[r] EXCEPT !.status = "COMPLETED"].status = "COMPLETED"
      BY <3>1 DEF CallRows, CallStatuses
    <3>3. invocation'[r] = [invocation[r] EXCEPT !.status = "COMPLETED"]
      BY <2>2 DEF callCompletes
    <3> QED BY <2>2, <3>2, <3>3 DEF callCompletes, Returns
  <2>3. CASE callFails(r)
    <3>1. invocation[r] \in CallRows
      BY <2>3 DEF callFails
    <3>2. [invocation[r] EXCEPT !.status = "FAILED"] \in CallRows
          /\ [invocation[r] EXCEPT !.status = "FAILED"].status = "FAILED"
      BY <3>1 DEF CallRows, CallStatuses
    <3>3. invocation'[r] = [invocation[r] EXCEPT !.status = "FAILED"]
      <4>1. invocation' = [invocation EXCEPT ![r].status = "FAILED"]
        BY <2>3 DEF callFails, FailedStatus
      <4> QED BY <4>1
    <3>4. /\ toolRequest'[r].outcome = "failure"
          /\ toolRequest'[r].at \in {"Tested", "Done"}
      BY <2>3 DEF callFails, Returns
    <3>5. invocation'[r] \in CallRows /\ invocation'[r] # NoCall
          /\ invocation'[r].status = "FAILED"
      BY <3>2, <3>3
    <3> QED BY <3>4, <3>5
  <2> QED BY <2>1, <2>2, <2>3
<1>3. /\ \A q \in ToolRequests, s \in CallStatuses :
           q # r => (HasStatus(q, s)' <=> HasStatus(q, s))
      /\ \A s \in CallStatuses : HasStatus(r, s)' <=> invocation'[r].status = s
  BY <1>1, <1>2 DEF HasStatus
<1>4. OutcomesHaveCalls'
  BY <1>1, <1>2, <1>3 DEF ToolInv, OutcomesHaveCalls, CallStatuses, ToolExists
<1>5. ReadyToolsWereTested'
  <2>1. ~HasStatus(r, "COMPLETED")
    BY <1>1 DEF ToolInv, OutcomesHaveCalls
  <2> QED BY <1>1, <1>3, <2>1 DEF ToolInv, ReadyToolsWereTested, IsReady, ToolExists,
                                  CallStatuses, ToolRequests
<1>6. NoCallIsForgotten'
  BY <1>1, <1>2, <1>3 DEF ToolInv, NoCallIsForgotten, CallStatuses
<1> QED BY <1>4, <1>5, <1>6 DEF ToolInv

LEMMA ToolTypeStep == ToolTypeOK /\ [ToolNext]_toolVars => ToolTypeOK'
<1> SUFFICES ASSUME ToolTypeOK, [ToolNext]_toolVars PROVE ToolTypeOK'
  OBVIOUS
<1> USE ToolAssumption
<1>1. \A r \in ToolRequests : toolRequest[r] \in RequestRecords
  BY DEF ToolTypeOK, RequestRecords
<1>2. ASSUME NEW a \in Administrators, NEW c \in Contracts, NEW enabled \in BOOLEAN,
             saveLegacyApi(a, c, enabled)
      PROVE  ToolTypeOK'
  <2>1. tool \in ToolRows /\ a \in ToolRequests
    BY <1>2 DEF saveLegacyApi, ToolExists, ToolTypeOK, ToolRequests
  <2>2. [tool EXCEPT !.contract = c, !.enabled = enabled] \in ToolRows
    BY <2>1 DEF ToolRows
  <2>3. toolRequest' \in [ToolRequests -> RequestRecords]
    <3>1. [toolRequest[a] EXCEPT !.at = "Saved", !.enabled = enabled] \in RequestRecords
      BY <1>1, <2>1 DEF RequestRecords
    <3>2. toolRequest' = [toolRequest EXCEPT ![a] =
                            [toolRequest[a] EXCEPT !.at = "Saved", !.enabled = enabled]]
      BY <1>2, <2>1 DEF saveLegacyApi, ToolTypeOK
    <3> QED BY <3>1, <3>2 DEF ToolTypeOK, RequestRecords
  <2> QED BY <1>2, <2>2, <2>3 DEF saveLegacyApi, ToolTypeOK, RequestRecords
<1>3. ASSUME NEW enabled \in BOOLEAN, assign(enabled)
      PROVE  tool' \in ToolRows
  <2>1. tool \in ToolRows
    BY <1>3 DEF assign, ToolExists, ToolTypeOK
  <2>2. AssignedStatus(enabled) \in SourceStatuses
    BY <2>1 DEF AssignedStatus, ToolRows, SourceStatuses
  <2> QED BY <1>3, <2>1, <2>2 DEF assign, ToolRows
<1>4. ASSUME NEW r \in ToolRequests, NEW to \in {"Call", "Done", "Fetching", "Dead", "Unwritten"},
             Moves(r, to)
      PROVE  toolRequest' \in [ToolRequests -> RequestRecords]
  BY <1>1, <1>4 DEF Moves, ToolTypeOK, RequestRecords
<1>5. ASSUME NEW r \in ToolRequests, NEW outcome \in {"ok", "clarification", "failure"},
             Returns(r, outcome)
      PROVE  toolRequest' \in [ToolRequests -> RequestRecords]
  <2>1. PICK to \in {"Tested", "Done"} :
          toolRequest' = [toolRequest EXCEPT ![r].at = to, ![r].outcome = outcome]
    BY <1>5 DEF Returns
  <2>2. [toolRequest[r] EXCEPT !.at = to, !.outcome = outcome] \in RequestRecords
    BY <1>1 DEF RequestRecords
  <2>3. toolRequest' = [toolRequest EXCEPT ![r] =
                          [toolRequest[r] EXCEPT !.at = to, !.outcome = outcome]]
    BY <2>1 DEF ToolTypeOK
  <2> QED BY <2>2, <2>3 DEF ToolTypeOK, RequestRecords
<1>6. ASSUME NEW a \in Administrators, assignAfterSave(a) PROVE ToolTypeOK'
  <2>1. toolRequest[a].enabled \in BOOLEAN /\ a \in ToolRequests
    BY <1>1 DEF RequestRecords, ToolRequests
  <2> QED BY <1>3, <1>4, <1>6, <2>1 DEF assignAfterSave, ToolTypeOK, RequestRecords
<1>7. ASSUME NEW enabled \in BOOLEAN, updateSourceAssignment(enabled) PROVE ToolTypeOK'
  BY <1>3, <1>7 DEF updateSourceAssignment, ToolTypeOK
<1>8. ASSUME NEW a \in Administrators, testLegacyApi(a) PROVE ToolTypeOK'
  BY <1>4, <1>8 DEF testLegacyApi, ToolTypeOK, RequestRecords, ToolRequests
<1>9. ASSUME NEW a \in Administrators, testStores(a) PROVE ToolTypeOK'
  <2>1. tool \in ToolRows
    BY <1>9 DEF testStores, ToolExists, ToolTypeOK
  <2>2. tool' \in ToolRows
    BY <1>9, <2>1 DEF testStores, ToolRows, SourceStatuses
  <2> QED BY <1>4, <1>9, <2>2 DEF testStores, ToolTypeOK, RequestRecords, ToolRequests
<1>10. ASSUME NEW h \in Chats, planLegacyApiToolCall(h) PROVE ToolTypeOK'
  BY <1>4, <1>10 DEF planLegacyApiToolCall, ToolTypeOK, RequestRecords, ToolRequests
<1>11. ASSUME NEW r \in ToolRequests, callRefused(r) \/ callRaises(r) PROVE ToolTypeOK'
  BY <1>4, <1>5, <1>11 DEF callRefused, callRaises, ToolTypeOK, RequestRecords
<1>12. ASSUME NEW r \in ToolRequests, callBegins(r) PROVE ToolTypeOK'
  <2>1. tool \in ToolRows
    BY <1>12 DEF callBegins, Callable, ToolExists, ToolTypeOK
  <2>2. \A s \in CallStatuses : [contract |-> tool.contract, status |-> s] \in CallRows
    BY <2>1 DEF ToolRows, CallRows
  <2>3. invocation' \in [ToolRequests -> CallRows \cup {NoCall}]
    BY <1>12, <2>2 DEF callBegins, ToolTypeOK, CallStatuses
  <2> QED BY <1>4, <1>5, <1>12, <2>3 DEF callBegins, ToolTypeOK, RequestRecords
<1>13. ASSUME NEW r \in ToolRequests, callCompletes(r) \/ callFails(r) PROVE ToolTypeOK'
  <2>1. invocation[r] \in CallRows
    BY <1>13 DEF callCompletes, callFails, ToolTypeOK
  <2>2. \A s \in CallStatuses : [invocation[r] EXCEPT !.status = s] \in CallRows
    BY <2>1 DEF CallRows
  <2>3. \E s \in CallStatuses :
          invocation' = [invocation EXCEPT ![r] = [invocation[r] EXCEPT !.status = s]]
    BY <1>13 DEF callCompletes, callFails, FailedStatus, CallStatuses, ToolTypeOK
  <2>4. invocation' \in [ToolRequests -> CallRows \cup {NoCall}]
    BY <2>2, <2>3 DEF ToolTypeOK
  <2> QED BY <1>5, <1>13, <2>4 DEF callCompletes, callFails, ToolTypeOK, RequestRecords
<1>14. ASSUME NEW r \in ToolRequests, requestDies(r) \/ failureIsLost(r)
      PROVE  ToolTypeOK'
  BY <1>4, <1>14 DEF requestDies, failureIsLost, ToolTypeOK, RequestRecords
<1>15. CASE deleteLegacyApi
  BY <1>15 DEF deleteLegacyApi, ToolTypeOK
<1>16. CASE UNCHANGED toolVars
  BY <1>16 DEF toolVars, ToolTypeOK
<1> QED BY <1>2, <1>6, <1>7, <1>8, <1>9, <1>10, <1>11, <1>12, <1>13, <1>14, <1>15, <1>16
           DEF ToolNext

LEMMA ToolStep == ToolInv /\ [ToolNext]_toolVars => ToolInv'
<1> SUFFICES ASSUME ToolInv, [ToolNext]_toolVars PROVE ToolInv'
  OBVIOUS
<1>1. ToolTypeOK' /\ ToolTypeOK
  BY ToolTypeStep DEF ToolInv
<1>2. toolRequest \in [ToolRequests -> RequestRecords]
  BY <1>1 DEF ToolTypeOK, RequestRecords
<1>3. \A r \in ToolRequests :
        HasStatus(r, "EXECUTING") => toolRequest[r].at \in {"Fetching", "Dead", "Unwritten"}
  BY DEF ToolInv, NoCallIsForgotten
<1>4. ASSUME NEW a \in Administrators, NEW c \in Contracts, NEW enabled \in BOOLEAN,
             saveLegacyApi(a, c, enabled)
      PROVE  ToolInv'
  <2>1. a \in ToolRequests /\ tool \in ToolRows
    BY <1>1, <1>4 DEF saveLegacyApi, ToolExists, ToolRequests, ToolTypeOK
  <2>2. /\ toolRequest[a].at = "Idle" /\ toolRequest'[a].at = "Saved"
        /\ toolRequest'[a].outcome = toolRequest[a].outcome
        /\ \A q \in ToolRequests : q # a => toolRequest'[q] = toolRequest[q]
        /\ invocation' = invocation /\ ToolExists
    BY <1>2, <1>4, <2>1 DEF saveLegacyApi, RequestRecords
  <2>3. IsReady' => IsReady
    BY <1>4, <2>1 DEF saveLegacyApi, IsReady, ToolExists, ToolRows
  <2> QED BY <1>1, <1>3, <2>1, <2>2, <2>3, ToolQuietStep
<1>5. ASSUME NEW enabled \in BOOLEAN, assign(enabled) PROVE ToolExists /\ (IsReady' => IsReady)
  <2>1. tool \in ToolRows /\ ToolExists
    BY <1>1, <1>5 DEF assign, ToolExists, ToolTypeOK
  <2>2. tool' = [tool EXCEPT !.enabled = enabled, !.sourceStatus = AssignedStatus(enabled)]
    BY <1>5 DEF assign
  <2>3. tool'.sourceStatus = AssignedStatus(enabled)
    BY <2>1, <2>2 DEF ToolRows
  <2> QED BY <2>1, <2>3 DEF IsReady, ToolExists, AssignedStatus
<1>6. ASSUME NEW a \in Administrators, assignAfterSave(a) PROVE ToolInv'
  <2>1. a \in ToolRequests /\ toolRequest[a].enabled \in BOOLEAN
    BY <1>2 DEF ToolRequests, RequestRecords
  <2>2. /\ toolRequest[a].at = "Saved" /\ toolRequest'[a].at = "Call"
        /\ toolRequest'[a].outcome = toolRequest[a].outcome
        /\ \A q \in ToolRequests : q # a => toolRequest'[q] = toolRequest[q]
        /\ invocation' = invocation
    BY <1>2, <1>6, <2>1 DEF assignAfterSave, Moves, RequestRecords
  <2>3. ToolExists /\ (IsReady' => IsReady)
    BY <1>5, <1>6, <2>1 DEF assignAfterSave
  <2> QED BY <1>1, <1>3, <2>1, <2>2, <2>3, ToolQuietStep
<1>7. ASSUME NEW enabled \in BOOLEAN, updateSourceAssignment(enabled) PROVE ToolInv'
  BY <1>1, <1>5, <1>7, ToolRowStep DEF updateSourceAssignment
<1>8. ASSUME NEW r \in ToolRequests,
             \/ r \in Administrators /\ testLegacyApi(r)
             \/ r \in Chats /\ planLegacyApiToolCall(r)
             \/ callRefused(r) \/ callRaises(r) \/ requestDies(r) \/ failureIsLost(r)
      PROVE  ToolInv'
  <2>1. /\ tool' = tool /\ invocation' = invocation
        /\ \A q \in ToolRequests : q # r => toolRequest'[q] = toolRequest[q]
        /\ toolRequest'[r].outcome = toolRequest[r].outcome \/ toolRequest'[r].outcome = "failure"
        /\ \/ toolRequest[r].at = "Idle" /\ toolRequest'[r].at = "Call"
              /\ toolRequest'[r].outcome = toolRequest[r].outcome
           \/ toolRequest[r].at = "Call" /\ toolRequest'[r].at \in {"Tested", "Done"}
           \/ invocation[r] = NoCall /\ toolRequest'[r].at = "Done"
           \/ toolRequest'[r].at \in {"Dead", "Unwritten"}
    BY <1>2, <1>8 DEF testLegacyApi, planLegacyApiToolCall, callRefused, callRaises, requestDies,
                      failureIsLost, Moves, Returns, RequestRecords
  <2>2. /\ ToolExists' <=> ToolExists
        /\ IsReady' <=> IsReady
        /\ invocation[r] = NoCall => ~HasStatus(r, "EXECUTING")
    BY <2>1 DEF ToolExists, IsReady, HasStatus
  <2> QED BY <1>1, <1>3, <2>1, <2>2, ToolQuietStep
<1>9. ASSUME NEW a \in Administrators, testStores(a) PROVE ToolInv'
  <2>1. a \in ToolRequests /\ tool \in ToolRows /\ ToolExists
    BY <1>1, <1>9 DEF testStores, ToolExists, ToolRequests, ToolTypeOK
  <2>2. /\ toolRequest[a].at = "Tested" /\ toolRequest'[a].at = "Done"
        /\ toolRequest'[a].outcome = toolRequest[a].outcome
        /\ \A q \in ToolRequests : q # a => toolRequest'[q] = toolRequest[q]
        /\ invocation' = invocation
    BY <1>2, <1>9, <2>1 DEF testStores, Moves, RequestRecords
  <2>3. IsReady' => toolRequest[a].outcome = "ok"
    BY <1>9, <2>1 DEF testStores, IsReady, TestPassed, ToolRows
  <2>4. IsReady' => HasStatus(a, "COMPLETED")
    BY <2>1, <2>3 DEF ToolInv, OutcomesHaveCalls
  <2> QED BY <1>1, <1>3, <2>1, <2>2, <2>4, ToolQuietStep
<1>10. CASE deleteLegacyApi
  <2>1. /\ ~ToolExists' /\ ~IsReady' /\ toolRequest' = toolRequest
        /\ \A r \in ToolRequests, s \in CallStatuses : ~HasStatus(r, s)'
    BY <1>10 DEF deleteLegacyApi, ToolExists, IsReady, HasStatus
  <2> QED BY <1>1, <2>1 DEF ToolInv, OutcomesHaveCalls, ReadyToolsWereTested, NoCallIsForgotten,
                            CallStatuses
<1>11. CASE UNCHANGED toolVars
  BY <1>1, <1>11, ToolRowStep DEF toolVars, ToolExists, IsReady
<1> QED BY <1>1, <1>4, <1>6, <1>7, <1>8, <1>9, <1>10, <1>11, ToolCallStep
           DEF ToolNext, ToolRequests

LEMMA ToolInvariant == ToolSpec => []ToolInv
<1>1. ToolInit => ToolInv
  <2> SUFFICES ASSUME ToolInit PROVE ToolInv
    OBVIOUS
  <2>1. tool \in ToolRows /\ ~IsReady
    BY DEF ToolInit, ToolRows, SourceStatuses, IsReady
  <2>2. Unused \in RequestRecords
    BY DEF Unused, RequestRecords
  <2>3. ToolTypeOK
    BY <2>1, <2>2, ToolAssumption DEF ToolInit, ToolTypeOK, RequestRecords
  <2>4. \A r \in ToolRequests : /\ toolRequest[r].outcome = "none"
                                /\ \A s \in CallStatuses : ~HasStatus(r, s)
    BY DEF ToolInit, Unused, HasStatus
  <2> QED BY <2>1, <2>3, <2>4 DEF ToolInv, OutcomesHaveCalls, ReadyToolsWereTested,
                                  NoCallIsForgotten, CallStatuses
<1> QED BY <1>1, ToolStep, PTL DEF ToolSpec

\* However saves, assignments, tests and calls overlap, a tool that chats may plan has a
\* completed test call behind it.
THEOREM ReadyToolsHavePassed == ToolSpec => []ReadyToolsWereTested
<1>1. ToolInv => ReadyToolsWereTested
  BY DEF ToolInv
<1> QED BY <1>1, ToolInvariant, PTL

\* A call whose request is over is in no status of one that is still made, unless its process
\* died or its failure could not be written.
THEOREM CallsAreNotForgotten == ToolSpec => []NoCallIsForgotten
<1>1. ToolInv => NoCallIsForgotten
  BY DEF ToolInv
<1> QED BY <1>1, ToolInvariant, PTL

-----------------------------------------------------------------------------
(* BusinessInsight.  While nothing was lost, whoever works holds the       *)
(* message of the queue, so one attempt concludes, and it is the last; the *)
(* queue has the message as long as the row says PROCESSING.               *)

InsightRows == [status: {"PROCESSING", "FAILED"} \cup Concluded, result: Results]
Deliveries == [state: {"NONE", "WAITING", "ACTIVE", "COMPLETED", "FAILED"},
               attempts: 0..InsightAttempts, worker: InsightWorkers \cup {NoResult}]
Analysts == [phase: {"Idle", "Start", "Conversations", "Store", "Failing"},
             read: SUBSET Conversations, count: MessageCounts]

InsightTypes ==
  /\ messageCount \in [Conversations -> 0..MaxMessages]
  /\ requester \in {"Start", "Enqueue", "Audit", "Failing", "Done"}
  /\ insight \in InsightRows
  /\ snapshot \in Results \cup {NoResult}
  /\ delivery \in Deliveries
  /\ analyst \in [InsightWorkers -> Analysts]
  /\ mishaps \in 0..MaxMishaps

DeliveryFits ==
  /\ delivery.worker # NoResult <=> delivery.state = "ACTIVE"
  /\ delivery.state = "ACTIVE" => delivery.attempts >= 1
  /\ delivery.state = "WAITING" => delivery.attempts < InsightAttempts
  /\ requester \in {"Start", "Enqueue"} => delivery.state = "NONE"
  /\ delivery.state = "NONE" => delivery.attempts = 0

AnalystsHoldTheMessage ==
  mishaps = 0 => \A w \in InsightWorkers : analyst[w].phase # "Idle" => delivery.worker = w

SnapshotFits ==
  /\ insight.status \in Concluded => snapshot # NoResult
  /\ snapshot # NoResult /\ mishaps = 0 =>
       delivery.state = "COMPLETED" /\ insight.result = snapshot

QueueHasTheMessage ==
  mishaps = 0 /\ insight.status = "PROCESSING" /\ requester \in {"Audit", "Done"} =>
    delivery.state \in {"WAITING", "ACTIVE"}

InsightInv == /\ InsightTypes /\ DeliveryFits /\ AnalystsHoldTheMessage
              /\ SnapshotFits /\ QueueHasTheMessage

\* A count of messages is one of those there can be.
LEMMA MessagesAreCounted ==
  ASSUME InsightTypes, NEW read \in SUBSET Conversations
  PROVE  Cardinality(MessagesOf(read)) \in MessageCounts
<1> USE InsightAssumption
<1> DEFINE all == Conversations \X (1..MaxMessages)
<1>1. IsFiniteSet(1..MaxMessages) /\ Cardinality(1..MaxMessages) = MaxMessages
  <2>1. 1 \in Int /\ MaxMessages \in Int
    OBVIOUS
  <2>2. MaxMessages - 1 + 1 = MaxMessages /\ (1 > MaxMessages => MaxMessages = 0)
    OBVIOUS
  <2> QED BY <2>1, <2>2, FS_Interval
<1>2. /\ IsFiniteSet(all)
      /\ Cardinality(all) = Cardinality(Conversations) * MaxMessages
  BY <1>1, FS_Product
<1>3. Cardinality(Conversations) \in Nat
  BY FS_CardinalityType
<1>4. Cardinality(Conversations) * MaxMessages = MaxMessages * Cardinality(Conversations)
  BY <1>3
<1>5. MessagesOf(read) \in SUBSET all
  BY DEF MessagesOf
<1>6. /\ IsFiniteSet(MessagesOf(read))
      /\ Cardinality(MessagesOf(read)) <= Cardinality(all)
  BY <1>2, <1>5, FS_Subset
<1>7. Cardinality(MessagesOf(read)) \in Nat
  BY <1>6, FS_CardinalityType
<1>8. Cardinality(MessagesOf(read)) <= MaxMessages * Cardinality(Conversations)
  BY <1>2, <1>4, <1>6
<1> QED BY <1>3, <1>7, <1>8 DEF MessageCounts

LEMMA ResultsAreResults ==
  ASSUME InsightTypes, NEW w \in InsightWorkers
  PROVE  /\ Result(w) \in Results
         /\ StoredSnapshot(Result(w)) \in Results
         /\ NoResult \notin Results
<1> USE InsightAssumption
<1>1. analyst[w] \in Analysts
  BY DEF InsightTypes
<1>2. /\ IsFiniteSet(analyst[w].read) /\ Cardinality(analyst[w].read) \in Nat
      /\ Cardinality(Conversations) \in Nat
      /\ Cardinality(analyst[w].read) <= Cardinality(Conversations)
  BY <1>1, FS_Subset, FS_CardinalityType DEF Analysts
<1>3. Cardinality(analyst[w].read) \in 0..Cardinality(Conversations)
  BY <1>2
<1>4. Result(w) \in Results
  BY <1>1, <1>3 DEF Result, Results, Analysts
<1>5. Results \subseteq [conversations: Nat, messages: Nat]
  <2>1. 0..Cardinality(Conversations) \subseteq Nat /\ MessageCounts \subseteq Nat
    BY <1>2 DEF MessageCounts
  <2> QED BY <2>1 DEF Results
<1> QED BY <1>4, <1>5 DEF StoredSnapshot, InsightTypes

LEMMA NothingReadIsAnalyst ==
  \A phase \in {"Idle", "Start", "Failing"} : [NothingRead EXCEPT !.phase = phase] \in Analysts
<1>1. 0 \in MessageCounts
  <2>1. MaxMessages * Cardinality(Conversations) \in Nat
    BY InsightAssumption, FS_CardinalityType
  <2> QED BY <2>1 DEF MessageCounts
<1> QED BY <1>1 DEF NothingRead, Analysts

\* What a worker's report makes of the message.
LEMMA ReportFits ==
  ASSUME InsightInv, NEW w \in InsightWorkers,
         NEW state \in {"COMPLETED", "WAITING", "FAILED"},
         state = "WAITING" => delivery.attempts < InsightAttempts,
         Report(w, state), UNCHANGED requester
  PROVE  /\ delivery' \in Deliveries /\ DeliveryFits'
         /\ delivery.worker = w => delivery'.state = state /\ delivery'.worker = NoResult
         /\ delivery.worker # w => delivery' = delivery
<1>1. delivery \in Deliveries
  BY DEF InsightInv, InsightTypes
<1>2. CASE delivery.worker = w
  <2>1. delivery' = [delivery EXCEPT !.state = state, !.worker = NoResult]
    BY <1>2 DEF Report
  <2>2. /\ delivery' \in Deliveries /\ delivery'.state = state /\ delivery'.worker = NoResult
        /\ delivery'.attempts = delivery.attempts
    BY <1>1, <2>1 DEF Deliveries
  <2>3. w # NoResult
    BY InsightAssumption
  <2> QED BY <1>2, <2>2, <2>3 DEF InsightInv, DeliveryFits
<1>3. CASE delivery.worker # w
  BY <1>1, <1>3 DEF Report, InsightInv, DeliveryFits
<1> QED BY <1>2, <1>3

\* The request and the chat.
LEMMA InsightRequestStep ==
  ASSUME InsightInv,
         \/ \E c \in Conversations : sendMessage(c) \/ dropConversation(c)
         \/ createRow \/ enqueue \/ audit \/ requestFails \/ markUnavailable \/ requesterDies
         \/ UNCHANGED insightVars
  PROVE  InsightInv'
<1> USE InsightAssumption
<1>1. InsightTypes /\ delivery \in Deliveries /\ insight \in InsightRows
  BY DEF InsightInv, InsightTypes
<1>2. ASSUME NEW c \in Conversations, sendMessage(c) \/ dropConversation(c) PROVE InsightInv'
  <2>1. messageCount' \in [Conversations -> 0..MaxMessages]
    BY <1>1, <1>2 DEF sendMessage, dropConversation, InsightTypes
  <2> QED BY <1>2, <2>1
             DEF sendMessage, dropConversation, InsightInv, InsightTypes, DeliveryFits,
                 AnalystsHoldTheMessage, SnapshotFits, QueueHasTheMessage
<1>3. CASE createRow \/ audit \/ requestFails
  BY <1>3 DEF createRow, audit, requestFails, Request, InsightInv, InsightTypes, DeliveryFits,
              AnalystsHoldTheMessage, SnapshotFits, QueueHasTheMessage
<1>4. CASE enqueue
  <2>1. /\ delivery.state = "NONE" /\ delivery.attempts = 0 /\ delivery.worker = NoResult
        /\ requester' = "Audit" /\ delivery' = [delivery EXCEPT !.state = "WAITING"]
    BY <1>4 DEF enqueue, Request, InsightInv, DeliveryFits
  <2>2. /\ delivery' \in Deliveries /\ delivery'.state = "WAITING" /\ delivery'.attempts = 0
        /\ delivery'.worker = NoResult
    BY <1>1, <2>1 DEF Deliveries
  <2>3. 0 < InsightAttempts
    OBVIOUS
  <2> QED BY <1>4, <2>1, <2>2, <2>3
             DEF enqueue, InsightInv, InsightTypes, DeliveryFits, AnalystsHoldTheMessage,
                 SnapshotFits, QueueHasTheMessage
<1>5. CASE markUnavailable
  <2>1. /\ insight' \in InsightRows /\ insight'.status = "FAILED"
        /\ insight'.result = insight.result
    BY <1>1, <1>5 DEF markUnavailable, InsightRows
  <2> QED BY <1>5, <2>1
             DEF markUnavailable, Request, InsightInv, InsightTypes, DeliveryFits,
                 AnalystsHoldTheMessage, SnapshotFits, QueueHasTheMessage, Concluded
<1>6. CASE requesterDies
  <2>1. mishaps' \in 0..MaxMishaps /\ mishaps' # 0
    BY <1>1, <1>6 DEF requesterDies, InsightTypes
  <2> QED BY <1>6, <2>1
             DEF requesterDies, InsightInv, InsightTypes, DeliveryFits, AnalystsHoldTheMessage,
                 SnapshotFits, QueueHasTheMessage
<1>7. CASE UNCHANGED insightVars
  BY <1>7 DEF insightVars, InsightInv, InsightTypes, DeliveryFits, AnalystsHoldTheMessage,
              SnapshotFits, QueueHasTheMessage
<1> QED BY <1>2, <1>3, <1>4, <1>5, <1>6, <1>7

\* A worker starts, reads, or gives up before it has stored anything.
LEMMA InsightReadStep ==
  ASSUME InsightInv, NEW w \in InsightWorkers,
         take(w) \/ readConversations(w) \/ readMessages(w) \/ insightFails(w)
  PROVE  InsightInv'
<1> USE InsightAssumption
<1>1. InsightTypes /\ delivery \in Deliveries /\ analyst \in [InsightWorkers -> Analysts]
  BY DEF InsightInv, InsightTypes
<1>2. CASE take(w)
  <2>1. delivery.state = "WAITING" /\ delivery.worker = NoResult
        /\ delivery.attempts < InsightAttempts /\ delivery.attempts \in Nat
    BY <1>1, <1>2 DEF take, InsightInv, DeliveryFits, Deliveries
  <2>2. delivery' = [state |-> "ACTIVE", attempts |-> delivery.attempts + 1, worker |-> w]
    BY <1>2 DEF take
  <2>3. delivery.attempts + 1 \in 0..InsightAttempts /\ delivery.attempts + 1 >= 1
    BY <2>1
  <2>4. /\ delivery' \in Deliveries /\ delivery'.state = "ACTIVE" /\ delivery'.worker = w
        /\ delivery'.attempts >= 1 /\ w # NoResult
    BY <2>2, <2>3 DEF Deliveries
  <2>5. analyst' \in [InsightWorkers -> Analysts]
    BY <1>1, <1>2, NothingReadIsAnalyst DEF take
  <2>6. \A v \in InsightWorkers : v # w => analyst'[v] = analyst[v]
    BY <1>1, <1>2 DEF take
  <2>7. mishaps = 0 => \A v \in InsightWorkers : analyst[v].phase = "Idle"
    BY <2>1 DEF InsightInv, AnalystsHoldTheMessage
  <2>8. AnalystsHoldTheMessage'
    BY <1>2, <2>4, <2>6, <2>7 DEF AnalystsHoldTheMessage, take
  <2> QED BY <1>2, <2>1, <2>4, <2>5, <2>8
             DEF take, InsightInv, InsightTypes, DeliveryFits, SnapshotFits, QueueHasTheMessage
<1>3. ASSUME readConversations(w) \/ readMessages(w) \/ insightFails(w) PROVE InsightInv'
  <2>1. analyst' \in [InsightWorkers -> Analysts]
    <3>1. CASE readConversations(w)
      <4>1. PICK read \in SUBSET Conversations :
              analyst' = [analyst EXCEPT ![w].phase = "Conversations", ![w].read = read]
        BY <3>1 DEF readConversations
      <4>2. [analyst[w] EXCEPT !.phase = "Conversations", !.read = read] \in Analysts
        BY <1>1 DEF Analysts
      <4>3. analyst' = [analyst EXCEPT ![w] =
                          [analyst[w] EXCEPT !.phase = "Conversations", !.read = read]]
        BY <1>1, <4>1
      <4> QED BY <1>1, <4>2, <4>3
    <3>2. CASE readMessages(w)
      <4>1. PICK n \in MessageCounts :
              analyst' = [analyst EXCEPT ![w].phase = "Store", ![w].count = n]
        <5>1. analyst[w].read \in SUBSET Conversations
          BY <1>1 DEF Analysts
        <5> QED BY <1>1, <3>2, <5>1, MessagesAreCounted DEF readMessages
      <4>2. [analyst[w] EXCEPT !.phase = "Store", !.count = n] \in Analysts
        BY <1>1 DEF Analysts
      <4>3. analyst' = [analyst EXCEPT ![w] =
                          [analyst[w] EXCEPT !.phase = "Store", !.count = n]]
        BY <1>1, <4>1
      <4> QED BY <1>1, <4>2, <4>3
    <3>3. CASE insightFails(w)
      BY <1>1, <3>3, NothingReadIsAnalyst DEF insightFails, ToFailing
    <3> QED BY <1>3, <3>1, <3>2, <3>3
  <2>2. /\ analyst[w].phase # "Idle"
        /\ \A v \in InsightWorkers : v # w => analyst'[v] = analyst[v]
        /\ UNCHANGED <<requester, insight, snapshot, delivery, messageCount, mishaps>>
    BY <1>1, <1>3 DEF readConversations, readMessages, insightFails, ToFailing, LeftByFailure
  <2>3. AnalystsHoldTheMessage'
    BY <2>2 DEF InsightInv, AnalystsHoldTheMessage
  <2> QED BY <2>1, <2>2, <2>3
             DEF InsightInv, InsightTypes, DeliveryFits, SnapshotFits, QueueHasTheMessage
<1> QED BY <1>2, <1>3

\* A worker concludes or reports a failure, or loses its message.
LEMMA InsightEndStep ==
  ASSUME InsightInv, NEW w \in InsightWorkers,
         \/ commitInsight(w) \/ commitAnswerIsLost(w) \/ writeFailure(w) \/ writeFailureFails(w)
         \/ stall(w)
  PROVE  InsightInv'
<1> USE InsightAssumption
<1>1. /\ InsightTypes /\ delivery \in Deliveries /\ analyst \in [InsightWorkers -> Analysts]
      /\ insight \in InsightRows /\ mishaps \in 0..MaxMishaps
  BY DEF InsightInv, InsightTypes
<1>2. NothingRead \in Analysts /\ NothingRead.phase = "Idle"
  BY NothingReadIsAnalyst DEF NothingRead
<1>3. AfterFailure \in {"WAITING", "FAILED"}
      /\ (AfterFailure = "WAITING" => delivery.attempts < InsightAttempts)
  BY DEF AfterFailure
<1>4. ASSUME Store(w)
      PROVE  /\ insight' \in InsightRows /\ insight'.status \in Concluded
             /\ insight'.result = Result(w) /\ snapshot' \in Results /\ snapshot' # NoResult
             /\ snapshot = NoResult => snapshot' = Result(w)
  BY <1>1, <1>4, ResultsAreResults
     DEF Store, Concluding, StoredSnapshot, InsightRows, Concluded
<1>5. CASE commitInsight(w)
  <2>1. /\ delivery' \in Deliveries /\ DeliveryFits'
        /\ delivery.worker = w => delivery'.state = "COMPLETED" /\ delivery'.worker = NoResult
        /\ delivery.worker # w => delivery' = delivery
    BY <1>5, ReportFits DEF commitInsight
  <2>2. /\ analyst' \in [InsightWorkers -> Analysts] /\ analyst'[w].phase = "Idle"
        /\ \A v \in InsightWorkers : v # w => analyst'[v] = analyst[v]
        /\ analyst[w].phase # "Idle" /\ mishaps' = mishaps
    BY <1>1, <1>2, <1>5 DEF commitInsight
  <2>3. mishaps = 0 => /\ delivery.worker = w /\ snapshot = NoResult
                       /\ \A v \in InsightWorkers : v # w => analyst[v].phase = "Idle"
    BY <2>2 DEF InsightInv, AnalystsHoldTheMessage, SnapshotFits, DeliveryFits
  <2>4. AnalystsHoldTheMessage'
    BY <2>2, <2>3 DEF AnalystsHoldTheMessage
  <2>5. SnapshotFits' /\ QueueHasTheMessage'
    BY <1>4, <1>5, <2>1, <2>2, <2>3
       DEF commitInsight, SnapshotFits, QueueHasTheMessage, Concluded
  <2> QED BY <1>4, <1>5, <2>1, <2>2, <2>4, <2>5 DEF commitInsight, InsightInv, InsightTypes
<1>6. CASE commitAnswerIsLost(w)
  <2>1. mishaps' \in 0..MaxMishaps /\ mishaps' # 0
    BY <1>1, <1>6 DEF commitAnswerIsLost
  <2>2. analyst' \in [InsightWorkers -> Analysts]
    BY <1>1, <1>6, NothingReadIsAnalyst DEF commitAnswerIsLost, ToFailing
  <2> QED BY <1>4, <1>6, <2>1, <2>2
             DEF commitAnswerIsLost, InsightInv, InsightTypes, DeliveryFits,
                 AnalystsHoldTheMessage, SnapshotFits, QueueHasTheMessage
<1>7. CASE writeFailure(w)
  <2>1. /\ delivery' \in Deliveries /\ DeliveryFits'
        /\ delivery.worker = w => delivery'.worker = NoResult
        /\ delivery.worker # w => delivery' = delivery
    BY <1>3, <1>7, ReportFits DEF writeFailure
  <2>2. /\ analyst' \in [InsightWorkers -> Analysts] /\ analyst'[w].phase = "Idle"
        /\ \A v \in InsightWorkers : v # w => analyst'[v] = analyst[v]
        /\ analyst[w].phase # "Idle" /\ mishaps' = mishaps
    BY <1>1, <1>2, <1>7 DEF writeFailure
  <2>3. /\ insight' \in InsightRows /\ insight'.status = "FAILED"
    BY <1>1, <1>7 DEF writeFailure, failedStatus, InsightRows
  <2>4. mishaps = 0 => /\ delivery.worker = w /\ snapshot = NoResult
                       /\ \A v \in InsightWorkers : v # w => analyst[v].phase = "Idle"
    BY <2>2 DEF InsightInv, AnalystsHoldTheMessage, SnapshotFits, DeliveryFits
  <2>5. AnalystsHoldTheMessage'
    BY <2>2, <2>4 DEF AnalystsHoldTheMessage
  <2>6. SnapshotFits' /\ QueueHasTheMessage'
    BY <1>7, <2>2, <2>3, <2>4 DEF writeFailure, SnapshotFits, QueueHasTheMessage, Concluded
  <2> QED BY <1>7, <2>1, <2>2, <2>3, <2>5, <2>6 DEF writeFailure, InsightInv, InsightTypes
<1>8. CASE writeFailureFails(w)
  <2>1. delivery' \in Deliveries /\ DeliveryFits'
    BY <1>3, <1>8, ReportFits DEF writeFailureFails
  <2>2. analyst' \in [InsightWorkers -> Analysts]
    BY <1>1, <1>2, <1>8 DEF writeFailureFails
  <2>3. mishaps' \in 0..MaxMishaps /\ mishaps' # 0
    BY <1>1, <1>8 DEF writeFailureFails
  <2> QED BY <1>8, <2>1, <2>2, <2>3
             DEF writeFailureFails, InsightInv, InsightTypes, AnalystsHoldTheMessage,
                 SnapshotFits, QueueHasTheMessage
<1>9. CASE stall(w)
  <2>1. /\ delivery.state = "ACTIVE" /\ delivery.attempts >= 1
        /\ delivery.attempts \in 0..InsightAttempts /\ requester \notin {"Start", "Enqueue"}
    BY <1>1, <1>9 DEF stall, InsightInv, DeliveryFits, Deliveries
  <2>2. /\ delivery' = [delivery EXCEPT !.state = "WAITING", !.attempts = delivery.attempts - 1,
                                        !.worker = NoResult]
    BY <1>9 DEF stall
  <2>3. /\ delivery.attempts - 1 \in 0..InsightAttempts
        /\ delivery.attempts - 1 < InsightAttempts
    BY <2>1
  <2>4. /\ delivery' \in Deliveries /\ delivery'.state = "WAITING"
        /\ delivery'.worker = NoResult /\ delivery'.attempts < InsightAttempts
    BY <1>1, <2>2, <2>3 DEF Deliveries
  <2>5. analyst' \in [InsightWorkers -> Analysts]
    BY <1>1, <1>2, <1>9 DEF stall
  <2>6. mishaps' \in 0..MaxMishaps /\ mishaps' # 0
    BY <1>1, <1>9 DEF stall
  <2> QED BY <1>9, <2>1, <2>4, <2>5, <2>6
             DEF stall, InsightInv, InsightTypes, DeliveryFits, AnalystsHoldTheMessage,
                 SnapshotFits, QueueHasTheMessage
<1> QED BY <1>5, <1>6, <1>7, <1>8, <1>9

LEMMA InsightInvariant == InsightSpec => []InsightInv
<1>1. InsightInit => InsightInv
  <2> SUFFICES ASSUME InsightInit PROVE InsightInv
    OBVIOUS
  <2>1. /\ Cardinality(Conversations) \in Nat
        /\ MaxMessages * Cardinality(Conversations) \in Nat
    BY InsightAssumption, FS_CardinalityType
  <2>2. 0 \in MessageCounts /\ 0 \in 0..Cardinality(Conversations)
    BY <2>1 DEF MessageCounts
  <2>3. insight \in InsightRows /\ insight.status = "PROCESSING"
    BY <2>2 DEF InsightInit, InsightRows, Results
  <2>4. delivery \in Deliveries
    BY InsightAssumption DEF InsightInit, Deliveries
  <2>5. NothingRead \in Analysts /\ NothingRead.phase = "Idle"
    BY <2>2 DEF NothingRead, Analysts
  <2>6. messageCount \in [Conversations -> 0..MaxMessages]
    BY InsightAssumption DEF InsightInit
  <2> QED BY <2>3, <2>4, <2>5, <2>6, InsightAssumption
             DEF InsightInit, InsightInv, InsightTypes, DeliveryFits, AnalystsHoldTheMessage,
                 SnapshotFits, QueueHasTheMessage, Concluded
<1>2. InsightInv /\ [InsightNext]_insightVars => InsightInv'
  BY InsightRequestStep, InsightReadStep, InsightEndStep DEF InsightNext
<1> QED BY <1>1, <1>2, PTL DEF InsightSpec

\* Whichever attempt concludes, a concluded insight has a snapshot, and while nothing was
\* lost it is the one that the row describes.
THEOREM ConclusionsAreShown == InsightSpec => []ConclusionsHaveSnapshots
<1>1. InsightInv => ConclusionsHaveSnapshots
  BY DEF InsightInv, SnapshotFits, ConclusionsHaveSnapshots
<1> QED BY <1>1, InsightInvariant, PTL

\* However the request and the attempts end, an insight nobody works on any more is not left
\* PROCESSING while nothing was lost.
THEOREM InsightsAreNotForgotten == InsightSpec => []NoInsightIsForgotten
<1>1. InsightInv => NoInsightIsForgotten
  BY DEF InsightInv, QueueHasTheMessage, NoInsightIsForgotten, Quiet
<1> QED BY <1>1, InsightInvariant, PTL

-----------------------------------------------------------------------------
(* What these services promise alike. *)

\* Side by side, insights, database queries and API calls leave no row behind in the status
\* of one that is being worked on, unless there was a mishap: a process that died, an exception
\* before the try block, or a failure that could not be written.  No recovery looks for them.
THEOREM NothingIsEverForgotten ==
  InsightSpec /\ QuerySpec /\ ToolSpec => []NothingIsForgotten
<1>1. NoInsightIsForgotten /\ NoQueryIsForgotten /\ NoCallIsForgotten => NothingIsForgotten
  BY DEF NothingIsForgotten
<1> QED BY <1>1, InsightsAreNotForgotten, QueriesAreNotForgotten, CallsAreNotForgotten, PTL
-----------------------------------------------------------------------------
(* The types of the services *)

\* A table that is not listed has no row, and none that a description or a choice could be of.
NoTableIsBlank == \A t \in Tables : stored[t].print = 0 => stored[t] = NoTable

LEMMA NoTableIsBlankStep ==
  MetadataInv /\ NoTableIsBlank /\ [MetadataNext]_metadataVars => NoTableIsBlank'
<1> SUFFICES ASSUME MetadataInv, NoTableIsBlank, [MetadataNext]_metadataVars
             PROVE  NoTableIsBlank'
  OBVIOUS
<1>1. stored \in [Tables -> StoredRows]
  BY DEF MetadataInv, MetadataTypes
<1>2. ASSUME NEW d \in Discoverers, discoverCommit(d) PROVE NoTableIsBlank'
  <2> SUFFICES ASSUME NEW t \in Tables, stored'[t].print = 0 PROVE stored'[t] = NoTable
    BY DEF NoTableIsBlank
  <2>1. stored'[t] = Upserted(discovery[d], t)
    BY <1>2 DEF discoverCommit
  <2>2. CASE discovery[d].tables[t] = 0
    BY <2>1, <2>2 DEF Upserted
  <2>3. CASE discovery[d].tables[t] # 0
    BY <2>1, <2>3 DEF Upserted
  <2> QED BY <2>2, <2>3
<1>3. ASSUME NEW chosen \in SUBSET Tables, saveDatabaseScope(chosen) PROVE NoTableIsBlank'
  <2> SUFFICES ASSUME NEW t \in Tables, stored'[t].print = 0 PROVE stored'[t] = NoTable
    BY DEF NoTableIsBlank
  <2>1. stored'[t] = [stored[t] EXCEPT !.selected = (t \in chosen)]
    BY <1>3 DEF saveDatabaseScope
  <2>2. stored[t].print = 0
    BY <1>1, <2>1 DEF StoredRows
  <2>3. t \notin chosen /\ stored[t] = NoTable
    BY <1>3, <2>2 DEF saveDatabaseScope, NoTableIsBlank
  <2>4. (t \in chosen) = FALSE
    BY <2>3
  <2>5. NoTable \in StoredRows /\ NoTable.selected = FALSE
    BY MetadataAssumption DEF NoTable, StoredRows, Prints
  <2>6. [NoTable EXCEPT !.selected = FALSE] = NoTable
    BY <2>5 DEF StoredRows
  <2> QED BY <2>1, <2>3, <2>4, <2>6
<1>4. ASSUME NEW t \in Tables, enrichStore(t) PROVE NoTableIsBlank'
  <2>1. stored[t].print # 0 /\ stored' = [stored EXCEPT ![t].about = enrichment[t].print]
    BY <1>4 DEF enrichStore, SameRow
  <2>2. stored'[t].print = stored[t].print /\ \A u \in Tables \ {t} : stored'[u] = stored[u]
    BY <1>1, <2>1 DEF StoredRows
  <2> QED BY <2>1, <2>2 DEF NoTableIsBlank
<1>5. ASSUME UNCHANGED stored PROVE NoTableIsBlank'
  BY <1>5 DEF NoTableIsBlank
<1>6. ASSUME NEW d \in Discoverers,
             discoverBegin(d) \/ discoverTables(d) \/ discoverCompare(d) \/ discoverFail(d)
      PROVE  UNCHANGED stored
  BY <1>6 DEF discoverBegin, discoverTables, discoverCompare, discoverFail
<1>7. ASSUME NEW t \in Tables, NEW p \in Prints, databaseChange(t, p) PROVE UNCHANGED stored
  BY <1>7 DEF databaseChange
<1>8. enrichRead \/ enrichStop \/ UNCHANGED metadataVars => UNCHANGED stored
  BY DEF enrichRead, enrichStop, metadataVars
<1> QED BY <1>2, <1>3, <1>4, <1>5, <1>6, <1>7, <1>8 DEF MetadataNext

\* Selected tables, descriptions, scans and refresh runs of a database keep to their types,
\* and a table the last scan did not find has no row, for any number of tables and requests.
THEOREM MetadataTypeCorrect == MetadataSpec => []MetadataTypeOK
<1>1. MetadataInit => NoTableIsBlank
  BY DEF MetadataInit, NoTableIsBlank
<1>2. MetadataInv /\ NoTableIsBlank => MetadataTypeOK
  <2> SUFFICES ASSUME MetadataInv, NoTableIsBlank PROVE MetadataTypeOK
    OBVIOUS
  <2>1. /\ refreshRuns = 1..metadataVersion /\ metadataVersion \in 0..MaxRefreshes
        /\ MaxRefreshes \in Nat
    BY MetadataAssumption DEF MetadataInv, MetadataTypes, VersionsCount
  <2>2. refreshRuns \subseteq 1..MaxRefreshes
    BY <2>1
  <2> QED BY <2>2 DEF MetadataInv, MetadataTypes, NoTableIsBlank, MetadataTypeOK, StoredRows, Scans
<1> QED BY <1>1, <1>2, NoTableIsBlankStep, MetadataInvariant, PTL DEF MetadataSpec

-----------------------------------------------------------------------------
(* WebCrawl.  A page's links are a fold over their positions: what it      *)
(* computes is fixed by every position and the fold of those before it, so *)
(* what must hold of it is shown at a least position where it could fail.  *)

Folded(rest, links) == FoldLeft(enqueueChild, rest, links)

\* What it computes for a set of positions.
FoldStep(links, rest, f, s) ==
  IF s = {} THEN rest ELSE enqueueChild(f[s \ {Max(s)}], links[Max(s)])

LEMMA FoldIsChosen ==
  ASSUME NEW links, NEW rest
  PROVE  Folded(rest, links) =
           (CHOOSE f : f = [s \in SUBSET DOMAIN links |-> FoldStep(links, rest, f, s)])[DOMAIN links]
BY DEF Folded, FoldLeft, MapThenFoldSet, FoldStep

\* Without its largest member a set of numbers is smaller.
LEMMA WithoutMax ==
  ASSUME NEW n \in Nat, NEW s \in SUBSET (1..(n + 1)), s # {}
  PROVE  /\ Max(s) \in s /\ s \ {Max(s)} \in SUBSET (1..n)
         /\ s \ {Max(s)} \in SUBSET (1..(n + 1))
<1>1. s \in SUBSET (0..(n + 1)) /\ n + 1 \in Nat
  OBVIOUS
<1>2. Max(s) \in s /\ \A x \in s : x <= Max(s)
  BY <1>1, MaxIsGreatest
<1>3. ASSUME NEW x \in s, x # Max(s) PROVE x \in 1..n
  <2>1. x \in 1..(n + 1) /\ Max(s) \in 1..(n + 1) /\ x <= Max(s)
    BY <1>2
  <2> QED BY <1>3, <2>1
<1>4. s \ {Max(s)} \subseteq 1..n
  BY <1>3
<1> QED BY <1>2, <1>4

LEMMA FoldExists ==
  ASSUME NEW links, NEW rest, NEW L \in Nat
  PROVE  \E f : f = [s \in SUBSET (1..L) |-> FoldStep(links, rest, f, s)]
<1> DEFINE Good(n) == \E f : f = [s \in SUBSET (1..n) |-> FoldStep(links, rest, f, s)]
<1>1. Good(0)
  <2> DEFINE f == [s \in SUBSET (1..0) |-> rest]
  <2>1. SUBSET (1..0) = {{}}
    OBVIOUS
  <2>2. \A s \in SUBSET (1..0) : FoldStep(links, rest, f, s) = rest
    BY <2>1 DEF FoldStep
  <2>3. f = [s \in SUBSET (1..0) |-> FoldStep(links, rest, f, s)]
    BY <2>2
  <2> QED BY <2>3
<1>2. ASSUME NEW n \in Nat, Good(n) PROVE Good(n + 1)
  <2>1. PICK g : g = [s \in SUBSET (1..n) |-> FoldStep(links, rest, g, s)]
    BY <1>2
  <2> DEFINE f == [s \in SUBSET (1..(n + 1)) |-> FoldStep(links, rest, g, s)]
  <2>2. \A s \in SUBSET (1..n) : s \in SUBSET (1..(n + 1)) /\ f[s] = g[s]
    BY <2>1
  <2>3. \A s \in SUBSET (1..(n + 1)) : f[s] = FoldStep(links, rest, g, s)
    OBVIOUS
  <2> HIDE DEF f
  <2>4. ASSUME NEW s \in SUBSET (1..(n + 1))
        PROVE  FoldStep(links, rest, g, s) = FoldStep(links, rest, f, s)
    <3>1. CASE s = {}
      BY <3>1 DEF FoldStep
    <3>2. CASE s # {}
      <4>1. f[s \ {Max(s)}] = g[s \ {Max(s)}]
        BY <2>2, <3>2, WithoutMax
      <4> QED BY <4>1 DEF FoldStep
    <3> QED BY <3>1, <3>2
  <2>5. f = [s \in SUBSET (1..(n + 1)) |-> FoldStep(links, rest, f, s)]
    BY <2>4 DEF f
  <2> QED BY <2>5
<1> DEFINE Bad == {n \in Nat : ~Good(n)}
<1>3. Bad = {}
  <2> SUFFICES ASSUME Bad # {} PROVE FALSE
    OBVIOUS
  <2> HIDE DEF Good
  <2>1. PICK n \in Bad : \A m \in Bad : n <= m
    BY NatHasLeast
  <2>2. n # 0 /\ n \in Nat /\ ~Good(n)
    BY <1>1
  <2>3. n - 1 \in Nat /\ ~(n <= n - 1) /\ n - 1 + 1 = n
    BY <2>2
  <2>4. Good(n - 1)
    BY <2>1, <2>3
  <2> QED BY <1>2, <2>2, <2>3, <2>4
<1> QED BY <1>3

\* FoldLeft enqueues the links one after the other.
LEMMA FoldIsStepwise ==
  ASSUME NEW links, NEW L \in Nat, DOMAIN links = 1..L, NEW rest
  PROVE  \E reached : /\ reached[0] = rest
                      /\ \A k \in 1..L : reached[k] = enqueueChild(reached[k - 1], links[k])
                      /\ Folded(rest, links) = reached[L]
<1> DEFINE Folds(f) == f = [s \in SUBSET (1..L) |-> FoldStep(links, rest, f, s)]
<1> DEFINE f == CHOOSE f : Folds(f)
<1>1. Folds(f)
  BY FoldExists
<1>2. Folded(rest, links) = f[1..L]
  BY FoldIsChosen
<1> HIDE DEF f
<1> DEFINE reached == [k \in 0..L |-> f[1..k]]
<1>3. reached[0] = rest
  <2>1. 1..0 = {} /\ {} \in SUBSET (1..L)
    OBVIOUS
  <2>2. f[{}] = rest
    BY <1>1, <2>1 DEF FoldStep
  <2> QED BY <2>1, <2>2
<1>4. ASSUME NEW k \in 1..L PROVE reached[k] = enqueueChild(reached[k - 1], links[k])
  <2>1. 1..k \in SUBSET (1..L) /\ 1..k # {} /\ 1..k \in SUBSET (0..k) /\ k \in Nat
    <3>1. k \in Nat /\ 1 <= k /\ k <= L
      OBVIOUS
    <3>2. 1 \in 1..k
      BY <3>1
    <3>3. \A x \in 1..k : x \in 1..L /\ x \in 0..k
      BY <3>1
    <3> QED BY <3>1, <3>2, <3>3
  <2>2. Max(1..k) \in 1..k /\ \A x \in 1..k : x <= Max(1..k)
    BY <2>1, MaxIsGreatest
  <2>3. Max(1..k) = k
    BY <2>2
  <2>4. (1..k) \ {k} = 1..(k - 1)
    OBVIOUS
  <2>5. f[1..k] = enqueueChild(f[1..(k - 1)], links[k])
    BY <1>1, <2>1, <2>3, <2>4 DEF FoldStep
  <2> QED BY <2>5
<1>5. reached[L] = f[1..L]
  OBVIOUS
<1> HIDE DEF reached
<1> QED BY <1>2, <1>3, <1>4, <1>5

-----------------------------------------------------------------------------
(* The crawl. *)

QueueItems == [url: Pages, depth: 0..2, parent: Pages \cup {NoPage}]
PageRows == Snapshots \cup {NoSnapshot}
Crawls == [on: BOOLEAN, previous: [Pages -> PageRows], queue: Seq(QueueItems),
           visited: SUBSET Pages, seen: SUBSET Pages, truncated: BOOLEAN, errors: BOOLEAN,
           links: SUBSET (Pages \X Pages)]

WebTypes ==
  /\ maxDepth \in CrawlDepths /\ maxPages \in PageLimits
  /\ site \in [Pages -> SiteAnswers]
  /\ siteChanges \in 0..MaxSiteChanges
  /\ page \in [Pages -> PageRows]
  /\ crawl \in Crawls
  /\ crawlStatus \in {"QUEUED", "PROCESSING", "COMPLETED", "PARTIAL", "FAILED"}

Found == crawl.visited \cup Queued(crawl.queue)
Walked == crawl.seen \cup Queued(crawl.queue)

\* The root is walked, and only a page that was seen has a new snapshot.
WalkFits ==
  /\ crawl.seen \subseteq crawl.visited
  /\ ~crawl.on => crawl.queue = << >> /\ crawl.visited = {}
  /\ crawl.on => /\ \/ Root \in crawl.seen
                    \/ /\ crawl.visited = {} /\ crawl.queue # << >>
                       /\ crawl.queue[1].url = Root
                 /\ \A p \in Pages \ crawl.seen : page[p] = crawl.previous[p]
  /\ \A q, p \in Pages : <<q, p>> \in crawl.links => q \in crawl.seen

\* Each page that is walked has the depth at which it was queued.  While nothing was cut off,
\* what a page above the depth of the source links to was found, and is walked, if at all, no
\* deeper than the link.
IsDepth(D) ==
  /\ D \in [Pages -> 0..2] /\ D[Root] = 0
  /\ \A i \in DOMAIN crawl.queue :
       /\ D[crawl.queue[i].url] = crawl.queue[i].depth
       /\ \A q \in crawl.seen : D[q] <= crawl.queue[i].depth
  /\ ~crawl.truncated =>
       \A q, p \in Pages : <<q, p>> \in crawl.links /\ D[q] < maxDepth =>
         p \in Found /\ (p \in Walked => D[p] <= D[q] + 1)

WebInv == WebTypes /\ WalkFits /\ QueueIsBreadthFirst /\ \E D : IsDepth(D)

-----------------------------------------------------------------------------
(* One turn of the loop. *)

LEMMA HeadOfQueue ==
  ASSUME WebInv, Looping
  PROVE  /\ Item \in QueueItems /\ Item = crawl.queue[1] /\ Item.url \in Pages
         /\ Item.depth \in Nat /\ Item.depth <= maxDepth /\ maxDepth \in Nat /\ maxDepth <= 2
         /\ Item.url \notin crawl.seen /\ Item.url \in Found /\ Item.url \in Walked
         /\ Len(crawl.queue) \in Nat /\ Len(crawl.queue) >= 1
         /\ DOMAIN crawl.queue = 1..Len(crawl.queue)
         /\ Tail(crawl.queue) \in Seq(QueueItems)
         /\ Len(Tail(crawl.queue)) = Len(crawl.queue) - 1
         /\ \A i \in 1..(Len(crawl.queue) - 1) : Tail(crawl.queue)[i] = crawl.queue[i + 1]
         /\ processed \in Nat /\ maxPages \in Nat
         /\ Cardinality(crawl.seen \cup {Item.url}) = processed
<1>1. /\ crawl.queue \in Seq(QueueItems) /\ crawl.queue # << >> /\ crawl.seen \in SUBSET Pages
      /\ maxDepth \in CrawlDepths /\ maxPages \in PageLimits
  BY DEF WebInv, WebTypes, Crawls, Looping
<1>2. /\ Len(crawl.queue) \in Nat /\ Len(crawl.queue) >= 1
      /\ DOMAIN crawl.queue = 1..Len(crawl.queue)
      /\ Head(crawl.queue) = crawl.queue[1] /\ 1 \in DOMAIN crawl.queue
      /\ Tail(crawl.queue) \in Seq(QueueItems)
      /\ Len(Tail(crawl.queue)) = Len(crawl.queue) - 1
      /\ \A i \in 1..(Len(crawl.queue) - 1) : Tail(crawl.queue)[i] = crawl.queue[i + 1]
  BY <1>1
<1>3. Item \in QueueItems /\ Item = crawl.queue[1]
  BY <1>1, <1>2 DEF Item
<1>4. Item.depth <= maxDepth /\ Item.url \notin crawl.seen
  BY <1>2, <1>3 DEF WebInv, QueueIsBreadthFirst
<1>5. Item.url \in Found /\ Item.url \in Walked
  BY <1>2, <1>3 DEF Found, Walked, Queued
<1>6. Item.url \in Pages /\ Item.depth \in Nat /\ maxDepth \in Nat /\ maxDepth <= 2
      /\ maxPages \in Nat
  BY <1>1, <1>3, CrawlAssumption DEF QueueItems
<1>7. IsFiniteSet(crawl.seen)
  BY <1>1, CrawlAssumption, FS_Subset
<1>8. processed \in Nat /\ Cardinality(crawl.seen \cup {Item.url}) = processed
  <2>1. Cardinality(crawl.seen) \in Nat
    BY <1>7, FS_CardinalityType
  <2>2. Cardinality(crawl.seen \cup {Item.url}) = Cardinality(crawl.seen) + 1
    BY <1>4, <1>7, FS_AddElement
  <2> QED BY <2>1, <2>2 DEF processed
<1> QED BY <1>2, <1>3, <1>4, <1>5, <1>6, <1>8

\* What the queue is while the links K of the page have been followed and the pages V have
\* been visited.
Reaches == [queue: Seq(QueueItems), visited: SUBSET Pages, truncated: BOOLEAN]
ReachFits(r, K, V) ==
  LET n == Len(crawl.queue) - 1
  IN /\ r \in Reaches /\ r.visited = V
     /\ Len(r.queue) >= n
     /\ \A i \in 1..n : r.queue[i] = crawl.queue[i + 1]
     /\ \A i \in 1..Len(r.queue) : i > n =>
          /\ Item.depth < maxDepth
          /\ r.queue[i].depth = Item.depth + 1
          /\ r.queue[i].url \notin V
     /\ \A i, j \in 1..Len(r.queue) : i < j => r.queue[i].url # r.queue[j].url
     /\ Len(r.queue) + processed <= maxPages
     /\ ~r.truncated => K \subseteq V \cup Queued(r.queue)

LEMMA ReachStarts ==
  ASSUME WebInv, Looping, NEW V \in SUBSET Pages
  PROVE  ReachFits([queue |-> Tail(crawl.queue), visited |-> V, truncated |-> FALSE], {}, V)
<1> DEFINE n == Len(crawl.queue) - 1
<1> DEFINE t == Tail(crawl.queue)
<1>1. t \in Seq(QueueItems) /\ Len(t) = n /\ n \in Nat /\ DOMAIN crawl.queue = 1..(n + 1)
      /\ \A i \in 1..n : t[i] = crawl.queue[i + 1]
  BY HeadOfQueue
<1>2. \A i, j \in 1..n : i < j => t[i].url # t[j].url
  <2> SUFFICES ASSUME NEW i \in 1..n, NEW j \in 1..n, i < j PROVE t[i].url # t[j].url
    OBVIOUS
  <2>1. i + 1 \in 1..(n + 1) /\ j + 1 \in 1..(n + 1) /\ i + 1 < j + 1
    BY <1>1
  <2>2. crawl.queue[i + 1].url # crawl.queue[j + 1].url
    BY <1>1, <2>1 DEF WebInv, QueueIsBreadthFirst
  <2> QED BY <1>1, <2>2
<1>3. Len(t) + processed <= maxPages
  <2>1. Len(crawl.queue) + Cardinality(crawl.seen) <= maxPages
    BY DEF WebInv, QueueIsBreadthFirst
  <2>2. processed = Cardinality(crawl.seen) + 1 /\ processed \in Nat
    BY HeadOfQueue DEF processed
  <2>3. Cardinality(crawl.seen) \in Nat
    <3>1. crawl.seen \in SUBSET Pages
      BY DEF WebInv, WebTypes, Crawls
    <3> QED BY <3>1, CrawlAssumption, FS_Subset, FS_CardinalityType
  <2> QED BY <1>1, <2>1, <2>2, <2>3, HeadOfQueue
<1> DEFINE r == [queue |-> t, visited |-> V, truncated |-> FALSE]
<1> HIDE DEF t
<1>4. /\ r \in Reaches
      /\ r.queue = t /\ r.visited = V /\ r.truncated = FALSE
  BY <1>1 DEF Reaches
<1> HIDE DEF r
<1>5. /\ Len(r.queue) = n /\ n \in Nat /\ \A i \in 1..n : r.queue[i] = crawl.queue[i + 1]
      /\ \A i \in 1..Len(r.queue) : ~(i > n)
      /\ Len(r.queue) + processed <= maxPages
  BY <1>1, <1>3, <1>4
<1>6. \A i, j \in 1..Len(r.queue) : i < j => r.queue[i].url # r.queue[j].url
  BY <1>2, <1>4, <1>5
<1>7. ReachFits(r, {}, V)
  BY <1>4, <1>5, <1>6 DEF ReachFits
<1> QED BY <1>7 DEF r, t

LEMMA ReachSteps ==
  ASSUME WebInv, Looping, Item.depth < maxDepth, NEW r, NEW K, NEW V, ReachFits(r, K, V),
         NEW p \in Pages
  PROVE  ReachFits(enqueueChild(r, p), K \cup {p}, V)
<1> DEFINE n == Len(crawl.queue) - 1
<1>1. r \in Reaches /\ r.visited = V /\ n \in Nat
      /\ Len(r.queue) \in Nat /\ DOMAIN r.queue = 1..Len(r.queue)
  BY HeadOfQueue DEF ReachFits, Reaches
<1>2. CASE r.truncated
  BY <1>2 DEF enqueueChild, ReachFits
<1>3. CASE ~r.truncated /\ AtPageLimit(r.queue)
  <2>1. enqueueChild(r, p) = [r EXCEPT !.truncated = TRUE]
    BY <1>3 DEF enqueueChild
  <2>2. /\ [r EXCEPT !.truncated = TRUE].queue = r.queue
        /\ [r EXCEPT !.truncated = TRUE].truncated
        /\ [r EXCEPT !.truncated = TRUE].visited = V
        /\ [r EXCEPT !.truncated = TRUE] \in Reaches
    BY <1>1 DEF Reaches
  <2> QED BY <2>1, <2>2 DEF ReachFits
<1>4. CASE /\ ~r.truncated /\ ~AtPageLimit(r.queue)
           /\ p \in r.visited \cup Queued(r.queue)
  <2>1. enqueueChild(r, p) = r
    BY <1>4 DEF enqueueChild
  <2> QED BY <1>1, <1>4, <2>1 DEF ReachFits
<1>5. CASE /\ ~r.truncated /\ ~AtPageLimit(r.queue)
           /\ p \notin r.visited \cup Queued(r.queue)
  <2> DEFINE m == [url |-> p, depth |-> Item.depth + 1, parent |-> Item.url]
  <2> DEFINE q == Append(r.queue, m)
  <2>1. enqueueChild(r, p) = [r EXCEPT !.queue = q]
    BY <1>5 DEF enqueueChild
  <2>2. m \in QueueItems
    BY HeadOfQueue DEF QueueItems
  <2>3. /\ m.url = p /\ m.depth = Item.depth + 1
    OBVIOUS
  <2> HIDE DEF m
  <2>4. /\ q \in Seq(QueueItems) /\ Len(q) = Len(r.queue) + 1 /\ q[Len(r.queue) + 1] = m
        /\ DOMAIN q = 1..(Len(r.queue) + 1)
        /\ \A i \in 1..Len(r.queue) : q[i] = r.queue[i]
    <3>1. r.queue \in Seq(QueueItems)
      BY <1>1 DEF Reaches
    <3>2. /\ q \in Seq(QueueItems) /\ Len(q) = Len(r.queue) + 1 /\ q[Len(r.queue) + 1] = m
          /\ \A i \in 1..Len(r.queue) : q[i] = r.queue[i]
      BY <2>2, <3>1, AppendProperties
    <3> HIDE DEF q
    <3>3. DOMAIN q = 1..Len(q)
      BY <3>2
    <3> QED BY <3>2, <3>3
  <2> HIDE DEF q
  <2>5. /\ [r EXCEPT !.queue = q] \in Reaches
        /\ [r EXCEPT !.queue = q].queue = q
        /\ [r EXCEPT !.queue = q].visited = V
        /\ [r EXCEPT !.queue = q].truncated = FALSE
    BY <1>1, <1>5, <2>4 DEF Reaches
  <2>6. Len(q) + processed <= maxPages
    BY <1>1, <1>5, <2>4, HeadOfQueue DEF AtPageLimit
  <2>7. \A i, j \in 1..Len(q) : i < j => q[i].url # q[j].url
    <3>1. \A i \in 1..Len(r.queue) : r.queue[i].url # p
      BY <1>1, <1>5 DEF Queued
    <3>2. ASSUME NEW i \in 1..Len(q), NEW j \in 1..Len(q), i < j PROVE q[i].url # q[j].url
      <4>0. \A k, l \in 1..Len(r.queue) : k < l => r.queue[k].url # r.queue[l].url
        BY DEF ReachFits
      <4>1. i \in 1..Len(r.queue) /\ q[i] = r.queue[i]
        BY <1>1, <2>4, <3>2
      <4>2. CASE j \in 1..Len(r.queue)
        <5>1. q[j] = r.queue[j]
          BY <2>4, <4>2
        <5> QED BY <3>2, <4>0, <4>1, <4>2, <5>1
      <4>3. CASE j = Len(r.queue) + 1
        BY <2>3, <2>4, <3>1, <4>1, <4>3
      <4> QED BY <1>1, <2>4, <4>2, <4>3
    <3> QED BY <3>2
  <2>8. \A i \in 1..Len(q) : i > n =>
          /\ q[i].depth = Item.depth + 1
          /\ q[i].url \notin V
    <3> SUFFICES ASSUME NEW i \in 1..Len(q), i > n
                 PROVE  /\ q[i].depth = Item.depth + 1
                        /\ q[i].url \notin V
      OBVIOUS
    <3>1. CASE i \in 1..Len(r.queue)
      BY <2>4, <3>1 DEF ReachFits
    <3>2. CASE i = Len(r.queue) + 1
      BY <1>1, <1>5, <2>3, <2>4, <3>2
    <3> QED BY <1>1, <2>4, <3>1, <3>2
  <2>9. Len(q) >= n /\ \A i \in 1..n : q[i] = crawl.queue[i + 1]
    <3>1. Len(r.queue) >= n /\ \A i \in 1..n : r.queue[i] = crawl.queue[i + 1]
      BY DEF ReachFits
    <3>2. \A i \in 1..n : i \in 1..Len(r.queue)
      BY <1>1, <3>1
    <3> QED BY <1>1, <2>4, <3>1, <3>2
  <2>10. Queued(q) = Queued(r.queue) \cup {p}
    <3>1. Len(r.queue) + 1 \in DOMAIN q /\ q[Len(r.queue) + 1].url = p
      BY <1>1, <2>3, <2>4
    <3>2. \A i \in DOMAIN q : (i \in DOMAIN r.queue /\ q[i] = r.queue[i]) \/ q[i].url = p
      BY <1>1, <2>3, <2>4
    <3>3. \A i \in DOMAIN r.queue : i \in DOMAIN q /\ q[i] = r.queue[i]
      BY <1>1, <2>4
    <3> QED BY <3>1, <3>2, <3>3 DEF Queued
  <2>11. K \cup {p} \subseteq V \cup Queued(q)
    BY <1>5, <2>10 DEF ReachFits
  <2> QED BY <2>1, <2>5, <2>6, <2>7, <2>8, <2>9, <2>11 DEF ReachFits
<1> QED BY <1>2, <1>3, <1>4, <1>5

\* Once the links of a page have been followed, all of them were found unless the limit of
\* pages cut them off.
LEMMA ChildrenAreReached ==
  ASSUME WebInv, Looping, NEW links \in Seq(Pages), NEW V \in SUBSET Pages
  PROVE  ReachFits(enqueueChildren(links, V),
                   IF Item.depth >= maxDepth THEN {} ELSE Range(links), V)
<1> DEFINE rest == [queue |-> Tail(crawl.queue), visited |-> V, truncated |-> FALSE]
<1>1. CASE Item.depth >= maxDepth
  BY <1>1, ReachStarts DEF enqueueChildren
<1>2. CASE ~(Item.depth >= maxDepth)
  <2> DEFINE L == Len(links)
  <2>1. L \in Nat /\ DOMAIN links = 1..L /\ \A k \in 1..L : links[k] \in Pages
    OBVIOUS
  <2>2. Item.depth < maxDepth
    BY <1>2, HeadOfQueue
  <2>3. ReachFits(rest, {}, V)
    BY ReachStarts
  <2> HIDE DEF rest
  <2>4. PICK reached : /\ reached[0] = rest
                       /\ \A k \in 1..L : reached[k] = enqueueChild(reached[k - 1], links[k])
                       /\ Folded(rest, links) = reached[L]
    <3> HIDE DEF L
    <3> QED BY <2>1, FoldIsStepwise
  <2> DEFINE First(k) == {links[j] : j \in 1..k}
  <2> DEFINE Bad == {k \in Nat : k <= L /\ ~ReachFits(reached[k], First(k), V)}
  <2>5. Bad = {}
    <3> SUFFICES ASSUME Bad # {} PROVE FALSE
      OBVIOUS
    <3>1. PICK k \in Bad : \A j \in Bad : k <= j
      BY NatHasLeast
    <3>2. k \in Nat /\ k <= L /\ ~ReachFits(reached[k], First(k), V)
      OBVIOUS
    <3>3. First(0) = {}
      OBVIOUS
    <3>4. k # 0
      BY <2>3, <2>4, <3>2, <3>3
    <3>5. k - 1 \in Nat /\ k - 1 <= L /\ ~(k <= k - 1) /\ k \in 1..L
      BY <2>1, <3>2, <3>4
    <3>6. ReachFits(reached[k - 1], First(k - 1), V)
      BY <3>1, <3>5
    <3>7. First(k) = First(k - 1) \cup {links[k]}
      <4>1. 1..k = (1..(k - 1)) \cup {k}
        BY <3>5
      <4> QED BY <4>1
    <3> HIDE DEF First
    <3> QED BY <2>1, <2>2, <2>4, <3>2, <3>5, <3>6, <3>7, ReachSteps
  <2>6. ReachFits(reached[L], First(L), V)
    <3> HIDE DEF First, L
    <3>1. L \notin Bad
      BY <2>5
    <3> QED BY <2>1, <3>1
  <2>7. First(L) = Range(links)
    BY <2>1 DEF Range
  <2>8. enqueueChildren(links, V) = reached[L]
    BY <1>2, <2>4 DEF enqueueChildren, Folded, rest
  <2> QED BY <1>2, <2>6, <2>7, <2>8
<1> QED BY <1>1, <1>2

\* A turn of the loop takes one page from the queue, S says whether it was read, and finds what
\* the page links to.
TurnFits(reached, K, V, S, read) ==
  /\ V \in SUBSET Pages /\ ReachFits(reached, K, V) /\ crawl.visited \cup {Item.url} \subseteq V
  /\ S \in {{}, {Item.url}} /\ read \in SUBSET Pages
  /\ Item.depth < maxDepth => read \subseteq K
  /\ S = {} => Item.url \in crawl.visited /\ read = {}
  /\ crawl'.on /\ crawl'.previous = crawl.previous /\ crawl'.queue = reached.queue
  /\ crawl'.visited = V /\ crawl'.seen = crawl.seen \cup S
  /\ crawl'.truncated <=> crawl.truncated \/ reached.truncated
  /\ crawl'.links = crawl.links \cup ({Item.url} \X read)
  /\ \A p \in Pages : p \notin S => page'[p] = page[p]

\* It keeps the walk in order.
LEMMA VisitKeeps ==
  ASSUME WebInv, Looping, NEW reached, NEW K, NEW V, NEW S, NEW read,
         TurnFits(reached, K, V, S, read), UNCHANGED <<maxDepth, maxPages>>, WebTypes'
  PROVE  WebInv'
<1> USE DEF TurnFits
<1> DEFINE n == Len(crawl.queue) - 1
<1> DEFINE q == reached.queue
<1> DEFINE h == Item.depth
<1> DEFINE u == Item.url
<1>1. /\ n \in Nat /\ q \in Seq(QueueItems) /\ Len(q) \in Nat /\ DOMAIN q = 1..Len(q)
      /\ h \in Nat /\ h <= maxDepth /\ maxDepth \in Nat /\ maxDepth <= 2 /\ u \in Pages
      /\ DOMAIN crawl.queue = 1..(n + 1)
      /\ \A i \in 1..n : i \in 1..Len(q) /\ i + 1 \in 2..(n + 1) /\ q[i] = crawl.queue[i + 1]
      /\ \A i \in 1..Len(q) : q[i] \in QueueItems /\ q[i].url \in Pages /\ q[i].depth \in Nat
  <2>1. /\ q \in Seq(QueueItems) /\ Len(q) \in Nat /\ DOMAIN q = 1..Len(q)
        /\ Len(q) >= n /\ \A i \in 1..n : q[i] = crawl.queue[i + 1]
    BY DEF ReachFits, Reaches
  <2>2. \A i \in 1..Len(q) : q[i] \in QueueItems /\ q[i].url \in Pages /\ q[i].depth \in Nat
    <3>1. \A i \in 1..Len(q) : q[i] \in QueueItems
      BY <2>1
    <3>2. \A x \in QueueItems : x.url \in Pages /\ x.depth \in Nat
      BY DEF QueueItems
    <3> QED BY <3>1, <3>2
  <2>3. \A i \in 1..n : i \in 1..Len(q) /\ i + 1 \in 2..(n + 1)
    BY <2>1, HeadOfQueue
  <2> QED BY <2>1, <2>2, <2>3, HeadOfQueue
<1>w. /\ crawl.on /\ crawl.seen \subseteq crawl.visited /\ crawl.visited \subseteq Pages
      /\ Root \in Pages /\ u \in V /\ crawl.visited \subseteq V /\ S \subseteq {u}
      /\ u \notin crawl.seen /\ u \in Found
      /\ Root \in crawl.seen \/ (Root = u /\ crawl.visited = {})
  <2>1. Item = crawl.queue[1] /\ u \notin crawl.seen /\ u \in Found
    BY HeadOfQueue
  <2>2. crawl.on
    BY DEF Looping
  <2> QED BY <2>1, <2>2, CrawlAssumption DEF WebInv, WebTypes, Crawls, WalkFits
<1>2. \A i \in 1..n :
        /\ q[i].depth \in {h, h + 1} /\ q[i].depth <= maxDepth
        /\ q[i].url \notin crawl.seen \cup {u} /\ q[i].url \in Queued(crawl.queue)
  <2> SUFFICES ASSUME NEW i \in 1..n
               PROVE  /\ q[i].depth \in {h, h + 1} /\ q[i].depth <= maxDepth
                      /\ q[i].url \notin crawl.seen \cup {u}
                      /\ q[i].url \in Queued(crawl.queue)
    OBVIOUS
  <2>1. 1 \in DOMAIN crawl.queue /\ i + 1 \in DOMAIN crawl.queue /\ 1 < i + 1
        /\ Item = crawl.queue[1] /\ q[i] = crawl.queue[i + 1]
    BY <1>1, HeadOfQueue
  <2>2. /\ crawl.queue[1].url # crawl.queue[i + 1].url
        /\ crawl.queue[i + 1].depth - crawl.queue[1].depth \in {0, 1}
        /\ crawl.queue[i + 1].depth <= maxDepth /\ crawl.queue[i + 1].url \notin crawl.seen
    BY <2>1 DEF WebInv, QueueIsBreadthFirst
  <2>3. q[i].url \in Queued(crawl.queue)
    BY <2>1 DEF Queued
  <2>4. q[i].depth \in Nat
    BY <1>1
  <2>5. \A x \in Nat : x - h \in {0, 1} => x \in {h, h + 1}
    BY <1>1
  <2>6. q[i].depth - h \in {0, 1} /\ q[i].url # u
    BY <1>1, <2>1, <2>2
  <2>7. q[i].depth \in {h, h + 1}
    BY <2>4, <2>5, <2>6
  <2> QED BY <2>1, <2>2, <2>3, <2>6, <2>7
<1>3. \A i \in 1..Len(q) : i > n => h < maxDepth /\ q[i].depth = h + 1 /\ q[i].url \notin V
  BY DEF ReachFits
<1>4. \A i, j \in 1..Len(q) : i < j => q[i].url # q[j].url
  BY DEF ReachFits
<1>5. \A i \in 1..Len(q) : i \in 1..n \/ i > n
  BY <1>1
<1> DEFINE New == {q[i].url : i \in {j \in 1..Len(q) : j > n}}
<1>6. /\ New \subseteq Pages /\ (New # {} => h < maxDepth)
      /\ \A p \in New : p \notin V
      /\ \A i \in 1..n : q[i].url \notin New
      /\ \A i \in 1..Len(q) : i > n => q[i].url \in New
  <2>1. \A i \in 1..n : q[i].url \notin New
    <3> SUFFICES ASSUME NEW i \in 1..n, NEW j \in 1..Len(q), j > n PROVE q[i].url # q[j].url
      OBVIOUS
    <3>1. i < j /\ i \in 1..Len(q)
      BY <1>1
    <3> QED BY <1>4, <3>1
  <2> QED BY <1>1, <1>3, <2>1
<1> DEFINE Old == {q[i].url : i \in 1..n}
<1>7. Queued(crawl.queue) \subseteq {u} \cup Old
  <2> SUFFICES ASSUME NEW i \in 1..(n + 1)
               PROVE  crawl.queue[i].url = u \/ \E j \in 1..n : crawl.queue[i].url = q[j].url
    <3>1. Queued(crawl.queue) = {crawl.queue[i].url : i \in 1..(n + 1)}
      BY <1>1 DEF Queued
    <3> HIDE DEF n, q, u
    <3> QED BY <3>1
  <2>1. CASE i = 1
    BY <2>1, HeadOfQueue
  <2>2. CASE i # 1
    <3>1. i - 1 \in 1..n /\ i - 1 + 1 = i
      BY <1>1, <2>2
    <3>2. q[i - 1] = crawl.queue[i - 1 + 1]
      BY <1>1, <3>1
    <3> QED BY <3>1, <3>2
  <2> QED BY <2>1, <2>2
<1>8. /\ \A p \in Found : p \notin New
      /\ Found \subseteq Found' /\ Found' = V \cup Queued(q)
      /\ Walked' = crawl.seen \cup S \cup Queued(q)
      /\ Walked' \subseteq Walked \cup New \cup {u}
  <2>1. Queued(q) = Old \cup New
    <3>1. \A i \in DOMAIN q : i \in 1..n \/ q[i].url \in New
      BY <1>1, <1>5, <1>6
    <3>2. New \subseteq Queued(q)
      BY <1>1 DEF Queued
    <3>3. Old \subseteq Queued(q)
      BY <1>1 DEF Queued
    <3>4. \A i \in 1..n : q[i].url \in Old
      OBVIOUS
    <3> HIDE DEF New, Old, q, n
    <3> QED BY <3>1, <3>2, <3>3, <3>4 DEF Queued
  <2>2. Found' = V \cup Queued(q) /\ Walked' = crawl.seen \cup S \cup Queued(q)
    BY DEF Found, Walked, Queued
  <2>3. Old \subseteq Queued(crawl.queue)
    BY <1>2
  <2>4. \A p \in Old : p \notin New
    BY <1>6
  <2> HIDE DEF q, n, u, New, Old
  <2> QED BY <1>w, <1>6, <1>7, <2>1, <2>2, <2>3, <2>4 DEF Found, Walked
<1>9. PICK D : IsDepth(D)
  BY DEF WebInv
<1>10. /\ D \in [Pages -> 0..2] /\ D[Root] = 0 /\ D[u] = h
       /\ \A i \in 1..n : D[q[i].url] = q[i].depth
       /\ \A v \in crawl.seen : D[v] <= h
  <2>1. 1 \in DOMAIN crawl.queue /\ Item = crawl.queue[1]
    BY <1>1, HeadOfQueue
  <2>2. D \in [Pages -> 0..2] /\ D[Root] = 0 /\ D[u] = h /\ \A v \in crawl.seen : D[v] <= h
    BY <1>9, <2>1 DEF IsDepth
  <2>3. \A i \in 1..n : D[q[i].url] = q[i].depth
    <3> SUFFICES ASSUME NEW i \in 1..n PROVE D[q[i].url] = q[i].depth
      OBVIOUS
    <3>1. i + 1 \in DOMAIN crawl.queue /\ q[i] = crawl.queue[i + 1]
      BY <1>1
    <3> QED BY <1>9, <3>1 DEF IsDepth
  <2> QED BY <2>2, <2>3
<1> HIDE DEF New, Old
<1>e. PICK E : E = [p \in Pages |-> IF p \in New THEN h + 1 ELSE D[p]]
  OBVIOUS
<1>11. /\ \A p \in Pages \ New : E[p] = D[p]
       /\ crawl.seen \cup {u} \subseteq Pages \ New /\ Root \in Pages \ New
  <2>1. crawl.seen \cup {u} \subseteq V
    BY <1>w
  <2>2. Root \in V
    BY <1>w
  <2> HIDE DEF u
  <2> QED BY <1>1, <1>6, <1>e, <2>1, <2>2
<1>13. /\ \A i \in 1..Len(q) : E[q[i].url] = q[i].depth
       /\ \A i \in 1..Len(q) : q[i].depth \in {h, h + 1} /\ q[i].depth <= maxDepth
  <2>2. \A i \in 1..n : E[q[i].url] = q[i].depth
    BY <1>1, <1>6, <1>10, <1>11
  <2>3. ASSUME NEW i \in 1..Len(q), i > n
        PROVE  E[q[i].url] = q[i].depth /\ q[i].depth <= maxDepth
    <3>1. q[i].url \in Pages /\ q[i].url \in New
      BY <1>1, <1>6, <2>3
    <3>2. E[q[i].url] = h + 1
      BY <1>e, <3>1
    <3>3. h < maxDepth /\ q[i].depth = h + 1 /\ h \in Nat /\ maxDepth \in Nat
      BY <1>1, <1>3, <2>3
    <3> HIDE DEF q, h
    <3> QED BY <3>2, <3>3
  <2> HIDE DEF q, n, h
  <2> QED BY <1>2, <1>3, <1>5, <2>2, <2>3
<1>14. \A v \in crawl.seen \cup {u} : E[v] <= h /\ D[v] = E[v]
  <2>1. \A v \in crawl.seen \cup {u} : E[v] = D[v]
    BY <1>11
  <2> HIDE DEF u
  <2> QED BY <1>1, <1>10, <2>1
<1>15. E \in [Pages -> 0..2] /\ E[Root] = 0
  <2>1. New # {} => h + 1 \in 0..2
    BY <1>1, <1>6
  <2>3. \A p \in Pages : D[p] \in 0..2
    BY <1>10
  <2> QED BY <1>10, <1>11, <1>e, <2>1, <2>3
<1>16. ASSUME ~crawl'.truncated, NEW a \in Pages, NEW b \in Pages,
              <<a, b>> \in crawl'.links, E[a] < maxDepth
       PROVE  b \in Found' /\ (b \in Walked' => E[b] <= E[a] + 1)
  <2>1. ~crawl.truncated /\ ~reached.truncated
    BY <1>16
  <2>2. CASE <<a, b>> \in crawl.links
    <3>1. a \in crawl.seen
      BY <2>2 DEF WebInv, WalkFits
    <3>2. E[a] = D[a]
      BY <1>14, <3>1
    <3>3. b \in Found /\ (b \in Walked => D[b] <= D[a] + 1)
      BY <1>9, <1>16, <2>1, <2>2, <3>2 DEF IsDepth
    <3>4. b \notin New /\ E[b] = D[b]
      BY <1>8, <1>11, <3>3
    <3>5. u \in Walked
      BY HeadOfQueue
    <3>6. b \in Walked' => b \in Walked
      <4> HIDE DEF u
      <4> QED BY <1>8, <3>4, <3>5
    <3> QED BY <1>8, <3>2, <3>3, <3>4, <3>6
  <2>3. CASE <<a, b>> \notin crawl.links
    <3>1. a = u /\ b \in read
      BY <1>16, <2>3
    <3>2. E[a] = h
      BY <1>10, <1>14, <3>1
    <3>3. b \in K
      BY <1>16, <3>1, <3>2
    <3>4. b \in V \cup Queued(q)
      BY <2>1, <3>3 DEF ReachFits
    <3>5. ASSUME b \in crawl.seen \cup {u} PROVE E[b] <= E[a] + 1
      <4>1. E[b] <= h /\ E[b] \in 0..2
        BY <1>14, <1>15, <3>5
      <4>2. E[b] \in Int /\ h \in Nat
        BY <1>1, <4>1
      <4>3. E[b] <= h + 1
        BY <4>1, <4>2
      <4> QED BY <3>2, <4>3
    <3>6. ASSUME b \in Queued(q) PROVE E[b] <= E[a] + 1
      <4>1. PICK i \in 1..Len(q) : b = q[i].url
        BY <1>1, <3>6 DEF Queued
      <4>2. E[b] \in {h, h + 1}
        BY <1>13, <4>1
      <4> QED BY <1>1, <3>2, <4>2
    <3>7. b \in Walked' => b \in crawl.seen \cup {u} \/ b \in Queued(q)
      <4> HIDE DEF u, q
      <4> QED BY <1>w, <1>8
    <3> QED BY <1>8, <3>4, <3>5, <3>6, <3>7
  <2> QED BY <2>2, <2>3
<1>17. IsDepth(E)'
  <2>1. \A i \in DOMAIN crawl'.queue :
          /\ E[crawl'.queue[i].url] = crawl'.queue[i].depth
          /\ \A v \in crawl'.seen : E[v] <= crawl'.queue[i].depth
    <3> SUFFICES ASSUME NEW i \in 1..Len(q)
                 PROVE  /\ E[q[i].url] = q[i].depth
                        /\ \A v \in crawl.seen \cup {u} : E[v] <= q[i].depth
      BY <1>w, <1>1
    <3>1. E[q[i].url] = q[i].depth /\ q[i].depth \in {h, h + 1}
      BY <1>13
    <3>2. \A v \in crawl.seen \cup {u} : E[v] <= h /\ E[v] \in 0..2
      <4> HIDE DEF u
      <4> QED BY <1>11, <1>14, <1>15
    <3>3. \A v \in crawl.seen \cup {u} : E[v] <= q[i].depth
      <4> SUFFICES ASSUME NEW v \in crawl.seen \cup {u} PROVE E[v] <= q[i].depth
        OBVIOUS
      <4>1. E[v] <= h /\ E[v] \in Int /\ h \in Int
        BY <1>1, <3>2
      <4> HIDE DEF h
      <4> QED BY <3>1, <4>1
    <3> QED BY <3>1, <3>3
  <2> QED BY <1>15, <1>16, <2>1 DEF IsDepth
<1>18. QueueIsBreadthFirst'
  <2>1. Len(q) + Cardinality(crawl.seen \cup S) <= maxPages
    <3>1. Len(q) + processed <= maxPages
      BY DEF ReachFits
    <3>2. CASE S = {u}
      BY <3>1, <3>2, HeadOfQueue
    <3>3. CASE S = {}
      <4>1. crawl.seen \cup S = crawl.seen
        BY <3>3
      <4>2. processed = Cardinality(crawl.seen) + 1 /\ processed \in Nat /\ maxPages \in Nat
        BY HeadOfQueue DEF processed
      <4>3. Cardinality(crawl.seen) \in Nat
        <5>1. crawl.seen \in SUBSET Pages
          BY <1>w
        <5> QED BY <5>1, CrawlAssumption, FS_Subset, FS_CardinalityType
      <4>4. Len(q) \in Nat
        BY <1>1
      <4>5. Cardinality(crawl.seen \cup S) = Cardinality(crawl.seen)
        BY <4>1
      <4> HIDE DEF q
      <4> QED BY <3>1, <4>2, <4>3, <4>4, <4>5
    <3> QED BY <3>2, <3>3
  <2>2. \A i \in 1..Len(q) : q[i].depth <= maxDepth /\ q[i].url \notin crawl.seen \cup S
    <3> HIDE DEF q, u, n, h
    <3> QED BY <1>w, <1>2, <1>3, <1>5, <1>13
  <2>3. \A i, j \in 1..Len(q) : i < j => q[j].depth - q[i].depth \in {0, 1}
    <3> SUFFICES ASSUME NEW i \in 1..Len(q), NEW j \in 1..Len(q), i < j
                 PROVE  q[j].depth - q[i].depth \in {0, 1}
      OBVIOUS
    <3>1. CASE j > n
      <4>1. q[j].depth = h + 1 /\ q[i].depth \in {h, h + 1} /\ h \in Nat
        BY <1>1, <1>3, <1>13, <3>1
      <4> HIDE DEF q, h
      <4> QED BY <4>1
    <3>2. CASE j \in 1..n
      <4>1. i \in 1..n
        BY <1>1, <3>2
      <4>2. i + 1 \in DOMAIN crawl.queue /\ j + 1 \in DOMAIN crawl.queue /\ i + 1 < j + 1
            /\ q[i] = crawl.queue[i + 1] /\ q[j] = crawl.queue[j + 1]
        BY <1>1, <3>2, <4>1
      <4> QED BY <4>2 DEF WebInv, QueueIsBreadthFirst
    <3> QED BY <1>5, <3>1, <3>2
  <2>4. /\ crawl'.queue = q /\ crawl'.seen = crawl.seen \cup S
        /\ maxDepth' = maxDepth /\ maxPages' = maxPages
    OBVIOUS
  <2>5. DOMAIN q = 1..Len(q)
    BY <1>1
  <2> HIDE DEF q, u
  <2>6. \A i, j \in DOMAIN crawl'.queue : i < j =>
          /\ crawl'.queue[i].url # crawl'.queue[j].url
          /\ crawl'.queue[j].depth - crawl'.queue[i].depth \in {0, 1}
    BY <1>4, <2>3, <2>4, <2>5
  <2>7. \A i \in DOMAIN crawl'.queue :
          crawl'.queue[i].depth <= maxDepth' /\ crawl'.queue[i].url \notin crawl'.seen
    BY <2>2, <2>4, <2>5
  <2>8. Len(crawl'.queue) + Cardinality(crawl'.seen) <= maxPages'
    BY <2>1, <2>4
  <2> QED BY <2>6, <2>7, <2>8 DEF QueueIsBreadthFirst
<1>19. WalkFits'
  <2>1. Root \in crawl'.seen
    <3>1. CASE Root \in crawl.seen
      BY <3>1
    <3>2. CASE Root = u /\ crawl.visited = {}
      <4>1. S = {u}
        BY <3>2
      <4> QED BY <3>2, <4>1
    <3> QED BY <1>w, <3>1, <3>2
  <2>2. \A p \in Pages \ crawl'.seen : page'[p] = crawl'.previous[p]
    BY <1>w DEF WebInv, WalkFits
  <2>3. \A a, b \in Pages : <<a, b>> \in crawl'.links => a \in crawl'.seen
    <3> SUFFICES ASSUME NEW a \in Pages, NEW b \in Pages, <<a, b>> \in crawl'.links
                 PROVE  a \in crawl'.seen
      OBVIOUS
    <3>1. CASE <<a, b>> \in crawl.links
      BY <3>1 DEF WebInv, WalkFits
    <3>2. CASE a = u /\ b \in read
      <4>1. S = {u}
        BY <3>2
      <4> QED BY <3>2, <4>1
    <3> QED BY <3>1, <3>2
  <2>4. crawl'.seen \subseteq crawl'.visited /\ crawl'.on
    <3> HIDE DEF u
    <3> QED BY <1>w
  <2> QED BY <2>1, <2>2, <2>3, <2>4 DEF WalkFits
<1> QED BY <1>17, <1>18, <1>19 DEF WebInv

LEMMA NoCrawlFits ==
  ASSUME WebTypes', crawl' = NoCrawl
  PROVE  WebInv'
<1>1. /\ crawl'.queue = << >> /\ crawl'.visited = {} /\ crawl'.seen = {} /\ crawl'.links = {}
      /\ ~crawl'.on
      /\ DOMAIN crawl'.queue = {} /\ Len(crawl'.queue) = 0
  BY DEF NoCrawl
<1>2. WalkFits'
  BY <1>1 DEF WalkFits
<1>3. QueueIsBreadthFirst'
  <2>1. Cardinality(crawl'.seen) = 0
    BY <1>1, FS_EmptySet
  <2>2. maxPages' \in Nat
    BY CrawlAssumption DEF WebTypes
  <2>3. Len(crawl'.queue) + Cardinality(crawl'.seen) <= maxPages'
    BY <1>1, <2>1, <2>2
  <2> QED BY <1>1, <2>3 DEF QueueIsBreadthFirst
<1>4. PICK D : D = [p \in Pages |-> 0]
  OBVIOUS
<1>5. IsDepth(D)'
  BY <1>1, <1>4, CrawlAssumption DEF IsDepth
<1> QED BY <1>2, <1>3, <1>5 DEF WebInv

LEMMA NoCrawlIsTyped == NoCrawl \in Crawls
BY DEF NoCrawl, Crawls, PageRows

LEMMA StartKeeps ==
  ASSUME WebInv, startCrawl
  PROVE  WebInv'
<1> DEFINE first == [url |-> Root, depth |-> 0, parent |-> NoPage]
<1>1. first \in QueueItems /\ first.url = Root /\ first.depth = 0
  BY CrawlAssumption DEF QueueItems
<1> HIDE DEF first
<1>2. /\ <<first>> \in Seq(QueueItems) /\ DOMAIN <<first>> = {1} /\ Len(<<first>>) = 1
      /\ <<first>>[1] = first
  BY <1>1
<1>3. crawl' = [NoCrawl EXCEPT !.on = TRUE, !.previous = page, !.queue = <<first>>]
  BY DEF startCrawl, first
<1>4. page \in [Pages -> PageRows] /\ maxPages \in Nat \ {0} /\ maxDepth \in Nat
  BY CrawlAssumption DEF WebInv, WebTypes
<1>5. /\ crawl' \in Crawls
      /\ crawl'.on /\ crawl'.previous = page /\ crawl'.queue = <<first>>
      /\ crawl'.visited = {} /\ crawl'.seen = {} /\ crawl'.links = {}
  BY <1>2, <1>3, <1>4, NoCrawlIsTyped DEF Crawls, NoCrawl
<1>6. WebTypes' /\ page' = page /\ maxPages' = maxPages /\ maxDepth' = maxDepth
  BY <1>5 DEF startCrawl, WebInv, WebTypes, PageContents, PageRows, Snapshots, SiteAnswers
<1>7. crawl'.queue # << >> /\ crawl'.queue[1].url = Root
  BY <1>1, <1>2, <1>5
<1>8. WalkFits'
  BY <1>5, <1>6, <1>7 DEF WalkFits
<1>9. QueueIsBreadthFirst'
  <2>1. Len(crawl'.queue) + Cardinality(crawl'.seen) <= maxPages'
    BY <1>2, <1>4, <1>5, <1>6, FS_EmptySet
  <2>2. \A i \in DOMAIN crawl'.queue :
          crawl'.queue[i].depth <= maxDepth' /\ crawl'.queue[i].url \notin crawl'.seen
    BY <1>1, <1>2, <1>4, <1>5, <1>6
  <2>3. \A i, j \in DOMAIN crawl'.queue : ~(i < j)
    BY <1>2, <1>5
  <2> QED BY <2>1, <2>2, <2>3 DEF QueueIsBreadthFirst
<1>10. PICK D : D = [p \in Pages |-> 0]
  OBVIOUS
<1>11. IsDepth(D)'
  BY <1>1, <1>2, <1>5, <1>10, CrawlAssumption DEF IsDepth
<1> QED BY <1>6, <1>8, <1>9, <1>11 DEF WebInv

\* What a page that is read changes.
LEMMA VisitTypes ==
  ASSUME WebInv, Processing, NEW links \in Seq(Pages), NEW addresses \in SUBSET Pages,
         Visit(links, addresses)
  PROVE  LET visited == crawl.visited \cup {Item.url} \cup addresses
             reached == enqueueChildren(links, visited)
         IN /\ crawl' \in Crawls /\ crawl'.on /\ crawl'.previous = crawl.previous
            /\ crawl'.queue = reached.queue /\ visited \in SUBSET Pages
            /\ crawl'.visited = visited /\ crawl'.seen = crawl.seen \cup {Item.url}
            /\ crawl'.truncated <=> crawl.truncated \/ reached.truncated
            /\ crawl'.links = crawl.links \cup ({Item.url} \X Range(links))
            /\ Range(links) \in SUBSET Pages
<1> DEFINE visited == crawl.visited \cup {Item.url} \cup addresses
<1> DEFINE reached == enqueueChildren(links, visited)
<1>0. Looping
  BY DEF Processing
<1>4. crawl \in Crawls /\ crawl.on /\ Item.url \in Pages
  BY <1>0, HeadOfQueue DEF WebInv, WebTypes, Looping
<1>v. visited \in SUBSET Pages /\ crawl.seen \cup {Item.url} \in SUBSET Pages
  BY <1>4 DEF Crawls
<1>3. crawl' = [crawl EXCEPT !.queue = reached.queue, !.visited = visited,
                             !.seen = @ \cup {Item.url},
                             !.truncated = @ \/ reached.truncated,
                             !.links = @ \cup ({Item.url} \X Range(links))]
  BY DEF Visit
<1> HIDE DEF visited
<1>1. reached \in Reaches
  BY <1>0, <1>v, ChildrenAreReached DEF ReachFits
<1>2. Range(links) \in SUBSET Pages
  BY DEF Range
<1> HIDE DEF reached
<1>5. {Item.url} \X Range(links) \in SUBSET (Pages \X Pages)
  BY <1>2, <1>4
<1>6. /\ crawl'.on /\ crawl'.previous = crawl.previous
      /\ crawl'.queue = reached.queue
      /\ crawl'.visited = visited /\ crawl'.seen = crawl.seen \cup {Item.url}
      /\ crawl'.truncated = (crawl.truncated \/ reached.truncated)
      /\ crawl'.links = crawl.links \cup ({Item.url} \X Range(links))
  BY <1>3, <1>4 DEF Crawls
<1>7. crawl' \in Crawls
  <2>1. (crawl.truncated \/ reached.truncated) \in BOOLEAN
    OBVIOUS
  <2>3. crawl.links \cup ({Item.url} \X Range(links)) \in SUBSET (Pages \X Pages)
    BY <1>4, <1>5 DEF Crawls
  <2>4. crawl' = [crawl EXCEPT !.queue = crawl'.queue, !.visited = crawl'.visited,
                               !.seen = crawl'.seen, !.truncated = crawl'.truncated,
                               !.links = crawl'.links]
    BY <1>3, <1>4, <1>6 DEF Crawls
  <2>5. reached.queue \in Seq(QueueItems)
    BY <1>1 DEF Reaches
  <2> QED BY <1>v, <1>4, <1>6, <2>1, <2>3, <2>4, <2>5 DEF Crawls
<1> QED BY <1>2, <1>6, <1>7, <1>v DEF reached, visited

\* What the page is read for, and what it does to the snapshots, is left to the actions.
LEMMA ReadKeeps ==
  ASSUME WebInv, Processing, NEW links \in Seq(Pages), NEW addresses \in SUBSET Pages,
         Visit(links, addresses), UNCHANGED <<maxDepth, maxPages>>, WebTypes',
         \A p \in Pages : p # Item.url => page'[p] = page[p]
  PROVE  WebInv'
<1> DEFINE visited == crawl.visited \cup {Item.url} \cup addresses
<1> DEFINE reached == enqueueChildren(links, visited)
<1> DEFINE K == IF Item.depth >= maxDepth THEN {} ELSE Range(links)
<1>1. Looping
  BY DEF Processing
<1>2. /\ crawl'.on /\ crawl'.previous = crawl.previous
      /\ crawl'.queue = reached.queue /\ visited \in SUBSET Pages
      /\ crawl'.visited = visited /\ crawl'.seen = crawl.seen \cup {Item.url}
      /\ crawl'.truncated <=> crawl.truncated \/ reached.truncated
      /\ crawl'.links = crawl.links \cup ({Item.url} \X Range(links))
      /\ Range(links) \in SUBSET Pages
  BY VisitTypes
<1>3. crawl.visited \cup {Item.url} \subseteq visited
  OBVIOUS
<1> HIDE DEF visited
<1>4. ReachFits(reached, K, visited)
  BY <1>1, <1>2, ChildrenAreReached
<1>5. Item.depth < maxDepth => Range(links) \subseteq K
  BY <1>1, HeadOfQueue
<1>6. {Item.url} \in {{}, {Item.url}} /\ {Item.url} # {}
      /\ \A p \in Pages : p \notin {Item.url} => page'[p] = page[p]
  OBVIOUS
<1> HIDE DEF reached, K
<1>7. TurnFits(reached, K, visited, {Item.url}, Range(links))
  BY <1>2, <1>3, <1>4, <1>5, <1>6 DEF TurnFits
<1> QED BY <1>1, <1>7, VisitKeeps

LEMMA FetchKeeps ==
  ASSUME WebInv, fetchPage
  PROVE  WebInv'
<1> DEFINE addresses == {Answer.finalUrl, Answer.canonicalUrl}
<1>1. Processing /\ Looping /\ Visit(Answer.links, addresses)
      /\ UNCHANGED <<maxDepth, maxPages, site, siteChanges, crawlStatus>>
  BY DEF fetchPage, Processing
<1>2. /\ Answer \in SiteAnswers
      /\ Answer.links \in Seq(Pages) /\ Answer.links \in LinkLists /\ Answer.content \in PageContents
      /\ addresses \in SUBSET Pages
  BY <1>1, HeadOfQueue, CrawlAssumption DEF WebInv, WebTypes, Answer, SiteAnswers
<1> HIDE DEF addresses
<1> DEFINE isActive == \/ Prior = NoSnapshot
                     \/ Prior.content # Answer.content
                     \/ page[Item.url].active
<1> DEFINE new == [links |-> Answer.links, content |-> Answer.content, parent |-> Item.parent,
                   active |-> isActive]
<1>3. isActive \in BOOLEAN
  OBVIOUS
<1> HIDE DEF isActive
<1>4. new \in PageRows
  BY <1>1, <1>2, <1>3, HeadOfQueue DEF Snapshots, PageRows, QueueItems
<1>5. page' = [page EXCEPT ![Item.url] = new]
  BY DEF fetchPage, isActive
<1> HIDE DEF new
<1>6. page \in [Pages -> PageRows]
  BY DEF WebInv, WebTypes
<1>7. /\ page' \in [Pages -> PageRows]
      /\ \A p \in Pages : p # Item.url => page'[p] = page[p]
  BY <1>4, <1>5, <1>6
<1>8. crawl' \in Crawls
  BY <1>1, <1>2, VisitTypes
<1>9. WebTypes'
  BY <1>1, <1>7, <1>8 DEF WebInv, WebTypes, PageRows, Snapshots, PageContents, SiteAnswers
<1> QED BY <1>1, <1>2, <1>7, <1>9, ReadKeeps

LEMMA NotModifiedKeeps ==
  ASSUME WebInv, fetchNotModified
  PROVE  WebInv'
<1> DEFINE addresses == {Answer.finalUrl}
<1>1. /\ Processing /\ Looping
      /\ UNCHANGED <<maxDepth, maxPages, site, siteChanges, page, crawlStatus>>
      /\ addresses \in SUBSET Pages
  <2>1. Processing /\ Answer.finalUrl = Item.url /\ Looping
        /\ UNCHANGED <<maxDepth, maxPages, site, siteChanges, page, crawlStatus>>
    BY DEF fetchNotModified, Processing
  <2> QED BY <2>1, HeadOfQueue
<1>2. PICK links \in SetToSeqs(KnownChildren) : Visit(links, addresses)
  BY DEF fetchNotModified
<1> HIDE DEF addresses
<1>3. links \in Seq(Pages)
  <2>1. KnownChildren \in SUBSET Pages
    BY DEF KnownChildren
  <2>2. Cardinality(KnownChildren) \in Nat
    BY <2>1, CrawlAssumption, FS_Subset, FS_CardinalityType
  <2>3. links \in [1..Cardinality(KnownChildren) -> KnownChildren]
    BY <1>2 DEF SetToSeqs
  <2> QED BY <2>1, <2>2, <2>3
<1>5. crawl' \in Crawls
  BY <1>1, <1>2, <1>3, VisitTypes
<1>6. WebTypes'
  BY <1>1, <1>5 DEF WebInv, WebTypes, PageRows, Snapshots, PageContents, SiteAnswers
<1> QED BY <1>1, <1>2, <1>3, <1>6, ReadKeeps

LEMMA SkipKeeps ==
  ASSUME WebInv, skipPage
  PROVE  WebInv'
<1> DEFINE V == crawl.visited \cup {Item.url}
<1> DEFINE rest == [queue |-> Tail(crawl.queue), visited |-> V, truncated |-> FALSE]
<1> DEFINE error == Answer.answer = "ERROR"
<1>1. Looping /\ UNCHANGED <<maxDepth, maxPages, site, siteChanges, page, crawlStatus>>
  BY DEF skipPage, Processing
<1>4. crawl \in Crawls /\ crawl.on /\ Item.url \in Pages /\ Tail(crawl.queue) \in Seq(QueueItems)
  BY <1>1, HeadOfQueue DEF WebInv, WebTypes, Looping
<1>v. V \in SUBSET Pages /\ crawl.seen \cup {Item.url} \in SUBSET Pages
  BY <1>4 DEF Crawls
<1>2. ReachFits(rest, {}, V) /\ rest.queue = Tail(crawl.queue) /\ rest.truncated = FALSE
  <2> HIDE DEF V
  <2> QED BY <1>1, <1>v, ReachStarts
<1>3. crawl' = [crawl EXCEPT !.queue = Tail(@), !.visited = V, !.seen = @ \cup {Item.url},
                             !.errors = @ \/ error]
  BY <1>4 DEF skipPage, Crawls
<1>5. error \in BOOLEAN /\ crawl.visited \cup {Item.url} \subseteq V
  OBVIOUS
<1> HIDE DEF error, rest, V
<1>6. /\ crawl'.on /\ crawl'.previous = crawl.previous /\ crawl'.queue = rest.queue
      /\ crawl'.visited = V /\ crawl'.seen = crawl.seen \cup {Item.url}
      /\ crawl'.truncated = crawl.truncated
      /\ crawl'.errors = (crawl.errors \/ error)
      /\ crawl'.links = crawl.links \cup ({Item.url} \X {})
  BY <1>2, <1>3, <1>4 DEF Crawls
<1>7. crawl' \in Crawls
  <2>1. (crawl.errors \/ error) \in BOOLEAN
    OBVIOUS
  <2>3. crawl' = [crawl EXCEPT !.queue = Tail(crawl.queue), !.visited = crawl'.visited,
                               !.seen = crawl'.seen, !.errors = crawl'.errors]
    BY <1>3, <1>4, <1>6 DEF Crawls
  <2> QED BY <1>v, <1>4, <1>6, <2>1, <2>3 DEF Crawls
<1>8. WebTypes'
  BY <1>1, <1>7 DEF WebInv, WebTypes, PageRows, Snapshots, PageContents, SiteAnswers
<1>9. {} \in SUBSET Pages /\ (Item.depth < maxDepth => {} \subseteq {})
      /\ (crawl'.truncated <=> crawl.truncated \/ rest.truncated)
      /\ {Item.url} \in {{}, {Item.url}} /\ {Item.url} # {}
  BY <1>2, <1>6
<1>10. TurnFits(rest, {}, V, {Item.url}, {})
  BY <1>v, <1>1, <1>2, <1>5, <1>6, <1>9 DEF TurnFits
<1> QED BY <1>1, <1>8, <1>10, VisitKeeps

LEMMA PassKeeps ==
  ASSUME WebInv, passVisited
  PROVE  WebInv'
<1> DEFINE rest == [queue |-> Tail(crawl.queue), visited |-> crawl.visited, truncated |-> FALSE]
<1>1. /\ Looping /\ Item.url \in crawl.visited /\ crawl' = [crawl EXCEPT !.queue = Tail(@)]
      /\ UNCHANGED <<maxDepth, maxPages, site, siteChanges, page, crawlStatus>>
  BY DEF passVisited
<1>2. crawl \in Crawls /\ crawl.on /\ Tail(crawl.queue) \in Seq(QueueItems)
      /\ crawl.visited \in SUBSET Pages
  BY <1>1, HeadOfQueue DEF WebInv, WebTypes, Looping, Crawls
<1>3. ReachFits(rest, {}, crawl.visited) /\ rest.queue = Tail(crawl.queue)
      /\ rest.truncated = FALSE
  BY <1>1, <1>2, ReachStarts
<1> HIDE DEF rest
<1>4. /\ crawl'.on /\ crawl'.previous = crawl.previous /\ crawl'.queue = rest.queue
      /\ crawl'.visited = crawl.visited /\ crawl'.seen = crawl.seen \cup {}
      /\ (crawl'.truncated <=> crawl.truncated \/ rest.truncated)
      /\ crawl'.links = crawl.links \cup ({Item.url} \X {})
  BY <1>1, <1>2, <1>3 DEF Crawls
<1>5. crawl' \in Crawls
  BY <1>1, <1>2 DEF Crawls
<1>6. WebTypes'
  BY <1>1, <1>5 DEF WebInv, WebTypes, PageRows, Snapshots, PageContents, SiteAnswers
<1>7. /\ crawl.visited \cup {Item.url} \subseteq crawl.visited /\ {} \in {{}, {Item.url}}
      /\ {} \in SUBSET Pages /\ (Item.depth < maxDepth => {} \subseteq {})
      /\ \A p \in Pages : p \notin {} => page'[p] = page[p]
  BY <1>1
<1>8. TurnFits(rest, {}, crawl.visited, {}, {})
  BY <1>1, <1>2, <1>3, <1>4, <1>7 DEF TurnFits
<1> QED BY <1>1, <1>6, <1>8, VisitKeeps

LEMMA CrawlEnds ==
  ASSUME WebInv, rootFails \/ finishCrawl \/ crawlDies
  PROVE  WebInv'
<1>1. crawl' = NoCrawl /\ UNCHANGED <<maxDepth, maxPages, site, siteChanges>>
      /\ crawlStatus' \in {"FAILED", "PARTIAL", "COMPLETED", crawlStatus}
  BY DEF rootFails, finishCrawl, crawlDies
<1>2. page' \in [Pages -> PageRows]
  <2>1. CASE rootFails \/ crawlDies
    BY <2>1 DEF rootFails, crawlDies, WebInv, WebTypes
  <2>2. CASE finishCrawl
    <3>1. \A p \in Pages : page[p] \in PageRows /\ crawl.previous[p] \in PageRows
      BY DEF WebInv, WebTypes, Crawls
    <3>2. ASSUME NEW p \in Unseen PROVE [page[p] EXCEPT !.active = FALSE] \in PageRows
      <4>1. p \in Pages /\ page[p] # NoSnapshot
        BY <2>2 DEF finishCrawl, Unseen, WebInv, WalkFits
      <4>2. page[p] \in Snapshots
        BY <3>1, <4>1 DEF PageRows
      <4> QED BY <4>2 DEF Snapshots, PageRows
    <3>3. page' = [p \in Pages |-> IF ~CrawlTruncated /\ p \in Unseen
                                   THEN [page[p] EXCEPT !.active = FALSE] ELSE page[p]]
      BY <2>2 DEF finishCrawl
    <3> QED BY <3>1, <3>2, <3>3
  <2> QED BY <2>1, <2>2
<1>3. WebTypes'
  BY <1>1, <1>2, NoCrawlIsTyped DEF WebInv, WebTypes, PageContents, SiteAnswers
<1> QED BY <1>1, <1>3, NoCrawlFits

LEMMA ChangeKeeps ==
  ASSUME WebInv, NEW p \in Pages, changePage(p)
  PROVE  WebInv'
<1>1. UNCHANGED <<maxDepth, maxPages, page, crawl, crawlStatus>> /\ siteChanges < MaxSiteChanges
      /\ siteChanges' = siteChanges + 1
  BY DEF changePage
<1>2. siteChanges' \in 0..MaxSiteChanges
  BY <1>1, CrawlAssumption DEF WebInv, WebTypes
<1>3. site' \in [Pages -> SiteAnswers]
  <2>1. PICK result \in NextAnswers(p) : site' = [site EXCEPT ![p] = result]
    BY DEF changePage
  <2>2. site[p] \in SiteAnswers
    BY DEF WebInv, WebTypes
  <2>3. site[p].content \in PageContents /\ siteChanges + 1 \in PageContents
    BY <1>1, <1>2, <2>2 DEF SiteAnswers, PageContents
  <2>4. \A a \in {"DENIED", "ERROR"} : [site[p] EXCEPT !.answer = a] \in SiteAnswers
    BY <2>2 DEF SiteAnswers, HttpAnswers
  <2>5. [answer: {"OK"}, links: LinkLists, content: {site[p].content, siteChanges + 1},
         finalUrl: Targets \cup {p}, canonicalUrl: Targets \cup {p}] \subseteq SiteAnswers
    BY <2>3, CrawlAssumption DEF SiteAnswers, HttpAnswers
  <2>6. result \in SiteAnswers
    BY <2>1, <2>4, <2>5 DEF NextAnswers
  <2> QED BY <2>1, <2>6 DEF WebInv, WebTypes
<1>4. WebTypes'
  BY <1>1, <1>2, <1>3 DEF WebInv, WebTypes, PageContents
<1>5. WalkFits' /\ QueueIsBreadthFirst'
  BY <1>1 DEF WebInv, WalkFits, QueueIsBreadthFirst
<1>6. \A D : IsDepth(D) => IsDepth(D)'
  BY <1>1 DEF IsDepth, Found, Walked
<1> QED BY <1>4, <1>5, <1>6 DEF WebInv

LEMMA WebStep == WebInv /\ [WebNext]_webVars => WebInv'
<1> SUFFICES ASSUME WebInv, [WebNext]_webVars PROVE WebInv'
  OBVIOUS
<1>1. CASE UNCHANGED webVars
  <2>1. WebTypes' /\ WalkFits' /\ QueueIsBreadthFirst'
    BY <1>1 DEF webVars, WebInv, WebTypes, WalkFits, QueueIsBreadthFirst
  <2>2. \A D : IsDepth(D) => IsDepth(D)'
    BY <1>1 DEF webVars, IsDepth, Found, Walked
  <2> QED BY <2>1, <2>2 DEF WebInv
<1> QED
  BY <1>1, ChangeKeeps, StartKeeps, PassKeeps, FetchKeeps, NotModifiedKeeps, SkipKeeps,
     CrawlEnds DEF WebNext

LEMMA WebInvariant == WebSpec => []WebInv
<1>1. WebInit => WebInv
  <2> SUFFICES ASSUME WebInit PROVE WebInv
    OBVIOUS
  <2>1. crawl = NoCrawl /\ maxPages \in Nat \ {0}
    BY CrawlAssumption DEF WebInit
  <2>2. site \in [Pages -> SiteAnswers]
    BY CrawlAssumption DEF WebInit, HttpAnswers, PageContents, SiteAnswers
  <2>3. WebTypes
    BY <2>1, <2>2, NoCrawlIsTyped, CrawlAssumption DEF WebInit, WebTypes, PageRows
  <2>4. /\ crawl.queue = << >> /\ crawl.visited = {} /\ crawl.seen = {} /\ crawl.links = {}
        /\ ~crawl.on
        /\ DOMAIN crawl.queue = {} /\ Len(crawl.queue) = 0
    BY <2>1 DEF NoCrawl
  <2>5. WalkFits
    BY <2>4 DEF WalkFits
  <2>6. QueueIsBreadthFirst
    BY <2>1, <2>4, FS_EmptySet DEF QueueIsBreadthFirst
  <2>7. IsDepth([p \in Pages |-> 0])
    BY <2>4, CrawlAssumption DEF IsDepth
  <2> QED BY <2>3, <2>5, <2>6, <2>7 DEF WebInv
<1> QED BY <1>1, WebStep, PTL DEF WebSpec

-----------------------------------------------------------------------------
(* What the crawl hides. *)

\* The definition of WithinDepth, for the depths there are.
LEMMA WithinDepthUnfolds ==
  /\ WithinDepth[0] = {Root}
  /\ \A d \in {1, 2} : WithinDepth[d] = WithinDepth[d - 1] \cup
       {p \in Pages : \E q \in WithinDepth[d - 1] : <<q, p>> \in crawl.links}
<1>0. \A d \in 0..2 : d = 0 \/ (d = 1 /\ d - 1 = 0) \/ (d = 2 /\ d - 1 = 1)
  OBVIOUS
<1> DEFINE Beyond(W) == W \cup {p \in Pages : \E q \in W : <<q, p>> \in crawl.links}
<1> DEFINE IsIt(f) == f = [d \in 0..2 |-> IF d = 0 THEN {Root} ELSE Beyond(f[d - 1])]
<1>1. WithinDepth = CHOOSE f : IsIt(f)
  BY DEF WithinDepth
<1>2. \E f : IsIt(f)
  <2> DEFINE f == [d \in 0..2 |-> IF d = 0 THEN {Root}
                                  ELSE IF d = 1 THEN Beyond({Root}) ELSE Beyond(Beyond({Root}))]
  <2> HIDE DEF Beyond
  <2>1. f[0] = {Root} /\ f[1] = Beyond({Root}) /\ f[2] = Beyond(Beyond({Root}))
    OBVIOUS
  <2>2. \A d \in 0..2 : f[d] = IF d = 0 THEN {Root} ELSE Beyond(f[d - 1])
    <3> SUFFICES ASSUME NEW d \in 0..2 PROVE f[d] = IF d = 0 THEN {Root} ELSE Beyond(f[d - 1])
      OBVIOUS
    <3> HIDE DEF f
    <3> QED BY <1>0, <2>1
  <2>3. IsIt(f)
    <3>1. f = [d \in 0..2 |-> f[d]]
      OBVIOUS
    <3> HIDE DEF f
    <3> QED BY <2>2, <3>1
  <2> QED BY <2>3
<1>3. IsIt(WithinDepth)
  <2> HIDE DEF IsIt
  <2> QED BY <1>1, <1>2
<1>4. \A d \in 0..2 : WithinDepth[d] = IF d = 0 THEN {Root} ELSE Beyond(WithinDepth[d - 1])
  <2> HIDE DEF Beyond
  <2> QED BY <1>3
<1>5. 0 \in 0..2 /\ \A d \in {1, 2} : d \in 0..2 /\ d # 0
  OBVIOUS
<1> QED BY <1>4, <1>5

\* A crawl that ends with nothing cut off has visited whatever lies within its depth.
LEMMA CrawlSeesWithinDepth ==
  ASSUME WebInv, crawl.on, ~CrawlTruncated
  PROVE  WithinDepth[maxDepth] \subseteq crawl.visited
<1>1. PICK D : IsDepth(D)
  BY DEF WebInv
<1>2. crawl.queue = << >> /\ ~crawl.truncated
  BY DEF CrawlTruncated
<1>3. Found = crawl.visited /\ Walked = crawl.seen
  BY <1>2 DEF Found, Walked, Queued
<1>4. /\ maxDepth \in 0..2 /\ crawl.visited \subseteq Pages
      /\ D \in [Pages -> 0..2] /\ D[Root] = 0 /\ Root \in crawl.visited
  BY <1>1, <1>2, CrawlAssumption DEF WebInv, WebTypes, WalkFits, IsDepth, Crawls
<1>5. \A q, p \in Pages : <<q, p>> \in crawl.links =>
        /\ q \in crawl.seen
        /\ D[q] < maxDepth => p \in crawl.visited /\ (p \in crawl.seen => D[p] <= D[q] + 1)
  BY <1>1, <1>2, <1>3 DEF IsDepth, WebInv, WalkFits
<1> DEFINE IsNear(p, d) == p \in crawl.visited /\ (p \in crawl.seen => D[p] <= d)
<1> DEFINE Near(d) == \A p \in WithinDepth[d] : IsNear(p, d)
<1>6. Near(0)
  BY <1>4, WithinDepthUnfolds
<1>7. ASSUME NEW d \in {1, 2}, d <= maxDepth, Near(d - 1) PROVE Near(d)
  <2> SUFFICES ASSUME NEW p \in WithinDepth[d] PROVE IsNear(p, d)
    OBVIOUS
  <2>1. d - 1 \in 0..2 /\ d - 1 < maxDepth
    BY <1>4, <1>7
  <2>2. CASE p \in WithinDepth[d - 1]
    <3>1. IsNear(p, d - 1) /\ D[p] \in 0..2
      BY <1>4, <1>7, <2>2
    <3> QED BY <2>1, <3>1
  <2>3. ASSUME NEW q \in WithinDepth[d - 1], p \in Pages, <<q, p>> \in crawl.links
        PROVE  IsNear(p, d)
    <3>0. q \in Pages /\ IsNear(q, d - 1)
      BY <1>4, <1>7, <2>3
    <3>1. D[q] <= d - 1 /\ D[q] \in 0..2 /\ D[p] \in 0..2
      BY <1>4, <1>5, <2>3, <3>0
    <3>2. D[q] < maxDepth
      BY <1>4, <2>1, <3>1
    <3>3. p \in crawl.visited /\ (p \in crawl.seen => D[p] <= D[q] + 1)
      BY <1>5, <2>3, <3>0, <3>2
    <3> QED BY <3>1, <3>3
  <2> QED BY <2>2, <2>3, WithinDepthUnfolds
<1>8. maxDepth >= 1 => Near(1)
  <2>1. 1 - 1 = 0 /\ 1 \in {1, 2}
    OBVIOUS
  <2> HIDE DEF Near
  <2> QED BY <1>4, <1>6, <1>7, <2>1
<1>9. maxDepth >= 2 => Near(2)
  <2>1. 2 - 1 = 1 /\ 2 \in {1, 2}
    OBVIOUS
  <2> HIDE DEF Near
  <2> QED BY <1>4, <1>7, <1>8, <2>1
<1>10. maxDepth = 0 \/ maxDepth = 1 \/ maxDepth = 2
  BY <1>4
<1> QED BY <1>6, <1>8, <1>9, <1>10

\* Only the end of a crawl hides pages, and completes its run.
LEMMA OnlyTheEndHides ==
  ASSUME WebInv, [WebNext]_webVars, ~finishCrawl
  PROVE  /\ \A p \in Pages : ~Deactivated(p)
         /\ crawlStatus' = "COMPLETED" => crawlStatus = "COMPLETED"
<1>1. CASE fetchPage
  <2>1. Item.url \in Pages /\ crawlStatus' = crawlStatus
    BY <1>1, HeadOfQueue DEF fetchPage, Processing
  <2>2. page \in [Pages -> PageRows]
    BY DEF WebInv, WebTypes
  <2>3. \A p \in Pages : p # Item.url => page'[p] = page[p]
    BY <1>1, <2>1, <2>2 DEF fetchPage
  <2>4. page[Item.url].active => page'[Item.url].active
    BY <1>1, <2>1, <2>2 DEF fetchPage
  <2> QED BY <2>1, <2>3, <2>4 DEF Deactivated
<1>2. CASE ~fetchPage
  <2>1. page' = page
    BY <1>2 DEF WebNext, webVars, changePage, startCrawl, passVisited, fetchNotModified, skipPage,
                rootFails, crawlDies
  <2>2. crawlStatus' \in {crawlStatus, "PROCESSING", "FAILED"}
    BY <1>2 DEF WebNext, webVars, changePage, startCrawl, passVisited, fetchNotModified, skipPage,
                rootFails, crawlDies
  <2> QED BY <2>1, <2>2 DEF Deactivated
<1> QED BY <1>1, <1>2

\* A refresh hides what is gone (refreshWeb): a page is deactivated only if no link that this
\* crawl has read, within the depth of the source, leads to it, or if another page that it has
\* read gave this address as its own, whatever limits and pages that fail have left out; and
\* after a successful refresh only pages that the crawl has seen are active.
THEOREM CrawlHidesGone == WebSpec => CrawlHidesWhatIsGone
<1>1. ASSUME WebInv, [WebNext]_webVars
      PROVE  HidesOnlyWhatIsGone /\ CompletedShowsOnlySeen
  <2>1. CASE ~finishCrawl
    BY <1>1, <2>1, OnlyTheEndHides DEF HidesOnlyWhatIsGone, CompletedShowsOnlySeen
  <2>2. CASE finishCrawl
    <3>1. /\ crawl.on
          /\ page' = [p \in Pages |-> IF ~CrawlTruncated /\ p \in Unseen
                                      THEN [page[p] EXCEPT !.active = FALSE] ELSE page[p]]
          /\ crawlStatus' = IF CrawlTruncated \/ crawl.errors THEN "PARTIAL" ELSE "COMPLETED"
      BY <2>2 DEF finishCrawl
    <3>2. ASSUME NEW p \in Pages, Deactivated(p), p \notin crawl.visited
          PROVE  p \notin WithinDepth[maxDepth]
      <4>1. ~CrawlTruncated
        BY <3>1, <3>2 DEF Deactivated, Unseen
      <4> QED BY <1>1, <3>1, <3>2, <4>1, CrawlSeesWithinDepth
    <3>3. ASSUME crawlStatus' = "COMPLETED", NEW p \in Pages \ crawl.seen, page[p] # NoSnapshot
          PROVE  ~page'[p].active
      <4>1. ~CrawlTruncated
        BY <3>1, <3>3
      <4>2. page[p] = crawl.previous[p] /\ page[p] \in Snapshots
        BY <1>1, <3>1, <3>3 DEF WebInv, WebTypes, WalkFits, PageRows
      <4>3. p \in Unseen
        BY <3>3, <4>2 DEF Unseen
      <4>4. page'[p] = [page[p] EXCEPT !.active = FALSE]
        BY <3>1, <4>1, <4>3
      <4> QED BY <4>2, <4>4 DEF Snapshots
    <3> QED BY <3>2, <3>3 DEF HidesOnlyWhatIsGone, CompletedShowsOnlySeen
  <2> QED BY <2>1, <2>2
<1> QED BY <1>1, WebInvariant, PTL DEF WebSpec, CrawlHidesWhatIsGone

\* The crawl of a source (refreshWeb): what its rows hold, and that its queue is breadth first:
\* pages of one depth, then of the next, each once, none that was read and no more than the
\* limit of pages leaves room for.
THEOREM WebTypeCorrect == WebSpec => [](WebTypeOK /\ QueueIsBreadthFirst)
<1>1. WebInv => WebTypeOK /\ QueueIsBreadthFirst
  BY DEF WebInv, WebTypes, WalkFits, WebTypeOK, Crawls, PageRows, QueueItems
<1> QED BY <1>1, WebInvariant, PTL

\* The property ServicesTypeOK: what the services keep is well typed, the crawl's queue is in
\* the order of its depths, the connectors that can be cancelled are those of requests at
\* work, a shown column is not also counted as omitted, and every citation is of a message
\* that is stored.
THEOREM ServicesTypeCorrect ==
  /\ BreakerSpec /\ ExcelSpec /\ WebSpec /\ InsightSpec /\ QuerySpec
  /\ MemorySpec /\ ChatSpec /\ MetadataSpec /\ ContextSpec /\ ToolSpec
  => []ServicesTypeOK
<1>1. ExcelInv => ExcelTypeOK
  <2> SUFFICES ASSUME ExcelInv PROVE ExcelTypeOK
    OBVIOUS
  <2>1. \A n \in VersionNumbers :
          version[n] = NoVersion \/ version[n] \in [schema: Schemas, isCurrent: BOOLEAN]
    BY DEF ExcelInv, ExcelTypes, VersionRows
  <2>2. version[fileVersion] # NoVersion
    BY DEF ExcelInv, FileVersionIsCurrent, CurrentVersions, Uploaded
  <2>3. \A e \in Editors :
          /\ edit[e].phase \in EditPhases
          /\ edit[e].rows \subseteq {n \in VersionNumbers : version[n] # NoVersion}
          /\ edit[e].phase # "Idle" => edit[e].target \in VersionNumbers
    BY DEF ExcelInv, ExcelTypes, EditsAreOfVersions, EditRecords, Uploaded
  <2> QED BY <2>1, <2>2, <2>3 DEF ExcelInv, ExcelTypes, ExcelTypeOK
<1>2. InsightInv => InsightTypeOK
  BY DEF InsightInv, InsightTypes, InsightRows, Deliveries, Analysts, InsightTypeOK
<1>3. QueryInv => QueryTypeOK /\ ActiveAreAtWork
  BY DEF QueryInv
<1>4. ToolInv => ToolTypeOK
  BY DEF ToolInv
<1>5. /\ BreakerSpec /\ ExcelSpec /\ WebSpec /\ InsightSpec /\ QuerySpec
      /\ MemorySpec /\ ChatSpec /\ MetadataSpec /\ ContextSpec /\ ToolSpec
      => [](/\ BreakerTypeOK /\ ExcelTypeOK /\ WebTypeOK /\ InsightTypeOK /\ QueryTypeOK
            /\ MemoryTypeOK /\ ChatTypeOK /\ MetadataTypeOK /\ ContextTypeOK /\ ToolTypeOK
            /\ QueueIsBreadthFirst /\ ActiveAreAtWork /\ ColumnsAreCounted
            /\ CitationsAreStored)
  BY <1>1, <1>2, <1>3, <1>4, BreakerTypeCorrect, ExcelInvariant, WebTypeCorrect,
     InsightInvariant, QueryInvariant, MemoryTypeCorrect, ChatTypeCorrect, CitationsStayStored,
     MetadataTypeCorrect, ContextTypeCorrect, ToolInvariant, PTL
<1>6. /\ BreakerTypeOK /\ ExcelTypeOK /\ WebTypeOK /\ InsightTypeOK /\ QueryTypeOK
      /\ MemoryTypeOK /\ ChatTypeOK /\ MetadataTypeOK /\ ContextTypeOK /\ ToolTypeOK
      /\ QueueIsBreadthFirst /\ ActiveAreAtWork /\ ColumnsAreCounted /\ CitationsAreStored
      => ServicesTypeOK
  BY DEF ServicesTypeOK
<1> QED BY <1>5, <1>6, PTL
=============================================================================
