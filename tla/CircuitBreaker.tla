---------------------------- MODULE CircuitBreaker ----------------------------
(***************************************************************************)
(* The circuit breaker that all calls of one primary AI provider share in  *)
(* a process (server/ai/resilient-provider.ts), and the calls around it:   *)
(* a call asks the breaker, waits for the primary, records what came of it *)
(* and may go on to the fallback.  Answers arrive in any order.            *)
(*                                                                         *)
(* Time is what is left of the cooldown.  `failing` and `halfOpen` record  *)
(* history for the properties and are read by no action.                   *)
(***************************************************************************)
EXTENDS Naturals, FiniteSets

CONSTANTS Callers,           \* concurrent calls of the process
          FailureThreshold,  \* AI_CIRCUIT_FAILURE_THRESHOLD
          Cooldown,          \* AI_CIRCUIT_COOLDOWN_MS, in ticks
          HasFallback,       \* is a fallback provider configured?
          NotOpen            \* openedAt is undefined

ASSUME BreakerAssumption ==
  /\ IsFiniteSet(Callers)
  /\ FailureThreshold \in Nat \ {0}
  /\ Cooldown \in Nat \ {0}
  /\ HasFallback \in BOOLEAN
  /\ NotOpen \notin Nat

VARIABLES
  failures,  \* counted failures
  cooling,   \* openedAt: time left until the cooldown is over, or NotOpen
  call,      \* call[c]: where the call is, and whether it is a health check
  failing,   \* failures since the last success, counted up to the threshold
  halfOpen   \* has the cooldown ended without an answer since?

breakerVars == <<failures, cooling, call, failing, halfOpen>>

CallPhases == {"Idle", "Primary", "Probe", "Fallback"}
IdleCall == [phase |-> "Idle", health |-> FALSE]

\* A call that finds the circuit open is not waiting for the primary, so no more failures
\* than calls arrive while it is open.
BreakerTypeOK ==
  /\ failures \in 0..(FailureThreshold + Cardinality(Callers) - 1)
  /\ cooling \in 0..Cooldown \cup {NotOpen}
  /\ call \in [Callers -> [phase: CallPhases, health: BOOLEAN]]
  /\ failing \in 0..FailureThreshold
  /\ halfOpen \in BOOLEAN

BreakerInit ==
  /\ failures = 0
  /\ cooling = NotOpen
  /\ call = [c \in Callers |-> IdleCall]
  /\ failing = 0
  /\ halfOpen = FALSE

-----------------------------------------------------------------------------
AtPrimary(c) == call[c].phase \in {"Primary", "Probe"}
failuresAfterCooldown == FailureThreshold - 1
\* Mutant: a success closes the circuit and forgets to count from zero.
failuresKept == failures
failuresAfterSuccess == 0

\* With a fallback the call goes on to it.
NextAfterFailure == IF HasFallback THEN "Fallback" ELSE "Idle"

\* canRequest answers yes.
request(c, health) ==
  /\ call[c].phase = "Idle"
  /\ cooling = NotOpen
  /\ call' = [call EXCEPT ![c] = [phase |-> IF halfOpen THEN "Probe" ELSE "Primary",
                                  health |-> health]]
  /\ UNCHANGED <<failures, cooling, failing, halfOpen>>

\* canRequest finds the cooldown over.
requestProbe(c, health) ==
  /\ call[c].phase = "Idle"
  /\ cooling = 0
  /\ cooling' = NotOpen
  /\ failures' = failuresAfterCooldown
  /\ halfOpen' = TRUE
  /\ call' = [call EXCEPT ![c] = [phase |-> "Probe", health |-> health]]
  /\ UNCHANGED failing

\* canRequest answers no.
requestRefused(c, health) ==
  /\ call[c].phase = "Idle"
  /\ cooling \notin {NotOpen, 0}
  /\ call' = [call EXCEPT ![c] = [phase |-> NextAfterFailure, health |-> health]]
  /\ UNCHANGED <<failures, cooling, failing, halfOpen>>

recordSuccess(c) ==
  /\ AtPrimary(c)
  /\ failures' = failuresAfterSuccess
  /\ cooling' = NotOpen
  /\ failing' = 0
  /\ halfOpen' = FALSE
  /\ call' = [call EXCEPT ![c] = IdleCall]

Trips(n) == n >= FailureThreshold

\* A retryable error, or any error of a health check.
recordFailure(c) ==
  /\ AtPrimary(c)
  /\ failures' = failures + 1
  /\ cooling' = IF Trips(failures + 1) THEN Cooldown ELSE cooling
  /\ failing' = IF failing < FailureThreshold THEN failing + 1 ELSE failing
  /\ halfOpen' = FALSE
  /\ call' = [call EXCEPT ![c].phase = NextAfterFailure]

\* Any other error of the primary is the caller's answer and records nothing.
failUnrecorded(c) ==
  /\ AtPrimary(c)
  /\ ~call[c].health
  /\ call' = [call EXCEPT ![c] = IdleCall]
  /\ UNCHANGED <<failures, cooling, failing, halfOpen>>

fallbackAnswers(c) ==
  /\ call[c].phase = "Fallback"
  /\ call' = [call EXCEPT ![c] = IdleCall]
  /\ UNCHANGED <<failures, cooling, failing, halfOpen>>

timePasses ==
  /\ cooling \notin {NotOpen, 0}
  /\ cooling' = cooling - 1
  /\ UNCHANGED <<failures, call, failing, halfOpen>>

BreakerNext ==
  \/ \E c \in Callers, health \in BOOLEAN :
       request(c, health) \/ requestProbe(c, health) \/ requestRefused(c, health)
  \/ \E c \in Callers :
       recordSuccess(c) \/ recordFailure(c) \/ failUnrecorded(c) \/ fallbackAnswers(c)
  \/ timePasses

BreakerSpec == BreakerInit /\ [][BreakerNext]_breakerVars

-----------------------------------------------------------------------------
(* Properties. *)

\* The circuit is open exactly while the count has reached the threshold, however late the
\* answers of earlier calls arrive; so canRequest, which looks at openedAt only, and
\* recordFailure, which looks at the count only, agree.
OpenIffThreshold == cooling # NotOpen <=> failures >= FailureThreshold

\* The circuit opens only on FailureThreshold failures since the last success; the ones that
\* canRequest invents when the cooldown is over stand for failures there have been.
OpensOnlyOnFailures ==
  /\ OpenIffThreshold
  /\ cooling # NotOpen \/ halfOpen => failing = FailureThreshold

\* docs/phase8-execution.md:28: the circuit breaker has "a single half-open probe".
SingleProbe == halfOpen => Cardinality({c \in Callers : call[c].phase = "Probe"}) <= 1
=============================================================================
