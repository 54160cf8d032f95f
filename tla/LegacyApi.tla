------------------------------ MODULE LegacyApi ------------------------------
(***************************************************************************)
(* A registered API tool: an administrator saves it, assigns it and tests  *)
(* it in one server action of three services calls                         *)
(* (features/legacy-api/actions.ts, server/services/legacy-api-service.ts, *)
(* server/services/unified-source-service.ts); a chat plans a call when    *)
(* the tool is ready and makes it.  Every call is a LegacyApiInvocation.   *)
(*                                                                         *)
(* A contract stands for everything that is registered about the           *)
(* operation.  What the remote API answers, and whether the parameters     *)
(* suffice, is open.  Credentials, masking and assignments to bots are     *)
(* left out.                                                               *)
(***************************************************************************)
EXTENDS Naturals, FiniteSets

CONSTANTS Administrators,  \* requests that save and test
          Chats,           \* requests that plan and call
          Contracts,       \* what may be registered
          MaxToolMishaps,  \* bound: requests that die, failures that cannot be written
          NoTool, NoCall   \* no LegacyApi, no LegacyApiInvocation row

SourceStatuses == {"DRAFT", "READY", "FAILED", "DISABLED"}
CallStatuses == {"CLARIFICATION_REQUIRED", "EXECUTING", "COMPLETED", "FAILED"}
ToolRows == [contract: Contracts, enabled: BOOLEAN, sourceStatus: SourceStatuses]
CallRows == [contract: Contracts, status: CallStatuses]

ASSUME ToolAssumption ==
  /\ Administrators \cap Chats = {}
  /\ MaxToolMishaps \in Nat
  /\ NoTool \notin ToolRows /\ NoCall \notin CallRows

ToolRequests == Administrators \cup Chats

VARIABLES
  tool,          \* the LegacyApi row: contract, enabled, sourceStatus
  invocation,    \* invocation[r]: the row that request r has created
  toolRequest,   \* toolRequest[r]: where request r is, and what it has read
  toolMishaps    \* requests that died, failures that were not written

toolVars == <<tool, invocation, toolRequest, toolMishaps>>

Unused == [at |-> "Idle", enabled |-> FALSE, outcome |-> "none"]

ToolTypeOK ==
  /\ tool \in ToolRows \cup {NoTool}
  /\ invocation \in [ToolRequests -> CallRows \cup {NoCall}]
  /\ toolRequest \in [ToolRequests ->
       [at: {"Idle", "Saved", "Call", "Fetching", "Tested", "Done", "Dead", "Unwritten"},
        enabled: BOOLEAN,
        outcome: {"none", "ok", "clarification", "failure"}]]
  /\ toolMishaps \in 0..MaxToolMishaps

ToolInit ==
  /\ \E c \in Contracts :
       tool = [contract |-> c, enabled |-> TRUE, sourceStatus |-> "DRAFT"]
  /\ invocation = [r \in ToolRequests |-> NoCall]
  /\ toolRequest = [r \in ToolRequests |-> Unused]
  /\ toolMishaps = 0

-----------------------------------------------------------------------------
ToolExists == tool # NoTool
Callable == IF ToolExists THEN tool.enabled ELSE FALSE
IsReady == IF ToolExists THEN tool.sourceStatus = "READY" ELSE FALSE
HasStatus(r, s) == IF invocation[r] = NoCall THEN FALSE ELSE invocation[r].status = s
Moves(r, to) == toolRequest' = [toolRequest EXCEPT ![r].at = to]

\* The update of a tool that has been deleted meanwhile throws.
saveLegacyApi(a, c, enabled) ==
  /\ toolRequest[a].at = "Idle"
  /\ ToolExists
  /\ tool' = [tool EXCEPT !.contract = c, !.enabled = enabled]
  /\ toolRequest' = [toolRequest EXCEPT ![a].at = "Saved", ![a].enabled = enabled]
  /\ UNCHANGED <<invocation, toolMishaps>>

AssignedStatus(enabled) ==
  IF ~enabled THEN "DISABLED"
  ELSE IF tool.sourceStatus = "DISABLED" THEN "DRAFT" ELSE tool.sourceStatus

\* updateSourceAssignment: called after a save, and from the list of sources.
assign(enabled) ==
  /\ ToolExists
  /\ tool' = [tool EXCEPT !.enabled = enabled, !.sourceStatus = AssignedStatus(enabled)]

assignAfterSave(a) ==
  /\ toolRequest[a].at = "Saved"
  /\ assign(toolRequest[a].enabled)
  /\ Moves(a, "Call")
  /\ UNCHANGED <<invocation, toolMishaps>>

updateSourceAssignment(enabled) ==
  /\ assign(enabled)
  /\ UNCHANGED <<invocation, toolRequest, toolMishaps>>

\* testLegacyApiAction: a test without a save.
testLegacyApi(a) ==
  /\ toolRequest[a].at = "Idle"
  /\ Moves(a, "Call")
  /\ UNCHANGED <<tool, invocation, toolMishaps>>

planLegacyApiToolCall(h) ==
  /\ toolRequest[h].at = "Idle"
  /\ Callable /\ IsReady
  /\ Moves(h, "Call")
  /\ UNCHANGED <<tool, invocation, toolMishaps>>

\* After a call a test has its outcome to write, a chat has its answer.
Returns(r, outcome) ==
  toolRequest' = [toolRequest EXCEPT
    ![r].at = IF r \in Administrators THEN "Tested" ELSE "Done", ![r].outcome = outcome]

callRefused(r) ==
  /\ toolRequest[r].at = "Call"
  /\ ~Callable
  /\ Returns(r, "failure")
  /\ UNCHANGED <<tool, invocation, toolMishaps>>

\* The contract is read once; a call without all parameters asks for them and is over.
callBegins(r) ==
  /\ toolRequest[r].at = "Call"
  /\ Callable
  /\ \/ /\ invocation' = [invocation EXCEPT ![r] =
             [contract |-> tool.contract, status |-> "CLARIFICATION_REQUIRED"]]
        /\ Returns(r, "clarification")
     \/ /\ invocation' = [invocation EXCEPT ![r] =
             [contract |-> tool.contract, status |-> "EXECUTING"]]
        /\ Moves(r, "Fetching")
  /\ UNCHANGED <<tool, toolMishaps>>

callCompletes(r) ==
  /\ toolRequest[r].at = "Fetching"
  /\ invocation[r] # NoCall
  /\ invocation' = [invocation EXCEPT ![r].status = "COMPLETED"]
  /\ Returns(r, "ok")
  /\ UNCHANGED <<tool, toolMishaps>>

FailedStatus(r) == "FAILED"

\* No answer, an answer that does not fit the schema, or an error while storing it.
callFails(r) ==
  /\ toolRequest[r].at = "Fetching"
  /\ invocation[r] # NoCall
  /\ invocation' = [invocation EXCEPT ![r].status = FailedStatus(r)]
  /\ Returns(r, "failure")
  /\ UNCHANGED <<tool, toolMishaps>>

\* The transaction of the catch block throws: neither the failure nor, of a test, its outcome
\* is written.
failureIsLost(r) ==
  /\ toolRequest[r].at = "Fetching"
  /\ toolMishaps < MaxToolMishaps
  /\ toolMishaps' = toolMishaps + 1
  /\ Moves(r, "Unwritten")
  /\ UNCHANGED <<tool, invocation>>

\* The row went with its tool: both transactions throw, and so does the request.
callRaises(r) ==
  /\ toolRequest[r].at = "Fetching"
  /\ invocation[r] = NoCall
  /\ Moves(r, "Done")
  /\ UNCHANGED <<tool, invocation, toolMishaps>>

\* Mutant: any result that is not an error makes the tool ready.
TestPassedWithoutError(a) == toolRequest[a].outcome # "failure"
TestPassed(a) == toolRequest[a].outcome = "ok"

\* update where id: also for a tool that was saved again or disabled meanwhile.
testStores(a) ==
  /\ toolRequest[a].at = "Tested"
  /\ ToolExists
  /\ tool' = [tool EXCEPT !.sourceStatus = IF TestPassed(a) THEN "READY" ELSE "FAILED"]
  /\ Moves(a, "Done")
  /\ UNCHANGED <<invocation, toolMishaps>>

deleteLegacyApi ==
  /\ ToolExists
  /\ tool' = NoTool
  /\ invocation' = [r \in ToolRequests |-> NoCall]
  /\ UNCHANGED <<toolRequest, toolMishaps>>

requestDies(r) ==
  /\ toolRequest[r].at \notin {"Idle", "Done", "Dead", "Unwritten"}
  /\ toolMishaps < MaxToolMishaps
  /\ toolMishaps' = toolMishaps + 1
  /\ Moves(r, "Dead")
  /\ UNCHANGED <<tool, invocation>>

ToolNext ==
  \/ \E a \in Administrators :
       \/ \E c \in Contracts, enabled \in BOOLEAN : saveLegacyApi(a, c, enabled)
       \/ assignAfterSave(a) \/ testLegacyApi(a) \/ testStores(a)
  \/ \E enabled \in BOOLEAN : updateSourceAssignment(enabled)
  \/ \E h \in Chats : planLegacyApiToolCall(h)
  \/ \E r \in ToolRequests :
       \/ callRefused(r) \/ callBegins(r) \/ callCompletes(r) \/ callFails(r)
       \/ callRaises(r) \/ failureIsLost(r) \/ requestDies(r)
  \/ deleteLegacyApi

ToolSpec == ToolInit /\ [][ToolNext]_toolVars

-----------------------------------------------------------------------------
\* A tool is ready only if a test's own call has completed; a test that had to ask for
\* parameters returns without an error and does not count (legacy-api-service.ts:842).
ReadyToolsWereTested ==
  IsReady => \E a \in Administrators : HasStatus(a, "COMPLETED")

\* However a request ends, its call does not stay EXECUTING, unless the process died or the
\* failure could not be written (legacy-api-service.ts:785).
NoCallIsForgotten ==
  \A r \in ToolRequests :
    HasStatus(r, "EXECUTING") => toolRequest[r].at \in {"Fetching", "Dead", "Unwritten"}

=============================================================================
