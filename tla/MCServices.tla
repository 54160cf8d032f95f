------------------------------ MODULE MCServices ------------------------------
(***************************************************************************)
(* Small instances of the services that share no state in the models: one  *)
(* run explores each of them by itself, chosen by `service` at the start.  *)
(* The other ones rest in one of their initial states.                     *)
(***************************************************************************)
EXTENDS ServicePromises, MCMetadataContext, TLC

CONSTANTS c1, c2, c3,             \* CircuitBreaker, BusinessInsight
          root, a, b,             \* WebCrawl
          w1, w2,                 \* BusinessInsight
          q1, q2, q3, q4, p1, p2, \* DatabaseQuery
          d1, d2                  \* MetadataDiscovery

VARIABLE service

MCLinks == {<<>>, <<a, b>>, <<root, b>>}

MCProcessOf == [q \in QueryRequests |-> IF q \in {q1, q2} THEN p1 ELSE p2]

MCDecisions ==
  {[bot |-> Global, status |-> "GRANTED", categories |-> Categories],
   [bot |-> Global, status |-> "REVOKED", categories |-> {"PREFERENCE"}],
   [bot |-> "b1", status |-> "GRANTED", categories |-> {"PREFERENCE"}],
   [bot |-> "b1", status |-> "REVOKED", categories |-> Categories]}

ServicesSymmetry == Permutations(Discoverers) \cup Permutations(InsightWorkers)

ServiceNames ==
  {"breaker", "excel", "crawl", "insight", "query", "memory", "chat",
   "discovery", "context", "tool"}

\* One initial state of a service that is not explored.
Rests(s, state) == service = s \/ state

ServicesInit ==
  /\ service \in ServiceNames
  /\ BreakerInit /\ QueryInit /\ MemoryInit
  /\ Rests("excel", version = [n \in VersionNumbers |->
       IF n = 1 THEN [schema |-> CHOOSE s \in Schemas : TRUE, isCurrent |-> TRUE]
       ELSE NoVersion])
  /\ ExcelInit
  /\ Rests("crawl", /\ maxDepth = 1 /\ maxPages = 2
                    /\ site = [p \in Pages |->
                         [answer |-> "OK", links |-> << >>, content |-> 0,
                          finalUrl |-> p, canonicalUrl |-> p]])
  /\ WebInit
  /\ Rests("insight", messageCount = [c \in Conversations |-> 0]) /\ InsightInit
  /\ Rests("chat", old = FALSE /\ messages = << >>) /\ ChatInit
  /\ Rests("discovery", database = [t \in Tables |-> 0]) /\ MetadataInit
  /\ Rests("context", /\ input = [columns |-> [t \in SelectedTables |-> 1],
                                  rows |-> [t \in SelectedTables |-> 0],
                                  relevant |-> {}, keys |-> {}]
                      /\ limits = [tables |-> 2, characters |-> 100])
  /\ ContextInit
  /\ Rests("tool", tool = [contract |-> CHOOSE c \in Contracts : TRUE, enabled |-> TRUE,
                           sourceStatus |-> "DRAFT"])
  /\ ToolInit

OnlyIn(s, itsVars) == IF service = s THEN TRUE ELSE UNCHANGED itsVars

ServicesNext ==
  /\ \/ service = "breaker" /\ BreakerNext
     \/ service = "excel" /\ ExcelNext
     \/ service = "crawl" /\ WebNext
     \/ service = "insight" /\ InsightNext
     \/ service = "query" /\ QueryNext
     \/ service = "memory" /\ MemoryNext
     \/ service = "chat" /\ ChatNext
     \/ service = "discovery" /\ MetadataNext
     \/ service = "context" /\ ContextNext
     \/ service = "tool" /\ ToolNext
  /\ OnlyIn("breaker", breakerVars) /\ OnlyIn("excel", excelVars)
  /\ OnlyIn("crawl", webVars) /\ OnlyIn("insight", insightVars) /\ OnlyIn("query", queryVars)
  /\ OnlyIn("memory", memoryVars) /\ OnlyIn("chat", chatVars)
  /\ OnlyIn("discovery", metadataVars) /\ OnlyIn("context", contextVars)
  /\ OnlyIn("tool", toolVars)
  /\ UNCHANGED service

servicesVars ==
  <<service, breakerVars, excelVars, webVars, insightVars, queryVars, memoryVars,
    chatVars, metadataVars, contextVars, toolVars>>

ServicesSpec == ServicesInit /\ [][ServicesNext]_servicesVars
=============================================================================
