--------------------------- MODULE ServicePromises ---------------------------
(***************************************************************************)
(* What services that share no state promise alike.                        *)
(***************************************************************************)
EXTENDS CircuitBreaker, ExcelVersions, WebCrawl, BusinessInsight, DatabaseQuery, UserMemory,
        ChatTurn, MetadataDiscovery, MetadataContext, LegacyApi

\* Nothing recovers these rows: however requests and jobs of insights, database queries and
\* API calls end, none is left in the status of one that is being worked on, unless there was
\* a mishap: a process that died, an exception before the try block, or a failure whose own
\* write failed.
NothingIsForgotten == NoInsightIsForgotten /\ NoQueryIsForgotten /\ NoCallIsForgotten

\* The type invariants of the services, and what keeps their records well formed: the
\* crawl's queue, the connectors that can be broken, the columns that are reported as
\* omitted, and the citations.
ServicesTypeOK ==
  /\ BreakerTypeOK /\ ExcelTypeOK /\ WebTypeOK /\ InsightTypeOK /\ QueryTypeOK
  /\ MemoryTypeOK /\ ChatTypeOK /\ MetadataTypeOK /\ ContextTypeOK /\ ToolTypeOK
  /\ QueueIsBreadthFirst /\ ActiveAreAtWork /\ ColumnsAreCounted /\ CitationsAreStored
=============================================================================
