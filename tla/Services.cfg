SPECIFICATION ServicesSpec
CHECK_DEADLOCK FALSE
CONSTANTS
  c1 = c1
  c2 = c2
  c3 = c3
  root = root
  a = a
  b = b
  w1 = w1
  w2 = w2
  q1 = q1
  q2 = q2
  q3 = q3
  q4 = q4
  p1 = p1
  p2 = p2
  d1 = d1
  d2 = d2
  Callers = {c1, c2, c3}
  FailureThreshold = 3
  Cooldown = 2
  HasFallback = TRUE
  NotOpen = NotOpen
  Editors = {"e1", "e2"}
  Schemas = {{"x"}, {"x", "y"}}
  MaxVersions = 3
  NoVersion = NoVersion
  Pages = {root, a, b}
  Root = root
  NoPage = NoPage
  NoSnapshot = NoSnapshot
  CrawlDepths = {1, 2}
  PageLimits = {2, 3}
  LinkLists <- MCLinks
  Targets = {b}
  MaxSiteChanges = 1
  Conversations = {c1, c2}
  InsightWorkers = {w1, w2}
  MinConversations = 2
  MinMessages = 3
  MaxMessages = 2
  InsightAttempts = 2
  MaxMishaps = 1
  NoResult = NoResult
  QueryRequests = {q1, q2, q3, q4}
  QueryProcesses = {p1, p2}
  ProcessOf <- MCProcessOf
  MaxQueryMishaps = 1
  Bots = {"b1"}
  Global = "Global"
  Categories = {"PREFERENCE", "PROJECT"}
  Decisions <- MCDecisions
  Savers = {"s1"}
  MaxConsents = 2
  NoMemory = NoMemory
  NoConsent = NoConsent
  Turns = {1, 2}
  Chunks = {"k1"}
  SummarizeAt = 2
  KeepRecent = 1
  MinCandidates = 1
  Tables = {"a"}
  Discoverers = {d1, d2}
  MaxPrint = 2
  MaxDatabaseChanges = 2
  MaxRefreshes = 3
  NotDescribed = NotDescribed
  SelectedTables = {1, 2, 3}
  ColumnCounts = {1, 3}
  RowCounts = {0, 1}
  ForeignKeys <- MCForeignKeys
  RelevantTables <- MCRelevantTables
  MaxTablesLimits = {2, 3}
  MaxColumnsPerTable = 2
  CharacterLimits = {100, 120, 150, 180}
  MaxReportedOmitted = 100
  Weight <- MCWeight
  Administrators = {"a1", "a2"}
  Chats = {"h1"}
  Contracts = {"A", "B"}
  MaxToolMishaps = 1
  NoTool = NoTool
  NoCall = NoCall
SYMMETRY ServicesSymmetry
INVARIANTS
  ServicesTypeOK
  OpensOnlyOnFailures
  FileVersionIsCurrent
  ConclusionsHaveSnapshots
  NothingIsForgotten
  RunsOnce
  CancelledShowsNoResult
  SummariesArePrefixes
  ReadyToolsWereTested
PROPERTIES
  SchemaChangesAreMarked
  CrawlHidesWhatIsGone
  ConsentIsRespected
  MetadataNeverGoesBack
  DescriptionsFitTheirRows
  CheapestPiecesGoFirst
