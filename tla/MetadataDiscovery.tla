-------------------------- MODULE MetadataDiscovery --------------------------
(***************************************************************************)
(* The metadata of a database source: discovery reads the customer's       *)
(* database in several calls and replaces what is stored in one            *)
(* transaction (server/services/data-source-service.ts), enrichment reads  *)
(* the selected tables, asks a model and stores one description after the  *)
(* other (server/services/database-intelligence-service.ts), and the owner *)
(* picks the tables that may be used (features/data-sources/actions.ts).   *)
(*                                                                         *)
(* A table's print stands for its metadataFingerprint and those of its     *)
(* columns, 0 for "no such table".  The listings of tables and of columns, *)
(* two calls made together, are one step.  Schemas, relationships, samples *)
(* and embeddings are left out.                                            *)
(***************************************************************************)
EXTENDS Naturals, FiniteSets

CONSTANTS Tables,          \* names of tables of the one schema that is scanned
          Discoverers,     \* requests that discover, at once
          MaxPrint,        \* bound: shapes a table may have
          MaxDatabaseChanges,  \* bound: changes of the customer's database
          MaxRefreshes,    \* bound: successful discoveries
          NotDescribed     \* no semantic description

ASSUME MetadataAssumption ==
  /\ MaxPrint \in Nat \ {0} /\ MaxDatabaseChanges \in Nat /\ MaxRefreshes \in Nat
  /\ NotDescribed \notin Nat

Prints == 0..MaxPrint
NoTable == [print |-> 0, id |-> 0, selected |-> FALSE, about |-> NotDescribed]

VARIABLES
  database,         \* the customer's database: the print of each table, 0 if it has none
  databaseChanges,  \* how often it has changed
  metadataVersion,  \* DataSource.metadataVersion
  stored,           \* DataSourceTable rows with their columns; print 0 is no row
  scannedAt,        \* databaseChanges when the stored scan was begun
  refreshRuns,      \* versions of the MetadataRefreshRun rows
  discovery,        \* each request's progress
  enrichment        \* the one enrichment: the rows it has read and not described yet

metadataVars == <<database, databaseChanges, metadataVersion, stored, scannedAt,
                  refreshRuns, discovery, enrichment>>

Nothing == [t \in Tables |-> 0]
NoDiscovery == [pc |-> "Idle", version |-> 0, began |-> 0, tables |-> Nothing,
                current |-> Nothing]

MetadataTypeOK ==
  /\ database \in [Tables -> Prints]
  /\ databaseChanges \in 0..MaxDatabaseChanges
  /\ metadataVersion \in 0..MaxRefreshes
  /\ stored \in [Tables -> [print: Prints, id: 0..MaxRefreshes,
                            selected: BOOLEAN, about: Prints \cup {NotDescribed}]]
  /\ \A t \in Tables : stored[t].print = 0 => stored[t] = NoTable
  /\ scannedAt \in 0..MaxDatabaseChanges
  /\ refreshRuns \subseteq 1..MaxRefreshes
  /\ discovery \in [Discoverers ->
       [pc: {"Idle", "Listing", "Listed", "Compared"}, version: 0..MaxRefreshes,
        began: 0..MaxDatabaseChanges, tables: [Tables -> Prints],
        current: [Tables -> Prints]]]
  /\ enrichment \in [Tables -> [print: Prints, id: 0..MaxRefreshes]]

MetadataInit ==
  /\ database \in [Tables -> {0, 1}]
  /\ databaseChanges = 0
  /\ metadataVersion = 0
  /\ stored = [t \in Tables |-> NoTable]
  /\ scannedAt = 0
  /\ refreshRuns = {}
  /\ discovery = [d \in Discoverers |-> NoDiscovery]
  /\ enrichment = [t \in Tables |-> [print |-> 0, id |-> 0]]

-----------------------------------------------------------------------------
databaseChange(t, p) ==
  /\ databaseChanges < MaxDatabaseChanges
  /\ p # database[t]
  /\ database' = [database EXCEPT ![t] = p]
  /\ databaseChanges' = databaseChanges + 1
  /\ UNCHANGED <<metadataVersion, stored, scannedAt, refreshRuns, discovery, enrichment>>

\* The source row is read with the connection settings, before anything is listed.
discoverBegin(d) ==
  /\ discovery[d].pc = "Idle"
  /\ metadataVersion < MaxRefreshes
  /\ discovery' = [discovery EXCEPT ![d] =
       [NoDiscovery EXCEPT !.pc = "Listing", !.version = metadataVersion + 1,
                           !.began = databaseChanges]]
  /\ UNCHANGED <<database, databaseChanges, metadataVersion, stored, scannedAt,
                 refreshRuns, enrichment>>

discoverTables(d) ==
  /\ discovery[d].pc = "Listing"
  /\ discovery' = [discovery EXCEPT ![d].pc = "Listed", ![d].tables = database]
  /\ UNCHANGED <<database, databaseChanges, metadataVersion, stored, scannedAt,
                 refreshRuns, enrichment>>

\* What the scan is compared with is read before the transaction.
discoverCompare(d) ==
  /\ discovery[d].pc = "Listed"
  /\ discovery' = [discovery EXCEPT ![d].pc = "Compared",
                                    ![d].current = [t \in Tables |-> stored[t].print]]
  /\ UNCHANGED <<database, databaseChanges, metadataVersion, stored, scannedAt,
                 refreshRuns, enrichment>>

\* Mutant: nothing refuses a second refresh of the same version.
RefreshIsFirstAlways(n) == TRUE
\* @@unique([dataSourceId, version]) on MetadataRefreshRun
RefreshIsFirst(n) == n \notin refreshRuns

\* Mutant: only a table that was not there before counts as changed.
metadataChangedForNew(scan, t) == scan.current[t] = 0
metadataChanged(scan, t) == scan.current[t] # scan.tables[t]

\* upsert of a listed table; only the rows of this version stay.
Upserted(scan, t) ==
  IF scan.tables[t] = 0 THEN NoTable
  ELSE [print |-> scan.tables[t],
        id |-> IF stored[t].print = 0 THEN scan.version ELSE stored[t].id,
        selected |-> stored[t].selected,
        about |-> IF metadataChanged(scan, t) THEN NotDescribed ELSE stored[t].about]

discoverCommit(d) ==
  LET scan == discovery[d] IN
  /\ scan.pc = "Compared"
  /\ RefreshIsFirst(scan.version)
  /\ stored' = [t \in Tables |-> Upserted(scan, t)]
  /\ scannedAt' = scan.began
  /\ metadataVersion' = scan.version
  /\ refreshRuns' = refreshRuns \cup {scan.version}
  /\ discovery' = [discovery EXCEPT ![d] = NoDiscovery]
  /\ UNCHANGED <<database, databaseChanges, enrichment>>

\* The whole transaction is rolled back, or the customer's database did not answer.
discoverFail(d) ==
  /\ discovery[d].pc # "Idle"
  /\ discovery' = [discovery EXCEPT ![d] = NoDiscovery]
  /\ UNCHANGED <<database, databaseChanges, metadataVersion, stored, scannedAt,
                 refreshRuns, enrichment>>

-----------------------------------------------------------------------------
\* Selected by row, and only rows that exist when the page was made and still exist now.
saveDatabaseScope(chosen) ==
  /\ \A t \in chosen : stored[t].print # 0
  /\ stored' = [t \in Tables |-> [stored[t] EXCEPT !.selected = t \in chosen]]
  /\ UNCHANGED <<database, databaseChanges, metadataVersion, scannedAt, refreshRuns,
                 discovery, enrichment>>

Enriching == {t \in Tables : enrichment[t].print # 0}

enrichRead ==
  /\ Enriching = {}
  /\ \E t \in Tables : stored[t].selected
  /\ enrichment' = [t \in Tables |->
       IF stored[t].selected THEN [print |-> stored[t].print, id |-> stored[t].id]
       ELSE [print |-> 0, id |-> 0]]
  /\ UNCHANGED <<database, databaseChanges, metadataVersion, stored, scannedAt,
                 refreshRuns, discovery>>

SameRow(t) == stored[t].print # 0 /\ stored[t].id = enrichment[t].id

\* update where id: whatever the row has become since it was read.
enrichStore(t) ==
  /\ t \in Enriching
  /\ SameRow(t)
  /\ stored' = [stored EXCEPT ![t].about = enrichment[t].print]
  /\ enrichment' = [enrichment EXCEPT ![t] = [print |-> 0, id |-> 0]]
  /\ UNCHANGED <<database, databaseChanges, metadataVersion, scannedAt, refreshRuns,
                 discovery>>

\* No answer, or a row is gone: what is stored stays, the rest is left.
enrichStop ==
  /\ Enriching # {}
  /\ enrichment' = [t \in Tables |-> [print |-> 0, id |-> 0]]
  /\ UNCHANGED <<database, databaseChanges, metadataVersion, stored, scannedAt,
                 refreshRuns, discovery>>

MetadataNext ==
  \/ \E t \in Tables, p \in Prints : databaseChange(t, p)
  \/ \E d \in Discoverers :
       \/ discoverBegin(d) \/ discoverTables(d) \/ discoverCompare(d)
       \/ discoverCommit(d) \/ discoverFail(d)
  \/ \E chosen \in SUBSET Tables : saveDatabaseScope(chosen)
  \/ enrichRead
  \/ \E t \in Tables : enrichStore(t)
  \/ enrichStop

MetadataSpec == MetadataInit /\ [][MetadataNext]_metadataVars

-----------------------------------------------------------------------------
\* Of overlapping discoveries only the first to commit is kept: no scan replaces
\* another that was begun before it, and the version counts the scans that were stored
\* (the version is read before listing and guarded by a unique index only,
\* data-source-service.ts:190,459).
MetadataNeverGoesBack ==
  [][metadataVersion' # metadataVersion =>
       /\ metadataVersion' = metadataVersion + 1
       /\ scannedAt' >= scannedAt]_metadataVars

\* A row never keeps a description that was written for another shape unless an
\* enrichment that read the old shape is what wrote it: a discovery leaves no
\* description behind that it made stale (data-source-service.ts:328,347).  A table that
\* disappeared and came back is a new row, for which no description of the old one is
\* stored (data-source-service.ts:359, database-intelligence-service.ts:769).
DescriptionsFitTheirRows ==
  [][\A t \in Tables :
       /\ stored'[t].about \notin {stored'[t].print, NotDescribed} =>
            \/ stored[t].about = stored'[t].about /\ stored[t].print = stored'[t].print
            \/ enrichment[t].print = stored'[t].about /\ enrichment'[t].print = 0
       /\ stored'[t].about # stored[t].about /\ stored'[t].about # NotDescribed =>
            enrichment[t].id = stored'[t].id]_metadataVars
=============================================================================
