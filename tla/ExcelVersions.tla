---------------------------- MODULE ExcelVersions ----------------------------
(***************************************************************************)
(* Replacing and rolling back the workbook of an Excel data source         *)
(* (server/services/excel-version.ts).  A request reads the versions,      *)
(* then runs one READ COMMITTED transaction whose first statement clears   *)
(* the current flags it can see and waits for whoever is changing them.    *)
(* What the transaction does after that statement becomes visible at once, *)
(* so it is one step.                                                      *)
(*                                                                         *)
(* A schema stands for the sheets and columns of a workbook.  Rows, audit  *)
(* entries and the preview are left out.                                   *)
(***************************************************************************)
EXTENDS Naturals, FiniteSets

CONSTANTS Editors,      \* requests in flight at once
          Schemas,      \* sets of sheets and columns a workbook may have
          MaxVersions,  \* bound: versions of the data source
          NoVersion     \* no ExcelFileVersion row

ASSUME ExcelAssumption ==
  /\ MaxVersions \in Nat \ {0} /\ Schemas # {}
  /\ NoVersion \notin [schema: Schemas, isCurrent: BOOLEAN]

VersionNumbers == 1..MaxVersions

VARIABLES
  version,           \* version[n]: the ExcelFileVersion row with that number
  fileVersion,       \* the version that DataSourceFile and the metadata describe
  hasSchemaWarning,  \* of the dashboards of the data source
  edit               \* edit[e]: the request, what it has read and locked

excelVars == <<version, fileVersion, hasSchemaWarning, edit>>

EditPhases == {"Idle", "Begin", "Blocked", "Open"}
NoEdit == [phase |-> "Idle", rollback |-> FALSE, target |-> 0, schema |-> NoVersion,
           schemaChanged |-> FALSE, rows |-> {}]

ExcelTypeOK ==
  /\ \A n \in VersionNumbers :
       version[n] = NoVersion \/ version[n] \in [schema: Schemas, isCurrent: BOOLEAN]
  /\ version[fileVersion] # NoVersion
  /\ hasSchemaWarning \in BOOLEAN
  /\ \A e \in Editors :
       /\ edit[e].phase \in EditPhases
       /\ edit[e].rows \subseteq {n \in VersionNumbers : version[n] # NoVersion}
       /\ edit[e].phase # "Idle" => edit[e].target \in VersionNumbers

\* The upload that created the data source.
ExcelInit ==
  /\ \E s \in Schemas :
       version = [n \in VersionNumbers |->
                    IF n = 1 THEN [schema |-> s, isCurrent |-> TRUE] ELSE NoVersion]
  /\ fileVersion = 1
  /\ hasSchemaWarning = FALSE
  /\ edit = [e \in Editors |-> NoEdit]

-----------------------------------------------------------------------------
Uploaded == {n \in VersionNumbers : version[n] # NoVersion}
CurrentVersions == {n \in Uploaded : version[n].isCurrent}

\* Mutant: what was removed is forgotten.
schemaGrew(previous, s) == s \ version[previous].schema # {}
schemaChanged(previous, s) == version[previous].schema # s

\* Compared with the first of possibly several current versions, in no particular order.
replaceRead(e, s) ==
  /\ edit[e].phase = "Idle"
  /\ Cardinality(Uploaded) < MaxVersions
  /\ \E previous \in CurrentVersions :
       edit' = [edit EXCEPT ![e] =
         [phase |-> "Begin", rollback |-> FALSE, target |-> Cardinality(Uploaded) + 1,
          schema |-> s, schemaChanged |-> schemaChanged(previous, s), rows |-> {}]]
  /\ UNCHANGED <<version, fileVersion, hasSchemaWarning>>

rollbackRead(e, n) ==
  /\ edit[e].phase = "Idle"
  /\ n \in Uploaded \ CurrentVersions
  /\ edit' = [edit EXCEPT ![e] =
       [phase |-> "Begin", rollback |-> TRUE, target |-> n,
        schema |-> version[n].schema, schemaChanged |-> TRUE, rows |-> {}]]
  /\ UNCHANGED <<version, fileVersion, hasSchemaWarning>>

\* Rows that another transaction has changed and not committed yet.
Locked(e) == UNION {edit[f].rows : f \in {f \in Editors \ {e} : edit[f].phase = "Open"}}

\* updateMany: of the rows it found, those are changed that are still current when their
\* locks are free.  Rows that became current meanwhile are not looked at.
clearCurrent(e) ==
  /\ edit[e].phase = "Begin"
  /\ edit' = [edit EXCEPT ![e].phase =
                            IF CurrentVersions \cap Locked(e) = {} THEN "Open" ELSE "Blocked",
                          ![e].rows = CurrentVersions]
  /\ UNCHANGED <<version, fileVersion, hasSchemaWarning>>

StillCurrent(e) == edit[e].rows \cap CurrentVersions

clearUnblocked(e) ==
  /\ edit[e].phase = "Blocked"
  /\ edit[e].rows \cap Locked(e) = {}
  /\ edit' = [edit EXCEPT ![e].phase = "Open", ![e].rows = StillCurrent(e)]
  /\ UNCHANGED <<version, fileVersion, hasSchemaWarning>>

Cleared(e) == [n \in VersionNumbers |->
  IF n \in edit[e].rows THEN [version[n] EXCEPT !.isCurrent = FALSE] ELSE version[n]]
\* @@unique([dataSourceId, version])
VersionNumberIsFree(n) == version[n] = NoVersion
\* Mutant: the restored version keeps its flag.
flagRestoredNot(e) == FALSE
flagRestored(e) == TRUE

replaceCommit(e) ==
  /\ edit[e].phase = "Open" /\ ~edit[e].rollback
  /\ VersionNumberIsFree(edit[e].target)
  /\ version' = [Cleared(e) EXCEPT ![edit[e].target] =
                   [schema |-> edit[e].schema, isCurrent |-> TRUE]]
  /\ fileVersion' = edit[e].target
  /\ hasSchemaWarning' = (hasSchemaWarning \/ edit[e].schemaChanged)
  /\ edit' = [edit EXCEPT ![e] = NoEdit]

rollbackCommit(e) ==
  /\ edit[e].phase = "Open" /\ edit[e].rollback
  /\ version' = [Cleared(e) EXCEPT ![edit[e].target].isCurrent = flagRestored(e)]
  /\ fileVersion' = edit[e].target
  /\ hasSchemaWarning' = TRUE
  /\ edit' = [edit EXCEPT ![e] = NoEdit]

\* A unique key, a timeout or any other error ends the request without a trace.
editFails(e) ==
  /\ edit[e].phase # "Idle"
  /\ edit' = [edit EXCEPT ![e] = NoEdit]
  /\ UNCHANGED <<version, fileVersion, hasSchemaWarning>>

ExcelNext == \E e \in Editors :
  \/ \E s \in Schemas : replaceRead(e, s)
  \/ \E n \in VersionNumbers : rollbackRead(e, n)
  \/ clearCurrent(e) \/ clearUnblocked(e)
  \/ replaceCommit(e) \/ rollbackCommit(e) \/ editFails(e)

ExcelSpec == ExcelInit /\ [][ExcelNext]_excelVars

-----------------------------------------------------------------------------
(* Properties. *)

\* The version whose bytes and columns the data source uses is marked current, whichever
\* replacements and rollbacks overlap.
FileVersionIsCurrent == fileVersion \in CurrentVersions

\* A data source whose columns ever changed has its dashboards marked for review, although a
\* request compares its workbook with versions it read before its transaction.
SchemaChangesAreMarked ==
  [][version'[fileVersion'].schema # version[fileVersion].schema => hasSchemaWarning']_excelVars
=============================================================================
