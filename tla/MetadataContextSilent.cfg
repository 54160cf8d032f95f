SPECIFICATION ContextSpec
CHECK_DEADLOCK FALSE
CONSTANTS
  SelectedTables = {1, 2, 3}
  ColumnCounts = {1, 3}
  RowCounts = {0, 1}
  ForeignKeys <- MCForeignKeys
  RelevantTables <- MCRelevantTables
  MaxTablesLimits = {2, 3}
  MaxColumnsPerTable = 2
  CharacterLimits = {100, 120, 150, 180}
  MaxReportedOmitted = 100
  Weight <- MCWeight
INVARIANT OmittedRemainNamed
