--------------------------- MODULE MetadataContext ---------------------------
(***************************************************************************)
(* What an analysis may tell the model about a database: the selected      *)
(* tables, ranked, cut to the configured numbers, and shrunk piece by      *)
(* piece until the serialized context fits                                 *)
(* (server/services/metadata-context.ts).  One step is one iteration of a  *)
(* loop of enforceCharacterLimit or one of the blocks between them.        *)
(*                                                                         *)
(* Tables are numbers, in the order of their names.  The serialized length *)
(* is a sum of weights, one for each kind of piece; masking, the contents  *)
(* of rows and the business objective are left out.                        *)
(***************************************************************************)
EXTENDS Naturals, Sequences, FiniteSets, SequencesExt

CONSTANTS SelectedTables,   \* numbers of the selected tables
          ColumnCounts,     \* numbers of columns a table may have
          RowCounts,        \* numbers of sample rows a table may yield
          ForeignKeys,      \* sets of <<from, to>> relationships
          RelevantTables,   \* sets of tables that the objective mentions
          MaxTablesLimits,  \* values of AI_MAX_TABLES
          MaxColumnsPerTable,  \* AI_MAX_COLUMNS_PER_TABLE
          CharacterLimits,  \* values of the serialized limit
          MaxReportedOmitted,  \* MAX_REPORTED_OMITTED_TABLES
          Weight            \* characters of each kind of piece

\* What is serialized of a table names it, as does what is said of one that is left out.
ASSUME ContextAssumption ==
  /\ SelectedTables \subseteq Nat /\ SelectedTables # {} /\ IsFiniteSet(SelectedTables)
  /\ {MaxColumnsPerTable, MaxReportedOmitted} \cup MaxTablesLimits \subseteq Nat \ {0}
  /\ ColumnCounts \cup RowCounts \cup CharacterLimits \subseteq Nat
  /\ \A keys \in ForeignKeys : IsFiniteSet(keys)
  /\ Weight \in [{"base", "table", "column", "row", "relationship", "warning", "name",
                  "columnEntry"} -> Nat \ {0}]
  /\ Weight["name"] <= Weight["table"]

VARIABLES
  input,        \* the selection: columns, rows, relevance and primary keys of each table
  limits,       \* the configured numbers
  context,      \* the MetadataContext
  contextPhase, \* where the builder is
  piecesCut     \* the current loop has removed something

contextVars == <<input, limits, context, contextPhase, piecesCut>>

Phases == {"Build", "Rows", "Columns", "Tables", "Report", "Compact", "Check",
           "Accepted", "Refused"}

ContextTypeOK ==
  /\ contextPhase \in Phases
  /\ piecesCut \in BOOLEAN
  /\ limits.characters \in CharacterLimits /\ limits.tables \in MaxTablesLimits
  /\ \A i \in DOMAIN context.tables :
       context.tables[i] \in [name: SelectedTables, columns: Nat, rows: Nat, omitted: Nat]
  /\ context.omittedTables \in Seq(SelectedTables)
  /\ context.omittedColumns \subseteq SelectedTables
  /\ context.warnings \in Nat

EmptyContext == [tables |-> <<>>, relationships |-> {}, omittedTables |-> <<>>,
                 omittedColumns |-> {}, included |-> 0, warnings |-> 0]

ContextInit ==
  /\ \E columns \in [SelectedTables -> ColumnCounts], rows \in [SelectedTables -> RowCounts],
        relevant \in RelevantTables, keys \in ForeignKeys :
       input = [columns |-> columns, rows |-> rows, relevant |-> relevant, keys |-> keys]
  /\ \E t \in MaxTablesLimits, c \in CharacterLimits :
       limits = [tables |-> t, characters |-> c]
  /\ context = EmptyContext
  /\ contextPhase = "Build"
  /\ piecesCut = FALSE

-----------------------------------------------------------------------------
(* rankTables *)

RelationshipDegree(t) ==
  Cardinality({k \in input.keys : k[1] = t}) + Cardinality({k \in input.keys : k[2] = t})

Score(t) == (IF t \in input.relevant THEN 10 ELSE 0) + 3 * RelationshipDegree(t)

Outranks(t, u) == Score(t) > Score(u) \/ (Score(t) = Score(u) /\ t < u)

RankedTables ==
  CHOOSE ranked \in SetToSeqs(SelectedTables) :
    \A i, j \in DOMAIN ranked : i < j => Outranks(ranked[i], ranked[j])

Shortest(a, b) == IF a < b THEN a ELSE b

-----------------------------------------------------------------------------
\* JSON.stringify(context).length
LengthOf(c) ==
  Weight["base"]
  + MapThenSumSet(LAMBDA i : Weight["table"] + Weight["column"] * c.tables[i].columns
                                + Weight["row"] * c.tables[i].rows, DOMAIN c.tables)
  + Weight["relationship"] * Cardinality(c.relationships)
  + Weight["warning"] * c.warnings
  + Weight["name"] * Len(c.omittedTables)
  + Weight["columnEntry"] * Cardinality(c.omittedColumns)

TooLong(c) == LengthOf(c) > limits.characters

IncludedNames(c) == {c.tables[i].name : i \in DOMAIN c.tables}

\* Tables some columns of which are left out.
ShortenedTables(c) ==
  {c.tables[i].name : i \in {i \in DOMAIN c.tables : c.tables[i].omitted > 0}}

TableContext(t) ==
  LET kept == Shortest(input.columns[t], MaxColumnsPerTable)
  IN [name |-> t, columns |-> kept, rows |-> input.rows[t], omitted |-> input.columns[t] - kept]

\* A selection without any rows stands for one whose samples are switched off, which
\* is a warning.
buildMetadataContext ==
  /\ contextPhase = "Build"
  /\ LET ranked == RankedTables
         taken == Shortest(limits.tables, Len(ranked))
         left == SubSeq(ranked, taken + 1, Len(ranked))
         tables == [i \in 1..taken |-> TableContext(ranked[i])]
         draft == [EmptyContext EXCEPT
                     !.tables = tables,
                     !.omittedTables = SubSeq(left, 1, Shortest(MaxReportedOmitted, Len(left))),
                     !.included = taken,
                     !.warnings = (IF left # <<>> THEN 1 ELSE 0)
                                  + (IF \A t \in SelectedTables : input.rows[t] = 0
                                     THEN 1 ELSE 0)]
     IN context' = [draft EXCEPT
          !.relationships = {k \in input.keys : {k[1], k[2]} \subseteq IncludedNames(draft)},
          !.omittedColumns = ShortenedTables(draft)]
  /\ contextPhase' = "Rows"
  /\ UNCHANGED <<input, limits, piecesCut>>

\* The sample loader's failure is the builder's.
samplesFail ==
  /\ contextPhase = "Build"
  /\ \E t \in SelectedTables : input.rows[t] > 0
  /\ contextPhase' = "Refused"
  /\ UNCHANGED <<input, limits, context, piecesCut>>

-----------------------------------------------------------------------------
(* enforceCharacterLimit *)

\* Mutant: the last row of a table is never given up.
RowCandidatesAboveOne == {i \in DOMAIN context.tables : context.tables[i].rows > 1}
RowCandidates == {i \in DOMAIN context.tables : context.tables[i].rows > 0}
\* The first of the tables with the most rows.
FirstOfMostRows(i) ==
  \A j \in RowCandidates : \/ context.tables[i].rows > context.tables[j].rows
                           \/ (context.tables[i].rows = context.tables[j].rows /\ i <= j)

ColumnCandidates == {i \in DOMAIN context.tables : context.tables[i].columns > 1}

cutRow ==
  /\ contextPhase = "Rows" /\ TooLong(context)
  /\ \E i \in RowCandidates :
       /\ FirstOfMostRows(i)
       /\ context' = [context EXCEPT !.tables[i].rows = @ - 1]
  /\ piecesCut' = TRUE
  /\ UNCHANGED <<input, limits, contextPhase>>

OmittedAfterCut(table) == table.omitted + 1

cutColumn ==
  /\ contextPhase = "Columns" /\ TooLong(context)
  /\ \E i \in ColumnCandidates :
       /\ \A j \in ColumnCandidates : j <= i
       /\ context' = [context EXCEPT !.tables[i].columns = @ - 1,
                                     !.tables[i].omitted = OmittedAfterCut(context.tables[i])]
  /\ piecesCut' = TRUE
  /\ UNCHANGED <<input, limits, contextPhase>>

WithoutLast(tables) == SubSeq(tables, 1, Len(tables) - 1)

cutTable ==
  /\ contextPhase = "Tables" /\ TooLong(context)
  /\ Len(context.tables) > 1
  /\ LET kept == WithoutLast(context.tables)
         cut == CHOOSE t \in IncludedNames(context) : \A i \in DOMAIN kept : kept[i].name # t
     IN context' = [context EXCEPT
          !.tables = kept,
          !.omittedTables = IF Len(@) < MaxReportedOmitted THEN Append(@, cut) ELSE @]
  /\ piecesCut' = TRUE
  /\ UNCHANGED <<input, limits, contextPhase>>

Warned(c) == [c EXCEPT !.warnings = @ + (IF piecesCut THEN 1 ELSE 0)]

loopEnds ==
  /\ \/ /\ contextPhase = "Rows"
        /\ ~TooLong(context) \/ RowCandidates = {}
        /\ contextPhase' = "Columns"
        /\ context' = Warned(context)
     \/ /\ contextPhase = "Columns"
        /\ ~TooLong(context) \/ ColumnCandidates = {}
        /\ contextPhase' = "Tables"
        /\ context' = Warned(context)
     \/ /\ contextPhase = "Tables"
        /\ ~TooLong(context) \/ Len(context.tables) <= 1
        /\ contextPhase' = "Report"
        /\ context' = IF piecesCut
                      THEN [Warned(context) EXCEPT !.included = Len(context.tables)]
                      ELSE context
  /\ piecesCut' = FALSE
  /\ UNCHANGED <<input, limits>>

\* What the columns' entries and the last warning add may be too much again.
reportColumns ==
  /\ contextPhase = "Report"
  /\ LET reported == [context EXCEPT !.omittedColumns = ShortenedTables(context)]
     IN /\ context' = reported
        /\ contextPhase' = IF TooLong(reported) THEN "Compact" ELSE "Check"
  /\ UNCHANGED <<input, limits, piecesCut>>

\* Only the first table is left, without columns, whatever had been kept.
ultraCompact ==
  /\ contextPhase = "Compact"
  /\ LET primary == context.tables[1]
     IN context' = [context EXCEPT
          !.tables = <<[primary EXCEPT !.columns = 0, !.rows = 0,
                                       !.omitted = @ + primary.columns]>>,
          !.relationships = {}, !.included = 1, !.omittedColumns = {},
          !.warnings = @ + 1]
  /\ contextPhase' = "Check"
  /\ UNCHANGED <<input, limits, piecesCut>>

checkContext ==
  /\ contextPhase = "Check"
  /\ contextPhase' = IF TooLong(context) THEN "Refused" ELSE "Accepted"
  /\ UNCHANGED <<input, limits, context, piecesCut>>

ContextNext ==
  \/ buildMetadataContext \/ samplesFail
  \/ cutRow \/ cutColumn \/ cutTable \/ loopEnds
  \/ reportColumns \/ ultraCompact \/ checkContext

ContextSpec == ContextInit /\ [][ContextNext]_contextVars

-----------------------------------------------------------------------------
Built == contextPhase # "Build" /\ context.tables # <<>>

\* Whatever is cut, the tables that are left outrank all that are not: the model is never
\* told about a table instead of a more relevant one (metadata-context.ts:117,167,190).
BestTablesAreKept ==
  Built => \A t \in IncludedNames(context), u \in SelectedTables \ IncludedNames(context) :
             Outranks(t, u)

\* The best tables are kept: columns are given up only when no sample row is left, and tables for the sake of the
\* length only when no table has a second column, or when it is but the warnings about
\* what was cut before that make the context too long (metadata-context.ts:130-181).
CheapestPiecesGoFirst ==
  [][/\ BestTablesAreKept'
     /\ context'.tables # context.tables =>
          /\ contextPhase = "Columns" =>
               \/ \A i \in DOMAIN context.tables : context.tables[i].rows = 0
               \/ LengthOf(context) <= limits.characters + Weight["warning"]
          /\ contextPhase = "Tables" =>
               \/ \A i \in DOMAIN context.tables : context.tables[i].columns <= 1
               \/ LengthOf(context) <= limits.characters + Weight["warning"]]_contextVars

\* Of every table in the context the columns that are shown and those that are said to
\* be omitted are together those of the database (metadata-context.ts:155,197,270).
ColumnsAreCounted ==
  Built => \A i \in DOMAIN context.tables :
             context.tables[i].columns + context.tables[i].omitted
               = input.columns[context.tables[i].name]

\* docs/phase1-architecture.md:7: "Omitted tables and columns remain named in
\* scopeReduction; reductions are never silent."  The ultra-compact reduction drops all
\* tables but one and empties the list of omitted columns (metadata-context.ts:189-208).
OmittedRemainNamed ==
  contextPhase = "Accepted" /\ Len(context.omittedTables) < MaxReportedOmitted =>
    /\ SelectedTables \ IncludedNames(context)
         \subseteq {context.omittedTables[i] : i \in DOMAIN context.omittedTables}
    /\ ShortenedTables(context) \subseteq context.omittedColumns

=============================================================================
