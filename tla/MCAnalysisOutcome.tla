--------------------------- MODULE MCAnalysisOutcome ---------------------------
(***************************************************************************)
(* What an analysis leaves behind, on small instances that one run         *)
(* explores one after the other, chosen by `part` at the start: the rows   *)
(* of the stages (AnalysisStages), and the dashboard with its jobs and     *)
(* versions (AnalysisJob with two jobs).                                   *)
(***************************************************************************)
EXTENDS AnalysisStages, AnalysisJob, TLC

CONSTANTS k1, k2,                 \* AnalysisStages: KPIs
          r1, r2,                 \* and runners
          j1, j2, q1, q2, o1, o2  \* AnalysisJob: jobs, requests, objectives

VARIABLES part

MCWrites == 1..(StageCount - 1)
MCReads == [s \in 1..StageCount |-> IF s \in {1, StageCount} THEN {} ELSE {s - 1}]

MCSymmetry == Permutations(Runners)

OutcomeInit == part \in {"stages", "dashboard"} /\ StagesInit /\ Init

OutcomeNext ==
  /\ \/ part = "stages" /\ StagesNext /\ UNCHANGED vars
     \/ part = "dashboard" /\ Next /\ UNCHANGED stageVars
  /\ UNCHANGED part

OutcomeSpec == OutcomeInit /\ [][OutcomeNext]_<<part, stageVars, vars>>
=============================================================================
