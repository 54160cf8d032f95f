---------------------------- MODULE MCAnalysisJob ----------------------------
(* Small instances of AnalysisJob.  The stages are the ends of STAGE_ORDER:  *)
(* those that read what the one before wrote, the last but one of them       *)
(* GENERATING_INSIGHTS, which hands over to the reviewers, and the last one  *)
(* FINALIZING_DASHBOARD, which reads and writes nothing.                     *)
EXTENDS AnalysisJob, TLC

CONSTANTS r1, r2, r3, j1, j2, o1, o2

MCWrites == 1..(StageCount - 1)

MCReads == [s \in 1..StageCount |-> IF s \in {1, StageCount} THEN {} ELSE {s - 1}]
=============================================================================
