--------------------------- MODULE MCAnalysisRunner ---------------------------
(* Small instances of AnalysisRunner. *)
EXTENDS AnalysisRunner, TLC

CONSTANTS p1, p2
=============================================================================
