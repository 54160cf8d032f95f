--------------------------- MODULE MCAnalysisReview ---------------------------
(* Small instances of AnalysisReview: one KPI with the widget that shows its  *)
(* query, or two KPIs with one widget.                                        *)
EXTENDS AnalysisReview, TLC

CONSTANTS k1, k2, w1, a, b, c

MCShownBy == [w \in WidgetIds |-> k1]
ReviewerSymmetry == Permutations(Reviewers)
=============================================================================
