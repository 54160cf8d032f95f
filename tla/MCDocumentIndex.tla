--------------------------- MODULE MCDocumentIndex ---------------------------
(* Small instances of DocumentIndex: one source, one or two documents.       *)
EXTENDS DocumentIndex, TLC

CONSTANTS d1, d2, w1, w2, q1

\* Workers are interchangeable, and so are documents.
WorkerSymmetry == Permutations(Workers) \cup Permutations(Documents)

\* Two versions are followed without setbacks, a single one with two.
MCMaxSetbacks == [n \in Versions |-> IF n = 1 THEN 2 ELSE 0]
\* Liveness is checked on a single version.
MCLiveSetbacks == [n \in Versions |-> 3]
=============================================================================
