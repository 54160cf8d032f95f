-------------------------- MODULE MCSourceRefresh --------------------------
(* Small instances of SourceRefresh: one folder with one or two files. *)
EXTENDS SourceRefresh, TLC

CONSTANTS f1, f2, r1, r2, r3, w1, w2, q1

\* Two Drive files may have one name.
MCNameOf == [l \in Locators |-> "name"]
MCOwnNames == [l \in Locators |-> l]
\* Files, workers and ids of runs are interchangeable.
RefreshSymmetry == Permutations(Locators) \cup Permutations(Workers) \cup Permutations(Runs)
=============================================================================
