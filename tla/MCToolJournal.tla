---------------------------- MODULE MCToolJournal ---------------------------
(* Three executors over an idempotent and a non-idempotent call.           *)
EXTENDS ToolJournal, TLC

CONSTANTS c1, c2, e1, e2, e3, v1, v2, d1

\* Executors and results are interchangeable.
Symmetry == Permutations(Executors) \cup Permutations(Results)

=============================================================================
