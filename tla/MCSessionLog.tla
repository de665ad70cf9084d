---------------------------- MODULE MCSessionLog ----------------------------
(* Instances of SessionLog for TLC.                                        *)
EXTENDS SessionLog

CONSTANTS r1, r2, a, b

Symmetry == Permutations(Runs) \cup Permutations(Calls)

=============================================================================
