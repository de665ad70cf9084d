----------------------------- MODULE MCRunQueue -----------------------------
(* Instances of RunQueue for TLC.                                          *)
EXTENDS RunQueue, TLC

CONSTANTS r1, r2, r3, w1, w2, c1, c2, k1, k2, s1

\* Two runs of one session: they compete for the partial unique index.
OneSession == [r \in Runs |-> s1]

\* Every run in a session of its own.
OwnSession == [r \in Runs |-> r]

FirstRunCalls == [c \in Calls |-> r1]
EachRunCalls == [c \in Calls |-> IF c = c1 THEN r1 ELSE r2]

=============================================================================
