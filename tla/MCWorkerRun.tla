----------------------------- MODULE MCWorkerRun ----------------------------
(* Instances of WorkerRun for TLC.                                         *)
EXTENDS WorkerRun

CONSTANTS r1, r2, w1, c1, s1

OneSession == [r \in Runs |-> s1]
FirstRunCalls == [c \in Calls |-> r1]

=============================================================================
