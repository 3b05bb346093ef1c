----------------------------- MODULE MCWorkerRun -----------------------------
(* Two workers on one file system; both runs are on the first one.         *)
EXTENDS WorkerRun

CONSTANTS m1, m2, r1, r2, d

MCHome == [r \in {r1, r2} |-> m1]
MCNeeds == [r \in {r1, r2} |-> {d}]
=============================================================================
