-------------------------- MODULE MCWorkerRegistry --------------------------
(* Instances of WorkerRegistry for TLC. *)
EXTENDS WorkerRegistry

CONSTANTS w1, w2, f1, f2, r1, r2

OneWorker == {w1}
TwoWorkers == {w1, w2}
OneThread == {f1}
TwoThreads == {f1, f2}
TwoRequests == {r1, r2}
=============================================================================
