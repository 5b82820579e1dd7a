---------------------------- MODULE MCWorkerPool ----------------------------
(* Small instances of WorkerPool.                                          *)
EXTENDS WorkerPool

CONSTANTS w1, w2, i1, i2

MCWorkers == {w1, w2}
MCItems   == {i1, i2}
=============================================================================
