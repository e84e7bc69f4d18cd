--------------------------- MODULE MCWorkerFleet ---------------------------
(* Two workers: one that goes and one that comes, or stays.  A tick is the *)
(* sync period; lease and heartbeat timeout keep their proportion.         *)
EXTENDS WorkerFleet

CONSTANTS w1, w2, i30, i60

MCWorkers == {w1, w2}
MCIntervals == {i30, i60}
=============================================================================
