-------------------------- MODULE MCCollectorTasks --------------------------
(* CollectorTasks with three API workers, the default of API_WORKER_COUNT. *)
EXTENDS CollectorTasks

CONSTANTS w1, w2, w3

MCWorkers == {w1, w2, w3}
=============================================================================
