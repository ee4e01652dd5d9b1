---------------------------- MODULE MCWorkerCycle ----------------------------
(* A small instance of WorkerCycle: see README, "Runs". *)
EXTENDS WorkerCycle
==============================================================================
