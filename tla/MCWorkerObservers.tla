-------------------------- MODULE MCWorkerObservers --------------------------
(* WorkerObservers with named observers.                                   *)
EXTENDS WorkerObservers

CONSTANTS a1, a2, t1, s1, s2
=============================================================================
