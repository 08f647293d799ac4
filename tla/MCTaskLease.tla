----------------------------- MODULE MCTaskLease -----------------------------
(* Two processes and their tasks.                                          *)
EXTENDS TaskLease
=============================================================================
