----------------------------- MODULE MCJobQueue -----------------------------
(* JobQueue for TLC: two loops, jobs of every type, one payload.           *)
EXTENDS JobQueue, TLC
=============================================================================
