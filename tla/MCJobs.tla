------------------------------- MODULE MCJobs -------------------------------
(* Small instances of Jobs. *)
EXTENDS Jobs

CONSTANTS c1, c2
=============================================================================
