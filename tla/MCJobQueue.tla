----------------------------- MODULE MCJobQueue -----------------------------
(* The job queue on small instances.  The delays include a job that is due  *)
(* at once and one that is due later.                                       *)
EXTENDS JobQueueRefinement
=============================================================================
