------------------------- MODULE JobQueueRefinement -------------------------
(***************************************************************************)
(* The job queue implements the leases of JobLease as long as LocksAreSafe *)
(* holds: the holder of a job is the worker executing it, whatever         *)
(* locked_by and locked_at say.                                            *)
(***************************************************************************)
EXTENDS JobQueue

Held(j) == Exists(j) /\ \E w \in Workers : Executing(w, j)

HolderOf(j) == IF Held(j) THEN CHOOSE w \in Workers : Executing(w, j) ELSE NoWorker

StateOf(j) ==
  CASE job[j].status = "new" -> "absent"
    [] job[j].status = "pending" -> "ready"
    [] job[j].status = "processing" /\ Held(j) -> "held"
    [] job[j].status = "processing" /\ ~Held(j) -> "orphaned"
    [] job[j].status \in {"completed", "failed"} -> "done"
    [] job[j].status = "deleted" -> "gone"

leaseHolder == [j \in Jobs |-> HolderOf(j)]

leaseState == [j \in Jobs |-> StateOf(j)]

leaseLeft == [j \in Jobs |-> MaxAttempts - job[j].attempts]

Lease == INSTANCE JobLease
           WITH state <- leaseState, holder <- leaseHolder, left <- leaseLeft,
                Budget <- MaxAttempts

\* Every step of the queue is a step of the leases or changes none of them: no
\* worker takes a job another one executes, only abandoned jobs are recovered,
\* and the budget of failed executions is spent one at a time.
ImplementsLease == Lease!LeaseSpec
=============================================================================
