------------------------------ MODULE JobLease ------------------------------
(***************************************************************************)
(* What the job queue promises to the rest of OpenPost, without locks,     *)
(* clocks or polling.  A job is held by at most one worker; a job whose    *)
(* worker was lost becomes ready again, and only then; a job is done when  *)
(* an execution succeeds or when its budget of failed executions is used   *)
(* up, and what is done stays done.                                        *)
(***************************************************************************)
EXTENDS Integers

CONSTANTS Jobs, Workers, NoWorker, Budget

VARIABLES
  state,   \* of each job
  holder,  \* the worker that executes it
  left     \* failed executions it may still have

vars == <<state, holder, left>>

States == {"absent", "ready", "held", "orphaned", "done", "gone"}

LeaseTypeOK ==
  /\ state \in [Jobs -> States]
  /\ holder \in [Jobs -> Workers \cup {NoWorker}]
  /\ left \in [Jobs -> 0..Budget]

Init ==
  /\ state = [j \in Jobs |-> "absent"]
  /\ holder = [j \in Jobs |-> NoWorker]
  /\ left = [j \in Jobs |-> Budget]

Become(j, s) == state' = [state EXCEPT ![j] = s]

Drop(j) == holder' = [holder EXCEPT ![j] = NoWorker]

Submit(j) ==
  /\ state[j] = "absent"
  /\ Become(j, "ready")
  /\ UNCHANGED <<holder, left>>

Withdraw(j) ==
  /\ state[j] \notin {"absent", "gone"}
  /\ Become(j, "gone")
  /\ Drop(j)
  /\ UNCHANGED left

Take(j, w) ==
  /\ state[j] = "ready"
  /\ \A k \in Jobs : holder[k] # w
  /\ Become(j, "held")
  /\ holder' = [holder EXCEPT ![j] = w]
  /\ UNCHANGED left

Finish(j) ==
  /\ state[j] = "held"
  /\ Become(j, "done")
  /\ Drop(j)
  /\ UNCHANGED left

\* A failed execution costs one of the budget; the last one ends the job.
Return(j) ==
  /\ state[j] = "held"
  /\ Become(j, IF left[j] = 1 THEN "done" ELSE "ready")
  /\ Drop(j)
  /\ left' = [left EXCEPT ![j] = @ - 1]

Lose(j) ==
  /\ state[j] = "held"
  /\ Become(j, "orphaned")
  /\ Drop(j)
  /\ UNCHANGED left

\* Only jobs that nobody executes are recovered, any number at a time.
Recover ==
  /\ \A j \in Jobs : state'[j] # state[j] => state[j] = "orphaned" /\ state'[j] = "ready"
  /\ state' \in [Jobs -> States]
  /\ UNCHANGED <<holder, left>>

Next ==
  \/ \E j \in Jobs :
       \/ Submit(j) \/ Withdraw(j) \/ Finish(j) \/ Return(j) \/ Lose(j)
       \/ \E w \in Workers : Take(j, w)
  \/ Recover

LeaseSpec == Init /\ [][Next]_vars
=============================================================================
