------------------------------ MODULE JobQueue ------------------------------
(***************************************************************************)
(* The durable job queue of OpenPost: the table `jobs` and the background  *)
(* workers that poll it (backend/internal/queue/worker.go).                *)
(*                                                                         *)
(* A worker is the goroutine that runs Start in one server process.  A     *)
(* pass (processDueJobs) first requeues the jobs whose lock is stale, then *)
(* claims and executes due jobs one at a time until none is left, then     *)
(* waits for the next tick.  What a handler does is left open here: an     *)
(* execution ends with success or with an error.                           *)
(*                                                                         *)
(* Times are relative to the current moment, so that the state space is    *)
(* finite without a horizon: `wait` is run_at - now, `lockAge` is          *)
(* now - locked_at.  Both stop moving when they no longer matter.          *)
(***************************************************************************)
EXTENDS Integers

CONSTANTS
  Jobs,           \* ids of the rows ever inserted (UUIDs: never reused)
  NoJob,          \* a worker that has no job
  Workers,        \* one per running server process
  NoWorker,       \* locked_by = ''
  MaxAttempts,    \* column max_attempts
  StaleAge,       \* staleProcessingJobAge, in ticks
  MaxLate,        \* run_at is not told apart beyond this lateness
  Delays,         \* the delays with which a job may be inserted
  ClaimIsAtomic,  \* TRUE: SQLite, one writer at a time.  FALSE: Postgres
  Timely,         \* TRUE: no execution outlasts the stale lock window
  MaxFaults       \* bound on crashes, shutdowns and failed statements

ASSUME QueueAssumption ==
  /\ NoJob \notin Jobs
  /\ NoWorker \notin Workers
  /\ MaxAttempts \in Nat \ {0}
  /\ StaleAge \in Nat \ {0}
  /\ MaxLate \in Nat
  /\ Delays \subseteq Nat
  /\ ClaimIsAtomic \in BOOLEAN
  /\ Timely \in BOOLEAN
  /\ MaxFaults \in Nat

VARIABLES
  job,     \* the table: one record per id
  worker,  \* the local state of each worker
  faults   \* faults so far

vars == <<job, worker, faults>>

-----------------------------------------------------------------------------
\* The provers know no exponentials: a backoff is a number of minutes.
ASSUME BackoffAssumption == \A n \in 1..MaxAttempts : 2 ^ (n - 1) \in Nat

\* locked_at IS NULL
Unlocked == -1

JobStatus == {"new", "pending", "processing", "completed", "failed", "deleted"}

\* "new" and "deleted" are the two ways a row can be missing from the table.
JobRow == [status   : JobStatus,
           attempts : Nat,
           wait     : Int,
           lockAge  : Int,
           lockedBy : Workers \cup {NoWorker}]

\* pc: "down" the process is not running, "idle" between two passes, "poll"
\* inside processDueJobs, "chosen" the subquery of the claim has returned,
\* "exec" inside executeJob.  `attempts` is the copy RETURNING * gave.
WorkerState == [pc       : {"down", "idle", "poll", "chosen", "exec"},
                job      : Jobs \cup {NoJob},
                attempts : Nat]

TypeOK ==
  /\ job \in [Jobs -> JobRow]
  /\ worker \in [Workers -> WorkerState]
  /\ faults \in Nat

Exists(j) == job[j].status \notin {"new", "deleted"}
Settled(j) == job[j].status \in {"completed", "failed", "deleted"}
Executing(w, j) == worker[w].pc = "exec" /\ worker[w].job = j

\* 1 << (attempts - 1) minutes
Backoff(attempts) == 2 ^ (attempts - 1)

\* Faulty variants of Stale: one tick too early; whatever the status; never.
StaleTooEarly(j) ==
  job[j].status = "processing" /\ job[j].lockAge # Unlocked /\ job[j].lockAge >= StaleAge - 1
StaleAnyStatus(j) == Exists(j) /\ job[j].lockAge # Unlocked /\ job[j].lockAge >= StaleAge
StaleNever(j) == FALSE

\* locked_at IS NOT NULL AND locked_at <= now - staleProcessingJobAge
Stale(j) ==
  /\ job[j].status = "processing"
  /\ job[j].lockAge # Unlocked
  /\ job[j].lockAge >= StaleAge

Due(j) == job[j].status = "pending" /\ job[j].wait <= 0

\* ORDER BY run_at ASC LIMIT 1: which of several equal ones is not defined.
NextDue == {j \in Jobs : Due(j) /\ \A k \in Jobs : Due(k) => job[j].wait <= job[k].wait}

NoRow == [status |-> "new", attempts |-> 0, wait |-> 0, lockAge |-> Unlocked, lockedBy |-> NoWorker]

\* An insert leaves locked_at at Go's zero time, which is long ago, and not
\* NULL.
Inserted(delay) ==
  [status |-> "pending", attempts |-> 0, wait |-> delay, lockAge |-> StaleAge, lockedBy |-> NoWorker]

Init ==
  /\ job = [j \in Jobs |-> NoRow]
  /\ worker = [w \in Workers |-> [pc |-> "down", job |-> NoJob, attempts |-> 0]]
  /\ faults = 0

-----------------------------------------------------------------------------
(* The rest of the program inserts and deletes jobs.                       *)

Enqueue(j, delay) ==
  /\ job[j].status = "new"
  /\ job' = [job EXCEPT ![j] = Inserted(delay)]
  /\ UNCHANGED <<worker, faults>>

\* Handlers delete jobs by type and payload, whatever their status.
Delete(j) ==
  /\ Exists(j)
  /\ job' = [job EXCEPT ![j].status = "deleted"]
  /\ UNCHANGED <<worker, faults>>

-----------------------------------------------------------------------------
(* Time.                                                                   *)

Later(row) ==
  [row EXCEPT !.wait    = IF @ > -MaxLate THEN @ - 1 ELSE @,
              !.lockAge = IF @ # Unlocked /\ @ < StaleAge THEN @ + 1 ELSE @]

\* Under Timely an execution ends before the lock it holds becomes stale.
Tick ==
  /\ Timely => \A w \in Workers, j \in Jobs :
                 Executing(w, j) => job[j].lockAge + 1 < StaleAge
  /\ job' = [j \in Jobs |-> Later(job[j])]
  /\ UNCHANGED <<worker, faults>>

-----------------------------------------------------------------------------
(* The worker.                                                             *)

Goto(w, pc, j, attempts) ==
  worker' = [worker EXCEPT ![w] = [pc |-> pc, job |-> j, attempts |-> attempts]]

\* The process starts and runs go worker.Start(ctx).
Start(w) ==
  /\ worker[w].pc = "down"
  /\ Goto(w, "idle", NoJob, 0)
  /\ UNCHANGED <<job, faults>>

\* Faulty variants of Requeued: the lost execution is charged; it is refunded.
RequeuedCharged(row) == [row EXCEPT !.status = "pending", !.attempts = @ + 1]
RequeuedRefunded(row) == [row EXCEPT !.status = "pending", !.attempts = @ - 1]

Requeued(row) == [row EXCEPT !.status = "pending", !.lockAge = Unlocked, !.lockedBy = NoWorker]

\* requeueStaleProcessingJobs, at the beginning of every pass.
BeginPass(w) ==
  /\ worker[w].pc = "idle"
  /\ job' = [j \in Jobs |-> IF Stale(j) THEN Requeued(job[j]) ELSE job[j]]
  /\ Goto(w, "poll", NoJob, 0)
  /\ UNCHANGED faults

Locked(w, row) == [row EXCEPT !.status = "processing", !.lockAge = 0, !.lockedBy = w]

\* The claim as one indivisible statement.
Claim(w, j) ==
  /\ ClaimIsAtomic
  /\ worker[w].pc = "poll"
  /\ j \in NextDue
  /\ job' = [job EXCEPT ![j] = Locked(w, @)]
  /\ Goto(w, "exec", j, job[j].attempts)
  /\ UNCHANGED faults

\* The claim on Postgres under READ COMMITTED: the subquery has no FOR UPDATE,
\* so it chooses a row from a snapshot ...
ChooseJob(w, j) ==
  /\ ~ClaimIsAtomic
  /\ worker[w].pc = "poll"
  /\ j \in NextDue
  /\ Goto(w, "chosen", j, 0)
  /\ UNCHANGED <<job, faults>>

\* ... and the outer UPDATE, which only compares the id, takes the row as it
\* is by then.
LockChosen(w) ==
  LET j == worker[w].job IN
  /\ worker[w].pc = "chosen"
  /\ IF Exists(j)
       THEN /\ job' = [job EXCEPT ![j] = Locked(w, @)]
            /\ Goto(w, "exec", j, job[j].attempts)
       ELSE /\ Goto(w, "idle", NoJob, 0)
            /\ UNCHANGED job
  /\ UNCHANGED faults

\* One statement on SQLite, and its two halves on Postgres.
TakeJob(w) ==
  IF ClaimIsAtomic
    THEN \E j \in Jobs : Claim(w, j)
    ELSE LockChosen(w) \/ \E j \in Jobs : ChooseJob(w, j)

\* No row is due: the pass is over.
EndPass(w) ==
  /\ worker[w].pc = "poll"
  /\ NextDue = {}
  /\ Goto(w, "idle", NoJob, 0)
  /\ UNCHANGED <<job, faults>>

\* UPDATE ... WHERE id = ?: it asks neither for the status nor for the lock.
Update(j, row) == job' = [job EXCEPT ![j] = IF Exists(j) THEN row ELSE @]

Succeed(w) ==
  LET j == worker[w].job IN
  /\ worker[w].pc = "exec"
  /\ Update(j, [job[j] EXCEPT !.status = "completed"])
  /\ Goto(w, "poll", NoJob, 0)
  /\ UNCHANGED faults

\* Faulty variant of LastAttempt: one attempt too many.
LastAttemptLate(n) == n > MaxAttempts

LastAttempt(n) == n >= MaxAttempts

\* The columns written come from the copy in memory.  locked_at and locked_by
\* are not among them.  After the last attempt run_at is written unchanged.
Fail(w) ==
  LET j == worker[w].job
      n == worker[w].attempts + 1
  IN
  /\ worker[w].pc = "exec"
  /\ Update(j, IF LastAttempt(n)
                 THEN [job[j] EXCEPT !.status = "failed", !.attempts = n]
                 ELSE [job[j] EXCEPT !.status = "pending", !.attempts = n, !.wait = Backoff(n)])
  /\ Goto(w, "poll", NoJob, 0)
  /\ UNCHANGED faults

-----------------------------------------------------------------------------
(* Faults.  Each leaves the table as it was.                               *)

Fault == faults < MaxFaults /\ faults' = faults + 1

\* The process dies, or main cancels ctx: every later statement of the worker
\* fails, the job stays "processing", and Start returns.
Crash(w) ==
  /\ Fault
  /\ worker[w].pc # "down"
  /\ Goto(w, "down", NoJob, 0)
  /\ UNCHANGED job

\* The requeue statement fails: logged, and the pass goes on.
RequeueError(w) ==
  /\ Fault
  /\ worker[w].pc = "idle"
  /\ Goto(w, "poll", NoJob, 0)
  /\ UNCHANGED job

\* The claim statement fails: the pass is over.
ClaimError(w) ==
  /\ Fault
  /\ worker[w].pc \in {"poll", "chosen"}
  /\ Goto(w, "idle", NoJob, 0)
  /\ UNCHANGED job

\* The update after an execution fails: logged, and the pass goes on.
FinishError(w) ==
  /\ Fault
  /\ worker[w].pc = "exec"
  /\ Goto(w, "poll", NoJob, 0)
  /\ UNCHANGED job

-----------------------------------------------------------------------------
\* What a worker does when nothing goes wrong.
Work(w) ==
  \/ Start(w)
  \/ BeginPass(w)
  \/ TakeJob(w)
  \/ EndPass(w)
  \/ Succeed(w)
  \/ Fail(w)

Trouble(w) ==
  \/ Crash(w)
  \/ RequeueError(w)
  \/ ClaimError(w)
  \/ FinishError(w)

Client ==
  \/ \E j \in Jobs, d \in Delays : Enqueue(j, d)
  \/ \E j \in Jobs : Delete(j)

Next ==
  \/ Client
  \/ Tick
  \/ \E w \in Workers : Work(w) \/ Trouble(w)

Safety == Init /\ [][Next]_vars

\* The ticker fires while the process lives, a supervisor restarts it, every
\* handler returns, and time passes.
Fairness == WF_vars(Tick) /\ \A w \in Workers : WF_vars(Work(w))

Spec == Safety /\ Fairness

-----------------------------------------------------------------------------
(* Properties.                                                             *)

\* The lock of a job is never stolen from a running execution when claims are
\* indivisible and either no execution outlasts the stale window or there is
\* only one worker, which cannot requeue what it is executing.
LocksAreSafe ==
  ClaimIsAtomic /\ (Timely \/ \A v, w \in Workers : v = w)

\* No two workers execute one job at the same time, although the lock is
\* neither renewed nor checked when the result is written.
SingleExecution ==
  \A j \in Jobs, v, w \in Workers : Executing(v, j) /\ Executing(w, j) => v = w

\* A job that may still run has an attempt left, and a failed one has used
\* them all, across requeues, crashes and results written from the worker's
\* copy of the row.
RetryBudget ==
  \A j \in Jobs :
    /\ job[j].status \in {"pending", "processing"} => job[j].attempts < MaxAttempts
    /\ job[j].status = "failed" => job[j].attempts = MaxAttempts

\* Completed and failed jobs are never run again: no late write of a worker
\* and no requeue takes them back.
SettledIsFinal ==
  [][\A j \in Jobs : Settled(j) => Settled(j)']_vars

\* Every job that is inserted is at last completed, failed or deleted: a crash
\* leaves it "processing", and some later pass must find it again.
JobsSettle ==
  \A j \in Jobs : job[j].status = "pending" ~> Settled(j)

\* queue/worker_recovery_test.go, TestWorkerKeepsRecentProcessingJobsLocked: a
\* lock that is not stale keeps its job from every other worker.
RecentLocksAreKept ==
  [][\A j \in Jobs :
       /\ job[j].status = "processing" /\ ~Stale(j)
       /\ job'[j].status = "processing"
       => job'[j].lockedBy = job[j].lockedBy]_vars
=============================================================================
