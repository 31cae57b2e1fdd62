--------------------------- MODULE JobQueueProofs ---------------------------
(***************************************************************************)
(* Safety of the job queue for any number of jobs and workers, any budget  *)
(* of attempts and any stale window; and, as long as locks are safe, that  *)
(* it implements the leases of JobLease.                                   *)
(***************************************************************************)
EXTENDS JobQueueRefinement, TLAPS

\* What makes the lock of an execution safe: as long as the row is in the
\* table it says "processing" and names the worker, the worker's copy of
\* attempts is current, and the lock is not stale unless there is one worker.
ExecutionHoldsLock ==
  \A w \in Workers, j \in Jobs : Executing(w, j) =>
    /\ job[j].status \in {"processing", "deleted"}
    /\ job[j].status = "processing" =>
         /\ job[j].lockedBy = w
         /\ job[j].attempts = worker[w].attempts
         /\ job[j].lockAge >= 0
         /\ Timely => job[j].lockAge < StaleAge

\* Claims are indivisible, so no worker is ever between its two halves.
NoHalfClaim == \A w \in Workers : worker[w].pc # "chosen"

IInv ==
  /\ TypeOK
  /\ NoHalfClaim
  /\ ExecutionHoldsLock
  /\ SingleExecution
  /\ RetryBudget

-----------------------------------------------------------------------------
LEMMA InitIInv == Init => IInv
  BY QueueAssumption
  DEF Init, NoRow, IInv, TypeOK, JobRow, JobStatus, WorkerState, Unlocked, NoHalfClaim,
      ExecutionHoldsLock, SingleExecution, RetryBudget, Executing

\* Rows are inserted and deleted under a running execution.
LEMMA ClientIInv == ASSUME IInv, Client PROVE IInv'
<1> USE DEF IInv, TypeOK, NoHalfClaim, ExecutionHoldsLock, SingleExecution, RetryBudget, Executing
<1>1. ASSUME NEW j \in Jobs, NEW d \in Delays, Enqueue(j, d) PROVE IInv'
  BY <1>1, QueueAssumption DEF Enqueue, Inserted, NoRow, JobRow, JobStatus, WorkerState
<1>2. ASSUME NEW j \in Jobs, Delete(j) PROVE IInv'
  BY <1>2, QueueAssumption DEF Delete, Exists, JobRow, JobStatus, WorkerState
<1> QED
  BY <1>1, <1>2 DEF Client

\* A tick changes only the two times, and a lock ages by at most one.
LEMMA LaterRow ==
  ASSUME NEW row \in JobRow
  PROVE  /\ Later(row) \in JobRow
         /\ Later(row).status = row.status
         /\ Later(row).attempts = row.attempts
         /\ Later(row).lockedBy = row.lockedBy
         /\ row.lockAge >= 0 => Later(row).lockAge \in {row.lockAge, row.lockAge + 1}
<1> DEFINE w == IF row.wait > -MaxLate THEN row.wait - 1 ELSE row.wait
           a == IF row.lockAge # Unlocked /\ row.lockAge < StaleAge
                  THEN row.lockAge + 1 ELSE row.lockAge
<1>1. w \in Int /\ a \in Int /\ (row.lockAge >= 0 => a \in {row.lockAge, row.lockAge + 1})
  BY QueueAssumption DEF JobRow, Unlocked
<1>2. Later(row) = [row EXCEPT !.wait = w, !.lockAge = a]
  BY DEF Later
<1> HIDE DEF w, a
<1> QED
  BY <1>1, <1>2 DEF JobRow

LEMMA TickIInv == ASSUME IInv, Tick PROVE IInv'
<1> USE DEF IInv, TypeOK, NoHalfClaim, ExecutionHoldsLock, SingleExecution, RetryBudget, Executing
<1>1. \A j \in Jobs : /\ job'[j] \in JobRow
                      /\ job'[j].status = job[j].status
                      /\ job'[j].attempts = job[j].attempts
                      /\ job'[j].lockedBy = job[j].lockedBy
                      /\ job[j].lockAge >= 0 => job'[j].lockAge \in {job[j].lockAge, job[j].lockAge + 1}
  BY LaterRow DEF Tick
<1>2. TypeOK'
  BY <1>1 DEF Tick
<1>3. ExecutionHoldsLock'
  BY <1>1, QueueAssumption DEF Tick, JobRow
<1> QED
  BY <1>1, <1>2, <1>3 DEF Tick

\* Steps that touch no row and leave the worker without a job.
LEMMA LetGoIInv ==
  ASSUME IInv, NEW w \in Workers, NEW pc \in {"down", "idle", "poll"},
         Goto(w, pc, NoJob, 0), UNCHANGED job, faults' \in Nat
  PROVE  IInv'
  BY QueueAssumption
  DEF IInv, TypeOK, NoHalfClaim, ExecutionHoldsLock, SingleExecution, RetryBudget,
      Executing, Goto, WorkerState

LEMMA UnlockedType == Unlocked \in Int
  BY DEF Unlocked

\* A requeue changes the status and the lock only.
LEMMA RequeuedRow ==
  ASSUME NEW row \in JobRow
  PROVE  /\ Requeued(row) \in JobRow
         /\ Requeued(row).status = "pending"
         /\ Requeued(row).attempts = row.attempts
  BY UnlockedType DEF Requeued, JobRow, JobStatus

\* So does a claim.
LEMMA LockedRow ==
  ASSUME NEW row \in JobRow, NEW w \in Workers
  PROVE  /\ Locked(w, row) \in JobRow
         /\ Locked(w, row).status = "processing"
         /\ Locked(w, row).attempts = row.attempts
         /\ Locked(w, row).lockAge = 0
         /\ Locked(w, row).lockedBy = w
<1> DEFINE z == 0
<1>1. z \in Int /\ Locked(w, row) = [row EXCEPT !.status = "processing", !.lockAge = z, !.lockedBy = w]
  BY DEF Locked
<1>2. z = 0
  OBVIOUS
<1> HIDE DEF z
<1>3. /\ Locked(w, row) \in JobRow
      /\ Locked(w, row).status = "processing"
      /\ Locked(w, row).attempts = row.attempts
      /\ Locked(w, row).lockAge = z
      /\ Locked(w, row).lockedBy = w
  BY <1>1 DEF JobRow, JobStatus
<1> QED
  BY <1>2, <1>3

\* The requeue at the beginning of a pass: either no running execution has a
\* stale lock, or the only worker there is has none.
LEMMA BeginPassIInv ==
  ASSUME IInv, LocksAreSafe, NEW w \in Workers, BeginPass(w)
  PROVE  IInv'
<1> USE DEF IInv, TypeOK, NoHalfClaim, ExecutionHoldsLock, SingleExecution, RetryBudget, Executing
<1>1. \A j \in Jobs : job'[j] \in JobRow
  BY RequeuedRow DEF BeginPass
<1>2. \A v \in Workers, j \in Jobs : Executing(v, j)' => Executing(v, j) /\ v # w
  BY QueueAssumption DEF BeginPass, Goto, WorkerState
<1>3. \A v \in Workers, j \in Jobs : Executing(v, j) /\ v # w => ~Stale(j)
  BY QueueAssumption DEF Stale, LocksAreSafe, JobRow
<1>4. \A v \in Workers, j \in Jobs : Executing(v, j)' =>
        job'[j] = job[j] /\ worker'[v] = worker[v]
  BY <1>2, <1>3 DEF BeginPass, Goto
<1>5. \A j \in Jobs : /\ job'[j].attempts = job[j].attempts
                      /\ \/ job'[j].status = job[j].status
                         \/ job[j].status = "processing" /\ job'[j].status = "pending"
  BY RequeuedRow DEF BeginPass, Stale
<1>6. TypeOK' /\ NoHalfClaim'
  BY <1>1 DEF BeginPass, Goto, WorkerState
<1>7. ExecutionHoldsLock' /\ SingleExecution'
  BY <1>2, <1>4
<1>8. RetryBudget'
  BY <1>5
<1> QED
  BY <1>6, <1>7, <1>8

\* A claim takes a pending row, which nobody executes.
LEMMA ClaimIInv ==
  ASSUME IInv, NEW w \in Workers, NEW j \in Jobs, Claim(w, j)
  PROVE  IInv'
<1> USE DEF IInv, TypeOK, NoHalfClaim, ExecutionHoldsLock, SingleExecution, RetryBudget, Executing
<1>1. job[j].status = "pending" /\ \A v \in Workers : ~Executing(v, j)
  BY DEF Claim, NextDue, Due
<1>2. /\ job'[j] = Locked(w, job[j])
      /\ \A k \in Jobs : k # j => job'[k] = job[k]
      /\ worker'[w] = [pc |-> "exec", job |-> j, attempts |-> job[j].attempts]
      /\ \A v \in Workers : v # w => worker'[v] = worker[v]
  BY DEF Claim, Goto
<1>3. TypeOK'
  <2>1. job' \in [Jobs -> JobRow]
    BY LockedRow DEF Claim
  <2>2. job[j].attempts \in Nat
    BY DEF JobRow
  <2> QED
    BY <2>1, <2>2 DEF Claim, Goto, WorkerState
<1>4. NoHalfClaim' /\ SingleExecution'
  BY <1>1, <1>2
<1>5. ExecutionHoldsLock'
  <2>1. ASSUME NEW v \in Workers, NEW k \in Jobs, Executing(v, k)', v # w
        PROVE  Executing(v, k) /\ job'[k] = job[k] /\ worker'[v] = worker[v]
    BY <1>1, <1>2, <2>1
  <2>2. \A k \in Jobs : Executing(w, k)' => k = j
    BY <1>2
  <2>3. /\ job'[j].status = "processing" /\ job'[j].lockedBy = w
        /\ job'[j].attempts = worker'[w].attempts
        /\ job'[j].lockAge = 0 /\ 0 < StaleAge
    BY <1>2, LockedRow, QueueAssumption
  <2> QED
    BY <2>1, <2>2, <2>3
<1>6. RetryBudget'
  BY <1>1, <1>2, LockedRow
<1> QED
  BY <1>3, <1>4, <1>5, <1>6

\* The result of an execution is written to the row it was started from, or to
\* no row at all.
LEMMA FinishIInv ==
  ASSUME IInv, NEW w \in Workers, Succeed(w) \/ Fail(w)
  PROVE  IInv'
<1> USE DEF IInv, TypeOK, NoHalfClaim, ExecutionHoldsLock, SingleExecution, RetryBudget, Executing
<1> DEFINE j == worker[w].job
           n == worker[w].attempts + 1
<1>1. \A v \in Workers, k \in Jobs :
        Executing(v, k)' => Executing(v, k) /\ v # w /\ worker'[v] = worker[v]
  BY QueueAssumption DEF Succeed, Fail, Goto, WorkerState
<1>2. \A k \in Jobs : k # j => job'[k] = job[k]
  BY DEF Succeed, Fail, Update
<1>3. \A v \in Workers, k \in Jobs : Executing(v, k)' => k # j
  BY <1>1 DEF Succeed, Fail
<1>4. NoHalfClaim' /\ ExecutionHoldsLock' /\ SingleExecution'
  BY <1>1, <1>2, <1>3 DEF Succeed, Fail, Goto
<1>5. CASE j \in Jobs /\ job[j].status = "processing"
  <2>1. n \in Nat /\ n <= MaxAttempts /\ n = job[j].attempts + 1
    BY <1>5, QueueAssumption DEF Succeed, Fail, JobRow, WorkerState
  <2>2. n < MaxAttempts => Backoff(n) \in Int
    BY <2>1, QueueAssumption, BackoffAssumption DEF Backoff, JobRow
  <2> DEFINE done == [job[j] EXCEPT !.status = "completed"]
             dead == [job[j] EXCEPT !.status = "failed", !.attempts = n]
             retry == [job[j] EXCEPT !.status = "pending", !.attempts = n, !.wait = Backoff(n)]
  <2>3. \/ job'[j] = done
        \/ n = MaxAttempts /\ job'[j] = dead
        \/ n < MaxAttempts /\ job'[j] = retry
    <3>1. CASE Succeed(w)
      BY <3>1, <1>5 DEF Succeed, Update, Exists
    <3>2. CASE Fail(w)
      <4>1. job'[j] = IF LastAttempt(n) THEN dead ELSE retry
        BY <3>2, <1>5 DEF Fail, Update, Exists
      <4> QED
        BY <4>1, <2>1, QueueAssumption DEF LastAttempt
    <3> QED
      BY <3>1, <3>2
  <2>4. /\ done \in JobRow /\ done.status = "completed"
        /\ dead \in JobRow /\ dead.status = "failed" /\ dead.attempts = n
        /\ n < MaxAttempts => retry \in JobRow /\ retry.status = "pending" /\ retry.attempts = n
    <3> job[j] \in JobRow
      BY <1>5
    <3> HIDE DEF n
    <3> QED
      BY <2>1, <2>2 DEF JobRow, JobStatus
  <2>5. job'[j] \in JobRow /\ RetryBudget'
    <3> HIDE DEF n, done, dead, retry
    <3> QED
      BY <1>2, <1>5, <2>1, <2>3, <2>4
  <2> QED
    BY <1>2, <1>4, <2>5 DEF Succeed, Fail, Update, Goto, WorkerState
<1>6. CASE j \notin Jobs \/ job[j].status = "deleted"
  <2>1. \A k \in Jobs : job'[k] = job[k]
    BY <1>2, <1>6 DEF Succeed, Fail, Update, Exists
  <2> QED
    BY <1>4, <2>1 DEF Succeed, Fail, Update, Goto, WorkerState
<1> QED
  BY <1>5, <1>6 DEF Succeed, Fail

LEMMA NextIInv == LocksAreSafe /\ IInv /\ [Next]_vars => IInv'
<1> SUFFICES ASSUME LocksAreSafe, IInv, [Next]_vars PROVE IInv'
  OBVIOUS
<1>1. CASE Client
  BY <1>1, ClientIInv
<1>2. CASE Tick
  BY <1>2, TickIInv
<1>3. ASSUME NEW w \in Workers, Work(w) PROVE IInv'
  <2>1. CASE Start(w) \/ EndPass(w)
    BY <2>1, LetGoIInv DEF Start, EndPass, IInv, TypeOK
  <2>2. CASE BeginPass(w)
    BY <2>2, BeginPassIInv
  <2>3. ASSUME NEW j \in Jobs, Claim(w, j) PROVE IInv'
    BY <2>3, ClaimIInv
  <2>4. ~LockChosen(w) /\ \A j \in Jobs : ~ChooseJob(w, j)
    BY DEF LockChosen, ChooseJob, LocksAreSafe, IInv, NoHalfClaim
  <2>5. CASE Succeed(w) \/ Fail(w)
    BY <2>5, FinishIInv
  <2> QED
    BY <1>3, <2>1, <2>2, <2>3, <2>4, <2>5 DEF Work, TakeJob
<1>4. ASSUME NEW w \in Workers, Trouble(w) PROVE IInv'
  <2>1. faults' \in Nat /\ UNCHANGED job
    BY <1>4, QueueAssumption
    DEF Trouble, Crash, RequeueError, ClaimError, FinishError, Fault, IInv, TypeOK
  <2> QED
    BY <1>4, <2>1, LetGoIInv DEF Trouble, Crash, RequeueError, ClaimError, FinishError
<1>5. CASE UNCHANGED vars
  BY <1>5
  DEF vars, IInv, TypeOK, NoHalfClaim, ExecutionHoldsLock, SingleExecution, RetryBudget, Executing
<1> QED
  BY <1>1, <1>2, <1>3, <1>4, <1>5 DEF Next

\* The inductive invariant holds in every behaviour of a queue whose locks are
\* safe.
THEOREM QueueInvariant ==
  ASSUME LocksAreSafe
  PROVE  Safety => []IInv
<1>1. IInv /\ [Next]_vars => IInv'
  BY NextIInv
<1> QED
  BY <1>1, InitIInv, PTL DEF Safety

\* The rows of the queue and the state of its workers keep their types.
THEOREM TypeOKHolds ==
  ASSUME LocksAreSafe
  PROVE  Safety => []TypeOK
<1>1. IInv => TypeOK
  BY DEF IInv
<1> QED
  BY <1>1, QueueInvariant, PTL

\* No two workers ever execute one job at the same time.
THEOREM SingleExecutionHolds ==
  ASSUME LocksAreSafe
  PROVE  Safety => []SingleExecution
<1>1. IInv => SingleExecution
  BY DEF IInv
<1> QED
  BY <1>1, QueueInvariant, PTL

\* A job that may still run has an attempt left, a failed one has none.
THEOREM RetryBudgetHolds ==
  ASSUME LocksAreSafe
  PROVE  Safety => []RetryBudget
<1>1. IInv => RetryBudget
  BY DEF IInv
<1> QED
  BY <1>1, QueueInvariant, PTL

\* Every write of a worker to a row that is settled leaves it settled.
LEMMA SettledStep ==
  ASSUME LocksAreSafe, IInv, [Next]_vars, NEW j \in Jobs, Settled(j)
  PROVE  Settled(j)'
<1>1. CASE Client
  BY <1>1 DEF Client, Enqueue, Inserted, NoRow, Delete, Settled, IInv, TypeOK, JobRow
<1>2. CASE Tick
  BY <1>2, LaterRow DEF Tick, Settled, IInv, TypeOK
<1>3. ASSUME NEW w \in Workers, Work(w) PROVE Settled(j)'
  <2>1. CASE Start(w) \/ EndPass(w)
    BY <2>1 DEF Start, EndPass, Settled
  <2>2. CASE BeginPass(w)
    BY <2>2 DEF BeginPass, Stale, Settled
  <2>3. ASSUME NEW k \in Jobs, Claim(w, k) PROVE Settled(j)'
    BY <2>3 DEF Claim, NextDue, Due, Settled
  <2>4. ~LockChosen(w) /\ \A k \in Jobs : ~ChooseJob(w, k)
    BY DEF LockChosen, ChooseJob, LocksAreSafe, IInv, NoHalfClaim
  <2>5. CASE Succeed(w) \/ Fail(w)
    <3>1. CASE worker[w].job # j
      BY <3>1, <2>5 DEF Succeed, Fail, Update, Settled, IInv, TypeOK
    <3>2. CASE worker[w].job = j
      <4>1. job[j].status = "deleted"
        BY <3>2, <2>5 DEF Succeed, Fail, Settled, IInv, ExecutionHoldsLock, Executing
      <4> QED
        BY <3>2, <2>5, <4>1 DEF Succeed, Fail, Update, Exists, Settled, IInv, TypeOK
    <3> QED
      BY <3>1, <3>2
  <2> QED
    BY <1>3, <2>1, <2>2, <2>3, <2>4, <2>5 DEF Work, TakeJob
<1>4. ASSUME NEW w \in Workers, Trouble(w) PROVE Settled(j)'
  BY <1>4 DEF Trouble, Crash, RequeueError, ClaimError, FinishError, Settled
<1>5. CASE UNCHANGED vars
  BY <1>5 DEF vars, Settled
<1> QED
  BY <1>1, <1>2, <1>3, <1>4, <1>5 DEF Next

\* No step takes a completed, failed or deleted job back.
THEOREM SettledIsFinalHolds ==
  ASSUME LocksAreSafe
  PROVE  Safety => SettledIsFinal
<1>1. IInv /\ [Next]_vars => [\A j \in Jobs : Settled(j) => Settled(j)']_vars
  BY SettledStep
<1> QED
  BY <1>1, QueueInvariant, PTL DEF Safety, SettledIsFinal

-----------------------------------------------------------------------------
(* The leases of a state, job by job                                       *)

\* The three functions of the refinement mapping, without CASE and CHOOSE.
LeaseStates ==
  \A j \in Jobs :
    /\ job[j].status = "new" => leaseState[j] = "absent"
    /\ job[j].status = "pending" => leaseState[j] = "ready"
    /\ job[j].status = "processing" /\ Held(j) => leaseState[j] = "held"
    /\ job[j].status = "processing" /\ ~Held(j) => leaseState[j] = "orphaned"
    /\ job[j].status \in {"completed", "failed"} => leaseState[j] = "done"
    /\ job[j].status = "deleted" => leaseState[j] = "gone"

LeaseHolders ==
  \A j \in Jobs :
    /\ ~Held(j) => leaseHolder[j] = NoWorker
    /\ \A w \in Workers : Exists(j) /\ Executing(w, j) => leaseHolder[j] = w

LeasesLeft == \A j \in Jobs : leaseLeft[j] = MaxAttempts - job[j].attempts

LeaseView ==
  /\ leaseState = [j \in Jobs |-> leaseState[j]]
  /\ leaseHolder = [j \in Jobs |-> leaseHolder[j]]
  /\ leaseLeft = [j \in Jobs |-> leaseLeft[j]]
  /\ LeaseStates
  /\ LeaseHolders
  /\ LeasesLeft

LEMMA ViewHolds == IInv => LeaseView
<1> SUFFICES ASSUME IInv PROVE LeaseView
  OBVIOUS
<1>1. LeaseStates
  BY DEF LeaseStates, leaseState, StateOf
<1>2. LeaseHolders
  <2> SUFFICES ASSUME NEW j \in Jobs
               PROVE  /\ ~Held(j) => leaseHolder[j] = NoWorker
                      /\ \A w \in Workers : Exists(j) /\ Executing(w, j) => leaseHolder[j] = w
    BY DEF LeaseHolders
  <2>1. ASSUME NEW w \in Workers, Exists(j), Executing(w, j) PROVE leaseHolder[j] = w
    <3>1. Held(j) /\ leaseHolder[j] = CHOOSE v \in Workers : Executing(v, j)
      BY <2>1 DEF Held, leaseHolder, HolderOf
    <3>2. Executing(leaseHolder[j], j) /\ leaseHolder[j] \in Workers
      BY <2>1, <3>1
    <3> QED
      BY <2>1, <3>2 DEF IInv, SingleExecution
  <2>2. ~Held(j) => leaseHolder[j] = NoWorker
    BY DEF leaseHolder, HolderOf
  <2> QED
    BY <2>1, <2>2
<1>3. LeasesLeft
  BY DEF LeasesLeft, leaseLeft
<1>4. leaseState = [j \in Jobs |-> leaseState[j]]
  BY DEF leaseState
<1>5. leaseHolder = [j \in Jobs |-> leaseHolder[j]]
  BY DEF leaseHolder
<1>6. leaseLeft = [j \in Jobs |-> leaseLeft[j]]
  BY DEF leaseLeft
<1> QED
  BY <1>1, <1>2, <1>3, <1>4, <1>5, <1>6 DEF LeaseView

\* A row keeps its lease when its status, its attempts and its executions stay.
SameLease(j) ==
  /\ leaseState'[j] = leaseState[j]
  /\ leaseHolder'[j] = leaseHolder[j]
  /\ leaseLeft'[j] = leaseLeft[j]

SameRow(j) ==
  /\ job'[j].status = job[j].status
  /\ job'[j].attempts = job[j].attempts
  /\ \A w \in Workers : Executing(w, j)' <=> Executing(w, j)

LEMMA SameRowSameLease ==
  ASSUME TypeOK, LeaseView, LeaseView', NEW j \in Jobs, SameRow(j)
  PROVE  SameLease(j)
<1>1. /\ Exists(j)' <=> Exists(j)
      /\ Held(j)' <=> Held(j)
  BY DEF SameRow, Exists, Held
<1>2. leaseHolder'[j] = leaseHolder[j]
  <2>1. CASE Held(j)
    <3>1. PICK w \in Workers : Exists(j) /\ Executing(w, j)
      BY <2>1 DEF Held
    <3>2. Exists(j)' /\ Executing(w, j)'
      BY <1>1, <3>1 DEF SameRow
    <3> QED
      BY <3>1, <3>2 DEF LeaseView, LeaseHolders
  <2>2. CASE ~Held(j)
    BY <1>1, <2>2 DEF LeaseView, LeaseHolders
  <2> QED
    BY <2>1, <2>2
<1>3. leaseState'[j] = leaseState[j]
  BY <1>1 DEF SameRow, LeaseView, LeaseStates, TypeOK, JobRow, JobStatus
<1>4. leaseLeft'[j] = leaseLeft[j]
  BY DEF SameRow, LeaseView, LeasesLeft
<1> QED
  BY <1>2, <1>3, <1>4 DEF SameLease

LEMMA AllSame ==
  ASSUME LeaseView, LeaseView', \A j \in Jobs : SameLease(j)
  PROVE  UNCHANGED <<leaseState, leaseHolder, leaseLeft>>
  BY DEF LeaseView, SameLease

\* Only the lease of j changes.
LEMMA OneChanges ==
  ASSUME LeaseView, LeaseView', NEW j \in Jobs, \A k \in Jobs \ {j} : SameLease(k)
  PROVE  /\ leaseState' = [leaseState EXCEPT ![j] = leaseState'[j]]
         /\ leaseHolder' = [leaseHolder EXCEPT ![j] = leaseHolder'[j]]
         /\ leaseLeft' = [leaseLeft EXCEPT ![j] = leaseLeft'[j]]
  BY DEF LeaseView, SameLease

LEMMA UnchangedFcn ==
  ASSUME LeaseView, LeaseView', NEW j \in Jobs, \A k \in Jobs \ {j} : SameLease(k)
  PROVE  /\ leaseHolder'[j] = leaseHolder[j] => leaseHolder' = leaseHolder
         /\ leaseLeft'[j] = leaseLeft[j] => leaseLeft' = leaseLeft
  BY DEF LeaseView, SameLease

\* What changes the rows of other jobs is none of their business.
LEMMA OthersSame ==
  ASSUME TypeOK, LeaseView, LeaseView', NEW j \in Jobs, \A k \in Jobs \ {j} : SameRow(k)
  PROVE  \A k \in Jobs \ {j} : SameLease(k)
  BY SameRowSameLease

-----------------------------------------------------------------------------
(* The steps                                                               *)

LeaseStep == [Lease!Next]_<<leaseState, leaseHolder, leaseLeft>>

\* A row that was never inserted has not been executed either.
NewRows == \A j \in Jobs : job[j].status = "new" => job[j].attempts = 0

Views == IInv /\ IInv' /\ LeaseView /\ LeaseView' /\ NewRows

\* A result says completed, failed or pending.
LEMMA WrittenRow ==
  ASSUME TypeOK, NEW w \in Workers, Succeed(w) \/ Fail(w), NEW j \in Jobs,
         j = worker[w].job, Exists(j)
  PROVE  job'[j].status # "new"
<1>1. job[j] \in JobRow
  BY DEF TypeOK
<1>2. CASE Succeed(w)
  <2>1. job'[j] = [job[j] EXCEPT !.status = "completed"]
    BY <1>2 DEF Succeed, Update, TypeOK
  <2> QED
    BY <1>1, <2>1 DEF JobRow
<1>3. CASE Fail(w)
  <2>1. PICK n, b : n = worker[w].attempts + 1 /\ b = Backoff(n)
    OBVIOUS
  <2>2. \/ job'[j] = [job[j] EXCEPT !.status = "failed", !.attempts = n]
        \/ job'[j] = [job[j] EXCEPT !.status = "pending", !.attempts = n, !.wait = b]
    BY <1>3, <2>1 DEF Fail, Update, TypeOK
  <2> QED
    BY <1>1, <2>2 DEF JobRow
<1> QED
  BY <1>2, <1>3

LEMMA NewRowsStep == ASSUME IInv, NewRows, [Next]_vars PROVE NewRows'
<1>1. CASE Client
  BY <1>1 DEF Client, Enqueue, Inserted, NoRow, Delete, NewRows, IInv, TypeOK, JobRow
<1>2. CASE Tick
  BY <1>2, LaterRow DEF Tick, NewRows, IInv, TypeOK
<1>3. ASSUME NEW w \in Workers, Work(w) PROVE NewRows'
  <2>1. CASE Start(w) \/ EndPass(w)
    BY <2>1 DEF Start, EndPass, NewRows
  <2>2. CASE BeginPass(w)
    BY <2>2, RequeuedRow DEF BeginPass, NewRows, IInv, TypeOK
  <2>3. ASSUME NEW j \in Jobs, Claim(w, j) PROVE NewRows'
    BY <2>3, LockedRow DEF Claim, NewRows, IInv, TypeOK
  <2>4. ~LockChosen(w)
    BY DEF LockChosen, IInv, NoHalfClaim
  <2>5. ASSUME NEW j \in Jobs, ChooseJob(w, j) PROVE NewRows'
    BY <2>5 DEF ChooseJob, NewRows
  <2>6. CASE Succeed(w) \/ Fail(w)
    <3>1. \A k \in Jobs : job'[k].status = "new" => job'[k] = job[k]
      <4> SUFFICES ASSUME NEW k \in Jobs, job'[k].status = "new" PROVE job'[k] = job[k]
        OBVIOUS
      <4>1. CASE k # worker[w].job
        BY <2>6, <4>1 DEF Succeed, Fail, Update, IInv, TypeOK
      <4>2. CASE k = worker[w].job
        <5>1. CASE ~Exists(k)
          BY <2>6, <4>2, <5>1 DEF Succeed, Fail, Update, IInv, TypeOK
        <5>2. CASE Exists(k)
          BY <2>6, <4>2, <5>2, WrittenRow DEF IInv
        <5> QED
          BY <5>1, <5>2
      <4> QED
        BY <4>1, <4>2
    <3> QED
      BY <3>1 DEF NewRows
  <2> QED
    BY <1>3, <2>1, <2>2, <2>3, <2>4, <2>5, <2>6 DEF Work, TakeJob
<1>4. ASSUME NEW w \in Workers, Trouble(w) PROVE NewRows'
  BY <1>4 DEF Trouble, Crash, RequeueError, ClaimError, FinishError, NewRows
<1>5. CASE UNCHANGED vars
  BY <1>5 DEF vars, NewRows
<1> QED
  BY <1>1, <1>2, <1>3, <1>4, <1>5 DEF Next

LEMMA StutterStep == ASSUME Views, \A j \in Jobs : SameRow(j) PROVE LeaseStep
<1>1. \A j \in Jobs : SameLease(j)
  BY SameRowSameLease DEF Views, IInv
<1> QED
  BY <1>1, AllSame DEF Views, LeaseStep

\* Handlers insert a job that is ready and withdraw one in any state.
LEMMA ClientStep == ASSUME Views, Client PROVE LeaseStep
<1>1. ASSUME NEW j \in Jobs, NEW d \in Delays, Enqueue(j, d) PROVE Lease!Submit(j)
  <2>1. /\ job[j].status = "new" /\ job[j].attempts = 0 /\ UNCHANGED worker
        /\ job'[j].status = "pending" /\ job'[j].attempts = 0
        /\ \A k \in Jobs \ {j} : job'[k] = job[k]
    BY <1>1 DEF Enqueue, Inserted, Views, IInv, TypeOK, NewRows
  <2>2. \A k \in Jobs, w \in Workers : Executing(w, k)' <=> Executing(w, k)
    BY <2>1 DEF Executing
  <2>3. \A w \in Workers : ~Executing(w, j)
    BY <2>1 DEF Views, IInv, ExecutionHoldsLock
  <2>4. ~Held(j) /\ ~Held(j)'
    BY <2>2, <2>3 DEF Held
  <2>5. /\ leaseState[j] = "absent" /\ leaseState'[j] = "ready"
        /\ leaseHolder'[j] = leaseHolder[j] /\ leaseLeft'[j] = leaseLeft[j]
    BY <2>1, <2>4 DEF Views, LeaseView, LeaseStates, LeaseHolders, LeasesLeft
  <2>6. \A k \in Jobs \ {j} : SameLease(k)
    BY <2>1, <2>2, OthersSame DEF SameRow, Views, IInv
  <2> QED
    BY <2>5, <2>6, OneChanges, UnchangedFcn DEF Views, Lease!Submit, Lease!Become
<1>2. ASSUME NEW j \in Jobs, Delete(j) PROVE Lease!Withdraw(j)
  <2>1. /\ Exists(j) /\ UNCHANGED worker
        /\ job'[j].status = "deleted" /\ job'[j].attempts = job[j].attempts
        /\ \A k \in Jobs \ {j} : job'[k] = job[k]
    BY <1>2 DEF Delete, Views, IInv, TypeOK, JobRow
  <2>2. \A k \in Jobs, w \in Workers : Executing(w, k)' <=> Executing(w, k)
    BY <2>1 DEF Executing
  <2>3. ~Held(j)'
    BY <2>1 DEF Held, Exists
  <2>4. /\ leaseState[j] \notin {"absent", "gone"} /\ leaseState'[j] = "gone"
        /\ leaseHolder'[j] = NoWorker /\ leaseLeft'[j] = leaseLeft[j]
    BY <2>1, <2>3
    DEF Exists, Views, LeaseView, LeaseStates, LeaseHolders, LeasesLeft, IInv, TypeOK, JobRow,
        JobStatus
  <2>5. \A k \in Jobs \ {j} : SameLease(k)
    BY <2>1, <2>2, OthersSame DEF SameRow, Views, IInv
  <2> QED
    BY <2>4, <2>5, OneChanges, UnchangedFcn
    DEF Views, Lease!Withdraw, Lease!Become, Lease!Drop
<1> QED
  BY <1>1, <1>2 DEF Client, LeaseStep, Lease!Next

\* A pass recovers jobs whose lock is stale: nobody executes them.
LEMMA BeginPassStep ==
  ASSUME Views, LocksAreSafe, NEW w \in Workers, BeginPass(w)
  PROVE  LeaseStep
<1>1. \A v \in Workers, j \in Jobs : Executing(v, j)' <=> Executing(v, j)
  BY QueueAssumption DEF BeginPass, Goto, Executing, Views, IInv, TypeOK, WorkerState
<1>2. \A v \in Workers, j \in Jobs : Executing(v, j) => ~Stale(j)
  BY QueueAssumption
  DEF Stale, LocksAreSafe, BeginPass, Executing, Views, IInv, TypeOK, JobRow, ExecutionHoldsLock
<1>3. \A j \in Jobs : ~Stale(j) => SameRow(j)
  BY <1>1 DEF BeginPass, SameRow
<1>4. \A j \in Jobs : ~Stale(j) => SameLease(j)
  BY <1>3, SameRowSameLease DEF Views, IInv
<1>5. ASSUME NEW j \in Jobs, Stale(j)
      PROVE  /\ leaseState[j] = "orphaned" /\ leaseState'[j] = "ready"
             /\ leaseHolder'[j] = leaseHolder[j] /\ leaseLeft'[j] = leaseLeft[j]
  <2>1. ~Held(j) /\ ~Held(j)'
    BY <1>1, <1>2, <1>5 DEF Held
  <2>2. /\ job[j].status = "processing" /\ job'[j].status = "pending"
        /\ job'[j].attempts = job[j].attempts
    BY <1>5, RequeuedRow DEF Stale, BeginPass, Views, IInv, TypeOK
  <2> QED
    BY <2>1, <2>2 DEF Views, LeaseView, LeaseStates, LeaseHolders, LeasesLeft
<1>6. leaseHolder' = leaseHolder /\ leaseLeft' = leaseLeft
  BY <1>4, <1>5 DEF SameLease, Views, LeaseView
<1>7. \A j \in Jobs : leaseState'[j] # leaseState[j] =>
        leaseState[j] = "orphaned" /\ leaseState'[j] = "ready"
  BY <1>4, <1>5 DEF SameLease
<1>8. leaseState' \in [Jobs -> Lease!States]
  <2>1. \A j \in Jobs : leaseState'[j] \in Lease!States
    BY DEF Views, LeaseView, LeaseStates, Lease!States, IInv, TypeOK, JobRow, JobStatus
  <2> QED
    BY <2>1 DEF Views, LeaseView
<1> QED
  BY <1>6, <1>7, <1>8 DEF LeaseStep, Lease!Next, Lease!Recover

\* A claim takes a job that is ready, by a worker that holds none.
LEMMA ClaimStep ==
  ASSUME Views, NEW w \in Workers, NEW j \in Jobs, Claim(w, j)
  PROVE  Lease!Take(j, w)
<1>1. /\ job[j].status = "pending" /\ job'[j].status = "processing"
      /\ job'[j].attempts = job[j].attempts
      /\ \A k \in Jobs \ {j} : job'[k] = job[k]
  BY LockedRow DEF Claim, NextDue, Due, Views, IInv, TypeOK
<1>2. /\ worker[w].pc = "poll"
      /\ worker'[w].pc = "exec" /\ worker'[w].job = j
      /\ \A v \in Workers \ {w} : worker'[v] = worker[v]
  BY DEF Claim, Goto, Views, IInv, TypeOK
<1>3. \A k \in Jobs \ {j}, v \in Workers : Executing(v, k)' <=> Executing(v, k)
  BY <1>2 DEF Executing
<1>4. \A k \in Jobs : leaseHolder[k] # w
  <2> SUFFICES ASSUME NEW k \in Jobs PROVE leaseHolder[k] # w
    OBVIOUS
  <2>1. CASE Held(k)
    BY <1>2, <2>1 DEF Held, Executing, Views, LeaseView, LeaseHolders
  <2>2. CASE ~Held(k)
    BY <2>2, QueueAssumption DEF Views, LeaseView, LeaseHolders
  <2> QED
    BY <2>1, <2>2
<1>5. Exists(j)' /\ Executing(w, j)'
  BY <1>1, <1>2 DEF Exists, Executing
<1>6. Held(j)'
  BY <1>5 DEF Held
<1>7. /\ leaseState[j] = "ready" /\ leaseState'[j] = "held"
      /\ leaseHolder'[j] = w /\ leaseLeft'[j] = leaseLeft[j]
  BY <1>1, <1>5, <1>6 DEF Views, LeaseView, LeaseStates, LeaseHolders, LeasesLeft
<1>8. \A k \in Jobs \ {j} : SameLease(k)
  BY <1>1, <1>3, OthersSame DEF SameRow, Views, IInv
<1> QED
  BY <1>4, <1>7, <1>8, OneChanges, UnchangedFcn DEF Views, Lease!Take, Lease!Become

\* A worker that lets go of a job it executes, by a result or by a fault.
LetsGo(w) ==
  /\ worker[w].pc = "exec"
  /\ worker'[w].pc # "exec"
  /\ \A v \in Workers \ {w} : worker'[v] = worker[v]
  /\ \A k \in Jobs : k # worker[w].job => job'[k] = job[k]

LEMMA LetGoOthers ==
  ASSUME Views, NEW w \in Workers, LetsGo(w), NEW j \in Jobs, j = worker[w].job
  PROVE  /\ \A k \in Jobs \ {j} : SameLease(k)
         /\ ~Held(j)'
<1>1. \A k \in Jobs \ {j}, v \in Workers : Executing(v, k)' <=> Executing(v, k)
  BY DEF LetsGo, Executing
<1>2. \A k \in Jobs \ {j} : SameLease(k)
  BY <1>1, OthersSame DEF LetsGo, SameRow, Views, IInv
<1>3. \A v \in Workers : ~Executing(v, j)'
  BY DEF LetsGo, Executing, Views, IInv, SingleExecution
<1> QED
  BY <1>2, <1>3 DEF Held

\* It holds the job, unless the job was deleted meanwhile.
LEMMA LetGoHeld ==
  ASSUME Views, NEW w \in Workers, LetsGo(w), NEW j \in Jobs, j = worker[w].job,
         job[j].status # "deleted"
  PROVE  /\ job[j].status = "processing" /\ job[j].attempts = worker[w].attempts
         /\ Held(j) /\ leaseState[j] = "held"
<1>1. Executing(w, j)
  BY DEF LetsGo, Executing
<1>2. job[j].status = "processing" /\ job[j].attempts = worker[w].attempts
  BY <1>1 DEF Views, IInv, ExecutionHoldsLock
<1>3. Held(j)
  BY <1>1, <1>2 DEF Held, Exists
<1> QED
  BY <1>2, <1>3 DEF Views, LeaseView, LeaseStates

\* Without its row, or with a job that is no job, nothing happens to the leases.
LEMMA LetGoNothing ==
  ASSUME Views, NEW w \in Workers, LetsGo(w), job' = job,
         worker[w].job \in Jobs => job[worker[w].job].status = "deleted"
  PROVE  LeaseStep
<1>1. ASSUME NEW k \in Jobs PROVE SameLease(k)
  <2>1. CASE k # worker[w].job
    <3>1. SameRow(k)
      BY <2>1 DEF LetsGo, SameRow, Executing
    <3> QED
      BY <3>1, SameRowSameLease DEF Views, IInv
  <2>2. CASE k = worker[w].job
    <3>1. ~Held(k) /\ ~Held(k)' /\ job[k].status = "deleted"
      BY <2>2 DEF Held, Exists
    <3> QED
      BY <3>1 DEF SameLease, Views, LeaseView, LeaseStates, LeaseHolders, LeasesLeft
  <2> QED
    BY <2>1, <2>2
<1> QED
  BY <1>1, AllSame DEF Views, LeaseStep

\* An execution that succeeds finishes its job.
LEMMA SucceedStep == ASSUME Views, NEW w \in Workers, Succeed(w) PROVE LeaseStep
<1>1. LetsGo(w)
  BY DEF Succeed, Update, Goto, LetsGo, Views, IInv, TypeOK
<1>2. CASE worker[w].job \in Jobs => job[worker[w].job].status = "deleted"
  <2>1. job' = job
    BY <1>2 DEF Succeed, Update, Exists, Views, IInv, TypeOK
  <2> QED
    BY <1>1, <1>2, <2>1, LetGoNothing
<1>3. ASSUME NEW j \in Jobs, j = worker[w].job, job[j].status # "deleted"
      PROVE  Lease!Finish(j)
  <2>1. job[j].status = "processing" /\ leaseState[j] = "held"
    BY <1>1, <1>3, LetGoHeld
  <2>2. job'[j].status = "completed" /\ job'[j].attempts = job[j].attempts
    BY <1>3, <2>1 DEF Succeed, Update, Exists, Views, IInv, TypeOK, JobRow
  <2>3. (\A k \in Jobs \ {j} : SameLease(k)) /\ ~Held(j)'
    BY <1>1, <1>3, LetGoOthers
  <2>4. leaseState'[j] = "done" /\ leaseHolder'[j] = NoWorker /\ leaseLeft'[j] = leaseLeft[j]
    BY <2>2, <2>3 DEF Views, LeaseView, LeaseStates, LeaseHolders, LeasesLeft
  <2> QED
    BY <2>1, <2>3, <2>4, OneChanges, UnchangedFcn
    DEF Views, Lease!Finish, Lease!Become, Lease!Drop
<1> QED
  BY <1>2, <1>3 DEF LeaseStep, Lease!Next

\* One that fails returns its job and spends one of the budget.
LEMMA FailStep == ASSUME Views, NEW w \in Workers, Fail(w) PROVE LeaseStep
<1>1. LetsGo(w)
  BY DEF Fail, Update, Goto, LetsGo, Views, IInv, TypeOK
<1>2. CASE worker[w].job \in Jobs => job[worker[w].job].status = "deleted"
  <2>1. job' = job
    BY <1>2 DEF Fail, Update, Exists, Views, IInv, TypeOK
  <2> QED
    BY <1>1, <1>2, <2>1, LetGoNothing
<1>3. ASSUME NEW j \in Jobs, j = worker[w].job, job[j].status # "deleted"
      PROVE  Lease!Return(j)
  <2>1. PICK n : n = worker[w].attempts + 1
    OBVIOUS
  <2>2. /\ job[j].status = "processing" /\ leaseState[j] = "held"
        /\ job[j].attempts = worker[w].attempts
    BY <1>1, <1>3, LetGoHeld
  <2>3. /\ n \in Nat /\ n = job[j].attempts + 1 /\ n <= MaxAttempts /\ MaxAttempts \in Nat
        /\ job[j] \in JobRow
    BY <2>1, <2>2, QueueAssumption DEF Views, IInv, TypeOK, JobRow, RetryBudget
  <2>4. job'[j] = IF LastAttempt(n)
                    THEN [job[j] EXCEPT !.status = "failed", !.attempts = n]
                    ELSE [job[j] EXCEPT !.status = "pending", !.attempts = n, !.wait = Backoff(n)]
    BY <1>3, <2>1, <2>2 DEF Fail, Update, Exists, Views, IInv, TypeOK
  <2>5. /\ job'[j].attempts = n
        /\ job'[j].status = IF n = MaxAttempts THEN "failed" ELSE "pending"
    <3>1. CASE n = MaxAttempts
      BY <2>3, <2>4, <3>1 DEF LastAttempt, JobRow
    <3>2. CASE n # MaxAttempts
      <4>1. ~LastAttempt(n)
        BY <2>3, <3>2 DEF LastAttempt
      <4>2. PICK b : b = Backoff(n)
        OBVIOUS
      <4>3. job'[j] = [job[j] EXCEPT !.status = "pending", !.attempts = n, !.wait = b]
        BY <2>4, <4>1, <4>2
      <4> QED
        BY <2>3, <3>2, <4>3 DEF JobRow
    <3> QED
      BY <3>1, <3>2
  <2>6. (\A k \in Jobs \ {j} : SameLease(k)) /\ ~Held(j)'
    BY <1>1, <1>3, LetGoOthers
  <2>7. leaseLeft[j] = MaxAttempts - job[j].attempts /\ leaseLeft'[j] = MaxAttempts - n
    BY <2>5 DEF Views, LeaseView, LeasesLeft
  <2>8. leaseLeft'[j] = leaseLeft[j] - 1 /\ (leaseLeft[j] = 1 <=> n = MaxAttempts)
    <3>1. job[j].attempts \in Nat
      BY <2>3 DEF JobRow
    <3> QED
      BY <2>3, <2>7, <3>1
  <2>9. /\ leaseState'[j] = IF leaseLeft[j] = 1 THEN "done" ELSE "ready"
        /\ leaseHolder'[j] = NoWorker
    BY <2>5, <2>6, <2>8 DEF Views, LeaseView, LeaseStates, LeaseHolders
  <2> QED
    BY <2>2, <2>6, <2>8, <2>9, OneChanges DEF Views, Lease!Return, Lease!Become, Lease!Drop
<1> QED
  BY <1>2, <1>3 DEF LeaseStep, Lease!Next

\* A fault during an execution loses the job, any other changes no lease.
LEMMA TroubleStep == ASSUME Views, NEW w \in Workers, Trouble(w) PROVE LeaseStep
<1>1. /\ job' = job /\ worker'[w].pc # "exec"
      /\ \A v \in Workers \ {w} : worker'[v] = worker[v]
  BY DEF Trouble, Crash, RequeueError, ClaimError, FinishError, Goto, Views, IInv, TypeOK
<1>2. CASE worker[w].pc # "exec"
  <2>1. \A k \in Jobs : SameRow(k)
    BY <1>1, <1>2 DEF SameRow, Executing
  <2> QED
    BY <2>1, StutterStep
<1>3. CASE worker[w].pc = "exec"
  <2>1. LetsGo(w)
    BY <1>1, <1>3 DEF LetsGo
  <2>2. CASE worker[w].job \in Jobs => job[worker[w].job].status = "deleted"
    BY <1>1, <2>1, <2>2, LetGoNothing
  <2>3. ASSUME NEW j \in Jobs, j = worker[w].job, job[j].status # "deleted"
        PROVE  Lease!Lose(j)
    <3>1. job[j].status = "processing" /\ leaseState[j] = "held"
      BY <2>1, <2>3, LetGoHeld
    <3>2. (\A k \in Jobs \ {j} : SameLease(k)) /\ ~Held(j)'
      BY <2>1, <2>3, LetGoOthers
    <3>3. leaseState'[j] = "orphaned" /\ leaseHolder'[j] = NoWorker /\ leaseLeft'[j] = leaseLeft[j]
      BY <1>1, <3>1, <3>2 DEF Views, LeaseView, LeaseStates, LeaseHolders, LeasesLeft
    <3> QED
      BY <3>1, <3>2, <3>3, OneChanges, UnchangedFcn
      DEF Views, Lease!Lose, Lease!Become, Lease!Drop
  <2> QED
    BY <2>2, <2>3 DEF LeaseStep, Lease!Next
<1> QED
  BY <1>2, <1>3

LEMMA QueueStep == ASSUME Views, LocksAreSafe, [Next]_vars PROVE LeaseStep
<1>1. CASE Client
  BY <1>1, ClientStep
<1>2. CASE Tick
  <2>1. \A j \in Jobs : SameRow(j)
    BY <1>2, LaterRow DEF Tick, SameRow, Executing, Views, IInv, TypeOK
  <2> QED
    BY <2>1, StutterStep
<1>3. ASSUME NEW w \in Workers, Work(w) PROVE LeaseStep
  <2>1. CASE Start(w) \/ EndPass(w)
    <3>1. \A j \in Jobs : SameRow(j)
      BY <2>1 DEF Start, EndPass, Goto, SameRow, Executing, Views, IInv, TypeOK
    <3> QED
      BY <3>1, StutterStep
  <2>2. CASE BeginPass(w)
    BY <2>2, BeginPassStep
  <2>3. ASSUME NEW j \in Jobs, Claim(w, j) PROVE LeaseStep
    BY <2>3, ClaimStep DEF LeaseStep, Lease!Next
  <2>4. ~LockChosen(w) /\ \A j \in Jobs : ~ChooseJob(w, j)
    BY DEF LockChosen, ChooseJob, LocksAreSafe, Views, IInv, NoHalfClaim
  <2>5. CASE Succeed(w) \/ Fail(w)
    BY <2>5, SucceedStep, FailStep
  <2> QED
    BY <1>3, <2>1, <2>2, <2>3, <2>4, <2>5 DEF Work, TakeJob
<1>4. ASSUME NEW w \in Workers, Trouble(w) PROVE LeaseStep
  BY <1>4, TroubleStep
<1>5. CASE UNCHANGED vars
  <2>1. \A j \in Jobs : SameRow(j)
    BY <1>5 DEF vars, SameRow, Executing
  <2> QED
    BY <2>1, StutterStep
<1> QED
  BY <1>1, <1>2, <1>3, <1>4, <1>5 DEF Next

LEMMA InitLease == Init => Lease!Init /\ NewRows
<1> SUFFICES ASSUME Init PROVE Lease!Init /\ NewRows
  OBVIOUS
<1>1. LeaseView
  BY InitIInv, ViewHolds
<1>2. \A j \in Jobs : job[j].status = "new" /\ job[j].attempts = 0 /\ ~Held(j)
  BY DEF Init, NoRow, Held, Exists
<1>3. \A j \in Jobs : leaseLeft[j] = MaxAttempts
  <2> SUFFICES ASSUME NEW j \in Jobs PROVE leaseLeft[j] = MaxAttempts
    OBVIOUS
  <2>1. leaseLeft[j] = MaxAttempts - job[j].attempts
    BY <1>1 DEF LeaseView, LeasesLeft
  <2> QED
    BY <1>2, <2>1, QueueAssumption
<1>4. \A j \in Jobs : leaseState[j] = "absent" /\ leaseHolder[j] = NoWorker
  BY <1>1, <1>2 DEF LeaseView, LeaseStates, LeaseHolders
<1> QED
  BY <1>1, <1>2, <1>3, <1>4 DEF LeaseView, Lease!Init, NewRows

\* Whatever the locks, the clocks and the crashes: a job is held by one worker,
\* only orphaned jobs are recovered, and the budget is spent one at a time.
THEOREM ImplementsLeaseHolds ==
  ASSUME LocksAreSafe
  PROVE  Safety => ImplementsLease
<1>1. NewRows /\ IInv /\ [Next]_vars => NewRows'
  BY NewRowsStep
<1>2. Safety => []NewRows
  BY <1>1, InitLease, QueueInvariant, PTL DEF Safety
<1>3. IInv /\ IInv' /\ LeaseView /\ LeaseView' /\ NewRows /\ [Next]_vars
        => [Lease!Next]_<<leaseState, leaseHolder, leaseLeft>>
  BY QueueStep DEF Views, LeaseStep
<1> QED
  BY <1>2, <1>3, InitLease, ViewHolds, QueueInvariant, PTL
  DEF Safety, ImplementsLease, Lease!LeaseSpec, Lease!vars
=============================================================================
