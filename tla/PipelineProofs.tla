--------------------------- MODULE PipelineProofs ---------------------------
(***************************************************************************)
(* What a job leaves behind when it is settled, for threads of any length, *)
(* any accounts, limits, budgets of attempts and stale windows.  The lemmas *)
(* about the publisher by itself are taken from PublisherThreadProofs.     *)
(***************************************************************************)
EXTENDS PublishPipeline, JobQueueProofs

Th == INSTANCE PublisherThreadProofs

\* The two instances of Publisher say the same.
LEMMA SameStep ==
  ASSUME NEW w \in Workers, Pub!Step(w)
  PROVE  Th!Step(w)
  BY DEF Pub!Step, Pub!Load, Pub!MarkPublishing, Pub!LoadDests, Pub!CheckPublishedQuota, Pub!EndDests,
     Pub!Block, Pub!Reject, Pub!Prepare, Pub!PrepareError, Pub!Skip, Pub!RecordWrite, Pub!Accept,
     Pub!Refuse, Pub!Expired, Pub!SaveExternalID, Pub!MarkSuccess, Pub!MarkFailed, Pub!CountDests,
     Pub!Conclude, Pub!CountPublished, Pub!At, Pub!Return, Pub!Goto, Pub!dbVars, Pub!worldVars,
     Pub!SetPost, Pub!Posts, Pub!EndsThread, Pub!Become, Pub!AfterDests, Pub!Open, Pub!Blocked,
     Pub!SetDest, Pub!Failed, Pub!AfterBlock, Pub!AfterReject, Pub!SkipReply, Pub!WritesLeft,
     Pub!Take, Pub!InThread, Pub!Appear, Pub!Succeeded, Pub!AfterSuccess, Pub!AfterFailure,
     Pub!Verdict, Pub!NextPost, Pub!pubVars, Pub!Rows, Th!Step, Th!Load, Th!MarkPublishing,
     Th!LoadDests, Th!CheckPublishedQuota, Th!EndDests, Th!Block, Th!Reject, Th!Prepare,
     Th!PrepareError, Th!Skip, Th!RecordWrite, Th!Accept, Th!Refuse, Th!Expired, Th!SaveExternalID,
     Th!MarkSuccess, Th!MarkFailed, Th!CountDests, Th!Conclude, Th!CountPublished, Th!At,
     Th!Return, Th!Goto, Th!dbVars, Th!worldVars, Th!SetPost, Th!Posts, Th!EndsThread, Th!Become,
     Th!AfterDests, Th!Open, Th!Blocked, Th!SetDest, Th!Failed, Th!AfterBlock, Th!AfterReject,
     Th!SkipReply, Th!WritesLeft, Th!Take, Th!InThread, Th!Appear, Th!Succeeded, Th!AfterSuccess,
     Th!AfterFailure, Th!Verdict, Th!NextPost, Th!pubVars, Th!Rows

LEMMA SameFault ==
  ASSUME NEW w \in Workers, Pub!StepFault(w)
  PROVE  Th!StepFault(w)
  BY DEF Pub!LoseReply, Pub!AcceptWithoutID, Pub!StepFault, Pub!Fault, Pub!At, Pub!Appear, Pub!Goto,
     Pub!dbVars, Pub!LoadError, Pub!MarkPublishingError, Pub!LoadThreadError, Pub!LoadDestsError,
     Pub!CheckPublishedQuotaError, Pub!PassOverError, Pub!RecordWriteError,
     Pub!SaveExternalIDError, Pub!MarkError, Pub!CountDestsError, Pub!ConcludeError, Pub!DbFault,
     Pub!Return, Pub!worldVars, Pub!Posts, Pub!EndsThread, Pub!Become, Pub!SetPost, Pub!InThread,
     Pub!Blocked, Pub!AfterBlock, Pub!AfterReject, Pub!AfterSuccess, Pub!AfterFailure, Pub!Rows,
     Pub!NextPost, Pub!pubVars, Th!LoseReply, Th!AcceptWithoutID, Th!StepFault, Th!Fault, Th!At,
     Th!Appear, Th!Goto, Th!dbVars, Th!LoadError, Th!MarkPublishingError, Th!LoadThreadError,
     Th!LoadDestsError, Th!CheckPublishedQuotaError, Th!PassOverError, Th!RecordWriteError,
     Th!SaveExternalIDError, Th!MarkError, Th!CountDestsError, Th!ConcludeError, Th!DbFault,
     Th!Return, Th!worldVars, Th!Posts, Th!EndsThread, Th!Become, Th!SetPost, Th!InThread,
     Th!Blocked, Th!AfterBlock, Th!AfterReject, Th!AfterSuccess, Th!AfterFailure, Th!Rows,
     Th!NextPost, Th!pubVars

\* When no statement fails, the faults are those of the platform.
LEMMA OnlyPlatformFaults ==
  ASSUME DbErrors = FALSE, NEW w \in Workers, Publish(w) \/ PublishFault(w)
  PROVE  Th!Step(w) \/ Th!LoseReply(w) \/ Th!AcceptWithoutID(w)
<1>1. CASE Pub!Step(w)
  BY <1>1, SameStep
<1>2. CASE Pub!StepFault(w)
  <2>1. Th!StepFault(w)
    BY <1>2, SameFault
  <2> QED
    BY <2>1 DEF Th!StepFault, Th!DbFault, Th!LoadError, Th!MarkPublishingError, Th!LoadThreadError,
       Th!LoadDestsError, Th!CheckPublishedQuotaError, Th!PassOverError, Th!RecordWriteError,
       Th!SaveExternalIDError, Th!MarkError, Th!CountDestsError, Th!ConcludeError
<1> QED
  BY <1>1, <1>2 DEF Publish, PublishFault

LEMMA SameAssumption == Th!PublisherAssumption
  BY PipelineAssumption DEF Pub!PublisherAssumption, Th!PublisherAssumption

LEMMA SameCall ==
  ASSUME NEW w \in Workers
  PROVE  /\ Pub!Begin(w, 0) => Th!Begin(w, 0)
         /\ Pub!End(w) => Th!End(w)
         /\ Pub!Idle = Th!Idle
  BY DEF Pub!Begin, Th!Begin, Pub!End, Th!End, Pub!At, Th!At, Pub!Become, Th!Become, Pub!Idle, Th!Idle,
     Pub!dbVars, Th!dbVars, Pub!worldVars, Th!worldVars

-----------------------------------------------------------------------------
\* The only job there is, and where its worker is.  The handler has locals only
\* while the job is executed, and a settled job is not executed again.
OneJob ==
  /\ \A j \in Jobs : payload[j] = 0 /\ job[j].status # "deleted"
  /\ \A j \in Jobs : j # FirstJob => job[j].status = "new"

WorkerInv ==
  \A w \in Workers :
    /\ worker[w].pc \in {"chosen", "exec"} => worker[w].job = FirstJob /\ FirstJob \in Jobs
    /\ worker[w].pc = "chosen" => job[FirstJob].status = "pending"
    /\ worker[w].pc = "exec" => job[FirstJob].status = "processing"
    /\ worker[w].pc # "exec" => run[w] = Th!Idle

SettledInv ==
  (\E j \in Jobs : job[j].status \in {"completed", "failed"}) => \A p \in Th!Posts : Th!Disposed(p)

PipeInv ==
  /\ TypeOK
  /\ Th!DupInv /\ Th!ThreadInv /\ Th!ProgressInv
  /\ OneJob /\ WorkerInv /\ SettledInv

\* One server, and no failed statement.
OneServer == Th!OneWorker /\ DbErrors = FALSE

\* The publisher's part of a step.
LEMMA HandlerKept ==
  ASSUME OneServer, PipeInv, NEW w \in Workers, Th!RunStepped(w)
  PROVE  Th!DupInv' /\ Th!ThreadInv' /\ Th!ProgressInv'
<1>1. Th!OneWorker /\ Th!DupInv
  BY DEF OneServer, PipeInv
<1>2. Th!DupInv'
  <2>1. CASE Th!Step(w)
    BY SameAssumption, <1>1, <2>1, Th!StepDup DEF OneServer
  <2>2. CASE Th!LoseReply(w) \/ Th!AcceptWithoutID(w)
    BY SameAssumption, <1>1, <2>2, Th!PlatformFaultDup DEF OneServer
  <2>3. CASE Th!Begin(w, 0) \/ Th!End(w) \/ Th!Dies(w)
    BY SameAssumption, <1>1, <2>3, Th!EnvironmentDup DEF OneServer
  <2> QED
    BY <2>1, <2>2, <2>3 DEF Th!RunStepped
<1> QED
  BY SameAssumption, <1>2, Th!StepThread, Th!StepProgress DEF OneServer, PipeInv

LEMMA QueueOnly ==
  ASSUME OneServer, PipeInv, UNCHANGED <<pub, faults>>
  PROVE  Th!DupInv' /\ Th!ThreadInv' /\ Th!ProgressInv' /\ \A p \in Th!Posts : Th!Disposed(p)' <=> Th!Disposed(p)
<1>1. UNCHANGED Th!pubVars
  BY DEF pub, Th!pubVars, Th!dbVars, Th!worldVars
<1>2. Th!DupInv'
  BY <1>1 DEF PipeInv, Th!pubVars, Th!dbVars, Th!worldVars, Th!DupInv, Th!PublisherTypeOK, Th!RowsStay, Th!Fresh, Th!InHand, Th!Accounted, Th!Landed, Th!DuplicatesCostFaults
<1>3. Th!ThreadInv'
  BY SameAssumption, <1>1, Th!StutterThread DEF OneServer, PipeInv
<1>4. Th!ProgressInv' /\ \A p \in Th!Posts : Th!Disposed(p)' <=> Th!Disposed(p)
  BY <1>1 DEF PipeInv, Th!pubVars, Th!dbVars, Th!worldVars, Th!ProgressInv, Th!ProgressRun, Th!Disposed, Th!Begun
<1> QED
  BY <1>2, <1>3, <1>4

LEMMA IdleRests ==
  ASSUME NEW w \in Workers, Th!Step(w) \/ Th!LoseReply(w) \/ Th!AcceptWithoutID(w), run[w] = Th!Idle
  PROVE  FALSE
  BY DEF Th!Idle, Th!Step, Th!At, Th!Load, Th!MarkPublishing, Th!LoadDests, Th!CheckPublishedQuota, Th!EndDests, Th!Block,
     Th!Reject, Th!Prepare, Th!PrepareError, Th!Skip, Th!RecordWrite, Th!Accept, Th!Refuse, Th!Expired, Th!SaveExternalID,
     Th!MarkFailed, Th!MarkSuccess, Th!CountDests, Th!Conclude, Th!CountPublished, Th!LoseReply, Th!AcceptWithoutID

\* A step of the queue that leaves the publisher alone.
LEMMA PollKept ==
  ASSUME OneServer, PipeInv, NEW w \in Workers, Poll(w)
  PROVE  PipeInv'
<1>0. \A v \in Workers : v = w
  BY DEF OneServer, Th!OneWorker
<1>1. UNCHANGED <<payload, pub>> /\ UNCHANGED faults
  BY DEF Poll, Start, BeginPass, EndPass, ChooseJob
<1>2. Th!DupInv' /\ Th!ThreadInv' /\ Th!ProgressInv' /\ \A p \in Th!Posts : Th!Disposed(p)' <=> Th!Disposed(p)
  BY <1>1, QueueOnly
<1>3. PICK pc \in {"idle", "poll", "chosen"}, j \in Jobs \cup {NoJob} :
        /\ worker' = [worker EXCEPT ![w] = [pc |-> pc, job |-> j, attempts |-> 0]]
        /\ pc = "chosen" => j \in Jobs /\ job[j].status = "pending" /\ UNCHANGED job
        /\ worker[w].pc # "exec"
        /\ UNCHANGED job \/ job' = [k \in Jobs |-> IF Stale(k) THEN Requeued(job[k]) ELSE job[k]]
  BY DEF Poll, Start, BeginPass, EndPass, ChooseJob, NextDue, Due, Goto
<1>4. \A k \in Jobs : /\ job'[k] \in JobRow
                      /\ \/ job'[k].status = job[k].status
                         \/ job[k].status = "processing" /\ job'[k].status = "pending"
  BY <1>3, RequeuedRow DEF PipeInv, TypeOK, Stale
<1>5. TypeOK'
  BY <1>1, <1>3, <1>4 DEF PipeInv, TypeOK, WorkerState
<1>6. OneJob'
  BY <1>1, <1>4 DEF PipeInv, OneJob
<1>7. run'[w] = Th!Idle
  BY <1>1, <1>3 DEF PipeInv, WorkerInv, pub
<1>8. worker'[w].pc = pc /\ worker'[w].job = j
  BY <1>3 DEF PipeInv, TypeOK
<1>9. pc = "chosen" => j = FirstJob /\ j \in Jobs /\ job'[j].status = "pending"
  BY <1>3 DEF PipeInv, OneJob
<1>10. WorkerInv'
  BY <1>0, <1>7, <1>8, <1>9 DEF WorkerInv
<1>11. SettledInv'
  BY <1>2, <1>4 DEF PipeInv, SettledInv
<1> QED
  BY <1>2, <1>5, <1>6, <1>10, <1>11 DEF PipeInv

\* Time.
LEMMA PipeTickKept ==
  ASSUME OneServer, PipeInv, PipeTick
  PROVE  PipeInv'
<1>1. UNCHANGED <<payload, pub>> /\ UNCHANGED <<worker, faults>> /\ job' = [j \in Jobs |-> Later(job[j])]
  BY DEF PipeTick, Tick
<1>2. Th!DupInv' /\ Th!ThreadInv' /\ Th!ProgressInv' /\ \A p \in Th!Posts : Th!Disposed(p)' <=> Th!Disposed(p)
  BY <1>1, QueueOnly
<1>3. \A j \in Jobs : job'[j] \in JobRow /\ job'[j].status = job[j].status
  BY <1>1, LaterRow DEF PipeInv, TypeOK
<1>4. TypeOK'
  BY <1>1, <1>3 DEF PipeInv, TypeOK
<1>5. OneJob' /\ WorkerInv' /\ SettledInv'
  BY <1>1, <1>2, <1>3 DEF PipeInv, OneJob, WorkerInv, SettledInv, pub
<1> QED
  BY <1>2, <1>4, <1>5 DEF PipeInv

\* A claim and the call of the handler.
LEMMA ExecuteKept ==
  ASSUME OneServer, PipeInv, NEW w \in Workers, Execute(w)
  PROVE  PipeInv'
<1>0. \A v \in Workers : v = w
  BY DEF OneServer, Th!OneWorker
<1>1. PICK j \in Jobs : /\ job[j].status = "pending" /\ worker[w].pc \in {"poll", "chosen"}
                        /\ job' = [job EXCEPT ![j] = Locked(w, job[j])]
                        /\ worker' = [worker EXCEPT ![w] = [pc |-> "exec", job |-> j, attempts |-> job[j].attempts]]
                        /\ UNCHANGED faults
  <2>1. CASE LockChosen(w)
    <3>1. worker[w].pc = "chosen" /\ worker[w].job = FirstJob /\ FirstJob \in Jobs /\ job[FirstJob].status = "pending"
      BY <2>1 DEF LockChosen, PipeInv, WorkerInv
    <3>2. Exists(FirstJob)
      BY <3>1 DEF Exists
    <3> QED
      BY <2>1, <3>1, <3>2 DEF LockChosen, Goto
  <2>2. ASSUME NEW j \in Jobs, Claim(w, j)
        PROVE  /\ job[j].status = "pending" /\ worker[w].pc = "poll"
               /\ job' = [job EXCEPT ![j] = Locked(w, job[j])]
               /\ worker' = [worker EXCEPT ![w] = [pc |-> "exec", job |-> j, attempts |-> job[j].attempts]]
               /\ UNCHANGED faults
    BY <2>2 DEF Claim, NextDue, Due, Goto
  <2> QED
    BY <2>1, <2>2 DEF Execute
<1>2. j = FirstJob
  BY <1>1 DEF PipeInv, OneJob
<1>3. /\ worker'[w].pc = "exec" /\ worker'[w].job = j
      /\ job'[j] \in JobRow /\ job'[j].status = "processing" /\ \A k \in Jobs : k # j => job'[k] = job[k]
  BY <1>1, LockedRow DEF PipeInv, TypeOK
<1>4. Th!Begin(w, 0) /\ UNCHANGED payload
  BY <1>3, SameCall DEF Execute, PipeInv, OneJob
<1>5. Th!DupInv' /\ Th!ThreadInv' /\ Th!ProgressInv'
  BY <1>4, HandlerKept DEF Th!RunStepped
<1>6. TypeOK'
  <2>1. job[j].attempts \in Nat
    BY DEF PipeInv, TypeOK, JobRow
  <2>2. worker' \in [Workers -> WorkerState]
    BY <1>1, <2>1 DEF PipeInv, TypeOK, WorkerState
  <2>3. job' \in [Jobs -> JobRow]
    BY <1>1, <1>3 DEF PipeInv, TypeOK
  <2> QED
    BY <1>1, <2>2, <2>3 DEF PipeInv, TypeOK
<1>7. OneJob'
  BY <1>2, <1>3, <1>4 DEF PipeInv, OneJob
<1>8. WorkerInv'
  BY <1>0, <1>2, <1>3 DEF WorkerInv
<1>9. SettledInv'
  <2>1. \A k \in Jobs : job'[k].status \notin {"completed", "failed"}
    BY <1>2, <1>3 DEF PipeInv, OneJob
  <2> QED
    BY <2>1 DEF SettledInv
<1> QED
  BY <1>5, <1>6, <1>7, <1>8, <1>9 DEF PipeInv

\* A step of the handler.
LEMMA PublishKept ==
  ASSUME OneServer, PipeInv, NEW w \in Workers, Publish(w) \/ PublishFault(w)
  PROVE  PipeInv'
<1>0. \A v \in Workers : v = w
  BY DEF OneServer, Th!OneWorker
<1>1. Th!Step(w) \/ Th!LoseReply(w) \/ Th!AcceptWithoutID(w)
  BY OnlyPlatformFaults DEF OneServer
<1>2. Th!RunStepped(w) /\ UNCHANGED <<job, worker, payload>>
  BY <1>1 DEF Th!RunStepped, Publish, PublishFault, queue
<1>3. Th!DupInv' /\ Th!ThreadInv' /\ Th!ProgressInv'
  BY <1>2, HandlerKept
<1>4. TypeOK' /\ OneJob'
  BY <1>2, <1>3 DEF PipeInv, TypeOK, OneJob, Th!DupInv, Th!PublisherTypeOK
<1>5. worker[w].pc = "exec"
  BY <1>1, IdleRests DEF PipeInv, WorkerInv
<1>6. WorkerInv'
  BY <1>0, <1>2, <1>5 DEF PipeInv, WorkerInv
<1>7. job[FirstJob].status = "processing"
  BY <1>5 DEF PipeInv, WorkerInv
<1>8. SettledInv'
  <2>1. \A j \in Jobs : job'[j].status \notin {"completed", "failed"}
    BY <1>2, <1>7 DEF PipeInv, OneJob
  <2> QED
    BY <2>1 DEF SettledInv
<1> QED
  BY <1>3, <1>4, <1>6, <1>8 DEF PipeInv

\* What a finished execution writes to the job, if it is still there.
LEMMA FinishRow ==
  ASSUME TypeOK, NEW w \in Workers, worker[w].job \in Jobs, Succeed(w) \/ Fail(w)
  PROVE  \E row \in JobRow :
           /\ job' = [job EXCEPT ![worker[w].job] = row]
           /\ IF Exists(worker[w].job) THEN row.status \in {"completed", "failed", "pending"} ELSE row = job[worker[w].job]
<1> DEFINE j == worker[w].job
           n == worker[w].attempts + 1
           done == [job[j] EXCEPT !.status = "completed"]
           last == [job[j] EXCEPT !.status = "failed", !.attempts = n]
           again == [job[j] EXCEPT !.status = "pending", !.attempts = n, !.wait = Backoff(n)]
<1>0. job \in [Jobs -> JobRow] /\ j \in Jobs /\ n \in Nat /\ n # 0
  BY DEF TypeOK, WorkerState
<1>1. job' = [job EXCEPT ![j] = IF Exists(j) THEN done ELSE @]
      \/ job' = [job EXCEPT ![j] = IF Exists(j) THEN IF LastAttempt(n) THEN last ELSE again ELSE @]
  BY DEF Succeed, Fail, Update
<1>2. done \in JobRow /\ done.status = "completed"
  BY <1>0 DEF JobRow, JobStatus
<1>3. last \in JobRow /\ last.status = "failed"
  <2> HIDE DEF n
  <2> QED
    BY <1>0 DEF JobRow, JobStatus
<1>4. ~LastAttempt(n) => again \in JobRow /\ again.status = "pending"
  <2>0. n \in Nat /\ job[j] \in JobRow
    BY <1>0
  <2>1. ~LastAttempt(n) => Backoff(n) \in Int
    BY <1>0, BackoffAssumption, QueueAssumption DEF LastAttempt, Backoff
  <2>2. PICK b : b = Backoff(n)
    OBVIOUS
  <2> HIDE DEF n, j
  <2>3. again = [job[j] EXCEPT !.status = "pending", !.attempts = n, !.wait = b]
    BY <2>2
  <2> QED
    BY <2>0, <2>1, <2>2, <2>3 DEF JobRow, JobStatus
<1> HIDE DEF done, last, again, n
<1>5. CASE ~Exists(j)
  BY <1>0, <1>1, <1>5
<1>6. CASE Exists(j)
  BY <1>1, <1>2, <1>3, <1>4, <1>6
<1> QED
  BY <1>5, <1>6

\* The handler has returned: everything is disposed of when the job is settled.
LEMMA FinishKept ==
  ASSUME OneServer, PipeInv, NEW w \in Workers, Finish(w)
  PROVE  PipeInv'
<1>0. \A v \in Workers : v = w
  BY DEF OneServer, Th!OneWorker
<1>1. Pub!End(w) /\ (Succeed(w) \/ Fail(w)) /\ UNCHANGED payload
  BY DEF Finish
<1>2. Th!End(w)
  BY <1>1, SameCall
<1>3. Th!DupInv' /\ Th!ThreadInv' /\ Th!ProgressInv'
  BY <1>2, HandlerKept DEF Th!RunStepped
<1>4. /\ run[w].pc = "return" /\ run' = [run EXCEPT ![w] = Th!Idle]
      /\ UNCHANGED <<post, dest, faults>>
  BY <1>2 DEF Th!End, Th!At, Th!Become, Th!dbVars, Th!worldVars
<1>5. run'[w] = Th!Idle
  BY <1>4 DEF PipeInv, Th!DupInv, Th!PublisherTypeOK
<1>6. \A p \in Th!Posts : Th!Disposed(p)'
  BY <1>4 DEF PipeInv, Th!ProgressInv, Th!ProgressRun, Th!Disposed
<1>7. /\ worker[w].pc = "exec" /\ worker[w].job = FirstJob /\ FirstJob \in Jobs
      /\ job[FirstJob].status = "processing" /\ worker' = [worker EXCEPT ![w] = [pc |-> "poll", job |-> NoJob, attempts |-> 0]]
  BY <1>1 DEF Succeed, Fail, Goto, PipeInv, WorkerInv
<1>8. PICK row \in JobRow : job' = [job EXCEPT ![FirstJob] = row] /\ row.status # "deleted"
  <2>1. PICK row \in JobRow :
          /\ job' = [job EXCEPT ![FirstJob] = row]
          /\ Exists(FirstJob) => row.status \in {"completed", "failed", "pending"}
    BY <1>1, <1>7, FinishRow DEF PipeInv
  <2>2. Exists(FirstJob)
    BY <1>7 DEF Exists
  <2> QED
    BY <2>1, <2>2
<1>9. TypeOK'
  BY <1>4, <1>7, <1>8 DEF PipeInv, TypeOK, WorkerState
<1>10. OneJob'
  BY <1>1, <1>8 DEF PipeInv, OneJob, TypeOK
<1>11. worker'[w].pc = "poll"
  BY <1>7 DEF PipeInv, TypeOK
<1>12. WorkerInv'
  BY <1>0, <1>5, <1>11 DEF WorkerInv
<1>13. SettledInv'
  BY <1>6 DEF SettledInv
<1> QED
  BY <1>3, <1>9, <1>10, <1>12, <1>13 DEF PipeInv

\* A fault of the worker: the locals of the handler, if it has any, are lost.
LEMMA TroubleKept ==
  ASSUME OneServer, PipeInv, NEW w \in Workers, PollError(w) \/ ResultLost(w) \/ Die(w)
  PROVE  PipeInv'
<1>0. \A v \in Workers : v = w
  BY DEF OneServer, Th!OneWorker
<1>1. PICK pc \in {"down", "idle", "poll"} :
        /\ worker' = [worker EXCEPT ![w] = [pc |-> pc, job |-> NoJob, attempts |-> 0]]
        /\ faults' = faults + 1 /\ UNCHANGED <<job, payload>>
  BY DEF PollError, RequeueError, ClaimError, ResultLost, FinishError, Die, Crash, LocalsLost, Fault, Goto
<1>2. /\ run' = [run EXCEPT ![w] = Th!Idle]
      /\ UNCHANGED <<post, dest, gen, published, writes, counted, live, detached>>
  <2>1. CASE PollError(w)
    <3>1. worker[w].pc # "exec" /\ UNCHANGED pub
      BY <2>1 DEF PollError, RequeueError, ClaimError
    <3>2. run[w] = Th!Idle
      BY <3>1 DEF PipeInv, WorkerInv
    <3> QED
      BY <3>1, <3>2 DEF pub, PipeInv, Th!DupInv, Th!PublisherTypeOK
  <2>2. CASE ResultLost(w) \/ Die(w)
    BY <2>2, SameCall DEF ResultLost, Die, LocalsLost
  <2> QED
    BY <2>1, <2>2
<1>3. Th!Dies(w)
  BY <1>1, <1>2 DEF Th!Dies, Th!Become, Th!dbVars, Th!worldVars
<1>4. Th!DupInv' /\ Th!ThreadInv' /\ Th!ProgressInv'
  BY <1>3, HandlerKept DEF Th!RunStepped
<1>5. run'[w] = Th!Idle
  BY <1>2 DEF PipeInv, Th!DupInv, Th!PublisherTypeOK
<1>6. TypeOK' /\ OneJob'
  BY <1>1 DEF PipeInv, TypeOK, OneJob, WorkerState
<1>7. worker'[w].pc = pc
  BY <1>1 DEF PipeInv, TypeOK
<1>8. WorkerInv'
  BY <1>0, <1>5, <1>7 DEF WorkerInv
<1>9. SettledInv'
  BY <1>1, <1>2 DEF PipeInv, SettledInv, Th!Disposed
<1> QED
  BY <1>4, <1>6, <1>8, <1>9 DEF PipeInv

LEMMA InitPipeInv ==
  ASSUME OneServer, PipeInit
  PROVE  PipeInv
<1>1. Th!PublisherInit
  BY DEF PipeInit, Created, Th!PublisherInit, Pub!CreatedAs, Th!CreatedAs, Pub!Posts, Th!Posts, Pub!Idle, Th!Idle, Pub!NewDest, Th!NewDest
<1>2. Th!DupInv /\ Th!ThreadInv
  BY SameAssumption, <1>1, Th!InitDupInv, Th!InitThreadInv DEF OneServer
<1>3. /\ \A w \in Workers : run[w] = Th!Idle
      /\ \A p \in Th!Posts : post[p] = "scheduled"
  BY <1>1 DEF Th!PublisherInit, Th!CreatedAs
<1>4. Th!ProgressInv
  BY <1>3 DEF Th!ProgressInv, Th!ProgressRun, Th!Begun, Th!Idle
<1>5. PICK d \in Delays : job = [j \in Jobs |-> IF j = FirstJob THEN Inserted(d) ELSE NoRow]
  BY DEF PipeInit, Created
<1>6. /\ Inserted(d) \in JobRow /\ Inserted(d).status = "pending"
      /\ NoRow \in JobRow /\ NoRow.status = "new"
  BY QueueAssumption DEF Inserted, NoRow, JobRow, JobStatus, Unlocked
<1>7. /\ worker = [w \in Workers |-> [pc |-> "down", job |-> NoJob, attempts |-> 0]]
      /\ payload = [j \in Jobs |-> 0] /\ faults = 0
  BY <1>1 DEF PipeInit, Created, Th!PublisherInit, Th!CreatedAs
<1>8. TypeOK
  BY <1>5, <1>6, <1>7 DEF TypeOK, WorkerState
<1>9. OneJob /\ WorkerInv /\ SettledInv
  BY <1>3, <1>5, <1>6, <1>7 DEF OneJob, WorkerInv, SettledInv
<1> QED
  BY <1>2, <1>4, <1>8, <1>9 DEF PipeInv

LEMMA NextPipe ==
  ASSUME OneServer, PipeInv, [PipeNext]_pipeVars
  PROVE  PipeInv'
<1>1. CASE UNCHANGED pipeVars
  <2>1. UNCHANGED <<pub, faults>> /\ UNCHANGED <<job, worker, payload>>
    BY <1>1 DEF pipeVars, vars
  <2>2. Th!DupInv' /\ Th!ThreadInv' /\ Th!ProgressInv' /\ \A p \in Th!Posts : Th!Disposed(p)' <=> Th!Disposed(p)
    BY <2>1, QueueOnly
  <2>3. TypeOK' /\ OneJob' /\ WorkerInv' /\ SettledInv'
    BY <2>1, <2>2 DEF PipeInv, TypeOK, OneJob, WorkerInv, SettledInv, pub
  <2> QED
    BY <2>2, <2>3 DEF PipeInv
<1> QED
  BY <1>1, PipeTickKept, PollKept, ExecuteKept, PublishKept, FinishKept, TroubleKept DEF PipeNext, PipeWork, PipeTrouble

\* One server and no failed statement: the invariant of the queue, the thread
\* and the handler's progress holds of executeJob and HandlePublishJob together.
THEOREM PipeInvariant ==
  ASSUME OneServer
  PROVE  PipeSpec => []PipeInv
<1>1. PipeInv /\ [PipeNext]_pipeVars => PipeInv'
  BY NextPipe
<1>2. PipeInit => PipeInv
  BY InitPipeInv
<1> QED
  BY <1>1, <1>2, PTL DEF PipeSpec, PipeSafety

\* SettledJobsConclude: a job that executeJob has completed or failed leaves no
\* post of its thread without a verdict and no destination pending, however
\* often it was interrupted and taken up again.
THEOREM SettledJobsConcludeHolds ==
  ASSUME OneServer
  PROVE  PipeSpec => []SettledJobsConclude
<1>1. PipeInv => SettledJobsConclude
  BY DEF PipeInv, SettledInv, SettledJobsConclude, Concluded, Th!Disposed, Th!Posts, Pub!Posts
<1> QED
  BY <1>1, PipeInvariant, PTL

\* What the publisher promises by itself it keeps in executeJob's hands: one
\* publication per destination and fault, threads in order, and "published"
\* posts delivered.
THEOREM PipelineDelivers ==
  ASSUME OneServer
  PROVE  PipeSpec => [](Pub!DuplicatesCostFaults /\ Pub!ThreadOrder /\ Pub!PublishedMeansDelivered)
<1>1. PipeInv => Pub!DuplicatesCostFaults
  BY DEF PipeInv, Th!DupInv, Th!DuplicatesCostFaults, Pub!DuplicatesCostFaults, Th!Posts, Pub!Posts
<1>2. PipeInv => Pub!ThreadOrder
  BY DEF PipeInv, Th!ThreadInv, Th!ThreadOrder, Pub!ThreadOrder, Th!Posts, Pub!Posts
<1>3. PipeInv => Pub!PublishedMeansDelivered
  BY DEF PipeInv, Th!ThreadInv, Th!RowsInv, Th!Reached, Th!Skips, Pub!PublishedMeansDelivered, Th!Posts, Pub!Posts
<1> QED
  BY <1>1, <1>2, <1>3, PipeInvariant, PTL
=============================================================================
