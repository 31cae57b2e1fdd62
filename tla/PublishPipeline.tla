-------------------------- MODULE PublishPipeline ---------------------------
(***************************************************************************)
(* The job queue and the publisher together: executeJob calls              *)
(* HandlePublishJob, and what the handler returns decides what becomes of  *)
(* the job.  A worker that dies loses the handler's local state; the job   *)
(* comes back after the stale lock window and the handler starts again on  *)
(* whatever the tables say by then.                                        *)
(***************************************************************************)
EXTENDS JobQueue

CONSTANTS ThreadLen, Accounts, NoAccount, SkipsReplies, PublishedLimit, WriteLimit, DbErrors, MaxCounted

VARIABLES
  payload,  \* post_id in the payload of a job
  post, dest, gen, published, writes, counted, live, detached, run

pub == <<post, dest, gen, published, writes, counted, live, detached, run>>
queue == <<job, worker, payload>>
pipeVars == <<vars, payload, pub>>

Pub == INSTANCE Publisher

ASSUME PipelineAssumption == Pub!PublisherAssumption

PipeTypeOK ==
  /\ TypeOK
  /\ payload \in [Jobs -> Pub!Posts]
  /\ Pub!PublisherTypeOK

\* Ids are random: which one the first job has makes no difference.
FirstJob == CHOOSE j \in Jobs : TRUE

\* CreatePost and CreateThread insert posts, destinations and, when a time is
\* given, the job of the root in one transaction.
Created(status) ==
  /\ \E d \in Delays :
       job = [j \in Jobs |-> IF j = FirstJob /\ status = "scheduled" THEN Inserted(d) ELSE NoRow]
  /\ worker = [w \in Workers |-> [pc |-> "down", job |-> NoJob, attempts |-> 0]]
  /\ payload = [j \in Jobs |-> 0]
  /\ Pub!CreatedAs(status)

PipeInit == Created("scheduled")

-----------------------------------------------------------------------------
\* The worker between two executions.
Poll(w) ==
  /\ Start(w) \/ BeginPass(w) \/ EndPass(w) \/ \E j \in Jobs : ChooseJob(w, j)
  /\ UNCHANGED <<payload, pub>>

PollError(w) ==
  /\ RequeueError(w) \/ ClaimError(w)
  /\ UNCHANGED <<payload, pub>>

\* The claimed job's handler is called.
Execute(w) ==
  /\ \/ LockChosen(w)
     \/ \E j \in Jobs : Claim(w, j)
  /\ IF worker'[w].pc = "exec"
       THEN Pub!Begin(w, payload[worker'[w].job])
       ELSE UNCHANGED pub
  /\ UNCHANGED payload

Publish(w) == Pub!Step(w) /\ UNCHANGED queue
PublishFault(w) == Pub!StepFault(w) /\ UNCHANGED queue

\* The handler's result is written to the job.
Finish(w) ==
  /\ Pub!End(w)
  /\ IF run[w].err THEN Fail(w) ELSE Succeed(w)
  /\ UNCHANGED payload

LocalsLost(w) ==
  /\ run' = [run EXCEPT ![w] = Pub!Idle]
  /\ UNCHANGED <<payload, post, dest, gen, published, writes, counted, live, detached>>

ResultLost(w) == Pub!At(w, "return") /\ FinishError(w) /\ LocalsLost(w)
Die(w) == Crash(w) /\ LocalsLost(w)

-----------------------------------------------------------------------------
PipeWork(w) == Poll(w) \/ Execute(w) \/ Publish(w) \/ Finish(w)
PipeTrouble(w) == PollError(w) \/ PublishFault(w) \/ ResultLost(w) \/ Die(w)

PipeTick == Tick /\ UNCHANGED <<payload, pub>>

PipeNext ==
  \/ PipeTick
  \/ \E w \in Workers : PipeWork(w) \/ PipeTrouble(w)

PipeSafety == PipeInit /\ [][PipeNext]_pipeVars

\* Time passes, processes are restarted, and every call of the handler
\* returns.
PipeFairness == WF_pipeVars(PipeTick) /\ \A w \in Workers : WF_pipeVars(PipeWork(w))

PipeSpec == PipeSafety /\ PipeFairness

-----------------------------------------------------------------------------
(* Properties.                                                             *)

Concluded(p) == post[p] \in {"published", "failed"}

\* A job that is completed or failed leaves nothing behind that still waits
\* for it: every post of the thread has its verdict and no destination is
\* pending, whatever was interrupted and retried before.
SettledJobsConclude ==
  (\E j \in Jobs : job[j].status \in {"completed", "failed"}) =>
    \A p \in Pub!Posts :
      Concluded(p) /\ \A a \in Accounts : dest[p][a].status # "pending"

\* Every scheduled post is at last published or failed, for good, although
\* processes die at any point and the posts are left "publishing".
EveryPostConcludes == \A p \in Pub!Posts : <>[]Concluded(p)

\* The message written by filterThreadDestinationsAfterPreviousPost, "previous
\* post in thread failed for this account", is true: background-jobs.md,
\* "Publishing must survive process restarts".
BlockedOnlyByFailure ==
  \A p \in Pub!Posts \ {0}, a \in Accounts :
    dest[p][a].status = "failed" /\ dest[p][a].blocked => dest[p - 1][a].status # "success"
=============================================================================
