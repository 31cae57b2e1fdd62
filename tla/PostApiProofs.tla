---------------------------- MODULE PostApiProofs ----------------------------
(***************************************************************************)
(* What the handlers of posts keep while workers publish, fail and die,    *)
(* for any number of clients, requests, workers and jobs and for threads   *)
(* of any length.                                                          *)
(***************************************************************************)
EXTENDS MCPostApi, PipelineProofs, FiniteSetTheorems

-----------------------------------------------------------------------------
(* The invariant.                                                          *)

\* A job that will publish the root: a worker that has it in hand has not yet
\* marked the root, so the status that it writes is that of the present plan.
Waiting(j) ==
  /\ j \in JobsOf(0) /\ Live(j)
  /\ \A w \in Workers : Executing(w, j) => run[w].pc \in {"load", "mark"} /\ run[w].at = 0

Queued == post[0] = "scheduled" => \E j \in Jobs : Waiting(j)

\* Ids are never used up: every new job is paid for by a request.
UsedRows == {j \in Jobs : job[j].status # "new"}
OpenRequests == {c \in Clients : req[c] # NoRequest}

RowsLeft ==
  /\ IsFiniteSet(UsedRows) /\ IsFiniteSet(OpenRequests)
  /\ Cardinality(UsedRows) + Cardinality(OpenRequests) <= 1 + requests

JobsInHand ==
  \A w \in Workers : worker[w].pc \in {"chosen", "exec"} => worker[w].job \in UsedRows

ApiTyped ==
  /\ TypeOK
  /\ payload \in [Jobs -> Th!Posts]
  /\ Th!TypeInv
  /\ planned \in [Th!Posts -> BOOLEAN]
  /\ req \in [Clients -> Request]
  /\ requests \in 0 .. MaxRequests

ApiInv == ApiTyped /\ JobsInHand /\ RowsLeft /\ Queued

LEMMA SamePosts == Pub!Posts = Th!Posts /\ Pub!PostStatus = Th!PostStatus /\ 0 \in Th!Posts
  BY SameAssumption DEF Pub!Posts, Th!Posts, Pub!PostStatus, Th!PostStatus, Th!PublisherAssumption

\* Rows keep to the table: nothing but an insert makes a row of an id.
LEMMA SameRows ==
  ASSUME RowsLeft, UNCHANGED <<req, requests>>,
         \A j \in Jobs : job'[j].status = "new" <=> job[j].status = "new"
  PROVE  RowsLeft' /\ UsedRows' = UsedRows
<1>1. UsedRows' = UsedRows /\ OpenRequests' = OpenRequests
  BY DEF UsedRows, OpenRequests
<1> QED
  BY <1>1 DEF RowsLeft

-----------------------------------------------------------------------------
(* The queue and the workers, between two requests.                        *)

\* The root's job still waits after a step that neither makes the root
\* "scheduled" nor touches the job beyond keeping it live.
LEMMA QueuedStays ==
  ASSUME Queued, payload' = payload, post'[0] = "scheduled" => post[0] = "scheduled",
         \A j \in Jobs : Waiting(j) /\ post'[0] = "scheduled" =>
            /\ job'[j].status \in {"pending", "processing"}
            /\ \A w \in Workers : Executing(w, j)' => run'[w].pc \in {"load", "mark"} /\ run'[w].at = 0
  PROVE  Queued'
<1>1. SUFFICES ASSUME post'[0] = "scheduled" PROVE \E j \in Jobs : Waiting(j)'
  BY DEF Queued
<1>2. PICK j \in Jobs : Waiting(j)
  BY <1>1 DEF Queued
<1>3. Exists(j)' /\ Live(j)' /\ payload'[j] = 0
  BY <1>1, <1>2 DEF Exists, Live, Waiting, JobsOf
<1>4. Waiting(j)'
  BY <1>1, <1>2, <1>3 DEF Waiting, JobsOf
<1> QED
  BY <1>4

LEMMA ApiTick ==
  ASSUME ApiInv, PipeTick, UNCHANGED apiVars
  PROVE  ApiInv'
<1>1. /\ UNCHANGED <<payload, pub>> /\ UNCHANGED <<worker, faults>> /\ job' = [j \in Jobs |-> Later(job[j])]
      /\ UNCHANGED <<planned, req, requests>>
  BY DEF PipeTick, Tick, apiVars
<1>2. \A j \in Jobs : job'[j] \in JobRow /\ job'[j].status = job[j].status
  BY <1>1, LaterRow DEF ApiInv, ApiTyped, TypeOK
<1>3. ApiTyped'
  BY <1>1, <1>2 DEF ApiInv, ApiTyped, TypeOK, pub, Th!TypeInv, Th!PublisherTypeOK, Th!InHand
<1>4. RowsLeft' /\ UsedRows' = UsedRows
  BY <1>1, <1>2, SameRows DEF ApiInv
<1>5. JobsInHand'
  BY <1>1, <1>4 DEF ApiInv, JobsInHand
<1>6. Queued'
  <2>1. \A j \in Jobs : Waiting(j) => job'[j].status \in {"pending", "processing"}
    BY <1>2 DEF Waiting, Live
  <2> QED
    BY <1>1, <2>1, QueuedStays DEF ApiInv, pub, Waiting, Executing
<1> QED
  BY <1>3, <1>4, <1>5, <1>6 DEF ApiInv

LEMMA ApiPoll ==
  ASSUME ApiInv, NEW w \in Workers, Poll(w) \/ PollError(w), UNCHANGED apiVars
  PROVE  ApiInv'
<1>1. UNCHANGED <<payload, pub>> /\ faults' \in {faults, faults + 1} /\ UNCHANGED <<planned, req, requests>>
  BY DEF Poll, Start, BeginPass, EndPass, ChooseJob, PollError, RequeueError, ClaimError, Fault, apiVars
<1>2. PICK pc \in {"idle", "poll", "chosen"}, j \in Jobs \cup {NoJob} :
        /\ worker' = [worker EXCEPT ![w] = [pc |-> pc, job |-> j, attempts |-> 0]]
        /\ pc = "chosen" => j \in UsedRows
        /\ UNCHANGED job \/ job' = [k \in Jobs |-> IF Stale(k) THEN Requeued(job[k]) ELSE job[k]]
  BY DEF Poll, Start, BeginPass, EndPass, ChooseJob, PollError, RequeueError, ClaimError, NextDue, Due, Goto, UsedRows
<1>3. \A k \in Jobs : /\ job'[k] \in JobRow
                      /\ \/ job'[k].status = job[k].status
                         \/ job[k].status = "processing" /\ job'[k].status = "pending"
  BY <1>2, RequeuedRow DEF ApiInv, ApiTyped, TypeOK, Stale
<1>4. worker'[w].pc = pc /\ worker'[w].job = j /\ \A v \in Workers : v # w => worker'[v] = worker[v]
  BY <1>2 DEF ApiInv, ApiTyped, TypeOK
<1>5. ApiTyped'
  <2>1. TypeOK'
    BY <1>1, <1>2, <1>3 DEF ApiInv, ApiTyped, TypeOK, WorkerState
  <2> QED
    BY <1>1, <2>1 DEF ApiInv, ApiTyped, pub, TypeOK, Th!TypeInv, Th!PublisherTypeOK, Th!InHand
<1>6. RowsLeft' /\ UsedRows' = UsedRows
  BY <1>1, <1>3, SameRows DEF ApiInv
<1>7. JobsInHand'
  BY <1>2, <1>4, <1>6 DEF ApiInv, JobsInHand
<1>8. Queued'
  <2>1. \A k \in Jobs : Waiting(k) => job'[k].status \in {"pending", "processing"}
    BY <1>3 DEF Waiting, Live
  <2>2. \A v \in Workers, k \in Jobs : Executing(v, k)' => Executing(v, k)
    BY <1>4 DEF Executing
  <2> QED
    BY <1>1, <2>1, <2>2, QueuedStays DEF ApiInv, pub, Waiting
<1> QED
  BY <1>5, <1>6, <1>7, <1>8 DEF ApiInv

LEMMA ApiExecute ==
  ASSUME ApiInv, NEW w \in Workers, Execute(w), UNCHANGED apiVars
  PROVE  ApiInv'
<1>1. CASE LockChosen(w) /\ ~Exists(worker[w].job)
  <2>1. /\ worker' = [worker EXCEPT ![w] = [pc |-> "idle", job |-> NoJob, attempts |-> 0]]
        /\ UNCHANGED <<job, payload>> /\ UNCHANGED faults /\ UNCHANGED <<planned, req, requests>>
    BY <1>1 DEF LockChosen, Goto, Execute, apiVars
  <2>2. worker'[w].pc = "idle" /\ \A v \in Workers : v # w => worker'[v] = worker[v]
    BY <2>1 DEF ApiInv, ApiTyped, TypeOK
  <2>3. UNCHANGED pub
    BY <2>2 DEF Execute
  <2>4. ApiTyped'
    BY <2>1, <2>3 DEF ApiInv, ApiTyped, TypeOK, WorkerState, pub, Th!TypeInv, Th!PublisherTypeOK, Th!InHand
  <2>5. RowsLeft' /\ UsedRows' = UsedRows
    BY <2>1, SameRows DEF ApiInv
  <2>6. JobsInHand'
    BY <2>2, <2>5 DEF ApiInv, JobsInHand
  <2>7. Queued'
    <3>1. \A v \in Workers, k \in Jobs : Executing(v, k)' => Executing(v, k)
      BY <2>2 DEF Executing
    <3> QED
      BY <2>1, <2>3, <3>1, QueuedStays DEF ApiInv, pub, Waiting, Live
  <2> QED
    BY <2>4, <2>5, <2>6, <2>7 DEF ApiInv
<1>2. ASSUME NEW j \in Jobs, Exists(j),
             job' = [job EXCEPT ![j] = Locked(w, job[j])],
             worker' = [worker EXCEPT ![w] = [pc |-> "exec", job |-> j, attempts |-> job[j].attempts]],
             UNCHANGED faults
      PROVE  ApiInv'
  <2>0. job[j] \in JobRow /\ job[j].attempts \in Nat /\ payload[j] \in Th!Posts
    BY DEF ApiInv, ApiTyped, TypeOK, JobRow
  <2>1. /\ worker'[w].pc = "exec" /\ worker'[w].job = j /\ \A v \in Workers : v # w => worker'[v] = worker[v]
        /\ job'[j] \in JobRow /\ job'[j].status = "processing" /\ \A k \in Jobs : k # j => job'[k] = job[k]
    BY <1>2, <2>0, LockedRow DEF ApiInv, ApiTyped, TypeOK
  <2>2. UNCHANGED payload /\ UNCHANGED <<planned, req, requests>> /\ Pub!Begin(w, payload[j])
    BY <2>1 DEF Execute, apiVars
  <2> DEFINE s == [Th!Idle EXCEPT !.pc = "load", !.at = payload[j]]
  <2>3. run' = [run EXCEPT ![w] = s] /\ UNCHANGED <<Th!dbVars, Th!worldVars>> /\ UNCHANGED post
    BY <2>2, SameCall DEF Pub!Begin, Pub!Become, Pub!dbVars, Pub!worldVars, Th!dbVars, Th!worldVars
  <2>4. ApiTyped'
    <3>1. Th!TypeInv'
      BY SameAssumption, <1>2, <2>0, <2>3, Th!EdgeTypes DEF ApiInv, ApiTyped, TypeOK
    <3>2. worker' \in [Workers -> WorkerState] /\ job' \in [Jobs -> JobRow]
      BY <1>2, <2>0, <2>1 DEF ApiInv, ApiTyped, TypeOK, WorkerState
    <3> QED
      BY <1>2, <2>2, <3>1, <3>2 DEF ApiInv, ApiTyped, TypeOK
  <2>5. RowsLeft' /\ UsedRows' = UsedRows
    BY <1>2, <2>1, <2>2, SameRows DEF ApiInv, Exists
  <2>6. JobsInHand'
    BY <1>2, <2>1, <2>5 DEF ApiInv, JobsInHand, UsedRows, Exists
  <2>7. run'[w].pc = "load" /\ run'[w].at = payload[j] /\ \A v \in Workers : v # w => run'[v] = run[v]
    BY <2>3 DEF ApiInv, ApiTyped, Th!TypeInv, Th!PublisherTypeOK, Th!Idle
  <2>8. Queued'
    <3>1. \A k \in Jobs : Waiting(k) => job'[k].status \in {"pending", "processing"} /\ payload[k] = 0
      BY <2>1 DEF Waiting, Live, JobsOf
    <3>2. \A v \in Workers, k \in Jobs : Waiting(k) /\ Executing(v, k)' => run'[v].pc \in {"load", "mark"} /\ run'[v].at = 0
      BY <2>1, <2>7, <3>1 DEF Waiting, Executing
    <3> QED
      BY <2>2, <2>3, <3>1, <3>2, QueuedStays DEF ApiInv
  <2> QED
    BY <2>4, <2>5, <2>6, <2>8 DEF ApiInv
<1>3. CASE LockChosen(w) /\ Exists(worker[w].job)
  <2>1. worker[w].job \in Jobs
    BY <1>3 DEF LockChosen, ApiInv, JobsInHand, UsedRows
  <2> QED
    BY <1>2, <1>3, <2>1 DEF LockChosen, Goto
<1>4. ASSUME NEW j \in Jobs, Claim(w, j) PROVE ApiInv'
  BY <1>2, <1>4 DEF Claim, NextDue, Due, Exists, Goto
<1> QED
  BY <1>1, <1>3, <1>4 DEF Execute

LEMMA ApiPublish ==
  ASSUME DbErrors = FALSE, ApiInv, NEW w \in Workers, Publish(w) \/ PublishFault(w), UNCHANGED apiVars
  PROVE  ApiInv'
<1>1. Th!Step(w) \/ Th!LoseReply(w) \/ Th!AcceptWithoutID(w)
  BY OnlyPlatformFaults
<1>2. UNCHANGED <<job, worker, payload>> /\ UNCHANGED <<planned, req, requests>>
  BY DEF Publish, PublishFault, queue, apiVars
<1>3. Th!TypeInv'
  BY SameAssumption, <1>1, Th!StepTypes DEF ApiInv, ApiTyped, Th!StepFault
<1>4. ApiTyped'
  BY <1>2, <1>3 DEF ApiInv, ApiTyped, TypeOK, Th!TypeInv, Th!PublisherTypeOK
<1>5. RowsLeft' /\ UsedRows' = UsedRows
  BY <1>2, SameRows DEF ApiInv
<1>6. JobsInHand'
  BY <1>2, <1>5 DEF ApiInv, JobsInHand
<1>7. /\ \A v \in Workers : v # w => run'[v] = run[v]
      /\ run[w].pc = "load" =>
           UNCHANGED post /\ (post[run[w].at] = "gone" \/ (run'[w].pc = "mark" /\ run'[w].at = run[w].at))
      /\ run[w].pc = "mark" => post'[run[w].at] # "scheduled"
      /\ \A p \in Th!Posts : post'[p] \in {"draft", "scheduled"} => post'[p] = post[p]
  BY SameAssumption, <1>1, Th!StepPosts DEF ApiInv, ApiTyped
<1>8. Queued'
  <2>1. post'[0] = "scheduled" => post[0] = "scheduled"
    BY <1>7, SamePosts
  <2>2. ASSUME NEW j \in Jobs, Waiting(j), post'[0] = "scheduled", NEW v \in Workers, Executing(v, j)
        PROVE  run'[v].pc \in {"load", "mark"} /\ run'[v].at = 0
    <3>1. run[v].pc \in {"load", "mark"} /\ run[v].at = 0
      BY <2>2 DEF Waiting
    <3>2. CASE v = w
      BY <1>7, <2>1, <2>2, <3>1, <3>2
    <3> QED
      BY <1>7, <3>1, <3>2
  <2>3. \A j \in Jobs : Waiting(j) => job'[j].status \in {"pending", "processing"}
    BY <1>2 DEF Waiting, Live
  <2>4. \A v \in Workers, j \in Jobs : Executing(v, j)' <=> Executing(v, j)
    BY <1>2 DEF Executing
  <2> QED
    BY <1>2, <2>1, <2>2, <2>3, <2>4, QueuedStays DEF ApiInv
<1> QED
  BY <1>4, <1>5, <1>6, <1>8 DEF ApiInv

\* The locals of a worker are dropped, and it has no job any more.
LEMMA ApiLetGo ==
  ASSUME ApiInv, NEW w \in Workers, Finish(w) \/ ResultLost(w) \/ Die(w), UNCHANGED apiVars
  PROVE  ApiInv'
<1>1. PICK pc \in {"down", "poll"} : worker' = [worker EXCEPT ![w] = [pc |-> pc, job |-> NoJob, attempts |-> 0]]
  BY DEF Finish, Succeed, Fail, ResultLost, FinishError, Die, Crash, Goto
<1>2. /\ run' = [run EXCEPT ![w] = Th!Idle] /\ UNCHANGED <<Th!dbVars, Th!worldVars>> /\ UNCHANGED <<post, payload>>
      /\ faults' \in {faults, faults + 1} /\ UNCHANGED <<planned, req, requests>>
  BY SameCall DEF Finish, Succeed, Fail, ResultLost, FinishError, Die, Crash, LocalsLost, Fault, Pub!End, Pub!Become, Pub!dbVars,
     Pub!worldVars, Th!dbVars, Th!worldVars, apiVars
<1>3. /\ \A j \in Jobs : job'[j] \in JobRow /\ (job'[j].status = "new" <=> job[j].status = "new")
      /\ \A j \in Jobs : job'[j] = job[j] \/ (worker[w].pc = "exec" /\ worker[w].job = j /\ run[w].pc = "return")
      /\ job' \in [Jobs -> JobRow]
  <2>1. CASE ResultLost(w) \/ Die(w)
    BY <2>1 DEF ResultLost, FinishError, Die, Crash, ApiInv, ApiTyped, TypeOK
  <2>2. CASE Finish(w)
    <3>1. run[w].pc = "return" /\ worker[w].pc = "exec" /\ (Succeed(w) \/ Fail(w))
      BY <2>2 DEF Finish, Pub!End, Pub!At, Succeed, Fail
    <3>2. worker[w].job \in Jobs /\ job[worker[w].job].status # "new"
      BY <3>1 DEF ApiInv, JobsInHand, UsedRows
    <3>3. PICK row \in JobRow :
            /\ job' = [job EXCEPT ![worker[w].job] = row]
            /\ IF Exists(worker[w].job) THEN row.status \in {"completed", "failed", "pending"} ELSE row = job[worker[w].job]
      BY <3>1, <3>2, FinishRow DEF ApiInv, ApiTyped
    <3>4. row.status # "new"
      BY <3>2, <3>3
    <3> QED
      BY <3>1, <3>2, <3>3, <3>4 DEF ApiInv, ApiTyped, TypeOK
  <2> QED
    BY <2>1, <2>2
<1>4. ApiTyped'
  <2>0. faults' \in Nat
    BY <1>2 DEF ApiInv, ApiTyped, TypeOK
  <2>1. Th!TypeInv'
    BY SameAssumption, SamePosts, <1>2, <2>0, Th!EdgeTypes DEF ApiInv, ApiTyped
  <2>2. worker' \in [Workers -> WorkerState]
    BY <1>1 DEF ApiInv, ApiTyped, TypeOK, WorkerState
  <2> QED
    BY <1>2, <1>3, <2>0, <2>1, <2>2 DEF ApiInv, ApiTyped, TypeOK
<1>5. RowsLeft' /\ UsedRows' = UsedRows
  BY <1>2, <1>3, SameRows DEF ApiInv
<1>6. worker'[w].pc \notin {"chosen", "exec"} /\ \A v \in Workers : v # w => worker'[v] = worker[v] /\ run'[v] = run[v]
  BY <1>1, <1>2 DEF ApiInv, ApiTyped, TypeOK, Th!TypeInv, Th!PublisherTypeOK
<1>7. JobsInHand'
  BY <1>5, <1>6 DEF ApiInv, JobsInHand
<1>8. Queued'
  <2>1. \A j \in Jobs : Waiting(j) => job'[j] = job[j] /\ job'[j].status \in {"pending", "processing"}
    BY <1>3 DEF Waiting, Live, Executing
  <2>2. \A v \in Workers, j \in Jobs : Executing(v, j)' => Executing(v, j) /\ run'[v] = run[v]
    BY <1>6 DEF Executing
  <2> QED
    BY <1>2, <2>1, <2>2, QueuedStays DEF ApiInv, Waiting
<1> QED
  BY <1>4, <1>5, <1>7, <1>8 DEF ApiInv

-----------------------------------------------------------------------------
(* The transactions.                                                       *)

LEMMA PostsWritten ==
  ASSUME ApiTyped, NEW ps, NEW status \in Th!PostStatus, NEW isPlanned \in BOOLEAN, SetPosts(ps, status, isPlanned)
  PROVE  /\ post' \in [Th!Posts -> Th!PostStatus]
         /\ planned' \in [Th!Posts -> BOOLEAN]
         /\ 0 \notin ps \/ status # "scheduled" => (post'[0] = "scheduled" => post[0] = "scheduled")
<1>1. post \in [Th!Posts -> Th!PostStatus] /\ planned \in [Th!Posts -> BOOLEAN]
  BY DEF ApiTyped, Th!TypeInv, Th!PublisherTypeOK
<1>2. /\ post' = [q \in Th!Posts |-> IF q \in ps /\ Has(q) THEN status ELSE post[q]]
      /\ planned' = [q \in Th!Posts |-> IF q \in ps /\ Has(q) THEN isPlanned ELSE planned[q]]
  BY SamePosts DEF SetPosts
<1> QED
  BY SamePosts, <1>1, <1>2 DEF Has

LEMMA DestsWritten ==
  ASSUME ApiTyped, NEW ps, AssignAccounts(ps) \/ ReplaceDests(ps, {}) \/ UNCHANGED <<dest, gen>>
  PROVE  dest' \in [Th!Posts -> [Accounts -> Th!DestRow]] /\ gen' \in [Th!Posts -> Nat]
<1>1. dest \in [Th!Posts -> [Accounts -> Th!DestRow]] /\ gen \in [Th!Posts -> Nat]
  BY DEF ApiTyped, Th!TypeInv, Th!PublisherTypeOK
<1>2. ASSUME NEW accounts, ReplaceDests(ps, accounts)
      PROVE  dest' \in [Th!Posts -> [Accounts -> Th!DestRow]] /\ gen' \in [Th!Posts -> Nat]
  <2>1. Pub!NewDest \in Th!DestRow /\ Pub!NoDest \in Th!DestRow
    BY DEF Pub!NewDest, Pub!NoDest, Th!DestRow
  <2>2. gen' \in [Th!Posts -> Nat]
    BY <1>1, <1>2, SamePosts DEF ReplaceDests
  <2>3. dest' = [q \in Th!Posts |-> IF q \in ps
                   THEN [a \in Accounts |-> IF a \in accounts THEN Pub!NewDest ELSE Pub!NoDest] ELSE dest[q]]
    BY <1>2, SamePosts DEF ReplaceDests
  <2>4. [a \in Accounts |-> IF a \in accounts THEN Pub!NewDest ELSE Pub!NoDest] \in [Accounts -> Th!DestRow]
    BY <2>1
  <2> QED
    BY <1>1, <2>2, <2>3, <2>4
<1> QED
  BY <1>1, <1>2 DEF AssignAccounts

\* The jobs that may be deleted are those of the post, and they keep their ids.
JobsKept(p) ==
  /\ job' \in [Jobs -> JobRow]
  /\ \A j \in UsedRows : j \in UsedRows' /\ payload'[j] = payload[j] /\ (payload[j] # p => job'[j] = job[j])

LEMMA DeletedRow ==
  ASSUME TypeOK, NEW p, NEW old \in {JobsOf(p), {}}
  PROVE  /\ DeleteJobs(old) \in [Jobs -> JobRow]
         /\ \A j \in Jobs : /\ DeleteJobs(old)[j].status = "new" <=> job[j].status = "new"
                            /\ payload[j] # p => DeleteJobs(old)[j] = job[j]
<1>1. \A j \in Jobs : job[j] \in JobRow /\ [job[j] EXCEPT !.status = "deleted"] \in JobRow
                      /\ [job[j] EXCEPT !.status = "deleted"].status = "deleted"
  BY DEF TypeOK, JobRow, JobStatus
<1> QED
  BY <1>1 DEF DeleteJobs, JobsOf, Exists

LEMMA Cancelled ==
  ASSUME ApiInv, NEW p, CancelJobs(p) \/ UNCHANGED <<job, payload>>
  PROVE  JobsKept(p) /\ payload' \in [Jobs -> Th!Posts] /\ UsedRows' = UsedRows
<1>1. ApiTyped /\ TypeOK
  BY DEF ApiInv, ApiTyped
<1>2. CASE CancelJobs(p)
  BY <1>1, <1>2, DeletedRow DEF CancelJobs, JobsKept, UsedRows, ApiTyped
<1>3. CASE UNCHANGED <<job, payload>>
  BY <1>1, <1>3 DEF JobsKept, UsedRows, ApiTyped, TypeOK
<1> QED
  BY <1>2, <1>3

\* There is an unused id for the job that a request inserts.
LEMMA RowIsLeft ==
  ASSUME IsFiniteSet(Jobs), ApiInv, OpenRequests # {}
  PROVE  \E j \in Jobs : job[j].status = "new"
<1>1. SUFFICES ASSUME UsedRows = Jobs PROVE FALSE
  BY DEF UsedRows
<1>2. PICK c : c \in OpenRequests
  OBVIOUS
<1>3. Cardinality(OpenRequests) \in Nat /\ Cardinality(OpenRequests) # 0
  BY <1>2, FS_CardinalityType, FS_EmptySet DEF ApiInv, RowsLeft
<1>4. Cardinality(UsedRows) \in Nat
  BY <1>1, FS_CardinalityType
<1>5. Cardinality(UsedRows) <= MaxRequests
  <2> DEFINE u == Cardinality(UsedRows)
             o == Cardinality(OpenRequests)
  <2>1. u + o <= 1 + requests /\ requests \in Nat /\ requests <= MaxRequests /\ MaxRequests \in Nat
    BY ApiAssumption DEF ApiInv, RowsLeft, ApiTyped
  <2>2. u \in Nat /\ o \in Nat /\ o # 0
    BY <1>3, <1>4
  <2> HIDE DEF u, o
  <2>3. u <= MaxRequests
    BY <2>1, <2>2
  <2> QED
    BY <2>3 DEF u
<1> QED
  BY <1>1, <1>4, <1>5, ApiAssumption

LEMMA InsertedRow ==
  ASSUME NEW d \in Delays
  PROVE  Inserted(d) \in JobRow /\ Inserted(d).status = "pending"
  BY QueueAssumption DEF Inserted, JobRow, JobStatus

LEMMA QueuedAnew ==
  ASSUME IsFiniteSet(Jobs), ApiInv, OpenRequests # {}, NEW p \in Th!Posts, NEW old \in {JobsOf(p), {}}, QueueJob(p, old)
  PROVE  \E new \in Jobs :
           /\ job[new].status = "new" /\ job'[new].status = "pending" /\ payload'[new] = p
           /\ JobsKept(p) /\ payload' \in [Jobs -> Th!Posts] /\ UsedRows' = UsedRows \cup {new}
<1>1. PICK id \in Jobs : id = CHOOSE j \in Jobs : job[j].status = "new"
  BY RowIsLeft
<1>0. job[id].status = "new"
  BY <1>1, RowIsLeft
<1>2. PICK d \in Delays : job' = [DeleteJobs(old) EXCEPT ![id] = Inserted(d)] /\ payload' = [payload EXCEPT ![id] = p]
  BY <1>1 DEF QueueJob
<1>3. ApiTyped /\ TypeOK
  BY DEF ApiInv, ApiTyped
<1>4. /\ job' \in [Jobs -> JobRow] /\ job'[id].status = "pending"
      /\ \A j \in Jobs : j # id => job'[j] = DeleteJobs(old)[j]
  BY <1>0, <1>2, <1>3, DeletedRow, InsertedRow
<1>5. payload'[id] = p /\ payload' \in [Jobs -> Th!Posts] /\ \A j \in Jobs : j # id => payload'[j] = payload[j]
  BY <1>0, <1>2, <1>3 DEF ApiTyped
<1>6. \A j \in Jobs : j # id => /\ job'[j].status = "new" <=> job[j].status = "new"
                                /\ payload[j] # p => job'[j] = job[j]
  <2>1. \A j \in Jobs : DeleteJobs(old)[j].status = "new" <=> job[j].status = "new"
    BY <1>3, DeletedRow
  <2>2. \A j \in Jobs : payload[j] # p => DeleteJobs(old)[j] = job[j]
    BY <1>3, DeletedRow
  <2> QED
    BY <1>4, <2>1, <2>2
<1>7. UsedRows' = UsedRows \cup {id}
  <2>1. \A j \in Jobs : job'[j].status # "new" <=> job[j].status # "new" \/ j = id
    BY <1>0, <1>4, <1>6
  <2>2. UsedRows' = {j \in Jobs : job'[j].status # "new"}
    BY DEF UsedRows
  <2> QED
    BY <1>0, <2>1, <2>2 DEF UsedRows
<1>8. \A j \in UsedRows : j \in Jobs /\ j # id
  BY <1>0 DEF UsedRows
<1>9. JobsKept(p)
  <2>1. ASSUME NEW j \in UsedRows
        PROVE  j \in UsedRows' /\ payload'[j] = payload[j] /\ (payload[j] # p => job'[j] = job[j])
    BY <1>5, <1>6, <1>7, <1>8, <2>1
  <2> QED
    BY <1>4, <2>1 DEF JobsKept
<1> QED
  BY <1>0, <1>4, <1>5, <1>7, <1>9

\* One request is answered, and at most one id used for it.
LEMMA RequestAnswered ==
  ASSUME RowsLeft, requests \in Nat, NEW c \in Clients, c \in OpenRequests, req \in [Clients -> Request],
         req' = [req EXCEPT ![c] = NoRequest], UNCHANGED requests,
         UsedRows' = UsedRows \/ \E j : UsedRows' = UsedRows \cup {j}
  PROVE  RowsLeft'
<1> DEFINE u == Cardinality(UsedRows)
           o == Cardinality(OpenRequests)
<1>1. OpenRequests' = OpenRequests \ {c}
  BY DEF OpenRequests
<1>2. IsFiniteSet(OpenRequests') /\ Cardinality(OpenRequests') = o - 1
  BY <1>1, FS_RemoveElement DEF RowsLeft
<1>3. IsFiniteSet(UsedRows') /\ Cardinality(UsedRows') \in {u, u + 1}
  BY FS_AddElement DEF RowsLeft
<1>4. u \in Nat /\ o \in Nat /\ u + o <= 1 + requests
  BY FS_CardinalityType DEF RowsLeft
<1> HIDE DEF u, o
<1>5. Cardinality(UsedRows') + Cardinality(OpenRequests') <= 1 + requests
  BY <1>2, <1>3, <1>4
<1> QED
  BY <1>2, <1>3, <1>5 DEF RowsLeft

LEMMA Answered ==
  ASSUME ApiInv, NEW c \in Clients, NEW op \in WebOps \cup McpOps, Commit(c, op)
  PROVE  /\ c \in OpenRequests /\ req[c] \in Request /\ req[c].post \in Th!Posts
         /\ req[c].status \in Th!PostStatus /\ req[c].planned \in BOOLEAN
         /\ req' = [req EXCEPT ![c] = NoRequest] /\ req' \in [Clients -> Request]
         /\ UNCHANGED <<worker, faults, run, requests>>
         /\ UNCHANGED <<published, writes, counted, live, detached>>
<1>1. req[c] \in Request /\ req[c].op = op /\ req' = [req EXCEPT ![c] = NoRequest]
  BY DEF ApiInv, ApiTyped, Commit
<1>2. NoRequest \in Request /\ NoRequest.op = "none"
  BY SamePosts DEF NoRequest, Request, Th!PostStatus
<1>3. op # "none"
  BY DEF WebOps, McpOps
<1> QED
  BY <1>1, <1>2, <1>3, SamePosts DEF ApiInv, ApiTyped, OpenRequests, Request, Commit

\* A transaction keeps the invariant when it writes rows of the right types,
\* leaves the root's job alone or queues another, and uses one id at most.
LEMMA CommitKept ==
  ASSUME ApiInv, NEW c \in Clients, NEW op \in WebOps \cup McpOps, Commit(c, op), NEW p, JobsKept(p),
         post' \in [Th!Posts -> Th!PostStatus], planned' \in [Th!Posts -> BOOLEAN],
         dest' \in [Th!Posts -> [Accounts -> Th!DestRow]], gen' \in [Th!Posts -> Nat], payload' \in [Jobs -> Th!Posts],
         UsedRows' = UsedRows \/ \E j : UsedRows' = UsedRows \cup {j},
         \/ (post'[0] = "scheduled" => post[0] = "scheduled") /\ p # 0
         \/ post'[0] # "scheduled"
         \/ \E j \in Jobs : job[j].status = "new" /\ job'[j].status = "pending" /\ payload'[j] = 0
         \/ UNCHANGED <<job, payload>> /\ (post'[0] = "scheduled" => post[0] = "scheduled")
  PROVE  ApiInv'
<1>1. /\ c \in OpenRequests /\ req' = [req EXCEPT ![c] = NoRequest] /\ req' \in [Clients -> Request]
      /\ UNCHANGED <<worker, faults, run, requests>>
      /\ UNCHANGED <<published, writes, counted, live, detached>>
  BY Answered
<1>2. ApiTyped'
  <2>1. Th!TypeInv'
    BY <1>1 DEF ApiInv, ApiTyped, Th!TypeInv, Th!PublisherTypeOK, Th!InHand
  <2> QED
    BY <1>1, <2>1 DEF ApiInv, ApiTyped, TypeOK, JobsKept
<1>3. RowsLeft'
  <2>1. requests \in Nat /\ req \in [Clients -> Request] /\ RowsLeft
    BY ApiAssumption DEF ApiInv, ApiTyped
  <2> QED
    BY <1>1, <2>1, RequestAnswered
<1>4. JobsInHand'
  BY <1>1 DEF ApiInv, JobsInHand, JobsKept
<1>5. ASSUME post'[0] = "scheduled" => post[0] = "scheduled", p # 0 \/ UNCHANGED <<job, payload>>
      PROVE  Queued'
  <2>1. \A j \in Jobs : Waiting(j) => /\ job'[j] = job[j] /\ payload'[j] = 0
                                      /\ job'[j].status \in {"pending", "processing"} /\ Exists(j)'
    BY <1>5 DEF Waiting, JobsOf, Live, Exists, JobsKept, UsedRows
  <2>2. \A j \in Jobs : Waiting(j) => Waiting(j)'
    BY <1>1, <2>1 DEF Waiting, JobsOf, Live, Executing
  <2> QED
    BY <1>5, <2>2 DEF ApiInv, Queued
<1>6. ASSUME NEW j \in Jobs, job[j].status = "new", job'[j].status = "pending", payload'[j] = 0
      PROVE  Queued'
  <2>1. \A w \in Workers : ~Executing(w, j)'
    BY <1>1, <1>6 DEF ApiInv, JobsInHand, UsedRows, Executing
  <2>2. Waiting(j)'
    BY <1>6, <2>1 DEF Waiting, JobsOf, Live, Exists
  <2> QED
    BY <2>2 DEF Queued
<1>7. post'[0] # "scheduled" => Queued'
  BY DEF Queued
<1> QED
  BY <1>2, <1>3, <1>4, <1>5, <1>6, <1>7 DEF ApiInv

\* The replies of a post, whatever it is, do not include the root.
LEMMA RootIsNoReply ==
  ASSUME NEW p \in Th!Posts
  PROVE  0 \notin Descendants(p) /\ (p # 0 => 0 \notin {p} \cup Descendants(p))
  BY SamePosts DEF Descendants, Th!Posts

LEMMA WebKept ==
  ASSUME IsFiniteSet(Jobs), ApiInv, NEW c \in Clients,
         Unschedule(c) \/ Reschedule(c) \/ Delay(c) \/ Edit(c) \/ DeletePost(c)
  PROVE  ApiInv'
<1> DEFINE p == req[c].post
           ps == {p} \cup Descendants(p)
<1>0. ApiTyped /\ {"unschedule", "reschedule", "delay", "edit", "delete"} \subseteq WebOps \cup McpOps
      /\ {"draft", "scheduled", "gone"} \subseteq Th!PostStatus
  BY DEF ApiInv, WebOps, Th!PostStatus
<1>1. CASE Unschedule(c)
  <2>1. Commit(c, "unschedule") /\ SetPosts(ps, "draft", FALSE) /\ CancelJobs(p) /\ AssignAccounts(ps)
    BY <1>1 DEF Unschedule
  <2>2. p \in Th!Posts
    BY <1>0, <2>1, Answered
  <2>3. JobsKept(p) /\ payload' \in [Jobs -> Th!Posts] /\ UsedRows' = UsedRows
    BY <2>1, Cancelled
  <2>4. /\ post' \in [Th!Posts -> Th!PostStatus] /\ planned' \in [Th!Posts -> BOOLEAN]
        /\ p = 0 => post'[0] # "scheduled"
        /\ post'[0] = "scheduled" => post[0] = "scheduled"
    <3>1. p = 0 => post'[0] # "scheduled"
      BY <2>1, SamePosts DEF SetPosts, Has
    <3> QED
      BY <1>0, <2>1, <3>1, PostsWritten
  <2>5. dest' \in [Th!Posts -> [Accounts -> Th!DestRow]] /\ gen' \in [Th!Posts -> Nat]
    BY <1>0, <2>1, DestsWritten
  <2> QED
    BY <1>0, <2>1, <2>3, <2>4, <2>5, CommitKept
<1>2. CASE DeletePost(c)
  <2> DEFINE qs == IF Has(p) THEN ps ELSE {}
  <2>1. Commit(c, "delete") /\ SetPosts(qs, "gone", FALSE) /\ CancelJobs(p) /\ ReplaceDests(qs, {})
    BY <1>2 DEF DeletePost
  <2>2. p \in Th!Posts
    BY <1>0, <2>1, Answered
  <2>3. JobsKept(p) /\ payload' \in [Jobs -> Th!Posts] /\ UsedRows' = UsedRows
    BY <2>1, Cancelled
  <2>4. /\ post' \in [Th!Posts -> Th!PostStatus] /\ planned' \in [Th!Posts -> BOOLEAN]
        /\ p = 0 => post'[0] # "scheduled"
        /\ post'[0] = "scheduled" => post[0] = "scheduled"
    <3>1. p = 0 => post'[0] # "scheduled"
      BY <2>1, SamePosts DEF SetPosts, Has
    <3> HIDE DEF qs
    <3> QED
      BY <1>0, <2>1, <3>1, PostsWritten
  <2>5. dest' \in [Th!Posts -> [Accounts -> Th!DestRow]] /\ gen' \in [Th!Posts -> Nat]
    <3> HIDE DEF qs
    <3> QED
      BY <1>0, <2>1, DestsWritten
  <2> QED
    BY <1>0, <2>1, <2>3, <2>4, <2>5, CommitKept
<1>3. CASE Reschedule(c)
  <2> DEFINE old == IF req[c].planned THEN JobsOf(p) ELSE {}
  <2>1. Commit(c, "reschedule") /\ SetPosts(ps, "scheduled", TRUE) /\ QueueJob(p, old) /\ AssignAccounts(ps)
    BY <1>3 DEF Reschedule
  <2>2. p \in Th!Posts /\ OpenRequests # {} /\ old \in {JobsOf(p), {}}
    BY <1>0, <2>1, Answered
  <2> HIDE DEF old
  <2>3. PICK new \in Jobs :
           /\ job[new].status = "new" /\ job'[new].status = "pending" /\ payload'[new] = p
           /\ JobsKept(p) /\ payload' \in [Jobs -> Th!Posts] /\ UsedRows' = UsedRows \cup {new}
    BY <2>1, <2>2, QueuedAnew
  <2>4. /\ post' \in [Th!Posts -> Th!PostStatus] /\ planned' \in [Th!Posts -> BOOLEAN]
        /\ p # 0 => (post'[0] = "scheduled" => post[0] = "scheduled")
    BY <1>0, <2>1, <2>2, RootIsNoReply, PostsWritten
  <2>5. dest' \in [Th!Posts -> [Accounts -> Th!DestRow]] /\ gen' \in [Th!Posts -> Nat]
    BY <1>0, <2>1, DestsWritten
  <2> QED
    BY <1>0, <2>1, <2>3, <2>4, <2>5, CommitKept
<1>4. CASE Delay(c) \/ Edit(c)
  <2>1. PICK op \in {"delay", "edit"} :
          /\ Commit(c, op) /\ SetPosts(Descendants(p), req[c].status, req[c].planned) /\ AssignAccounts(ps)
          /\ QueueJob(p, JobsOf(p)) \/ UNCHANGED <<job, payload>>
    BY <1>4 DEF Delay, Edit
  <2>2. p \in Th!Posts /\ OpenRequests # {} /\ req[c].status \in Th!PostStatus /\ req[c].planned \in BOOLEAN
    BY <1>0, <2>1, Answered
  <2>3. /\ post' \in [Th!Posts -> Th!PostStatus] /\ planned' \in [Th!Posts -> BOOLEAN]
        /\ post'[0] = "scheduled" => post[0] = "scheduled"
    BY <1>0, <2>1, <2>2, RootIsNoReply, PostsWritten
  <2>4. dest' \in [Th!Posts -> [Accounts -> Th!DestRow]] /\ gen' \in [Th!Posts -> Nat]
    BY <1>0, <2>1, DestsWritten
  <2>5. CASE UNCHANGED <<job, payload>>
    <3>1. JobsKept(p) /\ payload' \in [Jobs -> Th!Posts] /\ UsedRows' = UsedRows
      BY <2>5, Cancelled
    <3> QED
      BY <1>0, <2>1, <2>3, <2>4, <2>5, <3>1, CommitKept
  <2>6. CASE QueueJob(p, JobsOf(p))
    <3>1. PICK new \in Jobs :
           /\ job[new].status = "new" /\ job'[new].status = "pending" /\ payload'[new] = p
           /\ JobsKept(p) /\ payload' \in [Jobs -> Th!Posts] /\ UsedRows' = UsedRows \cup {new}
      BY <2>2, <2>6, QueuedAnew
    <3> QED
      BY <1>0, <2>1, <2>3, <2>4, <3>1, CommitKept
  <2> QED
    BY <2>1, <2>5, <2>6
<1> QED
  BY <1>1, <1>2, <1>3, <1>4

LEMMA ToolKept ==
  ASSUME IsFiniteSet(Jobs), ApiInv, NEW c \in Clients, UpdateDraft(c) \/ ScheduleDraft(c) \/ CancelPost(c)
  PROVE  ApiInv'
<1> DEFINE p == req[c].post
<1>0. ApiTyped /\ {"update_draft", "schedule_draft", "cancel"} \subseteq WebOps \cup McpOps
      /\ {"draft", "scheduled"} \subseteq Th!PostStatus
  BY DEF ApiInv, McpOps, Th!PostStatus
<1>1. CASE UpdateDraft(c)
  <2>1. Commit(c, "update_draft") /\ AssignAccounts({p}) /\ UNCHANGED <<post, planned, job, payload>>
    BY <1>1 DEF UpdateDraft
  <2>2. JobsKept(p) /\ payload' \in [Jobs -> Th!Posts] /\ UsedRows' = UsedRows
    BY <2>1, Cancelled
  <2>3. dest' \in [Th!Posts -> [Accounts -> Th!DestRow]] /\ gen' \in [Th!Posts -> Nat]
    BY <1>0, <2>1, DestsWritten
  <2>4. post' \in [Th!Posts -> Th!PostStatus] /\ planned' \in [Th!Posts -> BOOLEAN]
    BY <1>0, <2>1 DEF ApiTyped, Th!TypeInv, Th!PublisherTypeOK
  <2> QED
    BY <1>0, <2>1, <2>2, <2>3, <2>4, CommitKept
<1>2. CASE ScheduleDraft(c)
  <2>1. Commit(c, "schedule_draft") /\ SetPosts({p}, "scheduled", TRUE) /\ AssignAccounts({p}) /\ QueueJob(p, JobsOf(p))
    BY <1>2 DEF ScheduleDraft
  <2>2. p \in Th!Posts /\ OpenRequests # {}
    BY <1>0, <2>1, Answered
  <2>3. PICK new \in Jobs :
           /\ job[new].status = "new" /\ job'[new].status = "pending" /\ payload'[new] = p
           /\ JobsKept(p) /\ payload' \in [Jobs -> Th!Posts] /\ UsedRows' = UsedRows \cup {new}
    BY <2>1, <2>2, QueuedAnew
  <2>4. /\ post' \in [Th!Posts -> Th!PostStatus] /\ planned' \in [Th!Posts -> BOOLEAN]
        /\ p # 0 => (post'[0] = "scheduled" => post[0] = "scheduled")
    <3>1. p # 0 => 0 \notin {p}
      OBVIOUS
    <3> HIDE DEF p
    <3> QED
      BY <1>0, <2>1, <3>1, PostsWritten
  <2>5. dest' \in [Th!Posts -> [Accounts -> Th!DestRow]] /\ gen' \in [Th!Posts -> Nat]
    BY <1>0, <2>1, DestsWritten
  <2> QED
    BY <1>0, <2>1, <2>3, <2>4, <2>5, CommitKept
<1>3. CASE CancelPost(c)
  <2>1. Commit(c, "cancel") /\ SetPosts({p}, "draft", FALSE) /\ CancelJobs(p) /\ UNCHANGED <<dest, gen>>
    BY <1>3 DEF CancelPost
  <2>2. JobsKept(p) /\ payload' \in [Jobs -> Th!Posts] /\ UsedRows' = UsedRows
    BY <2>1, Cancelled
  <2>3. /\ post' \in [Th!Posts -> Th!PostStatus] /\ planned' \in [Th!Posts -> BOOLEAN]
        /\ p = 0 => post'[0] # "scheduled"
        /\ post'[0] = "scheduled" => post[0] = "scheduled"
    <3>1. p = 0 => post'[0] # "scheduled"
      BY <2>1, SamePosts DEF SetPosts, Has
    <3> QED
      BY <1>0, <2>1, <3>1, PostsWritten
  <2>4. dest' \in [Th!Posts -> [Accounts -> Th!DestRow]] /\ gen' \in [Th!Posts -> Nat]
    BY <1>0, <2>1, DestsWritten
  <2> QED
    BY <1>0, <2>1, <2>2, <2>3, <2>4, CommitKept
<1> QED
  BY <1>1, <1>2, <1>3

LEMMA ReadKept ==
  ASSUME ApiInv, NEW c \in Clients, Read(c) \/ GiveUp(c)
  PROVE  ApiInv'
<1>1. UNCHANGED <<job, worker, payload>> /\ UNCHANGED <<post, dest, gen, published, writes, counted, live, detached, run, faults>>
      /\ UNCHANGED planned
  BY DEF Read, GiveUp, pipeVars, vars, pub
<1>2. /\ Th!TypeInv' /\ TypeOK' /\ payload' \in [Jobs -> Th!Posts] /\ planned' \in [Th!Posts -> BOOLEAN]
      /\ JobsInHand' /\ Queued' /\ UsedRows' = UsedRows
  BY <1>1 DEF ApiInv, ApiTyped, TypeOK, Th!TypeInv, Th!PublisherTypeOK, Th!InHand, JobsInHand, UsedRows, Queued, Waiting,
     JobsOf, Live, Exists, Executing
<1>3. CASE Read(c)
  <2>1. PICK op \in Ops, p \in Th!Posts :
          /\ req[c] = NoRequest /\ requests < MaxRequests /\ requests' = requests + 1
          /\ req' = [req EXCEPT ![c] = [op |-> op, post |-> p, status |-> post[p], planned |-> planned[p]]]
    BY <1>3, SamePosts DEF Read
  <2> DEFINE r == [op |-> op, post |-> p, status |-> post[p], planned |-> planned[p]]
  <2>2. r \in Request
    <3>1. op \in WebOps \cup McpOps /\ p \in Pub!Posts /\ post[p] \in Pub!PostStatus /\ planned[p] \in BOOLEAN
      BY ApiAssumption, SamePosts DEF ApiInv, ApiTyped, Th!TypeInv, Th!PublisherTypeOK
    <3> QED
      BY <3>1 DEF Request
  <2>3. req' \in [Clients -> Request] /\ requests' \in 0 .. MaxRequests
    BY <2>1, <2>2, ApiAssumption DEF ApiInv, ApiTyped
  <2>4. OpenRequests' \in {OpenRequests, OpenRequests \cup {c}}
    BY <2>1 DEF OpenRequests, ApiInv, ApiTyped
  <2>5. RowsLeft'
    <3> DEFINE u == Cardinality(UsedRows)
               o == Cardinality(OpenRequests)
    <3>1. IsFiniteSet(OpenRequests') /\ Cardinality(OpenRequests') \in {o, o + 1}
      BY <2>4, FS_AddElement DEF ApiInv, RowsLeft
    <3>2. u \in Nat /\ o \in Nat /\ u + o <= 1 + requests /\ requests \in Nat
      BY FS_CardinalityType DEF ApiInv, RowsLeft, ApiTyped
    <3>3. IsFiniteSet(UsedRows') /\ Cardinality(UsedRows') = u
      BY <1>2 DEF ApiInv, RowsLeft
    <3> HIDE DEF u, o
    <3>4. Cardinality(UsedRows') + Cardinality(OpenRequests') <= 1 + requests'
      BY <2>1, <3>1, <3>2, <3>3
    <3> QED
      BY <3>1, <3>3, <3>4 DEF RowsLeft
  <2> QED
    BY <1>2, <2>3, <2>5 DEF ApiInv, ApiTyped
<1>4. CASE GiveUp(c)
  <2>1. c \in OpenRequests /\ req' = [req EXCEPT ![c] = NoRequest] /\ UNCHANGED requests
    BY <1>4 DEF GiveUp, OpenRequests
  <2>2. NoRequest \in Request
    BY SamePosts DEF NoRequest, Request, Th!PostStatus
  <2>3. RowsLeft'
    <3>1. requests \in Nat /\ req \in [Clients -> Request] /\ RowsLeft
      BY ApiAssumption DEF ApiInv, ApiTyped
    <3> QED
      BY <1>2, <2>1, <3>1, RequestAnswered
  <2> QED
    BY <1>2, <2>1, <2>2, <2>3 DEF ApiInv, ApiTyped
<1> QED
  BY <1>3, <1>4

LEMMA InitApiInv ==
  ASSUME ApiInit
  PROVE  ApiInv
<1>1. PICK s \in {"draft", "scheduled"} : Created(s) /\ planned = [p \in Pub!Posts |-> s = "scheduled"]
  BY DEF ApiInit
<1>2. req = [c \in Clients |-> NoRequest] /\ requests = 0 /\ NoRequest \in Request
  BY SamePosts DEF ApiInit, NoRequest, Request, Th!PostStatus
<1>3. PICK d \in Delays : job = [j \in Jobs |-> IF j = FirstJob /\ s = "scheduled" THEN Inserted(d) ELSE NoRow]
  BY <1>1 DEF Created
<1>4. NoRow \in JobRow /\ NoRow.status = "new" /\ Inserted(d) \in JobRow /\ Inserted(d).status = "pending"
  BY InsertedRow, QueueAssumption DEF NoRow, JobRow, JobStatus, Unlocked
<1>5. /\ worker = [w \in Workers |-> [pc |-> "down", job |-> NoJob, attempts |-> 0]]
      /\ payload = [j \in Jobs |-> 0] /\ Pub!CreatedAs(s)
  BY <1>1 DEF Created
<1>6. FirstJob \in Jobs
  <2>1. Jobs # {}
    BY ApiAssumption, FS_EmptySet
  <2> QED
    BY <2>1 DEF FirstJob
<1>7. faults = 0 /\ post = [p \in Th!Posts |-> s] /\ run = [w \in Workers |-> Th!Idle]
  BY <1>5, SamePosts, SameCall DEF Pub!CreatedAs
<1>8. ApiTyped
  <2>1. TypeOK
    BY <1>3, <1>4, <1>5, <1>7 DEF TypeOK, WorkerState
  <2>2. Th!TypeInv
    <3>1. Th!CreatedAs(s)
      BY <1>5 DEF Pub!CreatedAs, Th!CreatedAs, Pub!Posts, Th!Posts, Pub!Idle, Th!Idle, Pub!NewDest, Th!NewDest
    <3> QED
      BY SameAssumption, <3>1, Th!CreatedTypes DEF Th!PostStatus
  <2> QED
    BY <1>1, <1>2, <1>5, <2>1, <2>2, SamePosts, ApiAssumption DEF ApiTyped
<1>9. JobsInHand
  BY <1>5 DEF JobsInHand
<1>10. RowsLeft
  <2>1. OpenRequests = {}
    BY <1>2 DEF OpenRequests
  <2>2. UsedRows = {} \/ UsedRows = {FirstJob}
    BY <1>3, <1>4, <1>6 DEF UsedRows
  <2>3. /\ IsFiniteSet({}) /\ Cardinality({}) = 0
        /\ IsFiniteSet({FirstJob}) /\ Cardinality({FirstJob}) = 1
    BY FS_EmptySet, FS_Singleton
  <2> QED
    BY <1>2, <2>1, <2>2, <2>3 DEF RowsLeft
<1>11. Queued
  <2>1. SUFFICES ASSUME s = "scheduled" PROVE Waiting(FirstJob)
    BY <1>6, <1>7, SamePosts DEF Queued
  <2>2. \A w \in Workers : ~Executing(w, FirstJob)
    BY <1>5 DEF Executing
  <2> QED
    BY <1>3, <1>4, <1>5, <1>6, <2>1, <2>2 DEF Waiting, JobsOf, Exists, Live
<1> QED
  BY <1>8, <1>9, <1>10, <1>11 DEF ApiInv

LEMMA NextApi ==
  ASSUME IsFiniteSet(Jobs), DbErrors = FALSE, ApiInv, [ApiNext]_allVars
  PROVE  ApiInv'
<1>1. CASE UNCHANGED allVars
  <2>1. /\ UNCHANGED <<job, worker, payload>> /\ UNCHANGED <<planned, req, requests>>
        /\ UNCHANGED <<post, dest, gen, published, writes, counted, live, detached, run, faults>>
    BY <1>1 DEF allVars, pipeVars, vars, pub, apiVars
  <2> QED
    BY <2>1 DEF ApiInv, ApiTyped, TypeOK, Th!TypeInv, Th!PublisherTypeOK, Th!InHand, JobsInHand, UsedRows, OpenRequests, RowsLeft,
       Queued, Waiting, JobsOf, Live, Exists, Executing
<1>2. CASE PipeNext /\ UNCHANGED apiVars
  BY <1>2, ApiTick, ApiPoll, ApiExecute, ApiPublish, ApiLetGo DEF PipeNext, PipeWork, PipeTrouble
<1>3. ASSUME NEW c \in Clients, Handler(c) PROVE ApiInv'
  BY <1>3, ReadKept, WebKept, ToolKept DEF Handler
<1> QED
  BY <1>1, <1>2, <1>3 DEF ApiNext

\* However the requests, the workers, their crashes and the lost answers
\* overlap: types, ids, and the job behind every scheduled root.
THEOREM ApiInvariant ==
  ASSUME IsFiniteSet(Jobs), DbErrors = FALSE
  PROVE  ApiSpec => []ApiInv
<1>1. ApiInv /\ [ApiNext]_allVars => ApiInv'
  BY NextApi
<1> QED
  BY <1>1, InitApiInv, PTL DEF ApiSpec, ApiSafety

\* ApiTypeOK: the tables, the handlers' locals and the requests keep their
\* types, and a request finds an unused id for the job it inserts.
THEOREM ApiTypeOKHolds ==
  ASSUME IsFiniteSet(Jobs), DbErrors = FALSE
  PROVE  ApiSpec => []ApiTypeOK
<1>1. ASSUME ApiInv PROVE ApiTypeOK
  <2>1. Pub!PublisherTypeOK
    BY <1>1 DEF ApiInv, ApiTyped, Th!TypeInv, Th!PublisherTypeOK, Pub!PublisherTypeOK, Th!Posts, Pub!Posts, Th!PostStatus,
       Pub!PostStatus, Th!DestRow, Pub!DestRow, Th!Run, Pub!Run, Th!RunPC, Pub!RunPC
  <2> QED
    BY <1>1, <2>1, SamePosts DEF ApiInv, ApiTyped, ApiTypeOK, PipeTypeOK
<1> QED
  BY <1>1, ApiInvariant, PTL

\* ScheduledIsQueued: UpdatePost, schedule_draft, cancel_post and DeletePost
\* decide from what they read before; the workers claim, publish, fail and die
\* in between: a root that is "scheduled" still has a job that publishes it.
THEOREM ScheduledIsQueuedHolds ==
  ASSUME IsFiniteSet(Jobs), DbErrors = FALSE
  PROVE  ApiSpec => []ScheduledIsQueued
<1>1. ApiInv => ScheduledIsQueued
  BY DEF ApiInv, Queued, Waiting, ScheduledIsQueued
<1> QED
  BY <1>1, ApiInvariant, PTL

-----------------------------------------------------------------------------
(* The tools of an assistant.                                              *)

\* While locks are safe no row but a live one becomes live, except by an insert.
LiveStays == \A j \in Jobs : Live(j)' => Live(j)

\* The jobs of p are gone from the queue, and none came.
JobsDropped(p) == \A j \in Jobs : Live(j)' => Live(j) /\ payload'[j] = payload[j] /\ payload[j] # p

OneJobEach == \A j, k \in Jobs : Live(j) /\ Live(k) /\ payload[j] = payload[k] => j = k
NoDraftJob == post[0] = "draft" => \A j \in Jobs : payload[j] = 0 => ~Live(j)
ToolRequests == \A c \in Clients : req[c].op \in OpsOf.tools \cup {"none"}

ToolsInv == area = "tools" => ToolRequests /\ OneJobEach /\ NoDraftJob

LEMMA LiveFinish ==
  ASSUME IInv, NEW w \in Workers, worker[w].job \in Jobs, Succeed(w) \/ Fail(w)
  PROVE  LiveStays
<1> DEFINE j == worker[w].job
<1>1. PICK row \in JobRow :
        /\ job' = [job EXCEPT ![j] = row]
        /\ IF Exists(j) THEN row.status \in {"completed", "failed", "pending"} ELSE row = job[j]
  BY FinishRow DEF IInv
<1>2. job[j].status \in {"processing", "deleted"}
  BY DEF Succeed, Fail, IInv, ExecutionHoldsLock, Executing
<1>3. ~Exists(j) => row = job[j]
  BY <1>1
<1>4. job'[j] = row /\ \A k \in Jobs : k # j => job'[k] = job[k]
  BY <1>1 DEF IInv, TypeOK
<1> QED
  BY <1>2, <1>3, <1>4 DEF LiveStays, Live, Exists

\* The queue's own invariant, in the steps of the pipeline.
LEMMA PipeQueue ==
  ASSUME LocksAreSafe, DbErrors = FALSE, ApiInv, IInv, PipeNext
  PROVE  IInv' /\ LiveStays /\ (post'[0] = "draft" => post[0] = "draft") /\ UNCHANGED payload
<1>1. CASE PipeTick
  <2>1. \A j \in Jobs : job'[j].status = job[j].status
    BY <1>1, LaterRow DEF PipeTick, Tick, IInv, TypeOK
  <2> QED
    BY <1>1, <2>1, NextIInv DEF PipeTick, pub, Next, LiveStays, Live
<1>2. ASSUME NEW w \in Workers, Poll(w) \/ PollError(w)
      PROVE  IInv' /\ LiveStays /\ (post'[0] = "draft" => post[0] = "draft") /\ UNCHANGED payload
  <2>1. Work(w) \/ Trouble(w)
    BY <1>2 DEF Poll, PollError, Work, Trouble, TakeJob, ChooseJob
  <2>2. IInv'
    BY <2>1, NextIInv DEF Next
  <2>3. UNCHANGED job \/ job' = [k \in Jobs |-> IF Stale(k) THEN Requeued(job[k]) ELSE job[k]]
    BY <1>2 DEF Poll, Start, BeginPass, EndPass, ChooseJob, PollError, RequeueError, ClaimError
  <2>4. LiveStays
    <3>1. \A k \in Jobs : Stale(k) => Live(k)
      BY DEF Stale, Live
    <3> QED
      BY <2>3, <3>1 DEF LiveStays, Live
  <2> QED
    BY <1>2, <2>2, <2>4 DEF Poll, PollError, pub
<1>3. ASSUME NEW w \in Workers, Execute(w)
      PROVE  IInv' /\ LiveStays /\ (post'[0] = "draft" => post[0] = "draft") /\ UNCHANGED payload
  <2>1. PICK j \in Jobs : Claim(w, j)
    BY <1>3 DEF Execute, LockChosen, IInv, NoHalfClaim
  <2>2. IInv'
    BY <2>1, NextIInv DEF Next, Work, TakeJob, LocksAreSafe
  <2>3. LiveStays
    BY <2>1 DEF Claim, NextDue, Due, Live, LiveStays, IInv, TypeOK
  <2> QED
    BY <1>3, <2>2, <2>3 DEF Execute, pub, Pub!Begin, Pub!dbVars
<1>4. ASSUME NEW w \in Workers, Publish(w) \/ PublishFault(w)
      PROVE  IInv' /\ LiveStays /\ (post'[0] = "draft" => post[0] = "draft") /\ UNCHANGED payload
  <2>1. Th!Step(w) \/ Th!LoseReply(w) \/ Th!AcceptWithoutID(w)
    BY <1>4, OnlyPlatformFaults
  <2>2. UNCHANGED <<job, worker, payload>>
    BY <1>4 DEF Publish, PublishFault, queue
  <2>3. faults' \in Nat
    BY SameAssumption, <2>1, Th!StepTypes DEF ApiInv, ApiTyped, Th!StepFault, Th!TypeInv, Th!PublisherTypeOK
  <2>4. post'[0] = "draft" => post[0] = "draft"
    BY SameAssumption, SamePosts, <2>1, Th!StepPosts DEF ApiInv, ApiTyped
  <2>5. IInv' /\ LiveStays
    BY <2>2, <2>3 DEF IInv, TypeOK, NoHalfClaim, ExecutionHoldsLock, SingleExecution, RetryBudget, Executing, LiveStays, Live
  <2> QED
    BY <2>2, <2>4, <2>5
<1>5. ASSUME NEW w \in Workers, Finish(w) \/ ResultLost(w) \/ Die(w)
      PROVE  IInv' /\ LiveStays /\ (post'[0] = "draft" => post[0] = "draft") /\ UNCHANGED payload
  <2>1. Work(w) \/ Trouble(w)
    BY <1>5 DEF Finish, ResultLost, Die, Work, Trouble
  <2>2. IInv'
    BY <2>1, NextIInv DEF Next
  <2>3. LiveStays
    <3>1. CASE Finish(w)
      <4>1. worker[w].job \in Jobs
        BY <3>1 DEF Finish, Succeed, Fail, ApiInv, JobsInHand, UsedRows
      <4> QED
        BY <3>1, <4>1, LiveFinish DEF Finish
    <3>2. CASE ResultLost(w) \/ Die(w)
      BY <3>2 DEF ResultLost, FinishError, Die, Crash, LiveStays, Live
    <3> QED
      BY <1>5, <3>1, <3>2
  <2> QED
    BY <1>5, <2>2, <2>3 DEF Finish, ResultLost, Die, LocalsLost, Pub!End, Pub!dbVars
<1> QED
  BY <1>1, <1>2, <1>3, <1>4, <1>5 DEF PipeNext, PipeWork, PipeTrouble

\* Rows are deleted and inserted under a running execution.
LEMMA WrittenRows ==
  ASSUME IInv, UNCHANGED <<worker, faults>>, job' \in [Jobs -> JobRow],
         \A j \in Jobs : \/ job'[j] = job[j]
                         \/ job'[j].status = "deleted"
                         \/ job[j].status = "new" /\ job'[j].attempts = 0 /\ job'[j].status = "pending"
  PROVE  IInv'
<1>1. TypeOK' /\ NoHalfClaim' /\ SingleExecution'
  BY DEF IInv, TypeOK, NoHalfClaim, SingleExecution, Executing
<1>2. ExecutionHoldsLock'
  BY DEF IInv, ExecutionHoldsLock, Executing
<1>3. RetryBudget'
  BY QueueAssumption DEF IInv, RetryBudget
<1> QED
  BY <1>1, <1>2, <1>3 DEF IInv

\* The rows that a handler writes, when it deletes the jobs of a post.
LEMMA CancelledRows ==
  ASSUME ApiInv, IInv, UNCHANGED <<worker, faults>>, NEW p, CancelJobs(p)
  PROVE  IInv' /\ JobsDropped(p)
<1>1. job' = DeleteJobs(JobsOf(p)) /\ UNCHANGED payload /\ TypeOK
  BY DEF CancelJobs, IInv
<1>2. \A j \in Jobs : job[j] \in JobRow /\ [job[j] EXCEPT !.status = "deleted"].status = "deleted"
  BY <1>1 DEF TypeOK, JobRow
<1>3. \A j \in Jobs : job'[j] = job[j] \/ job'[j].status = "deleted"
  BY <1>1, <1>2 DEF DeleteJobs
<1>4. IInv'
  BY <1>1, <1>3, DeletedRow, WrittenRows
<1>5. \A j \in Jobs : j \in JobsOf(p) => job'[j].status = "deleted"
  BY <1>1, <1>2 DEF DeleteJobs, JobsOf
<1>6. \A j \in Jobs : payload[j] = p => ~Live(j)'
  BY <1>1, <1>3, <1>5 DEF JobsOf, Exists, Live
<1> QED
  BY <1>1, <1>3, <1>4, <1>6 DEF JobsDropped, Live

LEMMA QueuedRows ==
  ASSUME IsFiniteSet(Jobs), ApiInv, OpenRequests # {}, IInv, UNCHANGED <<worker, faults>>, NEW p \in Th!Posts, NEW old \in {JobsOf(p), {}},
         QueueJob(p, old)
  PROVE  /\ IInv'
         /\ old = JobsOf(p) => \E id \in Jobs :
              payload'[id] = p /\ \A j \in Jobs : j # id /\ Live(j)' => Live(j) /\ payload'[j] = payload[j] /\ payload[j] # p
<1>1. PICK id \in Jobs : id = CHOOSE j \in Jobs : job[j].status = "new"
  BY RowIsLeft
<1>0. job[id].status = "new"
  BY <1>1, RowIsLeft
<1>2. PICK d \in Delays : job' = [DeleteJobs(old) EXCEPT ![id] = Inserted(d)] /\ payload' = [payload EXCEPT ![id] = p]
  BY <1>1 DEF QueueJob
<1>3. /\ TypeOK /\ DeleteJobs(old) \in [Jobs -> JobRow] /\ Inserted(d) \in JobRow
      /\ payload \in [Jobs -> Th!Posts]
  BY DeletedRow, InsertedRow DEF ApiInv, ApiTyped
<1>4. \A j \in Jobs : job[j] \in JobRow /\ [job[j] EXCEPT !.status = "deleted"].status = "deleted"
  BY <1>3 DEF TypeOK, JobRow
<1>5. /\ job' \in [Jobs -> JobRow] /\ job'[id] = Inserted(d) /\ payload'[id] = p
      /\ \A j \in Jobs : j # id => job'[j] = DeleteJobs(old)[j] /\ payload'[j] = payload[j]
  BY <1>2, <1>3
<1>6. Inserted(d).status = "pending" /\ Inserted(d).attempts = 0
  BY DEF Inserted
<1>7. \A j \in Jobs : DeleteJobs(old)[j] = job[j] \/ DeleteJobs(old)[j].status = "deleted"
  BY <1>4 DEF DeleteJobs
<1>8. IInv'
  BY <1>0, <1>5, <1>6, <1>7, WrittenRows
<1>9. \A j \in Jobs : j \in old => DeleteJobs(old)[j].status = "deleted"
  BY <1>4 DEF DeleteJobs
<1>10. ASSUME old = JobsOf(p), NEW j \in Jobs, j # id, Live(j)'
       PROVE  Live(j) /\ payload'[j] = payload[j] /\ payload[j] # p
  <2>1. job'[j] = DeleteJobs(old)[j] /\ payload'[j] = payload[j]
    BY <1>5, <1>10
  <2>2. DeleteJobs(old)[j] = job[j]
    BY <1>7, <1>10, <2>1 DEF Live
  <2>3. j \notin old
    BY <1>9, <1>10, <2>1 DEF Live
  <2> QED
    BY <1>10, <2>1, <2>2, <2>3 DEF Live, JobsOf, Exists
<1> QED
  BY <1>5, <1>8, <1>10

LEMMA HandlerQueue ==
  ASSUME IsFiniteSet(Jobs), ApiInv, IInv, NEW c \in Clients, Handler(c)
  PROVE  IInv'
<1>1. CASE Read(c) \/ GiveUp(c)
  <2>1. UNCHANGED <<job, worker, faults>>
    BY <1>1 DEF Read, GiveUp, pipeVars, vars
  <2> QED
    BY <2>1 DEF IInv, TypeOK, NoHalfClaim, ExecutionHoldsLock, SingleExecution, RetryBudget, Executing
<1>2. ASSUME ~(Read(c) \/ GiveUp(c))
      PROVE  IInv'
  <2>1. PICK op \in WebOps \cup McpOps : Commit(c, op)
    BY <1>2 DEF Handler, Unschedule, Reschedule, Delay, Edit, DeletePost, UpdateDraft, ScheduleDraft, CancelPost, WebOps, McpOps
  <2>2. UNCHANGED <<worker, faults>> /\ OpenRequests # {} /\ req[c].post \in Th!Posts
    BY <2>1, Answered
  <2>3. \/ CancelJobs(req[c].post) \/ UNCHANGED job
        \/ \E old \in {JobsOf(req[c].post), {}} : QueueJob(req[c].post, old)
    BY <1>2 DEF Handler, Unschedule, Reschedule, Delay, Edit, DeletePost, UpdateDraft, ScheduleDraft, CancelPost
  <2>4. UNCHANGED job => IInv'
    BY <2>2 DEF IInv, TypeOK, NoHalfClaim, ExecutionHoldsLock, SingleExecution, RetryBudget, Executing
  <2> QED
    BY <2>2, <2>3, <2>4, CancelledRows, QueuedRows
<1> QED
  BY <1>1, <1>2

\* What the transaction of a tool leaves in the queue.
LEMMA ToolJobs ==
  ASSUME IsFiniteSet(Jobs), ApiInv, IInv, ToolRequests, OneJobEach, NoDraftJob, NEW c \in Clients, Handler(c)
  PROVE  OneJobEach' /\ NoDraftJob'
<1> DEFINE p == req[c].post
<1>0. ApiTyped /\ {"draft", "scheduled", "gone"} \subseteq Th!PostStatus
  BY DEF ApiInv, Th!PostStatus
<1>1. ASSUME UNCHANGED <<job, payload>>, post'[0] = "draft" => post[0] = "draft" PROVE OneJobEach' /\ NoDraftJob'
  BY <1>1 DEF OneJobEach, NoDraftJob, Live
<1>2. ASSUME JobsDropped(p), p # 0 => (post'[0] = "draft" => post[0] = "draft") PROVE OneJobEach' /\ NoDraftJob'
  BY <1>2 DEF OneJobEach, NoDraftJob, JobsDropped
<1>3. CASE Read(c) \/ GiveUp(c)
  BY <1>1, <1>3 DEF Read, GiveUp, pipeVars, vars, pub
<1>4. CASE UpdateDraft(c)
  BY <1>1, <1>4 DEF UpdateDraft
<1>5. CASE Edit(c)
  <2>1. Commit(c, "edit") /\ SetPosts(Descendants(p), req[c].status, req[c].planned) /\ UNCHANGED <<job, payload>>
    BY <1>5 DEF Edit
  <2>2. p \in Th!Posts
    BY <1>0, <2>1, Answered DEF WebOps
  <2>3. post'[0] = post[0]
    BY <2>1, <2>2, RootIsNoReply, SamePosts DEF SetPosts
  <2> QED
    BY <1>1, <2>1, <2>3
<1>6. ASSUME NEW op \in {"unschedule", "cancel", "delete"}, Commit(c, op), CancelJobs(p), NEW ps, NEW status,
             SetPosts(ps, status, FALSE), ps \subseteq {p} \cup Descendants(p)
      PROVE  OneJobEach' /\ NoDraftJob'
  <2>1. p \in Th!Posts /\ UNCHANGED <<worker, faults>>
    BY <1>6, Answered DEF WebOps, McpOps
  <2>2. JobsDropped(p)
    BY <1>6, <2>1, CancelledRows
  <2>3. p # 0 => post'[0] = post[0]
    <3>1. p # 0 => 0 \notin ps
      BY <1>6, <2>1, RootIsNoReply
    <3> QED
      BY <1>6, <3>1, SamePosts DEF SetPosts
  <2> QED
    BY <1>2, <2>2, <2>3
<1>7. CASE Unschedule(c)
  BY <1>6, <1>7 DEF Unschedule
<1>8. CASE CancelPost(c)
  BY <1>6, <1>8 DEF CancelPost
<1>9. CASE DeletePost(c)
  <2> DEFINE ps == IF Has(p) THEN {p} \cup Descendants(p) ELSE {}
  <2>1. Commit(c, "delete") /\ SetPosts(ps, "gone", FALSE) /\ CancelJobs(p)
    BY <1>9 DEF DeletePost
  <2>2. ps \subseteq {p} \cup Descendants(p)
    OBVIOUS
  <2> HIDE DEF ps
  <2> QED
    BY <1>6, <2>1, <2>2
<1>10. CASE ScheduleDraft(c)
  <2>1. Commit(c, "schedule_draft") /\ SetPosts({p}, "scheduled", TRUE) /\ QueueJob(p, JobsOf(p))
    BY <1>10 DEF ScheduleDraft
  <2>2. p \in Th!Posts /\ UNCHANGED <<worker, faults>> /\ OpenRequests # {}
    BY <2>1, Answered DEF McpOps
  <2>3. PICK id \in Jobs :
          payload'[id] = p /\ \A j \in Jobs : j # id /\ Live(j)' => Live(j) /\ payload'[j] = payload[j] /\ payload[j] # p
    BY <2>1, <2>2, QueuedRows
  <2>4. OneJobEach'
    BY <2>3 DEF OneJobEach
  <2>5. post'[0] = "draft" => p # 0 /\ post[0] = "draft"
    BY <2>1, <2>2, SamePosts DEF SetPosts, Has
  <2> QED
    BY <2>3, <2>4, <2>5 DEF NoDraftJob
<1>11. ~(Reschedule(c) \/ Delay(c))
  BY DEF Reschedule, Delay, Commit, ToolRequests, OpsOf, McpOps
<1> QED
  BY <1>3, <1>4, <1>5, <1>7, <1>8, <1>9, <1>10, <1>11 DEF Handler

LEMMA NextTools ==
  ASSUME IsFiniteSet(Jobs), LocksAreSafe, DbErrors = FALSE, ApiInv, IInv, ToolsInv, [ApiRunNext]_apiRunVars
  PROVE  IInv' /\ ToolsInv'
<1>1. CASE UNCHANGED apiRunVars
  <2>1. UNCHANGED <<area, job, worker, faults, payload, post, req>>
    BY <1>1 DEF apiRunVars, allVars, pipeVars, vars, pub, apiVars
  <2> QED
    BY <2>1 DEF IInv, TypeOK, NoHalfClaim, ExecutionHoldsLock, SingleExecution, RetryBudget, Executing, ToolsInv,
       ToolRequests, OneJobEach, NoDraftJob, Live
<1>2. CASE ApiRunNext
  <2>1. UNCHANGED area /\ (area = "tools" => ToolRequests')
    BY <1>2 DEF ApiRunNext, ToolRequests
  <2>2. CASE PipeNext
    <3>1. IInv' /\ LiveStays /\ (post'[0] = "draft" => post[0] = "draft") /\ UNCHANGED payload
      BY <2>2, PipeQueue
    <3> QED
      BY <2>1, <3>1 DEF ToolsInv, OneJobEach, NoDraftJob, LiveStays
  <2>3. ASSUME NEW c \in Clients, Handler(c) PROVE IInv' /\ ToolsInv'
    BY <2>1, <2>3, HandlerQueue, ToolJobs DEF ToolsInv
  <2> QED
    BY <1>2, <2>2, <2>3 DEF ApiRunNext, ApiNext
<1> QED
  BY <1>1, <1>2

LEMMA InitTools ==
  ASSUME ApiRunInit
  PROVE  IInv /\ ToolsInv
<1>1. PICK s \in {"draft", "scheduled"} : Created(s)
  BY DEF ApiRunInit, ApiInit
<1>2. req = [c \in Clients |-> NoRequest] /\ NoRequest.op = "none"
  BY DEF ApiRunInit, ApiInit, NoRequest
<1>3. PICK d \in Delays : job = [j \in Jobs |-> IF j = FirstJob /\ s = "scheduled" THEN Inserted(d) ELSE NoRow]
  BY <1>1 DEF Created
<1>4. /\ worker = [w \in Workers |-> [pc |-> "down", job |-> NoJob, attempts |-> 0]]
      /\ faults = 0 /\ post = [p \in Th!Posts |-> s]
  BY <1>1, SamePosts DEF Created, Pub!CreatedAs
<1>5. NoRow.status = "new" /\ Inserted(d).status = "pending" /\ Inserted(d).attempts = 0
  BY DEF NoRow, Inserted
<1>6. IInv
  <2>1. TypeOK
    BY InitApiInv DEF ApiRunInit, ApiInv, ApiTyped
  <2>2. RetryBudget
    <3>1. \A j \in Jobs : job[j].status = "new" \/ (job[j].status = "pending" /\ job[j].attempts = 0)
      BY <1>3, <1>5
    <3>2. 0 < MaxAttempts
      BY QueueAssumption
    <3>3. SUFFICES ASSUME NEW j \in Jobs
                   PROVE  /\ job[j].status \in {"pending", "processing"} => job[j].attempts < MaxAttempts
                          /\ job[j].status = "failed" => job[j].attempts = MaxAttempts
      BY DEF RetryBudget
    <3> QED
      BY <3>1, <3>2
  <2> QED
    BY <1>4, <2>1, <2>2 DEF IInv, NoHalfClaim, ExecutionHoldsLock, SingleExecution, Executing
<1>7. \A j \in Jobs : Live(j) => s = "scheduled" /\ j = FirstJob
  BY <1>3, <1>5 DEF Live
<1>8. ToolsInv
  BY <1>2, <1>4, <1>7, SamePosts DEF ToolsInv, ToolRequests, OneJobEach, NoDraftJob
<1> QED
  BY <1>6, <1>8

\* ToolsLeaveOneJob: the tools of an assistant beside a web client that edits,
\* unschedules and deletes: at most one job per post, and none for a draft,
\* however the calls and the workers overlap.
THEOREM ToolsLeaveOneJobHolds ==
  ASSUME IsFiniteSet(Jobs), LocksAreSafe, DbErrors = FALSE
  PROVE  ApiRunSafety => []ToolsLeaveOneJob
<1> DEFINE Inv == ApiInv /\ IInv /\ ToolsInv
<1>1. ApiRunInit => Inv
  BY InitApiInv, InitTools DEF ApiRunInit
<1>2. Inv /\ [ApiRunNext]_apiRunVars => Inv'
  <2>1. [ApiRunNext]_apiRunVars => [ApiNext]_allVars
    BY DEF ApiRunNext, apiRunVars
  <2> QED
    BY <2>1, NextApi, NextTools
<1>3. ASSUME Inv PROVE ToolsLeaveOneJob
  <2> SUFFICES ASSUME area = "tools" PROVE OneLiveJob /\ DraftsAreNotQueued
    BY DEF ToolsLeaveOneJob
  <2>1. OneJobEach /\ NoDraftJob
    BY <1>3 DEF ToolsInv
  <2>2. ASSUME NEW p \in Pub!Posts PROVE Cardinality({j \in JobsOf(p) : Live(j)}) <= 1
    <3> DEFINE js == {j \in JobsOf(p) : Live(j)}
    <3>1. js = {} \/ \E j : js = {j}
      BY <2>1 DEF OneJobEach, JobsOf
    <3>2. Cardinality({}) = 0 /\ \A j : Cardinality({j}) = 1
      BY FS_EmptySet, FS_Singleton
    <3> QED
      BY <3>1, <3>2
  <2>3. DraftsAreNotQueued
    BY <2>1 DEF NoDraftJob, DraftsAreNotQueued, JobsOf
  <2> QED
    BY <2>2, <2>3 DEF OneLiveJob
<1> HIDE DEF Inv
<1> QED
  BY <1>1, <1>2, <1>3, PTL DEF ApiRunSafety
=============================================================================
