------------------------------ MODULE PostApi -------------------------------
(***************************************************************************)
(* The handlers that edit, schedule, cancel and delete posts while the     *)
(* workers publish them: UpdatePost and DeletePost of the web API          *)
(* (handlers/posts.go), and update_draft, schedule_draft and cancel_post   *)
(* of the MCP server (handlers/mcp.go).                                    *)
(*                                                                         *)
(* Each handler reads the post, decides from what it read whether the      *)
(* request is allowed, and then runs one transaction, which writes by id   *)
(* and does not look at the status again.  Between the two, other requests *)
(* and the workers move.  Transactions are indivisible, as on SQLite with  *)
(* its one connection.                                                     *)
(***************************************************************************)
EXTENDS PublishPipeline, FiniteSets

CONSTANTS
  Clients,
  Ops,          \* the operations that the clients call
  AccountEdits, \* the sets of accounts that a request may assign
  MaxRequests   \* bound on requests

VARIABLES
  planned,   \* posts.scheduled_at is set
  req,       \* the request at each client: what its handler has read
  requests   \* requests so far

apiVars == <<planned, req, requests>>
allVars == <<pipeVars, apiVars>>

WebOps == {"unschedule", "reschedule", "delay", "edit", "delete"}
McpOps == {"update_draft", "schedule_draft", "cancel"}

ASSUME ApiAssumption ==
  /\ Ops \subseteq WebOps \cup McpOps
  /\ AccountEdits \subseteq SUBSET Accounts
  /\ MaxRequests \in Nat
  /\ Cardinality(Jobs) > MaxRequests

NoRequest == [op |-> "none", post |-> 0, status |-> "draft", planned |-> FALSE]

Request == [op      : WebOps \cup McpOps \cup {"none"},
            post    : Pub!Posts,
            status  : Pub!PostStatus,   \* as it was read
            planned : BOOLEAN]          \* as it was read

ApiTypeOK ==
  /\ PipeTypeOK
  /\ planned \in [Pub!Posts -> BOOLEAN]
  /\ req \in [Clients -> Request]
  /\ requests \in 0 .. MaxRequests

\* The thread was created as a draft or as a scheduled post.
ApiInit ==
  /\ \E s \in {"draft", "scheduled"} : Created(s) /\ planned = [p \in Pub!Posts |-> s = "scheduled"]
  /\ req = [c \in Clients |-> NoRequest]
  /\ requests = 0

-----------------------------------------------------------------------------
(* What the transactions do.                                               *)

Has(p) == post[p] # "gone"

\* getThreadPostIDsTx without the root.
Descendants(p) == IF Has(p) THEN {q \in Pub!Posts : q > p /\ Has(q)} ELSE {}

SetPosts(ps, status, isPlanned) ==
  /\ post' = [q \in Pub!Posts |-> IF q \in ps /\ Has(q) THEN status ELSE post[q]]
  /\ planned' = [q \in Pub!Posts |-> IF q \in ps /\ Has(q) THEN isPlanned ELSE planned[q]]

\* The rows of post_destinations are replaced by new ones.
ReplaceDests(ps, accounts) ==
  /\ dest' = [q \in Pub!Posts |->
                IF q \in ps
                  THEN [a \in Accounts |-> IF a \in accounts THEN Pub!NewDest ELSE Pub!NoDest]
                  ELSE dest[q]]
  /\ gen' = [q \in Pub!Posts |-> IF q \in ps THEN gen[q] + 1 ELSE gen[q]]

\* social_account_ids is optional.
AssignAccounts(ps) ==
  \/ UNCHANGED <<dest, gen>>
  \/ \E s \in AccountEdits : ReplaceDests(ps, s)

\* The publish_post jobs whose payload names the post, whatever their status.
JobsOf(p) == {j \in Jobs : Exists(j) /\ payload[j] = p}

DeleteJobs(js) == [j \in Jobs |-> IF j \in js THEN [job[j] EXCEPT !.status = "deleted"] ELSE job[j]]

CancelJobs(p) == job' = DeleteJobs(JobsOf(p)) /\ UNCHANGED payload

\* The old jobs are deleted and a new one is inserted.
QueueJob(p, old) ==
  \E d \in Delays :
    LET new == CHOOSE j \in Jobs : job[j].status = "new" IN
    /\ job' = [DeleteJobs(old) EXCEPT ![new] = Inserted(d)]
    /\ payload' = [payload EXCEPT ![new] = p]

-----------------------------------------------------------------------------
(* The handlers.                                                           *)

\* What each handler refuses, by the status it has read.
Refused(op, status) ==
  CASE op \in {"unschedule", "reschedule", "delay", "edit"} -> status = "published"
    [] op \in {"delete", "cancel"} -> status \in {"published", "publishing"}
    [] OTHER -> status # "draft"

\* The post is read; a request that is refused changes nothing.
Read(c) ==
  /\ req[c] = NoRequest
  /\ requests < MaxRequests
  /\ requests' = requests + 1
  /\ \E op \in Ops, p \in Pub!Posts :
       /\ Has(p) /\ ~Refused(op, post[p])
       /\ req' = [req EXCEPT ![c] = [op |-> op, post |-> p, status |-> post[p], planned |-> planned[p]]]
  /\ UNCHANGED <<pipeVars, planned>>

\* A later validation fails, a quota is reached, or the transaction fails.
GiveUp(c) ==
  /\ req[c] # NoRequest
  /\ req' = [req EXCEPT ![c] = NoRequest]
  /\ UNCHANGED <<pipeVars, planned, requests>>

\* The transaction of the handler: no worker moves in it.
Commit(c, op) ==
  /\ req[c].op = op
  /\ req' = [req EXCEPT ![c] = NoRequest]
  /\ UNCHANGED <<worker, faults, published, writes, counted, live, detached, run, requests>>

\* UpdatePost with an empty scheduled_at.
Unschedule(c) ==
  LET p == req[c].post IN
  /\ Commit(c, "unschedule")
  /\ SetPosts({p} \cup Descendants(p), "draft", FALSE)
  /\ CancelJobs(p)
  /\ AssignAccounts({p} \cup Descendants(p))

\* UpdatePost with a new time: the jobs of the post are deleted only when it
\* had a time already.
Reschedule(c) ==
  LET p == req[c].post IN
  /\ Commit(c, "reschedule")
  /\ SetPosts({p} \cup Descendants(p), "scheduled", TRUE)
  /\ QueueJob(p, IF req[c].planned THEN JobsOf(p) ELSE {})
  /\ AssignAccounts({p} \cup Descendants(p))

\* UpdatePost without a time, with a new random delay: a scheduled post gets
\* a new job, and its status is not written.
Delay(c) ==
  LET p == req[c].post IN
  /\ Commit(c, "delay")
  /\ SetPosts(Descendants(p), req[c].status, req[c].planned)
  /\ IF req[c].status = "scheduled" THEN QueueJob(p, JobsOf(p)) ELSE UNCHANGED <<job, payload>>
  /\ AssignAccounts({p} \cup Descendants(p))

\* Faulty variant of Edit: the status that was read is written back.
EditWritesStatus(c) ==
  LET p == req[c].post IN
  /\ Commit(c, "edit")
  /\ SetPosts({p} \cup Descendants(p), req[c].status, req[c].planned)
  /\ UNCHANGED <<job, payload>>
  /\ AssignAccounts({p} \cup Descendants(p))

\* UpdatePost with neither: the replies get the status that was read.
Edit(c) ==
  LET p == req[c].post IN
  /\ Commit(c, "edit")
  /\ SetPosts(Descendants(p), req[c].status, req[c].planned)
  /\ UNCHANGED <<job, payload>>
  /\ AssignAccounts({p} \cup Descendants(p))

\* DeletePost: the jobs of the post and the whole thread below it.
DeletePost(c) ==
  LET p == req[c].post
      ps == IF Has(p) THEN {p} \cup Descendants(p) ELSE {}
  IN
  /\ Commit(c, "delete")
  /\ SetPosts(ps, "gone", FALSE)
  /\ CancelJobs(p)
  /\ ReplaceDests(ps, {})

\* update_draft: this post only.
UpdateDraft(c) ==
  /\ Commit(c, "update_draft")
  /\ AssignAccounts({req[c].post})
  /\ UNCHANGED <<post, planned, job, payload>>

\* Faulty variant of ScheduleDraft: a draft is taken to have no job.
ScheduleDraftKeepsJobs(c) ==
  LET p == req[c].post IN
  /\ Commit(c, "schedule_draft")
  /\ SetPosts({p}, "scheduled", TRUE)
  /\ AssignAccounts({p})
  /\ QueueJob(p, {})

\* schedule_draft: this post only.
ScheduleDraft(c) ==
  LET p == req[c].post IN
  /\ Commit(c, "schedule_draft")
  /\ SetPosts({p}, "scheduled", TRUE)
  /\ AssignAccounts({p})
  /\ QueueJob(p, JobsOf(p))

\* Faulty variant of CancelPost: the job stays in the queue.
CancelPostOnly(c) ==
  LET p == req[c].post IN
  /\ Commit(c, "cancel")
  /\ SetPosts({p}, "draft", FALSE)
  /\ UNCHANGED <<dest, gen, job, payload>>

\* cancel_post: this post only.
CancelPost(c) ==
  LET p == req[c].post IN
  /\ Commit(c, "cancel")
  /\ SetPosts({p}, "draft", FALSE)
  /\ CancelJobs(p)
  /\ UNCHANGED <<dest, gen>>

-----------------------------------------------------------------------------
Handler(c) ==
  \/ Read(c) \/ GiveUp(c)
  \/ Unschedule(c) \/ Reschedule(c) \/ Delay(c) \/ Edit(c) \/ DeletePost(c)
  \/ UpdateDraft(c) \/ ScheduleDraft(c) \/ CancelPost(c)

ApiNext ==
  \/ PipeNext /\ UNCHANGED apiVars
  \/ \E c \in Clients : Handler(c)

ApiSafety == ApiInit /\ [][ApiNext]_allVars

\* Time, the workers and the handlers proceed; clients need not call.
ApiSpec ==
  /\ ApiSafety
  /\ WF_allVars(PipeTick /\ UNCHANGED apiVars)
  /\ \A w \in Workers : WF_allVars(PipeWork(w) /\ UNCHANGED apiVars)

-----------------------------------------------------------------------------
(* Properties.                                                             *)

Live(j) == job[j].status \in {"pending", "processing"}

\* A root that is "scheduled" has a job that will publish it, whatever edits
\* and deliveries overlapped.
ScheduledIsQueued ==
  post[0] = "scheduled" => \E j \in JobsOf(0) : Live(j)

\* A root that is a draft has no job left in the queue.
DraftsAreNotQueued ==
  post[0] = "draft" => \A j \in JobsOf(0) : ~Live(j)

\* mcp.md: schedule_draft "queues the publish_post job without duplicating the
\* post": a post never has two jobs, however calls overlap.
OneLiveJob ==
  \A p \in Pub!Posts : Cardinality({j \in JobsOf(p) : Live(j)}) <= 1

\* A root that was scheduled is at last published or failed, or back in the
\* hands of its author, although it was moved and edited while it was published
\* and the process died.
ScheduledConcludes ==
  post[0] \in {"scheduled", "publishing"} ~> post[0] \notin {"scheduled", "publishing"}

\* mcp.md: "cancel_post: cancels a queued scheduled post and returns it to
\* drafts", and it answers "cannot cancel a post that is published or being
\* published" when it is too late: a post that it made a draft is not published.
DraftsAreNotPublished ==
  [][\A p \in Pub!Posts : post[p] = "draft" => post'[p] \notin {"publishing", "published"}]_allVars
=============================================================================
