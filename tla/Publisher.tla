----------------------------- MODULE Publisher ------------------------------
(***************************************************************************)
(* The publisher of OpenPost (backend/internal/services/publisher): what   *)
(* HandlePublishJob does, one database statement or platform call at a     *)
(* time, to a thread of posts and their destinations.                      *)
(*                                                                         *)
(* Post 0 is the root; post p > 0 is the reply to p - 1 (parent_post_id,   *)
(* thread_sequence = p).  A destination is a post on an account.  A run is *)
(* one execution of the handler by one worker; its local variables are a   *)
(* record.  `live` is what readers of the platforms see: nothing in the    *)
(* program can read or change it except by publishing.                     *)
(***************************************************************************)
EXTENDS Integers, FiniteSets

CONSTANTS
  ThreadLen,       \* number of posts of the thread; 1: a single post
  Accounts,        \* the social accounts
  NoAccount,
  SkipsReplies,    \* LinkedIn accounts under disableLinkedInThreadReplies
  Workers,
  PublishedLimit,  \* plan limit of published posts per month
  WriteLimit,      \* plan limit of provider write calls per month
  DbErrors,        \* TRUE: single statements may fail while the process lives
  MaxFaults,       \* bound on crashes, failed statements and bad answers
  MaxCounted       \* bound on redelivery: no run begins past this count

Posts == 0 .. ThreadLen - 1

ASSUME PublisherAssumption ==
  /\ ThreadLen \in Nat \ {0}
  /\ NoAccount \notin Accounts
  /\ SkipsReplies \subseteq Accounts
  /\ PublishedLimit \in Nat
  /\ WriteLimit \in Nat
  /\ DbErrors \in BOOLEAN
  /\ MaxFaults \in Nat
  /\ MaxCounted \in Nat

VARIABLES
  post,       \* posts.status
  dest,       \* rows of post_destinations
  gen,        \* which set of rows a post has: an edit replaces them all
  published,  \* usage counter published_posts_monthly
  writes,     \* usage counter provider_write_calls_monthly
  counted,    \* how often each post was counted as published
  live,       \* publications of a post on an account, at the platform
  detached,   \* publications of a reply that were not sent as a reply
  run,        \* the handler's local state at each worker
  faults

dbVars == <<post, dest, gen, published, writes, counted>>
worldVars == <<live, detached>>
pubVars == <<post, dest, gen, published, writes, counted, live, detached, run, faults>>

-----------------------------------------------------------------------------
PostStatus == {"draft", "scheduled", "publishing", "published", "failed", "gone"}

\* `ext`: external_id is known.  `blocked`: error_message says that the
\* previous post of the thread failed for this account.
DestRow == [status : {"none", "pending", "failed", "success"}, ext : BOOLEAN, blocked : BOOLEAN]

RunPC == {"idle", "load", "mark", "dests", "block", "quota", "reject", "next", "record",
          "call", "save", "saved", "failed", "finalize", "conclude", "count", "return"}

Run == [pc      : RunPC,
        at      : Posts,                  \* the post in hand
        last    : Posts,                  \* the end of the thread; 0: publishSinglePost
        todo    : SUBSET Accounts,        \* dests, less the ones dealt with
        gen     : Nat,                    \* the rows that dests were loaded from
        ok      : SUBSET Accounts,        \* successfulAccounts
        okNow   : SUBSET Accounts,        \* successfulInThisPost
        acct    : Accounts \cup {NoAccount},
        reply   : BOOLEAN,                \* replyToID is not empty
        again   : BOOLEAN,                \* second call, after a forced refresh
        verdict : {"empty", "failed", "published"},
        err     : BOOLEAN]                \* the error to return

Idle == [pc |-> "idle", at |-> 0, last |-> 0, todo |-> {}, gen |-> 0, ok |-> {},
         okNow |-> {}, acct |-> NoAccount, reply |-> FALSE, again |-> FALSE,
         verdict |-> "empty", err |-> FALSE]

PublisherTypeOK ==
  /\ post \in [Posts -> PostStatus]
  /\ dest \in [Posts -> [Accounts -> DestRow]]
  /\ gen \in [Posts -> Nat]
  /\ published \in Nat /\ writes \in Nat
  /\ counted \in [Posts -> Nat]
  /\ live \in [Posts -> [Accounts -> Nat]]
  /\ detached \subseteq Posts \X Accounts
  /\ run \in [Workers -> Run]
  /\ faults \in Nat

NoDest == [status |-> "none", ext |-> FALSE, blocked |-> FALSE]
NewDest == [status |-> "pending", ext |-> FALSE, blocked |-> FALSE]

\* The thread was just created, with a destination for every post and account.
CreatedAs(status) ==
  /\ post = [p \in Posts |-> status]
  /\ dest = [p \in Posts |-> [a \in Accounts |-> NewDest]]
  /\ gen = [p \in Posts |-> 0]
  /\ published = 0 /\ writes = 0
  /\ counted = [p \in Posts |-> 0]
  /\ live = [p \in Posts |-> [a \in Accounts |-> 0]]
  /\ detached = {}
  /\ run = [w \in Workers |-> Idle]
  /\ faults = 0

PublisherInit == CreatedAs("scheduled")

-----------------------------------------------------------------------------
(* The local state of a run.                                               *)

At(w, pc) == run[w].pc = pc
Become(w, r) == run' = [run EXCEPT ![w] = r]
Goto(w, pc) == run' = [run EXCEPT ![w].pc = pc]
Return(w, err) == run' = [run EXCEPT ![w].pc = "return", ![w].err = err]

InThread(r) == r.last > 0

\* The next post of the thread, or the end of the handler.
NextPost(r) ==
  IF r.at < r.last
    THEN [r EXCEPT !.pc = "dests", !.at = @ + 1, !.todo = {}, !.okNow = {},
                   !.acct = NoAccount, !.reply = FALSE, !.again = FALSE]
    ELSE [r EXCEPT !.pc = "return"]

\* A status is written by id: nothing happens when the row is gone.
SetPost(p, status) == post' = [post EXCEPT ![p] = IF @ = "gone" THEN @ ELSE status]
SetDest(w, p, a, row) == dest' = [dest EXCEPT ![p][a] = IF gen[p] = run[w].gen THEN row ELSE @]

Failed(row, blocked) == [row EXCEPT !.status = "failed", !.blocked = blocked]

\* Faulty variant of Open: every destination is published again by a retry.
OpenAlways(p) == {a \in Accounts : dest[p][a].status # "none"}

Open(p) == {a \in Accounts : dest[p][a].status \in {"pending", "failed"}}

Fault == faults < MaxFaults /\ faults' = faults + 1
DbFault == DbErrors /\ Fault

-----------------------------------------------------------------------------
(* HandlePublishJob.                                                       *)

Begin(w, p) ==
  /\ At(w, "idle")
  /\ Become(w, [Idle EXCEPT !.pc = "load", !.at = p])
  /\ UNCHANGED <<dbVars, worldVars, faults>>

\* The post is read; when there is none the handler returns the error.
Load(w) ==
  /\ At(w, "load")
  /\ IF post[run[w].at] = "gone" THEN Return(w, TRUE) ELSE Goto(w, "mark")
  /\ UNCHANGED <<dbVars, worldVars, faults>>

\* A root is published with the replies that hang on it; anything else, and a
\* root without replies, by itself.
EndsThread(p, n) ==
  IF p = 0 /\ post[0] # "gone"
    THEN (\A q \in 0 .. n : post[q] # "gone") /\ (n + 1 \in Posts => post[n + 1] = "gone")
    ELSE n = 0

\* The status becomes "publishing", whatever it was, and the thread is read.
MarkPublishing(w) ==
  LET p == run[w].at IN
  /\ At(w, "mark")
  /\ SetPost(p, "publishing")
  /\ \E n \in Posts : EndsThread(p, n) /\ Become(w, [run[w] EXCEPT !.pc = "dests", !.last = n])
  /\ UNCHANGED <<dest, gen, published, writes, counted, worldVars, faults>>

\* The SELECT fails: the handler returns the error.
LoadError(w) ==
  /\ DbFault
  /\ At(w, "load")
  /\ Return(w, TRUE)
  /\ UNCHANGED <<dbVars, worldVars>>

\* The UPDATE fails: logged only.
MarkPublishingError(w) ==
  /\ DbFault
  /\ At(w, "mark")
  /\ \E n \in Posts : EndsThread(run[w].at, n) /\ Become(w, [run[w] EXCEPT !.pc = "dests", !.last = n])
  /\ UNCHANGED <<dbVars, worldVars>>

\* The query for the whole thread fails, and so does one of the queries for
\* the next reply: taken for the end of the thread.
LoadThreadError(w) ==
  /\ DbErrors
  /\ faults + 2 <= MaxFaults
  /\ faults' = faults + 2
  /\ At(w, "mark")
  /\ SetPost(run[w].at, "publishing")
  /\ \E n, end \in Posts :
       /\ EndsThread(run[w].at, end) /\ n < end
       /\ Become(w, [run[w] EXCEPT !.pc = "dests", !.last = n])
  /\ UNCHANGED <<dest, gen, published, writes, counted, worldVars>>

-----------------------------------------------------------------------------
(* publishSinglePost and publishThread.                                    *)

\* Faulty variant of Blocked: the previous post is not asked.
BlockedNever(r) == {}

\* A destination of a reply is blocked when the previous post was not
\* published to its account by this run.
Blocked(r) == IF InThread(r) /\ r.at > 0 THEN r.todo \ r.ok ELSE {}

AfterDests(r) ==
  CASE r.todo = {} /\ ~InThread(r) -> [r EXCEPT !.pc = "finalize"]
    [] Blocked(r) # {} -> [r EXCEPT !.pc = "block"]
    [] OTHER -> [r EXCEPT !.pc = "quota"]

LoadDests(w) ==
  LET r == run[w] IN
  /\ At(w, "dests")
  /\ Become(w, AfterDests([r EXCEPT !.todo = Open(r.at), !.gen = gen[r.at]]))
  /\ UNCHANGED <<dbVars, worldVars, faults>>

\* A failed SELECT ends a single post with the error; a thread finalizes the
\* post it could not read and goes on, with successfulAccounts as it was.
LoadDestsError(w) ==
  /\ DbFault
  /\ At(w, "dests")
  /\ IF InThread(run[w])
       THEN Become(w, [run[w] EXCEPT !.pc = "finalize", !.okNow = run[w].ok])
       ELSE Return(w, TRUE)
  /\ UNCHANGED <<dbVars, worldVars>>

AfterBlock(r, a) ==
  [r EXCEPT !.todo = @ \ {a}, !.pc = IF Blocked(r) = {a} THEN "quota" ELSE @]

\* Faulty variant of Block: the row stays as it was.
BlockUnmarked(w, a) ==
  /\ At(w, "block")
  /\ a \in Blocked(run[w])
  /\ Become(w, AfterBlock(run[w], a))
  /\ UNCHANGED <<dbVars, worldVars, faults>>

\* filterThreadDestinationsAfterPreviousPost, one row at a time.
Block(w, a) ==
  LET r == run[w] IN
  /\ At(w, "block")
  /\ a \in Blocked(r)
  /\ SetDest(w, r.at, a, Failed(dest[r.at][a], TRUE))
  /\ Become(w, AfterBlock(r, a))
  /\ UNCHANGED <<post, gen, published, writes, counted, worldVars, faults>>

\* Faulty variant of CheckPublishedQuota: one post more than the plan allows.
CheckPublishedQuotaOffByOne(w) ==
  LET r == run[w] IN
  /\ At(w, "quota")
  /\ Become(w, IF r.todo = {} \/ published <= PublishedLimit
                 THEN [r EXCEPT !.pc = "next"]
                 ELSE [r EXCEPT !.pc = "reject", !.err = TRUE])
  /\ UNCHANGED <<dbVars, worldVars, faults>>

\* With nothing to publish the quota is not asked.
CheckPublishedQuota(w) ==
  LET r == run[w] IN
  /\ At(w, "quota")
  /\ Become(w, CASE r.todo = {} -> [r EXCEPT !.pc = "next"]
                 [] published < PublishedLimit -> [r EXCEPT !.pc = "next"]
                 [] OTHER -> [r EXCEPT !.pc = "reject", !.err = TRUE])
  /\ UNCHANGED <<dbVars, worldVars, faults>>

\* Usage or plan cannot be read: the same as a limit that is reached.
CheckPublishedQuotaError(w) ==
  /\ DbFault
  /\ At(w, "quota")
  /\ run[w].todo # {}
  /\ Become(w, [run[w] EXCEPT !.pc = "reject", !.err = TRUE])
  /\ UNCHANGED <<dbVars, worldVars>>

AfterReject(r, a) ==
  [r EXCEPT !.todo = @ \ {a}, !.pc = IF r.todo = {a} THEN "finalize" ELSE @]

\* markDestinationsFailed, one row at a time.
Reject(w, a) ==
  LET r == run[w] IN
  /\ At(w, "reject")
  /\ a \in r.todo
  /\ SetDest(w, r.at, a, Failed(dest[r.at][a], FALSE))
  /\ Become(w, AfterReject(r, a))
  /\ UNCHANGED <<post, gen, published, writes, counted, worldVars, faults>>

\* The update of one row fails: logged, and the row is passed over.
PassOverError(w, a) ==
  /\ DbFault
  /\ \/ At(w, "block") /\ a \in Blocked(run[w]) /\ Become(w, AfterBlock(run[w], a))
     \/ At(w, "reject") /\ a \in run[w].todo /\ Become(w, AfterReject(run[w], a))
  /\ UNCHANGED <<dbVars, worldVars>>

\* All destinations are done.
EndDests(w) ==
  /\ At(w, "next")
  /\ run[w].todo = {}
  /\ Goto(w, "finalize")
  /\ UNCHANGED <<dbVars, worldVars, faults>>

-----------------------------------------------------------------------------
(* publishToDestination.                                                   *)

Take(w, a, pc) == [run[w] EXCEPT !.pc = pc, !.acct = a, !.todo = @ \ {a}, !.again = FALSE]

SkipReply(r, a) == r.at > 0 /\ a \in SkipsReplies

WritesLeft == writes < WriteLimit

\* Account, adapter, token, variant and media are in place, the id of the
\* parent's publication is read (its absence is not an error), and the write
\* quota allows a call.
Prepare(w, a) ==
  LET r == run[w] IN
  /\ At(w, "next")
  /\ a \in r.todo
  /\ ~SkipReply(r, a)
  /\ WritesLeft
  /\ Become(w, [Take(w, a, "record") EXCEPT !.reply = r.at > 0 /\ dest[r.at - 1][a].ext])
  /\ UNCHANGED <<dbVars, worldVars, faults>>

\* One of them is not, or the quota is used up.
PrepareError(w, a) ==
  /\ At(w, "next")
  /\ a \in run[w].todo
  /\ Become(w, Take(w, a, "failed"))
  /\ UNCHANGED <<dbVars, worldVars, faults>>

\* LinkedIn replies are skipped: success inside a thread, an error for a reply
\* that is published by itself.
Skip(w, a) ==
  /\ At(w, "next")
  /\ a \in run[w].todo
  /\ SkipReply(run[w], a)
  /\ Become(w, Take(w, a, IF InThread(run[w]) THEN "saved" ELSE "failed"))
  /\ UNCHANGED <<dbVars, worldVars, faults>>

\* recordProviderWriteCall, before the call.
RecordWrite(w) ==
  /\ At(w, "record")
  /\ writes' = writes + 1
  /\ Goto(w, "call")
  /\ UNCHANGED <<post, dest, gen, published, counted, worldVars, faults>>

\* The counter is not updated: logged, and the call is made.
RecordWriteError(w) ==
  /\ DbFault
  /\ At(w, "record")
  /\ Goto(w, "call")
  /\ UNCHANGED <<dbVars, worldVars>>

\* The platform publishes.
Appear(w) ==
  LET r == run[w] IN
  /\ live' = [live EXCEPT ![r.at][r.acct] = @ + 1]
  /\ detached' = IF r.at > 0 /\ ~r.reply THEN detached \cup {<<r.at, r.acct>>} ELSE detached

Accept(w) ==
  /\ At(w, "call")
  /\ Appear(w)
  /\ Goto(w, "save")
  /\ UNCHANGED <<dbVars, faults>>

\* The platform refuses, or cannot be reached.
Refuse(w) ==
  /\ At(w, "call")
  /\ Goto(w, "failed")
  /\ UNCHANGED <<dbVars, worldVars, faults>>

\* Faulty variant of Expired: the quota is not asked a second time.
ExpiredUnchecked(w) ==
  /\ At(w, "call")
  /\ ~run[w].again
  /\ Become(w, [run[w] EXCEPT !.pc = "record", !.again = TRUE])
  /\ UNCHANGED <<dbVars, worldVars, faults>>

\* An expired token is refreshed once and the call made again, if the quota
\* still allows it.
Expired(w) ==
  /\ At(w, "call")
  /\ ~run[w].again
  /\ WritesLeft
  /\ Become(w, [run[w] EXCEPT !.pc = "record", !.again = TRUE])
  /\ UNCHANGED <<dbVars, worldVars, faults>>

\* The platform publishes, but its answer is lost: an error to the caller.
LoseReply(w) ==
  /\ Fault
  /\ At(w, "call")
  /\ Appear(w)
  /\ Goto(w, "failed")
  /\ UNCHANGED dbVars

\* The platform publishes and its answer carries no id: a success whose
\* external_id stays empty.
AcceptWithoutID(w) ==
  /\ Fault
  /\ At(w, "call")
  /\ Appear(w)
  /\ Goto(w, "saved")
  /\ UNCHANGED dbVars

\* Faulty variant of SaveExternalID: the id is dropped.
SaveNoExternalID(w) ==
  /\ At(w, "save")
  /\ Goto(w, "saved")
  /\ UNCHANGED <<dbVars, worldVars, faults>>

SaveExternalID(w) ==
  LET r == run[w] IN
  /\ At(w, "save")
  /\ SetDest(w, r.at, r.acct, [dest[r.at][r.acct] EXCEPT !.ext = TRUE])
  /\ Goto(w, "saved")
  /\ UNCHANGED <<post, gen, published, writes, counted, worldVars, faults>>

\* The update of external_id fails: logged only.
SaveExternalIDError(w) ==
  /\ DbFault
  /\ At(w, "save")
  /\ Goto(w, "saved")
  /\ UNCHANGED <<dbVars, worldVars>>

AfterSuccess(r) == [r EXCEPT !.pc = "next", !.okNow = @ \cup {r.acct}]

\* Only a single post returns the error of a destination.
AfterFailure(r) == [r EXCEPT !.pc = "next", !.err = @ \/ ~InThread(r)]

\* The message of an earlier failure is cleared only for a skipped reply.
Succeeded(row, skipped) == [row EXCEPT !.status = "success", !.blocked = @ /\ ~skipped]

MarkSuccess(w) ==
  LET r == run[w] IN
  /\ At(w, "saved")
  /\ SetDest(w, r.at, r.acct, Succeeded(dest[r.at][r.acct], SkipReply(r, r.acct)))
  /\ Become(w, AfterSuccess(r))
  /\ UNCHANGED <<post, gen, published, writes, counted, worldVars, faults>>

MarkFailed(w) ==
  LET r == run[w] IN
  /\ At(w, "failed")
  /\ SetDest(w, r.at, r.acct, Failed(dest[r.at][r.acct], FALSE))
  /\ Become(w, AfterFailure(r))
  /\ UNCHANGED <<post, gen, published, writes, counted, worldVars, faults>>

\* The status update fails: logged, and the loop goes on.
MarkError(w) ==
  /\ DbFault
  /\ \/ At(w, "saved") /\ Become(w, AfterSuccess(run[w]))
     \/ At(w, "failed") /\ Become(w, AfterFailure(run[w]))
  /\ UNCHANGED <<dbVars, worldVars>>

-----------------------------------------------------------------------------
(* finalizePost.                                                           *)

Rows(p) == {a \in Accounts : dest[p][a].status # "none"}

\* Faulty variants of Verdict: one success is enough; a verdict that is not one.
VerdictAny(p) ==
  CASE Rows(p) = {} -> "empty"
    [] \E a \in Rows(p) : dest[p][a].status = "success" -> "published"
    [] OTHER -> "failed"
VerdictPartial(p) ==
  IF \E a, b \in Rows(p) : dest[p][a].status = "success" /\ dest[p][b].status = "failed"
    THEN "partial" ELSE VerdictAny(p)

\* Destinations that are still pending count for neither side.
Verdict(p) ==
  CASE Rows(p) = {} -> "empty"
    [] \E a \in Rows(p) : dest[p][a].status = "failed" -> "failed"
    [] OTHER -> "published"

CountDests(w) ==
  LET r == run[w] IN
  /\ At(w, "finalize")
  /\ Become(w, [r EXCEPT !.pc = "conclude", !.verdict = Verdict(r.at), !.ok = r.okNow])
  /\ UNCHANGED <<dbVars, worldVars, faults>>

Conclude(w) ==
  LET r == run[w] IN
  /\ At(w, "conclude")
  /\ SetPost(r.at, IF r.verdict = "failed" THEN "failed" ELSE "published")
  /\ Become(w, IF r.verdict = "published" THEN [r EXCEPT !.pc = "count"] ELSE NextPost(r))
  /\ UNCHANGED <<dest, gen, published, writes, counted, worldVars, faults>>

\* recordPublishedPost
CountPublished(w) ==
  LET r == run[w] IN
  /\ At(w, "count")
  /\ published' = published + 1
  /\ counted' = [counted EXCEPT ![r.at] = @ + 1]
  /\ Become(w, NextPost(r))
  /\ UNCHANGED <<post, dest, gen, writes, worldVars, faults>>

\* A count that fails is taken for zero.
CountDestsError(w) ==
  LET r == run[w] IN
  /\ DbFault
  /\ At(w, "finalize")
  /\ \E v \in {"empty", "published"} :
       /\ v = "published" => Rows(r.at) # {}
       /\ Become(w, [r EXCEPT !.pc = "conclude", !.verdict = v, !.ok = r.okNow])
  /\ UNCHANGED <<dbVars, worldVars>>

\* The status or the counter is not written: logged only.
ConcludeError(w) ==
  /\ DbFault
  /\ At(w, "conclude") \/ At(w, "count")
  /\ Become(w, NextPost(run[w]))
  /\ UNCHANGED <<dbVars, worldVars>>

-----------------------------------------------------------------------------
\* The steps of a run between its call and its return.
Step(w) ==
  \/ Load(w) \/ MarkPublishing(w) \/ LoadDests(w)
  \/ CheckPublishedQuota(w) \/ EndDests(w)
  \/ \E a \in Accounts : Block(w, a) \/ Reject(w, a) \/ Prepare(w, a) \/ PrepareError(w, a) \/ Skip(w, a)
  \/ RecordWrite(w) \/ Accept(w) \/ Refuse(w) \/ Expired(w)
  \/ SaveExternalID(w) \/ MarkSuccess(w) \/ MarkFailed(w)
  \/ CountDests(w) \/ Conclude(w) \/ CountPublished(w)

StepFault(w) ==
  \/ LoadError(w) \/ MarkPublishingError(w) \/ LoadThreadError(w) \/ LoadDestsError(w)
  \/ CheckPublishedQuotaError(w) \/ (\E a \in Accounts : PassOverError(w, a)) \/ RecordWriteError(w)
  \/ LoseReply(w) \/ AcceptWithoutID(w) \/ SaveExternalIDError(w) \/ MarkError(w)
  \/ CountDestsError(w) \/ ConcludeError(w)

-----------------------------------------------------------------------------
(* The publisher by itself: the job of the root is delivered again and     *)
(* again, after a failure, a success or a crash.                           *)

Deliver(w) == Begin(w, 0) /\ published < MaxCounted

End(w) ==
  /\ At(w, "return")
  /\ Become(w, Idle)
  /\ UNCHANGED <<dbVars, worldVars, faults>>

Crash(w) ==
  /\ Fault
  /\ ~At(w, "idle")
  /\ Become(w, Idle)
  /\ UNCHANGED <<dbVars, worldVars>>

PublisherNext ==
  \E w \in Workers : Deliver(w) \/ Step(w) \/ StepFault(w) \/ End(w) \/ Crash(w)

PublisherSpec == PublisherInit /\ [][PublisherNext]_pubVars

-----------------------------------------------------------------------------
(* Properties.                                                             *)

\* What readers of the platforms see: <<p, a, n>> is the n-th publication of
\* post p on account a.
Publications == UNION {{<<p, a, n>> : n \in 1 .. live[p][a]} : p \in Posts, a \in Accounts}

\* However often the job is delivered, an account shows a post once, plus once
\* for every crash, failed statement or lost answer: a destination that
\* succeeded is not published again by a retry.
DuplicatesCostFaults ==
  \A p \in Posts, a \in Accounts : live[p][a] <= 1 + faults

\* A reply appears on an account only where the post it replies to does.
ThreadOrder ==
  \A p \in Posts \ {0}, a \in Accounts : live[p][a] > 0 => live[p - 1][a] > 0

\* A reply is sent as a reply, through retries and partial failures, except
\* for one reply for each id of a publication that never reached the table.
RepliesAreAttached == Cardinality(detached) <= faults

\* A post is "published", and counted against the plan, only when every
\* destination succeeded, and a success is visible at the platform unless the
\* reply was skipped on purpose.
PublishedMeansDelivered ==
  \A p \in Posts, a \in Accounts :
    /\ post[p] = "published" \/ counted[p] > 0 => dest[p][a].status \in {"success", "none"}
    /\ dest[p][a].status = "success" => live[p][a] > 0 \/ (p > 0 /\ a \in SkipsReplies)

\* The plan's limit of provider write calls holds, repeated calls after a
\* refresh included, and no publication escapes the count.
WriteCallsStayInPlan == Cardinality(Publications) <= writes /\ writes <= WriteLimit

\* The plan's limit of published posts holds, except for counts that a crash
\* or a failed statement lost.
PlanLimit ==
  Cardinality({p \in Posts : post[p] = "published"}) <= PublishedLimit + faults
=============================================================================
