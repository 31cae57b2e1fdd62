--------------------------- MODULE ScheduledPosts ----------------------------
(* The monthly quota of scheduled posts: CreatePost and CreateThread of the *)
(* web API, schedule_post and schedule_draft of the MCP server check the    *)
(* counter, write the posts with their job, and only then count them.  A    *)
(* counter belongs to a workspace and a month; the limit is that of the     *)
(* organization, and each of its workspaces has it for itself.              *)
EXTENDS Workspaces

CONSTANTS
  Months,            \* 1 .. n
  ScheduleRequests,  \* requests being served
  MaxThread,         \* posts one request may schedule
  MaxUncounted       \* bound: no failures once so many posts are uncounted

ASSUME ScheduledPostsAssumption ==
  /\ Months \subseteq Nat /\ 1 \in Months
  /\ IsFiniteSet(ScheduleRequests) /\ ScheduleRequests # {}
  /\ MaxThread \in Nat \ {0}

VARIABLES
  counter,    \* rows of usage_counters: scheduled_posts_monthly
  thisMonth,
  scheduling, \* what each request knows
  made,       \* posts that were scheduled, by the period they are due in
  uncounted   \* those of requests that failed, or died, before counting them

quotaVars == <<counter, thisMonth, scheduling, made, uncounted>>

-----------------------------------------------------------------------------
\* The key of a counter: the workspace, and the month the post is due in.
Periods == WorkspaceIds \X Months
NoScheduling == [pc |-> "idle", period |-> <<"none", 1>>, amount |-> 0]

QuotaInit ==
  /\ counter = [k \in Periods |-> 0]
  /\ thisMonth = 1
  /\ scheduling = [q \in ScheduleRequests |-> NoScheduling]
  /\ made = [k \in Periods |-> 0]
  /\ uncounted = [k \in Periods |-> 0]

\* A request for one post, or a thread, or a draft that is scheduled.
RequestSchedule(q) ==
  /\ scheduling[q].pc = "idle"
  /\ \E k \in Periods, n \in 1..MaxThread :
       /\ workspace[k[1]] # NoWorkspace /\ k[2] >= thisMonth
       /\ scheduling' = [scheduling EXCEPT ![q] = [pc |-> "check", period |-> k, amount |-> n]]
  /\ UNCHANGED <<counter, thisMonth, made, uncounted>>

\* The limit is found through the workspace.
OrganizationOf(q) == workspace[scheduling[q].period[1]].org

\* Mutant: a thread is checked as one post.
AllowedAsOnePost(q) ==
  CheckLimit(OrganizationOf(q), "scheduled_posts_monthly", counter[scheduling[q].period], 1)

Allowed(q) ==
  CheckLimit(OrganizationOf(q), "scheduled_posts_monthly",
             counter[scheduling[q].period], scheduling[q].amount)

CheckScheduledPostQuota(q) ==
  /\ scheduling[q].pc = "check"
  /\ scheduling' = [scheduling EXCEPT ![q] =
       IF Allowed(q) THEN [@ EXCEPT !.pc = "write"] ELSE NoScheduling]
  /\ UNCHANGED <<counter, thisMonth, made, uncounted>>

\* One transaction for the posts, their destinations and media, and the job.
WritePosts(q) ==
  /\ scheduling[q].pc = "write"
  /\ made' = [made EXCEPT ![scheduling[q].period] = @ + scheduling[q].amount]
  /\ scheduling' = [scheduling EXCEPT ![q].pc = "record"]
  /\ UNCHANGED <<counter, thisMonth, uncounted>>

WriteFails(q) ==
  /\ scheduling[q].pc = "write"
  /\ scheduling' = [scheduling EXCEPT ![q] = NoScheduling]
  /\ UNCHANGED <<counter, thisMonth, made, uncounted>>

\* Mutant: the posts are counted in the month in which they are made.
CountedInThisMonth(q) == <<scheduling[q].period[1], thisMonth>>

CountedIn(q) == scheduling[q].period

\* IncrementMonthly, one transaction.
RecordScheduledPostUsage(q) ==
  /\ scheduling[q].pc = "record"
  /\ counter' = [counter EXCEPT ![CountedIn(q)] = @ + scheduling[q].amount]
  /\ scheduling' = [scheduling EXCEPT ![q] = NoScheduling]
  /\ UNCHANGED <<thisMonth, made, uncounted>>

UncountedPosts == MapThenSumSet(LAMBDA k : uncounted[k], Periods)

\* The error is answered although the posts are there.
RecordFails(q) ==
  /\ scheduling[q].pc = "record"
  /\ UncountedPosts < MaxUncounted
  /\ uncounted' = [uncounted EXCEPT ![scheduling[q].period] = @ + scheduling[q].amount]
  /\ scheduling' = [scheduling EXCEPT ![q] = NoScheduling]
  /\ UNCHANGED <<counter, thisMonth, made>>

\* The posts of requests in a step, each with its place in the request.
PostsIn(pc, k) ==
  {p \in ScheduleRequests \X (1..MaxThread) :
     /\ scheduling[p[1]].pc = pc /\ scheduling[p[1]].period = k
     /\ p[2] <= scheduling[p[1]].amount}
InFlight(k) == Cardinality(PostsIn("record", k))

ServerDies ==
  /\ UncountedPosts < MaxUncounted
  /\ \E q \in ScheduleRequests : scheduling[q].pc # "idle"
  /\ uncounted' = [k \in Periods |-> uncounted[k] + InFlight(k)]
  /\ scheduling' = [q \in ScheduleRequests |-> NoScheduling]
  /\ UNCHANGED <<counter, thisMonth, made>>

NewMonth ==
  /\ thisMonth + 1 \in Months
  /\ thisMonth' = thisMonth + 1
  /\ UNCHANGED <<counter, scheduling, made, uncounted>>

QuotaNext ==
  \/ \E q \in ScheduleRequests :
       \/ RequestSchedule(q) \/ CheckScheduledPostQuota(q)
       \/ WritePosts(q) \/ WriteFails(q)
       \/ RecordScheduledPostUsage(q) \/ RecordFails(q)
  \/ ServerDies \/ NewMonth

-----------------------------------------------------------------------------
(* Properties *)

\* Every scheduled post is counted once, in its workspace and in the month it
\* is due in, but for those whose request has not counted them yet, failed to,
\* or died.
UsageIsExact ==
  \A k \in Periods : counter[k] + InFlight(k) + uncounted[k] = made[k]

\* What a workspace schedules for a month is at most what one of the plans of
\* its organization allowed, the posts of requests that were checked at the same
\* time, and those that were never counted.  Every workspace has the limit for
\* itself: nothing bounds what an organization schedules in all of them.
ScheduledNearLimit ==
  \A k \in Periods :
    \/ made[k] = 0
    \/ \E limits \in PlansHad(workspace[k[1]].org) :
         "scheduled_posts_monthly" \in DOMAIN limits =>
           made[k] <= limits["scheduled_posts_monthly"] + uncounted[k]
                        + (Cardinality(ScheduleRequests) - 1) * MaxThread

\* The safety of the quota (checkScheduledPostEntitlement, IncrementMonthly).
QuotaSafety == UsageIsExact /\ ScheduledNearLimit
=============================================================================
