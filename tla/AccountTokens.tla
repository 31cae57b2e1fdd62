---------------------------- MODULE AccountTokens ---------------------------
(* The OAuth tokens of connected accounts (services/tokenmanager): read for *)
(* a publication, refreshed by it or by a refresh_token job, on several     *)
(* replicas at once.  The provider rotates refresh tokens: each one is good *)
(* for one refresh.  A refresh is a call to the provider and then several   *)
(* statements; each may fail, and the replica may die between any two.      *)
EXTENDS Naturals, FiniteSets

CONSTANTS
  TokenAccounts, \* accounts
  Replicas,      \* workers, one job each at a time
  MaxRefreshes,  \* bound: refresh tokens a provider hands out
  MaxJobs        \* bound: pending refresh jobs of an account

ASSUME AccountTokensAssumption ==
  TokenAccounts # {} /\ MaxRefreshes \in Nat /\ MaxJobs \in Nat \ {0}

VARIABLES
  account,     \* the rows of social_accounts: [active, refresh, expires]
  latest,      \* external: the refresh token the provider accepts
  refreshJobs, \* pending refresh_token jobs of each account
  unwritten,   \* history: accounts of which a rotated token was never written
  jobless,     \* history: accounts that lost a job to a failure
  replica      \* what each worker knows

tokenMgrVars == <<account, latest, refreshJobs, unwritten, jobless, replica>>

NoTask == [pc |-> "idle", job |-> FALSE, account |-> CHOOSE a \in TokenAccounts : TRUE,
           row |-> [active |-> TRUE, refresh |-> 0, expires |-> "far"], new |-> 0]

\* Each account was just connected and its refresh scheduled.
AccountTokensInit ==
  /\ account = [a \in TokenAccounts |-> [active |-> TRUE, refresh |-> 0, expires |-> "far"]]
  /\ latest = [a \in TokenAccounts |-> 0]
  /\ refreshJobs = [a \in TokenAccounts |-> 1]
  /\ unwritten = {}
  /\ jobless = {}
  /\ replica = [w \in Replicas |-> NoTask]

ReplicaGoes(w, pc) == replica' = [replica EXCEPT ![w].pc = pc]
Finish(w) == replica' = [replica EXCEPT ![w] = NoTask]

Load(w, a, job) ==
  /\ replica[w].pc = "idle"
  /\ replica' = [replica EXCEPT ![w] =
       [pc |-> "loaded", job |-> job, account |-> a, row |-> account[a], new |-> 0]]

-----------------------------------------------------------------------------

\* GetValidAccessToken reads the row.
StartPublication(w) ==
  /\ \E a \in TokenAccounts : Load(w, a, FALSE)
  /\ UNCHANGED <<account, latest, refreshJobs, unwritten, jobless>>

\* The worker claims a refresh_token job and ForceRefreshAccessToken reads.
StartJob(w) ==
  /\ \E a \in TokenAccounts :
       /\ refreshJobs[a] > 0
       /\ Load(w, a, TRUE)
       /\ refreshJobs' = [refreshJobs EXCEPT ![a] = @ - 1]
  /\ UNCHANGED <<account, latest, unwritten, jobless>>

\* A task ends without its work done.  A job that failed, or whose worker
\* died, is pending again, until its attempts are used up.
JobFails(w) ==
  LET a == replica[w].account
  IN  /\ IF replica[w].job
         THEN \/ refreshJobs' = [refreshJobs EXCEPT ![a] = @ + 1] /\ UNCHANGED jobless
              \/ jobless' = jobless \cup {a} /\ UNCHANGED refreshJobs
         ELSE UNCHANGED <<refreshJobs, jobless>>
      /\ Finish(w)

\* The token the provider handed out last is not in the row, and will not be.
NeverWritten(w) == unwritten' = unwritten \cup {replica[w].account}

\* The account is disconnected: an error.
RefuseInactive(w) ==
  /\ replica[w].pc = "loaded" /\ ~replica[w].row.active
  /\ JobFails(w)
  /\ UNCHANGED <<account, latest, unwritten>>

\* The token is not close to its expiry: it is used as it is, unless a job or
\* an answer "expired" of the platform forces the refresh.
UseToken(w) ==
  /\ replica[w].pc = "loaded" /\ replica[w].row.active /\ ~replica[w].job
  /\ replica[w].row.expires = "far"
  /\ Finish(w)
  /\ UNCHANGED <<account, latest, refreshJobs, unwritten, jobless>>

\* The provider takes the refresh token that was read and hands out the next.
Rotates(w) ==
  LET a == replica[w].account
  IN  /\ replica[w].pc = "loaded" /\ replica[w].row.active
      /\ replica[w].row.refresh = latest[a] /\ latest[a] < MaxRefreshes
      /\ latest' = [latest EXCEPT ![a] = @ + 1]

ProviderRefreshes(w) ==
  /\ Rotates(w)
  /\ replica' = [replica EXCEPT ![w].pc = "refreshed", ![w].new = latest[replica[w].account] + 1]
  /\ UNCHANGED <<account, refreshJobs, unwritten, jobless>>

\* The answer is lost after the provider has rotated the token: for
\* refreshToken a failure like any other.
AnswerLost(w) == Rotates(w) /\ NeverWritten(w) /\ JobFails(w) /\ UNCHANGED account

\* The provider refuses a token that was rotated already, or cannot be
\* reached; the message is stored with the account.
ProviderRefuses(w) ==
  /\ replica[w].pc = "loaded" /\ replica[w].row.active
  /\ JobFails(w)
  /\ UNCHANGED <<account, latest, unwritten>>

\* Mutant: the refresh token of the row that was read is written back.
KeepRefreshToken(w) == replica[w].row.refresh

\* The refresh token to store.
NewRefreshToken(w) == replica[w].new

\* Mutant: the row that was read is written back.
WriteRow(w) == [replica[w].row EXCEPT !.refresh = NewRefreshToken(w), !.expires = "far"]

\* persistRefreshedTokens writes the columns of the tokens.
Refreshed(w) ==
  [account[replica[w].account] EXCEPT !.refresh = NewRefreshToken(w), !.expires = "far"]

PersistTokens(w) ==
  /\ replica[w].pc = "refreshed"
  /\ account' = [account EXCEPT ![replica[w].account] = Refreshed(w)]
  /\ ReplicaGoes(w, "delete")
  /\ UNCHANGED <<latest, refreshJobs, unwritten, jobless>>

\* The statement fails, and the answer is dropped with the error.
PersistFails(w) ==
  /\ replica[w].pc = "refreshed"
  /\ NeverWritten(w) /\ JobFails(w)
  /\ UNCHANGED <<account, latest>>

\* Mutant: the new job is inserted before the pending ones are deleted.
DeletesLast == <<"insert", "delete">>

\* ScheduleRefreshJob deletes the pending jobs and then inserts one.
ScheduleOrder == <<"delete", "insert">>

\* Two overlapping refreshes may leave two jobs.
Scheduled(a, what) ==
  refreshJobs' = [refreshJobs EXCEPT ![a] =
    IF what = "delete" THEN 0 ELSE IF @ < MaxJobs THEN @ + 1 ELSE @]

ScheduleDelete(w) ==
  /\ replica[w].pc = "delete"
  /\ Scheduled(replica[w].account, ScheduleOrder[1])
  /\ ReplicaGoes(w, "insert")
  /\ UNCHANGED <<account, latest, unwritten, jobless>>

ScheduleInsert(w) ==
  /\ replica[w].pc = "insert"
  /\ Scheduled(replica[w].account, ScheduleOrder[2])
  /\ Finish(w)
  /\ UNCHANGED <<account, latest, unwritten, jobless>>

\* A statement of ScheduleRefreshJob fails: it is logged, the refresh has
\* succeeded, and so has a job that asked for it.  A worker that dies here in
\* a publication leaves the same.
ScheduleFails(w) ==
  /\ replica[w].pc \in {"delete", "insert"}
  /\ jobless' = IF replica[w].job \/ replica[w].pc = "insert"
                THEN jobless \cup {replica[w].account} ELSE jobless
  /\ Finish(w)
  /\ UNCHANGED <<account, latest, refreshJobs, unwritten>>

\* The worker dies in the middle; the job queue recovers a job.
WorkerDies(w) ==
  /\ replica[w].pc # "idle"
  /\ replica[w].pc \in {"delete", "insert"} => replica[w].job
  /\ IF replica[w].pc = "refreshed" THEN NeverWritten(w) ELSE UNCHANGED unwritten
  /\ JobFails(w)
  /\ UNCHANGED <<account, latest>>

\* DisconnectAccount (its memberships of sets are in AccountSets).
Disconnect(a) ==
  /\ account[a].active
  /\ account' = [account EXCEPT ![a].active = FALSE]
  /\ UNCHANGED <<latest, refreshJobs, unwritten, jobless, replica>>

\* The expiry comes within the lead time.
ComesNear(a) ==
  /\ account[a].expires = "far"
  /\ account' = [account EXCEPT ![a].expires = "near"]
  /\ UNCHANGED <<latest, refreshJobs, unwritten, jobless, replica>>

AccountTokensNext ==
  \/ \E w \in Replicas :
       \/ StartPublication(w) \/ StartJob(w) \/ RefuseInactive(w) \/ UseToken(w)
       \/ ProviderRefreshes(w) \/ AnswerLost(w) \/ ProviderRefuses(w)
       \/ PersistTokens(w) \/ PersistFails(w)
       \/ ScheduleDelete(w) \/ ScheduleInsert(w) \/ ScheduleFails(w)
       \/ WorkerDies(w)
  \/ \E a \in TokenAccounts : Disconnect(a) \/ ComesNear(a)

-----------------------------------------------------------------------------

InFlight(a) == \E w \in Replicas : replica[w].pc # "idle" /\ replica[w].account = a

\* However refreshes overlap, fail and are tried again, the refresh token in
\* the row is the one the provider accepts once none is under way.  Three
\* failures cut an account off, and they alone: the provider's answer is lost
\* after it rotated the token, the answer cannot be written, or the worker
\* dies before it is.
RefreshTokenIsCurrent ==
  \A a \in TokenAccounts \ unwritten : ~InFlight(a) => account[a].refresh = latest[a]

\* However refreshes overlap and delete each other's jobs, an account has one
\* pending or a refresh under way.  It is without only after its job failed
\* for good, or a statement that schedules the next failed, which is logged
\* only, or a worker died between the two.
RefreshIsScheduled ==
  \A a \in TokenAccounts \ jobless : refreshJobs[a] > 0 \/ InFlight(a)

\* A refresh under way does not bring a disconnected account back.
DisconnectIsFinal ==
  [][\A a \in TokenAccounts : ~account[a].active => ~account'[a].active]_account

\* The safety of refreshes that overlap: they alone cost an account neither
\* its token nor its job.
RefreshSafety == RefreshTokenIsCurrent /\ RefreshIsScheduled
=============================================================================
