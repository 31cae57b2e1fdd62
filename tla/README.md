# OpenPost in TLA+

OpenPost is a self-hosted social media scheduler. Its backend is one Go program
(`backend/cmd/openpost`) with a web API, an MCP server, a SQLite or Postgres
database, and a goroutine that executes durable jobs, above all the job that
publishes a post or a thread of posts to several social accounts. The modules
here model how posts get from a client to the platforms, and what surrounds that
way: who may sign in, how accounts are connected and kept usable, what a
workspace stores, and what its plan allows.

Paths are relative to `src/`; `internal/` stands for `backend/internal/`.

## The system

### Components

| Component | State it keeps | What is hard | Modelled by |
|---|---|---|---|
| Job queue, `internal/queue/worker.go` | table `jobs`: status, attempts, run_at, locked_at, locked_by | crash in an execution, several workers, results written from a stale copy | `JobLease`, `JobQueue`, `JobQueueRefinement` |
| Publisher, `internal/services/publisher` | `posts.status`, `post_destinations`, two counters; in memory the accounts that succeeded | every statement and call may fail alone; retries; lost answers; memory lost by a crash | `Publisher` |
| Both together, started by `cmd/openpost/main.go` | | process death at any point, redelivery | `PublishPipeline` |
| Post handlers and MCP tools, `internal/api/handlers/posts.go`, `mcp.go` | `posts`, `post_destinations`, `jobs` | check, then write by id, while workers move | `PostApi`, `ScheduledPosts` |
| Platform adapters, `internal/platform` | ids kept between deliveries; the platform's own state | uploads in parts, polling, lost answers, expired tokens, retries | `PlatformPosts` |
| Token manager, `internal/services/tokenmanager` | access and refresh tokens, refresh jobs | rotating refresh tokens, refreshes that overlap, disconnection in between | `AccountTokens` |
| OAuth, `handlers/oauth.go`, `services/oauthstate`, `services/account_saver`, `x_request_store.go` | states, request tokens, pending selections, accounts | callbacks and restarts between the steps, account limits | `Connections` |
| Provider and Mastodon apps, `services/providerapps`, `platform/registry.go` | rows, environment, adapters in memory, each under several keys | the merge of the two, the start with them | `ProviderApps`, `Connections` |
| API tokens, `services/apitokens`, `api/middleware` | tokens, their last use | revocation during a request, what a limited token may create, approve and allow | `ApiTokens`, `TokenHolders` |
| CLI login, `services/cli_auth`, `src/cli` | device sessions; keyring, file and profile on the user's machine | tokens minted before the session is consumed, interrupted commands | `CliLogin`, `TokenHolders`, `OneShot` |
| MCP OAuth codes, `services/mcpoauth` | authorization codes | overlapping exchanges of one code | `McpCodes`, `TokenHolders`, `OneShot` |
| Authentication, `handlers/auth.go`, `services/mfa`, `services/sessions` | users, factors, challenges, web sessions | handlers of several statements that overlap | `SignIn` |
| Rate limits, `services/ratelimit` | counters per key | the edge of the window | `RateLimiter` |
| Avatars, `handlers/profile.go` | a row and an object | two stores, overlapping uploads | `Avatars` |
| Billing, `services/billing` | subscriptions, webhook ledger | repeated, failing and reordered webhooks, at any time | `Billing`, `Organization` |
| Entitlements and usage, `services/entitlements`, `services/usage` | limits of an organization, monthly counters of each workspace | check and record far apart, plans that shrink | `Entitlements`, `ScheduledPosts`, `Organization`, `Publisher` |
| Workspaces, `handlers/workspaces.go` | workspaces, members, invitations | counts taken before the insert, acceptance against revocation | `Workspaces`, `Organization` |
| Media, `handlers/media.go`, `queue/worker.go` | rows, objects, upload sessions, references of posts and variants | file and row apart, removal against attachment | `MediaLibrary`, `MediaUploads` |
| Posting times, `handlers/posting_schedules.go` | weekly times | the edges of day and week, taken slots | `PostingSchedules` |
| Account sets, `handlers/sets.go` | sets, the default, their accounts | reads before transactions | `AccountSets` |
| Encryption, jobs listing, frontend, sites | | no state of their own, reads, or user interface | not modelled |

### How they interact

A handler of the API writes the post, its destinations and a `publish_post` job
in one transaction. The worker polls the table, locks a job, and calls
`HandlePublishJob` with its payload. The publisher reads and writes the posts and
destinations statement by statement, outside any transaction, asks the token
manager for a token, calls an adapter, and returns an error or nothing; the
worker then writes the job by id. Handlers of the API cancel a publication only
by deleting the job and setting the status of the post: nothing tells an
execution that is already running, and it reads neither the job nor the status
of the post again. The token manager queues refresh jobs of its own, the media
handlers a cleanup job. Device logins and authorization codes both end in a row
of `api_tokens`, and a request that carries such a row may approve the next login
or allow the next code. Webhooks write the limits of an organization, at any time;
the checks of workspaces, members, accounts, storage and scheduled posts read them
through the workspace of the request. Everything else shares a database and not a
row.

`PROJECT.json` lists the hazards one by one, at the line where they bite, with
the properties about them.

## The modules

| Module | Contents |
|---|---|
| `JobLease` | abstract: what the queue promises, without locks, clocks or polling |
| `JobQueue`, `JobQueueRefinement` | the table and the workers; the mapping to `JobLease` |
| `Publisher` | `HandlePublishJob`, one statement or platform call per action |
| `PublishPipeline` | `JobQueue` with `INSTANCE Publisher`: executions are runs of the handler |
| `PostApi` | extends `PublishPipeline` with the requests that edit posts |
| `OneShot` | abstract: a ticket is granted once and buys at most one thing |
| `ApiTokens`, `CliLogin`, `McpCodes` | rows of `api_tokens`, the requests that carry them, and the two logins that mint them; both logins implement `OneShot` |
| `TokenHolders` | the three over one table: tokens that create, approve and allow others |
| `SignIn`, `RateLimiter`, `Avatars` | the web client's entry |
| `ProviderApps`, `Connections`, `AccountTokens`, `PlatformPosts` | from the configuration of an app to a post on its platform |
| `Entitlements`, `Billing`, `Workspaces`, `ScheduledPosts` | limits, where they come from, and two of the handlers they bind |
| `Organization` | those together: workspaces, members and quotas while the plan changes |
| `MediaLibrary`, `MediaUploads` | removal of media, and how they get in |
| `PostingSchedules`, `AccountSets` | settings of a workspace |
| `MCJobQueue`, `MCPublisher`, `MCPublishPipeline`, `MCPostApi`, `MCEntry`, `MCPlatforms`, `MCWorkspace` | the roots of the runs |
| `JobQueueProofs`, `PublisherProofs`, `PublisherThreadProofs`, `PipelineProofs`, `PostApiProofs`, `EntryProofs`, `PlatformProofs`, `WorkspaceProofs` | theorems |

Definitions whose comment begins with "Mutant" or "Faulty variant" are plausible
bugs. The model does not use them; replacing the definition that follows by the
variant breaks a property, which shows that the property depends on that line of
code.

One convention holds throughout. A handler is one action per statement or remote
call that another actor can fall in between, with what it has read in a record of
its own (`req`, `call`, `flow`, `upload`, `replica`, ...); a transaction is one
action, as on SQLite, which the program opens with one connection. A request that
is refused before it changed anything is no step. A handler that dies forgets its
record.

### The queue, the publisher and the post handlers

`job[j]` is a row; `worker[w]` is the position of one worker goroutine and its
copy of the row it executes. A pass is `BeginPass` (the requeue statement), then
`TakeJob` with `Succeed` or `Fail` any number of times, then `EndPass`. Times are
relative: `wait` is `run_at - now` and `lockAge` is `now - locked_at`, and `Tick`
moves both. An inserted row has Go's zero time as `locked_at`, not NULL; the
requeue statement asks for status `processing`, so it makes no difference.
`Succeed` and `Fail` write by id from the copy, without looking at status or lock.

`ClaimIsAtomic` tells the databases apart. On SQLite the claim is one statement.
On Postgres it has a subquery without `FOR UPDATE`: two workers may choose one
row, and the second, after waiting for the row lock, updates it again, because
the outer `WHERE` names only the id. `ChooseJob` and `LockChosen` are the halves.
`Crash` is a process that dies, and also a shutdown: `main` cancels the context,
so the worker's later statements fail.

In `Publisher`, post 0 is the root of a thread and post `p` the reply to `p - 1`.
`run[w]` holds the handler's local variables and its `pc`. `last = 0` is
`publishSinglePost`, anything else `publishThread`; `ok` is `successfulAccounts`,
`okNow` is `successfulInThisPost`. `live` counts what readers of a platform see and
`detached` the replies that were not sent as replies; both exist outside the
program. `DbErrors` lets any single statement fail, with what the code does then.
`LoseReply` and `AcceptWithoutID` are the ways in which a platform publishes and
the program does not learn enough. A destination is written by the id of its row;
an edit replaces the rows, and `gen` tells the sets of rows apart.

`PublishPipeline!Execute` is a claim with the call of the handler, `Finish` its
return with the update of the job, and `Die` also forgets the handler's state. A
request of `PostApi` is `Read`, which refuses what the code refuses by the status
it read, and `Commit`, the transaction. `Unschedule`, `Reschedule`, `Delay` and
`Edit` are the forms of `UpdatePost`; `planned` is `scheduled_at IS NOT NULL`.
`ScheduledPosts` has the part of creation that those leave out: the quota, the
posts of a thread and the count, and the change of the month.

### The ways in

A bearer token is matched (`Authenticate`), its last use written (`Touch`) and then
served, with the row that was read (`Served`); `bearer` is the request with what it
knows of its token, and a web session is the bearer without one. `OpenDecision` and
`Authorize` are made by a served request. Neither handler asks
`WorkspaceScopeAllows`, so neither action looks at the workspace of its bearer;
the one that does is `CreateToken`. `CliLogin` has the server's session row, the
browsers that decide it, the poll of the command, and what the command stores:
the keyring or a file, then the profile; `meant` records what the last command
that succeeded was to leave behind, and `torn` that one stopped between two
writes. `McpCodes` reads, consumes with a counted UPDATE, and mints.

In `SignIn` a request reads what its handler reads and puts the statements that
follow into `todo`; one is executed at a time, and a statement that fails ends
the handler. `Serializable` says whether the transaction that counts users and
inserts one is serialized.

### The ways out

`ProviderApps` merges the entries of the environment with the rows and starts a
server with the result. An adapter is found by its provider or instance and, for a
Mastodon app, by the name of the app too (`AdapterKeys`), and the entries go into
the table of adapters one after the other. `Connections` follows each attempt
(`flow`) to connect an account through states, callbacks and selections; a restart
forgets the copies in memory. `WaysTo` has the three ways to ask for a Mastodon
instance: by the name of its app, with its URL as the name of the server, and with
its URL as the instance to register with. The last registers a client whether or
not the instance is configured, and keeps its adapter under the URL (`KeepAdapter`),
where the second looks (`adapterOf`); a restart puts the configured one back.
`AccountTokens` has `latest`, the refresh token each platform accepts, beside the
rows; a refresh takes a new token there, and saves it and its job in later steps,
while `replica` holds the row that was read. The answer may be lost, the write may
fail, and so may each statement that schedules the next refresh; `unwritten` and
`jobless` remember which accounts that happened to. `PlatformPosts` is the
adapters: what differs between the nine platforms is a function of the platform
(which media, in parts or not, whether to wait, whether to retry), and the steps of
an adapter are those that its functions make. `remote` is the platform. A `large`
file is a GIF or an image of more than 5 MiB, which X takes in parts.

### The workspace

`Billing` delivers events any number of times in any order to one transaction that
asks the ledger first. `Entitlements` has the checks, as operators on a
subscription. In `ScheduledPosts` a counter belongs to a workspace and a month, and
is checked against the limit of the workspace's organization. `PlansHad` are the
limits that the recorded events of an organization have said: a limit that is
checked before an insert can hold for one of those, and need not for the present
one, because a smaller plan takes nothing away. `Organization` lets all of this
happen at any time. `MediaLibrary` has a row and an object per medium, and the two
removals; `MediaUploads` the two ways in. `PostingSchedules` defines the search
as the code searches, day by day over weekdays and minutes, and
`NextSlotIsEarliest` compares it with a definition over all minutes.

## The runs

Faults are counted and bounded (`MaxFaults`, `MaxDbErrors`, `MaxUncounted`),
redelivery by `MaxCounted` and `MaxDeliveries`, requests by `MaxRequests`, refreshes
by `MaxRefreshes`, lateness by `MaxLate`, the limiter's clock by `MaxClock`; lock
ages stop at `StaleAge`.

| Run | Instance | Result |
|---|---|---|
| `queue_replicas` | 2 jobs, 2 workers, 2 attempts, 2 faults; atomic claims, executions within the lock window | types, single execution, retry budget, finality, refinement of `JobLease`; every job settles |
| `publisher_thread` | 3 posts, 2 accounts, one skipping replies, crashes and lost answers | duplicates, order, replies, delivery, write calls, plan |
| `publisher_faults` | 2 posts, 2 accounts, 2 faults among all statements | duplicates and plan |
| `pipeline_restart` | 2 posts, 2 accounts, 1 worker, 2 attempts, 2 crashes, claims in two steps, executions of any length | a settled job leaves nothing pending, every post concludes |
| `api` | 1 post, 1 account, 3 jobs, 2 clients; areas `tools`, `moves` (two requests) and `restarts` (one request, one crash) | types, a scheduled post has a job, the tools leave one, every scheduled post concludes |
| `entry` | 2 tokens, 2 requests, 2 logins, 2 browsers, 1 code with 3 exchanges, 3 emails, 3 challenges, 2 web sessions, 3 attempts in a window of 3, 3 pictures | `HolderSafety`, `WebSafety`, `RefusalsAreFinal`; both logins implement `OneShot`; a login command ends |
| `workspace` | 3 webhooks of 2 plans, 3 users, 4 workspaces, 2 invitations, 2 workspaces that schedule for the second of 2 months, 3 media of 2 contents, weeks of 2 days of 2 minutes, 2 sets | billing, members and limits of workspaces, quota, library, slots and sets |
| `platforms` | 2 environment apps with 1 name, 3 accounts to connect in 2 flows, 2 instances of which 1 is configured, 2 replicas, threads of 3 posts, files of 3 bytes in parts of 2 | provider apps, connections, refreshes, publications and media; disconnection is final, deliveries end |
| `queue_double_claim` | 1 job, 2 workers, claims in two steps | violated: `RecentLocksAreKept` |
| `thread_restart` | `pipeline_restart` with 1 crash | violated: `BlockedOnlyByFailure` |
| `cancel_race` | 1 post, 1 cancellation | violated: `DraftsAreNotPublished` |
| `x_connect` | the instance of `platforms` | violated: `XExchangeFindsSecret` |

### Areas

`entry`, `workspace`, `platforms` and `api` check several components in one run. A behaviour chooses a part of them ("area") at the start and takes the
steps of that part alone; interleaving the rest multiplies the states. The MC
modules say what an area combines:

- `MCPostApi`: the tools and edits of an assistant and a web client; two requests
  that move or edit a post; one of those with a crash of the worker.
- `MCEntry`: tokens by themselves; several logins with one browser, one login with
  several browsers; exchanges of a code; and "delegation", where tokens are created,
  approve a login or allow a code, and are bought by either (one login, one browser
  and one exchange, no row that expires, nothing stored by the command).
  Authenticator codes with overlapping requests, passkeys with one request at a time.
- `MCWorkspace`: billing from nothing; workspaces that are made while the plan
  changes; invitations and members under one plan; two workspaces that schedule
  while the plan shrinks. Two requests that upload or complete, or one beside the
  cleanup; deletion apart from cleanup; posting times that change under one client,
  or that only become more under two.
- `MCPlatforms`: connections by the way they take, a thread without media, one
  post with each kind of media.

What an area leaves out of a composition, the theorems have: `TokenHolders` runs
tokens, logins and codes at once, and `Organization` webhooks, workspaces,
invitations and quotas; the areas are parts of these two, and their properties are
proved of the two (below). Queue, publisher and handlers (`PostApi`), and the
library with its uploads, are composed in the runs as well.

An invariant of these runs is a conjunction of the invariants of the components,
each defined, with its comment, in the module it is about.

### Why the bounds are enough

Two workers, replicas, clients or requests are the smallest number that can race,
and nothing counts them. Two attempts show a retry and the last one.
`StaleAge = 2` leaves a tick in which a lock is held and not stale. Three posts are
the shortest thread with a middle, and the third is the first reply whose root is
not its parent. Two accounts let one succeed while the other fails. Two
faults let one strike while the first is being repaired. Two tokens are one that
another has made or approved. Three webhooks are an order that can be wrong in the
middle, and a larger plan between two smaller ones. Four workspaces are one more
than two requests can make under a plan of two; two that schedule show that one counter is
not the other. A limit of one with two requests exceeds
by one. A file of three in parts of two has a last part that is smaller. Weeks
of two days let the search cross both edges. Three
exchanges of a code leave one that finds it consumed while another mints. With
`MaxAttempts = 1`, `api` leaves retries to `pipeline_restart`.

The requests of a team are symmetric in `workspace`, which checks invariants only.

Deadlock is checked where time passes (the queue, the pipeline and the post
handlers). In the other runs the model stops: deliveries and requests run out.

### Fairness

- `JobQueue`: weak fairness of time and of each worker's `Work`. The ticker fires
  while the process lives, a supervisor restarts a process (the documentation
  installs OpenPost as a container that is always restarted), and every handler
  returns. Nothing is assumed of clients; crashes are bounded in number.
  `PublishPipeline` and `MCPostApi` assume the same of the composed actions.
- `LoginFairness`: the command runs, sleeps and times out (its HTTP client waits 60
  seconds), the server answers while it lives, and the clock goes on. Nothing is
  assumed of the user in the browser.
- `MCPlatforms`: weak fairness of `AdapterStep`, the adapter's own statements. The
  platform need not process anything, ever; `DeliveryEnds` says that the loops of
  the adapters have bounds. It excludes X, whose loop over processing media has
  none (`x.go:407`).

## The disagreements found

- `queue_double_claim`: the claim (`worker.go:112`) neither locks the row that it
  chooses nor checks its status again; on Postgres two workers execute one job.
- `thread_restart`: `successfulAccounts` is lost by a restart, and the rest of the
  thread is failed with a message about a failure that did not happen
  (`publisher.go:263`); as `publishThread` returns no error the job is completed.
- `cancel_race`: `cancel_post` checks a status and then writes by id, while a
  worker claims the job (`mcp.go:2509`).
- `x_connect`: the callback of X consumes the stored request token; `ExchangeCode`
  consumes it again, finds nothing, and does not look at the copy that was kept
  for it (`x.go:166`).

### Seen while modelling

What follows is not claimed against the code, because no text of the repository
says otherwise or because a property already excludes it by name.

Publishing:
- when the destinations of a post cannot be read, `publishThread` goes on with the
  accounts of the post before, and the next post is published without its
  predecessor (`publisher.go:220`; `ThreadOrder` is checked without failing
  statements);
- `UpdatePost` writes the status it read from a root that is publishing to all
  replies, published ones included (`posts.go:1776`);
- two web requests that schedule one draft leave two jobs (`posts.go:1728`); a new
  delay that races an unscheduling queues a draft (`posts.go:1748`); accounts
  replaced during a run are published again; `cancel_post` on a root leaves its
  replies scheduled without a job; a post unscheduled during a run whose process
  then dies stays "publishing" and `DeletePost` refuses it (`posts.go:1694`);
- an execution that outlasts 15 minutes is executed again by another replica; a
  retry finalizes and counts published posts of a thread again
  (`publisher.go:328`);
- accounts of custom Mastodon instances are not in the publisher's adapters before
  a restart, and the handlers' map of adapters is written by concurrent requests
  (`oauth.go:330`).

Adapters:
- TikTok ignores the reply id (`tiktok.go:166`), reports success when its polling
  runs out (`tiktok.go:309`), and repeats the publication when a poll meets an
  expired token; YouTube uploads again after a lost answer or a failed save; the
  client of X has no timeout (`x.go:513`); Mastodon's wait ignores its context;
  Instagram takes an answer without a status for finished (`instagram.go:230`) and
  publishes a container that is not; LinkedIn comments drop media, and
  LinkedIn and Threads use the first attachment only;
- without an id in the answer, Facebook and Instagram report an error after the
  publication, and X, Mastodon, LinkedIn and Threads success with an empty id.

Accounts and access:
- a Mastodon app saved without a secret stops the next start (`main.go:118`); an
  update of an app that overlaps a rotation of its secret may restore the old one;
  an instance listed twice in `MASTODON_SERVERS` is replaced under its URL by the
  later entry, or by the row, while the earlier one stays in the adapters under its
  own name (`registry.go:119`, `registry.go:166`);
- a configured Mastodon instance that is given as the instance to register with gets
  a client of its own, which takes the place of the configured one under the URL
  until a restart puts that back (`oauth.go:305`, `oauth.go:330`): a code asked for
  in between is exchanged with another client than asked for it, and refused;
- a refresh whose answer is lost after the provider rotated the token, or whose
  result cannot be written, leaves the row with a token the provider refuses
  (`manager.go:124`, `manager.go:190`), and a failed `ScheduleRefreshJob` is only
  logged (`manager.go:194`);
- two overlapping completions of a selection save two accounts, and reconnecting
  inserts a new row; `Consume` of an OAuth state does not count rows
  (`oauthstate/store.go:59`); accounts are counted before the insert;
- a token that is limited to a workspace may approve a device login
  (`cli_auth.go:173`), which mints a token without a limit, and allow a code of the
  MCP server for another workspace or for none (`mcp_oauth.go:61`): neither handler
  asks `WorkspaceScopeAllows`, as the handler that creates tokens does, whose test
  says why (`api_tokens_test.go:104`); what is claimed is of created tokens only
  (`CreationStaysInWorkspace`);
- two polls of one device session may both mint; only the command, which stops at
  the first answer that is not "pending", keeps a login at one token (this is what
  the proof about logins relies on);
- two overlapping answers to one login challenge both get a session; a challenge
  survives a passkey login until it expires; on Postgres two first registrations
  both become administrator.

Plans and teams:
- a smaller plan takes nothing away: an organization keeps the workspaces and the
  scheduled posts of the plan before (`billing/service.go:348`);
- the quota of scheduled posts is that of the organization's plan and is counted per
  workspace (`usage/service.go:27`), so each workspace may use it up;
- the last delivered webhook wins (`billing/service.go:348`); a subscription without
  limit metadata has no limits; errors of a webhook answer 401;
- two invitations that overlap, or one accepted between the two counts, exceed the
  seats (`workspaces.go:661`), and acceptance checks neither again;
- scheduling a draft or moving a post to another month with `UpdatePost` neither
  checks nor counts the quota; a count that fails answers 500 although the post
  exists; `IncrementMonthly` may lose updates on Postgres (`usage/service.go:43`);
- settings of a workspace are read and written back whole.

Media:
- the hash of a file is unique in the table while duplicates are looked up per
  workspace; two completions of one upload count its size twice; a storage error
  in the second marks a medium that is ready as failed;
- a medium attached after the check for references was made is lost (`late`); edits
  of variants and the removal of references overwrite each other; with local files
  an interrupted deletion cannot be repeated (`removing`);
- the chain of cleanup jobs ends with a job that fails or with a change of
  settings, and doubles when two updates overlap.

Posting times and sets:
- a suggested slot reserves nothing, and a negative random delay frees one early;
- `UpdateSet` with only a name writes the default flag back that it read
  (`sets.go:387`, `carried`); a set deleted while accounts are added keeps rows of
  members; its posting times keep its id.

## What is proved

With TLAPS, for any values of the constants that satisfy the assumptions named in
the modules:

| Theorem | Says | Hypotheses |
|---|---|---|
| `JobQueueProofs!TypeOKHolds`, `SingleExecutionHolds`, `RetryBudgetHolds`, `SettledIsFinalHolds` | the safety of the queue | `LocksAreSafe` |
| `JobQueueProofs!ImplementsLeaseHolds` | the queue implements `JobLease` | `LocksAreSafe` |
| `PublisherProofs!PublisherTypeHolds` | types | |
| `PublisherProofs!DuplicatesCostFaultsHolds` | at most one publication per destination, and one more per fault | `OneWorker` |
| `PublisherThreadProofs!PlanLimitHolds` | the limit of published posts, but for counts that faults lost | `OneWorker`, `Accounts # {}` |
| `PublisherThreadProofs!ThreadOrderHolds`, `RepliesAreAttachedHolds`, `PublishedMeansDeliveredHolds`, `WriteCallsStayInPlanHolds` | replies follow what they reply to and are sent as replies but for one per fault; "published" means delivered; calls stay in the plan | `OneWorker`, `DbErrors = FALSE` |
| `PipelineProofs!SettledJobsConcludeHolds`, `PipelineDelivers` | a settled job leaves nothing pending, and what the publisher promises it promises when the queue drives it | `OneServer` |
| `PostApiProofs!ApiTypeOKHolds`, `ScheduledIsQueuedHolds` | types; a scheduled post has a job | finite `Jobs`, `DbErrors = FALSE` |
| `PostApiProofs!ToolsLeaveOneJobHolds` | tools leave at most one job, and none for a draft | the same, `LocksAreSafe` |
| `EntryProofs!LoginImplementsOneShotHolds`, `CodesImplementOneShotHolds` | a login buys one token at most, after it was approved, and so does a code, whoever approves and allows | |
| `EntryProofs!HolderSafetyHolds` | what a limited token creates stays in its workspace, and what a code buys in the workspace that was allowed; the command uses the token it was last given; one exchange of a code at most is past its consumption | |
| `EntryProofs!RefusalsAreFinalHolds` | revoked and lapsed tokens and web sessions, and decisions of logins, stay so | |
| `EntryProofs!WebSafetyHolds` | the safety of the web client | `Serializable` |
| `PlatformProofs!RefreshSafetyHolds`, `DisconnectIsFinalHolds` | once no refresh is under way, the stored refresh token is the current one, unless one that the provider handed out was never written, and has a job, unless the job failed for good, the next could not be scheduled, or a worker died before it was; nothing revives an account | |
| `PlatformProofs!ConnectionSafetyHolds` | a code goes to the app that asked for it, but for a configured instance that is looked up under its URL; a used selection has its account, and accounts pass the limit only by requests checked at once | |
| `PlatformProofs!PublicationSafetyHolds`, `MediaSafetyHolds` | success means a post, a thread has one root, a delivery posts once; posts show their own media, whole and, but for a container of Instagram, processed, which are uploaded once and not refused after validation | |
| `PlatformProofs!OverrideWinsHolds` | a running server uses the active row of its start, else the last entry of the environment, by instance and by name; earlier entries of an instance keep their own names | |
| `WorkspaceProofs!InOrderIsCaughtUpHolds`, `TeamSafetyHolds`, `QuotaSafetyHolds` | webhooks in order, members and the limit on workspaces, the quota: for any plans, changing at any time, each limit held against one that the organization has had | |
| `WorkspaceProofs!SlotSafetyHolds` | the search for a slot is right for days and weeks of any length, and so is its use | |
| `WorkspaceProofs!LibrarySafetyHolds` | media that posts wait to publish with are kept, ready media have their files, stored files keep to the quota | |
| `WorkspaceProofs!SetSafetyHolds`, `WorkspaceSetSafetyHolds` | one default, connected accounts | |

The hypotheses are about the constants. `LocksAreSafe`: claims are atomic, and
either executions end within the lock window or there is one worker;
`queue_double_claim` shows that the first half is needed. `OneWorker`: one run of
the handler at a time, which is what single execution gives for one job.
`OneServer` is `OneWorker` with `DbErrors = FALSE`; the claims and the executions
of `PipelineProofs` may still be cut short and outlast their locks. `DbErrors =
FALSE`: statements of the handler do not fail one by one, while processes die and
answers are lost; when the destinations of a post cannot be read, `ThreadOrder`
fails (see above). `Serializable`: transactions are serialized, as on SQLite. Jobs,
requests and a thread's posts are finite, and a post has an account, because
without one the code has nothing to publish or to count. The other
assumptions say that lengths and limits are numbers, that "none" is nobody's id,
that ids of different kinds differ where one table or set holds both, that requests
are finitely many, that the founder is a user, and that the media a library begins
with are within the quota and have files of their own; TLC evaluates each of them in
a run.

*The queue.* Single execution is not inductive. `IInv` adds that a worker that
executes a job holds it: the row is `processing`, unless it was deleted, its
`locked_by` is that worker, its attempts are those of the worker's copy, and under
`Timely` its lock is younger than the stale age. So a requeue cannot touch a job
that is executed, a claim cannot find one, and a result is written over the row it
was read from. The refinement follows from `IInv`: the holder of a lease is the
worker that executes the job, and the only additional fact it needs is that a row
that was never inserted has no attempts (`NewRows`). Each action becomes one of
`JobLease`; ticks, and whatever happens to an execution whose row was deleted,
become stuttering.

*The publisher.* `live <= 1 + faults` says nothing of what a retry may still do.
`DupInv` adds that a destination that is neither `success` in the table nor just
answered by the platform shows the post at most once per fault, and that what a
run still has to publish did not succeed before. `RowsStay` says that no edit
replaces the rows, which is true of the publisher alone. `TypeInv` types the
local variables of a run by where it is.

*Threads.* The four properties of a thread are one invariant, `ThreadInv`: what a
run remembers (`ok`, `okNow`, the post and the destination in hand) agrees with the
rows (`ThreadRun`), a success in a row is visible or was skipped, and a post is
published only when all its rows are successes (`RowsInv`). A detached reply is
charged to an id that never reached the table (`DetachedInv`), and there are no
more of those than faults (`LostInv`). A call is counted before it is made, so the
call in hand is already in `writes` (`WriteInv`). `PlanInv` is about the posts that
are published or will be when the run that completed them ends (`Reckoned`): all
but the one in hand were counted, or a fault lost the count, and a run that goes on
with a post either has room for it or has failed a destination of it.

*The pipeline.* `PipeInv` joins the publisher's invariants, instantiated, with what
ties a job to its run: there is one job, a worker has locals of the handler only
while it executes (`WorkerInv`), and a settled job left every post with its verdict
and no destination pending (`SettledInv`). `ProgressInv` adds to the publisher that
posts before the one in hand have theirs. The one worker requeues nothing while it
executes, so a job that is executed stays in processing, however long it takes.

*The handlers.* That a scheduled root has a live job is not inductive, because the job
may be about to be settled. `ApiInv` says that one of the root's live jobs is not
executed, or by a run that has not marked the root yet (`Waiting`): what such a run
finally writes is the verdict on the present plan. Replicas may execute one job
twice; no lock is assumed. `RowsLeft` charges every row of `jobs` to a request, so
the bounded set of ids is never used up. `ToolsInv` has the property itself for
every post: a job that a tool inserts replaces those that were there.

*Logins and codes.* A code is consumed before its token is minted, by an UPDATE that
counts its rows, so the invariant `CodesInv` is about the code: who is about to mint
has consumed it, and nothing was minted for it. A login is the other way round, and
nothing in the session row keeps a second poll out. `LoginInv` therefore relates
the server to the command: where the command may send a poll (`MayPoll`), no poll
is under way and nothing was minted, and a poll that may still lead to a token,
or whose answer sends the command back to its loop, has none yet. `HolderInv` joins
them with the tokens and with what the command has stored, over the steps of all
three (`TokenHolders`). `TokensInv` says that a request remembers the workspace its
token still has, and that parents were issued before their children; that logins
and codes are no tokens keeps what they mint out of its way.

*The web client.* `WebInv` has a part for each module. `SignInInv` says what the
statements a handler still has to make (`todo`) may be, given the challenge they
are about, so that no order of two handlers leaves a challenge or a secret behind;
`LimiterInv` that the attempts in the window are the last ones accepted, and that
of any earlier stretch as long as the limit the first came a window before the
present one began;
`AvatarsInv` that a saved object nobody has seen belongs to one upload, and that an
upload that is about to delete an object has replaced it in the row.

*Tokens of accounts.* The theorem about refreshes needs two facts beside the
properties: what a refresh that is past the provider holds is what the provider
accepts, and otherwise the row is, unless a token was never written (`CurrentInv`);
and an account without a job that no failure took has a refresh that is about to
insert one (`SomeoneSchedules`).

*Connections.* `CodesKnow` ties a code of the platform to the client of the instance
in its state, and `Knows` a request to the state, the instance and the client it has
read, and the way the instance was asked for (`by`); the client that is registered
at an instance never changes once there is one, because the insert keeps the row
that is there, and what is kept under a name never changes at all. Only what is kept
under the URL of a configured instance does (`Loose`). `RoomForAccounts` counts the accounts with the
requests that were allowed one.

*Posts on the platforms.* `AdaptersInv` rests on one fact about a platform: it forgets
nothing, and what is ready does not change (`RemoteKeeps`); so what an object shows,
what a row names and what is on record stay true whatever happens later
(`ObjectStays`, `NamesStays`, `UsableStays`). An upload in hand is the last object
there, and its parts cover the first `sent` units of the file (`UploadFits`,
`Covers`), which the arithmetic of `NextPart` keeps. The delivery under way has made
no post until it is told of one (`NoneYet`), and none with a renewed token before it
renewed it (`NoneRenewed`); together they leave room for one post in a delivery.

*Provider apps.* What `MergeAppConfigs` computes is shown for every list by an
induction over its loop, stated with the smallest round that goes wrong (`SmallestNat`,
`MergeExists`, `MergeUses`). The sequence of the rows has each active row, because
they are finitely many, which is part of `AppsInv`. A name is either that of an app in
force or of an entry that a later one of its instance superseded, and the table is
filled in the order of the list, so the last of a name is what it keeps.

*Teams.* The limit on workspaces counts requests that were checked at once.
`RoomIsKept` is the inductive form: the workspaces of an organization and the
requests that passed the check for it together stay below the limit and all
requests but one: of the present plan when the room was found, and so always of one
the organization has had (`PlansHad`, which only grows). `RequestsKnow` says what an accepted or inserted invitation was
checked for.

*Billing.* "The last delivered webhook wins" makes the subscription a function of the
ledger. `BillingInv` says so without a fold: the provider's table holds what the last
event of each organization in `sent` says, and the program's table what the last in
`ledger` says (`Follows`); an event is recorded once. When the events were recorded
in the order in which they were sent, the two are the same event.

*The quota.* `AllowedNearLimit` is `ScheduledNearLimit` with the posts that were
allowed and are not written yet: a request was allowed with what its workspace had
counted at the time, by a plan of the organization, and what is not counted is in the other requests, at most one of each
(`OthersFit`).

*Media.* A removal looks for references, then deletes, and a draft may attach the
media in between; so a reference counts as `Firm` when it was made before a removal
of the medium had begun. `RemovalInv` says that a removal which is
past its look found no firm reference that it respects (`DeleterLooked`,
`CleanupLooked`), and that no reference to media that are `Going` becomes firm.
`UploadInv` ties the files to the rows and to the requests that hold one
(`FileInHand`); `StoredRoom` counts what is stored with the requests that passed
the check.

*Posting times.* `SearchIsRight` compares two searches: by days and weekdays, as in
the code, and over all minutes. It rests on lemmas about dividing a time into a
day and a minute. `SlotInv` adds that an answer whose minute was taken since is
known to be stale.

*Sets.* `SetsInv` has the types and the two properties in a form without counting.

The invariants were checked by TLC on small instances before they were proved.
`HolderSafety` and the two refinements are proved of `HoldersSpec`, and the billing,
the teams and the quota of `OrganizationSpec`: specifications in which all their
steps interleave. The runs check parts of these: an area of `MCEntry` takes steps of
`HoldersNext`, and one of `MCWorkspace` steps of `OrganizationNext` from a state
that `OrganizationInit` leads to. The other theorems of `EntryProofs`,
`PlatformProofs` and `WorkspaceProofs` are about the specifications that the runs
check; `PostApiProofs` is about `ApiSpec` where it says nothing of tools, without the
areas of its run; `SetSafetyHolds` is about `SetsSpec`, whose steps
are those of the area "sets".

Some definitions were brought into a form that can be reasoned about, without
changing what they say: `RateLimiter` remembers the times of accepted attempts as
a sequence, `InOrderIsCaughtUp` compares the order of events pairwise, `InFlight`
counts pairs of a request and a place in it, a new workspace has a name
(`NewWorkspace`), a client that a request registers at an instance is named after
the request, `MergeAppConfigs` is a recursive function over the loop instead of a
fold, and alternatives that are tried in order are IF and ELSE.

### Only model-checked

Liveness (`JobsSettle`, `EveryPostConcludes`, `ScheduledConcludes`, `LoginEnds`,
`DeliveryEnds`), which needs fairness and ENABLED and is beyond the prover. Every
safety invariant and action property of the passing runs is also a theorem, under
the hypotheses of the table.

## Not modelled

- Overlapping transactions: they are indivisible, as on SQLite. Postgres, which the
  program also supports, is modelled only where a run names it (the claim,
  `Serializable`).
- Reads and listings, validation of formats, names, passwords, and everything that
  is only wording: variants and renditions of texts, thread drafts, prompts,
  profiles of accounts, reports, thumbnails, signed addresses, mail.
- Pure functions of libraries: encryption, hashing, signatures, time zones and
  daylight saving (posting times are minutes of one zone).
- The workspace settings, checkouts and the customer portal, the rotation of
  secrets of provider apps, the schedule by which the cleanup job queues itself,
  the protocol frames of MCP, schema and migrations.
- The frontend and the commands of the CLI besides login and logout: each is one
  request of a handler.
- Deliveries of one destination that overlap are in `Publisher` and not in
  `PlatformPosts`, whose deliveries follow one another.
